---------------------------- MODULE MCOidcLogin ----------------------------
\* Instances of OidcLogin for TLC.
EXTENDS OidcLogin, TLC

Symmetry == Permutations(Browsers) \cup Permutations(Users)
            \cup Permutations(States) \cup Permutations(Calls)
=============================================================================
