----------------------------- MODULE MCIssuance -----------------------------
(* Instances of TokenIssuance for TLC.                                     *)
EXTENDS TokenIssuance, TLC
CONSTANTS u1, u2, t1, t2

MCTenantOf == (u1 :> t1) @@ (u2 :> t2)

\* An empty table gives the default policy.  The strict one knows two roles,
\* one by its short name.
MCConfig ==
    [default |-> <<>>,
     strict |-> ("viewer" :> {<<"chathub", "read">>})
                @@ ("tenant.operator" :> {<<"chathub", "read">>, <<"saker", "run">>})]

\* A full key and a short one of the same role.
AliasConfig ==
    [default |-> ("viewer" :> {<<"chathub", "read">>})
                 @@ ("tenant.viewer" :> {<<"chathub", "read">>, <<"saker", "run">>})]

MCRoleSets == {{"viewer"}, {"tenant.operator", "legacy.admin"}, {"admin"}}

\* Known actions, and an unknown one with scopes asked besides.
MCAsks ==
    {[audience |-> "chathub", actions |-> {"list", "write"}, scopes |-> {}],
     [audience |-> "saker", actions |-> {"knit"},
      scopes |-> {<<"saker", "run">>, <<"saker", "approve">>}]}

\* The users are alike, each with the own tenant.
Swap == (u1 :> u2) @@ (u2 :> u1) @@ (t1 :> t2) @@ (t2 :> t1)
Symmetry == Permutations(Requests) \cup Permutations(RunIds \ Named) \cup {Swap}
=============================================================================
