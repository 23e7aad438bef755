----------------------------- MODULE MCIdentity -----------------------------
(* Instances of WardenIdentity for TLC.                                    *)
EXTENDS WardenIdentity, TLC

CONSTANTS alice, bob, t1, t2, s1, s2, s3, r1, r2, r3

\* One user with a projection in each of two tenants, owned by the directory,
\* and an administrator known to Warden alone.
TwoTenants == {<<alice, t1>>, <<alice, t2>>, <<bob, t1>>}
AliceEverywhere == {<<alice, t1>>, <<alice, t2>>}
AliceHere == {<<alice, t1>>}
OneTenant == {<<alice, t1>>, <<bob, t1>>}
AliceAndBobHere == {<<alice, t1>>, <<bob, t1>>}
Administrators == {<<bob, t1>>}
NoPrincipals == {}

Symmetry == Permutations(Requests) \cup Permutations(SessionIds)
=============================================================================
