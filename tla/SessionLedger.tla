---------------------------- MODULE SessionLedger ----------------------------
(***************************************************************************)
(* What the identity service promises about a session ID: it is issued     *)
(* once, to one principal; while it lives it may be moved between the      *)
(* projections of the same user and nowhere else; once it has ended it     *)
(* never comes back.  How many requests run, and what they read when, is   *)
(* not mentioned.                                                          *)
(***************************************************************************)
CONSTANTS Principals, UserOf(_), SessionIds, Unissued, Deleted

VARIABLE owner      \* Unissued, Deleted or the principal a session acts as

Init == owner \in [SessionIds -> Principals \cup {Unissued}]

Live(s) == owner[s] \notin {Unissued, Deleted}

Issue(s, p) ==
    /\ owner[s] = Unissued
    /\ owner' = [owner EXCEPT ![s] = p]

Move(s, p) ==
    /\ Live(s)
    /\ UserOf(p) = UserOf(owner[s])
    /\ owner' = [owner EXCEPT ![s] = p]

\* Any set of live sessions ends together.
End(S) ==
    /\ \A s \in S : Live(s)
    /\ owner' = [s \in SessionIds |-> IF s \in S THEN Deleted ELSE owner[s]]

Next ==
    \/ \E s \in SessionIds, p \in Principals : Issue(s, p) \/ Move(s, p)
    \/ \E S \in SUBSET SessionIds : End(S)

Spec == Init /\ [][Next]_owner

=============================================================================
