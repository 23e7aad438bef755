---------------------------- MODULE ServiceLease ----------------------------
(***************************************************************************)
(* What a registration promises to those who read the service directory:   *)
(* the listing is a lease.  Only a service that is registering asks for    *)
(* one; while it runs, and until its Stop has returned, it may ask to      *)
(* prolong the lease it has; what is left when the service is gone only    *)
(* runs out, but for what it had asked before and the directory carries    *)
(* out late, each request once.  Connections, commands, retries and        *)
(* outages are not mentioned.                                              *)
(***************************************************************************)
EXTENDS Naturals

CONSTANT TTL        \* ticks a new or prolonged lease lasts

VARIABLES
    holder,         \* "registering", "running", "leaving", "gone"
    lease,          \* ticks the service is still listed
    asked           \* requests that nobody waits for: how many of either kind

Nothing == [grant |-> 0, renew |-> 0]

Init == holder = "registering" /\ lease = 0 /\ asked = Nothing

\* A registration that fails may leave the lease it got last.
Grant ==
    /\ holder = "registering"
    /\ lease' = TTL
    /\ holder' \in {"registering", "gone"}
    /\ UNCHANGED asked

Renew ==
    /\ holder \in {"running", "leaving"} /\ lease > 0
    /\ lease' = TTL
    /\ UNCHANGED <<holder, asked>>

\* A request whose answer is not waited for; a registration may fail with it.
LeaveAsked ==
    /\ \/ /\ holder = "registering" /\ holder' \in {"registering", "gone"}
          /\ asked' = [asked EXCEPT !.grant = @ + 1]
       \/ /\ holder \in {"running", "leaving"} /\ UNCHANGED holder
          /\ asked' = [asked EXCEPT !.renew = @ + 1]
    /\ UNCHANGED lease

\* A lease that ran out or was lost is not prolonged.
CarryOut ==
    /\ \/ asked.grant > 0 /\ asked' = [asked EXCEPT !.grant = @ - 1] /\ lease' = TTL
       \/ /\ asked.renew > 0 /\ asked' = [asked EXCEPT !.renew = @ - 1]
          /\ lease' = IF lease > 0 THEN TTL ELSE lease
    /\ UNCHANGED holder

\* Time passes, or the directory loses its data or what it was asked.
Shrink ==
    /\ lease' <= lease /\ lease' \in Nat
    /\ asked' \in {asked, Nothing}
    /\ UNCHANGED holder

GoOn ==
    /\ \/ holder = "registering" /\ holder' \in {"running", "gone"}
       \/ holder = "running" /\ holder' = "leaving"
       \/ holder = "leaving" /\ holder' = "gone"
    /\ UNCHANGED <<lease, asked>>

Next == Grant \/ Renew \/ LeaveAsked \/ CarryOut \/ Shrink \/ GoOn

Spec == Init /\ [][Next]_<<holder, lease, asked>>

=============================================================================
