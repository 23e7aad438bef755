--------------------------- MODULE MCCredentials ---------------------------
(* Instances of WardenCredentials for TLC.                                 *)
EXTENDS WardenCredentials, TLC, FiniteSets

\* One policy, under which everybody may everything, or any.
Generous == {[R \in RoleSets |-> Scopes]}
AnyPolicy == [RoleSets -> SUBSET Scopes]

Symmetry == Permutations(Requests) \cup Permutations(KeyIds) \cup Permutations(Codes)
            \cup Permutations(Scopes)

(* Bounds: what is combined with what.                                     *)

Begun == {r \in Requests : call[r].op # Idle.op}
BegunOps == {call[r].op : r \in Begun}

DeviceOps == {"approve", "exchange"}

\* The calls of the device flow with each other, or the others among themselves.
OneKind ==
    \/ BegunOps \subseteq DeviceOps
    \/ BegunOps \cap DeviceOps = {} /\ \A c \in Codes : device[c] = Unissued

\* Two statuses change; roles and policy stay generous.
UnderStatuses ==
    /\ events <= 2
    /\ policy \in Generous /\ \A u \in Users : roles[u] \in Managers
    /\ \A r \in Requests :
          past[r].policies \subseteq Generous /\ \A u \in Users : past[r].held[u] \subseteq Managers

\* Roles and the other policies change, and nothing else, around two calls: one
\* that makes a key and one that uses it, or the device flow of one code.  No call
\* breaks off.  A third change only around a single use: for a scope allowed at no
\* moment to be signed, it takes one change before the call and two during it.
UnderRules ==
    /\ policy \notin Generous /\ \A r \in Requests : past[r].policies \cap Generous = {}
    /\ Cardinality(Begun) <= 2
    /\ events <= 2 \/ (Cardinality(Begun) <= 1 /\ BegunOps \subseteq {"useKey"})
    /\ \E together \in {{"createKey", "useKey"}, {"createAccount", "useKey"}, DeviceOps} :
          BegunOps \subseteq together
    /\ \A q, r \in Begun : call[q].op = call[r].op => q = r
    /\ \A r \in Requests : ~At(r, "denied")
    /\ tenant = "active" /\ \A h \in Holders : status[h] # "disabled"
    /\ \A k \in KeyIds : key[k] = Unissued \/ ~key[k].expired
    /\ Cardinality({c \in Codes : device[c] # Unissued}) <= 1
    /\ \A c \in Codes :
          IF device[c] = Unissued THEN \A r \in Begun : call[r].arg # c ELSE ~device[c].expired

Together == OneKind /\ (UnderStatuses \/ UnderRules)
=============================================================================
