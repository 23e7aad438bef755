--------------------------- MODULE OidcAuthority ---------------------------
(***************************************************************************)
(* resolveOIDC of Warden (warden/oidc_authority.go): logins share one      *)
(* client of the identity provider, which the first of them builds.  A     *)
(* channel with one slot admits a single discovery at a time; the others   *)
(* wait in line for the slot or leave when their context is canceled.      *)
(***************************************************************************)
EXTENDS Sequences, SequencesExt

CONSTANT Callers    \* goroutines that call resolveOIDC again and again

VARIABLES
    pc,             \* where each caller is
    canceled,       \* callers whose context is done
    gate,           \* what fills oidcGate: the slot's holder, if any
    queue,          \* callers blocked on the slot, in the order they came
    client,         \* oidcClient is set
    backoff         \* now is before oidcRetryAfter

authorityVars == <<pc, canceled, gate, queue, client, backoff>>

Answer == {"client", "unavailable", "canceled"}
Point == {"idle", "entering", "selecting", "waiting", "holding", "discovering"} \cup Answer

AuthorityTypeOK ==
    /\ pc \in [Callers -> Point]
    /\ canceled \subseteq Callers
    /\ gate \in {{}} \cup {{c} : c \in Callers}
    /\ queue \in Seq(Callers)
    /\ client \in BOOLEAN /\ backoff \in BOOLEAN

AuthorityInit ==
    /\ pc = [c \in Callers |-> "idle"]
    /\ canceled = {}
    /\ gate = {}
    /\ queue = <<>>
    /\ client = FALSE /\ backoff = FALSE

----------------------------------------------------------------------------
Move(c, point) == pc' = [pc EXCEPT ![c] = point]

Call(c) ==
    /\ pc[c] = "idle"
    /\ Move(c, "entering")
    /\ UNCHANGED <<canceled, gate, queue, client, backoff>>

CheckContext(c) ==
    /\ pc[c] = "entering"
    /\ Move(c, IF c \in canceled THEN "canceled" ELSE "selecting")
    /\ UNCHANGED <<canceled, gate, queue, client, backoff>>

\* The select: with the slot free and the context done either case may run.
SelectGate(c) ==
    /\ pc[c] = "selecting" /\ gate = {}
    /\ gate' = {c}
    /\ Move(c, "holding")
    /\ UNCHANGED <<canceled, queue, client, backoff>>

SelectDone(c) ==
    /\ pc[c] = "selecting" /\ c \in canceled
    /\ Move(c, "canceled")
    /\ UNCHANGED <<canceled, gate, queue, client, backoff>>

SelectBlocks(c) ==
    /\ pc[c] = "selecting" /\ gate # {} /\ c \notin canceled
    /\ queue' = Append(queue, c)
    /\ Move(c, "waiting")
    /\ UNCHANGED <<canceled, gate, client, backoff>>

\* Faulty variant: a mutex cannot be left while it is taken.
LeaveOnceFree(c) ==
    /\ pc[c] = "waiting" /\ c \in canceled /\ gate = {}
    /\ \E i \in DOMAIN queue : queue[i] = c /\ queue' = RemoveAt(queue, i)
    /\ Move(c, "canceled")
    /\ UNCHANGED <<canceled, gate, client, backoff>>

LeaveQueue(c) ==
    /\ pc[c] = "waiting" /\ c \in canceled
    /\ \E i \in DOMAIN queue : queue[i] = c /\ queue' = RemoveAt(queue, i)
    /\ Move(c, "canceled")
    /\ UNCHANGED <<canceled, gate, client, backoff>>

\* Faulty variant: the latest comer gets the slot.
ReleaseToLatest(c, answer) ==
    IF queue = <<>>
    THEN gate' = {} /\ queue' = queue /\ Move(c, answer)
    ELSE /\ gate' = {Last(queue)}
         /\ queue' = Front(queue)
         /\ pc' = [pc EXCEPT ![c] = answer, ![Last(queue)] = "holding"]

\* Faulty variant: who waited relies on what held before the wait.
ReleaseToDiscovery(c, answer) ==
    IF queue = <<>>
    THEN gate' = {} /\ queue' = queue /\ Move(c, answer)
    ELSE /\ gate' = {Head(queue)}
         /\ queue' = Tail(queue)
         /\ pc' = [pc EXCEPT ![c] = answer, ![Head(queue)] = "discovering"]

\* The deferred receive: a blocked sender, the first in line, gets the slot.
Release(c, answer) ==
    IF queue = <<>>
    THEN gate' = {} /\ queue' = queue /\ Move(c, answer)
    ELSE /\ gate' = {Head(queue)}
         /\ queue' = Tail(queue)
         /\ pc' = [pc EXCEPT ![c] = answer, ![Head(queue)] = "holding"]

LookUp(c) ==
    /\ pc[c] = "holding"
    /\ IF client THEN Release(c, "client")
       ELSE IF backoff THEN Release(c, "unavailable")
       ELSE Move(c, "discovering") /\ UNCHANGED <<gate, queue>>
    /\ UNCHANGED <<canceled, client, backoff>>

DiscoverySucceeds(c) ==
    /\ pc[c] = "discovering"
    /\ client' = TRUE
    /\ Release(c, "client")
    /\ UNCHANGED <<canceled, backoff>>

\* Faulty variant: every failure starts the backoff.
DiscoveryErrorBacksOff(c) ==
    /\ pc[c] = "discovering"
    /\ backoff' = TRUE
    /\ Release(c, IF c \in canceled THEN "canceled" ELSE "unavailable")
    /\ UNCHANGED <<canceled, client>>

\* The factory's error counts against the provider only if the context that
\* it ran under is not done.
DiscoveryError(c) ==
    /\ pc[c] = "discovering"
    /\ IF c \in canceled
       THEN Release(c, "canceled") /\ UNCHANGED backoff
       ELSE Release(c, "unavailable") /\ backoff' = TRUE
    /\ UNCHANGED <<canceled, client>>

\* No client, or one for another callback URL: the provider's fault.
DiscoveryUnusable(c) ==
    /\ pc[c] = "discovering"
    /\ backoff' = TRUE
    /\ Release(c, "unavailable")
    /\ UNCHANGED <<canceled, client>>

Discovery(c) == DiscoverySucceeds(c) \/ DiscoveryError(c) \/ DiscoveryUnusable(c)

BackoffEnds ==
    /\ backoff
    /\ backoff' = FALSE
    /\ UNCHANGED <<pc, canceled, gate, queue, client>>

Cancel(c) ==
    /\ pc[c] \notin Answer \cup {"idle"} /\ c \notin canceled
    /\ canceled' = canceled \cup {c}
    /\ UNCHANGED <<pc, gate, queue, client, backoff>>

\* The caller goes on; its next call has a context of its own.
Return(c) ==
    /\ pc[c] \in Answer
    /\ Move(c, "idle")
    /\ canceled' = canceled \ {c}
    /\ UNCHANGED <<gate, queue, client, backoff>>

Resolve(c) ==
    \/ CheckContext(c)
    \/ SelectGate(c) \/ SelectDone(c) \/ SelectBlocks(c)
    \/ LeaveQueue(c) \/ LookUp(c)

AuthorityNext ==
    \/ \E c \in Callers : Call(c) \/ Resolve(c) \/ Discovery(c) \/ Cancel(c) \/ Return(c)
    \/ BackoffEnds

\* Goroutines that can run do run.  The factory may hang: that it returns is a
\* hypothesis of the properties that need it.
AuthoritySpec ==
    /\ AuthorityInit /\ [][AuthorityNext]_authorityVars
    /\ \A c \in Callers : WF_authorityVars(Resolve(c))

\* The factory's HTTP client has a timeout (boundedOIDCClient).
FactoryReturns == \A c \in Callers : WF_authorityVars(Discovery(c))

----------------------------------------------------------------------------
\* Every variable has its type, and the slot and the line agree with where the
\* callers are: the holder alone is past the select, the line lists exactly who
\* waits, and nobody waits for a free slot.
GateConsistent ==
    /\ AuthorityTypeOK
    /\ \A c \in Callers : pc[c] \in {"holding", "discovering"} <=> c \in gate
    /\ ToSet(queue) = {c \in Callers : pc[c] = "waiting"}
    /\ IsInjective(queue)
    /\ gate = {} => queue = <<>>

\* Concurrent initialization is shared: whoever runs the factory holds the slot
\* alone, and nobody runs it once there is a client, however long he waited
\* (oidc_authority.go:20-29).
SharedDiscovery ==
    \A c \in Callers : pc[c] = "discovering" =>
        gate = {c} /\ ~client /\ \A d \in Callers : pc[d] = "discovering" => d = c

\* A canceled login does not poison the next: the backoff starts only with a
\* caller who is told that the provider is unavailable (oidc_authority.go:33-39).
BackoffIsForFailures ==
    [][~backoff /\ backoff' =>
          \E c \in Callers : pc[c] = "discovering" /\ pc'[c] = "unavailable"]_authorityVars

\* A waiting login can be canceled also if the discovery it waits for hangs.
CanceledCallerLeaves ==
    \A c \in Callers : pc[c] = "waiting" /\ c \in canceled ~> pc[c] # "waiting"

\* Every call is answered if the factory always returns, although others keep
\* coming, canceling and failing.
EveryCallAnswered ==
    FactoryReturns => \A c \in Callers : pc[c] = "entering" ~> pc[c] \in Answer
=============================================================================
