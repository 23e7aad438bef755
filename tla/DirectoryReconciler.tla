------------------------ MODULE DirectoryReconciler ------------------------
(***************************************************************************)
(* The background reconciliation of directory users: DirectoryReconciler   *)
(* runs CasdoorDirectorySource.Reconcile at every tick, which syncs every  *)
(* known subject and revokes those the directory no longer lists, while    *)
(* users sign in and the directory changes.                                *)
(*                                                                         *)
(* One tenant is mapped, so a subject stands for its projection there;     *)
(* registration is open.  The store calls of a worker, a loop or a         *)
(* sign-in, are steps of their own, and what it has read may be stale.     *)
(* A loop runs in a context that it derives from the one its Start is      *)
(* given: the host may end it, and the reconciler does not learn of that.  *)
(***************************************************************************)
EXTENDS Naturals

CONSTANTS
    Subjects,
    Loops,          \* goroutines that Start may create, each once
    SignIns,        \* sign-ins under way at once
    MaxSignIns,     \* bound on the sign-ins
    MaxChanges,     \* bound on the changes of the directory
    MaxFailures,    \* bound on failing directory and store calls
    None

VARIABLES
    directory,      \* what the directory says of each subject
    status,         \* the status of each projection
    sessions,       \* subjects with a stored session
    cancel,         \* the loop whose cancel the reconciler keeps
    canceled,       \* loops whose context is done, by Stop or by the host
    worker,         \* where each loop and sign-in is
    known,          \* the subjects that each loop has yet to sync
    budget          \* what is left of the bounds

vars == <<directory, status, sessions, cancel, canceled, worker, known, budget>>

Workers == Loops \cup SignIns

ASSUME WorkersAssumption ==
    Loops \cap SignIns = {} /\ None \notin Loops \cup Subjects

ASSUME BoundsAssumption == {MaxSignIns, MaxChanges, MaxFailures} \subseteq Nat

Listing == {"member", "blocked", "absent"}
Status == {"missing", "active", "disabled"}
CallPoint == {"fetch", "read", "write", "purge", "revoke", "check", "put"}
Point == CallPoint \cup {"unused", "waiting", "passing", "ended", "idle"}

TypeOK ==
    /\ directory \in [Subjects -> Listing]
    /\ status \in [Subjects -> Status]
    /\ sessions \subseteq Subjects
    /\ cancel \in Loops \cup {None} /\ canceled \subseteq Loops
    /\ worker \in [Workers -> [pc : Point, subject : Subjects \cup {None},
                               listing : Listing, seen : Status]]
    /\ known \in [Loops -> SUBSET Subjects]
    /\ budget \in [signIns : 0 .. MaxSignIns, changes : 0 .. MaxChanges,
                   failures : 0 .. MaxFailures]

Blank(point) == [pc |-> point, subject |-> None, listing |-> "absent", seen |-> "missing"]

Init ==
    /\ directory = [s \in Subjects |-> "member"]
    /\ status = [s \in Subjects |-> "missing"]
    /\ sessions = {}
    /\ cancel = None /\ canceled = {}
    /\ worker = [w \in Workers |-> Blank(IF w \in Loops THEN "unused" ELSE "idle")]
    /\ known = [l \in Loops |-> {}]
    /\ budget = [signIns |-> MaxSignIns, changes |-> MaxChanges, failures |-> MaxFailures]

----------------------------------------------------------------------------
At(w, point) == worker[w].pc = point
Subject(w) == worker[w].subject

\* What was read is of no use after the write, the subject none after its calls.
Goto(w, point) ==
    worker' = [worker EXCEPT ![w] =
        [Blank(point) EXCEPT !.subject = IF point \in CallPoint THEN Subject(w) ELSE None]]

\* A loop goes on with its pass; a sign-in creates its session.
Rest(w) == IF w \in Loops THEN "passing" ELSE "check"

\* The loop drops the error of a pass and waits for the next tick.
GiveUp(w) == Goto(w, IF w \in Loops THEN "waiting" ELSE "idle")

----------------------------------------------------------------------------
\* Faulty variant: a second Start replaces the first.
StartAgain(l) ==
    /\ At(l, "unused")
    /\ cancel' = l
    /\ Goto(l, "waiting")
    /\ UNCHANGED <<directory, status, sessions, canceled, known, budget>>

\* While a cancel is kept Start does nothing, though its loop may have ended.
Start(l) ==
    /\ At(l, "unused") /\ cancel = None
    /\ cancel' = l
    /\ Goto(l, "waiting")
    /\ UNCHANGED <<directory, status, sessions, canceled, known, budget>>

\* Stop waits for the loop no longer than its own context lasts, so that the
\* pass may go on when it returns.
Stop ==
    /\ cancel # None
    /\ canceled' = canceled \cup {cancel}
    /\ cancel' = None
    /\ UNCHANGED <<directory, status, sessions, worker, known, budget>>

\* The host ends the context it gives, or gave, to Start.
EndContext(l) ==
    /\ l \notin canceled
    /\ canceled' = canceled \cup {l}
    /\ UNCHANGED <<directory, status, sessions, cancel, worker, known, budget>>

EndLoop(l) ==
    /\ At(l, "waiting") /\ l \in canceled
    /\ Goto(l, "ended")
    /\ UNCHANGED <<directory, status, sessions, cancel, canceled, known, budget>>

\* Faulty variants: users without a session are left alone, or the directory is
\* asked for its users.
BeginPassOnline(l) ==
    /\ At(l, "waiting") /\ l \notin canceled
    /\ known' = [known EXCEPT ![l] = {s \in sessions : status[s] # "missing"}]
    /\ Goto(l, "passing")
    /\ UNCHANGED <<directory, status, sessions, cancel, canceled, budget>>

BeginPassOfDirectory(l) ==
    /\ At(l, "waiting") /\ l \notin canceled
    /\ known' = [known EXCEPT ![l] = {s \in Subjects : directory[s] = "member"}]
    /\ Goto(l, "passing")
    /\ UNCHANGED <<directory, status, sessions, cancel, canceled, budget>>

\* The tick, and the subjects that the store lists for the tenant.
BeginPass(l) ==
    /\ At(l, "waiting") /\ l \notin canceled
    /\ known' = [known EXCEPT ![l] = {s \in Subjects : status[s] # "missing"}]
    /\ Goto(l, "passing")
    /\ UNCHANGED <<directory, status, sessions, cancel, canceled, budget>>

\* Subjects come in the random order of a Go map.
PickSubject(l, s) ==
    /\ At(l, "passing") /\ l \notin canceled /\ s \in known[l]
    /\ known' = [known EXCEPT ![l] = @ \ {s}]
    /\ worker' = [worker EXCEPT ![l].pc = "fetch", ![l].subject = s]
    /\ UNCHANGED <<directory, status, sessions, cancel, canceled, budget>>

EndPass(l) ==
    /\ At(l, "passing")
    /\ known[l] = {} \/ l \in canceled
    /\ known' = [known EXCEPT ![l] = {}]
    /\ worker' = [worker EXCEPT ![l] = Blank("waiting")]
    /\ UNCHANGED <<directory, status, sessions, cancel, canceled, budget>>

SignIn(w, s) ==
    /\ At(w, "idle") /\ budget.signIns > 0
    /\ worker' = [worker EXCEPT ![w] = [Blank("fetch") EXCEPT !.subject = s]]
    /\ budget' = [budget EXCEPT !.signIns = @ - 1]
    /\ UNCHANGED <<directory, status, sessions, cancel, canceled, known>>

----------------------------------------------------------------------------
\* SyncUser: who is absent yields no snapshot, which a sign-in is refused for
\* and a pass revokes.
Fetch(w) ==
    LET listing == directory[Subject(w)] IN
    /\ At(w, "fetch")
    /\ IF listing = "absent"
       THEN Goto(w, IF w \in Loops THEN "revoke" ELSE "idle")
       ELSE worker' = [worker EXCEPT ![w].pc = "read", ![w].listing = listing]
    /\ UNCHANGED <<directory, status, sessions, cancel, canceled, known, budget>>

ReadPrincipal(w) ==
    /\ At(w, "read")
    /\ worker' = [worker EXCEPT ![w].seen = status[Subject(w)], ![w].pc = "write"]
    /\ UNCHANGED <<directory, status, sessions, cancel, canceled, known, budget>>

ProjectedStatus(w) ==
    IF worker[w].listing = "blocked" \/ worker[w].seen = "disabled"
    THEN "disabled" ELSE "active"

WritePrincipal(w) ==
    /\ At(w, "write")
    /\ status' = [status EXCEPT ![Subject(w)] = ProjectedStatus(w)]
    /\ Goto(w, IF ProjectedStatus(w) = "disabled" THEN "purge" ELSE Rest(w))
    /\ UNCHANGED <<directory, sessions, cancel, canceled, known, budget>>

RevokePrincipal(l) ==
    /\ At(l, "revoke")
    /\ status' = [status EXCEPT ![Subject(l)] = "disabled"]
    /\ Goto(l, "purge")
    /\ UNCHANGED <<directory, sessions, cancel, canceled, known, budget>>

PurgeSessions(w) ==
    /\ At(w, "purge")
    /\ sessions' = sessions \ {Subject(w)}
    /\ Goto(w, Rest(w))
    /\ UNCHANGED <<directory, status, cancel, canceled, known, budget>>

CheckPrincipal(w) ==
    /\ At(w, "check")
    /\ Goto(w, IF status[Subject(w)] = "active" THEN "put" ELSE "idle")
    /\ UNCHANGED <<directory, status, sessions, cancel, canceled, known, budget>>

PutSession(w) ==
    /\ At(w, "put")
    /\ sessions' = sessions \cup {Subject(w)}
    /\ Goto(w, "idle")
    /\ UNCHANGED <<directory, status, cancel, canceled, known, budget>>

\* A call fails, or is refused because the loop's context is done.
Fail(w) ==
    /\ \E point \in {"fetch", "read", "write", "purge", "revoke", "check", "put"} : At(w, point)
    /\ IF w \in canceled THEN budget' = budget
       ELSE budget.failures > 0 /\ budget' = [budget EXCEPT !.failures = @ - 1]
    /\ GiveUp(w)
    /\ UNCHANGED <<directory, status, sessions, cancel, canceled, known>>

DirectoryChanges(s) ==
    /\ budget.changes > 0
    /\ \E listing \in Listing \ {directory[s]} : directory' = [directory EXCEPT ![s] = listing]
    /\ budget' = [budget EXCEPT !.changes = @ - 1]
    /\ UNCHANGED <<status, sessions, cancel, canceled, worker, known>>

Call(w) ==
    \/ Fetch(w) \/ ReadPrincipal(w) \/ WritePrincipal(w)
    \/ PurgeSessions(w) \/ CheckPrincipal(w) \/ PutSession(w)

Pass(l) ==
    \/ BeginPass(l) \/ (\E s \in Subjects : PickSubject(l, s)) \/ RevokePrincipal(l)
    \/ EndPass(l) \/ EndLoop(l)

Next ==
    \/ \E l \in Loops : Start(l) \/ EndContext(l) \/ Pass(l)
    \/ Stop
    \/ \E w \in SignIns, s \in Subjects : SignIn(w, s)
    \/ \E w \in Workers : Call(w) \/ Fail(w)
    \/ \E s \in Subjects : DirectoryChanges(s)

\* The ticker goes on, goroutines that can run do run, and a call ends.
Spec ==
    /\ Init /\ [][Next]_vars
    /\ \A l \in Loops : WF_vars(Pass(l))
    /\ \A w \in Workers : WF_vars(Call(w))

----------------------------------------------------------------------------
\* The reconciler was started, in a context that the host has not ended since.
Reconciling == cancel # None /\ cancel \notin canceled

\* Removed and blocked users end up disabled and signed out while the
\* reconciler runs, whatever a sign-in with an older answer wrote over it and
\* although a session is stored after the purge: the next pass does it again
\* (casdoor_directory.go:249-268).  A reconciler whose context has ended keeps
\* its cancel but reconciles nothing, and no Start revives it before a Stop.
RemovalIsReconciled ==
    \A s \in Subjects :
        <>[](directory[s] # "member" /\ Reconciling) =>
            <>[](status[s] # "active" /\ s \notin sessions)

\* A Stop that did not wait for the loop leaves none behind: every loop but the
\* last one started is on its way out (reconciler.go:29-61).
StrayLoopsCanceled ==
    \A l \in Loops :
        ~At(l, "unused") /\ ~At(l, "ended") /\ l # cancel => l \in canceled

\* A pass is no sign-in: it disables and refreshes projections but brings no
\* session and no subject the store did not know
\* (oidc-directory.md, "does not auto-provision every IdP user").
PassesOnlyRefresh ==
    [][/\ \A s \in Subjects : status[s] = "missing" /\ status'[s] # "missing" =>
              \E w \in SignIns : Subject(w) = s /\ At(w, "write")
       /\ \A s \in sessions' \ sessions : \E w \in SignIns : Subject(w) = s /\ At(w, "put")]_vars
=============================================================================
