--------------------------- MODULE Casdoor_proofs ---------------------------
(***************************************************************************)
(* Warden beside Casdoor: the loops of DirectoryReconciler, for any number *)
(* of starts, stops, subjects and sign-ins, and the manager of the Casdoor *)
(* sidecar, for any number of callers and starts.                          *)
(***************************************************************************)
EXTENDS DirectoryReconciler, CasdoorManager, TLAPS

----------------------------------------------------------------------------
(* The reconciler.                                                         *)

Worker == [pc : Point, subject : Subjects \cup {None}, listing : Listing, seen : Status]

\* A call is about a subject.
SubjectKnown == \A w \in Workers : worker[w].pc \in CallPoint => Subject(w) \in Subjects

\* A loop that was started is the current one or canceled.
IInv == TypeOK /\ SubjectKnown /\ StrayLoopsCanceled

LEMMA InvInit == Init => IInv
<1> SUFFICES ASSUME Init PROVE IInv
  OBVIOUS
<1>1. TypeOK
  BY BoundsAssumption DEF Init, TypeOK, Blank, Listing, Status, Point, CallPoint
<1>2. StrayLoopsCanceled
  BY DEF Init, StrayLoopsCanceled, At, Blank, Workers
<1>3. SubjectKnown
  BY DEF Init, SubjectKnown, Blank, CallPoint
<1> QED
  BY <1>1, <1>2, <1>3 DEF IInv

\* A step that moves one worker: it comes to a place its locals allow and, when
\* it is a loop, was under way before and stays so.
LEMMA MoveKeeps ==
    ASSUME IInv, NEW w \in Workers, NEW x \in Worker,
           worker' = [worker EXCEPT ![w] = x],
           x.pc \in CallPoint => x.subject \in Subjects,
           w \in Loops => ~At(w, "unused") /\ ~At(w, "ended"),
           UNCHANGED <<cancel, canceled>>
    PROVE  /\ worker' \in [Workers -> Worker]
           /\ SubjectKnown'
           /\ StrayLoopsCanceled'
<1>1. worker \in [Workers -> Worker]
  BY DEF IInv, TypeOK, Worker
<1>2. worker' \in [Workers -> Worker]
  BY <1>1
<1>3. SubjectKnown'
  BY <1>1 DEF IInv, SubjectKnown, Subject
<1>4. StrayLoopsCanceled'
  BY <1>1 DEF IInv, StrayLoopsCanceled, At, Workers
<1> QED
  BY <1>2, <1>3, <1>4

\* Goto is such a step, to any point that is no call, or from one call to
\* another.
LEMMA GotoKeeps ==
    ASSUME IInv, NEW w \in Workers, NEW point \in Point, Goto(w, point),
           ~At(w, "unused") /\ ~At(w, "ended"),
           point \in CallPoint => worker[w].pc \in CallPoint,
           UNCHANGED <<cancel, canceled>>
    PROVE  /\ worker' \in [Workers -> Worker]
           /\ SubjectKnown'
           /\ StrayLoopsCanceled'
<1> DEFINE x == [Blank(point) EXCEPT !.subject = IF point \in CallPoint THEN Subject(w) ELSE None]
<1>1. point \in CallPoint => Subject(w) \in Subjects
  BY DEF IInv, SubjectKnown
<1>2. x \in Worker /\ x.pc = point /\ (point \in CallPoint => x.subject \in Subjects)
  BY <1>1 DEF Worker, Blank, Listing, Status
<1>3. worker' = [worker EXCEPT ![w] = x]
  BY DEF Goto
<1>4. x.pc \in CallPoint => x.subject \in Subjects
  BY <1>2
<1> HIDE DEF x
<1> QED
  BY <1>2, <1>3, <1>4, MoveKeeps

LEMMA InvNext == IInv /\ [Next]_vars => IInv'
<1> SUFFICES ASSUME IInv, [Next]_vars PROVE IInv'
  OBVIOUS
<1> USE DEF Worker, CallPoint
<1>t. worker \in [Workers -> Worker] /\ TypeOK
  BY DEF IInv, TypeOK
<1>1. ASSUME NEW l \in Loops, Start(l) PROVE IInv'
  <2>1. TypeOK'
    BY <1>1, <1>t DEF Start, Goto, Blank, TypeOK, Point, Listing, Status, Workers
  <2>2. SubjectKnown'
    BY <1>1, <1>t DEF IInv, Start, Goto, Blank, SubjectKnown, Subject, Workers
  <2>3. StrayLoopsCanceled'
    BY <1>1, <1>t, WorkersAssumption DEF IInv, TypeOK, Start, Goto, Blank, StrayLoopsCanceled, At, Workers
  <2> QED
    BY <2>1, <2>2, <2>3 DEF IInv
<1>2. CASE Stop
  BY <1>2, <1>t DEF IInv, Stop, TypeOK, SubjectKnown, StrayLoopsCanceled, At, Subject
<1>3. ASSUME NEW l \in Loops, EndLoop(l) PROVE IInv'
  <2>1. TypeOK'
    BY <1>3, <1>t DEF EndLoop, Goto, Blank, TypeOK, Point, Listing, Status, Workers
  <2>2. SubjectKnown'
    BY <1>3, <1>t DEF IInv, EndLoop, Goto, Blank, SubjectKnown, Subject, Workers
  <2>3. StrayLoopsCanceled'
    BY <1>3, <1>t DEF IInv, EndLoop, Goto, Blank, StrayLoopsCanceled, At, Workers
  <2> QED
    BY <2>1, <2>2, <2>3 DEF IInv
<1>4. ASSUME NEW l \in Loops, BeginPass(l) PROVE IInv'
  <2>1. worker' \in [Workers -> Worker] /\ SubjectKnown' /\ StrayLoopsCanceled'
    BY <1>4, GotoKeeps DEF BeginPass, At, Point, Workers
  <2> QED
    BY <1>4, <1>t, <2>1 DEF BeginPass, IInv, TypeOK
<1>5. ASSUME NEW l \in Loops, NEW s \in Subjects, PickSubject(l, s) PROVE IInv'
  <2> DEFINE x == [worker[l] EXCEPT !.pc = "fetch", !.subject = s]
  <2>1. x \in Worker /\ x.pc = "fetch" /\ x.subject = s
    BY <1>t DEF Workers, Point
  <2>2. worker' = [worker EXCEPT ![l] = x]
    BY <1>5, <1>t DEF PickSubject, Workers
  <2> HIDE DEF x
  <2>3. worker' \in [Workers -> Worker] /\ SubjectKnown' /\ StrayLoopsCanceled'
    BY <1>5, <2>1, <2>2, MoveKeeps DEF PickSubject, At, Workers
  <2> QED
    BY <1>5, <1>t, <2>3 DEF PickSubject, IInv, TypeOK
<1>6. ASSUME NEW l \in Loops, EndPass(l) PROVE IInv'
  <2>1. Blank("waiting") \in Worker /\ Blank("waiting").pc = "waiting"
    BY DEF Blank, Point, Listing, Status
  <2>2. worker' \in [Workers -> Worker] /\ SubjectKnown' /\ StrayLoopsCanceled'
    BY <1>6, <2>1, MoveKeeps DEF EndPass, At, Workers
  <2> QED
    BY <1>6, <1>t, <2>2 DEF EndPass, IInv, TypeOK
<1>7. ASSUME NEW w \in SignIns, NEW s \in Subjects, SignIn(w, s) PROVE IInv'
  <2> DEFINE x == [Blank("fetch") EXCEPT !.subject = s]
  <2>1. x \in Worker /\ x.pc = "fetch" /\ x.subject = s
    BY DEF Blank, Point, Listing, Status
  <2>2. worker' = [worker EXCEPT ![w] = x]
    BY <1>7 DEF SignIn
  <2> HIDE DEF x
  <2>3. worker' \in [Workers -> Worker] /\ SubjectKnown' /\ StrayLoopsCanceled'
    BY <1>7, <2>1, <2>2, MoveKeeps DEF SignIn, At, Workers
  <2>4. budget' \in [signIns : 0 .. MaxSignIns, changes : 0 .. MaxChanges,
                      failures : 0 .. MaxFailures]
    BY <1>7, <1>t, BoundsAssumption DEF SignIn, TypeOK
  <2> QED
    BY <1>7, <1>t, <2>3, <2>4 DEF SignIn, IInv, TypeOK
<1>8. ASSUME NEW w \in Workers, Fetch(w) PROVE IInv'
  <2>1. Subject(w) \in Subjects
    BY <1>8 DEF Fetch, At, IInv, SubjectKnown
  <2>2. CASE directory[Subject(w)] = "absent"
    <3> DEFINE point == IF w \in Loops THEN "revoke" ELSE "idle"
    <3>1. Goto(w, point) /\ point \in Point
      BY <1>8, <2>2 DEF Fetch, Point
    <3> HIDE DEF point
    <3>2. worker' \in [Workers -> Worker] /\ SubjectKnown' /\ StrayLoopsCanceled'
      BY <1>8, <3>1, GotoKeeps DEF Fetch, At
    <3> QED
      BY <1>8, <1>t, <3>2 DEF Fetch, IInv, TypeOK
  <2>3. CASE directory[Subject(w)] # "absent"
    <3> DEFINE x == [worker[w] EXCEPT !.pc = "read", !.listing = directory[Subject(w)]]
    <3>1. x \in Worker /\ x.subject = Subject(w)
      BY <1>t, <2>1 DEF TypeOK, Subject, Point
    <3>2. worker' = [worker EXCEPT ![w] = x]
      BY <1>8, <1>t, <2>3 DEF Fetch
    <3> HIDE DEF x
    <3>3. worker' \in [Workers -> Worker] /\ SubjectKnown' /\ StrayLoopsCanceled'
      BY <1>8, <2>1, <3>1, <3>2, MoveKeeps DEF Fetch, At
    <3> QED
      BY <1>8, <1>t, <3>3 DEF Fetch, IInv, TypeOK
  <2> QED
    BY <2>2, <2>3
<1>9. ASSUME NEW w \in Workers, ReadPrincipal(w) PROVE IInv'
  <2> DEFINE x == [worker[w] EXCEPT !.seen = status[Subject(w)], !.pc = "write"]
  <2>1. Subject(w) \in Subjects
    BY <1>9 DEF ReadPrincipal, At, IInv, SubjectKnown
  <2>2. x \in Worker /\ x.subject = Subject(w)
    BY <1>t, <2>1 DEF TypeOK, Subject, Point
  <2>3. worker' = [worker EXCEPT ![w] = x]
    BY <1>9, <1>t DEF ReadPrincipal
  <2> HIDE DEF x
  <2>4. worker' \in [Workers -> Worker] /\ SubjectKnown' /\ StrayLoopsCanceled'
    BY <1>9, <2>1, <2>2, <2>3, MoveKeeps DEF ReadPrincipal, At
  <2> QED
    BY <1>9, <1>t, <2>4 DEF ReadPrincipal, IInv, TypeOK
<1>10. ASSUME NEW w \in Workers, WritePrincipal(w) PROVE IInv'
  <2>1. worker' \in [Workers -> Worker] /\ SubjectKnown' /\ StrayLoopsCanceled'
    BY <1>10, GotoKeeps DEF WritePrincipal, Rest, At, Point
  <2>2. ProjectedStatus(w) \in Status
    BY DEF ProjectedStatus, Status
  <2> QED
    BY <1>10, <1>t, <2>1, <2>2 DEF WritePrincipal, IInv, TypeOK
<1>11. ASSUME NEW l \in Loops, RevokePrincipal(l) PROVE IInv'
  <2>1. worker' \in [Workers -> Worker] /\ SubjectKnown' /\ StrayLoopsCanceled'
    BY <1>11, GotoKeeps DEF RevokePrincipal, At, Point, Workers
  <2> QED
    BY <1>11, <1>t, <2>1 DEF RevokePrincipal, IInv, TypeOK, Status
<1>12. ASSUME NEW w \in Workers, PurgeSessions(w) PROVE IInv'
  <2>1. worker' \in [Workers -> Worker] /\ SubjectKnown' /\ StrayLoopsCanceled'
    BY <1>12, GotoKeeps DEF PurgeSessions, Rest, At, Point
  <2> QED
    BY <1>12, <1>t, <2>1 DEF PurgeSessions, IInv, TypeOK
<1>13. ASSUME NEW w \in Workers, CheckPrincipal(w) PROVE IInv'
  <2>1. worker' \in [Workers -> Worker] /\ SubjectKnown' /\ StrayLoopsCanceled'
    BY <1>13, GotoKeeps DEF CheckPrincipal, At, Point
  <2> QED
    BY <1>13, <1>t, <2>1 DEF CheckPrincipal, IInv, TypeOK
<1>14. ASSUME NEW w \in Workers, PutSession(w) PROVE IInv'
  <2>1. worker' \in [Workers -> Worker] /\ SubjectKnown' /\ StrayLoopsCanceled'
    BY <1>14, GotoKeeps DEF PutSession, At, Point
  <2>2. Subject(w) \in Subjects
    BY <1>14 DEF PutSession, At, IInv, SubjectKnown
  <2> QED
    BY <1>14, <1>t, <2>1, <2>2 DEF PutSession, IInv, TypeOK
<1>15. ASSUME NEW w \in Workers, Fail(w) PROVE IInv'
  <2>1. worker' \in [Workers -> Worker] /\ SubjectKnown' /\ StrayLoopsCanceled'
    BY <1>15, GotoKeeps DEF Fail, GiveUp, At, Point
  <2>2. budget' \in [signIns : 0 .. MaxSignIns, changes : 0 .. MaxChanges,
                      failures : 0 .. MaxFailures]
    BY <1>15, <1>t, BoundsAssumption DEF Fail, TypeOK
  <2> QED
    BY <1>15, <1>t, <2>1, <2>2 DEF Fail, IInv, TypeOK
<1>16. ASSUME NEW s \in Subjects, DirectoryChanges(s) PROVE IInv'
  <2>1. TypeOK'
    BY <1>16, <1>t, BoundsAssumption DEF DirectoryChanges, TypeOK
  <2> QED
    BY <1>16, <2>1 DEF DirectoryChanges, IInv, SubjectKnown, StrayLoopsCanceled, At, Subject
<1>17. ASSUME NEW l \in Loops, EndContext(l) PROVE IInv'
  BY <1>17, <1>t DEF EndContext, IInv, TypeOK, SubjectKnown, StrayLoopsCanceled, At, Subject
<1>18. CASE UNCHANGED vars
  BY <1>18 DEF vars, IInv, TypeOK, SubjectKnown, StrayLoopsCanceled, At, Subject
<1> QED
  BY <1>1, <1>2, <1>3, <1>4, <1>5, <1>6, <1>7, <1>8, <1>9, <1>10, <1>11, <1>12,
     <1>13, <1>14, <1>15, <1>16, <1>17, <1>18 DEF Next, Pass, Call

\* The types, and what is known of loops and calls, hold for any number of
\* loops and sign-ins (reconciler.go:25-75).
THEOREM ReconcilerInvariant == Spec => []IInv
  BY InvInit, InvNext, PTL DEF Spec

\* However often the reconciler is started and stopped, with stops that did not
\* wait, at most the last loop goes on (reconciler.go:29-61).
THEOREM StrayLoopsEnd == Spec => []StrayLoopsCanceled
<1>1. IInv => StrayLoopsCanceled
  BY DEF IInv
<1> QED
  BY <1>1, ReconcilerInvariant, PTL

----------------------------------------------------------------------------
\* A loop syncs only subjects that the store knows, and takes no step of a
\* sign-in.
LoopsKeepToKnown ==
    \A l \in Loops :
        /\ \A s \in known[l] : status[s] # "missing"
        /\ worker[l].pc \in CallPoint => status[Subject(l)] # "missing"
        /\ worker[l].pc \notin {"check", "put"}

LEMMA KnownInit == Init => LoopsKeepToKnown
  BY DEF Init, LoopsKeepToKnown, Blank, Workers, CallPoint

\* The store never forgets a subject.
LEMMA NeverMissing ==
    ASSUME IInv, Next, NEW s \in Subjects, status[s] # "missing"
    PROVE  status'[s] # "missing"
<1>1. ASSUME NEW w \in Workers, WritePrincipal(w) \/ RevokePrincipal(w)
      PROVE  status'[s] # "missing"
  BY <1>1 DEF WritePrincipal, ProjectedStatus, RevokePrincipal, IInv, TypeOK
<1>2. CASE status' = status
  BY <1>2
<1> QED
  BY <1>1, <1>2 DEF Workers, Next, Start, EndContext, Pass, BeginPass, PickSubject, EndPass, EndLoop, Stop,
     SignIn, Call, Fetch, ReadPrincipal, PurgeSessions, CheckPrincipal, PutSession, Fail,
     DirectoryChanges

\* Where a loop comes to, and with which subject.
LEMMA LoopMoves ==
    ASSUME IInv, Next, LoopsKeepToKnown, NEW l \in Loops
    PROVE  /\ worker'[l].pc \notin {"check", "put"}
           /\ worker'[l].pc \in CallPoint =>
                 \/ worker[l].pc \in CallPoint /\ worker'[l].subject = Subject(l)
                 \/ worker'[l].subject \in known[l]
           /\ known'[l] \subseteq known[l] \/ known'[l] = {s \in Subjects : status[s] # "missing"}
<1> USE DEF CallPoint
<1>t. worker \in [Workers -> Worker] /\ known \in [Loops -> SUBSET Subjects] /\ l \in Workers
  BY DEF IInv, TypeOK, Worker, Workers
<1>l. worker[l].pc \notin {"check", "put"}
  BY DEF LoopsKeepToKnown
<1> DEFINE Concl ==
      /\ worker'[l].pc \notin {"check", "put"}
      /\ worker'[l].pc \in CallPoint =>
            \/ worker[l].pc \in CallPoint /\ worker'[l].subject = Subject(l)
            \/ worker'[l].subject \in known[l]
      /\ known'[l] \subseteq known[l] \/ known'[l] = {s \in Subjects : status[s] # "missing"}
<1>1. ASSUME NEW k \in Loops, Start(k) \/ BeginPass(k) \/ EndLoop(k) PROVE Concl
  BY <1>1, <1>t, <1>l DEF Start, BeginPass, EndLoop, Goto, Blank, Subject, Workers, Worker
<1>2. ASSUME NEW k \in Loops, EndPass(k) PROVE Concl
  BY <1>2, <1>t, <1>l DEF EndPass, Blank, Subject, Workers, Worker
<1>3. ASSUME NEW k \in Loops, NEW s \in Subjects, PickSubject(k, s) PROVE Concl
  BY <1>3, <1>t, <1>l DEF PickSubject, Subject, Workers, Worker
<1>4. ASSUME NEW w \in SignIns, NEW s \in Subjects, SignIn(w, s) PROVE Concl
  BY <1>4, <1>t, <1>l, WorkersAssumption DEF SignIn, Subject, Workers, Worker
<1>5. ASSUME NEW w \in Workers, Fetch(w) \/ ReadPrincipal(w) PROVE Concl
  BY <1>5, <1>t, <1>l DEF Fetch, ReadPrincipal, Goto, Blank, At, Subject, Worker
<1>6. ASSUME NEW w \in Workers,
             WritePrincipal(w) \/ RevokePrincipal(w) \/ PurgeSessions(w)
      PROVE  Concl
  BY <1>6, <1>t, <1>l DEF WritePrincipal, RevokePrincipal, PurgeSessions, Goto, Blank, Rest, At, Subject, Worker
<1>7. ASSUME NEW w \in Workers, CheckPrincipal(w) \/ PutSession(w) \/ Fail(w) PROVE Concl
  BY <1>7, <1>t, <1>l DEF CheckPrincipal, PutSession, Fail, GiveUp, Goto, Blank, At, Subject, Worker
<1>8. CASE \/ Stop \/ \E s \in Subjects : DirectoryChanges(s)
           \/ \E k \in Loops : EndContext(k)
  BY <1>8, <1>l DEF Stop, DirectoryChanges, EndContext, Subject
<1> QED
  BY <1>1, <1>2, <1>3, <1>4, <1>5, <1>6, <1>7, <1>8 DEF Next, Pass, Call, Workers

LEMMA KnownNext == IInv /\ LoopsKeepToKnown /\ [Next]_vars => LoopsKeepToKnown'
<1> SUFFICES ASSUME IInv, LoopsKeepToKnown, [Next]_vars PROVE LoopsKeepToKnown'
  OBVIOUS
<1>1. CASE UNCHANGED vars
  BY <1>1 DEF vars, LoopsKeepToKnown, Subject
<1>2. ASSUME Next, NEW l \in Loops
      PROVE  /\ \A s \in known'[l] : status'[s] # "missing"
             /\ worker'[l].pc \in CallPoint => status'[worker'[l].subject] # "missing"
             /\ worker'[l].pc \notin {"check", "put"}
  <2>1. known[l] \subseteq Subjects /\ (worker[l].pc \in CallPoint => Subject(l) \in Subjects)
    BY DEF IInv, TypeOK, SubjectKnown, Workers
  <2>2. \A s \in known[l] : status[s] # "missing"
    BY DEF LoopsKeepToKnown
  <2>3. worker[l].pc \in CallPoint => status[Subject(l)] # "missing"
    BY DEF LoopsKeepToKnown
  <2> QED
    BY <1>2, <2>1, <2>2, <2>3, LoopMoves, NeverMissing
<1> QED
  BY <1>1, <1>2 DEF LoopsKeepToKnown, Subject

\* A pass brings no session and no subject the store did not know, whatever it
\* read (casdoor_directory.go:221-271, directory.go:61-84).
THEOREM ReconcilerProvisionsNobody == Spec => PassesOnlyRefresh
<1> DEFINE Refreshes ==
      /\ \A s \in Subjects : status[s] = "missing" /\ status'[s] # "missing" =>
            \E w \in SignIns : Subject(w) = s /\ At(w, "write")
      /\ \A s \in sessions' \ sessions : \E w \in SignIns : Subject(w) = s /\ At(w, "put")
<1>1. ASSUME IInv, LoopsKeepToKnown, Next PROVE Refreshes
  <2>1. ASSUME NEW w \in Workers, WritePrincipal(w) PROVE Refreshes
    <3>1. w \in Loops => status[Subject(w)] # "missing"
      BY <1>1, <2>1 DEF LoopsKeepToKnown, WritePrincipal, At, CallPoint
    <3> QED
      BY <1>1, <2>1, <3>1 DEF WritePrincipal, IInv, TypeOK, Workers
  <2>2. ASSUME NEW l \in Loops, RevokePrincipal(l) PROVE Refreshes
    <3>1. status[Subject(l)] # "missing"
      BY <1>1, <2>2 DEF LoopsKeepToKnown, RevokePrincipal, At, CallPoint
    <3> QED
      BY <1>1, <2>2, <3>1 DEF RevokePrincipal, IInv, TypeOK
  <2>3. ASSUME NEW w \in Workers, PutSession(w) PROVE Refreshes
    <3>1. w \in SignIns
      BY <1>1, <2>3 DEF LoopsKeepToKnown, PutSession, At, Workers
    <3> QED
      BY <2>3, <3>1 DEF PutSession
  <2>4. CASE status' = status /\ sessions' \subseteq sessions
    BY <2>4
  <2> QED
    BY <1>1, <2>1, <2>2, <2>3, <2>4 DEF Next, Start, EndContext, Pass, BeginPass, PickSubject, EndPass,
       EndLoop, Stop, SignIn, Call, Fetch, ReadPrincipal, PurgeSessions, CheckPrincipal, Fail,
       DirectoryChanges
<1>3. IInv /\ LoopsKeepToKnown /\ [Next]_vars => [Refreshes]_vars
  BY <1>1
<1>4. Spec => []LoopsKeepToKnown
  BY KnownInit, KnownNext, ReconcilerInvariant, PTL DEF Spec
<1> QED
  BY <1>3, <1>4, ReconcilerInvariant, PTL DEF Spec, PassesOnlyRefresh

----------------------------------------------------------------------------
(* The manager.  It shares no state with the reconciler.                   *)

\* The sidecar is known by its number, and no caller is lost.
LEMMA ManagerInitial == ManagerInit => ManagerTypeOK
<1> SUFFICES ASSUME ManagerInit PROVE ManagerTypeOK
  OBVIOUS
<1>1. started \in BOOLEAN /\ bootstrapped \in BOOLEAN
  BY DEF ManagerInit
<1>2. /\ mode \in Modes /\ cmd = 0 /\ starts = 0
      /\ process = [p \in Processes |-> "none"] /\ at = [c \in Callers |-> "idle"]
  BY DEF ManagerInit, NoProcess
<1> QED
  BY <1>1, <1>2, MaxStartsAssumption DEF ManagerTypeOK, Processes, NoProcess

LEMMA ManagerTyped ==
    ASSUME ManagerTypeOK, [ManagerNext]_managerVars
    PROVE  ManagerTypeOK'
<1> USE MaxStartsAssumption DEF ManagerTypeOK, Modes, Processes, NoProcess, fields
<1>1. ASSUME NEW c \in Callers, StartSidecar(c) PROVE ManagerTypeOK'
  <2>1. /\ starts' \in Processes /\ starts' \in 0 .. MaxStarts
        /\ cmd' = starts' /\ mode' = mode
        /\ process' = [process EXCEPT ![starts'] = "running"]
        /\ at' = [at EXCEPT ![c] = "health"]
    BY <1>1 DEF StartSidecar
  <2>2. started' \in BOOLEAN /\ bootstrapped' \in BOOLEAN
    BY <1>1 DEF StartSidecar
  <2> QED BY <2>1, <2>2
<1>2. ASSUME NEW c \in Callers, StartAttached(c) PROVE ManagerTypeOK'
  <2>1. /\ starts' \in 0 .. MaxStarts /\ cmd' = cmd /\ mode' = mode /\ process' = process
        /\ at' = [at EXCEPT ![c] = "leader"]
    BY <1>2 DEF StartAttached
  <2>2. started' \in BOOLEAN /\ bootstrapped' \in BOOLEAN
    BY <1>2 DEF StartAttached
  <2> QED BY <2>1, <2>2
<1>3. ASSUME NEW c \in Callers, StartContinues(c) PROVE ManagerTypeOK'
  BY <1>3 DEF StartContinues, Healthy, Unhealthy, AskLeader, Bootstrap,
       AfterFailure, ShutdownFailed, StopManager
<1>4. ASSUME NEW c \in Callers, Shutdown(c) PROVE ManagerTypeOK'
  BY <1>4 DEF Shutdown, StopManager
<1>5. ASSUME NEW p \in Processes, ProcessAnswers(p) \/ ProcessEnds(p)
      PROVE  ManagerTypeOK'
  BY <1>5 DEF ProcessAnswers, ProcessEnds
<1>6. CASE UNCHANGED managerVars
  BY <1>6 DEF managerVars
<1> QED
  BY <1>1, <1>2, <1>3, <1>4, <1>5, <1>6 DEF ManagerNext

\* A process is started only when the manager is stopped, and so none runs, and
\* it is forgotten only when it is killed.
LEMMA OneSidecar ==
    ASSUME ManagerTypeOK, NoOrphan, [ManagerNext]_managerVars
    PROVE  NoOrphan'
<1> USE MaxStartsAssumption DEF ManagerTypeOK, Processes, NoProcess, NoOrphan, Alive, fields
<1>1. ASSUME NEW c \in Callers, StartSidecar(c) PROVE NoOrphan'
  BY <1>1 DEF StartSidecar
<1>2. ASSUME NEW c \in Callers, StartAttached(c) PROVE NoOrphan'
  BY <1>2 DEF StartAttached
<1>3. CASE StopManager
  BY <1>3 DEF StopManager
<1>4. CASE UNCHANGED <<started, cmd, process>>
  BY <1>4
<1>5. ASSUME NEW p \in Processes, ProcessAnswers(p) \/ ProcessEnds(p)
      PROVE  NoOrphan'
  BY <1>5 DEF ProcessAnswers, ProcessEnds
<1> QED
  BY <1>1, <1>2, <1>3, <1>4, <1>5 DEF ManagerNext, StartContinues, Healthy,
     Unhealthy, AskLeader, Bootstrap, ShutdownFailed, Shutdown, managerVars

\* Whoever started the manager is still at it, has bootstrapped it, or stops it.
LEMMA StarterAnswers ==
    ASSUME ManagerTypeOK, StartedIsBootstrapped, [ManagerNext]_managerVars
    PROVE  StartedIsBootstrapped'
<1> USE DEF ManagerTypeOK, StartedIsBootstrapped, fields
<1>1. ASSUME NEW c \in Callers, StartSidecar(c) \/ StartAttached(c)
      PROVE  StartedIsBootstrapped'
  <2>1. at'[c] # "idle"
    BY <1>1 DEF StartSidecar, StartAttached
  <2> QED BY <2>1
<1>2. ASSUME NEW c \in Callers, Healthy(c) \/ Unhealthy(c)
      PROVE  StartedIsBootstrapped'
  <2>1. at'[c] # "idle"
    BY <1>2 DEF Healthy, Unhealthy
  <2> QED BY <2>1
<1>3. ASSUME NEW c \in Callers, AskLeader(c) \/ Bootstrap(c)
      PROVE  StartedIsBootstrapped'
  <2>1. bootstrapped' \/ mode' = "bare" \/ at'[c] # "idle"
    BY <1>3 DEF AskLeader, Bootstrap, AfterFailure
  <2> QED BY <2>1
<1>4. ASSUME NEW c \in Callers, Shutdown(c) \/ ShutdownFailed(c)
      PROVE  StartedIsBootstrapped'
  BY <1>4 DEF Shutdown, ShutdownFailed, StopManager
<1>5. CASE UNCHANGED <<mode, started, at, bootstrapped>>
  BY <1>5
<1> QED
  BY <1>1, <1>2, <1>3, <1>4, <1>5 DEF ManagerNext, StartContinues,
     ProcessAnswers, ProcessEnds, managerVars

\* However Starts, Shutdowns and failures overlap, the only process that runs is
\* the one a started manager knows (casdoor.go:76-108, 123-136).
THEOREM NoSidecarLeft == ManagerSpec => []NoOrphan
<1> DEFINE Inv == ManagerTypeOK /\ NoOrphan
<1>1. ManagerInit => Inv
  BY ManagerInitial DEF ManagerInit, NoOrphan, Alive
<1>2. Inv /\ [ManagerNext]_managerVars => Inv'
  BY ManagerTyped, OneSidecar
<1> QED BY <1>1, <1>2, PTL DEF ManagerSpec

\* A manager that was started and that nobody is starting any more has been
\* bootstrapped since, save for the bare modes (casdoor.go:110-119).
THEOREM ManagerBootstrapped == ManagerSpec => []StartedIsBootstrapped
<1> DEFINE Inv == ManagerTypeOK /\ StartedIsBootstrapped
<1>1. ManagerInit => Inv
  BY ManagerInitial DEF ManagerInit, StartedIsBootstrapped
<1>2. Inv /\ [ManagerNext]_managerVars => Inv'
  BY ManagerTyped, StarterAnswers
<1> QED BY <1>1, <1>2, PTL DEF ManagerSpec
=============================================================================
