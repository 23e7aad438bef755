----------------------- MODULE WardenIdentity_proofs -----------------------
(***************************************************************************)
(* Theorems of WardenIdentity, for every number of users, tenants,         *)
(* sessions and concurrent requests.                                       *)
(***************************************************************************)
EXTENDS WardenIdentity, TLAPS

----------------------------------------------------------------------------
(* What the locals of a request hold at each point.                        *)

Validating == {"session", "drop", "tenant", "principal"}
Projecting == {"readTenant", "writeTenant", "readPrincipal", "writePrincipal", "purgeSynced"}
Syncing == {"fetch", "pick", "synced"} \cup Projecting
Revoking == {"revoke", "purgeRevoked"}
Creating == {"createPrincipal", "createTenant", "put"}
Administering == {"checkPending", "setStatus", "purge"}

\* The operations that present a session.
SessionOps == Operation \ {"login", "create"}

ControlOK(l) ==
    /\ l.pc \in Finished \cup {"idle"} <=> l.op = None
    /\ l.op = "create" => l.pc \in Creating
    /\ l.op = "login" => l.pc \in Syncing \cup Creating
    /\ l.op = "login" /\ l.pc \in Syncing => l.arg \in Users
    /\ l.op = "identity" => l.pc \in Validating \cup Syncing \cup Revoking
    /\ l.op \in SessionOps => l.sid \in SessionIds /\ l.pc \notin Creating
    /\ l.op \in SessionOps /\ l.pc # "session" => l.held \in Session
    /\ l.op \in SessionOps /\ l.pc \notin Validating => l.who = l.held.principal
    /\ l.op \in AdminOps => l.arg \in Principals
    /\ l.op = "switch" => l.arg \in Tenants
    /\ l.pc \in Administering => l.op \in AdminOps
    /\ l.pc = "list" => l.op = "switch"
    /\ l.pc = "move" => l.op \in {"team", "switch"} /\ l.cur \in Principals
    /\ l.pc = "move" /\ l.op = "team" => l.cur = l.who
    /\ l.pc \in Projecting => l.cur \in Managed
    /\ l.pc = "writeTenant" => l.draft \in {"active", "disabled"}
    /\ l.pc = "createPrincipal" => l.arg \in Principals
    /\ l.pc \in {"createTenant", "put"} => l.who \in Principals
    /\ l.op \notin SessionOps => l.held = None

Control == TypeOK /\ \A r \in Requests : ControlOK(req[r])

\* A request's record keeps its type when one of its locals is set.
LEMMA BecomeTyped ==
    ASSUME req \in [Requests -> Request], NEW r \in Requests,
           NEW x \in Request, Become(r, x)
    PROVE  req' \in [Requests -> Request]
BY DEF Become

LEMMA IdleTyped == Idle \in Request
BY DEF Idle, Request, Point, Finished, Status, Listing

LEMMA OutcomeTyped ==
    ASSUME NEW res \in Finished, NEW w \in Principals \cup {None},
           NEW sn \in [Managed -> Listing]
    PROVE  Outcome(res, w, sn) \in Request
BY IdleTyped DEF Outcome, Idle, Request, Point, Finished

LEMMA JudgeTyped ==
    ASSUME req \in [Requests -> Request], NEW r \in Requests,
           NEW x \in Request, Judge(r, x)
    PROVE  req' \in [Requests -> Request]
<1>1. Outcome("denied", None, Idle.snap) \in Request
  BY OutcomeTyped, IdleTyped DEF Finished, Request
<1>2. Outcome("ok", x.who, x.snap) \in Request
  BY OutcomeTyped DEF Finished, Request
<1>3. [x EXCEPT !.pc = "admitted"] \in Request
  BY DEF Request, Point
<1> QED BY <1>1, <1>2, <1>3, BecomeTyped DEF Judge

LEMMA GotoTyped ==
    ASSUME req \in [Requests -> Request], NEW r \in Requests,
           NEW pt \in Point, Goto(r, pt)
    PROVE  req' \in [Requests -> Request]
<1>1. [req[r] EXCEPT !.pc = pt] \in Request
  BY DEF Request
<1> QED BY <1>1, BecomeTyped DEF Goto

LEMMA DenyTyped ==
    ASSUME TypeOK, NEW r \in Requests, Deny(r)
    PROVE  TypeOK'
<1>1. Outcome("denied", None, Idle.snap) \in Request
  BY OutcomeTyped, IdleTyped DEF Finished, Request
<1>2. req' \in [Requests -> Request]
  BY <1>1, BecomeTyped DEF Deny, TypeOK
<1> QED BY <1>2 DEF Deny, TypeOK, StoreTypeOK, store, external, history

LEMMA PrincipalParts ==
    ASSUME NEW p \in Principals
    PROVE  UserOf(p) \in Users /\ TenantOf(p) \in Tenants
BY PrincipalsAssumption DEF UserOf, TenantOf

LEMMA NoneIsNew == /\ None \notin Operation /\ None \notin Session /\ None \notin SessionIds
                   /\ None \notin Principals /\ None \notin Users
                   /\ None \notin Tenants
BY IdentityAssumption

\* Only the moving request's record has to be looked at.
LEMMA ControlStep ==
    ASSUME Control, NEW r \in Requests, NEW x \in Request, ControlOK(x), Become(r, x)
    PROVE  req' \in [Requests -> Request] /\ \A q \in Requests : ControlOK(req'[q])
<1>1. req' \in [Requests -> Request]
  BY BecomeTyped DEF Control, TypeOK
<1>2. ASSUME NEW q \in Requests PROVE ControlOK(req'[q])
  <2>1. req'[q] = IF q = r THEN x ELSE req[q]
    BY DEF Become, Control, TypeOK
  <2> QED BY <2>1 DEF Control
<1> QED BY <1>1, <1>2

LEMMA OutcomeControl ==
    ASSUME NEW res \in Finished, NEW w, NEW sn
    PROVE  ControlOK(Outcome(res, w, sn))
BY NoneIsNew DEF Outcome, Idle, ControlOK, Finished, Creating, Syncing, Projecting,
       Validating, Revoking, Administering, SessionOps, Operation, AdminOps

LEMMA DenyControl ==
    ASSUME Control, NEW r \in Requests, Deny(r)
    PROVE  Control'
<1>1. Outcome("denied", None, Idle.snap) \in Request
  BY OutcomeTyped, IdleTyped DEF Finished, Request
<1>2. ControlOK(Outcome("denied", None, Idle.snap))
  BY OutcomeControl DEF Finished
<1>3. \A q \in Requests : ControlOK(req'[q])
  BY <1>1, <1>2, ControlStep DEF Deny
<1>4. TypeOK'
  BY DenyTyped DEF Control
<1> QED BY <1>3, <1>4 DEF Control

----------------------------------------------------------------------------
(* Every action keeps the types and the control invariant.                 *)

\* Everything but the requests.
Surroundings ==
    /\ StoreTypeOK
    /\ directory \in [Managed -> Listing] /\ listings \in 0..MaxListings
    /\ revoked \subseteq Principals /\ barred \in [Requests -> SUBSET Principals]
    /\ cause \subseteq Principals /\ vouched \subseteq Principals

LEMMA Quiet ==
    ASSUME TypeOK, UNCHANGED <<store, external, history>>
    PROVE  Surroundings'
BY DEF TypeOK, Surroundings, StoreTypeOK, store, external, history

LEMMA Stepped ==
    ASSUME Control, NEW r \in Requests, NEW x \in Request, ControlOK(x), Become(r, x),
           Surroundings'
    PROVE  Control'
BY ControlStep DEF Control, TypeOK, Surroundings

\* Where a request may go next with its locals as they are.
LEMMA Proceeds ==
    ASSUME Control, NEW r \in Requests, NEW pt \in Point, Goto(r, pt), Surroundings',
           ControlOK([req[r] EXCEPT !.pc = pt])
    PROVE  Control'
<1>1. [req[r] EXCEPT !.pc = pt] \in Request
  BY DEF Request, Control, TypeOK
<1> QED BY <1>1, Stepped DEF Goto

LEMMA JudgeControl ==
    ASSUME Control, NEW r \in Requests, NEW x \in Request, Judge(r, x), Surroundings',
           x.op = "identity" \/ ControlOK([x EXCEPT !.pc = "admitted"])
    PROVE  Control'
<1>1. Outcome("denied", None, Idle.snap) \in Request /\ ControlOK(Outcome("denied", None, Idle.snap))
  BY OutcomeTyped, OutcomeControl, IdleTyped DEF Finished, Request
<1>2. Outcome("ok", x.who, x.snap) \in Request /\ ControlOK(Outcome("ok", x.who, x.snap))
  BY OutcomeTyped, OutcomeControl DEF Finished, Request
<1>3. [x EXCEPT !.pc = "admitted"] \in Request
  BY DEF Request, Point
<1>4. CASE ~Admits(x.seen)
  BY <1>1, <1>4, Stepped DEF Judge
<1>5. CASE Admits(x.seen) /\ x.op = "identity"
  BY <1>2, <1>5, Stepped DEF Judge
<1>6. CASE Admits(x.seen) /\ x.op # "identity"
  BY <1>3, <1>6, Stepped DEF Judge
<1> QED BY <1>4, <1>5, <1>6

LEMMA SucceedControl ==
    ASSUME Control, NEW r \in Requests, Succeed(r), Surroundings'
    PROVE  Control'
<1>1. req[r] \in Request BY DEF Control, TypeOK
<1>2. Outcome("ok", req[r].who, req[r].snap) \in Request
      /\ ControlOK(Outcome("ok", req[r].who, req[r].snap))
  BY <1>1, OutcomeTyped, OutcomeControl DEF Finished, Request
<1> QED BY <1>2, Stepped DEF Succeed

LEMMA StartControl ==
    ASSUME Control, NEW r \in Requests, Start(r)
    PROVE  Control'
<1> DEFINE began(op, sid, arg, point) ==
             [Idle EXCEPT !.pc = point, !.op = op, !.sid = sid, !.arg = arg]
<1>1. ASSUME NEW op \in Operation, NEW sid \in SessionIds \cup {None},
             NEW arg \in Users \cup Tenants \cup Principals \cup {None},
             NEW point \in Point, Begin(r, op, sid, arg, point),
             ControlOK(began(op, sid, arg, point))
      PROVE  Control'
  <2>1. began(op, sid, arg, point) \in Request
    BY IdleTyped DEF Request, Idle
  <2>2. Surroundings'
    BY <1>1 DEF Begin, Control, TypeOK, Surroundings, StoreTypeOK, store, external
  <2> QED BY <1>1, <2>1, <2>2, Stepped DEF Begin
<1> USE NoneIsNew DEF Point, Operation, Idle, ControlOK, Finished, Creating, Syncing,
        Projecting, Validating, Revoking, Administering, SessionOps, AdminOps
<1>2. CASE StartIdentity(r)
  BY <1>1, <1>2 DEF StartIdentity
<1>3. CASE StartSwitchTeam(r)
  BY <1>1, <1>3 DEF StartSwitchTeam
<1>4. CASE StartSwitchTenant(r)
  BY <1>1, <1>4 DEF StartSwitchTenant
<1>5. CASE StartAdmin(r)
  BY <1>1, <1>5 DEF StartAdmin
<1>6. CASE StartCreate(r)
  BY <1>1, <1>6 DEF StartCreate
<1>7. CASE StartLogin(r)
  BY <1>1, <1>7 DEF StartLogin
<1> QED BY <1>2, <1>3, <1>4, <1>5, <1>6, <1>7 DEF Start

LEMMA HeldSet ==
    ASSUME NEW l \in Request, NEW pt \in Point, NEW h \in Session
    PROVE  [l EXCEPT !.held = h, !.pc = pt] \in Request
BY DEF Request

LEMMA WhoSet ==
    ASSUME NEW l \in Request, NEW p \in Principals, NEW st \in Status
    PROVE  [l EXCEPT !.who = p, !.seen = st] \in Request
BY DEF Request

LEMMA PointSet ==
    ASSUME NEW l \in Request, NEW pt \in Point
    PROVE  [l EXCEPT !.pc = pt] \in Request
BY DEF Request

LEMMA ValidationControl ==
    ASSUME Control, NEW r \in Requests, Validation(r)
    PROVE  Control'
<1>0. req[r] \in Request /\ ControlOK(req[r])
  BY DEF Control, TypeOK
<1>1. CASE ReadSession(r)
  <2> DEFINE s == req[r].sid
             x == [req[r] EXCEPT !.held = session[s],
                                 !.pc = IF session[s].expired THEN "drop" ELSE "tenant"]
  <2>1. CASE Deny(r)
    BY <2>1, DenyControl
  <2>2. CASE ~Deny(r)
    <3>1. Stored(s) /\ Become(r, x) /\ UNCHANGED <<store, external, history>>
      BY <1>1, <2>2 DEF ReadSession
    <3>2. s \in SessionIds /\ session[s] \in Session
      <4>1. req[r].op \in SessionOps
        BY <1>0, <1>1 DEF ReadSession, ControlOK, Finished, Creating, Syncing, Projecting, Validating,
             Revoking, Administering, SessionOps, AdminOps, Operation, At, Request
      <4>2. s \in SessionIds
        BY <1>0, <4>1 DEF ControlOK
      <4> QED BY <3>1, <4>2 DEF Control, TypeOK, StoreTypeOK, Stored
    <3>3. x \in Request
      <4>1. (IF session[s].expired THEN "drop" ELSE "tenant") \in Point
        BY DEF Point
      <4> QED BY <1>0, <3>2, <4>1, HeldSet
    <3>4. ControlOK(x)
      BY <1>0, <1>1, <3>2, NoneIsNew DEF ReadSession, ControlOK, Finished, Creating, Syncing, Projecting, Validating,
             Revoking, Administering, SessionOps, AdminOps, Operation, At, Request
    <3> QED BY <3>1, <3>3, <3>4, Quiet, Stepped DEF Control
  <2> QED BY <2>1, <2>2
<1>2. CASE DropExpired(r)
  <2>1. Outcome("denied", None, Idle.snap) \in Request
        /\ ControlOK(Outcome("denied", None, Idle.snap))
    BY OutcomeTyped, OutcomeControl, IdleTyped DEF Request, Finished
  <2>2. Surroundings'
    BY <1>2 DEF DropExpired, DeleteSession, Surroundings, Control, TypeOK, StoreTypeOK,
        external, history
  <2> QED BY <1>2, <2>1, <2>2, Stepped DEF DropExpired
<1>3. CASE ReadTenant(r)
  <2>1. CASE Deny(r)
    BY <2>1, DenyControl
  <2>2. CASE ~Deny(r)
    <3>1. At(r, "tenant") /\ Goto(r, "principal") /\ UNCHANGED <<store, external, history>>
      BY <1>3, <2>2 DEF ReadTenant
    <3>2. ControlOK([req[r] EXCEPT !.pc = "principal"])
      BY <1>0, <3>1 DEF ControlOK, Finished, Creating, Syncing, Projecting, Validating,
             Revoking, Administering, SessionOps, AdminOps, Operation, At, Request
    <3> QED BY <3>1, <3>2, Quiet, Proceeds DEF Control, Point
  <2> QED BY <2>1, <2>2
<1>4. CASE ReadPrincipal(r)
  <2> DEFINE p == req[r].held.principal
             x == [req[r] EXCEPT !.who = p, !.seen = status[p]]
  <2>1. CASE Deny(r)
    BY <2>1, DenyControl
  <2>2. CASE ~Deny(r)
    <3>1. /\ At(r, "principal") /\ UNCHANGED <<store, external, history>>
          /\ Become(r, [x EXCEPT !.pc = "fetch"]) \/ Judge(r, x)
      BY <1>4, <2>2 DEF ReadPrincipal
    <3>2. req[r].op \in SessionOps /\ req[r].held \in Session
      BY <1>0, <3>1 DEF ControlOK, Finished, Creating, Syncing, Projecting, Validating,
             Revoking, Administering, SessionOps, AdminOps, Operation, At, Request
    <3>3. p \in Principals /\ status[p] \in Status
      BY <3>2 DEF Session, Control, TypeOK, StoreTypeOK
    <3>4. x \in Request /\ [x EXCEPT !.pc = "fetch"] \in Request
      BY <1>0, <3>3, WhoSet, PointSet DEF Point
    <3>5. ControlOK([x EXCEPT !.pc = "fetch"])
      BY <1>0, <3>1, <3>2, NoneIsNew DEF ControlOK, Finished, Creating, Syncing, Projecting, Validating,
             Revoking, Administering, SessionOps, AdminOps, Operation, At, Request
    <3>6. x.op = "identity" \/ ControlOK([x EXCEPT !.pc = "admitted"])
      BY <1>0, <3>1, <3>2, NoneIsNew DEF ControlOK, Finished, Creating, Syncing, Projecting, Validating,
             Revoking, Administering, SessionOps, AdminOps, Operation, At, Request
    <3> QED BY <3>1, <3>4, <3>5, <3>6, Quiet, Stepped, JudgeControl DEF Control
  <2> QED BY <2>1, <2>2
<1> QED BY <1>1, <1>2, <1>3, <1>4 DEF Validation

LEMMA FetchControl ==
    ASSUME Control, NEW r \in Requests,
           Fetch(r) \/ FetchFails(r) \/ PickSnapshot(r) \/ Synced(r)
    PROVE  Control'
<1>0. req[r] \in Request /\ ControlOK(req[r])
  BY DEF Control, TypeOK
<1>1. CASE Fetch(r)
  <2> DEFINE found == {p \in Managed : UserOf(p) = Subject(r) /\ directory[p] # "absent"}
             answer == [p \in Managed |-> IF p \in found THEN directory[p] ELSE "absent"]
             x == [req[r] EXCEPT !.pc = "pick", !.todo = found, !.snap = answer]
  <2>1. answer \in [Managed -> Listing]
    BY DEF Control, TypeOK, Listing
  <2>2. ASSUME NEW f \in SUBSET Managed, NEW a \in [Managed -> Listing], NEW pt \in Point
        PROVE  [req[r] EXCEPT !.pc = pt, !.todo = f, !.snap = a] \in Request
    BY <1>0 DEF Request
  <2>3. x \in Request
    BY <2>1, <2>2 DEF Point
  <2>4. ControlOK(x)
    BY <1>0, <1>1 DEF Fetch, ControlOK, Finished, Creating, Syncing, Projecting, Validating,
           Revoking, Administering, SessionOps, AdminOps, Operation, At, Request
  <2> QED BY <1>1, <2>3, <2>4, Quiet, Stepped DEF Fetch, Control
<1>2. CASE FetchFails(r)
  BY <1>2, DenyControl DEF FetchFails
<1>3. CASE PickSnapshot(r)
  <2>0. UNCHANGED <<store, external, history>> /\ At(r, "pick")
    BY <1>3 DEF PickSnapshot
  <2>1. ASSUME NEW p \in req[r].todo,
               Become(r, [req[r] EXCEPT !.pc = "readTenant", !.cur = p, !.todo = @ \ {p}])
        PROVE  Control'
    <3> DEFINE x == [req[r] EXCEPT !.pc = "readTenant", !.cur = p, !.todo = @ \ {p}]
    <3>1. p \in Managed /\ req[r].todo \ {p} \in SUBSET Managed
      BY <1>0 DEF Request
    <3>2. x \in Request
      BY <1>0, <3>1, PrincipalsAssumption DEF Request, Point
    <3>3. ControlOK(x)
      BY <1>0, <2>0, <3>1 DEF ControlOK, Finished, Creating, Syncing, Projecting, Validating,
           Revoking, Administering, SessionOps, AdminOps, Operation, At, Request
    <3> QED BY <2>0, <2>1, <3>2, <3>3, Quiet, Stepped DEF Control
  <2>2. ASSUME Goto(r, "synced")
        PROVE  Control'
    <3>1. ControlOK([req[r] EXCEPT !.pc = "synced"])
      BY <1>0, <2>0 DEF ControlOK, Finished, Creating, Syncing, Projecting, Validating,
           Revoking, Administering, SessionOps, AdminOps, Operation, At, Request
    <3> QED BY <2>0, <2>2, <3>1, Quiet, Proceeds DEF Control, Point
  <2> QED BY <1>3, <2>1, <2>2 DEF PickSnapshot
<1>4. CASE Synced(r)
  <2> DEFINE listed == {p \in Managed : req[r].snap[p] # "absent"}
  <2>0. UNCHANGED <<store, external, history>> /\ At(r, "synced") /\ Surroundings'
    BY <1>4, Quiet DEF Synced, Control
  <2>1. CASE req[r].op = "login"
    <3>1. ASSUME NEW p \in listed,
                 Become(r, [req[r] EXCEPT !.pc = "createPrincipal", !.arg = p])
          PROVE  Control'
      <4>1. [req[r] EXCEPT !.pc = "createPrincipal", !.arg = p] \in Request
        BY <1>0, <3>1, PrincipalsAssumption DEF Request, Point
      <4>2. ControlOK([req[r] EXCEPT !.pc = "createPrincipal", !.arg = p])
        BY <1>0, <2>0, <2>1, <3>1, PrincipalsAssumption DEF ControlOK, Finished, Creating, Syncing, Projecting, Validating,
           Revoking, Administering, SessionOps, AdminOps, Operation, At, Request
      <4> QED BY <2>0, <3>1, <4>1, <4>2, Stepped
    <3>2. ASSUME Become(r, Outcome("denied", None, Idle.snap))
          PROVE  Control'
      BY <2>0, <3>2, DenyControl DEF Deny
    <3> QED BY <1>4, <2>1, <3>1, <3>2 DEF Synced
  <2>2. CASE req[r].op # "login"
    <3>0. req[r].op \in SessionOps
      BY <1>0, <2>0, <2>2 DEF ControlOK, Finished, Creating, Syncing, Projecting, Validating,
           Revoking, Administering, SessionOps, AdminOps, Operation, At, Request
    <3>1. ASSUME Judge(r, req[r]) PROVE Control'
      <4>1. req[r].op = "identity" \/ ControlOK([req[r] EXCEPT !.pc = "admitted"])
        BY <1>0, <2>0, <3>0 DEF ControlOK, Finished, Creating, Syncing, Projecting, Validating,
           Revoking, Administering, SessionOps, AdminOps, Operation, At, Request
      <4> QED BY <1>0, <2>0, <3>1, <4>1, JudgeControl
    <3>2. ASSUME Goto(r, "revoke") PROVE Control'
      <4>1. ControlOK([req[r] EXCEPT !.pc = "revoke"])
        BY <1>0, <2>0, <3>0 DEF ControlOK, Finished, Creating, Syncing, Projecting, Validating,
           Revoking, Administering, SessionOps, AdminOps, Operation, At, Request
      <4> QED BY <2>0, <3>2, <4>1, Proceeds DEF Point
    <3> QED BY <1>4, <2>2, <3>1, <3>2 DEF Synced
  <2> QED BY <2>1, <2>2
<1> QED BY <1>1, <1>2, <1>3, <1>4

LEMMA ProjectedTyped ==
    ASSUME NEW listing \in Listing, NEW old \in Status
    PROVE  ProjectedStatus(listing, old) \in Status
BY DEF ProjectedStatus, Status, Listing

LEMMA DraftSet ==
    ASSUME NEW l \in Request, NEW pt \in Point, NEW st \in Status
    PROVE  [l EXCEPT !.pc = pt, !.draft = st] \in Request
BY DEF Request

\* The end of one snapshot.
LEMMA ProjectedControl ==
    ASSUME Control, NEW r \in Requests, req[r].pc \in Projecting, Projected(r), Surroundings'
    PROVE  Control'
<1> DEFINE st == IF req[r].cur = req[r].who THEN req[r].draft ELSE req[r].seen
           x == [req[r] EXCEPT !.pc = "pick", !.cur = None, !.draft = "none", !.seen = st]
<1>0. req[r] \in Request /\ ControlOK(req[r])
  BY DEF Control, TypeOK
<1>1. st \in Status
  BY <1>0 DEF Request
<1>2. ASSUME NEW pt \in Point, NEW d \in Status, NEW e \in Status
      PROVE  [req[r] EXCEPT !.pc = pt, !.cur = None, !.draft = d, !.seen = e] \in Request
  BY <1>0 DEF Request
<1>3. x \in Request
  BY <1>1, <1>2 DEF Point, Status
<1>4. ControlOK(x)
  BY <1>0 DEF ControlOK, Finished, Creating, Syncing, Projecting, Validating,
           Revoking, Administering, SessionOps, AdminOps, Operation, At, Request
<1>5. Become(r, x)
  BY DEF Projected
<1> QED BY <1>3, <1>4, <1>5, Stepped

LEMMA ProjectionControl ==
    ASSUME Control, NEW r \in Requests,
           \/ SyncReadTenant(r) \/ SyncWriteTenant(r) \/ SyncReadPrincipal(r)
           \/ SyncWritePrincipal(r) \/ SyncPurge(r)
    PROVE  Control'
<1> DEFINE l == req[r]
<1>0. l \in Request /\ ControlOK(l)
  BY DEF Control, TypeOK
<1>1. CASE SyncReadTenant(r)
  <2> DEFINE old == tenantStatus[TenantOf(l.cur)]
             d == IF old = "disabled" THEN "disabled" ELSE "active"
  <2>1. [l EXCEPT !.pc = "writeTenant", !.draft = d] \in Request
    BY <1>0, DraftSet DEF Point, Status
  <2>2. ControlOK([l EXCEPT !.pc = "writeTenant", !.draft = d])
    BY <1>0, <1>1 DEF SyncReadTenant, ControlOK, Finished, Creating, Syncing, Projecting, Validating,
           Revoking, Administering, SessionOps, AdminOps, Operation, At, Request
  <2> QED BY <1>1, <2>1, <2>2, Quiet, Stepped DEF SyncReadTenant, Control
<1>2. CASE SyncWriteTenant(r)
  <2>1. tenantStatus' \in [Tenants -> TenantStatus]
    BY <1>0, <1>2 DEF SyncWriteTenant, UpsertTenant, ControlOK, At, TenantStatus, Control, TypeOK, StoreTypeOK
  <2>2. Surroundings'
    BY <1>2, <2>1 DEF SyncWriteTenant, Surroundings, Control, TypeOK, StoreTypeOK, external, history
  <2>3. ControlOK([l EXCEPT !.pc = "readPrincipal"])
    BY <1>0, <1>2 DEF SyncWriteTenant, ControlOK, Finished, Creating, Syncing, Projecting, Validating,
           Revoking, Administering, SessionOps, AdminOps, Operation, At, Request
  <2> QED BY <1>2, <2>2, <2>3, Proceeds DEF SyncWriteTenant, Point
<1>3. CASE SyncReadPrincipal(r)
  <2> DEFINE d == ProjectedStatus(l.snap[l.cur], status[l.cur])
  <2>1. l.cur \in Managed
    BY <1>0, <1>3 DEF SyncReadPrincipal, ControlOK, Projecting, At
  <2>2. d \in Status
    BY <1>0, <2>1, ProjectedTyped, PrincipalsAssumption DEF Control, TypeOK, StoreTypeOK, Request
  <2>3. [l EXCEPT !.pc = "writePrincipal", !.draft = d] \in Request
    BY <1>0, <2>2, DraftSet DEF Point
  <2>4. ControlOK([l EXCEPT !.pc = "writePrincipal", !.draft = d])
    BY <1>0, <1>3, <2>3 DEF SyncReadPrincipal, ControlOK, Finished, Creating, Syncing, Projecting, Validating,
           Revoking, Administering, SessionOps, AdminOps, Operation, At, Request
  <2> QED BY <1>3, <2>3, <2>4, Quiet, Stepped DEF SyncReadPrincipal, Control
<1>4. CASE SyncWritePrincipal(r)
  <2>1. Surroundings'
    BY <1>0, <1>4 DEF SyncWritePrincipal, UpsertPrincipal, Surroundings, Control, TypeOK,
        StoreTypeOK, Request, external, history
  <2>2. l.pc \in Projecting
    BY <1>4 DEF SyncWritePrincipal, At, Projecting
  <2>3. CASE Projected(r)
    BY <2>1, <2>2, <2>3, ProjectedControl
  <2>4. CASE Goto(r, "purgeSynced")
    <3>1. ControlOK([l EXCEPT !.pc = "purgeSynced"])
      BY <1>0, <1>4 DEF SyncWritePrincipal, ControlOK, Finished, Creating, Syncing, Projecting, Validating,
           Revoking, Administering, SessionOps, AdminOps, Operation, At, Request
    <3> QED BY <2>1, <2>4, <3>1, Proceeds DEF Point
  <2> QED BY <1>4, <2>3, <2>4 DEF SyncWritePrincipal
<1>5. CASE SyncPurge(r)
  <2>1. Surroundings'
    BY <1>5 DEF SyncPurge, DeleteSessionsByPrincipal, Surroundings, Control, TypeOK,
        StoreTypeOK, external, history
  <2>2. l.pc \in Projecting
    BY <1>5 DEF SyncPurge, At, Projecting
  <2> QED BY <1>5, <2>1, <2>2, ProjectedControl DEF SyncPurge
<1> QED BY <1>1, <1>2, <1>3, <1>4, <1>5

LEMMA RevokingControl ==
    ASSUME Control, NEW r \in Requests, RevokePrincipal(r) \/ PurgeRevoked(r)
    PROVE  Control'
<1>0. req[r] \in Request /\ ControlOK(req[r])
  BY DEF Control, TypeOK
<1>1. CASE RevokePrincipal(r)
  <2>1. Surroundings'
    BY <1>1 DEF RevokePrincipal, UpdatePrincipalStatus, Surroundings, Control, TypeOK,
        StoreTypeOK, Status, external, history
  <2>2. ControlOK([req[r] EXCEPT !.pc = "purgeRevoked"])
    BY <1>0, <1>1 DEF RevokePrincipal, ControlOK, Finished, Creating, Syncing, Projecting, Validating,
           Revoking, Administering, SessionOps, AdminOps, Operation, At, Request
  <2> QED BY <1>1, <2>1, <2>2, Proceeds DEF RevokePrincipal, Point
<1>2. CASE PurgeRevoked(r)
  <2>1. Surroundings'
    BY <1>2 DEF PurgeRevoked, DeleteSessionsByPrincipal, Surroundings, Control, TypeOK,
        StoreTypeOK, external, history
  <2>2. Outcome("denied", None, Idle.snap) \in Request
        /\ ControlOK(Outcome("denied", None, Idle.snap))
    BY OutcomeTyped, OutcomeControl, IdleTyped DEF Request, Finished
  <2> QED BY <1>2, <2>1, <2>2, Stepped DEF PurgeRevoked
<1> QED BY <1>1, <1>2

LEMMA CurSet ==
    ASSUME NEW l \in Request, NEW pt \in Point, NEW p \in Principals
    PROVE  [l EXCEPT !.pc = pt, !.cur = p] \in Request
BY DEF Request

\* A call that starts over as the validation of session s.
LEMMA Revalidates ==
    ASSUME Control, NEW r \in Requests, NEW s \in SessionIds, Surroundings',
           Become(r, [Idle EXCEPT !.pc = "session", !.op = "identity", !.sid = s])
    PROVE  Control'
<1> DEFINE x == [Idle EXCEPT !.pc = "session", !.op = "identity", !.sid = s]
<1>1. x \in Request
  BY IdleTyped DEF Request, Idle, Point, Operation
<1>2. ControlOK(x)
  BY NoneIsNew DEF Idle, ControlOK, Finished, Creating, Syncing, Projecting, Validating,
           Revoking, Administering, SessionOps, AdminOps, Operation, At, Request
<1> QED BY <1>1, <1>2, Stepped

LEMMA SwitchingControl ==
    ASSUME Control, NEW r \in Requests, Switching(r)
    PROVE  Control'
<1> DEFINE l == req[r]
<1>0. l \in Request /\ ControlOK(l)
  BY DEF Control, TypeOK
<1>1. CASE ChooseTeam(r)
  <2>1. l.who \in Principals
    BY <1>0, <1>1 DEF ChooseTeam, Session, ControlOK, Finished, Creating, Syncing, Projecting, Validating,
           Revoking, Administering, SessionOps, AdminOps, Operation, At, Request
  <2>2. ControlOK([l EXCEPT !.pc = "move", !.cur = l.who])
    BY <1>0, <1>1, <2>1 DEF ChooseTeam, ControlOK, Finished, Creating, Syncing, Projecting, Validating,
           Revoking, Administering, SessionOps, AdminOps, Operation, At, Request
  <2>3. [l EXCEPT !.pc = "move", !.cur = l.who] \in Request
    BY <1>0, <2>1, CurSet DEF Point
  <2> QED BY <1>1, <2>2, <2>3, Quiet, Stepped DEF ChooseTeam, Control
<1>2. CASE ChooseTenant(r)
  <2>0. At(r, "admitted") /\ l.op = "switch"
    BY <1>2 DEF ChooseTenant
  <2>1. l.who \in Principals
    BY <1>0, <2>0 DEF Session, ControlOK, Finished, Creating, Syncing, Projecting, Validating,
           Revoking, Administering, SessionOps, AdminOps, Operation, At, Request
  <2>2. CASE Deny(r)
    BY <2>2, DenyControl
  <2>3. CASE Become(r, [l EXCEPT !.pc = "move", !.cur = l.who])
             /\ UNCHANGED <<store, external, history>>
    <3>1. ControlOK([l EXCEPT !.pc = "move", !.cur = l.who])
      BY <1>0, <2>0, <2>1 DEF ControlOK, Finished, Creating, Syncing, Projecting, Validating,
           Revoking, Administering, SessionOps, AdminOps, Operation, At, Request
    <3>2. [l EXCEPT !.pc = "move", !.cur = l.who] \in Request
      BY <1>0, <2>1, CurSet DEF Point
    <3> QED BY <2>3, <3>1, <3>2, Quiet, Stepped DEF Control
  <2>4. CASE Goto(r, "list") /\ UNCHANGED <<store, external, history>>
    <3>1. ControlOK([l EXCEPT !.pc = "list"])
      BY <1>0, <2>0 DEF ControlOK, Finished, Creating, Syncing, Projecting, Validating,
           Revoking, Administering, SessionOps, AdminOps, Operation, At, Request
    <3> QED BY <2>4, <3>1, Quiet, Proceeds DEF Control, Point
  <2> QED BY <1>2, <2>2, <2>3, <2>4 DEF ChooseTenant
<1>3. CASE ListPrincipals(r)
  <2>1. CASE Deny(r)
    BY <2>1, DenyControl
  <2>2. ASSUME NEW p \in Candidates(r), Become(r, [l EXCEPT !.pc = "move", !.cur = p]),
               UNCHANGED <<store, external, history>>
        PROVE  Control'
    <3>1. p \in Principals
      BY PrincipalsAssumption DEF Candidates, PrincipalsByCasdoorUser
    <3>2. ControlOK([l EXCEPT !.pc = "move", !.cur = p])
      BY <1>0, <1>3, <3>1 DEF ListPrincipals, ControlOK, Finished, Creating, Syncing, Projecting, Validating,
           Revoking, Administering, SessionOps, AdminOps, Operation, At, Request
    <3>3. [l EXCEPT !.pc = "move", !.cur = p] \in Request
      BY <1>0, <3>1, CurSet DEF Point
    <3> QED BY <2>2, <3>2, <3>3, Quiet, Stepped DEF Control
  <2> QED BY <1>3, <2>1, <2>2 DEF ListPrincipals
<1>4. CASE MoveSession(r)
  <2> DEFINE tenant == IF l.op = "team" THEN l.held.tenant ELSE TenantOf(l.cur)
  <2>1. CASE Deny(r)
    BY <2>1, DenyControl
  <2>2. CASE ~Deny(r)
    <3>1. /\ UpdateSessionContext(l.sid, l.cur, tenant) /\ At(r, "move")
          /\ Become(r, [Idle EXCEPT !.pc = "session", !.op = "identity", !.sid = l.sid])
          /\ UNCHANGED <<tenantStatus, status, external, history>>
      BY <1>4, <2>2 DEF MoveSession
    <3>2. l.sid \in SessionIds /\ l.cur \in Principals /\ l.held \in Session
      BY <1>0, <3>1 DEF ControlOK, Finished, Creating, Syncing, Projecting, Validating,
           Revoking, Administering, SessionOps, AdminOps, Operation, At, Request
    <3>3. tenant \in Tenants
      BY <3>2, PrincipalParts DEF Session
    <3>4. session[l.sid] \in Session
      BY <3>1, <3>2 DEF UpdateSessionContext, Stored, Control, TypeOK, StoreTypeOK
    <3>5. [principal |-> l.cur, tenant |-> tenant, expired |-> session[l.sid].expired] \in Session
      BY <3>2, <3>3, <3>4 DEF Session
    <3>6. session' \in [SessionIds -> Session \cup {Unissued, Deleted}]
      BY <3>1, <3>2, <3>5 DEF UpdateSessionContext, Control, TypeOK, StoreTypeOK
    <3>7. Surroundings'
      BY <3>1, <3>6 DEF Surroundings, Control, TypeOK, StoreTypeOK, external, history
    <3> QED BY <3>1, <3>2, <3>7, Revalidates
  <2> QED BY <2>1, <2>2
<1> QED BY <1>1, <1>2, <1>3, <1>4 DEF Switching

LEMMA CreationControl ==
    ASSUME Control, NEW r \in Requests, Creation(r)
    PROVE  Control'
<1> DEFINE l == req[r]
<1>0. l \in Request /\ ControlOK(l)
  BY DEF Control, TypeOK
<1>1. CASE CreateReadPrincipal(r)
  <2> DEFINE x == [Idle EXCEPT !.pc = "createTenant", !.op = l.op,
                               !.who = l.arg, !.seen = status[l.arg]]
  <2>1. CASE Deny(r)
    BY <2>1, DenyControl
  <2>2. CASE ~Deny(r)
    <3>1. Become(r, x) /\ At(r, "createPrincipal") /\ UNCHANGED <<store, external, history>>
      BY <1>1, <2>2 DEF CreateReadPrincipal
    <3>2. l.arg \in Principals /\ l.op \in {"create", "login"}
      BY <1>0, <3>1 DEF ControlOK, Finished, Creating, Syncing, Projecting, Validating,
           Revoking, Administering, SessionOps, AdminOps, Operation, At, Request
    <3>3. status[l.arg] \in Status
      BY <3>2 DEF Control, TypeOK, StoreTypeOK
    <3>4. x \in Request
      BY <3>2, <3>3, IdleTyped DEF Request, Idle, Point, Operation
    <3>5. ControlOK(x)
      BY <3>2, NoneIsNew DEF Idle, ControlOK, Finished, Creating, Syncing, Projecting, Validating,
           Revoking, Administering, SessionOps, AdminOps, Operation, At, Request
    <3> QED BY <3>1, <3>4, <3>5, Quiet, Stepped DEF Control
  <2> QED BY <2>1, <2>2
<1>2. CASE CreateReadTenant(r)
  <2>1. CASE Deny(r)
    BY <2>1, DenyControl
  <2>2. CASE ~Deny(r)
    <3>1. Goto(r, "put") /\ At(r, "createTenant") /\ UNCHANGED <<store, external, history>>
      BY <1>2, <2>2 DEF CreateReadTenant
    <3>2. ControlOK([l EXCEPT !.pc = "put"])
      BY <1>0, <3>1 DEF ControlOK, Finished, Creating, Syncing, Projecting, Validating,
           Revoking, Administering, SessionOps, AdminOps, Operation, At, Request
    <3> QED BY <3>1, <3>2, Quiet, Proceeds DEF Control, Point
  <2> QED BY <2>1, <2>2
<1>3. CASE CreateSession(r)
  <2>1. l.who \in Principals
    BY <1>0, <1>3 DEF CreateSession, ControlOK, At
  <2>2. PICK s \in SessionIds :
          /\ PutSession(s, l.who, TenantOf(l.who))
          /\ IF l.op = "login"
             THEN Become(r, [Idle EXCEPT !.pc = "session", !.op = "identity", !.sid = s])
             ELSE Become(r, Outcome("ok", None, Idle.snap))
    BY <1>3 DEF CreateSession
  <2>3. [principal |-> l.who, tenant |-> TenantOf(l.who), expired |-> FALSE] \in Session
    BY <2>1, PrincipalParts DEF Session
  <2>4. Surroundings'
    BY <1>3, <2>2, <2>3 DEF CreateSession, PutSession, Surroundings, Control, TypeOK,
        StoreTypeOK, external, history
  <2>5. Outcome("ok", None, Idle.snap) \in Request /\ ControlOK(Outcome("ok", None, Idle.snap))
    BY OutcomeTyped, OutcomeControl, IdleTyped DEF Request, Finished
  <2> QED BY <2>2, <2>4, <2>5, Revalidates, Stepped
<1> QED BY <1>1, <1>2, <1>3 DEF Creation

LEMMA AdministrationControl ==
    ASSUME Control, NEW r \in Requests, Administration(r)
    PROVE  Control'
<1> DEFINE l == req[r]
<1>0. l \in Request /\ ControlOK(l)
  BY DEF Control, TypeOK
<1>1. CASE AuthorizeAdmin(r)
  <2> DEFINE next == IF l.op \in {"approve", "reject"} THEN "checkPending" ELSE "setStatus"
  <2>1. CASE Deny(r)
    BY <2>1, DenyControl
  <2>2. CASE ~Deny(r)
    <3>1. /\ Goto(r, next) /\ At(r, "admitted") /\ l.op \in AdminOps
          /\ UNCHANGED <<store, external, history>>
      BY <1>1, <2>2 DEF AuthorizeAdmin
    <3>2. ControlOK([l EXCEPT !.pc = next])
      BY <1>0, <3>1 DEF ControlOK, Finished, Creating, Syncing, Projecting, Validating,
           Revoking, Administering, SessionOps, AdminOps, Operation, At, Request
    <3>3. next \in Point
      BY DEF Point
    <3> QED BY <3>1, <3>2, <3>3, Quiet, Proceeds DEF Control
  <2> QED BY <2>1, <2>2
<1>2. CASE CheckPending(r)
  <2>1. CASE Deny(r)
    BY <2>1, DenyControl
  <2>2. CASE ~Deny(r)
    <3>1. Goto(r, "setStatus") /\ At(r, "checkPending") /\ UNCHANGED <<store, external, history>>
      BY <1>2, <2>2 DEF CheckPending
    <3>2. ControlOK([l EXCEPT !.pc = "setStatus"])
      BY <1>0, <3>1 DEF ControlOK, Finished, Creating, Syncing, Projecting, Validating,
           Revoking, Administering, SessionOps, AdminOps, Operation, At, Request
    <3> QED BY <3>1, <3>2, Quiet, Proceeds DEF Control, Point
  <2> QED BY <2>1, <2>2
<1>3. CASE EnableStatus(r)
  <2>1. l.arg \in Principals
    BY <1>0, <1>3 DEF EnableStatus, ControlOK, AdminOps
  <2>2. Surroundings'
    BY <1>3, <2>1 DEF EnableStatus, UpdatePrincipalStatus, Surroundings, Control, TypeOK,
        StoreTypeOK, Status, external
  <2> QED BY <1>3, <2>2, SucceedControl DEF EnableStatus
<1>4. CASE DisableStatus(r)
  <2>1. l.arg \in Principals
    BY <1>0, <1>4 DEF DisableStatus, ControlOK, AdminOps
  <2>2. Surroundings'
    BY <1>4, <2>1 DEF DisableStatus, UpdatePrincipalStatus, Surroundings, Control, TypeOK,
        StoreTypeOK, Status, external
  <2>3. ControlOK([l EXCEPT !.pc = "purge"])
    BY <1>0, <1>4 DEF DisableStatus, ControlOK, Finished, Creating, Syncing, Projecting, Validating,
           Revoking, Administering, SessionOps, AdminOps, Operation, At, Request
  <2> QED BY <1>4, <2>2, <2>3, Proceeds DEF DisableStatus, Point
<1>5. CASE UnknownPrincipal(r)
  BY <1>5, DenyControl DEF UnknownPrincipal
<1>6. CASE PurgeSessions(r)
  <2>1. Surroundings'
    BY <1>6 DEF PurgeSessions, DeleteSessionsByPrincipal, Surroundings, Control, TypeOK,
        StoreTypeOK, external, history
  <2> QED BY <1>6, <2>1, SucceedControl DEF PurgeSessions
<1> QED BY <1>1, <1>2, <1>3, <1>4, <1>5, <1>6 DEF Administration

LEMMA EnvironmentControl ==
    ASSUME Control, Environment
    PROVE  Control'
<1>1. ASSUME NEW s \in SessionIds, Logout(s) PROVE Control'
  BY <1>1 DEF Logout, DeleteSession, Control, TypeOK, StoreTypeOK, external, history
<1>2. ASSUME NEW s \in SessionIds, Expire(s) PROVE Control'
  <2>1. [session[s] EXCEPT !.expired = TRUE] \in Session
    BY <1>2 DEF Expire, Stored, Control, TypeOK, StoreTypeOK, Session
  <2>2. session' \in [SessionIds -> Session \cup {Unissued, Deleted}]
    BY <1>2, <2>1 DEF Expire, Control, TypeOK, StoreTypeOK
  <2> QED BY <1>2, <2>2 DEF Expire, Control, TypeOK, StoreTypeOK, external, history
<1>3. ASSUME NEW p \in Managed, DirectoryChanges(p) PROVE Control'
  <2>1. listings' \in 0..MaxListings
    BY <1>3, IdentityAssumption DEF DirectoryChanges, Control, TypeOK
  <2> QED BY <1>3, <2>1, PrincipalsAssumption DEF DirectoryChanges, Control, TypeOK, StoreTypeOK, store
<1>4. ASSUME NEW t \in Tenants, HostDisablesTenant(t) PROVE Control'
  BY <1>4 DEF HostDisablesTenant, UpsertTenant, Control, TypeOK, StoreTypeOK, TenantStatus,
      external, history
<1> QED BY <1>1, <1>2, <1>3, <1>4 DEF Environment

LEMMA ControlInit == Init => Control
<1> SUFFICES ASSUME Init PROVE Control
  OBVIOUS
<1>1. ControlOK(Idle)
  BY NoneIsNew DEF Idle, ControlOK, Finished, Creating, Syncing, Projecting, Validating,
           Revoking, Administering, SessionOps, AdminOps, Operation, At, Request
<1>2. StoreTypeOK
  <2>1. ASSUME NEW p \in Provisioned
        PROVE  [principal |-> p, tenant |-> TenantOf(p), expired |-> FALSE] \in Session
    BY PrincipalsAssumption, PrincipalParts DEF Session
  <2>2. {[principal |-> p, tenant |-> TenantOf(p), expired |-> FALSE] : p \in Provisioned}
            \subseteq Session
    BY <2>1
  <2>3. session \in [SessionIds -> Session \cup {Unissued, Deleted}]
    BY <2>2 DEF Init, StoreInit
  <2> QED BY <2>3 DEF Init, StoreInit, StoreTypeOK, TenantStatus, Status
<1>3. TypeOK
  BY <1>2, IdleTyped, PrincipalsAssumption, IdentityAssumption DEF Init, TypeOK, Listing
<1> QED BY <1>1, <1>3 DEF Init, Control

LEMMA ControlNext == Control /\ [Next]_vars => Control'
<1> SUFFICES ASSUME Control, [Next]_vars PROVE Control'
  OBVIOUS
<1>1. ASSUME NEW r \in Requests, Start(r) PROVE Control'
  BY <1>1, StartControl
<1>2. ASSUME NEW r \in Requests, Serve(r) PROVE Control'
  BY <1>2, ValidationControl, FetchControl, ProjectionControl, RevokingControl,
     SwitchingControl, CreationControl, AdministrationControl DEF Serve, DirectorySync
<1>3. ASSUME NEW r \in Requests, Abort(r) PROVE Control'
  BY <1>3, DenyControl DEF Abort
<1>4. CASE Environment
  BY <1>4, EnvironmentControl
<1>5. CASE UNCHANGED vars
  BY <1>5 DEF vars, store, external, history, Control, TypeOK, StoreTypeOK
<1> QED BY <1>1, <1>2, <1>3, <1>4, <1>5 DEF Next

\* Every reachable state is well typed.
THEOREM TypeCorrect == Spec => []TypeOK
<1>1. Control => TypeOK
  BY DEF Control
<1> QED BY <1>1, ControlInit, ControlNext, PTL DEF Spec

----------------------------------------------------------------------------
(* What a request's locals say about the store, whatever the others did    *)
(* since it read them.  The store is a parameter: st for the status table  *)
(* and se for the sessions.                                                *)

Backed(l, st, se) ==
    /\ l.held \in Session =>
           /\ TenantOf(l.held.principal) = l.held.tenant
           /\ se[l.sid] # Unissued
           /\ se[l.sid] # Deleted => UserOf(se[l.sid].principal) = UserOf(l.held.principal)
    /\ l.op \in SessionOps /\ l.pc \notin Validating => st[l.who] # "none"
    /\ l.pc \in {"createTenant", "put"} => st[l.who] # "none"
    /\ l.pc = "writePrincipal" => l.draft # "none"
    /\ l.pc = "move" => st[l.cur] # "none" /\ UserOf(l.cur) = UserOf(l.held.principal)

Inv ==
    /\ Control
    /\ SessionMatchesPrincipal
    /\ \A r \in Requests : Backed(req[r], status, session)

\* The five things a step can do to the sessions.
Ended ==
    \E S \in SUBSET SessionIds :
        /\ \A s \in S : Stored(s)
        /\ session' = [s \in SessionIds |-> IF s \in S THEN Deleted ELSE session[s]]
Issued ==
    \E s \in SessionIds, p \in Principals :
        /\ session[s] = Unissued /\ status[p] # "none"
        /\ session' = [session EXCEPT ![s] =
               [principal |-> p, tenant |-> TenantOf(p), expired |-> FALSE]]
Moved ==
    \E s \in SessionIds, p \in Principals :
        /\ Stored(s) /\ status[p] # "none" /\ UserOf(p) = UserOf(session[s].principal)
        /\ session' = [session EXCEPT ![s] =
               [principal |-> p, tenant |-> TenantOf(p), expired |-> session[s].expired]]
Aged ==
    \E s \in SessionIds : Stored(s) /\ session' = [session EXCEPT ![s].expired = TRUE]

Effects ==
    /\ Ended \/ Issued \/ Moved \/ Aged \/ UNCHANGED session
    /\ \A p \in Principals : status[p] # "none" => status'[p] # "none"

\* No step turns an ID that was issued back, and none hands a live session over.
Stable(s) ==
    session[s] # Unissued =>
        /\ session'[s] # Unissued
        /\ session'[s] # Deleted => /\ session[s] # Deleted
                                    /\ UserOf(session'[s].principal) = UserOf(session[s].principal)

LEMMA EffectsStable ==
    ASSUME StoreTypeOK, Effects, NEW s \in SessionIds
    PROVE  Stable(s)
<1> USE MarkersAssumption DEF Stable, Stored
<1>1. CASE Ended
  BY <1>1 DEF Ended
<1>2. CASE Issued
  BY <1>2, PrincipalParts DEF Issued, StoreTypeOK
<1>3. CASE Moved
  <2>1. PICK z \in SessionIds, p \in Principals :
          /\ Stored(z) /\ UserOf(p) = UserOf(session[z].principal)
          /\ session' = [session EXCEPT ![z] =
                 [principal |-> p, tenant |-> TenantOf(p), expired |-> session[z].expired]]
    BY <1>3 DEF Moved
  <2>2. session[z] \in Session
    BY <2>1 DEF StoreTypeOK
  <2>3. [principal |-> p, tenant |-> TenantOf(p), expired |-> session[z].expired] \in Session
    BY <2>2, PrincipalParts DEF Session
  <2> QED BY <2>1, <2>2, <2>3 DEF StoreTypeOK
<1>4. CASE Aged
  <2>1. PICK z \in SessionIds : Stored(z) /\ session' = [session EXCEPT ![z].expired = TRUE]
    BY <1>4 DEF Aged
  <2>2. session[z] \in Session
    BY <2>1 DEF StoreTypeOK
  <2>3. [session[z] EXCEPT !.expired = TRUE] \in Session
        /\ [session[z] EXCEPT !.expired = TRUE].principal = session[z].principal
    BY <2>2 DEF Session
  <2> QED BY <2>1, <2>2, <2>3 DEF StoreTypeOK
<1>5. CASE UNCHANGED session
  BY <1>5
<1> QED BY <1>1, <1>2, <1>3, <1>4, <1>5 DEF Effects

\* A request that did not move keeps its backing.
LEMMA BackedFrame ==
    ASSUME Control, Effects, NEW l \in Request, ControlOK(l), Backed(l, status, session)
    PROVE  Backed(l, status', session')
<1>1. l.held \in Session => l.sid \in SessionIds /\ l.op \in SessionOps
  BY NoneIsNew DEF ControlOK
<1>2. l.op \in SessionOps /\ l.pc \notin Validating => l.who \in Principals
  BY DEF ControlOK, Session, Validating
<1>3. l.pc = "move" => l.cur \in Principals
  BY DEF ControlOK
<1>4. l.pc \in {"createTenant", "put"} => l.who \in Principals
  BY DEF ControlOK
<1>5. l.held \in Session => Stable(l.sid)
  BY <1>1, EffectsStable DEF Control, TypeOK
<1> QED BY <1>1, <1>2, <1>3, <1>4, <1>5 DEF Backed, Effects, Stable

LEMMA MatchKept ==
    ASSUME Inv, Effects
    PROVE  SessionMatchesPrincipal'
<1> USE MarkersAssumption DEF Stored, SessionMatchesPrincipal, Inv, Control, TypeOK, StoreTypeOK
<1> SUFFICES ASSUME NEW s \in SessionIds, Stored(s)'
             PROVE  /\ session'[s].tenant = TenantOf(session'[s].principal)
                    /\ status'[session'[s].principal] # "none"
  OBVIOUS
<1>1. CASE Ended
  BY <1>1 DEF Ended, Effects, Session
<1>2. CASE Issued
  BY <1>2 DEF Issued, Effects, Session
<1>3. CASE Moved
  BY <1>3 DEF Moved, Effects, Session
<1>4. CASE Aged
  BY <1>4 DEF Aged, Effects, Session
<1>5. CASE UNCHANGED session
  BY <1>5 DEF Effects, Session
<1> QED BY <1>1, <1>2, <1>3, <1>4, <1>5 DEF Effects

\* A step of request r whose new record is backed by the new store.
LEMMA BackedStep ==
    ASSUME Inv, Control', Effects, NEW r \in Requests, NEW x,
           Become(r, x), Backed(x, status', session')
    PROVE  Inv' /\ Effects
<1>1. ASSUME NEW q \in Requests PROVE Backed(req'[q], status', session')
  <2>1. req'[q] = IF q = r THEN x ELSE req[q]
    BY DEF Become, Inv, Control, TypeOK
  <2>2. Backed(req[q], status', session')
    BY BackedFrame DEF Inv, Control, TypeOK
  <2> QED BY <2>1, <2>2
<1> QED BY <1>1, MatchKept DEF Inv

\* A record with nothing held, on no point that relies on the store.
LEMMA OutcomeBacked ==
    ASSUME NEW res \in Finished, NEW w, NEW sn, NEW st, NEW se
    PROVE  Backed(Outcome(res, w, sn), st, se)
BY NoneIsNew DEF Outcome, Idle, Backed, Finished, Creating, Syncing, Projecting, Validating, Revoking,
           Administering, SessionOps, AdminOps, Operation, At

LEMMA QuietEffects ==
    ASSUME UNCHANGED store
    PROVE  Effects
BY DEF Effects, store

LEMMA DenyBacked ==
    ASSUME Inv, NEW r \in Requests, Deny(r)
    PROVE  Inv' /\ Effects
BY DenyControl, OutcomeBacked, QuietEffects, BackedStep DEF Deny, Inv, Finished

LEMMA JudgeBacked ==
    ASSUME Inv, Control', NEW r \in Requests, NEW x \in Request, Judge(r, x), Effects,
           x.held \in Session, x.op \in SessionOps, x.who \in Principals,
           Backed([x EXCEPT !.pc = "admitted"], status', session')
    PROVE  Inv' /\ Effects
<1>1. CASE ~Admits(x.seen)
  BY <1>1, OutcomeBacked, BackedStep DEF Judge, Finished
<1>2. CASE Admits(x.seen) /\ x.op = "identity"
  BY <1>2, OutcomeBacked, BackedStep DEF Judge, Finished
<1>3. CASE Admits(x.seen) /\ x.op # "identity"
  BY <1>3, BackedStep DEF Judge
<1> QED BY <1>1, <1>2, <1>3

LEMMA StartBacked ==
    ASSUME Inv, NEW r \in Requests, Start(r)
    PROVE  Inv' /\ Effects
<1>1. Control'
  BY StartControl DEF Inv
<1>2. ASSUME NEW op, NEW sid, NEW arg, NEW point, Begin(r, op, sid, arg, point),
             point \in {"session", "fetch", "createPrincipal"},
             op \in SessionOps => point = "session"
      PROVE  Inv' /\ Effects
  <2>1. Backed([Idle EXCEPT !.pc = point, !.op = op, !.sid = sid, !.arg = arg], status, session)
    BY <1>2, NoneIsNew DEF Idle, Backed, Validating
  <2>2. UNCHANGED store
    BY <1>2 DEF Begin
  <2> QED BY <1>1, <1>2, <2>1, <2>2, QuietEffects, BackedStep DEF Begin, store
<1>3. CASE StartIdentity(r)
  BY <1>2, <1>3 DEF StartIdentity
<1>4. CASE StartSwitchTeam(r)
  BY <1>2, <1>4 DEF StartSwitchTeam
<1>5. CASE StartSwitchTenant(r)
  BY <1>2, <1>5 DEF StartSwitchTenant
<1>6. CASE StartAdmin(r)
  BY <1>2, <1>6 DEF StartAdmin
<1>7. CASE StartCreate(r)
  BY <1>2, <1>7 DEF StartCreate, SessionOps
<1>8. CASE StartLogin(r)
  BY <1>2, <1>8 DEF StartLogin, SessionOps
<1> QED BY <1>3, <1>4, <1>5, <1>6, <1>7, <1>8 DEF Start

LEMMA ValidationBacked ==
    ASSUME Inv, NEW r \in Requests, Validation(r)
    PROVE  Inv' /\ Effects
<1> DEFINE l == req[r]
<1>0. l \in Request /\ ControlOK(l) /\ Backed(l, status, session) /\ Control' /\ Control
  BY ValidationControl DEF Inv, Control, TypeOK
<1>1. CASE ReadSession(r)
  <2> DEFINE s == l.sid
             x == [l EXCEPT !.held = session[s],
                            !.pc = IF session[s].expired THEN "drop" ELSE "tenant"]
  <2>1. CASE Deny(r)
    BY <2>1, DenyBacked
  <2>2. CASE ~Deny(r)
    <3>1. Stored(s) /\ Become(r, x) /\ UNCHANGED store /\ At(r, "session")
      BY <1>1, <2>2 DEF ReadSession
    <3>2. l.op \in SessionOps
      BY <1>0, <3>1 DEF ControlOK, Finished, Creating, Syncing, Projecting, Validating,
           Revoking, Administering, SessionOps, AdminOps, Operation, At, Request
    <3>3. s \in SessionIds /\ session[s] \in Session
      BY <1>0, <3>1, <3>2 DEF ControlOK, Inv, Control, TypeOK, StoreTypeOK, Stored
    <3>4. x.held = session[s] /\ x.sid = s /\ x.pc \in {"drop", "tenant"}
      BY <1>0 DEF Request
    <3>5. Backed(x, status, session)
      BY <3>1, <3>3, <3>4 DEF Backed, Inv, SessionMatchesPrincipal, Stored, Validating
    <3> QED BY <1>0, <3>1, <3>5, QuietEffects, BackedStep DEF store
  <2> QED BY <2>1, <2>2
<1>2. CASE DropExpired(r)
  <2>1. l.sid \in SessionIds
    BY <1>0, <1>2 DEF DropExpired, ControlOK, Finished, Creating, Syncing, Projecting, Validating,
           Revoking, Administering, SessionOps, AdminOps, Operation, At, Request
  <2>2. Ended
    <3> DEFINE S == IF Stored(l.sid) THEN {l.sid} ELSE {}
    <3>1. S \in SUBSET SessionIds /\ \A s \in S : Stored(s)
      BY <2>1
    <3>2. session' = [s \in SessionIds |-> IF s \in S THEN Deleted ELSE session[s]]
      BY <1>0, <1>2, <2>1 DEF DropExpired, DeleteSession, Control, TypeOK, StoreTypeOK
    <3> QED BY <3>1, <3>2 DEF Ended
  <2>3. Effects
    BY <1>2, <2>2 DEF Effects, DropExpired
  <2> QED BY <1>0, <1>2, <2>3, OutcomeBacked, BackedStep DEF DropExpired, Finished
<1>3. CASE ReadTenant(r)
  <2>1. CASE Deny(r)
    BY <2>1, DenyBacked
  <2>2. CASE ~Deny(r)
    <3>1. Goto(r, "principal") /\ UNCHANGED store
      BY <1>3, <2>2 DEF ReadTenant
    <3>2. Backed([l EXCEPT !.pc = "principal"], status, session)
      BY <1>0 DEF Backed, Request, Validating
    <3> QED BY <1>0, <3>1, <3>2, QuietEffects, BackedStep DEF Goto, store
  <2> QED BY <2>1, <2>2
<1>4. CASE ReadPrincipal(r)
  <2> DEFINE p == l.held.principal
             x == [l EXCEPT !.who = p, !.seen = status[p]]
  <2>1. CASE Deny(r)
    BY <2>1, DenyBacked
  <2>2. CASE ~Deny(r)
    <3>1. /\ At(r, "principal") /\ UNCHANGED store /\ status[p] # "none"
          /\ Become(r, [x EXCEPT !.pc = "fetch"]) \/ Judge(r, x)
      BY <1>4, <2>2 DEF ReadPrincipal
    <3>2. l.op \in SessionOps /\ l.held \in Session
      BY <1>0, <3>1 DEF ControlOK, Finished, Creating, Syncing, Projecting, Validating,
           Revoking, Administering, SessionOps, AdminOps, Operation, At, Request
    <3>3. p \in Principals /\ status[p] \in Status
      BY <1>0, <3>2 DEF Session, Control, TypeOK, StoreTypeOK
    <3>4. x \in Request /\ x.held = l.held /\ x.op = l.op /\ x.who = p
      BY <1>0, <3>3, WhoSet DEF Request
    <3>5. ASSUME NEW pt \in {"fetch", "admitted"}
          PROVE  Backed([x EXCEPT !.pc = pt], status, session)
      BY <1>0, <3>1 DEF Backed, Request
    <3> QED BY <1>0, <3>1, <3>2, <3>3, <3>4, <3>5, QuietEffects, BackedStep, JudgeBacked DEF store
  <2> QED BY <2>1, <2>2
<1> QED BY <1>1, <1>2, <1>3, <1>4 DEF Validation

\* DeleteSessionsByPrincipal ends live sessions and nothing else.
LEMMA PurgeEffects ==
    ASSUME Inv, NEW p, DeleteSessionsByPrincipal(p), UNCHANGED status
    PROVE  Effects
<1>1. Ended
  <2>1. SessionsOf(p) \in SUBSET SessionIds /\ \A s \in SessionsOf(p) : Stored(s)
    BY DEF SessionsOf
  <2> QED BY <2>1 DEF Ended, DeleteSessionsByPrincipal
<1> QED BY <1>1 DEF Effects

LEMMA StatusEffects ==
    ASSUME Inv, NEW p \in Principals, NEW st, st # "none",
           status' = [status EXCEPT ![p] = st], UNCHANGED session
    PROVE  Effects
BY DEF Effects, Inv, Control, TypeOK, StoreTypeOK

LEMMA SyncBacked ==
    ASSUME Inv, NEW r \in Requests, DirectorySync(r)
    PROVE  Inv' /\ Effects
<1> DEFINE l == req[r]
<1>0. l \in Request /\ ControlOK(l) /\ Backed(l, status, session) /\ Control' /\ Control
  BY FetchControl, ProjectionControl, RevokingControl DEF Inv, Control, TypeOK, DirectorySync
<1>1. CASE Fetch(r)
  <2>1. \E f, a : Become(r, [l EXCEPT !.pc = "pick", !.todo = f, !.snap = a])
    BY <1>1 DEF Fetch
  <2>2. ASSUME NEW f, NEW a
        PROVE  Backed([l EXCEPT !.pc = "pick", !.todo = f, !.snap = a], status, session)
    BY <1>0, <1>1 DEF Fetch, Backed, Request, Finished, Creating, Syncing, Projecting, Validating, Revoking,
           Administering, SessionOps, AdminOps, Operation, At
  <2> QED BY <1>0, <1>1, <2>1, <2>2, QuietEffects, BackedStep DEF Fetch, store
<1>2. CASE FetchFails(r)
  BY <1>2, DenyBacked DEF FetchFails
<1>3. CASE PickSnapshot(r)
  <2>1. \/ \E p \in l.todo :
             Become(r, [l EXCEPT !.pc = "readTenant", !.cur = p, !.todo = @ \ {p}])
        \/ Become(r, [l EXCEPT !.pc = "synced"])
    BY <1>3 DEF PickSnapshot, Goto
  <2>2. ASSUME NEW p
        PROVE  Backed([l EXCEPT !.pc = "readTenant", !.cur = p, !.todo = @ \ {p}], status, session)
    BY <1>0, <1>3 DEF PickSnapshot, Backed, Request, Finished, Creating, Syncing, Projecting, Validating, Revoking,
           Administering, SessionOps, AdminOps, Operation, At
  <2>3. Backed([l EXCEPT !.pc = "synced"], status, session)
    BY <1>0, <1>3 DEF PickSnapshot, Backed, Request, Finished, Creating, Syncing, Projecting, Validating, Revoking,
           Administering, SessionOps, AdminOps, Operation, At
  <2> QED BY <1>0, <1>3, <2>1, <2>2, <2>3, QuietEffects, BackedStep DEF PickSnapshot, store
<1>4. CASE SyncReadTenant(r)
  <2>1. \E d : Become(r, [l EXCEPT !.pc = "writeTenant", !.draft = d])
    BY <1>4 DEF SyncReadTenant
  <2>2. ASSUME NEW d PROVE Backed([l EXCEPT !.pc = "writeTenant", !.draft = d], status, session)
    BY <1>0, <1>4 DEF SyncReadTenant, Backed, Request, Finished, Creating, Syncing, Projecting, Validating, Revoking,
           Administering, SessionOps, AdminOps, Operation, At
  <2> QED BY <1>0, <1>4, <2>1, <2>2, QuietEffects, BackedStep DEF SyncReadTenant, store
<1>5. CASE SyncWriteTenant(r)
  <2>1. Effects
    BY <1>5 DEF SyncWriteTenant, Effects
  <2>2. Backed([l EXCEPT !.pc = "readPrincipal"], status, session)
    BY <1>0, <1>5 DEF SyncWriteTenant, Backed, Request, Finished, Creating, Syncing, Projecting, Validating, Revoking,
           Administering, SessionOps, AdminOps, Operation, At
  <2> QED BY <1>0, <1>5, <2>1, <2>2, BackedStep DEF SyncWriteTenant, Goto
<1>6. CASE SyncReadPrincipal(r)
  <2> DEFINE d == ProjectedStatus(l.snap[l.cur], status[l.cur])
  <2>1. d # "none"
    BY DEF ProjectedStatus
  <2>2. ASSUME NEW e, e # "none"
        PROVE  Backed([l EXCEPT !.pc = "writePrincipal", !.draft = e], status, session)
    BY <1>0, <1>6, <2>2 DEF SyncReadPrincipal, Backed, Request, Finished, Creating, Syncing, Projecting, Validating, Revoking,
           Administering, SessionOps, AdminOps, Operation, At
  <2> QED BY <1>0, <1>6, <2>1, <2>2, QuietEffects, BackedStep DEF SyncReadPrincipal, store
<1>7. CASE SyncWritePrincipal(r)
  <2>1. l.draft # "none" /\ l.cur \in Principals
    BY <1>0, <1>7, PrincipalsAssumption DEF SyncWritePrincipal, Backed, ControlOK, At, Projecting
  <2>2. Effects
    BY <1>7, <2>1, StatusEffects DEF SyncWritePrincipal, UpsertPrincipal
  <2>3. Backed(l, status', session')
    BY <1>0, <2>2, BackedFrame
  <2>4. Backed([l EXCEPT !.pc = "purgeSynced"], status', session')
    BY <1>0, <1>7, <2>3 DEF SyncWritePrincipal, Backed, Request, Finished, Creating, Syncing, Projecting, Validating, Revoking,
           Administering, SessionOps, AdminOps, Operation, At
  <2>5. ASSUME NEW e
        PROVE  Backed([l EXCEPT !.pc = "pick", !.cur = None, !.draft = "none", !.seen = e],
                      status', session')
    BY <1>0, <1>7, <2>3 DEF SyncWritePrincipal, Backed, Request, Finished, Creating, Syncing, Projecting, Validating, Revoking,
           Administering, SessionOps, AdminOps, Operation, At
  <2> QED BY <1>0, <1>7, <2>2, <2>4, <2>5, BackedStep DEF SyncWritePrincipal, Goto, Projected
<1>8. CASE SyncPurge(r)
  <2>1. Effects
    BY <1>8, PurgeEffects DEF SyncPurge
  <2>2. Backed(l, status', session')
    BY <1>0, <2>1, BackedFrame
  <2>3. ASSUME NEW e
        PROVE  Backed([l EXCEPT !.pc = "pick", !.cur = None, !.draft = "none", !.seen = e],
                      status', session')
    BY <1>0, <1>8, <2>2 DEF SyncPurge, Backed, Request, Finished, Creating, Syncing, Projecting, Validating, Revoking,
           Administering, SessionOps, AdminOps, Operation, At
  <2> QED BY <1>0, <1>8, <2>1, <2>3, BackedStep DEF SyncPurge, Projected
<1>9. CASE Synced(r)
  <2>0. UNCHANGED store /\ At(r, "synced") /\ Effects
    BY <1>9, QuietEffects DEF Synced, store
  <2>1. ASSUME NEW p, Become(r, [l EXCEPT !.pc = "createPrincipal", !.arg = p]), l.op = "login"
        PROVE  Inv' /\ Effects
    <3>1. Backed([l EXCEPT !.pc = "createPrincipal", !.arg = p], status, session)
      BY <1>0, <2>0, <2>1 DEF Backed, Request, Finished, Creating, Syncing, Projecting, Validating, Revoking,
           Administering, SessionOps, AdminOps, Operation, At
    <3> QED BY <1>0, <2>0, <2>1, <3>1, BackedStep DEF store
  <2>2. ASSUME Become(r, Outcome("denied", None, Idle.snap))
        PROVE  Inv' /\ Effects
    BY <1>0, <2>0, <2>2, OutcomeBacked, BackedStep DEF Finished
  <2>3. ASSUME l.op # "login", Judge(r, l) PROVE Inv' /\ Effects
    <3>1. l.op \in SessionOps /\ l.held \in Session /\ l.who \in Principals
      BY <1>0, <2>0, <2>3 DEF Session, ControlOK, Finished, Creating, Syncing, Projecting, Validating,
           Revoking, Administering, SessionOps, AdminOps, Operation, At, Request
    <3>2. Backed([l EXCEPT !.pc = "admitted"], status, session)
      BY <1>0, <2>0 DEF Backed, Request, Finished, Creating, Syncing, Projecting, Validating, Revoking,
           Administering, SessionOps, AdminOps, Operation, At
    <3> QED BY <1>0, <2>0, <2>3, <3>1, <3>2, JudgeBacked DEF store
  <2>4. ASSUME Goto(r, "revoke") PROVE Inv' /\ Effects
    <3>1. Backed([l EXCEPT !.pc = "revoke"], status, session)
      BY <1>0, <2>0 DEF Backed, Request, Finished, Creating, Syncing, Projecting, Validating, Revoking,
           Administering, SessionOps, AdminOps, Operation, At
    <3> QED BY <1>0, <2>0, <2>4, <3>1, BackedStep DEF Goto, store
  <2> QED BY <1>9, <2>1, <2>2, <2>3, <2>4 DEF Synced
<1>10. CASE RevokePrincipal(r)
  <2>1. l.who \in Principals
    BY <1>0, <1>10 DEF RevokePrincipal, Session, ControlOK, Finished, Creating, Syncing, Projecting, Validating,
           Revoking, Administering, SessionOps, AdminOps, Operation, At, Request
  <2>2. Effects
    BY <1>10, <2>1, StatusEffects DEF RevokePrincipal, UpdatePrincipalStatus
  <2>3. Backed(l, status', session')
    BY <1>0, <2>2, BackedFrame
  <2>4. Backed([l EXCEPT !.pc = "purgeRevoked"], status', session')
    BY <1>0, <1>10, <2>3 DEF RevokePrincipal, Backed, Request, Finished, Creating, Syncing, Projecting, Validating, Revoking,
           Administering, SessionOps, AdminOps, Operation, At
  <2> QED BY <1>0, <1>10, <2>2, <2>4, BackedStep DEF RevokePrincipal, Goto
<1>11. CASE PurgeRevoked(r)
  <2>1. Effects
    BY <1>11, PurgeEffects DEF PurgeRevoked
  <2> QED BY <1>0, <1>11, <2>1, OutcomeBacked, BackedStep DEF PurgeRevoked, Finished
<1> QED
  BY <1>1, <1>2, <1>3, <1>4, <1>5, <1>6, <1>7, <1>8, <1>9, <1>10, <1>11 DEF DirectorySync

LEMMA SwitchingBacked ==
    ASSUME Inv, NEW r \in Requests, Switching(r)
    PROVE  Inv' /\ Effects
<1> DEFINE l == req[r]
<1>0. l \in Request /\ ControlOK(l) /\ Backed(l, status, session) /\ Control' /\ Control
  BY SwitchingControl DEF Inv, Control, TypeOK
<1>1. ASSUME NEW p, Become(r, [l EXCEPT !.pc = "move", !.cur = p]), UNCHANGED store,
             l.op \in SessionOps, l.pc \in {"admitted", "list"},
             status[p] # "none", UserOf(p) = UserOf(l.held.principal)
      PROVE  Inv' /\ Effects
  <2>1. Backed([l EXCEPT !.pc = "move", !.cur = p], status, session)
    BY <1>0, <1>1 DEF Backed, Request, Finished, Creating, Syncing, Projecting, Validating, Revoking,
           Administering, SessionOps, AdminOps, Operation, At
  <2> QED BY <1>0, <1>1, <2>1, QuietEffects, BackedStep DEF store
<1>2. ASSUME At(r, "admitted") \/ At(r, "list"), l.op \in {"team", "switch"}
      PROVE  l.op \in SessionOps /\ l.who = l.held.principal /\ status[l.who] # "none"
  BY <1>0, <1>2 DEF Backed, ControlOK, Finished, Creating, Syncing, Projecting, Validating,
           Revoking, Administering, SessionOps, AdminOps, Operation, At, Request
<1>3. CASE ChooseTeam(r)
  BY <1>1, <1>2, <1>3 DEF ChooseTeam, At, store
<1>4. CASE ChooseTenant(r)
  <2>1. CASE Deny(r)
    BY <2>1, DenyBacked
  <2>2. CASE Become(r, [l EXCEPT !.pc = "move", !.cur = l.who]) /\ UNCHANGED store
    BY <1>1, <1>2, <1>4, <2>2 DEF ChooseTenant, At
  <2>3. CASE Goto(r, "list") /\ UNCHANGED store
    <3>1. Backed([l EXCEPT !.pc = "list"], status, session)
      BY <1>0, <1>4 DEF ChooseTenant, Backed, Request, Finished, Creating, Syncing, Projecting, Validating, Revoking,
           Administering, SessionOps, AdminOps, Operation, At
    <3> QED BY <1>0, <2>3, <3>1, QuietEffects, BackedStep DEF Goto, store
  <2> QED BY <1>4, <2>1, <2>2, <2>3 DEF ChooseTenant
<1>5. CASE ListPrincipals(r)
  <2>1. CASE Deny(r)
    BY <2>1, DenyBacked
  <2>2. CASE ~Deny(r)
    <3>1. PICK p \in Candidates(r) :
            Become(r, [l EXCEPT !.pc = "move", !.cur = p]) /\ UNCHANGED store
      BY <1>5, <2>2 DEF ListPrincipals
    <3>2. status[p] # "none" /\ UserOf(p) = UserOf(l.who)
      BY DEF Candidates, PrincipalsByCasdoorUser
    <3>3. l.op = "switch" /\ At(r, "list")
      BY <1>0, <1>5 DEF ListPrincipals, ControlOK, At
    <3> QED BY <1>1, <1>2, <3>1, <3>2, <3>3 DEF At
  <2> QED BY <2>1, <2>2
<1>6. CASE MoveSession(r)
  <2> DEFINE s == l.sid
             tenant == IF l.op = "team" THEN l.held.tenant ELSE TenantOf(l.cur)
             x == [Idle EXCEPT !.pc = "session", !.op = "identity", !.sid = s]
  <2>1. CASE Deny(r)
    BY <2>1, DenyBacked
  <2>2. CASE ~Deny(r)
    <3>1. /\ UpdateSessionContext(s, l.cur, tenant) /\ At(r, "move")
          /\ Become(r, x) /\ UNCHANGED <<tenantStatus, status>>
      BY <1>6, <2>2 DEF MoveSession
    <3>2. /\ s \in SessionIds /\ l.cur \in Principals /\ l.held \in Session
          /\ l.op = "team" => l.cur = l.held.principal
      BY <1>0, <3>1 DEF ControlOK, Finished, Creating, Syncing, Projecting, Validating,
           Revoking, Administering, SessionOps, AdminOps, Operation, At, Request
    <3>3. /\ status[l.cur] # "none" /\ UserOf(l.cur) = UserOf(l.held.principal)
          /\ TenantOf(l.held.principal) = l.held.tenant
      BY <1>0, <3>1, <3>2 DEF Backed, At
    <3>4. Stored(s) /\ UserOf(session[s].principal) = UserOf(l.held.principal)
      BY <1>0, <3>1, <3>2 DEF Backed, UpdateSessionContext, Stored
    <3>5. tenant = TenantOf(l.cur)
      BY <3>2, <3>3
    <3>6. Moved
      BY <3>1, <3>2, <3>3, <3>4, <3>5 DEF Moved, UpdateSessionContext
    <3>7. Effects
      BY <3>1, <3>6 DEF Effects
    <3>8. Backed(x, status', session')
      BY NoneIsNew DEF Idle, Backed, Validating
    <3> QED BY <1>0, <3>1, <3>7, <3>8, BackedStep
  <2> QED BY <2>1, <2>2
<1> QED BY <1>3, <1>4, <1>5, <1>6 DEF Switching

LEMMA CreationBacked ==
    ASSUME Inv, NEW r \in Requests, Creation(r)
    PROVE  Inv' /\ Effects
<1> DEFINE l == req[r]
<1>0. l \in Request /\ ControlOK(l) /\ Backed(l, status, session) /\ Control' /\ Control
  BY CreationControl DEF Inv, Control, TypeOK
<1>1. CASE CreateReadPrincipal(r)
  <2> DEFINE x == [Idle EXCEPT !.pc = "createTenant", !.op = l.op,
                               !.who = l.arg, !.seen = status[l.arg]]
  <2>1. CASE Deny(r)
    BY <2>1, DenyBacked
  <2>2. CASE ~Deny(r)
    <3>1. /\ Become(r, x) /\ At(r, "createPrincipal") /\ UNCHANGED store
          /\ status[l.arg] # "none"
      BY <1>1, <2>2 DEF CreateReadPrincipal
    <3>2. l.op \notin SessionOps
      BY <1>0, <3>1 DEF ControlOK, Creating, At
    <3>3. Backed(x, status, session)
      BY <3>1, <3>2, NoneIsNew DEF Idle, Backed, Validating
    <3> QED BY <1>0, <3>1, <3>3, QuietEffects, BackedStep DEF store
  <2> QED BY <2>1, <2>2
<1>2. CASE CreateReadTenant(r)
  <2>1. CASE Deny(r)
    BY <2>1, DenyBacked
  <2>2. CASE ~Deny(r)
    <3>1. Goto(r, "put") /\ At(r, "createTenant") /\ UNCHANGED store
      BY <1>2, <2>2 DEF CreateReadTenant
    <3>2. Backed([l EXCEPT !.pc = "put"], status, session)
      BY <1>0, <3>1 DEF Backed, Request, Finished, Creating, Syncing, Projecting, Validating, Revoking,
           Administering, SessionOps, AdminOps, Operation, At
    <3> QED BY <1>0, <3>1, <3>2, QuietEffects, BackedStep DEF Goto, store
  <2> QED BY <2>1, <2>2
<1>3. CASE CreateSession(r)
  <2>1. l.who \in Principals /\ status[l.who] # "none"
    BY <1>0, <1>3 DEF CreateSession, ControlOK, Backed, At
  <2>2. PICK s \in SessionIds :
          /\ session[s] = Unissued
          /\ PutSession(s, l.who, TenantOf(l.who))
          /\ IF l.op = "login"
             THEN Become(r, [Idle EXCEPT !.pc = "session", !.op = "identity", !.sid = s])
             ELSE Become(r, Outcome("ok", None, Idle.snap))
    BY <1>3 DEF CreateSession
  <2>3. Issued
    BY <2>1, <2>2 DEF Issued, PutSession
  <2>4. Effects
    BY <1>3, <2>3 DEF Effects, CreateSession
  <2>5. Backed([Idle EXCEPT !.pc = "session", !.op = "identity", !.sid = s], status', session')
    BY NoneIsNew DEF Idle, Backed, Validating
  <2> QED BY <1>0, <2>2, <2>4, <2>5, OutcomeBacked, BackedStep DEF Finished
<1> QED BY <1>1, <1>2, <1>3 DEF Creation

LEMMA AdministrationBacked ==
    ASSUME Inv, NEW r \in Requests, Administration(r)
    PROVE  Inv' /\ Effects
<1> DEFINE l == req[r]
<1>0. l \in Request /\ ControlOK(l) /\ Backed(l, status, session) /\ Control' /\ Control
  BY AdministrationControl DEF Inv, Control, TypeOK
<1>1. ASSUME NEW pt \in Administering, Goto(r, pt), l.op \in AdminOps, Effects,
             l.pc \notin Validating
      PROVE  Inv' /\ Effects
  <2>1. Backed(l, status', session')
    BY <1>0, <1>1, BackedFrame
  <2>2. Backed([l EXCEPT !.pc = pt], status', session')
    BY <1>0, <1>1, <2>1 DEF Backed, Request, Finished, Creating, Syncing, Projecting, Validating, Revoking,
           Administering, SessionOps, AdminOps, Operation, At
  <2> QED BY <1>0, <1>1, <2>2, BackedStep DEF Goto
<1>2. CASE AuthorizeAdmin(r)
  <2>1. CASE Deny(r)
    BY <2>1, DenyBacked
  <2>2. CASE ~Deny(r)
    <3>1. /\ UNCHANGED store /\ At(r, "admitted") /\ l.op \in AdminOps
          /\ Goto(r, "checkPending") \/ Goto(r, "setStatus")
      BY <1>2, <2>2 DEF AuthorizeAdmin
    <3> QED BY <1>1, <3>1, QuietEffects DEF Finished, Creating, Syncing, Projecting, Validating, Revoking,
           Administering, SessionOps, AdminOps, Operation, At
  <2> QED BY <2>1, <2>2
<1>3. CASE CheckPending(r)
  <2>1. CASE Deny(r)
    BY <2>1, DenyBacked
  <2>2. CASE ~Deny(r)
    <3>1. UNCHANGED store /\ At(r, "checkPending") /\ Goto(r, "setStatus")
      BY <1>3, <2>2 DEF CheckPending
    <3>2. l.op \in AdminOps
      BY <1>0, <3>1 DEF ControlOK, Administering, At
    <3> QED BY <1>1, <3>1, <3>2, QuietEffects DEF Finished, Creating, Syncing, Projecting, Validating, Revoking,
           Administering, SessionOps, AdminOps, Operation, At
  <2> QED BY <2>1, <2>2
<1>4. CASE EnableStatus(r)
  <2>1. l.arg \in Principals
    BY <1>0, <1>4 DEF EnableStatus, ControlOK, AdminOps
  <2>2. Effects
    BY <1>4, <2>1, StatusEffects DEF EnableStatus, UpdatePrincipalStatus
  <2> QED BY <1>0, <1>4, <2>2, OutcomeBacked, BackedStep DEF EnableStatus, Succeed, Finished
<1>5. CASE DisableStatus(r)
  <2>1. l.arg \in Principals /\ l.op \in AdminOps
    BY <1>0, <1>5 DEF DisableStatus, ControlOK, AdminOps
  <2>2. Effects
    BY <1>5, <2>1, StatusEffects DEF DisableStatus, UpdatePrincipalStatus
  <2> QED BY <1>1, <1>5, <2>1, <2>2 DEF DisableStatus, Finished, Creating, Syncing, Projecting, Validating, Revoking,
           Administering, SessionOps, AdminOps, Operation, At
<1>6. CASE UnknownPrincipal(r)
  BY <1>6, DenyBacked DEF UnknownPrincipal
<1>7. CASE PurgeSessions(r)
  <2>1. Effects
    BY <1>7, PurgeEffects DEF PurgeSessions
  <2> QED BY <1>0, <1>7, <2>1, OutcomeBacked, BackedStep DEF PurgeSessions, Succeed, Finished
<1> QED BY <1>2, <1>3, <1>4, <1>5, <1>6, <1>7 DEF Administration

LEMMA EnvironmentBacked ==
    ASSUME Inv, Environment
    PROVE  Inv' /\ Effects
<1>0. Control' /\ Control /\ StoreTypeOK
  BY EnvironmentControl DEF Inv, Control, TypeOK
<1>1. ASSUME UNCHANGED req, Effects
      PROVE  Inv' /\ Effects
  <2>1. ASSUME NEW q \in Requests PROVE Backed(req'[q], status', session')
    BY <1>1, BackedFrame DEF Inv, Control, TypeOK
  <2> QED BY <1>0, <1>1, <2>1, MatchKept DEF Inv
<1>2. ASSUME NEW s \in SessionIds, Logout(s)
      PROVE  Inv' /\ Effects
  <2>1. Ended
    <3>1. {s} \in SUBSET SessionIds /\ \A z \in {s} : Stored(z)
      BY <1>2 DEF Logout
    <3>2. session' = [z \in SessionIds |-> IF z \in {s} THEN Deleted ELSE session[z]]
      BY <1>0, <1>2 DEF Logout, DeleteSession, StoreTypeOK
    <3> QED BY <3>1, <3>2 DEF Ended
  <2> QED BY <1>1, <1>2, <2>1 DEF Effects, Logout
<1>3. ASSUME NEW s \in SessionIds, Expire(s)
      PROVE  Inv' /\ Effects
  BY <1>1, <1>3 DEF Effects, Aged, Expire
<1>4. ASSUME NEW p \in Managed, DirectoryChanges(p)
      PROVE  Inv' /\ Effects
  BY <1>1, <1>4, QuietEffects DEF DirectoryChanges
<1>5. ASSUME NEW t \in Tenants, HostDisablesTenant(t)
      PROVE  Inv' /\ Effects
  BY <1>1, <1>5 DEF Effects, HostDisablesTenant
<1> QED BY <1>2, <1>3, <1>4, <1>5 DEF Environment

LEMMA InvInit == Init => Inv
<1> SUFFICES ASSUME Init PROVE Inv
  OBVIOUS
<1>1. Control
  BY ControlInit
<1>2. SessionMatchesPrincipal
  <2> SUFFICES ASSUME NEW s \in SessionIds, Stored(s)
               PROVE  /\ session[s].tenant = TenantOf(session[s].principal)
                      /\ status[session[s].principal] # "none"
    BY DEF SessionMatchesPrincipal
  <2>1. PICK p \in Provisioned :
          session[s] = [principal |-> p, tenant |-> TenantOf(p), expired |-> FALSE]
    BY DEF Init, StoreInit, Stored
  <2>2. p \in Principals
    BY PrincipalsAssumption
  <2> QED BY <2>1, <2>2 DEF Init, StoreInit
<1>3. ASSUME NEW r \in Requests PROVE Backed(req[r], status, session)
  BY NoneIsNew DEF Init, Idle, Backed, SessionOps, Operation, AdminOps
<1> QED BY <1>1, <1>2, <1>3 DEF Inv

LEMMA InvNext == Inv /\ [Next]_vars => Inv' /\ (Effects \/ UNCHANGED vars)
<1> SUFFICES ASSUME Inv, [Next]_vars PROVE Inv' /\ (Effects \/ UNCHANGED vars)
  OBVIOUS
<1>1. ASSUME NEW r \in Requests, Start(r) PROVE Inv' /\ Effects
  BY <1>1, StartBacked
<1>2. ASSUME NEW r \in Requests, Serve(r) PROVE Inv' /\ Effects
  BY <1>2, ValidationBacked, SyncBacked, SwitchingBacked, CreationBacked,
     AdministrationBacked DEF Serve
<1>3. ASSUME NEW r \in Requests, Abort(r) PROVE Inv' /\ Effects
  BY <1>3, DenyBacked DEF Abort
<1>4. CASE UNCHANGED vars
  <2>1. Control'
    BY <1>4, ControlNext DEF Inv
  <2>2. UNCHANGED <<store, req>>
    BY <1>4 DEF vars
  <2>3. SessionMatchesPrincipal'
    BY <2>2 DEF store, Inv, SessionMatchesPrincipal, Stored
  <2>4. \A r \in Requests : Backed(req'[r], status', session')
    BY <2>2 DEF store, Inv
  <2> QED BY <1>4, <2>1, <2>3, <2>4 DEF Inv
<1> QED BY <1>1, <1>2, <1>3, <1>4, EnvironmentBacked DEF Next

\* In every reachable state a stored session names a principal that exists and
\* that principal's own tenant, however switches, sign-ins and directory
\* refreshes interleave.
THEOREM SessionsConsistent == Spec => []SessionMatchesPrincipal
<1>1. Inv => SessionMatchesPrincipal
  BY DEF Inv
<1>2. Inv /\ [Next]_vars => Inv'
  BY InvNext
<1> QED BY <1>1, <1>2, InvInit, PTL DEF Spec

----------------------------------------------------------------------------
(* The service implements the ledger of session IDs.                       *)

Owner == [s \in SessionIds |-> IF Stored(s) THEN session[s].principal ELSE session[s]]

LEMMA OwnerLive ==
    ASSUME StoreTypeOK, NEW s \in SessionIds
    PROVE  Owner[s] \in {Unissued, Deleted} <=> ~Stored(s)
<1>1. CASE Stored(s)
  <2>1. session[s] \in Session
    BY <1>1 DEF StoreTypeOK, Stored
  <2>2. Owner[s] \in Principals
    BY <1>1, <2>1 DEF Owner, Session
  <2> QED BY <1>1, <2>2, MarkersAssumption
<1>2. CASE ~Stored(s)
  BY <1>2 DEF Owner, Stored
<1> QED BY <1>1, <1>2

LEMMA LedgerStep ==
    ASSUME Inv, Effects
    PROVE  [Ledger!Next]_Owner
<1>0. StoreTypeOK
  BY DEF Inv, Control, TypeOK
<1> USE MarkersAssumption
<1>1. CASE Ended
  <2>1. PICK S \in SUBSET SessionIds :
          /\ \A s \in S : Stored(s)
          /\ session' = [s \in SessionIds |-> IF s \in S THEN Deleted ELSE session[s]]
    BY <1>1 DEF Ended
  <2>2. Owner' = [s \in SessionIds |-> IF s \in S THEN Deleted ELSE Owner[s]]
    BY <2>1 DEF Owner, Stored
  <2>3. \A s \in S : Owner[s] \notin {Unissued, Deleted}
    BY <1>0, <2>1, OwnerLive
  <2> QED BY <2>2, <2>3 DEF Ledger!Next, Ledger!End, Ledger!Live, Owner
<1>2. CASE Issued
  <2>1. PICK s \in SessionIds, p \in Principals :
          /\ session[s] = Unissued
          /\ session' = [session EXCEPT ![s] =
                 [principal |-> p, tenant |-> TenantOf(p), expired |-> FALSE]]
    BY <1>2 DEF Issued
  <2>2. [principal |-> p, tenant |-> TenantOf(p), expired |-> FALSE] \in Session
    BY PrincipalParts DEF Session
  <2>3. Owner' = [Owner EXCEPT ![s] = p]
    BY <1>0, <2>1, <2>2 DEF Owner, Stored, StoreTypeOK
  <2>4. Owner[s] = Unissued
    BY <2>1 DEF Owner, Stored
  <2> QED BY <2>3, <2>4 DEF Ledger!Next, Ledger!Issue, Owner
<1>3. CASE Moved
  <2>1. PICK s \in SessionIds, p \in Principals :
          /\ Stored(s) /\ UserOf(p) = UserOf(session[s].principal)
          /\ session' = [session EXCEPT ![s] =
                 [principal |-> p, tenant |-> TenantOf(p), expired |-> session[s].expired]]
    BY <1>3 DEF Moved
  <2>2. session[s] \in Session
    BY <1>0, <2>1 DEF StoreTypeOK, Stored
  <2>3. [principal |-> p, tenant |-> TenantOf(p), expired |-> session[s].expired] \in Session
    BY <2>2, PrincipalParts DEF Session
  <2>4. Owner' = [Owner EXCEPT ![s] = p]
    BY <1>0, <2>1, <2>3 DEF Owner, Stored, StoreTypeOK
  <2>5. Owner[s] \notin {Unissued, Deleted} /\ UserOf(p) = UserOf(Owner[s])
    BY <1>0, <2>1, OwnerLive DEF Owner
  <2> QED BY <2>4, <2>5 DEF Ledger!Next, Ledger!Move, Ledger!Live, Owner
<1>4. CASE Aged
  <2>1. PICK s \in SessionIds : Stored(s) /\ session' = [session EXCEPT ![s].expired = TRUE]
    BY <1>4 DEF Aged
  <2>2. session[s] \in Session
    BY <1>0, <2>1 DEF StoreTypeOK, Stored
  <2>3. [session[s] EXCEPT !.expired = TRUE] \in Session
        /\ [session[s] EXCEPT !.expired = TRUE].principal = session[s].principal
    BY <2>2 DEF Session
  <2>4. Owner' = Owner
    BY <1>0, <2>1, <2>2, <2>3 DEF Owner, Stored, StoreTypeOK
  <2> QED BY <2>4
<1>5. CASE UNCHANGED session
  BY <1>5 DEF Owner, Stored
<1> QED BY <1>1, <1>2, <1>3, <1>4, <1>5 DEF Effects

LEMMA LedgerInit == Init => Ledger!Init
<1> SUFFICES ASSUME Init PROVE Owner \in [SessionIds -> Principals \cup {Unissued}]
  BY DEF Ledger!Init, Owner
<1>1. ASSUME NEW s \in SessionIds
      PROVE  (IF Stored(s) THEN session[s].principal ELSE session[s])
                 \in Principals \cup {Unissued}
  <2>1. session[s] \in {Unissued} \cup
          {[principal |-> p, tenant |-> TenantOf(p), expired |-> FALSE] : p \in Provisioned}
    BY DEF Init, StoreInit
  <2>2. CASE session[s] = Unissued
    BY <2>2 DEF Stored
  <2>3. CASE session[s] # Unissued
    <3>1. PICK p \in Provisioned :
            session[s] = [principal |-> p, tenant |-> TenantOf(p), expired |-> FALSE]
      BY <2>1, <2>3
    <3>2. p \in Principals /\ TenantOf(p) \in Tenants
      BY PrincipalsAssumption, PrincipalParts
    <3>3. session[s] \in Session /\ session[s].principal = p
      BY <3>1, <3>2 DEF Session
    <3>4. Stored(s)
      BY <3>3, MarkersAssumption DEF Stored
    <3> QED BY <3>2, <3>3, <3>4
  <2> QED BY <2>2, <2>3
<1> QED BY <1>1 DEF Owner

\* The whole service, with any number of concurrent requests, implements the
\* abstract life of a session ID: issued once, moved only within its user,
\* never back after logout, expiry or revocation.
THEOREM LedgerImplemented == Spec => ImplementsLedger
<1>1. Inv /\ [Next]_vars => [Ledger!Next]_Owner
  <2>1. UNCHANGED vars => UNCHANGED Owner
    BY DEF vars, store, Owner, Stored
  <2> QED BY <2>1, InvNext, LedgerStep
<1>2. Inv /\ [Next]_vars => Inv'
  BY InvNext
<1> QED BY <1>1, <1>2, InvInit, LedgerInit, PTL DEF Spec, ImplementsLedger, Ledger!Spec, Owner

----------------------------------------------------------------------------
(* Revocation of the principals that no directory writes.                  *)

\* Principals of Warden's own that a call must not be answered as.
Shut(bar) == bar \ Managed

\* A request that acts as a principal of Warden's own past its validation was
\* not started after that principal was disabled; only the directory's are
\* refreshed on the way.
Cleared(l, bar) ==
    /\ l.op \in SessionOps /\ l.pc \in Syncing \cup Revoking => l.who \in Managed
    /\ l.op \in SessionOps /\ l.pc \notin Validating => l.who \notin Shut(bar)
    /\ l.pc = "ok" => l.who \notin Shut(bar)

RevocationInv ==
    /\ Control
    /\ \A p \in Shut(revoked) : status[p] = "disabled"
    /\ \A r \in Requests : barred[r] \subseteq revoked
    /\ \A r \in Requests : Cleared(req[r], barred[r])

\* A step of request r that takes nobody's side: it leaves the status table and
\* the history alone.
LEMMA ClearedStep ==
    ASSUME RevocationInv, Control', UNCHANGED <<status, revoked, barred>>,
           NEW r \in Requests, NEW x, Become(r, x), Cleared(x, barred[r])
    PROVE  RevocationInv'
<1>1. ASSUME NEW q \in Requests PROVE Cleared(req'[q], barred'[q])
  <2>1. req'[q] = IF q = r THEN x ELSE req[q]
    BY DEF Become, RevocationInv, Control, TypeOK
  <2> QED BY <2>1 DEF RevocationInv
<1> QED BY <1>1 DEF RevocationInv

\* The other principals' standing is untouched, only the record of r moves.
LEMMA DecidedStep ==
    ASSUME RevocationInv, Control', NEW r \in Requests, NEW x, Become(r, x),
           \A p \in Shut(revoked)' : status'[p] = "disabled",
           \A q \in Requests : barred'[q] \subseteq barred[q] /\ barred'[q] \subseteq revoked',
           Cleared(x, barred[r])
    PROVE  RevocationInv'
<1>1. ASSUME NEW q \in Requests PROVE Cleared(req'[q], barred'[q])
  <2>1. req'[q] = IF q = r THEN x ELSE req[q]
    BY DEF Become, RevocationInv, Control, TypeOK
  <2> QED BY <2>1 DEF RevocationInv, Cleared, Shut
<1> QED BY <1>1 DEF RevocationInv

LEMMA OutcomeCleared ==
    ASSUME RevocationInv, NEW r \in Requests, NEW sn
    PROVE  /\ Cleared(Outcome("denied", None, sn), barred[r])
           /\ Cleared(Outcome("ok", None, sn), barred[r])
           /\ \A w \in Principals : w \notin Shut(barred[r]) =>
                  Cleared(Outcome("ok", w, sn), barred[r])
BY NoneIsNew DEF Outcome, Idle, Cleared, SessionOps, Operation, RevocationInv, Control, TypeOK, Shut

LEMMA DenyCleared ==
    ASSUME RevocationInv, NEW r \in Requests, Deny(r)
    PROVE  RevocationInv'
<1>1. Control'
  BY DenyControl DEF RevocationInv
<1> QED BY <1>1, OutcomeCleared, ClearedStep DEF Deny, store, history

LEMMA StartCleared ==
    ASSUME RevocationInv, NEW r \in Requests, Start(r)
    PROVE  RevocationInv'
<1>1. Control'
  BY StartControl DEF RevocationInv
<1>2. ASSUME NEW op, NEW sid, NEW arg, NEW point, Begin(r, op, sid, arg, point),
             point \in {"session", "fetch", "createPrincipal"},
             op \in SessionOps => point = "session"
      PROVE  RevocationInv'
  <2> DEFINE x == [Idle EXCEPT !.pc = point, !.op = op, !.sid = sid, !.arg = arg]
  <2>1. \A b : Cleared(x, b)
    BY <1>2 DEF Idle, Cleared, Validating, Syncing, Projecting, Revoking
  <2>2. /\ UNCHANGED <<status, revoked>> /\ req' = [req EXCEPT ![r] = x]
        /\ barred' = [barred EXCEPT ![r] = revoked]
    BY <1>2 DEF Begin, store, Become
  <2>3. ASSUME NEW q \in Requests
        PROVE  Cleared(req'[q], barred'[q]) /\ barred'[q] \subseteq revoked'
    BY <2>1, <2>2 DEF RevocationInv, Control, TypeOK
  <2> QED BY <1>1, <2>2, <2>3 DEF RevocationInv
<1>3. CASE StartIdentity(r)
  BY <1>2, <1>3 DEF StartIdentity
<1>4. CASE StartSwitchTeam(r)
  BY <1>2, <1>4 DEF StartSwitchTeam
<1>5. CASE StartSwitchTenant(r)
  BY <1>2, <1>5 DEF StartSwitchTenant
<1>6. CASE StartAdmin(r)
  BY <1>2, <1>6 DEF StartAdmin
<1>7. CASE StartCreate(r)
  BY <1>2, <1>7 DEF StartCreate, SessionOps
<1>8. CASE StartLogin(r)
  BY <1>2, <1>8 DEF StartLogin, SessionOps
<1> QED BY <1>3, <1>4, <1>5, <1>6, <1>7, <1>8 DEF Start

\* A verdict that admits nobody whose disable preceded the call.
LEMMA JudgeCleared ==
    ASSUME RevocationInv, Control', UNCHANGED <<status, revoked, barred>>,
           NEW r \in Requests, NEW x \in Request, Judge(r, x), x.who \in Principals,
           x.op \in SessionOps, Admits(x.seen) => x.who \notin Shut(barred[r])
    PROVE  RevocationInv'
<1>1. CASE ~Admits(x.seen)
  BY <1>1, OutcomeCleared, ClearedStep DEF Judge
<1>2. CASE Admits(x.seen) /\ x.op = "identity"
  BY <1>2, OutcomeCleared, ClearedStep DEF Judge
<1>3. CASE Admits(x.seen) /\ x.op # "identity"
  <2>1. Cleared([x EXCEPT !.pc = "admitted"], barred[r])
    BY <1>3 DEF Cleared, Request, Validating, Syncing, Projecting, Revoking
  <2> QED BY <1>3, <2>1, ClearedStep DEF Judge
<1> QED BY <1>1, <1>2, <1>3

\* A principal that passes the service's verdict is not a revoked one.
LEMMA ValidationCleared ==
    ASSUME RevocationInv, NEW r \in Requests, Validation(r)
    PROVE  RevocationInv'
<1> DEFINE l == req[r]
<1>0. /\ l \in Request /\ ControlOK(l) /\ Cleared(l, barred[r]) /\ Control'
      /\ barred[r] \subseteq Principals
  BY ValidationControl DEF RevocationInv, Control, TypeOK
<1>1. CASE ReadSession(r)
  <2>1. CASE Deny(r)
    BY <2>1, DenyCleared
  <2>2. CASE ~Deny(r)
    <3> DEFINE h == session[l.sid]
               pt == IF h.expired THEN "drop" ELSE "tenant"
    <3>1. /\ Become(r, [l EXCEPT !.held = h, !.pc = pt])
          /\ UNCHANGED <<store, history>> /\ At(r, "session")
      BY <1>1, <2>2 DEF ReadSession
    <3>2. Cleared([l EXCEPT !.held = h, !.pc = pt], barred[r])
      BY <1>0 DEF Cleared, Request, Validating, Syncing, Projecting, Revoking
    <3> QED BY <1>0, <3>1, <3>2, ClearedStep DEF store, history
  <2> QED BY <2>1, <2>2
<1>2. CASE DropExpired(r)
  BY <1>0, <1>2, OutcomeCleared, ClearedStep DEF DropExpired, history
<1>3. CASE ReadTenant(r)
  <2>1. CASE Deny(r)
    BY <2>1, DenyCleared
  <2>2. CASE ~Deny(r)
    <3>1. Goto(r, "principal") /\ UNCHANGED <<store, history>>
      BY <1>3, <2>2 DEF ReadTenant
    <3>2. Cleared([l EXCEPT !.pc = "principal"], barred[r])
      BY <1>0 DEF Cleared, Request, Validating, Syncing, Projecting, Revoking
    <3> QED BY <1>0, <3>1, <3>2, ClearedStep DEF Goto, store, history
  <2> QED BY <2>1, <2>2
<1>4. CASE ReadPrincipal(r)
  <2> DEFINE p == l.held.principal
             x == [l EXCEPT !.who = p, !.seen = status[p]]
  <2>1. CASE Deny(r)
    BY <2>1, DenyCleared
  <2>2. CASE ~Deny(r)
    <3> DEFINE y == [x EXCEPT !.pc = "fetch"]
    <3>1. /\ At(r, "principal") /\ UNCHANGED <<store, history>>
          /\ Judge(r, x) \/ (p \in Managed /\ Become(r, y))
      BY <1>4, <2>2 DEF ReadPrincipal
    <3>2. l.op \in SessionOps /\ l.held \in Session
      BY <1>0, <3>1 DEF ControlOK, Finished, Creating, Syncing, Projecting, Validating,
           Revoking, Administering, SessionOps, AdminOps, Operation, At, Request
    <3>3. p \in Principals /\ status[p] \in Status
      BY <3>2 DEF Session, RevocationInv, Control, TypeOK, StoreTypeOK
    <3>4. x \in Request /\ x.who = p /\ x.op = l.op /\ x.seen = status[p]
      BY <1>0, <3>3, WhoSet DEF Request
    <3>5. Admits(x.seen) => p \notin Shut(barred[r])
      BY <3>4 DEF Admits, RevocationInv, Shut
    <3>6. CASE Judge(r, x)
      BY <1>0, <3>1, <3>2, <3>3, <3>4, <3>5, <3>6, JudgeCleared DEF store, history
    <3>7. CASE p \in Managed /\ Become(r, y)
      <4>1. y.pc = "fetch" /\ y.who = p /\ y.op = l.op
        BY <3>4 DEF Request
      <4>2. Cleared(y, barred[r])
        BY <3>7, <4>1 DEF Cleared, Shut
      <4> QED BY <1>0, <3>1, <3>7, <4>2, ClearedStep DEF store, history
    <3> QED BY <3>1, <3>6, <3>7
  <2> QED BY <2>1, <2>2
<1> QED BY <1>1, <1>2, <1>3, <1>4 DEF Validation

LEMMA SyncingCleared ==
    ASSUME NEW l, NEW x, NEW bar, Cleared(l, bar), x.op = l.op, x.who = l.who,
           l.pc \in Syncing \cup Revoking, x.pc \in Syncing \cup Revoking
    PROVE  Cleared(x, bar)
BY DEF Cleared, Validating, Syncing, Projecting, Revoking

\* The directory sync writes and admits the directory's principals only.
LEMMA SyncCleared ==
    ASSUME RevocationInv, NEW r \in Requests, DirectorySync(r)
    PROVE  RevocationInv'
<1> DEFINE l == req[r]
           projected == [l EXCEPT !.pc = "pick", !.cur = None, !.draft = "none",
                                  !.seen = IF l.cur = l.who THEN l.draft ELSE l.seen]
<1>0. l \in Request /\ ControlOK(l) /\ Cleared(l, barred[r]) /\ Control' /\ Control
  BY FetchControl, ProjectionControl, RevokingControl DEF RevocationInv, Control, TypeOK, DirectorySync
<1>1. ASSUME NEW x, Become(r, x), UNCHANGED <<revoked, barred>>, x.op = l.op, x.who = l.who,
             l.pc \in Syncing \cup Revoking, x.pc \in Syncing \cup Revoking,
             \/ UNCHANGED status
             \/ \E p \in Managed, st \in Status : status' = [status EXCEPT ![p] = st]
      PROVE  RevocationInv'
  <2>1. Cleared(x, barred[r])
    BY <1>0, <1>1, SyncingCleared
  <2>2. \A p \in Shut(revoked)' : status'[p] = "disabled"
    <3>1. \A p \in Shut(revoked) : status[p] = "disabled" /\ p \in Principals /\ p \notin Managed
      BY <1>0 DEF RevocationInv, Shut, Control, TypeOK
    <3>2. ASSUME NEW z \in Managed, NEW st, status' = [status EXCEPT ![z] = st],
                 NEW p \in Shut(revoked)
          PROVE  status'[p] = "disabled"
      BY <1>0, <3>1, <3>2 DEF Control, TypeOK, StoreTypeOK
    <3>3. Shut(revoked)' = Shut(revoked)
      BY <1>1 DEF Shut
    <3> QED BY <1>1, <3>1, <3>2, <3>3
  <2>3. \A q \in Requests : barred'[q] \subseteq barred[q] /\ barred'[q] \subseteq revoked'
    BY <1>1 DEF RevocationInv
  <2> QED BY <1>0, <1>1, <2>1, <2>2, <2>3, DecidedStep
<1>2. CASE Fetch(r)
  <2>1. PICK f, a : Become(r, [l EXCEPT !.pc = "pick", !.todo = f, !.snap = a])
    BY <1>2 DEF Fetch
  <2> DEFINE x == [l EXCEPT !.pc = "pick", !.todo = f, !.snap = a]
  <2>2. x.op = l.op /\ x.who = l.who /\ x.pc = "pick"
    BY <1>0 DEF Request
  <2> QED BY <1>1, <1>2, <2>1, <2>2 DEF Fetch, At, Syncing, store, history
<1>3. CASE FetchFails(r)
  BY <1>3, DenyCleared DEF FetchFails
<1>4. CASE PickSnapshot(r)
  <2>1. UNCHANGED <<store, history>> /\ l.pc = "pick"
    BY <1>4 DEF PickSnapshot, At
  <2>2. ASSUME NEW p, NEW t, Become(r, [l EXCEPT !.pc = "readTenant", !.cur = p, !.todo = t])
        PROVE  RevocationInv'
    <3> DEFINE x == [l EXCEPT !.pc = "readTenant", !.cur = p, !.todo = t]
    <3>1. x.op = l.op /\ x.who = l.who /\ x.pc = "readTenant"
      BY <1>0 DEF Request
    <3> QED BY <1>1, <2>1, <2>2, <3>1 DEF Syncing, Projecting, store, history
  <2>3. ASSUME Goto(r, "synced") PROVE RevocationInv'
    <3>1. [l EXCEPT !.pc = "synced"].op = l.op /\ [l EXCEPT !.pc = "synced"].who = l.who
          /\ [l EXCEPT !.pc = "synced"].pc = "synced"
      BY <1>0 DEF Request
    <3> QED BY <1>1, <2>1, <2>3, <3>1 DEF Goto, Syncing, store, history
  <2> QED BY <1>4, <2>2, <2>3 DEF PickSnapshot
<1>5. CASE Synced(r)
  <2>0. UNCHANGED <<store, history>> /\ l.pc = "synced" /\ l.pc \in Syncing
    BY <1>5 DEF Synced, At, Syncing
  <2>1. CASE l.op = "login"
    <3>1. ASSUME NEW p, Become(r, [l EXCEPT !.pc = "createPrincipal", !.arg = p])
          PROVE  RevocationInv'
      <4>1. Cleared([l EXCEPT !.pc = "createPrincipal", !.arg = p], barred[r])
        BY <1>0, <2>1 DEF Cleared, Request, SessionOps
      <4> QED BY <1>0, <2>0, <3>1, <4>1, ClearedStep DEF store, history
    <3>2. ASSUME Become(r, Outcome("denied", None, Idle.snap)) PROVE RevocationInv'
      BY <1>0, <2>0, <3>2, OutcomeCleared, ClearedStep DEF store, history
    <3> QED BY <1>5, <2>1, <3>1, <3>2 DEF Synced
  <2>2. CASE l.op # "login"
    <3>1. l.op \in SessionOps
      BY <1>0, <2>0, <2>2 DEF ControlOK, Finished, Creating, Syncing, Projecting, Validating,
           Revoking, Administering, SessionOps, AdminOps, Operation, Request
    <3>2. l.who \in Managed /\ l.who \in Principals
      BY <1>0, <2>0, <3>1, PrincipalsAssumption DEF Cleared
    <3>3. ASSUME Judge(r, l) PROVE RevocationInv'
      BY <1>0, <2>0, <3>1, <3>2, <3>3, JudgeCleared DEF Shut, store, history
    <3>4. ASSUME Goto(r, "revoke") PROVE RevocationInv'
      <4>1. [l EXCEPT !.pc = "revoke"].op = l.op /\ [l EXCEPT !.pc = "revoke"].who = l.who
            /\ [l EXCEPT !.pc = "revoke"].pc = "revoke"
        BY <1>0 DEF Request
      <4> QED BY <1>1, <2>0, <3>4, <4>1 DEF Goto, Revoking, store, history
    <3> QED BY <1>5, <2>2, <3>3, <3>4 DEF Synced
  <2> QED BY <2>1, <2>2
<1>6. ASSUME NEW pt \in Projecting, NEW st, Become(r, [l EXCEPT !.pc = pt, !.draft = st]),
             l.pc \in Projecting, UNCHANGED <<status, history>>
      PROVE  RevocationInv'
  <2> DEFINE x == [l EXCEPT !.pc = pt, !.draft = st]
  <2>1. x.op = l.op /\ x.who = l.who /\ x.pc = pt
    BY <1>0 DEF Request
  <2> QED BY <1>1, <1>6, <2>1 DEF Syncing, history
<1>7. CASE SyncReadTenant(r)
  <2>1. PICK st : Become(r, [l EXCEPT !.pc = "writeTenant", !.draft = st])
    BY <1>7 DEF SyncReadTenant
  <2> QED BY <1>6, <1>7, <2>1 DEF SyncReadTenant, At, Projecting, store
<1>8. CASE SyncReadPrincipal(r)
  <2>1. PICK st : Become(r, [l EXCEPT !.pc = "writePrincipal", !.draft = st])
    BY <1>8 DEF SyncReadPrincipal
  <2> QED BY <1>6, <1>8, <2>1 DEF SyncReadPrincipal, At, Projecting, store
<1>9. CASE SyncWriteTenant(r)
  <2>1. [l EXCEPT !.pc = "readPrincipal"] = [l EXCEPT !.pc = "readPrincipal", !.draft = l.draft]
    BY <1>0 DEF Request
  <2> QED BY <1>6, <1>9, <2>1 DEF SyncWriteTenant, Goto, At, Projecting
<1>10. projected.op = l.op /\ projected.who = l.who /\ projected.pc = "pick"
  BY <1>0 DEF Request
<1>11. CASE SyncWritePrincipal(r)
  <2>1. /\ l.pc = "writePrincipal" /\ UNCHANGED <<revoked, barred>>
        /\ status' = [status EXCEPT ![l.cur] = l.draft]
        /\ Goto(r, "purgeSynced") \/ Become(r, projected)
    BY <1>11 DEF SyncWritePrincipal, At, UpsertPrincipal, Projected, history
  <2>2. l.cur \in Managed /\ l.pc \in Syncing /\ l.draft \in Status
    BY <1>0, <2>1 DEF ControlOK, Projecting, Syncing, Request
  <2>3. [l EXCEPT !.pc = "purgeSynced"].op = l.op /\ [l EXCEPT !.pc = "purgeSynced"].who = l.who
        /\ [l EXCEPT !.pc = "purgeSynced"].pc \in Syncing
    BY <1>0 DEF Request, Syncing, Projecting
  <2>4. "pick" \in Syncing
    BY DEF Syncing
  <2>5. CASE Goto(r, "purgeSynced")
    BY <1>1, <2>1, <2>2, <2>3, <2>5 DEF Goto
  <2>6. CASE Become(r, projected)
    BY <1>1, <1>10, <2>1, <2>2, <2>4, <2>6
  <2> QED BY <2>1, <2>5, <2>6
<1>12. CASE SyncPurge(r)
  BY <1>1, <1>10, <1>12 DEF SyncPurge, Projected, At, Syncing, Projecting, history
<1>13. CASE RevokePrincipal(r)
  <2>1. /\ l.pc = "revoke" /\ UNCHANGED <<revoked, barred>>
        /\ status' = [status EXCEPT ![l.who] = "disabled"] /\ Goto(r, "purgeRevoked")
    BY <1>13 DEF RevokePrincipal, At, UpdatePrincipalStatus, history
  <2>2. l.op \in SessionOps
    BY <1>0, <2>1 DEF ControlOK, Finished, Creating, Syncing, Projecting, Validating,
         Revoking, Administering, SessionOps, AdminOps, Operation, Request
  <2>3. l.who \in Managed /\ l.pc \in Revoking /\ "disabled" \in Status
    BY <1>0, <2>1, <2>2 DEF Cleared, Revoking, Status
  <2>4. [l EXCEPT !.pc = "purgeRevoked"].op = l.op /\ [l EXCEPT !.pc = "purgeRevoked"].who = l.who
        /\ [l EXCEPT !.pc = "purgeRevoked"].pc \in Revoking
    BY <1>0 DEF Request, Revoking
  <2> QED BY <1>1, <2>1, <2>3, <2>4 DEF Goto
<1>14. CASE PurgeRevoked(r)
  BY <1>0, <1>14, OutcomeCleared, ClearedStep DEF PurgeRevoked, history
<1> QED BY <1>2, <1>3, <1>4, <1>5, <1>7, <1>8, <1>9, <1>11, <1>12, <1>13, <1>14 DEF DirectorySync

LEMMA SwitchingCleared ==
    ASSUME RevocationInv, NEW r \in Requests, Switching(r)
    PROVE  RevocationInv'
<1> DEFINE l == req[r]
<1>0. l \in Request /\ ControlOK(l) /\ Cleared(l, barred[r]) /\ Control'
  BY SwitchingControl DEF RevocationInv, Control, TypeOK
<1>1. ASSUME NEW c, Become(r, [l EXCEPT !.pc = "move", !.cur = c]),
             UNCHANGED <<store, history>>, l.pc \in {"admitted", "list"}
      PROVE  RevocationInv'
  <2>1. l.pc \notin Validating /\ Cleared([l EXCEPT !.pc = "move", !.cur = c], barred[r])
    BY <1>0, <1>1 DEF Cleared, Request, Validating, Syncing, Projecting, Revoking
  <2> QED BY <1>0, <1>1, <2>1, ClearedStep DEF store, history
<1>2. CASE ChooseTeam(r)
  BY <1>1, <1>2 DEF ChooseTeam, At
<1>3. CASE ChooseTenant(r)
  <2>1. CASE Deny(r)
    BY <2>1, DenyCleared
  <2>2. CASE Become(r, [l EXCEPT !.pc = "move", !.cur = l.who]) /\ UNCHANGED <<store, history>>
    BY <1>1, <1>3, <2>2 DEF ChooseTenant, At
  <2>3. CASE Goto(r, "list") /\ UNCHANGED <<store, history>>
    <3>1. Cleared([l EXCEPT !.pc = "list"], barred[r])
      BY <1>0, <1>3 DEF ChooseTenant, At, Cleared, Request, Validating, Syncing, Projecting, Revoking
    <3> QED BY <1>0, <2>3, <3>1, ClearedStep DEF Goto, store, history
  <2> QED BY <1>3, <2>1, <2>2, <2>3 DEF ChooseTenant
<1>4. CASE ListPrincipals(r)
  <2>1. CASE Deny(r)
    BY <2>1, DenyCleared
  <2>2. CASE ~Deny(r)
    BY <1>1, <1>4, <2>2 DEF ListPrincipals, At
  <2> QED BY <2>1, <2>2
<1>5. CASE MoveSession(r)
  <2> DEFINE x == [Idle EXCEPT !.pc = "session", !.op = "identity", !.sid = l.sid]
  <2>1. CASE Deny(r)
    BY <2>1, DenyCleared
  <2>2. CASE ~Deny(r)
    <3>1. Become(r, x) /\ UNCHANGED <<status, history>>
      BY <1>5, <2>2 DEF MoveSession
    <3>2. Cleared(x, barred[r])
      BY DEF Idle, Cleared, Validating, Syncing, Projecting, Revoking
    <3> QED BY <1>0, <3>1, <3>2, ClearedStep DEF history
  <2> QED BY <2>1, <2>2
<1> QED BY <1>2, <1>3, <1>4, <1>5 DEF Switching

LEMMA CreationCleared ==
    ASSUME RevocationInv, NEW r \in Requests, Creation(r)
    PROVE  RevocationInv'
<1> DEFINE l == req[r]
<1>0. l \in Request /\ ControlOK(l) /\ Cleared(l, barred[r]) /\ Control'
  BY CreationControl DEF RevocationInv, Control, TypeOK
<1>1. l.pc \in Creating => l.op \in {"create", "login"}
  BY <1>0 DEF ControlOK, Finished, Creating, Syncing, Projecting, Validating,
           Revoking, Administering, SessionOps, AdminOps, Operation, At, Request
<1>2. CASE CreateReadPrincipal(r)
  <2>1. CASE Deny(r)
    BY <2>1, DenyCleared
  <2>2. CASE ~Deny(r)
    <3>1. PICK w, st :
            /\ Become(r, [Idle EXCEPT !.pc = "createTenant", !.op = l.op, !.who = w, !.seen = st])
            /\ UNCHANGED <<store, history>> /\ At(r, "createPrincipal")
      BY <1>2, <2>2 DEF CreateReadPrincipal
    <3>2. Cleared([Idle EXCEPT !.pc = "createTenant", !.op = l.op, !.who = w, !.seen = st], barred[r])
      BY <1>1, <3>1 DEF At, Creating, Idle, Cleared, SessionOps
    <3> QED BY <1>0, <3>1, <3>2, ClearedStep DEF store, history
  <2> QED BY <2>1, <2>2
<1>3. CASE CreateReadTenant(r)
  <2>1. CASE Deny(r)
    BY <2>1, DenyCleared
  <2>2. CASE ~Deny(r)
    <3>1. Goto(r, "put") /\ UNCHANGED <<store, history>> /\ At(r, "createTenant")
      BY <1>3, <2>2 DEF CreateReadTenant
    <3>2. Cleared([l EXCEPT !.pc = "put"], barred[r])
      BY <1>0, <1>1, <3>1 DEF At, Creating, Cleared, SessionOps, Request
    <3> QED BY <1>0, <3>1, <3>2, ClearedStep DEF Goto, store, history
  <2> QED BY <2>1, <2>2
<1>4. CASE CreateSession(r)
  <2>1. PICK s \in SessionIds :
          \/ Become(r, [Idle EXCEPT !.pc = "session", !.op = "identity", !.sid = s])
          \/ Become(r, Outcome("ok", None, Idle.snap))
    BY <1>4 DEF CreateSession
  <2>2. Cleared([Idle EXCEPT !.pc = "session", !.op = "identity", !.sid = s], barred[r])
    BY DEF Idle, Cleared, Validating, Syncing, Projecting, Revoking
  <2> QED BY <1>0, <1>4, <2>1, <2>2, OutcomeCleared, ClearedStep DEF CreateSession, history
<1> QED BY <1>2, <1>3, <1>4 DEF Creation

LEMMA AdministrationCleared ==
    ASSUME RevocationInv, NEW r \in Requests, Administration(r)
    PROVE  RevocationInv'
<1> DEFINE l == req[r]
<1>0. l \in Request /\ ControlOK(l) /\ Cleared(l, barred[r]) /\ Control' /\ Control
  BY AdministrationControl DEF RevocationInv, Control, TypeOK
<1>1. ASSUME l.pc \in {"admitted"} \cup Administering, l.op \in AdminOps
      PROVE  /\ l.who \in Principals /\ l.who \notin Shut(barred[r])
             /\ \A pt \in Administering : Cleared([l EXCEPT !.pc = pt], barred[r])
  <2>1. l.op \in SessionOps /\ l.pc \notin Validating /\ l.pc # "session"
    BY <1>1 DEF ControlOK, Finished, Creating, Syncing, Projecting, Validating,
           Revoking, Administering, SessionOps, AdminOps, Operation, At, Request
  <2>2. l.who \in Principals
    BY <1>0, <2>1 DEF ControlOK, Session
  <2> QED BY <1>0, <1>1, <2>1, <2>2
          DEF Cleared, Request, Administering, Validating, Syncing, Projecting, Revoking
<1>2. l.pc \in Administering => l.op \in AdminOps
  BY <1>0 DEF ControlOK
<1>3. CASE AuthorizeAdmin(r)
  <2>1. CASE Deny(r)
    BY <2>1, DenyCleared
  <2>2. CASE ~Deny(r)
    <3>1. /\ Goto(r, "checkPending") \/ Goto(r, "setStatus")
          /\ UNCHANGED <<store, history>> /\ At(r, "admitted") /\ l.op \in AdminOps
      BY <1>3, <2>2 DEF AuthorizeAdmin
    <3> QED BY <1>0, <1>1, <3>1, ClearedStep DEF At, Administering, Goto, store, history
  <2> QED BY <2>1, <2>2
<1>4. CASE CheckPending(r)
  <2>1. CASE Deny(r)
    BY <2>1, DenyCleared
  <2>2. CASE ~Deny(r)
    <3>1. Goto(r, "setStatus") /\ UNCHANGED <<store, history>> /\ At(r, "checkPending")
      BY <1>4, <2>2 DEF CheckPending
    <3> QED BY <1>0, <1>1, <1>2, <3>1, ClearedStep DEF At, Administering, Goto, store, history
  <2> QED BY <2>1, <2>2
<1>5. CASE EnableStatus(r)
  <2> DEFINE p == l.arg
  <2>1. /\ status' = [status EXCEPT ![p] = "active"] /\ revoked' = revoked \ {p}
        /\ barred' = [q \in Requests |-> barred[q] \ {p}]
        /\ Become(r, Outcome("ok", l.who, l.snap)) /\ At(r, "setStatus")
    BY <1>5 DEF EnableStatus, UpdatePrincipalStatus, Succeed
  <2>2. Cleared(Outcome("ok", l.who, l.snap), barred[r])
    BY <1>1, <1>2, <2>1, OutcomeCleared DEF At, Administering
  <2>3. \A q \in Shut(revoked)' : status'[q] = "disabled"
    BY <2>1 DEF RevocationInv, Control, TypeOK, StoreTypeOK, Shut
  <2>4. \A q \in Requests : barred'[q] \subseteq barred[q] /\ barred'[q] \subseteq revoked'
    BY <2>1 DEF RevocationInv
  <2> QED BY <1>0, <2>1, <2>2, <2>3, <2>4, DecidedStep
<1>6. CASE DisableStatus(r)
  <2> DEFINE p == l.arg
  <2>1. /\ status' = [status EXCEPT ![p] = "disabled"] /\ revoked' = revoked \cup {p}
        /\ UNCHANGED barred /\ Goto(r, "purge") /\ At(r, "setStatus")
    BY <1>6 DEF DisableStatus, UpdatePrincipalStatus
  <2>2. Cleared([l EXCEPT !.pc = "purge"], barred[r])
    BY <1>1, <1>2, <2>1 DEF At, Administering
  <2>3. \A q \in Shut(revoked)' : status'[q] = "disabled"
    <3>1. p \in Principals
      BY <1>0, <1>2, <2>1 DEF ControlOK, At, Administering
    <3> QED BY <2>1, <3>1 DEF RevocationInv, Control, TypeOK, StoreTypeOK, Shut
  <2>4. \A q \in Requests : barred'[q] \subseteq barred[q] /\ barred'[q] \subseteq revoked'
    BY <2>1 DEF RevocationInv
  <2> QED BY <1>0, <2>1, <2>2, <2>3, <2>4, DecidedStep DEF Goto
<1>7. CASE UnknownPrincipal(r)
  BY <1>7, DenyCleared DEF UnknownPrincipal
<1>8. CASE PurgeSessions(r)
  <2>1. Cleared(Outcome("ok", l.who, l.snap), barred[r])
    BY <1>1, <1>2, <1>8, OutcomeCleared DEF PurgeSessions, At, Administering
  <2> QED BY <1>0, <1>8, <2>1, ClearedStep DEF PurgeSessions, Succeed, history
<1> QED BY <1>3, <1>4, <1>5, <1>6, <1>7, <1>8 DEF Administration

\* RevocationHolds of the principals that are Warden's own.
LocalRevocationHolds ==
    \A r \in Requests : At(r, "ok") => req[r].who \notin Shut(barred[r])

\* No call that began after a principal of Warden's own (one no directory
\* writes) was disabled is answered as that principal until an administrator
\* enables it again, for any number of administrators, sessions and concurrent
\* calls, directory refreshes of other principals among them.
THEOREM LocalRevocationLasts == Spec => []LocalRevocationHolds
<1>1. Init => RevocationInv
  <2> SUFFICES ASSUME Init PROVE RevocationInv
    OBVIOUS
  <2>1. Control
    BY ControlInit
  <2>2. \A r \in Requests : Cleared(req[r], barred[r])
    BY NoneIsNew DEF Init, Cleared, Idle, SessionOps, Operation
  <2>3. \A p \in Shut(revoked) : status[p] = "disabled"
    BY DEF Init, Shut
  <2>4. \A r \in Requests : barred[r] \subseteq revoked
    BY DEF Init
  <2> QED BY <2>1, <2>2, <2>3, <2>4 DEF RevocationInv
<1>2. RevocationInv /\ [Next]_vars => RevocationInv'
  <2> SUFFICES ASSUME RevocationInv, [Next]_vars PROVE RevocationInv'
    OBVIOUS
  <2>0. Control'
    BY ControlNext DEF RevocationInv
  <2>1. ASSUME NEW r \in Requests, Start(r) \/ Serve(r) \/ Abort(r) PROVE RevocationInv'
    BY <2>1, StartCleared, ValidationCleared, SyncCleared, SwitchingCleared, CreationCleared,
       AdministrationCleared, DenyCleared DEF Serve, Abort
  <2>2. ASSUME UNCHANGED <<status, req, revoked, barred>> PROVE RevocationInv'
    BY <2>0, <2>2 DEF RevocationInv
  <2>3. CASE Environment
    BY <2>2, <2>3 DEF Environment, Logout, Expire, DirectoryChanges, HostDisablesTenant,
       history, store
  <2>4. CASE UNCHANGED vars
    BY <2>2, <2>4 DEF vars, history, store
  <2> QED BY <2>1, <2>3, <2>4 DEF Next
<1>3. RevocationInv => LocalRevocationHolds
  BY DEF RevocationInv, LocalRevocationHolds, Cleared, At
<1> QED BY <1>1, <1>2, <1>3, PTL DEF Spec

\* In a deployment without a directory, of every principal: no call begun after
\* a disable is answered as the disabled one.
THEOREM RevocationLasts ==
    ASSUME Managed = {}
    PROVE  Spec => []RevocationHolds
<1>1. LocalRevocationHolds => RevocationHolds
  BY DEF LocalRevocationHolds, RevocationHolds, Shut
<1> QED BY <1>1, LocalRevocationLasts, PTL

----------------------------------------------------------------------------
(* Nobody is disabled, admitted or signed out without a cause.               *)

\* A request that acts as the principal it validated, one that was answered so.
Acting(l) == l.pc \in {"admitted", "list", "move", "ok"} \cup Administering

\* A request that holds the directory's answer about its own principal.
Informed(l) == l.op \in SessionOps /\ l.pc \in Syncing \ {"fetch"}

\* Whom a request is about to disable, somebody ruled out.
Accused(l, ruledOut) ==
    /\ \A p \in Managed : l.snap[p] = "blocked" => p \in ruledOut
    /\ Informed(l) /\ l.snap[l.who] = "absent" => l.who \in ruledOut
    /\ l.pc \in {"writePrincipal", "purgeSynced"} /\ l.draft = "disabled" => l.cur \in ruledOut
    /\ l.pc \in Revoking => l.who \in ruledOut
    /\ l.pc = "purge" => l.arg \in ruledOut

\* A refreshed principal that the directory blocks is projected as disabled
\* before its request goes on.
Asked(l) ==
    /\ l.op \in SessionOps /\ l.pc \in Syncing => l.who \in Managed
    /\ l.pc = "purgeSynced" => l.draft = "disabled"
    /\ l.pc = "writePrincipal" /\ l.snap[l.cur] = "blocked" => l.draft = "disabled"
    /\ l.pc = "synced" => l.todo = {}
    /\ Informed(l) /\ l.snap[l.who] = "blocked" =>
           \/ l.who \in l.todo
           \/ l.pc \in Projecting /\ l.cur = l.who
           \/ l.seen = "disabled"
    /\ Acting(l) /\ RefreshOnSession /\ l.who \in Managed => l.snap[l.who] = "member"

\* Whom a request found active, or will write so, somebody let in.
Trusted(l, letIn) ==
    /\ l.op \in SessionOps /\ l.pc \in Syncing => l.seen # "none"
    /\ RegistrationPolicy # "open" =>
        /\ l.pc = "writePrincipal" /\ l.draft = "active" => l.cur \in letIn
        /\ l.op \in SessionOps /\ l.pc \in Syncing /\ l.seen = "active" => l.who \in letIn
        /\ Acting(l) /\ l.who # None => l.who \in letIn

Sound(l, ruledOut, letIn) == Accused(l, ruledOut) /\ Asked(l) /\ Trusted(l, letIn)

\* A session about to be dropped has expired, unless it went meanwhile.
Gone(l, table) ==
    l.pc # "drop" \/ table[l.sid] = Deleted \/ table[l.sid].expired

\* What the directory and the principals table say has a cause.
Grounds ==
    /\ \A p \in Managed : directory[p] # "member" => p \in cause
    /\ DisabledForCause
    /\ RegistrationPolicy # "open" =>
           \A p \in Principals : status[p] = "active" => p \in vouched

Reasons ==
    /\ Grounds
    /\ \A r \in Requests : Sound(req[r], cause, vouched) /\ Gone(req[r], session)

\* Nobody is absolved, no admission is forgotten.
Recorded == cause \subseteq cause' /\ vouched \subseteq vouched'

LEMMA SoundKept ==
    ASSUME NEW l, NEW c, NEW v, NEW c2, NEW v2, Sound(l, c, v), c \subseteq c2, v \subseteq v2
    PROVE  Sound(l, c2, v2)
BY DEF Sound, Accused, Trusted

LEMMA DroppedSession ==
    ASSUME Inv, NEW r \in Requests, At(r, "drop")
    PROVE  req[r].sid \in SessionIds /\ session[req[r].sid] # Unissued
<1>1. ControlOK(req[r]) /\ Backed(req[r], status, session) /\ req[r] \in Request
  BY DEF Inv, Control, TypeOK
<1>2. req[r].op \in SessionOps
  BY <1>1 DEF ControlOK, Finished, Creating, Syncing, Projecting, Validating,
           Revoking, Administering, SessionOps, AdminOps, Operation, At, Request
<1>3. req[r].sid \in SessionIds /\ req[r].held \in Session
  BY <1>1, <1>2 DEF ControlOK, At
<1> QED BY <1>1, <1>3 DEF Backed

LEMMA GoneKept ==
    ASSUME Inv, Effects, NEW r \in Requests, Gone(req[r], session)
    PROVE  Gone(req[r], session')
<1> SUFFICES ASSUME At(r, "drop")
             PROVE  session'[req[r].sid] = Deleted \/ session'[req[r].sid].expired
  BY DEF Gone, At
<1> DEFINE s == req[r].sid
<1>1. s \in SessionIds /\ session[s] # Unissued /\ StoreTypeOK
  BY DroppedSession DEF Inv, Control, TypeOK
<1>2. session[s] = Deleted \/ session[s].expired
  BY DEF Gone, At
<1>3. CASE Ended
  BY <1>1, <1>2, <1>3 DEF Ended
<1>4. CASE Issued
  <2>1. PICK z, y : /\ z \in SessionIds /\ session[z] = Unissued
                        /\ session' = [session EXCEPT ![z] = y]
    BY <1>4 DEF Issued
  <2>2. session'[s] = session[s]
    BY <1>1, <2>1 DEF StoreTypeOK
  <2> QED BY <1>2, <2>2
<1>5. CASE Moved
  <2>1. PICK z \in SessionIds, p \in Principals :
          /\ Stored(z)
          /\ session' = [session EXCEPT ![z] =
                [principal |-> p, tenant |-> TenantOf(p), expired |-> session[z].expired]]
    BY <1>5 DEF Moved
  <2>2. CASE z = s
    BY <1>1, <1>2, <2>1, <2>2 DEF StoreTypeOK, Stored
  <2>3. CASE z # s
    BY <1>1, <1>2, <2>1, <2>3 DEF StoreTypeOK
  <2> QED BY <2>2, <2>3
<1>6. CASE Aged
  <2>1. PICK z \in SessionIds : Stored(z) /\ session' = [session EXCEPT ![z].expired = TRUE]
    BY <1>6 DEF Aged
  <2>2. CASE z = s
    <3>1. session[z] \in Session
      BY <2>1 , <1>1 DEF StoreTypeOK, Stored
    <3>2. session'[s] = [session[z] EXCEPT !.expired = TRUE]
      BY <1>1, <2>1, <2>2 DEF StoreTypeOK
    <3> QED BY <3>1, <3>2 DEF Session
  <2>3. CASE z # s
    BY <1>1, <1>2, <2>1, <2>3 DEF StoreTypeOK
  <2> QED BY <2>2, <2>3
<1>7. CASE UNCHANGED session
  BY <1>2, <1>7
<1> QED BY <1>3, <1>4, <1>5, <1>6, <1>7 DEF Effects

\* Only the moving request's record has to be looked at.
LEMMA SoundStep ==
    ASSUME Inv, Reasons, Effects, Recorded, Grounds', NEW r \in Requests, NEW x,
           Become(r, x), Sound(x, cause', vouched'), Gone(x, session')
    PROVE  Reasons'
<1>1. ASSUME NEW q \in Requests
      PROVE  Sound(req'[q], cause', vouched') /\ Gone(req'[q], session')
  <2>1. req'[q] = IF q = r THEN x ELSE req[q]
    BY DEF Become, Inv, Control, TypeOK
  <2>2. Sound(req[q], cause', vouched') /\ Gone(req[q], session')
    BY SoundKept, GoneKept DEF Reasons, Recorded
  <2> QED BY <2>1, <2>2
<1> QED BY <1>1 DEF Reasons

\* A step that leaves the principals table, the directory and the history alone.
LEMMA QuietSound ==
    ASSUME Inv, Reasons, Effects, UNCHANGED <<status, directory, cause, vouched>>,
           NEW r \in Requests, NEW x, Become(r, x), Sound(x, cause, vouched), x.pc # "drop"
    PROVE  Reasons'
<1>1. Grounds' /\ Recorded
  BY DEF Reasons, Grounds, DisabledForCause, Recorded
<1>2. Gone(x, session') /\ Sound(x, cause', vouched')
  BY DEF Gone
<1> QED BY <1>1, <1>2, SoundStep

LEMMA DeniedSound ==
    ASSUME NEW c, NEW v
    PROVE  /\ Sound(Outcome("denied", None, Idle.snap), c, v)
           /\ Sound(Outcome("ok", None, Idle.snap), c, v)
           /\ \A point, op, sid, arg :
                 point \in {"session", "createPrincipal"}
                 \/ (point = "fetch" /\ op \notin SessionOps) =>
                     Sound([Idle EXCEPT !.pc = point, !.op = op, !.sid = sid, !.arg = arg], c, v)
<1> USE NoneIsNew, PrincipalsAssumption DEF Idle, Outcome, Sound, Accused, Asked, Trusted, Informed, Acting,
        Syncing, Projecting, Revoking, Administering, SessionOps, Operation
<1>1. Sound(Outcome("denied", None, Idle.snap), c, v)
  OBVIOUS
<1>2. Sound(Outcome("ok", None, Idle.snap), c, v)
  OBVIOUS
<1> QED BY <1>1, <1>2

LEMMA RestartSound ==
    ASSUME NEW s, NEW c, NEW v
    PROVE  /\ Sound([Idle EXCEPT !.pc = "session", !.op = "identity", !.sid = s], c, v)
           /\ [Idle EXCEPT !.pc = "session", !.op = "identity", !.sid = s].pc # "drop"
BY NoneIsNew DEF Idle, Sound, Accused, Asked, Trusted, Informed, Acting,
     Syncing, Projecting, Revoking, Administering

LEMMA DenySound ==
    ASSUME Inv, Reasons, Effects, NEW r \in Requests, Deny(r)
    PROVE  Reasons'
<1>1. Outcome("denied", None, Idle.snap).pc # "drop"
  BY DEF Outcome, Idle
<1> QED BY <1>1, DeniedSound, QuietSound DEF Deny, store, external, history

LEMMA StartSound ==
    ASSUME Inv, Reasons, Effects, NEW r \in Requests, Start(r)
    PROVE  Reasons'
<1>1. ASSUME NEW op, NEW sid, NEW arg, NEW point \in {"session", "createPrincipal", "fetch"},
             Begin(r, op, sid, arg, point), point = "fetch" => op \notin SessionOps
      PROVE  Reasons'
  <2>1. [Idle EXCEPT !.pc = point, !.op = op, !.sid = sid, !.arg = arg].pc # "drop"
    BY DEF Idle
  <2> QED BY <1>1, <2>1, DeniedSound, QuietSound DEF Begin, store, external
<1>2. CASE StartIdentity(r)
  BY <1>1, <1>2 DEF StartIdentity
<1>3. CASE StartSwitchTeam(r)
  BY <1>1, <1>3 DEF StartSwitchTeam
<1>4. CASE StartSwitchTenant(r)
  BY <1>1, <1>4 DEF StartSwitchTenant
<1>5. CASE StartAdmin(r)
  BY <1>1, <1>5 DEF StartAdmin
<1>6. CASE StartCreate(r)
  BY <1>1, <1>6 DEF StartCreate
<1>7. CASE StartLogin(r)
  BY <1>1, <1>7 DEF StartLogin, SessionOps
<1> QED BY <1>2, <1>3, <1>4, <1>5, <1>6, <1>7 DEF Start

\* A verdict on a record whose status has a cause.
LEMMA JudgeSound ==
    ASSUME Inv, Reasons, Effects, UNCHANGED <<status, directory, cause, vouched>>,
           NEW r \in Requests, NEW x \in Request, Judge(r, x), x.op \in SessionOps,
           \A p \in Managed : x.snap[p] = "blocked" => p \in cause,
           x.seen # "none",
           Admits(x.seen) /\ RefreshOnSession /\ x.who \in Managed => x.snap[x.who] = "member",
           x.seen = "active" /\ RegistrationPolicy # "open" => x.who \in vouched
    PROVE  Reasons'
<1> DEFINE answer == Outcome("ok", x.who, x.snap)
           admitted == [x EXCEPT !.pc = "admitted"]
<1>1. CASE ~Admits(x.seen)
  <2>1. Outcome("denied", None, Idle.snap).pc # "drop"
    BY DEF Outcome, Idle
  <2> QED BY <1>1, <2>1, DeniedSound, QuietSound DEF Judge
<1>2. CASE Admits(x.seen)
  <2>1. RegistrationPolicy # "open" => x.who \in vouched
    BY <1>2 DEF Admits, Request, Status
  <2>2. CASE x.op = "identity"
    <3>1. Become(r, answer)
      BY <1>2, <2>2 DEF Judge
    <3>2. answer.pc = "ok" /\ answer.op = None /\ answer.who = x.who /\ answer.snap = x.snap
      BY DEF Outcome, Idle
    <3>3. Sound(answer, cause, vouched) /\ answer.pc # "drop"
      BY <1>2, <2>1, <3>2, NoneIsNew DEF Sound, Accused, Asked, Trusted, Informed, Acting,
           Syncing, Projecting, Revoking, Administering, SessionOps
    <3> QED BY <3>1, <3>3, QuietSound
  <2>3. CASE x.op # "identity"
    <3>1. Become(r, admitted)
      BY <1>2, <2>3 DEF Judge
    <3>2. Sound(admitted, cause, vouched) /\ admitted.pc # "drop"
      BY <1>2, <2>1 DEF Request, Sound, Accused, Asked, Trusted, Informed, Acting,
           Syncing, Projecting, Revoking, Administering
    <3> QED BY <3>1, <3>2, QuietSound
  <2> QED BY <2>2, <2>3
<1> QED BY <1>1, <1>2

\* What the points between sessions and principals add: nothing.
LEMMA NeutralPoint ==
    ASSUME NEW l \in Request, NEW pt \in Point, NEW c, NEW v, Sound(l, c, v),
           pt \in Validating \cup Creating \cup {"list", "checkPending", "setStatus"},
           pt \in {"list"} \cup Administering => Acting(l)
    PROVE  Sound([l EXCEPT !.pc = pt], c, v)
BY DEF Request, Sound, Accused, Asked, Trusted, Informed, Acting, Validating, Creating,
       Syncing, Projecting, Revoking, Administering

LEMMA ValidationSound ==
    ASSUME Inv, Reasons, Effects, NEW r \in Requests, Validation(r)
    PROVE  Reasons'
<1> DEFINE l == req[r]
<1>0. /\ l \in Request /\ ControlOK(l) /\ Sound(l, cause, vouched) /\ StoreTypeOK
      /\ Recorded <=> (cause \subseteq cause' /\ vouched \subseteq vouched')
  BY DEF Inv, Control, TypeOK, Reasons, Recorded
<1>1. CASE ReadSession(r)
  <2>1. CASE Deny(r)
    BY <2>1, DenySound
  <2>2. CASE ~Deny(r)
    <3> DEFINE h == session[l.sid]
               pt == IF h.expired THEN "drop" ELSE "tenant"
               x == [l EXCEPT !.held = h, !.pc = pt]
    <3>1. Become(r, x) /\ UNCHANGED <<store, external, history>> /\ At(r, "session")
      BY <1>1, <2>2 DEF ReadSession
    <3>2. Sound(x, cause, vouched)
      BY <1>0 DEF Request, Sound, Accused, Asked, Trusted, Informed, Acting,
           Syncing, Projecting, Revoking, Administering
    <3>3. Gone(x, session)
      BY <1>0 DEF Gone, Request
    <3>4. Grounds' /\ Recorded
      BY <3>1 DEF Reasons, Grounds, DisabledForCause, Recorded, store, external, history
    <3> QED BY <3>1, <3>2, <3>3, <3>4, SoundStep DEF store, history
  <2> QED BY <2>1, <2>2
<1>2. CASE DropExpired(r)
  <2>1. Outcome("denied", None, Idle.snap).pc # "drop"
    BY DEF Outcome, Idle
  <2> QED BY <1>2, <2>1, DeniedSound, QuietSound DEF DropExpired, external, history
<1>3. CASE ReadTenant(r)
  <2>1. CASE Deny(r)
    BY <2>1, DenySound
  <2>2. CASE ~Deny(r)
    <3>1. Goto(r, "principal") /\ UNCHANGED <<store, external, history>>
      BY <1>3, <2>2 DEF ReadTenant
    <3>2. Sound([l EXCEPT !.pc = "principal"], cause, vouched) /\ [l EXCEPT !.pc = "principal"].pc # "drop"
      BY <1>0, NeutralPoint DEF Validating, Point, Request, Administering
    <3> QED BY <3>1, <3>2, QuietSound DEF Goto, store, external, history
  <2> QED BY <2>1, <2>2
<1>4. CASE ReadPrincipal(r)
  <2> DEFINE p == l.held.principal
             x == [l EXCEPT !.who = p, !.seen = status[p]]
             y == [x EXCEPT !.pc = "fetch"]
  <2>1. CASE Deny(r)
    BY <2>1, DenySound
  <2>2. CASE ~Deny(r)
    <3>1. /\ At(r, "principal") /\ UNCHANGED <<store, external, history>> /\ status[p] # "none"
          /\ \/ RefreshOnSession /\ p \in Managed /\ Become(r, y)
             \/ ~(RefreshOnSession /\ p \in Managed) /\ Judge(r, x)
      BY <1>4, <2>2 DEF ReadPrincipal
    <3>2. l.op \in SessionOps /\ l.held \in Session
      BY <1>0, <3>1 DEF ControlOK, Finished, Creating, Syncing, Projecting, Validating,
             Revoking, Administering, SessionOps, AdminOps, Operation, At, Request
    <3>3. p \in Principals /\ status[p] \in Status
      BY <1>0, <3>2 DEF Session, StoreTypeOK
    <3>4. status[p] = "active" /\ RegistrationPolicy # "open" => p \in vouched
      BY <3>3 DEF Reasons, Grounds
    <3>5. x \in Request /\ x.who = p /\ x.seen = status[p] /\ x.op = l.op /\ x.snap = l.snap
      BY <1>0, <3>3, WhoSet DEF Request
    <3>6. \A q \in Managed : l.snap[q] = "blocked" => q \in cause
      BY <1>0 DEF Sound, Accused
    <3>7. CASE Judge(r, x) /\ ~(RefreshOnSession /\ p \in Managed)
      BY <3>1, <3>2, <3>4, <3>5, <3>6, <3>7, JudgeSound DEF store, external, history
    <3>8. CASE Become(r, y) /\ p \in Managed
      <4>1. y.pc = "fetch" /\ y.who = p /\ y.seen = status[p] /\ y.op = l.op /\ y.snap = l.snap
        BY <1>0, <3>3, WhoSet DEF Request
      <4>2. Sound(y, cause, vouched)
        BY <3>1, <3>4, <3>6, <3>8, <4>1 DEF Sound, Accused, Asked, Trusted, Informed, Acting,
           Syncing, Projecting, Revoking, Administering
      <4> QED BY <3>1, <3>8, <4>1, <4>2, QuietSound DEF store, external, history
    <3> QED BY <3>1, <3>7, <3>8
  <2> QED BY <2>1, <2>2
<1> QED BY <1>1, <1>2, <1>3, <1>4 DEF Validation

\* A row is written with a status that has a cause.
LEMMA WrittenGrounds ==
    ASSUME Inv, Reasons, NEW p \in Principals, NEW st \in Status,
           status' = [status EXCEPT ![p] = st], UNCHANGED <<directory, cause, vouched>>,
           st = "disabled" => p \in cause,
           st = "active" /\ RegistrationPolicy # "open" => p \in vouched
    PROVE  Grounds' /\ Recorded
BY DEF Inv, Control, TypeOK, StoreTypeOK, Reasons, Grounds, DisabledForCause, Recorded

LEMMA ProjectedSound ==
    ASSUME NEW l \in Request, NEW c, NEW v, Sound(l, c, v), ControlOK(l),
           l.pc \in {"writePrincipal", "purgeSynced"}, l.draft # "none"
    PROVE  Sound([l EXCEPT !.pc = "pick", !.cur = None, !.draft = "none",
                           !.seen = IF l.cur = l.who THEN l.draft ELSE l.seen], c, v)
<1> DEFINE st == IF l.cur = l.who THEN l.draft ELSE l.seen
           x == [l EXCEPT !.pc = "pick", !.cur = None, !.draft = "none", !.seen = st]
<1>1. /\ x.pc = "pick" /\ x.op = l.op /\ x.who = l.who /\ x.snap = l.snap /\ x.todo = l.todo
      /\ x.arg = l.arg /\ x.seen = st
  BY DEF Request
<1>2. Accused(x, c)
  BY <1>1 DEF Sound, Accused, Informed, Syncing, Projecting, Revoking
<1>3. l.pc \in Projecting /\ l.pc \in Syncing \ {"fetch"}
  BY DEF Projecting, Syncing
<1>4. Asked(x)
  <2>1. l.op \in SessionOps /\ l.snap[l.who] = "blocked" => l.who \in l.todo \/ st = "disabled"
    BY <1>3 DEF Sound, Asked, Informed
  <2>2. l.op \in SessionOps => l.who \in Managed
    BY <1>3 DEF Sound, Asked
  <2> QED BY <1>1, <2>1, <2>2 DEF Asked, Informed, Acting, Administering
<1>5. Trusted(x, v)
  <2>1. l.op \in SessionOps => st # "none"
    BY <1>3 DEF Sound, Trusted
  <2>2. RegistrationPolicy # "open" /\ l.op \in SessionOps /\ st = "active" => l.who \in v
    BY <1>3 DEF Sound, Asked, Trusted
  <2> QED BY <1>1, <2>1, <2>2 DEF Trusted, Acting, Administering
<1> QED BY <1>2, <1>4, <1>5 DEF Sound

LEMMA FetchSound ==
    ASSUME Inv, Reasons, Effects, NEW r \in Requests,
           Fetch(r) \/ FetchFails(r) \/ PickSnapshot(r) \/ Synced(r)
    PROVE  Reasons'
<1> DEFINE l == req[r]
<1>0. l \in Request /\ ControlOK(l) /\ Sound(l, cause, vouched) /\ TypeOK
  BY DEF Inv, Control, TypeOK, Reasons
<1>1. CASE Fetch(r)
  <2> DEFINE found == {p \in Managed : UserOf(p) = Subject(r) /\ directory[p] # "absent"}
             answer == [p \in Managed |-> IF p \in found THEN directory[p] ELSE "absent"]
             x == [l EXCEPT !.pc = "pick", !.todo = found, !.snap = answer]
  <2>1. Become(r, x) /\ At(r, "fetch") /\ UNCHANGED <<store, external, history>>
    BY <1>1 DEF Fetch
  <2>2. /\ x.pc = "pick" /\ x.todo = found /\ x.snap = answer /\ x.op = l.op
        /\ x.who = l.who /\ x.seen = l.seen
    BY <1>0 DEF Request
  <2>3. \A p \in Managed : answer[p] = "blocked" => p \in cause /\ p \in found
    BY DEF Reasons, Grounds
  <2>4. l.op \in SessionOps => l.who \in Managed /\ l.seen # "none"
        /\ (RegistrationPolicy # "open" /\ l.seen = "active" => l.who \in vouched)
    BY <1>0, <2>1 DEF At, Sound, Asked, Trusted, Syncing
  <2>5. l.op \in SessionOps /\ answer[l.who] = "absent" => l.who \in cause
    <3> SUFFICES ASSUME l.op \in SessionOps, answer[l.who] = "absent" PROVE l.who \in cause
      OBVIOUS
    <3>1. UserOf(l.who) = Subject(r)
      BY DEF Subject, SessionOps
    <3>2. directory[l.who] = "absent"
      BY <2>4, <3>1
    <3> QED BY <2>4, <3>2 DEF Reasons, Grounds
  <2>6. Accused(x, cause)
    BY <2>2, <2>3, <2>5 DEF Accused, Informed, Revoking
  <2>7. Asked(x)
    BY <2>2, <2>3, <2>4 DEF Asked, Informed, Acting, Administering
  <2>8. Trusted(x, vouched)
    BY <2>2, <2>4 DEF Trusted, Acting, Administering
  <2> QED BY <2>1, <2>2, <2>6, <2>7, <2>8, QuietSound DEF Sound, store, external, history
<1>2. CASE FetchFails(r)
  BY <1>2, DenySound DEF FetchFails
<1>3. CASE PickSnapshot(r)
  <2>0. UNCHANGED <<status, directory, cause, vouched>> /\ At(r, "pick")
    BY <1>3 DEF PickSnapshot, store, external, history
  <2>1. l.op \in SessionOps /\ l.snap[l.who] = "blocked" => l.who \in l.todo \/ l.seen = "disabled"
    BY <1>0, <2>0 DEF At, Sound, Asked, Informed, Syncing, Projecting
  <2>2. ASSUME NEW p \in l.todo,
               Become(r, [l EXCEPT !.pc = "readTenant", !.cur = p, !.todo = l.todo \ {p}])
        PROVE  Reasons'
    <3> DEFINE x == [l EXCEPT !.pc = "readTenant", !.cur = p, !.todo = l.todo \ {p}]
    <3>1. /\ x.pc = "readTenant" /\ x.todo = l.todo \ {p} /\ x.cur = p /\ x.snap = l.snap
          /\ x.op = l.op /\ x.who = l.who /\ x.seen = l.seen
      BY <1>0 DEF Request
    <3>2. Accused(x, cause)
      BY <1>0, <2>0, <3>1 DEF At, Sound, Accused, Informed, Syncing, Projecting, Revoking
    <3>3. Asked(x)
      BY <1>0, <2>0, <2>1, <3>1 DEF At, Sound, Asked, Informed, Acting, Syncing, Projecting, Administering
    <3>4. Trusted(x, vouched)
      BY <1>0, <2>0, <3>1 DEF At, Sound, Trusted, Acting, Syncing, Projecting, Administering
    <3> QED BY <2>0, <2>2, <3>1, <3>2, <3>3, <3>4, QuietSound DEF Sound
  <2>3. ASSUME l.todo = {}, Goto(r, "synced")
        PROVE  Reasons'
    <3> DEFINE x == [l EXCEPT !.pc = "synced"]
    <3>1. /\ x.pc = "synced" /\ x.todo = {} /\ x.snap = l.snap
          /\ x.op = l.op /\ x.who = l.who /\ x.seen = l.seen
      BY <1>0, <2>3 DEF Request
    <3>2. Accused(x, cause)
      BY <1>0, <2>0, <3>1 DEF At, Sound, Accused, Informed, Syncing, Projecting, Revoking
    <3>3. Asked(x)
      BY <1>0, <2>0, <2>1, <2>3, <3>1 DEF At, Sound, Asked, Informed, Acting, Syncing, Projecting, Administering
    <3>4. Trusted(x, vouched)
      BY <1>0, <2>0, <3>1 DEF At, Sound, Trusted, Acting, Syncing, Projecting, Administering
    <3> QED BY <2>0, <2>3, <3>1, <3>2, <3>3, <3>4, QuietSound DEF Goto, Sound
  <2> QED BY <1>3, <2>2, <2>3 DEF PickSnapshot
<1>4. CASE Synced(r)
  <2> DEFINE listed == {p \in Managed : l.snap[p] # "absent"}
  <2>0. UNCHANGED <<status, directory, cause, vouched>> /\ At(r, "synced")
    BY <1>4 DEF Synced, store, external, history
  <2>1. CASE l.op = "login"
    <3>1. ASSUME NEW p \in listed, Become(r, [l EXCEPT !.pc = "createPrincipal", !.arg = p])
          PROVE  Reasons'
      <4> DEFINE x == [l EXCEPT !.pc = "createPrincipal", !.arg = p]
      <4>1. x.pc = "createPrincipal" /\ x.snap = l.snap /\ x.op = l.op /\ x.who = l.who
        BY <1>0 DEF Request
      <4>2. Sound(x, cause, vouched)
        BY <1>0, <4>1 DEF Sound, Accused, Asked, Trusted, Informed, Acting, Syncing, Projecting,
             Revoking, Administering
      <4> QED BY <2>0, <3>1, <4>1, <4>2, QuietSound
    <3>2. ASSUME Become(r, Outcome("denied", None, Idle.snap))
          PROVE  Reasons'
      <4>1. Outcome("denied", None, Idle.snap).pc # "drop"
        BY DEF Outcome, Idle
      <4> QED BY <2>0, <3>2, <4>1, DeniedSound, QuietSound
    <3> QED BY <1>4, <2>1, <3>1, <3>2 DEF Synced
  <2>2. CASE l.op # "login"
    <3>0. l.op \in SessionOps
      BY <1>0, <2>0, <2>2 DEF ControlOK, Finished, Creating, Syncing, Projecting, Validating,
           Revoking, Administering, SessionOps, AdminOps, Operation, At, Request
    <3>1. /\ l.who \in Managed /\ l.todo = {} /\ l.seen # "none"
          /\ l.snap[l.who] = "blocked" => l.seen = "disabled"
      BY <1>0, <2>0, <3>0 DEF At, Sound, Asked, Trusted, Informed, Syncing, Projecting
    <3>2. ASSUME Judge(r, l), l.who \in listed PROVE Reasons'
      <4>1. Admits(l.seen) => l.snap[l.who] = "member"
        BY <1>0, <3>1, <3>2 DEF Admits, Request, Listing
      <4>2. l.seen = "active" /\ RegistrationPolicy # "open" => l.who \in vouched
        BY <1>0, <2>0, <3>0 DEF At, Sound, Trusted, Syncing
      <4>3. \A p \in Managed : l.snap[p] = "blocked" => p \in cause
        BY <1>0 DEF Sound, Accused
      <4> QED BY <1>0, <2>0, <3>0, <3>1, <3>2, <4>1, <4>2, <4>3, JudgeSound
    <3>3. ASSUME Goto(r, "revoke"), l.who \notin listed PROVE Reasons'
      <4> DEFINE x == [l EXCEPT !.pc = "revoke"]
      <4>1. x.pc = "revoke" /\ x.snap = l.snap /\ x.who = l.who
        BY <1>0 DEF Request
      <4>2. l.who \in cause
        BY <1>0, <2>0, <3>0, <3>1, <3>3 DEF At, Sound, Accused, Informed, Syncing
      <4>3. Sound(x, cause, vouched)
        BY <1>0, <4>1, <4>2 DEF Sound, Accused, Asked, Trusted, Informed, Acting, Syncing, Projecting,
             Revoking, Administering
      <4> QED BY <2>0, <3>3, <4>1, <4>3, QuietSound DEF Goto
    <3> QED BY <1>4, <2>2, <3>2, <3>3 DEF Synced
  <2> QED BY <2>1, <2>2
<1> QED BY <1>1, <1>2, <1>3, <1>4

\* A record on its way through one snapshot, with another draft.
LEMMA ProjectionSound ==
    ASSUME NEW l \in Request, NEW c, NEW v, Sound(l, c, v), l.pc \in Projecting,
           NEW pt \in Projecting, NEW st,
           pt \in {"writePrincipal", "purgeSynced"} /\ st = "disabled" => l.cur \in c,
           pt = "purgeSynced" => st = "disabled",
           pt = "writePrincipal" /\ l.snap[l.cur] = "blocked" => st = "disabled",
           pt = "writePrincipal" /\ st = "active" /\ RegistrationPolicy # "open" => l.cur \in v
    PROVE  Sound([l EXCEPT !.pc = pt, !.draft = st], c, v)
<1> DEFINE x == [l EXCEPT !.pc = pt, !.draft = st]
<1>1. /\ x.pc = pt /\ x.draft = st /\ x.todo = l.todo /\ x.snap = l.snap /\ x.cur = l.cur
      /\ x.op = l.op /\ x.who = l.who /\ x.seen = l.seen
  BY DEF Request
<1>2. pt \in Syncing \ {"fetch"} /\ l.pc \in Syncing \ {"fetch"}
  BY DEF Syncing, Projecting
<1>3. Accused(x, c)
  BY <1>1, <1>2 DEF Sound, Accused, Informed, Projecting, Revoking
<1>4. Asked(x)
  BY <1>1, <1>2 DEF Sound, Asked, Informed, Acting, Projecting, Administering
<1>5. Trusted(x, v)
  BY <1>1, <1>2 DEF Sound, Trusted, Acting, Projecting, Administering
<1> QED BY <1>3, <1>4, <1>5 DEF Sound

LEMMA SyncSound ==
    ASSUME Inv, Reasons, Effects, NEW r \in Requests, DirectorySync(r)
    PROVE  Reasons'
<1> DEFINE l == req[r]
           projected == [l EXCEPT !.pc = "pick", !.cur = None, !.draft = "none",
                                  !.seen = IF l.cur = l.who THEN l.draft ELSE l.seen]
<1>0. /\ l \in Request /\ ControlOK(l) /\ Sound(l, cause, vouched) /\ TypeOK
      /\ Backed(l, status, session)
  BY DEF Inv, Control, TypeOK, Reasons
<1>1. CASE Fetch(r) \/ FetchFails(r) \/ PickSnapshot(r) \/ Synced(r)
  BY <1>1, FetchSound
<1>2. ASSUME l.pc \in Projecting, NEW pt \in Projecting, NEW st,
             Become(r, [l EXCEPT !.pc = pt, !.draft = st]),
             UNCHANGED <<status, directory, cause, vouched>>,
             Sound([l EXCEPT !.pc = pt, !.draft = st], cause, vouched)
      PROVE  Reasons'
  <2>1. [l EXCEPT !.pc = pt, !.draft = st].pc # "drop"
    BY <1>0, <1>2 DEF Request, Projecting
  <2> QED BY <1>2, <2>1, QuietSound
<1>3. CASE SyncReadTenant(r)
  <2>1. PICK st : Become(r, [l EXCEPT !.pc = "writeTenant", !.draft = st])
    BY <1>3 DEF SyncReadTenant
  <2>2. Sound([l EXCEPT !.pc = "writeTenant", !.draft = st], cause, vouched)
    BY <1>0, <1>3, ProjectionSound DEF SyncReadTenant, At, Projecting
  <2> QED BY <1>2, <1>3, <2>1, <2>2 DEF SyncReadTenant, At, Projecting, store, external, history
<1>4. CASE SyncWriteTenant(r)
  <2>1. Goto(r, "readPrincipal") /\ At(r, "writeTenant") /\ UNCHANGED <<status, external, history>>
    BY <1>4 DEF SyncWriteTenant
  <2>2. [l EXCEPT !.pc = "readPrincipal"] = [l EXCEPT !.pc = "readPrincipal", !.draft = l.draft]
    BY <1>0 DEF Request
  <2>3. Sound([l EXCEPT !.pc = "readPrincipal", !.draft = l.draft], cause, vouched)
    BY <1>0, <2>1, ProjectionSound DEF At, Projecting
  <2> QED BY <1>2, <2>1, <2>2, <2>3 DEF Goto, At, Projecting, external, history
<1>5. CASE SyncReadPrincipal(r)
  <2> DEFINE st == ProjectedStatus(l.snap[l.cur], status[l.cur])
  <2>1. /\ Become(r, [l EXCEPT !.pc = "writePrincipal", !.draft = st])
        /\ At(r, "readPrincipal") /\ UNCHANGED <<store, external, history>>
    BY <1>5 DEF SyncReadPrincipal
  <2>2. l.cur \in Managed /\ l.cur \in Principals
    BY <1>0, <2>1, PrincipalsAssumption DEF ControlOK, At, Projecting
  <2>3. st = "disabled" => l.cur \in cause
    BY <1>0, <2>2 DEF ProjectedStatus, Sound, Accused, Reasons, Grounds, DisabledForCause
  <2>4. st = "active" /\ RegistrationPolicy # "open" => l.cur \in vouched
    BY <2>2 DEF ProjectedStatus, Reasons, Grounds
  <2>5. l.snap[l.cur] = "blocked" => st = "disabled"
    BY DEF ProjectedStatus
  <2>6. Sound([l EXCEPT !.pc = "writePrincipal", !.draft = st], cause, vouched)
    BY <1>0, <2>1, <2>3, <2>4, <2>5, ProjectionSound DEF At, Projecting
  <2> QED BY <1>2, <2>1, <2>6 DEF At, Projecting, store, external, history
<1>6. CASE SyncWritePrincipal(r)
  <2>1. /\ At(r, "writePrincipal") /\ status' = [status EXCEPT ![l.cur] = l.draft]
        /\ UNCHANGED <<directory, cause, vouched>>
    BY <1>6 DEF SyncWritePrincipal, UpsertPrincipal, external, history
  <2>2. l.cur \in Principals /\ l.draft \in Status /\ l.draft # "none"
    BY <1>0, <2>1, PrincipalsAssumption DEF ControlOK, At, Projecting, Request, Backed
  <2>3. l.draft = "disabled" => l.cur \in cause
    BY <1>0, <2>1 DEF At, Sound, Accused
  <2>4. Grounds' /\ Recorded
    BY <1>0, <2>1, <2>2, <2>3, WrittenGrounds DEF At, Sound, Trusted
  <2>5. CASE l.draft = "disabled"
    <3> DEFINE x == [l EXCEPT !.pc = "purgeSynced", !.draft = l.draft]
    <3>1. Goto(r, "purgeSynced") /\ x = [l EXCEPT !.pc = "purgeSynced"] /\ x.pc = "purgeSynced"
      BY <1>0, <1>6, <2>5 DEF SyncWritePrincipal, Request
    <3>2. Sound(x, cause, vouched)
      BY <1>0, <2>1, <2>3, <2>5, ProjectionSound DEF At, Projecting
    <3> QED BY <2>1, <2>4, <3>1, <3>2, SoundStep DEF Goto, Gone
  <2>6. CASE l.draft # "disabled"
    <3>1. Become(r, projected) /\ projected.pc = "pick"
      BY <1>0, <1>6, <2>6 DEF SyncWritePrincipal, Projected, Request
    <3>2. Sound(projected, cause, vouched)
      BY <1>0, <2>1, <2>2, ProjectedSound DEF At
    <3> QED BY <2>1, <2>4, <3>1, <3>2, SoundStep DEF Gone
  <2> QED BY <2>5, <2>6
<1>7. CASE SyncPurge(r)
  <2>1. /\ Become(r, projected) /\ projected.pc = "pick" /\ At(r, "purgeSynced")
        /\ UNCHANGED <<status, external, history>>
    BY <1>0, <1>7 DEF SyncPurge, Projected, Request
  <2>2. l.draft = "disabled"
    BY <1>0, <2>1 DEF At, Sound, Asked
  <2>3. Sound(projected, cause, vouched)
    BY <1>0, <2>1, <2>2, ProjectedSound DEF At
  <2> QED BY <2>1, <2>3, QuietSound DEF external, history
<1>8. CASE RevokePrincipal(r)
  <2>1. /\ At(r, "revoke") /\ status' = [status EXCEPT ![l.who] = "disabled"]
        /\ UNCHANGED <<directory, cause, vouched>> /\ Goto(r, "purgeRevoked")
    BY <1>8 DEF RevokePrincipal, UpdatePrincipalStatus, external, history
  <2>2. l.who \in cause /\ l.who \in Principals
    BY <1>0, <2>1 DEF At, Sound, Accused, Revoking, TypeOK
  <2>3. Grounds' /\ Recorded
    BY <2>1, <2>2, WrittenGrounds DEF Status
  <2>4. Sound([l EXCEPT !.pc = "purgeRevoked"], cause, vouched) /\ [l EXCEPT !.pc = "purgeRevoked"].pc # "drop"
    BY <1>0, <2>2 DEF Request, Sound, Accused, Asked, Trusted, Informed, Acting, Syncing,
         Projecting, Revoking, Administering
  <2> QED BY <2>1, <2>3, <2>4, SoundStep DEF Goto, Gone
<1>9. CASE PurgeRevoked(r)
  <2>1. Outcome("denied", None, Idle.snap).pc # "drop"
    BY DEF Outcome, Idle
  <2> QED BY <1>9, <2>1, DeniedSound, QuietSound DEF PurgeRevoked, external, history
<1> QED BY <1>1, <1>3, <1>4, <1>5, <1>6, <1>7, <1>8, <1>9 DEF DirectorySync

LEMMA SwitchingSound ==
    ASSUME Inv, Reasons, Effects, NEW r \in Requests, Switching(r)
    PROVE  Reasons'
<1> DEFINE l == req[r]
<1>0. l \in Request /\ ControlOK(l) /\ Sound(l, cause, vouched)
  BY DEF Inv, Control, TypeOK, Reasons
<1>1. ASSUME NEW c, Become(r, [l EXCEPT !.pc = "move", !.cur = c]),
             UNCHANGED <<store, external, history>>, l.pc \in {"admitted", "list"}
      PROVE  Reasons'
  <2> DEFINE x == [l EXCEPT !.pc = "move", !.cur = c]
  <2>1. x.pc = "move" /\ x.op = l.op /\ x.who = l.who /\ x.snap = l.snap
    BY <1>0 DEF Request
  <2>2. Sound(x, cause, vouched)
    BY <1>0, <1>1, <2>1 DEF Sound, Accused, Asked, Trusted, Informed, Acting, Syncing,
         Projecting, Revoking, Administering
  <2> QED BY <1>1, <2>1, <2>2, QuietSound DEF store, external, history
<1>2. CASE ChooseTeam(r)
  BY <1>1, <1>2 DEF ChooseTeam, At
<1>3. CASE ChooseTenant(r)
  <2>1. CASE Deny(r)
    BY <2>1, DenySound
  <2>2. CASE Become(r, [l EXCEPT !.pc = "move", !.cur = l.who]) /\ UNCHANGED <<store, external, history>>
    BY <1>1, <1>3, <2>2 DEF ChooseTenant, At
  <2>3. CASE Goto(r, "list") /\ UNCHANGED <<store, external, history>>
    <3>1. Acting(l)
      BY <1>3 DEF ChooseTenant, At, Acting
    <3>2. Sound([l EXCEPT !.pc = "list"], cause, vouched) /\ [l EXCEPT !.pc = "list"].pc # "drop"
      BY <1>0, <3>1, NeutralPoint DEF Point, Request
    <3> QED BY <2>3, <3>2, QuietSound DEF Goto, store, external, history
  <2> QED BY <1>3, <2>1, <2>2, <2>3 DEF ChooseTenant
<1>4. CASE ListPrincipals(r)
  <2>1. CASE Deny(r)
    BY <2>1, DenySound
  <2>2. CASE ~Deny(r)
    BY <1>1, <1>4, <2>2 DEF ListPrincipals, At
  <2> QED BY <2>1, <2>2
<1>5. CASE MoveSession(r)
  <2>1. CASE Deny(r)
    BY <2>1, DenySound
  <2>2. CASE ~Deny(r)
    <3>1. /\ Become(r, [Idle EXCEPT !.pc = "session", !.op = "identity", !.sid = l.sid])
          /\ UNCHANGED <<status, external, history>>
      BY <1>5, <2>2 DEF MoveSession
    <3> QED BY <3>1, RestartSound, QuietSound DEF external, history
  <2> QED BY <2>1, <2>2
<1> QED BY <1>2, <1>3, <1>4, <1>5 DEF Switching

LEMMA CreationSound ==
    ASSUME Inv, Reasons, Effects, NEW r \in Requests, Creation(r)
    PROVE  Reasons'
<1> DEFINE l == req[r]
<1>0. l \in Request /\ ControlOK(l) /\ Sound(l, cause, vouched)
  BY DEF Inv, Control, TypeOK, Reasons
<1>1. CASE CreateReadPrincipal(r)
  <2> DEFINE x == [Idle EXCEPT !.pc = "createTenant", !.op = l.op,
                               !.who = l.arg, !.seen = status[l.arg]]
  <2>1. CASE Deny(r)
    BY <2>1, DenySound
  <2>2. CASE ~Deny(r)
    <3>1. Become(r, x) /\ UNCHANGED <<store, external, history>>
      BY <1>1, <2>2 DEF CreateReadPrincipal
    <3>2. x.pc = "createTenant" /\ x.snap = [p \in Managed |-> "absent"]
      BY DEF Idle
    <3>3. Sound(x, cause, vouched)
      BY <3>2 DEF Sound, Accused, Asked, Trusted, Informed, Acting, Syncing,
           Projecting, Revoking, Administering
    <3> QED BY <3>1, <3>2, <3>3, QuietSound DEF store, external, history
  <2> QED BY <2>1, <2>2
<1>2. CASE CreateReadTenant(r)
  <2>1. CASE Deny(r)
    BY <2>1, DenySound
  <2>2. CASE ~Deny(r)
    <3>1. Goto(r, "put") /\ UNCHANGED <<store, external, history>>
      BY <1>2, <2>2 DEF CreateReadTenant
    <3>2. Sound([l EXCEPT !.pc = "put"], cause, vouched) /\ [l EXCEPT !.pc = "put"].pc # "drop"
      BY <1>0, NeutralPoint DEF Creating, Point, Request, Administering
    <3> QED BY <3>1, <3>2, QuietSound DEF Goto, store, external, history
  <2> QED BY <2>1, <2>2
<1>3. CASE CreateSession(r)
  <2>1. /\ UNCHANGED <<status, external, history>>
        /\ \/ \E s : Become(r, [Idle EXCEPT !.pc = "session", !.op = "identity", !.sid = s])
           \/ Become(r, Outcome("ok", None, Idle.snap))
    BY <1>3 DEF CreateSession
  <2>2. Outcome("ok", None, Idle.snap).pc # "drop"
    BY DEF Outcome, Idle
  <2> QED BY <2>1, <2>2, RestartSound, DeniedSound, QuietSound DEF external, history
<1> QED BY <1>1, <1>2, <1>3 DEF Creation

LEMMA AdministrationSound ==
    ASSUME Inv, Reasons, Effects, NEW r \in Requests, Administration(r)
    PROVE  Reasons'
<1> DEFINE l == req[r]
           answer == Outcome("ok", l.who, l.snap)
<1>0. l \in Request /\ ControlOK(l) /\ Sound(l, cause, vouched) /\ TypeOK
  BY DEF Inv, Control, TypeOK, Reasons
<1>1. ASSUME NEW pt \in {"checkPending", "setStatus"}, Goto(r, pt), Acting(l),
             UNCHANGED <<store, external, history>>
      PROVE  Reasons'
  <2>1. Sound([l EXCEPT !.pc = pt], cause, vouched) /\ [l EXCEPT !.pc = pt].pc # "drop"
    BY <1>0, <1>1, NeutralPoint DEF Point, Request
  <2> QED BY <1>1, <2>1, QuietSound DEF Goto, store, external, history
<1>2. Acting(l) => Sound(answer, cause, vouched) /\ answer.pc # "drop"
  <2>1. answer.pc = "ok" /\ answer.op = None /\ answer.who = l.who /\ answer.snap = l.snap
    BY DEF Outcome, Idle
  <2> QED BY <1>0, <2>1, NoneIsNew DEF Sound, Accused, Asked, Trusted, Informed, Acting, Syncing,
         Projecting, Revoking, Administering, SessionOps
<1>3. CASE AuthorizeAdmin(r)
  <2>1. CASE Deny(r)
    BY <2>1, DenySound
  <2>2. CASE ~Deny(r)
    BY <1>1, <1>3, <2>2 DEF AuthorizeAdmin, At, Acting
  <2> QED BY <2>1, <2>2
<1>4. CASE CheckPending(r)
  <2>1. CASE Deny(r)
    BY <2>1, DenySound
  <2>2. CASE ~Deny(r)
    BY <1>1, <1>4, <2>2 DEF CheckPending, At, Acting, Administering
  <2> QED BY <2>1, <2>2
<1>5. l.pc \in Administering => l.arg \in Principals
  BY <1>0 DEF ControlOK
<1>6. CASE EnableStatus(r)
  <2>1. /\ status' = [status EXCEPT ![l.arg] = "active"] /\ vouched' = vouched \cup {l.arg}
        /\ UNCHANGED <<directory, cause>> /\ Become(r, answer) /\ At(r, "setStatus")
    BY <1>6 DEF EnableStatus, UpdatePrincipalStatus, Succeed, external
  <2>2. Grounds' /\ Recorded
    BY <1>0, <2>1 DEF TypeOK, StoreTypeOK, Reasons, Grounds, DisabledForCause, Recorded
  <2>3. Sound(answer, cause', vouched') /\ answer.pc # "drop"
    BY <1>2, <2>1, SoundKept DEF At, Acting, Administering
  <2> QED BY <2>1, <2>2, <2>3, SoundStep DEF Gone
<1>7. CASE DisableStatus(r)
  <2> DEFINE x == [l EXCEPT !.pc = "purge"]
  <2>1. /\ status' = [status EXCEPT ![l.arg] = "disabled"] /\ cause' = cause \cup {l.arg}
        /\ UNCHANGED <<directory, vouched>> /\ Become(r, x) /\ At(r, "setStatus")
    BY <1>7 DEF DisableStatus, UpdatePrincipalStatus, Goto, external
  <2>2. Grounds' /\ Recorded
    BY <1>0, <2>1 DEF TypeOK, StoreTypeOK, Reasons, Grounds, DisabledForCause, Recorded
  <2>3. Sound(l, cause', vouched')
    BY <1>0, <2>1, SoundKept
  <2>4. x.pc = "purge" /\ x.arg = l.arg /\ x.op = l.op /\ x.who = l.who /\ x.snap = l.snap
    BY <1>0 DEF Request
  <2>5. Sound(x, cause', vouched')
    BY <2>1, <2>3, <2>4 DEF At, Sound, Accused, Asked, Trusted, Informed, Acting, Syncing,
         Projecting, Revoking, Administering
  <2> QED BY <2>1, <2>2, <2>4, <2>5, SoundStep DEF Gone
<1>8. CASE UnknownPrincipal(r)
  BY <1>8, DenySound DEF UnknownPrincipal
<1>9. CASE PurgeSessions(r)
  BY <1>2, <1>9, QuietSound DEF PurgeSessions, Succeed, At, Acting, Administering, external, history
<1> QED BY <1>3, <1>4, <1>6, <1>7, <1>8, <1>9 DEF Administration

LEMMA EnvironmentSound ==
    ASSUME Inv, Reasons, Effects, Environment
    PROVE  Reasons'
<1>1. ASSUME UNCHANGED req, Recorded, Grounds' PROVE Reasons'
  BY <1>1, SoundKept, GoneKept DEF Reasons, Recorded
<1>2. ASSUME UNCHANGED <<req, status, directory, cause, vouched>> PROVE Reasons'
  BY <1>1, <1>2 DEF Reasons, Grounds, DisabledForCause, Recorded
<1>3. ASSUME NEW p \in Managed, DirectoryChanges(p) PROVE Reasons'
  <2>1. PICK listing \in Listing :
          /\ directory' = [directory EXCEPT ![p] = listing]
          /\ cause' = IF listing = "member" THEN cause ELSE cause \cup {p}
    BY <1>3 DEF DirectoryChanges
  <2>2. UNCHANGED <<req, status, vouched>> /\ directory \in [Managed -> Listing]
    BY <1>3 DEF DirectoryChanges, store, Inv, Control, TypeOK
  <2>3. Grounds' /\ Recorded
    BY <2>1, <2>2 DEF Reasons, Grounds, DisabledForCause, Recorded
  <2> QED BY <1>1, <2>2, <2>3
<1> QED BY <1>2, <1>3 DEF Environment, Logout, Expire, HostDisablesTenant, external, history

LEMMA ReasonsInit == Init => Reasons
<1> SUFFICES ASSUME Init PROVE Reasons
  OBVIOUS
<1>1. Grounds
  BY DEF Init, StoreInit, Grounds, DisabledForCause
<1>2. ASSUME NEW r \in Requests PROVE Sound(req[r], cause, vouched) /\ Gone(req[r], session)
  BY NoneIsNew DEF Init, Idle, Sound, Accused, Asked, Trusted, Gone, Informed, Acting, Syncing,
       Projecting, Revoking, Administering, SessionOps
<1> QED BY <1>1, <1>2 DEF Reasons

LEMMA ReasonsNext == Inv /\ Reasons /\ [Next]_vars => Reasons'
<1> SUFFICES ASSUME Inv, Reasons, [Next]_vars PROVE Reasons'
  OBVIOUS
<1>1. CASE UNCHANGED vars
  BY <1>1 DEF vars, store, external, history, Reasons, Grounds, DisabledForCause
<1>2. CASE Effects
  <2>1. ASSUME NEW r \in Requests, Start(r) \/ Serve(r) \/ Abort(r) PROVE Reasons'
    BY <1>2, <2>1, StartSound, ValidationSound, SyncSound, SwitchingSound, CreationSound,
       AdministrationSound, DenySound DEF Serve, Abort
  <2> QED BY <1>1, <1>2, <2>1, EnvironmentSound DEF Next
<1> QED BY <1>1, <1>2, InvNext

\* In every reachable state a disabled principal was ruled out by an
\* administrator or by the directory: no outage and no interleaving of
\* refreshes and administration disables anybody else.
THEOREM DisableHasCause == Spec => []DisabledForCause
<1>1. Inv /\ Reasons => DisabledForCause
  BY DEF Reasons, Grounds
<1> QED BY <1>1, InvInit, InvNext, ReasonsInit, ReasonsNext, PTL DEF Spec

\* With DirectoryRefreshOnSession, no call is answered as a directory-owned
\* principal that the directory did not list as a member during that call.
THEOREM AdmissionIsListed == Spec => []AdmittedWasListed
<1>1. Inv /\ Reasons => AdmittedWasListed
  BY DEF Reasons, Sound, Asked, Acting, AdmittedWasListed, At
<1> QED BY <1>1, InvInit, InvNext, ReasonsInit, ReasonsNext, PTL DEF Spec

\* Unless registration is open, no call is answered as a principal that neither
\* an operator nor an administrator let in.
THEOREM AdmissionIsVouched == Spec => []AdmittedWasVouched
<1>1. Inv /\ Reasons => AdmittedWasVouched
  BY DEF Reasons, Sound, Trusted, Acting, AdmittedWasVouched, At
<1> QED BY <1>1, InvInit, InvNext, ReasonsInit, ReasonsNext, PTL DEF Spec

\* Sessions removed by principal are those of a principal ruled out.
LEMMA PurgedForCause ==
    ASSUME NEW p \in cause, DeleteSessionsByPrincipal(p), NEW s \in SessionIds,
           Stored(s), ~Stored(s)'
    PROVE  session[s].principal \in cause
<1>1. session'[s] = IF s \in SessionsOf(p) THEN Deleted ELSE session[s]
  BY DEF DeleteSessionsByPrincipal
<1> QED BY <1>1 DEF SessionsOf, Stored

\* A session written into the table is stored.
LEMMA WrittenIsStored ==
    ASSUME Inv, NEW z \in SessionIds, NEW y \in Session, session' = [session EXCEPT ![z] = y],
           NEW s \in SessionIds, Stored(s)
    PROVE  Stored(s)'
BY MarkersAssumption DEF Stored, Inv, Control, TypeOK, StoreTypeOK

LEMMA EndsForCause ==
    ASSUME Inv, Reasons, [Next]_vars, NEW s \in SessionIds, Stored(s), ~Stored(s)'
    PROVE  session[s].expired \/ session[s].principal \in cause \/ Logout(s)
<1>0. StoreTypeOK
  BY DEF Inv, Control, TypeOK
<1>1. session'[s] # session[s]
  BY DEF Stored
<1>2. ASSUME NEW r \in Requests, Start(r) PROVE FALSE
  BY <1>1, <1>2 DEF Start, StartIdentity, StartSwitchTeam, StartSwitchTenant, StartAdmin,
       StartCreate, StartLogin, Begin, store
<1>3. ASSUME NEW r \in Requests, Deny(r) PROVE FALSE
  BY <1>1, <1>3 DEF Deny, store
<1>4. ASSUME NEW r \in Requests, Validation(r) PROVE session[s].expired
  <2>1. DropExpired(r)
    BY <1>1, <1>3, <1>4 DEF Validation, ReadSession, ReadTenant, ReadPrincipal, store
  <2>2. s = req[r].sid /\ At(r, "drop")
    BY <1>0, <1>1, <2>1 DEF DropExpired, DeleteSession, StoreTypeOK
  <2>3. Gone(req[r], session)
    BY DEF Reasons
  <2> QED BY <2>2, <2>3 DEF Gone, At, Stored
<1>5. ASSUME NEW r \in Requests, DirectorySync(r) PROVE session[s].principal \in cause
  <2>1. SyncPurge(r) \/ PurgeRevoked(r)
    BY <1>1, <1>3, <1>5 DEF DirectorySync, Fetch, FetchFails, PickSnapshot, SyncReadTenant,
         SyncWriteTenant, SyncReadPrincipal, SyncWritePrincipal, Synced, RevokePrincipal, store
  <2>2. Sound(req[r], cause, vouched)
    BY DEF Reasons
  <2>3. CASE SyncPurge(r)
    <3>1. req[r].cur \in cause
      BY <2>2, <2>3 DEF SyncPurge, At, Sound, Accused, Asked
    <3> QED BY <2>3, <3>1, PurgedForCause DEF SyncPurge
  <2>4. CASE PurgeRevoked(r)
    <3>1. req[r].who \in cause
      BY <2>2, <2>4 DEF PurgeRevoked, At, Sound, Accused, Revoking
    <3> QED BY <2>4, <3>1, PurgedForCause DEF PurgeRevoked
  <2> QED BY <2>1, <2>3, <2>4
<1>6. ASSUME NEW r \in Requests, Switching(r) PROVE FALSE
  <2> DEFINE l == req[r]
             tenant == IF l.op = "team" THEN l.held.tenant ELSE TenantOf(l.cur)
             row == [principal |-> l.cur, tenant |-> tenant, expired |-> session[l.sid].expired]
  <2>0. l \in Request /\ ControlOK(l)
    BY DEF Inv, Control, TypeOK
  <2>1. MoveSession(r) /\ UpdateSessionContext(l.sid, l.cur, tenant)
    BY <1>1, <1>3, <1>6 DEF Switching, ChooseTeam, ChooseTenant, ListPrincipals, MoveSession, store
  <2>2. l.op \in {"team", "switch"} /\ l.cur \in Principals /\ l.pc = "move"
    BY <2>0, <2>1 DEF MoveSession, At, ControlOK
  <2>3. l.sid \in SessionIds /\ l.held \in Session
    BY <2>0, <2>2 DEF ControlOK, SessionOps, Operation
  <2>4. session[l.sid] \in Session
    BY <1>0, <2>1, <2>3 DEF UpdateSessionContext, Stored, StoreTypeOK
  <2>5. tenant \in Tenants
    BY <2>2, <2>3, PrincipalParts DEF Session
  <2>6. row \in Session
    BY <2>2, <2>4, <2>5 DEF Session
  <2>7. session' = [session EXCEPT ![l.sid] = row]
    BY <2>1 DEF UpdateSessionContext
  <2> QED BY <2>3, <2>6, <2>7, WrittenIsStored
<1>7. ASSUME NEW r \in Requests, Creation(r) PROVE FALSE
  <2>1. CreateSession(r)
    BY <1>1, <1>3, <1>7 DEF Creation, CreateReadPrincipal, CreateReadTenant, store
  <2>2. PICK z \in SessionIds : PutSession(z, req[r].who, TenantOf(req[r].who))
    BY <2>1 DEF CreateSession
  <2>3. req[r].who \in Principals
    BY <2>1 DEF CreateSession, At, Inv, Control, ControlOK
  <2>4. [principal |-> req[r].who, tenant |-> TenantOf(req[r].who), expired |-> FALSE] \in Session
    BY <2>3, PrincipalParts DEF Session
  <2> QED BY <2>2, <2>4, WrittenIsStored DEF PutSession
<1>8. ASSUME NEW r \in Requests, Administration(r) PROVE session[s].principal \in cause
  <2>1. PurgeSessions(r)
    BY <1>1, <1>3, <1>8 DEF Administration, AuthorizeAdmin, CheckPending, EnableStatus,
         DisableStatus, UnknownPrincipal, store
  <2>2. req[r].arg \in cause
    BY <2>1 DEF PurgeSessions, At, Reasons, Sound, Accused
  <2> QED BY <2>1, <2>2, PurgedForCause DEF PurgeSessions
<1>9. CASE Environment
  <2>1. ASSUME NEW z \in SessionIds, Expire(z) PROVE FALSE
    <3>1. [session[z] EXCEPT !.expired = TRUE] \in Session
      BY <1>0, <2>1 DEF Expire, Stored, StoreTypeOK, Session
    <3>2. session' = [session EXCEPT ![z] = [session[z] EXCEPT !.expired = TRUE]]
      BY <2>1 DEF Expire
    <3> QED BY <3>1, <3>2, WrittenIsStored
  <2>2. ASSUME NEW z \in SessionIds, Logout(z) PROVE z = s
    BY <1>0, <1>1, <2>2 DEF Logout, DeleteSession, StoreTypeOK
  <2> QED BY <1>1, <1>9, <2>1, <2>2 DEF Environment, DirectoryChanges, HostDisablesTenant, store
<1> QED BY <1>1, <1>2, <1>3, <1>4, <1>5, <1>6, <1>7, <1>8, <1>9
        DEF Next, Serve, Abort, vars, store

\* A session leaves the table only at its expiry, by logout, or after its
\* principal was ruled out, whatever failures and interleavings there are.
THEOREM SessionEndHasCause == Spec => SessionsEndForCause
<1>1. Inv /\ Reasons /\ [Next]_vars =>
        [\A s \in SessionIds : Stored(s) /\ ~Stored(s)' =>
            \/ session[s].expired
            \/ session[s].principal \in cause
            \/ Logout(s)]_vars
  BY EndsForCause
<1> QED BY <1>1, InvInit, InvNext, ReasonsInit, ReasonsNext, PTL DEF Spec, SessionsEndForCause

=============================================================================
