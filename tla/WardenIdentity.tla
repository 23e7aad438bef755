--------------------------- MODULE WardenIdentity ---------------------------
(***************************************************************************)
(* Warden's identity service: sign-in, session validation with directory   *)
(* refresh, tenant switching, and the administration of principals, all    *)
(* running concurrently over one store.                                    *)
(*                                                                         *)
(* A request is one goroutine serving one call of warden.Service.  The     *)
(* service holds no lock across store calls, so a request is a sequence    *)
(* of steps, each with at most one store or directory call; what an        *)
(* earlier step read is kept in the request's locals and may be stale      *)
(* when a later step uses it.                                              *)
(***************************************************************************)
EXTENDS WardenStore

CONSTANTS
    Requests,           \* the calls that may be made, each once
    Ops,                \* the operations a run offers
    Events,             \* what may happen around the requests
    MaxListings,        \* bound on the changes of the external directory
    Admins,             \* principals whose roles manage accounts
    RefreshOnSession,   \* Config.DirectoryRefreshOnSession
    RegistrationPolicy, \* "open", "approval_required" or "closed"
    StoreMayFail,       \* whether store calls may fail and callers may hang up
    None                \* an unset local

VARIABLES
    req,        \* the locals of every request
    directory,  \* what the external directory says of each managed principal
    listings,   \* how often the directory changed, up to MaxListings
    \* History, read by no action's guard:
    revoked,    \* principals an administrator disabled and none enabled since
    barred,     \* per request, the principals revoked ever since it began
    cause,      \* principals an administrator or the directory ever ruled out
    vouched     \* principals an operator provisioned or an administrator let in

history == <<revoked, barred, cause, vouched>>
external == <<directory, listings>>
vars == <<store, req, external, history>>

Operation == {"identity", "create", "login", "team", "switch",
              "disable", "enable", "approve", "reject"}
AdminOps == {"disable", "enable", "approve", "reject"}
Event == {"logout", "expiry", "directory", "tenant"}
Listing == {"member", "blocked", "absent"}

ASSUME IdentityAssumption ==
    /\ Ops \subseteq Operation
    /\ Events \subseteq Event
    /\ MaxListings \in Nat
    /\ Admins \subseteq Principals
    /\ RefreshOnSession \in BOOLEAN
    /\ StoreMayFail \in BOOLEAN
    /\ RegistrationPolicy \in {"open", "approval_required", "closed"}
    /\ None \notin Operation \cup Session \cup SessionIds
    /\ None \notin Principals \cup Users \cup Tenants

Finished == {"ok", "denied"}
Point == Finished \cup
    {"idle", "session", "drop", "tenant", "principal",             \* ValidateSession
     "fetch", "pick", "readTenant", "writeTenant", "readPrincipal", "writePrincipal",
     "purgeSynced", "synced", "revoke", "purgeRevoked",            \* directory sync
     "admitted", "list", "move",                                   \* SwitchTenant
     "createPrincipal", "createTenant", "put",                     \* CreateSession
     "checkPending", "setStatus", "purge"}                         \* principal admin

Request ==
    [pc   : Point,
     op   : Operation \cup {None},
     arg  : Users \cup Tenants \cup Principals \cup {None},  \* the call's argument
     sid  : SessionIds \cup {None},         \* the session presented or created
     held : Session \cup {None},            \* the session row as it was read
     who  : Principals \cup {None},         \* the principal the caller acts as
     seen : Status,                         \* who's status in the record at hand
     snap : [Managed -> Listing],           \* what the directory answered
     todo : SUBSET Managed,                 \* snapshots still to be projected
     cur  : Principals \cup {None},         \* the principal being written
     draft : Status]                        \* the status about to be written

Idle == [pc |-> "idle", op |-> None, arg |-> None, sid |-> None, held |-> None,
         who |-> None, seen |-> "none", snap |-> [p \in Managed |-> "absent"],
         todo |-> {}, cur |-> None, draft |-> "none"]

TypeOK ==
    /\ StoreTypeOK
    /\ req \in [Requests -> Request]
    /\ directory \in [Managed -> Listing]
    /\ listings \in 0..MaxListings
    /\ revoked \subseteq Principals
    /\ barred \in [Requests -> SUBSET Principals]
    /\ cause \subseteq Principals
    /\ vouched \subseteq Principals

Init ==
    /\ StoreInit
    /\ req = [r \in Requests |-> Idle]
    /\ directory = [p \in Managed |-> "member"]
    /\ listings = 0
    /\ revoked = {}
    /\ barred = [r \in Requests |-> {}]
    /\ cause = {}
    /\ vouched = Provisioned

----------------------------------------------------------------------------
(* Moving a request.                                                       *)

At(r, point) == req[r].pc = point

Become(r, locals) == req' = [req EXCEPT ![r] = locals]

Goto(r, point) == Become(r, [req[r] EXCEPT !.pc = point])

\* A call returned: its locals are gone, an admitted caller got its principal.
Outcome(result, who, snap) == [Idle EXCEPT !.pc = result, !.who = who, !.snap = snap]

Deny(r) ==
    /\ Become(r, Outcome("denied", None, Idle.snap))
    /\ UNCHANGED <<store, external, history>>

Succeed(r) == Become(r, Outcome("ok", req[r].who, req[r].snap))

\* Faulty variants: disabled, or pending, accounts are not refused.
AdmitsUnlessPending(st) == st # "pending"
AdmitsUnlessDisabled(st) == st # "disabled"

\* The service's own verdict on a principal record: disabled and pending are
\* refused, whatever else the record says passes.
Admits(st) == st \notin {"disabled", "pending"}

\* The end of ValidateSession, for a request whose record at hand is locals.seen.
Judge(r, locals) ==
    Become(r, IF ~Admits(locals.seen) THEN Outcome("denied", None, Idle.snap)
              ELSE IF locals.op = "identity" THEN Outcome("ok", locals.who, locals.snap)
              ELSE [locals EXCEPT !.pc = "admitted"])

----------------------------------------------------------------------------
(* A call begins.                                                          *)

Begin(r, op, sid, arg, point) ==
    /\ op \in Ops
    /\ At(r, "idle")
    /\ Become(r, [Idle EXCEPT !.pc = point, !.op = op, !.sid = sid, !.arg = arg])
    /\ barred' = [barred EXCEPT ![r] = revoked]
    /\ UNCHANGED <<store, external, revoked, cause, vouched>>

StartIdentity(r) == \E s \in SessionIds : Begin(r, "identity", s, None, "session")
StartSwitchTeam(r) == \E s \in SessionIds : Begin(r, "team", s, None, "session")
StartSwitchTenant(r) ==
    \E s \in SessionIds, t \in Tenants : Begin(r, "switch", s, t, "session")
StartAdmin(r) ==
    \E s \in SessionIds, p \in Principals, op \in AdminOps : Begin(r, op, s, p, "session")
\* CreateSession called by a trusted host, and the end of an OIDC callback
\* once the token set named the subject.
StartCreate(r) == \E p \in Principals : Begin(r, "create", None, p, "createPrincipal")
StartLogin(r) == \E u \in Users : Begin(r, "login", None, u, "fetch")

Start(r) ==
    \/ StartIdentity(r)
    \/ StartSwitchTeam(r)
    \/ StartSwitchTenant(r)
    \/ StartAdmin(r)
    \/ StartCreate(r)
    \/ StartLogin(r)

----------------------------------------------------------------------------
(* ValidateSession.                                                        *)

ReadSession(r) ==
    /\ At(r, "session")
    /\ LET s == req[r].sid IN
       \/ ~Stored(s) /\ Deny(r)
       \/ /\ Stored(s)
          /\ Become(r, [req[r] EXCEPT !.held = session[s],
                             !.pc = IF session[s].expired THEN "drop" ELSE "tenant"])
          /\ UNCHANGED <<store, external, history>>

DropExpired(r) ==
    /\ At(r, "drop")
    /\ DeleteSession(req[r].sid)
    /\ Become(r, Outcome("denied", None, Idle.snap))
    /\ UNCHANGED <<tenantStatus, status, external, history>>

ReadTenant(r) ==
    /\ At(r, "tenant")
    /\ \/ tenantStatus[req[r].held.tenant] # "active" /\ Deny(r)
       \/ /\ tenantStatus[req[r].held.tenant] = "active"
          /\ Goto(r, "principal")
          /\ UNCHANGED <<store, external, history>>

\* A principal that the directory owns is refreshed before it is judged.
ReadPrincipal(r) ==
    /\ At(r, "principal")
    /\ LET p == req[r].held.principal
           loaded == [req[r] EXCEPT !.who = p, !.seen = status[p]] IN
       \/ /\ status[p] = "none" \/ TenantOf(p) # req[r].held.tenant
          /\ Deny(r)
       \/ /\ status[p] # "none" /\ TenantOf(p) = req[r].held.tenant
          /\ IF RefreshOnSession /\ p \in Managed
             THEN Become(r, [loaded EXCEPT !.pc = "fetch"])
             ELSE Judge(r, loaded)
          /\ UNCHANGED <<store, external, history>>

----------------------------------------------------------------------------
(* SyncDirectoryUser, the directory read and one snapshot at a time.  The  *)
(* order of the snapshots is that of the configured mappings: any order.   *)

Subject(r) == IF req[r].op = "login" THEN req[r].arg ELSE UserOf(req[r].who)

Fetch(r) ==
    /\ At(r, "fetch")
    /\ LET found == {p \in Managed : UserOf(p) = Subject(r) /\ directory[p] # "absent"} IN
       Become(r, [req[r] EXCEPT !.pc = "pick", !.todo = found,
                      !.snap = [p \in Managed |-> IF p \in found THEN directory[p] ELSE "absent"]])
    /\ UNCHANGED <<store, external, history>>

\* Faulty variant: an unreachable directory reads as "no membership".
FetchFailsAsAbsent(r) ==
    /\ At(r, "fetch")
    /\ Goto(r, "synced")
    /\ UNCHANGED <<store, external, history>>

\* Any transport error or malformed answer is ErrDirectoryUnavailable.
FetchFails(r) == At(r, "fetch") /\ Deny(r)

PickSnapshot(r) ==
    /\ At(r, "pick")
    /\ \/ \E p \in req[r].todo :
             Become(r, [req[r] EXCEPT !.pc = "readTenant", !.cur = p, !.todo = @ \ {p}])
       \/ req[r].todo = {} /\ Goto(r, "synced")
    /\ UNCHANGED <<store, external, history>>

SyncReadTenant(r) ==
    /\ At(r, "readTenant")
    /\ LET old == tenantStatus[TenantOf(req[r].cur)] IN
       Become(r, [req[r] EXCEPT !.pc = "writeTenant",
                      !.draft = IF old = "disabled" THEN "disabled" ELSE "active"])
    /\ UNCHANGED <<store, external, history>>

SyncWriteTenant(r) ==
    /\ At(r, "writeTenant")
    /\ UpsertTenant(TenantOf(req[r].cur), req[r].draft)
    /\ Goto(r, "readPrincipal")
    /\ UNCHANGED <<status, session, external, history>>

\* Faulty variant: the directory's own blocking is not looked at.
ProjectedStatusIgnoringBlocked(listing, old) ==
    IF old # "none" THEN old
    ELSE IF RegistrationPolicy = "open" THEN "active" ELSE "pending"

\* The status the projection will carry: the stored one, unless the directory
\* blocks the user or the principal is new.
ProjectedStatus(listing, old) ==
    IF listing = "blocked" THEN "disabled"
    ELSE IF old # "none" THEN old
    ELSE IF RegistrationPolicy = "open" THEN "active" ELSE "pending"

SyncReadPrincipal(r) ==
    /\ At(r, "readPrincipal")
    /\ LET p == req[r].cur IN
       Become(r, [req[r] EXCEPT !.pc = "writePrincipal",
                      !.draft = ProjectedStatus(req[r].snap[p], status[p])])
    /\ UNCHANGED <<store, external, history>>

\* The next snapshot; the caller keeps the record of its own principal.
Projected(r) ==
    Become(r, [req[r] EXCEPT !.pc = "pick", !.cur = None, !.draft = "none",
                   !.seen = IF req[r].cur = req[r].who THEN req[r].draft ELSE @])

\* The whole row is written, with the status that was read a step ago.
SyncWritePrincipal(r) ==
    /\ At(r, "writePrincipal")
    /\ UpsertPrincipal(req[r].cur, req[r].draft)
    /\ IF req[r].draft = "disabled" THEN Goto(r, "purgeSynced") ELSE Projected(r)
    /\ UNCHANGED <<tenantStatus, session, external, history>>

SyncPurge(r) ==
    /\ At(r, "purgeSynced")
    /\ DeleteSessionsByPrincipal(req[r].cur)
    /\ Projected(r)
    /\ UNCHANGED <<tenantStatus, status, external, history>>

\* All snapshots are projected.  A login goes on with one of them; a refresh
\* judges the refreshed record, or revokes a principal no snapshot named.
Synced(r) ==
    /\ At(r, "synced")
    /\ LET listed == {p \in Managed : req[r].snap[p] # "absent"} IN
       IF req[r].op = "login"
       THEN \/ \E p \in listed : Become(r, [req[r] EXCEPT !.pc = "createPrincipal", !.arg = p])
            \/ listed = {} /\ Become(r, Outcome("denied", None, Idle.snap))
       ELSE IF req[r].who \in listed THEN Judge(r, req[r]) ELSE Goto(r, "revoke")
    /\ UNCHANGED <<store, external, history>>

RevokePrincipal(r) ==
    /\ At(r, "revoke")
    /\ UpdatePrincipalStatus(req[r].who, "disabled")
    /\ Goto(r, "purgeRevoked")
    /\ UNCHANGED <<tenantStatus, session, external, history>>

PurgeRevoked(r) ==
    /\ At(r, "purgeRevoked")
    /\ DeleteSessionsByPrincipal(req[r].who)
    /\ Become(r, Outcome("denied", None, Idle.snap))
    /\ UNCHANGED <<tenantStatus, status, external, history>>

----------------------------------------------------------------------------
(* SwitchTeam and SwitchTenant.  Both end by answering with the identity   *)
(* context of the session, which validates the session once more.          *)

ChooseTeam(r) ==
    /\ At(r, "admitted") /\ req[r].op = "team"
    /\ Become(r, [req[r] EXCEPT !.pc = "move", !.cur = req[r].who])
    /\ UNCHANGED <<store, external, history>>

ChooseTenant(r) ==
    /\ At(r, "admitted") /\ req[r].op = "switch"
    /\ \/ /\ req[r].arg = req[r].held.tenant
          /\ Become(r, [req[r] EXCEPT !.pc = "move", !.cur = req[r].who])
          /\ UNCHANGED <<store, external, history>>
       \/ /\ req[r].arg # req[r].held.tenant
          /\ req[r].who \in Managed
          /\ Goto(r, "list")
          /\ UNCHANGED <<store, external, history>>
       \/ /\ req[r].arg # req[r].held.tenant
          /\ req[r].who \notin Managed
          /\ Deny(r)

\* The caller's projection in the target tenant, pending ones included.
Candidates(r) ==
    {p \in PrincipalsByCasdoorUser(UserOf(req[r].who)) :
        TenantOf(p) = req[r].arg /\ status[p] # "disabled"}

ListPrincipals(r) ==
    /\ At(r, "list")
    /\ \/ \E p \in Candidates(r) :
             /\ Become(r, [req[r] EXCEPT !.pc = "move", !.cur = p])
             /\ UNCHANGED <<store, external, history>>
       \/ Candidates(r) = {} /\ Deny(r)

\* The session row may have gone since it was validated.
MoveSession(r) ==
    /\ At(r, "move")
    /\ LET s == req[r].sid
           tenant == IF req[r].op = "team" THEN req[r].held.tenant ELSE TenantOf(req[r].cur) IN
       \/ /\ UpdateSessionContext(s, req[r].cur, tenant)
          /\ Become(r, [Idle EXCEPT !.pc = "session", !.op = "identity", !.sid = s])
          /\ UNCHANGED <<tenantStatus, status, external, history>>
       \/ ~Stored(s) /\ Deny(r)

----------------------------------------------------------------------------
(* CreateSession.                                                          *)

CreateReadPrincipal(r) ==
    /\ At(r, "createPrincipal")
    /\ LET p == req[r].arg IN
       \/ status[p] = "none" /\ Deny(r)
       \/ /\ status[p] # "none"
          /\ Become(r, [Idle EXCEPT !.pc = "createTenant", !.op = req[r].op,
                             !.who = p, !.seen = status[p]])
          /\ UNCHANGED <<store, external, history>>

\* Both verdicts fall after the tenant was read.
CreateReadTenant(r) ==
    /\ At(r, "createTenant")
    /\ LET allowed == tenantStatus[TenantOf(req[r].who)] = "active" /\ Admits(req[r].seen) IN
       \/ ~allowed /\ Deny(r)
       \/ allowed /\ Goto(r, "put") /\ UNCHANGED <<store, external, history>>

\* A login goes on to the identity context of its new session.
CreateSession(r) ==
    /\ At(r, "put")
    /\ \E s \in SessionIds :
          /\ session[s] = Unissued
          /\ PutSession(s, req[r].who, TenantOf(req[r].who))
          /\ IF req[r].op = "login"
             THEN Become(r, [Idle EXCEPT !.pc = "session", !.op = "identity", !.sid = s])
             ELSE Become(r, Outcome("ok", None, Idle.snap))
    /\ UNCHANGED <<tenantStatus, status, external, history>>

----------------------------------------------------------------------------
(* DisablePrincipal, EnablePrincipal, ApprovePrincipal, RejectPrincipal.   *)

AuthorizeAdmin(r) ==
    /\ At(r, "admitted") /\ req[r].op \in AdminOps
    /\ \/ req[r].who \notin Admins /\ Deny(r)
       \/ /\ req[r].who \in Admins
          /\ Goto(r, IF req[r].op \in {"approve", "reject"} THEN "checkPending" ELSE "setStatus")
          /\ UNCHANGED <<store, external, history>>

CheckPending(r) ==
    /\ At(r, "checkPending")
    /\ \/ status[req[r].arg] # "pending" /\ Deny(r)
       \/ /\ status[req[r].arg] = "pending"
          /\ Goto(r, "setStatus")
          /\ UNCHANGED <<store, external, history>>

EnableStatus(r) ==
    /\ At(r, "setStatus") /\ req[r].op \in {"enable", "approve"}
    /\ LET p == req[r].arg IN
       /\ UpdatePrincipalStatus(p, "active")
       /\ revoked' = revoked \ {p}
       /\ barred' = [q \in Requests |-> barred[q] \ {p}]
       /\ vouched' = vouched \cup {p}
    /\ Succeed(r)
    /\ UNCHANGED <<tenantStatus, session, external, cause>>

DisableStatus(r) ==
    /\ At(r, "setStatus") /\ req[r].op \in {"disable", "reject"}
    /\ LET p == req[r].arg IN
       /\ UpdatePrincipalStatus(p, "disabled")
       /\ revoked' = revoked \cup {p}
       /\ cause' = cause \cup {p}
    /\ Goto(r, "purge")
    /\ UNCHANGED <<tenantStatus, session, external, barred, vouched>>

UnknownPrincipal(r) ==
    /\ At(r, "setStatus")
    /\ status[req[r].arg] = "none"
    /\ Deny(r)

PurgeSessions(r) ==
    /\ At(r, "purge")
    /\ DeleteSessionsByPrincipal(req[r].arg)
    /\ Succeed(r)
    /\ UNCHANGED <<tenantStatus, status, external, history>>

----------------------------------------------------------------------------
(* Around the requests.                                                    *)

\* A store call fails, the caller hangs up or the process stops: the request
\* ends where it is and what it already wrote stays written.
Abort(r) ==
    /\ StoreMayFail
    /\ req[r].pc \notin Finished \cup {"idle"}
    /\ Deny(r)

Logout(s) ==
    /\ "logout" \in Events /\ Stored(s)
    /\ DeleteSession(s)
    /\ UNCHANGED <<tenantStatus, status, req, external, history>>

\* The session's ExpiresAt passes.
Expire(s) ==
    /\ "expiry" \in Events /\ Stored(s) /\ ~session[s].expired
    /\ session' = [session EXCEPT ![s].expired = TRUE]
    /\ UNCHANGED <<tenantStatus, status, req, external, history>>

\* The external directory: a user joins, is blocked, leaves.
DirectoryChanges(p) ==
    /\ "directory" \in Events /\ listings < MaxListings
    /\ listings' = listings + 1
    /\ \E listing \in Listing \ {directory[p]} :
          /\ directory' = [directory EXCEPT ![p] = listing]
          /\ cause' = IF listing = "member" THEN cause ELSE cause \cup {p}
    /\ UNCHANGED <<store, req, revoked, barred, vouched>>

\* An operator of the host program disables a tenant in the store.
HostDisablesTenant(t) ==
    /\ "tenant" \in Events /\ tenantStatus[t] = "active"
    /\ UpsertTenant(t, "disabled")
    /\ UNCHANGED <<status, session, req, external, history>>

Validation(r) ==
    ReadSession(r) \/ DropExpired(r) \/ ReadTenant(r) \/ ReadPrincipal(r)

DirectorySync(r) ==
    \/ Fetch(r) \/ FetchFails(r) \/ PickSnapshot(r)
    \/ SyncReadTenant(r) \/ SyncWriteTenant(r)
    \/ SyncReadPrincipal(r) \/ SyncWritePrincipal(r) \/ SyncPurge(r)
    \/ Synced(r) \/ RevokePrincipal(r) \/ PurgeRevoked(r)

Switching(r) ==
    ChooseTeam(r) \/ ChooseTenant(r) \/ ListPrincipals(r) \/ MoveSession(r)

Creation(r) == CreateReadPrincipal(r) \/ CreateReadTenant(r) \/ CreateSession(r)

Administration(r) ==
    \/ AuthorizeAdmin(r) \/ CheckPending(r)
    \/ EnableStatus(r) \/ DisableStatus(r) \/ UnknownPrincipal(r) \/ PurgeSessions(r)

Serve(r) ==
    Validation(r) \/ DirectorySync(r) \/ Switching(r) \/ Creation(r) \/ Administration(r)

Environment ==
    \/ \E s \in SessionIds : Logout(s) \/ Expire(s)
    \/ \E p \in Managed : DirectoryChanges(p)
    \/ \E t \in Tenants : HostDisablesTenant(t)

Next ==
    \/ \E r \in Requests : Start(r) \/ Serve(r) \/ Abort(r)
    \/ Environment

Spec == Init /\ [][Next]_vars

----------------------------------------------------------------------------
(* Properties.                                                             *)

\* A stored session names a principal that exists and the tenant that
\* principal belongs to, whatever CreateSession, SwitchTenant, SwitchTeam and
\* the directory sync did in whatever order (service.go:502, 636, 651).
SessionMatchesPrincipal ==
    \A s \in SessionIds : Stored(s) =>
        /\ session[s].tenant = TenantOf(session[s].principal)
        /\ status[session[s].principal] # "none"

\* A session ID is issued once, never leaves its user and never comes back
\* after logout, expiry or revocation, also when a switch of the same session
\* was under way: the whole service implements SessionLedger.
Ledger == INSTANCE SessionLedger WITH
    owner <- [s \in SessionIds |-> IF Stored(s) THEN session[s].principal ELSE session[s]]
ImplementsLedger == Ledger!Spec

\* No call that began after an administrator disabled a principal is answered
\* as that principal, as long as no administrator enables it again
\* (DisablePrincipal and RejectPrincipal against ValidateSession).
RevocationHolds ==
    \A r \in Requests : At(r, "ok") => req[r].who \notin barred[r]

\* A principal is disabled only if an administrator or the directory ruled it
\* out at some time: an outage of the directory never disables anyone.
DisabledForCause ==
    \A p \in Principals : status[p] = "disabled" => p \in cause

\* A session is removed only by logout, at its expiry, or because its principal
\* was ruled out; transient directory failures deny the call and leave it.
SessionsEndForCause ==
    [][\A s \in SessionIds : Stored(s) /\ ~Stored(s)' =>
          \/ session[s].expired
          \/ session[s].principal \in cause
          \/ Logout(s)]_vars

\* With DirectoryRefreshOnSession a call is answered as a directory-owned
\* principal only if the directory, asked during that very call, listed it as
\* a member that is not blocked.
AdmittedWasListed ==
    \A r \in Requests :
        At(r, "ok") /\ RefreshOnSession /\ req[r].who \in Managed
            => req[r].snap[req[r].who] = "member"

\* Unless registration is open, a call is answered as a principal only if an
\* operator stored it or an administrator ever approved or enabled it, also
\* after a switch into a tenant where the caller's projection is pending.
AdmittedWasVouched ==
    \A r \in Requests :
        At(r, "ok") /\ RegistrationPolicy # "open" /\ req[r].who # None
            => req[r].who \in vouched

\* "Manual Warden disabled states are retained" (docs/oidc-directory.md:63):
\* only an administrator's call takes a principal out of disabled.
ManualDisableRetained ==
    [][\A p \in Principals : status[p] = "disabled" /\ status'[p] # "disabled" =>
          \E r \in Requests : EnableStatus(r)]_vars

\* The same of a tenant: nothing in the service enables a disabled tenant.
TenantDisableRetained ==
    [][\A t \in Tenants : tenantStatus[t] = "disabled" => tenantStatus'[t] = "disabled"]_vars

\* Approval is for pending principals: approve turns no other status active.
ApprovalOnlyFromPending ==
    [][\A r \in Requests : req[r].op = "approve" /\ EnableStatus(r) =>
          status[req[r].arg] = "pending"]_vars

\* Disabling a principal revokes its sessions: once no disable or reject call
\* is still clearing them, a revoked principal has none.
DisableRevokesSessions ==
    \A p \in revoked :
        SessionsOf(p) # {} => \E r \in Requests : At(r, "purge") /\ req[r].arg = p

=============================================================================
