---------------------------- MODULE WardenStore ----------------------------
(***************************************************************************)
(* The identity tables of Warden's Store (warden/types.go) and the store   *)
(* calls that read or change them, each one atomic: MemoryStore holds its  *)
(* mutex for the call, GORMStore runs one statement or one transaction.    *)
(*                                                                         *)
(* A principal is one projection of an external user into one tenant; its  *)
(* ID is StableProjectionID(tenant, user), so the pair itself stands for   *)
(* the ID.  Profile data (names, mail, roles, teams) is left out.          *)
(***************************************************************************)
EXTENDS Naturals

CONSTANTS
    Users,          \* external user identities
    Tenants,        \* Warden tenants
    Principals,     \* the projections that may exist, a subset of Users \X Tenants
    Managed,        \* those with a CasdoorUserID, which the directory owns
    Provisioned,    \* those an operator stored, active, before the run
    SessionIds,     \* the random session IDs the service may draw
    Unissued,       \* marks a session ID that was never drawn
    Deleted         \* marks a session ID whose row was removed

VARIABLES
    tenantStatus,   \* the tenants table
    status,         \* the status column of the principals table
    session         \* the sessions table

store == <<tenantStatus, status, session>>

UserOf(p) == p[1]
TenantOf(p) == p[2]

TenantStatus == {"none", "active", "disabled"}
Status == {"none", "pending", "active", "disabled"}
Session == [principal : Principals, tenant : Tenants, expired : BOOLEAN]

ASSUME PrincipalsAssumption ==
    /\ Principals \subseteq Users \X Tenants
    /\ Managed \subseteq Principals
    /\ Provisioned \subseteq Principals

ASSUME MarkersAssumption ==
    /\ Unissued \notin Session \cup Principals
    /\ Deleted \notin Session \cup Principals
    /\ Unissued # Deleted

StoreTypeOK ==
    /\ tenantStatus \in [Tenants -> TenantStatus]
    /\ status \in [Principals -> Status]
    /\ session \in [SessionIds -> Session \cup {Unissued, Deleted}]

\* GetSession finds a row exactly for these IDs.
Stored(s) == session[s] \notin {Unissued, Deleted}

\* The tables before any request: operators provision tenants and local
\* principals, earlier logins may have left sessions of such principals.
StoreInit ==
    /\ tenantStatus = [t \in Tenants |->
           IF \E p \in Provisioned : TenantOf(p) = t THEN "active" ELSE "none"]
    /\ status = [p \in Principals |-> IF p \in Provisioned THEN "active" ELSE "none"]
    /\ session \in [SessionIds -> {Unissued} \cup
           {[principal |-> p, tenant |-> TenantOf(p), expired |-> FALSE] : p \in Provisioned}]

----------------------------------------------------------------------------
(* Writes.  Each operator constrains the primed tables it names only.      *)

UpsertTenant(t, st) == tenantStatus' = [tenantStatus EXCEPT ![t] = st]

UpsertPrincipal(p, st) == status' = [status EXCEPT ![p] = st]

\* ErrNotFound when there is no row; callers carry the guard.
UpdatePrincipalStatus(p, st) ==
    /\ status[p] # "none"
    /\ status' = [status EXCEPT ![p] = st]

PutSession(s, p, t) ==
    session' = [session EXCEPT ![s] = [principal |-> p, tenant |-> t, expired |-> FALSE]]

\* Faulty variants: a context update that moves the principal only, and one
\* that writes the whole row back whether or not it is still there.
UpdateSessionPrincipalOnly(s, p, t) ==
    /\ Stored(s)
    /\ session' = [session EXCEPT ![s].principal = p]

UpsertSessionContext(s, p, t) ==
    session' = [session EXCEPT ![s] = [principal |-> p, tenant |-> t, expired |-> FALSE]]

\* An update in place: a deleted row is not found and is never written back.
UpdateSessionContext(s, p, t) ==
    /\ Stored(s)
    /\ session' = [session EXCEPT ![s] =
           [principal |-> p, tenant |-> t, expired |-> session[s].expired]]

DeleteSession(s) ==
    session' = [session EXCEPT ![s] = IF Stored(s) THEN Deleted ELSE session[s]]

\* Faulty variant: selects by the external user instead of the projection.
SessionsOfUser(p) ==
    {s \in SessionIds : Stored(s) /\ UserOf(session[s].principal) = UserOf(p)}

SessionsOf(p) == {s \in SessionIds : Stored(s) /\ session[s].principal = p}

DeleteSessionsByPrincipal(p) ==
    session' = [s \in SessionIds |-> IF s \in SessionsOf(p) THEN Deleted ELSE session[s]]

\* ListPrincipalsByCasdoorUser: the rows that carry this CasdoorUserID.
PrincipalsByCasdoorUser(u) == {p \in Managed : UserOf(p) = u /\ status[p] # "none"}

=============================================================================
