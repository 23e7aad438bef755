\* Sign-in by approval, validation with refresh, switching and administration of a
\* directory user who administers the first tenant.
CONSTANTS
    alice = alice  bob = bob  t1 = t1  t2 = t2
    s1 = s1  s2 = s2  s3 = s3  r1 = r1  r2 = r2  r3 = r3
    Users = {alice}
    Tenants = {t1, t2}
    Principals <- AliceEverywhere
    Managed <- AliceEverywhere
    Provisioned <- AliceHere
    Admins <- AliceHere
    SessionIds = {s1}
    Requests = {r1, r2}
    Ops = {"identity", "login", "create", "team", "switch", "approve", "enable"}
    Events = {"logout", "expiry", "directory"}
    MaxListings = 1
    RefreshOnSession = TRUE
    RegistrationPolicy = "approval_required"
    StoreMayFail = TRUE
    None = None
    Unissued = Unissued
    Deleted = Deleted
SPECIFICATION Spec
INVARIANTS SessionMatchesPrincipal DisabledForCause AdmittedWasListed AdmittedWasVouched
PROPERTIES ImplementsLedger SessionsEndForCause
SYMMETRY Symmetry
CHECK_DEADLOCK FALSE
