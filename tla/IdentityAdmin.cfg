\* Administrators against calls of local principals.
CONSTANTS
    alice = alice  bob = bob  t1 = t1  t2 = t2
    s1 = s1  s2 = s2  s3 = s3  r1 = r1  r2 = r2  r3 = r3
    Users = {alice, bob}
    Tenants = {t1}
    Principals <- OneTenant
    Managed <- NoPrincipals
    Provisioned <- OneTenant
    Admins <- Administrators
    SessionIds = {s1, s2}
    Requests = {r1, r2, r3}
    Ops = {"identity", "disable", "enable"}
    Events = {"logout", "expiry", "tenant"}
    MaxListings = 0
    RefreshOnSession = FALSE
    RegistrationPolicy = "open"
    StoreMayFail = TRUE
    None = None
    Unissued = Unissued
    Deleted = Deleted
SPECIFICATION Spec
INVARIANT RevocationHolds
SYMMETRY Symmetry
CHECK_DEADLOCK FALSE
