\* API keys and service accounts created, used, revoked and disabled, clients
\* projecting theirs, or device codes approved and exchanged, while statuses
\* change; keys made and used while directory syncs change roles and the host
\* loads policies.
CONSTANTS
    Users = {alice}
    RoleSets = {admin, viewer}
    Managers = {admin}
    AccountRoles = admin
    Policies <- AnyPolicy
    Created = {svc1}
    Projected = {client1}
    KeyIds = {k1}
    Codes = {c1, c2}
    Scopes = {read}
    Requests = {r1, r2, r3}
    Ops = {"createKey", "useKey", "validateKey", "revokeKey", "createAccount", "disableAccount", "client", "approve", "exchange"}
    Events = {"expiry", "status", "tenant", "roles", "policy"}
    MaxEvents = 3
    StoreMayFail = TRUE
    Unissued = Unissued
    None = None
SPECIFICATION Spec
INVARIANTS DisabledAccountStaysOff ServiceKeysHaveAccounts RevokedKeyRefused DeviceKeyWasApproved SignedWithinRoles KeysWithinGrant
CONSTRAINT Together
SYMMETRY Symmetry
CHECK_DEADLOCK FALSE
