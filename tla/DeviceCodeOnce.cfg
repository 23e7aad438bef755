\* Two exchanges of one approved device code.
CONSTANTS
    Users = {alice}
    RoleSets = {viewer}
    Managers = {}
    AccountRoles = viewer
    Policies <- Generous
    Created = {}
    Projected = {}
    KeyIds = {k1, k2}
    Codes = {c1}
    Scopes = {read}
    Requests = {r1, r2, r3}
    Ops = {"approve", "exchange"}
    Events = {}
    MaxEvents = 0
    StoreMayFail = FALSE
    Unissued = Unissued
    None = None
SPECIFICATION Spec
INVARIANT DeviceCodeIssuesTokenOnce
SYMMETRY Symmetry
CHECK_DEADLOCK FALSE
