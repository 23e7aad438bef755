\* Two callers' tokens, delegations and inspections while roles and policy are
\* replaced.
CONSTANTS
    u1 = u1
    u2 = u2
    t1 = t1
    t2 = t2
    Users = {u1, u2}
    TenantOf <- MCTenantOf
    RoleSets <- MCRoleSets
    Config <- MCConfig
    Asks <- MCAsks
    RunIds = {i1, i2, i3}
    Named = {i1}
    Requests = {r1, r2}
    Ops = {"sign", "delegate", "inspect", "record"}
    MaxChanges = 1
    StoreMayFail = TRUE
    None = None
SPECIFICATION Spec
INVARIANTS TokenWithinActor AgentsHaveRuns AgentTraceable QuietAnswersMatch
SYMMETRY Symmetry
CHECK_DEADLOCK FALSE
