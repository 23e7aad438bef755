SPECIFICATION ManagerSpec
CONSTANTS
    Callers = {a, b, c}
    MaxStarts = 3
INVARIANTS NoOrphan StartedIsBootstrapped
PROPERTY StartReturns
CHECK_DEADLOCK FALSE
