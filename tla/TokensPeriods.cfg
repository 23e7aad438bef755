\* Three months of eight ticks, with clocks one tick off.
CONSTANTS
    Hubs = {h1, h2}
    Requests = {r1, r2}
    TTL = 3
    TTLs = {2, 3, 12}
    Skew = 1
    Month = 8
    Horizon = 31
\* The time ends at the bound.
SPECIFICATION Spec
INVARIANTS AcceptedWhileValid OldKeyRetires
CHECK_DEADLOCK FALSE
