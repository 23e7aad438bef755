\* Two users who sign in, one of them removed, and a reconciler that is stopped
\* and started again while a pass goes on.
CONSTANTS
    Subjects = {u1, u2}
    Loops = {l1, l2}
    SignIns = {w1}
    MaxSignIns = 2
    MaxChanges = 1
    MaxFailures = 1
    None = None
SPECIFICATION Spec
INVARIANT StrayLoopsCanceled
PROPERTIES RemovalIsReconciled PassesOnlyRefresh
CHECK_DEADLOCK FALSE
