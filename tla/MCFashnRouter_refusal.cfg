SPECIFICATION Spec
CONSTANTS
    r1 = r1
    r2 = r2
    m1 = m1
    N = 1
    Requests <- TwoRequests
    Monitors <- OneMonitor
INVARIANTS
    RefusedOnlyWhenNoneReady
CHECK_DEADLOCK FALSE
