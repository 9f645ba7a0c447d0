SPECIFICATION FairSpec
CONSTANTS
    r1 = r1
    r2 = r2
    m1 = m1
    N = 2
    Requests <- TwoRequests
    Monitors <- OneMonitor
INVARIANTS
    LoadsAndClaimsAgree
    RotationIsFair
PROPERTIES
    RequestsAnswered
CHECK_DEADLOCK FALSE
