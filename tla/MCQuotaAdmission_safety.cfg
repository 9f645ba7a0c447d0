SPECIFICATION SceneSpec
CONSTANTS
    q1 = q1
    q2 = q2
    a1 = a1
    a2 = a2
    g1 = g1
    g2 = g2
    b1 = b1
    c1 = c1
    c2 = c2
    c3 = c3
    f1 = f1
    f2 = f2
    f3 = f3
    f4 = f4
    Requests = {q1, q2}
    Apis = {a1, a2}
    Gateways = {g1, g2}
    GatewayOf <- EachItsGateway
    TokenSizes = {2}
    Limit <- SmallLimit
    Servers = {g1, g2}
    Batches = {b1}
    BatchSize <- RunOfTwo
    Checks = {c1, c2, c3}
    ServerOf <- TwoThenOne
    Allowance = 2
    MaxStops = 2
    Keepers <- MCKeepers
    Forwards = {f1, f2, f3, f4}
    RateKey <- TwoTenants
    Guarded = {f1}
    RateLimit = 1
    LastMinute = 1
INVARIANTS
    NoOversell
    UsedIsCharged
    FailsClosed
    MirrorNeverAhead
    PromisedWithinLimit
    LedgerStaysReadable
    MirrorCountsAnswers
    EdgeLedgersAgree
PROPERTIES
    ChecksEnd
CHECK_DEADLOCK FALSE
