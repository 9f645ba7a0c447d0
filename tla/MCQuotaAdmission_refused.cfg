SPECIFICATION SceneSpec
CONSTANTS
    q1 = q1
    q2 = q2
    a1 = a1
    a2 = a2
    g1 = g1
    g2 = g2
    b1 = b1
    c1 = c1
    c2 = c2
    c3 = c3
    f1 = f1
    f2 = f2
    f3 = f3
    f4 = f4
    Requests = {q1, q2}
    Apis = {a1}
    Gateways = {g1}
    GatewayOf <- OneGateway
    TokenSizes = {2}
    Limit <- SmallLimit
    Servers = {g1}
    Batches = {}
    BatchSize <- NoBatch
    Checks = {}
    ServerOf <- NoCheck
    Allowance = 2
    MaxStops = 0
    Keepers <- NoKeeper
    Forwards = {}
    RateKey <- NoForward
    Guarded = {}
    RateLimit = 1
    LastMinute = 0
INVARIANTS
    CompletedWasAllowed
CHECK_DEADLOCK FALSE
