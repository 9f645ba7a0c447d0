SPECIFICATION MCSpec
CONSTANTS
    a1 = a1
    a2 = a2
    j1 = j1
    j2 = j2
    j3 = j3
    j4 = j4
    runner = runner
    benchmark = benchmark
    Scenes <- OneScene
    Clients <- MCClients
    Attempts <- MCAttempts
    Patient = {benchmark}
    StudioAccount = a2
    StudioJobs = {j3}
    NoJob = NoJob
    MaxFeeds = 2
    Accounts <- MCAccounts
    Jobs <- MCJobs
    Owner <- MCOwner
    Limit <- MCLimit
    PoolSize = 1
    MaxFaults = 0
    MaxCrashes = 1
PROPERTIES
    RowsSettle
CHECK_DEADLOCK FALSE
