SPECIFICATION FairSpec
CONSTANTS
    r1 = r1
    r2 = r2
    k1 = k1
    k2 = k2
    s1 = s1
    s2 = s2
    earlier = earlier
    Requests <- MCRequests
    Keys <- MCKeys
    Slots <- MCSlots
    Similar <- MCSimilar
    Earlier = earlier
    MaxEntries = 1
    MaxStops = 1
    Scenarios <- MCScenarios
INVARIANTS
    CacheSound
    HitsMatchThePrompt
    InputsRemoved
    CompletedIsStored
    GaugeNeverOvercounts
PROPERTIES
    InputsOutliveWait
    RequestsEnd
CHECK_DEADLOCK FALSE
