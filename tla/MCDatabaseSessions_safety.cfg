SPECIFICATION FairSpec
CONSTANTS
    Sessions <- TwoSessions
    Processes <- ApiAndTool
    Tables <- AllTables
    MaxDepth = 3
    Programs <- AllPrograms
    Scenarios <- EveryPair
INVARIANTS
    DeadlocksAreKnown
PROPERTY SessionsEnd
CHECK_DEADLOCK FALSE
