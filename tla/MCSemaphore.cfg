SPECIFICATION FairSpec
CONSTANTS
    t1 = t1
    t2 = t2
    t3 = t3
    Threads <- MCThreads
    Prio <- MCPrio
    MaxValue = 2
    CallerMasksIrq = TRUE
INVARIANTS
    TypeOK
    WaitsForToken
    WaitersInOrder
PROPERTIES
    ImplementsTokens
    TimedTakeReturns
