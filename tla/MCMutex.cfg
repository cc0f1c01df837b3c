SPECIFICATION Spec
CONSTANTS
    idle = idle
    low = low
    middle = middle
    high = high
    m1 = m1
    m2 = m2
    None = None
    Threads <- MCThreads
    Mutexes <- MCMutexes
    Priorities <- MCPriorities
    Base <- MCBase
    Idle = idle
    MaxNest = 0
    MaxHold = 2
    Nested = FALSE
SYMMETRY MCSymmetry
INVARIANTS
    TypeOK
    OwnedOrFree
    TakeTellsOwner
    InversionBounded
    BaseRestored
