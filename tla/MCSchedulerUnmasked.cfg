SPECIFICATION Spec
CONSTANTS
    idle = idle
    main = main
    t1 = t1
    t2 = t2
    Threads <- MCThreads
    Idle = idle
    Main = main
    Priorities <- MCPriorities
    InitPrio <- MCInitPrio
    InitTick <- MCInitTick
    MaxNest = 1
    CallerMasksIrq = FALSE
SYMMETRY MCSymmetry
INVARIANTS
    DetachedLeavesQueue
