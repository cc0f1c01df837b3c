SPECIFICATION Spec
CONSTANTS
    t1 = t1
    t2 = t2
    t3 = t3
    Threads <- MCThreads
    Prio <- MCPrio
    MaxValue = 2
    CallerMasksIrq = FALSE
INVARIANTS
    ResumeAllFindsThread
