SPECIFICATION Spec
CONSTANTS
    a = a
    b = b
    c = c
    Nobody = Nobody
    Timers <- MCTimers
    Wrap = 8
    Times <- MCTimes
SYMMETRY MCSymmetry
INVARIANTS
    TypeOK
    StartedEarlyCalledEarly
PROPERTIES
    ImplementsAlarms
