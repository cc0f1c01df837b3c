SPECIFICATION Spec
CONSTANTS
    w1 = w1
    w2 = w2
    w3 = w3
    c1 = c1
    c2 = c2
    x1 = x1
    x2 = x2
    b1 = b1
    b2 = b2
    b3 = b3
    Classes <- MCHeapOnly
    Works <- MCWorks
    Nothing = Nothing
    Callers <- MCCallers
    Careful = TRUE
    Chars <- MCChars
    Blank = Blank
    bufsz = 4
    Lengths <- MCLengths
    MaxSem = 2
    Writers <- MCCallers
    Buffers <- MCBuffers
    Idle = Idle
    QueueSize = 2
    WriterMasksIrq = TRUE
    Bytes <- MCChars
    NoByte = Blank
    RingSize = 4
    Blocks <- MCBlocks
    Sleepers <- MCCallers
    Finishers <- MCCallers
    Pollers <- MCWorks
    MaxThings = 3
    Header = 3
    MinSize = 3
    Total = 21
    Sizes <- MCSizes
INVARIANTS
    WellFormed
    FitIsFound
PROPERTIES
    ImplementsArena
