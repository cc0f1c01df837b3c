SPECIFICATION Spec
CONSTANTS
    t1 = t1
    t2 = t2
    t3 = t3
    m1 = m1
    m2 = m2
    e1 = e1
    e2 = e2
    NoMail = NoMail
    NoMessage = NoMessage
    NoItem = NoItem
    Threads <- MCThreads
    Prio <- MCPrio
    Flag = "FIFO"
    Mails <- MCData
    MbSize = 3
    Messages <- MCData
    MaxMsgs = 2
    PoolSize = 3
    Bits <- MCBits
    Items <- MCData
    DqSize = 3
    Lwm = 1
SYMMETRY MCSymmetry
INVARIANTS
    TypeOK
    NobodyWaitsForWhatIsThere
    BlocksConserved
    CopiedIntact
    PoolConserved
    EventServed
PROPERTIES
    MbImplementsChannel
    MqImplementsChannel
    DeliveredOnce
    DqImplementsChannel
