SPECIFICATION FairSpec
CONSTANTS
    Node = {s1, c1}
    Servers = {s1}
    Sender = c1
    Receiver = s1
    Quitters = {c1, s1}
    PortOf <- MCPortOf
    Address0 = zero
    Undef = undef
    SeqMod = 256
    BurstSz = 2
    RingCap = 2
    RingOverwrites = TRUE
    LineCap = 2
    Starts <- AnyGap
    Lens = {1, 2, 3}
    MaxFrames = 3
    MaxLoss = 1
    Patient = FALSE
    s1 = s1
    c1 = c1
INVARIANTS TypeOK DeliveredInOrder AckHonest
PROPERTIES ImplementsPipe WriteReturns HalfOpenEnds
CHECK_DEADLOCK FALSE
