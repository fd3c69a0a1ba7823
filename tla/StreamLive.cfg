SPECIFICATION FairSpec
CONSTANTS
    Node = {s1, c1}
    Servers = {s1}
    Sender = c1
    Receiver = s1
    Quitters = {c1}
    Resettable = {c1}
    PortOf <- MCPortOf
    Address0 = zero
    Undef = undef
    SeqMod = 256
    RingCap = 2
    RingOverwrites = FALSE
    LineCap = 2
    MaxSyn = 3
    BurstSz = 1
    Lens = {1}
    MaxFrames = 1
    MaxLoss = 0
    MaxResets = 1
    s1 = s1
    c1 = c1
PROPERTIES EveryCallReturns HalfOpenEnds
CHECK_DEADLOCK FALSE
