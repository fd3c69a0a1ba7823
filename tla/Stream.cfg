SPECIFICATION Spec
CONSTANTS
    Node = {s1, c1}
    Servers = {s1}
    Sender = c1
    Receiver = s1
    Quitters = {c1}
    Resettable = {c1, s1}
    PortOf <- MCPortOf
    Address0 = zero
    Undef = undef
    SeqMod = 256
    RingCap = 2
    RingOverwrites = FALSE
    LineCap = 2
    MaxSyn = 3
    BurstSz = 2
    Lens = {1, 2}
    MaxFrames = 2
    MaxLoss = 1
    MaxResets = 1
    s1 = s1
    c1 = c1
INVARIANTS TypeOK StreamInOrder
PROPERTIES ImplementsPipe
CHECK_DEADLOCK FALSE
