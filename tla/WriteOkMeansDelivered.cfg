SPECIFICATION Spec
CONSTANTS
    Node = {s1, c1}
    Servers = {s1}
    Sender = c1
    Receiver = s1
    Quitters = {}
    PortOf <- MCPortOf
    Address0 = zero
    Undef = undef
    SeqMod = 256
    BurstSz = 4
    RingCap = 8
    RingOverwrites = FALSE
    LineCap = 8
    Starts <- InStep
    Lens = {1, 2}
    MaxFrames = 4
    MaxLoss = 0
    Patient = TRUE
    s1 = s1
    c1 = c1
INVARIANTS WriteOkMeansDelivered
CHECK_DEADLOCK FALSE
