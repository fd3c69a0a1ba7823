SPECIFICATION Spec
CONSTANTS
    Node = {s1, c1}
    Servers = {s1}
    Sender = c1
    Receiver = s1
    Quitters = {c1, s1}
    PortOf <- MCPortOf
    Address0 = zero
    Undef = undef
    SeqMod = 256
    BurstSz = 4
    RingCap = 8
    RingOverwrites = FALSE
    LineCap = 8
    Starts <- InStep
    Lens = {1, 2, 3, 5}
    MaxFrames = 6
    MaxLoss = 0
    Patient = TRUE
    s1 = s1
    c1 = c1
INVARIANTS FirstBurstReliable TimeoutMeansNoResponse
CHECK_DEADLOCK FALSE
