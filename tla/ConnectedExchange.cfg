SPECIFICATION Spec
CONSTANTS
    Node = {s1, c1}
    Servers = {s1}
    Sender = s1
    Receiver = c1
    Quitters = {}
    Resettable = {}
    PortOf <- MCPortOf
    Address0 = zero
    Undef = undef
    SeqMod = 256
    RingCap = 2
    RingOverwrites = FALSE
    LineCap = 4
    MaxSyn = 2
    BurstSz = 4
    Lens = {1, 2}
    MaxFrames = 2
    MaxLoss = 0
    MaxResets = 0
    s1 = s1
    c1 = c1
INVARIANTS ConnectedExchange
CHECK_DEADLOCK FALSE
