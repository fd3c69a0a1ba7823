SPECIFICATION Spec
CONSTANTS
    Node = {s1, c1, c2}
    Servers = {s1}
    Recreated = {}
    PortOf <- MCPortOf
    Address0 = zero
    Undef = undef
    SeqMod = 256
    RingCap = 1
    RingOverwrites = FALSE
    LineCap = 2
    MaxSyn = 3
    s1 = s1
    c1 = c1
    c2 = c2
INVARIANTS TypeOK CallsSettle InitialisedBeforeUse PeerIsAhead
