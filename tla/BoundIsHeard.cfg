SPECIFICATION Spec
CONSTANTS
    Node = {a, b, c, hub}
    Switch = hub
    SocketId = {d1, d2, d3, d4, e1, f1}
    HomeOf <- MCHomeOf
    PortOf <- MCPortOf
    Nobody = nobody
    Group = group
    LineCap = 2
    ListCap = 3
    ChunkSz = 3
    PayloadCap = 2
    RingCap = 4
    RingOverwrites = FALSE
    Millis = {0, 1, 2}
    Lens = {2, 4}
    Scenarios <- MCDestroyed
    a = a
    b = b
    c = c
    hub = hub
    d1 = d1
    d2 = d2
    d3 = d3
    d4 = d4
    e1 = e1
    f1 = f1
    nobody = nobody
INVARIANTS BoundIsHeard
CHECK_DEADLOCK FALSE
