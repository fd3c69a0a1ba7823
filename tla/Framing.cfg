SPECIFICATION Spec
CONSTANTS
    FieldBytes = 2
    PayloadCap = 3
    Packets <- MCPackets
    Interrupted <- MCInterrupted
    BufSz = 13
    DamagedTo = {7, 170, 171, 200, 255}
    MaxSent = 3
    MaxBacklog = 1
    MaxLost = 1
    MaxDamaged = 1
INVARIANTS TypeOK NothingInvented LossIsLocal IntactArrive PerfectLine BufferInBounds
CHECK_DEADLOCK FALSE
