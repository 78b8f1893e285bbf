SPECIFICATION SafeSpec
CONSTANTS
    p1 = p1
    p2 = p2
    p3 = p3
    Procs = {p1, p2, p3}
    MESSAGE_LENGTH = 80
    InputLengths = {5, 200}
    BufferLengths = {0, 200}
    MaxReads = 3
SYMMETRY Symmetry
INVARIANTS
    TypeOK
    MutualExclusion
    FlagIffHeld
    NoLostWakeup
    BuffersInBounds
    ReadersReachEof
