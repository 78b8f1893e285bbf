SPECIFICATION Spec
CONSTANTS
    p1 = p1
    p2 = p2
    p3 = p3
    Procs = {p1, p2, p3}
    MESSAGE_LENGTH = 80
    InputLengths = {200}
    BufferLengths = {200}
    MaxReads = 0
PROPERTIES
    ImplementsExclusiveOpen
    FatalSignalEndsOpen
    RemovalEnds
