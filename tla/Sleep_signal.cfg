SPECIFICATION Spec
CONSTANTS
    p1 = p1
    p2 = p2
    Procs = {p1, p2}
    MESSAGE_LENGTH = 80
    InputLengths = {200}
    BufferLengths = {200}
    MaxReads = 0
PROPERTIES
    AnySignalEndsOpen
