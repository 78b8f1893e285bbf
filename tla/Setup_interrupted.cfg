SPECIFICATION Spec
CONSTANT
    MaxEdits = 1
CHECK_DEADLOCK FALSE
INVARIANT
    SourceIsWhole
