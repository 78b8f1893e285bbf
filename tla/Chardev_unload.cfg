SPECIFICATION Spec
CONSTANTS
    Procs = {p1, p2}
    Drivers = {"chardev"}
    Positions = {}
    Lengths = {100}
    IntModulus = 4
INVARIANTS
    NoUserWhileGoing
