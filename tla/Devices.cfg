SPECIFICATION MCSpec
CONSTANTS
    Procs = {p1, p2, p3}
    Drivers = {"chardev", "static_key"}
    Positions = {1, 9, 41}
    Lengths = {7, 100}
    IntModulus = 2
    p1 = p1
    p2 = p2
    p3 = p3
    r1 = r1
    Programs = {p1, p2}
    Raw = {r1}
    Parties = {{p1, p2}, {p1, r1}}
    Chars = {1, 2}
    Texts <- MCTexts
    BUF_LEN = 2
    f1 = f1
    f2 = f2
    Files = {f1, f2}
    t1 = t1
    t2 = t2
    Threads = {t1, t2}
    b1 = b1
    b2 = b2
    Blocks = {b1, b2}
    Args = {2, 5}
    CharModulus = 4
INVARIANTS
    DevicesTypeOK
    CopiesAreWhole
    KeyStateIsCurrent
    OwnerKeepsModule
    IoctlsReturnLastSet
PROPERTIES
    ImplementsExclusiveOpen
    CallersFinish
