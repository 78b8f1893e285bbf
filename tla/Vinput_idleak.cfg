SPECIFICATION Spec
CONSTANTS
    vkbd = vkbd
    a1 = a1
    Admins = {a1}
    Users = {}
    Types = {vkbd}
    VINPUT_MINORS = 2
    MaxAllocs = 4
INVARIANTS
    IdsAreReleased
