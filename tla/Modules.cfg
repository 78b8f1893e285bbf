SPECIFICATION MCSpec
CONSTANTS
    vkbd = vkbd
    vmouse = vmouse
    a1 = a1
    a2 = a2
    u1 = u1
    Admins = {a1, a2}
    Users = {u1}
    Types = {vkbd, vmouse}
    First = a1
    FewTypes = {vkbd}
    VINPUT_MINORS = 2
    MaxAllocs = 4
    c1 = c1
    c2 = c2
    Callers = {c1, c2}
    Variants = {"procfs2", "procfs3", "debugfs"}
    MAX_SIZE = 3
    TEXT_SIZE = 2
    Asked = {0, 1, 4}
    MaxWrites = 3
    t1 = t1
    t2 = t2
    Typists = {t1, t2}
    r1 = r1
    Readers = {r1}
    Keys <- MCKeys
    MAX_LEN = 6
    Counts = {2, 6, 7}
    MaxSends = 3
    f1 = f1
    f2 = f2
    Files = {f1, f2}
    LINE = 2
    Lens = {1, 4}
    MaxCounter = 3
    Eras = {"5.10", "5.15", "5.16", "5.18"}
    s1 = s1
    s2 = s2
    Slots = {s1, s2}
    SIZE = 3
    Segments <- MCSegments
    Builds = {"seq", "plain"}
    Sizes = {14, 60}
    ETH_HLEN = 14
    MaxPackets = 2
    Boards = {"dma", "devicetree", "devicemodel"}
    d1 = d1
    d2 = d2
    Pdevs = {d1, d2}
    Hooks = {"table", "kprobe"}
    m1 = m1
    m2 = m2
    m3 = m3
    Spies = {m1, m2, m3}
    o1 = o1
    Openers = {o1}
    MaxEdits = 1
    NumModules = 3
    Excluded = {2}
    Hosts = {"timeout", "forever"}
CHECK_DEADLOCK FALSE
INVARIANTS
    TypeOK
    IdsUnique
    CompleteUnlessWorkedOn
    SafeWhenAlone
    ModulesTypeOK
    CopiesHaveMemory
    TextThenEof
    MessagesAreWhole
    TakenIsGivenBack
    DanglingOnlyAfterWarning
    
PROPERTIES
    StatsAreConsistent
