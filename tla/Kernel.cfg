SPECIFICATION MCSpec
CONSTANTS
    MaxBlocks = 5
    Devices = {"led", "led64", "dht11"}
    u1 = u1
    u2 = u2
    Users = {u1, u2}
    Lengths = {20, 64}
    Retries = 2
    Drivers = {"intrpt", "bottomhalf", "threaded"}
    Apis = {"array", "single"}
    c1 = c1
    c2 = c2
    Consoles = {c1, c2}
    Kinds = {"kbleds", "sched", "tasklet"}
INVARIANTS
    KernelTypeOK
    NoUseAfterFree
    NothingLeaksOnExit
    NoReaderWhenOut
    ReleasesMatch
    HandlersHaveTheirLines
    LinesLeftInOrder
    AwaitedWhenOut
    ButtonsDriveTheLed
    CrankBeforeFlywheel
PROPERTIES
    CallsReturn
