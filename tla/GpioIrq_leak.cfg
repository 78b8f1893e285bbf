SPECIFICATION Spec
CONSTANTS
    Drivers = {"bottomhalf"}
    Apis = {"array"}
INVARIANTS
    NothingHeldWhenOut
