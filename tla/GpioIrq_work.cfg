SPECIFICATION Spec
CONSTANTS
    Drivers = {"bottomhalf"}
    Apis = {"single"}
INVARIANTS
    NoWorkWhenOut
