SPECIFICATION Spec
CONSTANTS
    Chains = {"sweep", "hotDetail", "hotQueue"}
    Slots = {s1, s2, s3, s4, s5, s6}
    MaxGeneration = 3
SYMMETRY SlotSymmetry
INVARIANTS
    TimersAreCurrent
    OneChainEach
    LatchesAreOwned
PROPERTIES
    ImplementsPeriodicTasks
CHECK_DEADLOCK FALSE
