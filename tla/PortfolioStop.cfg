SPECIFICATION Spec
CONSTANTS
    NumConfigs = 2
    Undef = Undef
INVARIANTS
    ConclusiveResultIsReturned
