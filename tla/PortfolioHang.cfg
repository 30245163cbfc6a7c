SPECIFICATION Spec
CONSTANTS
    NumConfigs = 2
    Undef = Undef
PROPERTIES
    TimeoutsEndHangs
