SPECIFICATION Spec
CONSTANTS
    NumConfigs = 2
    Undef = Undef
INVARIANTS
    TypeOK
    FinalIsConfirmed
    NoneIsJustified
    AlarmBelongsToCommand
PROPERTIES
    NothingAfterSuccess
    Termination
