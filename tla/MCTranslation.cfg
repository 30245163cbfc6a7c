SPECIFICATION Spec
CONSTANTS
    Modules <- SupportedModules
    ElimLevels = {"off", "normal", "aggressive"}
INVARIANTS
    NoAssertionFails
    CfaIsConnected
    CallsMatchInterfaces
    TranslationIsExact
