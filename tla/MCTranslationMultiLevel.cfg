SPECIFICATION Spec
CONSTANTS
    Modules <- MultiLevel
    ElimLevels = {"off", "normal", "aggressive"}
INVARIANT TranslationIsExact
