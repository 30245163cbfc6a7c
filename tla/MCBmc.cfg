SPECIFICATION Spec
CONSTANTS
    World = {0, 1, 2}
    Procs = {"main", "f", "g"}
    Main = "main"
    NoProc = "-"
    Programs <- LiftedPrograms
    MaxBounds = {1, 2}
    EagerUnrolls = {0, 1, 2}
    NoDomPushes = {FALSE, TRUE}
    NoPostDomPushes = {FALSE, TRUE}
    MaxUnknowns = 0
    Null = Null
INVARIANTS
    TypeOK
    OrderIsTopological
    CallsAreExact
    RegionIsTight
    SuccessIsSound
    BoundReachedIsHonest
    NoErrorIsLost
    FailIsReal
    NoAssertionFails
PROPERTIES
    Termination
