SPECIFICATION Spec
CONSTANTS
    World = {0, 1, 2}
    Procs = {"main", "f", "g"}
    Main = "main"
    NoProc = "-"
    Programs <- HardPrograms
    MaxBounds = {1, 2}
    EagerUnrolls = {0, 1}
    NoDomPushes = {FALSE, TRUE}
    NoPostDomPushes = {FALSE, TRUE}
    MaxUnknowns = 2
    Null = Null
INVARIANT FailIsReal
