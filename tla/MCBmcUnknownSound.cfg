SPECIFICATION Spec
CONSTANTS
    World = {0, 1, 2}
    Procs = {"main", "f", "g"}
    Main = "main"
    NoProc = "-"
    Programs <- FewPrograms
    MaxBounds = {1, 2}
    EagerUnrolls = {0, 1}
    NoDomPushes = {FALSE}
    NoPostDomPushes = {FALSE}
    MaxUnknowns = 2
    Null = Null
INVARIANT SuccessIsSound
