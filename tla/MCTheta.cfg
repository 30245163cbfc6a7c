SPECIFICATION Spec
CONSTANTS
  Values <- MCValues
  NoProc = NoProc
  Programs <- MCPrograms
  Faults <- MCFaults
  MaxInlines = 3
  MaxTrace = 26
  Depth = 5
INVARIANTS VerdictIsSound FaultFreeRunDecides TraceIsAnExecution
