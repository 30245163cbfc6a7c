CONSTANTS
  MaxValue = 2
  MaxStack = 7
  MaxInlines = 6
  Programs <- MCPrograms
  Settings <- MCSettings
SPECIFICATION Spec
INVARIANTS FailuresArePreserved ReportIsTrue ErrorsAreInMain MarksAreNested InliningEnds
