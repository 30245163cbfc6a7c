CONSTANTS
  Families <- MCFamilies
  SlabSize = 2
  WalkSteps = 2
  Visitors = {"eval", "rewrite", "cached"}
SPECIFICATION Spec
INVARIANTS FoldingPreservesValue RewriteIsSubstitution WalkIsRecursion FramesAreStacked InstructionsAreExact OverflowIsNeverMissed
CHECK_DEADLOCK FALSE
