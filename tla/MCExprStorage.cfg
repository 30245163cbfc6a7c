CONSTANTS
  Places = {2, 3, 4}
  DefaultBucketCount = 2
  LeafExprs <- MCLeafExprs
  Shapes <- MCShapes
  HashCombine <- MCHashCombine
  MaxHandles = 4
SPECIFICATION Spec
INVARIANTS TableIsExact NoDanglingPointer CountsAreExact
PROPERTIES CallsReturn ImplementsHashConsing
CHECK_DEADLOCK FALSE
