\* A library: an exported function may be deleted.
SPECIFICATION Spec
CONSTANTS
  main = main
  a = a
  b = b
  c = c
  NULL = NULL
  Growing = FALSE
  Symbol <- MCSymbol
  CallEdge <- MCCallEdge
  Shapes <- MCLibraryShapes
  Mains = {main}
  Exported = {a, b}
  MaxSeq = 2
  MaxDelta = 1
INVARIANT
  ReachableExact
CHECK_DEADLOCK FALSE
