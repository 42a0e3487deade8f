\* Any first graph, then two deltas each up to two edges away; a delta whose
\* entry points do not only grow takes the full path.
SPECIFICATION FairSpec
CONSTANTS
  main = main
  a = a
  b = b
  c = c
  NULL = NULL
  Symbol <- MCSymbol
  CallEdge <- MCCallEdge
  Shapes <- MCGrowingShapes
  Mains = {main}
  Exported = {a, b}
  MaxSeq = 3
  MaxDelta = 2
  Growing = TRUE
INVARIANTS
  TypeOK
  ReachableExact
  HistoryExact
  NeverOverApproximates
  OldEdgesSettled
  IntervalsDisjoint
PROPERTIES
  DeltaEnds
  DeltaProgress
  ImplementsHistory
CHECK_DEADLOCK FALSE
