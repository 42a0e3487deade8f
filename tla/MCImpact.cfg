\* Edits, moves, additions and removals of two functions, one error.
SPECIFICATION Spec
CONSTANTS
  a = a
  b = b
  f = f
  g = g
  p = p
  q = q
  r = r
  T = T
  File <- MCFile
  Symbol <- MCSymbol
  Name <- MCName
  TypeName <- MCType
  Line <- MCLine
  Cases <- MCCases
  MaxFailures = 1
INVARIANTS
  ImpactTypeOK
  FrontierComplete
  FrontierPrecise
  ReachedExactly
  PathsReal
  DepthsShortest
  MustRunCertain
PROPERTIES
  AnalysisEnds
  SearchProgress
CHECK_DEADLOCK FALSE
