\* Functions move from file to file: any two commits, no error.
SPECIFICATION Spec
CONSTANTS
  api = api
  bank = bank
  cli = cli
  store = store
  main = main
  run = run
  audit = audit
  x = x
  y = y
  z = z
  I = I
  J = J
  T = T
  U = U
  Do = Do
  Undo = Undo
  b = b
  NULL = NULL
  File <- MCFile
  Text <- MCText
  Function <- MCFunction
  Variable <- MCVariable
  Type <- MCType
  Interface <- MCInterface
  Method <- MCMethod
  Source <- MCSource
  Build = {b}
  Classifies <- MCClassifies
  Branches <- MCMoving
  Rank <- MCRank
  MaxCommits = 2
  MaxFailures = 0
INVARIANT
  IncrementalEqualsFull
CHECK_DEADLOCK FALSE
