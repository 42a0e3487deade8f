\* One update after the other, an error anywhere: any three commits.
SPECIFICATION Spec
CONSTANTS
  api = api
  bank = bank
  cli = cli
  store = store
  main = main
  run = run
  audit = audit
  x = x
  y = y
  z = z
  I = I
  J = J
  T = T
  U = U
  Do = Do
  Undo = Undo
  b = b
  NULL = NULL
  File <- MCFile
  Text <- MCText
  Function <- MCFunction
  Variable <- MCVariable
  Type <- MCType
  Interface <- MCInterface
  Method <- MCMethod
  Source <- MCSource
  Build = {b}
  Classifies <- MCClassifies
  Branches <- MCBranches
  Rank <- MCRank
  MaxCommits = 3
  MaxFailures = 1
INVARIANTS
  V2TypeOK
  TablesAgree
  FailureContained
  OracleAgrees
PROPERTY UpdateEnds
CHECK_DEADLOCK FALSE
