\* Branches of up to three commits, pushed and rewritten while runs fail.
SPECIFICATION FairIndexSpec
CONSTANTS
  app = app
  svc = svc
  main = main
  x = x
  y = y
  z = z
  I = I
  J = J
  T = T
  U = U
  Do = Do
  Undo = Undo
  b1 = b1
  b2 = b2
  NULL = NULL
  File <- MCFile
  Text <- MCText
  Function <- MCFunction
  Variable <- MCVariable
  Type <- MCType
  Interface <- MCInterface
  Method <- MCMethod
  Source <- MCSource
  Classifies <- MCClassifies
  Tree <- MCBranchTree
  Build = {b1, b2}
  VersionOf <- MCVersionOf
  UpgradeBehind = TRUE
  MaxSeq = 3
  NeedsModules <- MCNeedsModules
  RewritesListed = FALSE
  MaxFailures = 1
INVARIANTS
  IndexTypeOK
  OneHistory
  FingerprintTellsFacts
  EverySeqAccounted
  AnswersFollowBranch
PROPERTY
  CommitsGetIndexed
CHECK_DEADLOCK FALSE
