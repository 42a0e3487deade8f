\* History is rewritten after a run has listed it and before it is indexed.
SPECIFICATION IndexSpec
CONSTANTS
  app = app
  svc = svc
  main = main
  x = x
  y = y
  z = z
  I = I
  J = J
  T = T
  U = U
  Do = Do
  Undo = Undo
  b1 = b1
  b2 = b2
  NULL = NULL
  File <- MCFile
  Text <- MCText
  Function <- MCFunction
  Variable <- MCVariable
  Type <- MCType
  Interface <- MCInterface
  Method <- MCMethod
  Source <- MCSource
  Classifies <- MCClassifies
  Tree <- MCBranchTree
  Build = {b1, b2}
  VersionOf <- MCVersionOf
  UpgradeBehind = TRUE
  MaxSeq = 3
  NeedsModules <- MCNeedsModules
  RewritesListed = TRUE
  MaxFailures = 1
INVARIANT
  OneHistory
CHECK_DEADLOCK FALSE
