\* A crash before the first version is recorded, then another build.
SPECIFICATION Spec
CONSTANTS
  app = app
  svc = svc
  main = main
  x = x
  y = y
  z = z
  I = I
  J = J
  T = T
  U = U
  Do = Do
  Undo = Undo
  b1 = b1
  b2 = b2
  NULL = NULL
  File <- MCFile
  Text <- MCText
  Function <- MCFunction
  Variable <- MCVariable
  Type <- MCType
  Interface <- MCInterface
  Method <- MCMethod
  Source <- MCSource
  Classifies <- MCClassifies
  Tree <- MCBuildTree
  Build = {b1, b2}
  VersionOf <- MCVersionOf
  UpgradeBehind = TRUE
  MaxSeq = 2
INVARIANT
  FactsExact
CHECK_DEADLOCK FALSE
