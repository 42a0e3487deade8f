\* One line dispatches the same method through two interfaces.
SPECIFICATION Spec
CONSTANTS
  app = app
  svc = svc
  main = main
  x = x
  y = y
  z = z
  I = I
  J = J
  T = T
  U = U
  Do = Do
  Undo = Undo
  b1 = b1
  b2 = b2
  NULL = NULL
  File <- MCFile
  Text <- MCText
  Function <- MCFunction
  Variable <- MCVariable
  Type <- MCType
  Interface <- MCInterface
  Method <- MCMethod
  Source <- MCSource
  Classifies <- MCClassifies
  Tree <- MCOneLineTree
  Build = {b2}
  VersionOf <- MCVersionOf
  UpgradeBehind = FALSE
  MaxSeq = 2
INVARIANT
  DeltaAccepted
CHECK_DEADLOCK FALSE
