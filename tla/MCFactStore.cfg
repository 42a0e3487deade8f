\* Two analyzers, crashes anywhere: any three commits.
SPECIFICATION Spec
CONSTANTS
  app = app
  svc = svc
  main = main
  x = x
  y = y
  z = z
  I = I
  J = J
  T = T
  U = U
  Do = Do
  Undo = Undo
  b1 = b1
  b2 = b2
  NULL = NULL
  File <- MCFile
  Text <- MCText
  Function <- MCFunction
  Variable <- MCVariable
  Type <- MCType
  Interface <- MCInterface
  Method <- MCMethod
  Source <- MCSource
  Classifies <- MCClassifies
  Tree <- MCTree
  Build = {b1, b2}
  VersionOf <- MCVersionOf
  UpgradeBehind = FALSE
  MaxSeq = 3
INVARIANTS
  TypeOK
  FactsExact
  InputsCurrent
  IntervalsDisjoint
  EndpointsIndexed
  DeltaAccepted
PROPERTIES
  LifetimesKept
  ImplementsRebuild
CHECK_DEADLOCK FALSE
