\* A method whose receiver becomes a pointer or a value.
SPECIFICATION Spec
CONSTANTS
  a = a
  b = b
  f = f
  g = g
  p = p
  q = q
  r = r
  T = T
  File <- MCFile
  Symbol <- MCSymbol
  Name <- MCName
  TypeName <- MCType
  Line <- MCLine
  Cases <- MCCases
  MaxFailures = 0
INVARIANT ReceiverIsSignature
CHECK_DEADLOCK FALSE
