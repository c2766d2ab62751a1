SPECIFICATION Spec
CONSTANTS
  k1 = k1
  k2 = k2
  c1 = c1
  c2 = c2
  c3 = c3
  Closer = Closer
  Corrupt = Corrupt
  None = None
  Key <- MCOneKey
  Call <- MCCalls2
  Text <- PlainTexts
  Overlap = FALSE
  EarlyBreak = FALSE
  GoMayDie = TRUE
PROPERTIES
  CloseReturns
