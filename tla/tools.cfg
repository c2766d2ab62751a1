SPECIFICATION Spec
CONSTANTS
  t1 = t1
  t2 = t2
  e1 = e1
  e2 = e2
  None = None
  Name <- MCNames
  Exec <- MCExecs
  MaxReg = 3
INVARIANTS
  TypeOK
  HandlerFresh
PROPERTIES
  ExecReturns
