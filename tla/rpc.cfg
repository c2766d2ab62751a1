SPECIFICATION Spec
CONSTANTS
  None = None
  MaxArrayLength = 2
  Values <- MCValues
INVARIANTS
  TypeOK
  HandledAsCalled
  AnsweredAsReturned
  NothingUnreadable
  GeneratedAsDeclared
PROPERTIES
  CallSettles
