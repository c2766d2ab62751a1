SPECIFICATION Spec
CONSTANTS
  c1 = c1
  c2 = c2
  Chat <- MCChats
  Pieces = 2
  Window = 1
INVARIANTS
  TypeOK
  NoCrosstalk
  EndsWithTerminal
  DelegateExact
PROPERTIES
  ImplementsReplies
  HandlerReturns
  ConsumerEnds
