SPECIFICATION Spec
CONSTANTS
  topic = topic
  None = None
  MaxArrayLength = 2
  MaxOpen = 2
  MaxSent = 1
  MaxClose = 1
  Topic <- MCTopic
  Key <- MCKey
  Message <- MCMessage
  RawText <- MCRawText
INVARIANTS
  ServedKeyConnects
CHECK_DEADLOCK FALSE
