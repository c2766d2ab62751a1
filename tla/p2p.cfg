SPECIFICATION Spec
CONSTANTS
  topic = topic
  None = None
  MaxArrayLength = 2
  MaxOpen = 3
  MaxSent = 1
  MaxClose = 2
  Topic <- MCTopic
  Key <- MCKey
  Message <- MCMessage
  RawText <- MCRawText
INVARIANTS
  TypeOK
  HandleReachesOwn
  NothingOrphaned
  EveryMessageOnce
PROPERTIES
  CallsSettle
CHECK_DEADLOCK FALSE
