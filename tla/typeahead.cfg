SPECIFICATION Spec
CONSTANTS
  Turns = 3
  Pieces = 1
PROPERTIES
  TurnsDrain
CHECK_DEADLOCK FALSE
