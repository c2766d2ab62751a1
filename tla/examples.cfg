SPECIFICATION Spec
CONSTANTS
  lens = lens
  a1 = a1
  a2 = a2
  a3 = a3
  Correlator = Correlator
  Category <- MCCategory
  PerCategory = 2
  Answers <- MCAnswers
  BoardAgent <- MCAgent
  Rounds = 3
  MaxConns = 2
  Turns = 3
  Pieces = 1
INVARIANTS
  TypeOK
  ReportExact
  SameBoard
  OneTurnAtATime
  RepliesWhole
PROPERTIES
  ReviewEnds
  BoardShared
  BothLeave
  LatestDrains
  GetsIdle
CHECK_DEADLOCK FALSE
