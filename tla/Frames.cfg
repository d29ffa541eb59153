SPECIFICATION Spec
CONSTANTS
  W = 3
  sliceSize = 2
  Length <- MCLength
  Room = 6
  MaxJunk = 4
INVARIANT StreamTypeOK
PROPERTY ImplementsChannel
PROPERTY SentArrives
CHECK_DEADLOCK FALSE
