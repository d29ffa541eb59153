SPECIFICATION Spec
CONSTANTS
  Worker = {1, 2}
  Other = {}
  Task = {1, 2, 3}
  NoTask = NoTask
  NoThread = NoThread
  BlockSize = 2
  MaxLength = 5
INVARIANT GetTypeOK
INVARIANT WholeUnlessLate
PROPERTY GetEnds
CHECK_DEADLOCK FALSE
