SPECIFICATION Spec
CONSTANTS
  Worker = {1, 2}
  loop = loop
  Other = {loop}
  Task = {c1, c2, c3}
  c1 = c1
  c2 = c2
  c3 = c3
  NoTask = NoTask
  NoThread = NoThread
INVARIANT PoolTypeOK
INVARIANT NoOverwrite
INVARIANT FreeBlocked
PROPERTY TakenRuns
PROPERTY StopEnds
CHECK_DEADLOCK FALSE
