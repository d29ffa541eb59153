SPECIFICATION Spec
CONSTANTS
  Node = {1, 2}
  Uploader = {1}
  blockReplica = 2
  remoteSizeMax = 1
  CacheFlush = 1
  MaxLocal = 2
  Gen = 5
  Slot = {s1, s2}
  s1 = s1
  s2 = s2
  NoSlot = NoSlot
  MaxOps = 3
  MaxFaults = 2
INVARIANT TypeOK
INVARIANT CopiesAgree
INVARIANT TasksConnected
PROPERTY ImplementsRegister
CHECK_DEADLOCK FALSE
