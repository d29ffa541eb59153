SPECIFICATION Spec
CONSTANTS
  Node = {1, 2}
  Uploader = {1}
  blockReplica = 2
  remoteSizeMax = 2
  CacheFlush = 1
  MaxLocal = 1
  Gen = 5
  Slot = {s1, s2}
  s1 = s1
  s2 = s2
  NoSlot = NoSlot
  MaxOps = 3
  MaxFaults = 1
SYMMETRY SlotSymmetry
INVARIANT LoadsWholeBlocks
CHECK_DEADLOCK FALSE
