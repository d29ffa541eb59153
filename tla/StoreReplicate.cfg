SPECIFICATION Spec
CONSTANTS
  Node = {1, 2, 3}
  Uploader = {1}
  blockReplica = 2
  remoteSizeMax = 2
  CacheFlush = 1
  MaxLocal = 1
  Gen = 6
  Slot = {s1, s2, s3}
  s1 = s1
  s2 = s2
  s3 = s3
  NoSlot = NoSlot
  MaxOps = 3
  MaxFaults = 0
SYMMETRY SlotSymmetry
INVARIANT ListingsTruthful
INVARIANT ReplicaCap
CHECK_DEADLOCK FALSE
