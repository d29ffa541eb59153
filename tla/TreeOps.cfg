SPECIFICATION Spec
CONSTANTS
  Name = {na, nb, nc}
  na = na
  nb = nb
  nc = nc
  Blank = {nc}
  Path <- MCPath
  Addr <- MCAddr
  File = {7}
  Bucket = {0, 1, 2}
  Hash <- MCHash
INVARIANT TreeTypeOK
INVARIANT ListedOpens
INVARIANT SnapshotRestores
INVARIANT SpinsOnlyFor
PROPERTY RemoveDirStays
CHECK_DEADLOCK FALSE
