SPECIFICATION Spec
CONSTANTS
  Node = {n1, n2}
  n1 = n1
  n2 = n2
  Slot = {s1, s2}
  s1 = s1
  s2 = s2
  root = root
  d = d
  f = f
  g = g
  Path = {d, f, g}
  Root = root
  Parent <- MCParent
  MaxData = 1
  MaxBlocks = 3
  MaxOps = 4
  MaxFaults = 1
INVARIANT FileTypeOK
 
INVARIANT Released
INVARIANT Rooted
INVARIANT AgreeUnlessConflict
SYMMETRY Alike
CHECK_DEADLOCK FALSE
