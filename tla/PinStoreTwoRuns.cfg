SPECIFICATION Spec
CONSTANTS
  p1 = p1
  p2 = p2
  k1 = k1
  k2 = k2
  i1 = i1
  i2 = i2
  i3 = i3
  none = none
  Procs = {p1, p2}
  Keys = {k1, k2}
  NoKey = none
  Inodes = {i1, i2, i3}
  NoInode = none
  V2Files = FALSE
INVARIANT LiveWhole
