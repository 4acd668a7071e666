SPECIFICATION Spec
CONSTANTS
  Proc = {p1, p2, p3}
  Inode = {i1, i2}
  Session = {s1}
  None = None
  MaxToken = 3
SYMMETRY Symmetry
CHECK_DEADLOCK FALSE
INVARIANTS
  LocksAccountedFor
  ExclusiveUntilUnlinked
  FileNamesHolder
PROPERTIES
  TokensAdvance
