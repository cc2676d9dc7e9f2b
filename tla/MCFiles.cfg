\* Two processes open, write, read, remove and close a file.
CONSTANTS
  p1 = p1  p2 = p2  s1 = s1  o1 = o1  o2 = o2
  NULL = NULL
  Procs = {p1, p2}
  Sectors = {s1}
  Inodes = {o1, o2}
  MaxLength = 2
  MaxOpen = 2
SPECIFICATION Spec
SYMMETRY Symmetric
CONSTRAINT NotRaced
INVARIANTS
  
  LengthInv
  AppendInv
CHECK_DEADLOCK FALSE
