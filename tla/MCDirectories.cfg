\* Two processes make, remove, enter and open files and directories.
CONSTANTS
  p1 = p1  p2 = p2  s1 = s1  s2 = s2
  NULL = NULL
  Root = Root
  Procs = {p1, p2}
  Sectors = {s1, s2}
  Names = {"a"}
  Paths <- SomePaths
  MaxRefs = 4
  MaxLeaks = 1
SPECIFICATION Spec
SYMMETRY Symmetric
CONSTRAINTS IsSound FewLeaks
INVARIANTS
  CountInv
  
  
CHECK_DEADLOCK FALSE
