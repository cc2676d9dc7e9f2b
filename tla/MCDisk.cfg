\* Two threads read and write one sector of two disks.
CONSTANTS
  t1 = t1  t2 = t2  s1 = s1
  NULL = NULL
  Threads = {t1, t2}
  Main = t1
  Sectors = {s1}
  Values = {0, 1}
  MaxSpurious = 1
SPECIFICATION Spec
INVARIANT NoStaleCompletion

  
  
CHECK_DEADLOCK FALSE
