\* Two threads allocate and free pages and blocks.
CONSTANTS
  t1 = t1  t2 = t2  d1 = d1  d2 = d2
  NULL = NULL
  Threads = {t1, t2}
  KernelPages = 4
  UserPages = 1
  Descs = {d1, d2}
  BlocksPerArena <- TwoBlocks
  MaxHeld = 2
SPECIFICATION Spec
SYMMETRY Symmetric
INVARIANTS
  PagesInv
  BlocksInv
