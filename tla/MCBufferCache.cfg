\* Two clients and the write-behind thread fight for two entries.
CONSTANTS
  c1 = c1  c2 = c2
  sA = sA  sB = sB  sC = sC
  NULL = NULL
  Clients = {c1, c2}
  Sectors = {sA, sB, sC}
  Values = {0, 1}
  Zero = 0
  MAX_CACHE_SIZE = 2
SPECIFICATION Spec
CONSTRAINT OneWritten
VIEW Live
SYMMETRY Symmetric
INVARIANTS
  CacheInv
  VictimExists
  Coherent
CHECK_DEADLOCK FALSE
