\* Executables with one or two segments, and a file of two pages that is mapped twice.
CONSTANTS
  NULL = NULL
  PGSIZE = 32
  WORD = 4
  PHYS_BASE = 192
  ADDRS = 256
  FileLength = 80
  Phdrs <- SomePhdrs
  MaxPhdrs = 2
  CommandLines <- SomeLines
  LIMIT = 64
  MapAddrs = {64, 96, 192}
  MapLength = 40
  MaxMaps = 2
  Data = {1, 2}
SPECIFICATION Spec
CONSTRAINT Plain
INVARIANTS
  SegmentContents
  MainSees
  MapInv
CHECK_DEADLOCK FALSE
