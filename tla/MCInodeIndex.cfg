\* Two files that grow together on a disk on which both do not fit.
CONSTANTS
  f1 = f1  f2 = f2
  NULL = NULL  Data = Data
  Files = {f1, f2}
  NumSectors = 14
  DISK_SECTOR_SIZE = 2
  NUM_PTRS_DIR = 1
  NUM_PTRS_INDIR = 1
  PTR_PER_BLOCK = 2
  Lengths = {3, 10, 12, 14}
SPECIFICATION Spec
SYMMETRY Symmetric
INVARIANTS
  IndexInv
  NoLeak
CHECK_DEADLOCK FALSE
