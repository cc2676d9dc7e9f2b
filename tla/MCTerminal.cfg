\* Two readers and two writers at a terminal.
CONSTANTS
  r1 = r1  r2 = r2  w1 = w1  w2 = w2
  NULL = NULL
  Readers = {r1, r2}
  Writers = {w1, w2}
  INTQ_BUFSIZE = 3
  CallSize = 2
  MaxInput = 3
  MaxOutput = 4
SPECIFICATION TtySpec
SYMMETRY Symmetric
INVARIANTS
  InOrder
  NotMixed
  NoMissedWakeup
CHECK_DEADLOCK FALSE
