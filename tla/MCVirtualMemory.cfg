\* Two processes with two pages each, two frames and two swap slots.
CONSTANTS
  p1 = p1  p2 = p2  code = code  top = top  low = low
  NULL = NULL
  Procs = {p1, p2}
  Segment = {code}
  Pages <- MCPages
  StackTop = top
  NumFrames = 2
  NumSlots = 2
  Data = {3}
  Zero = 0
  FileData = 1
  Freed = 2
SPECIFICATION Spec
VIEW Live
INVARIANTS
  
  SwapInv
  Contents
CHECK_DEADLOCK FALSE
