\* Locks and condition variables with two priorities, under preemption at every step.
CONSTANTS
  main = main  idle = idle  t1 = t1  t2 = t2
  s1 = s1  l1 = l1  c1 = c1
  NULL = NULL
  Threads <- MCThreads4
  Main = main
  Idle = idle
  Semas = {}
  Locks = {l1}
  Conds = {c1}
  CondLock <- MCCondLock
  Priorities = {31, 32}
  TIME_SLICE = 1
  Sleeps = {}
  MaxTicks = 0
  MaxValue = 1
SPECIFICATION Spec
SYMMETRY Symmetric
INVARIANTS
  TypeOK
  ReadySorted
  LockInv
  CondInv
PROPERTY ImplementsMonitor
