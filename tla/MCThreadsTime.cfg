\* A semaphore, sleeping and round-robin scheduling under fairness.
CONSTANTS
  main = main  idle = idle  t1 = t1  t2 = t2
  s1 = s1  l1 = l1  c1 = c1
  NULL = NULL
  Threads <- MCThreads4
  Main = main
  Idle = idle
  Semas = {s1}
  Locks = {}
  Conds = {}
  CondLock <- MCCondLock
  Priorities = {31}
  TIME_SLICE = 2
  Sleeps = {0, 1}
  MaxTicks = 1
  MaxValue = 2
SPECIFICATION FairSpec
INVARIANTS
  QueueInv
  SleepersCovered
  NoLostWakeup
PROPERTIES
  ReadyRuns
  SleepersWake
