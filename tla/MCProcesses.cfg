\* Parents and children: two processes are created, in two pages that are used again.
CONSTANTS
  main = main  daemon = daemon  p1 = p1  p2 = p2
  NULL = NULL
  Procs <- MCProcs4
  Main = main
  Daemon = daemon
  ExitArgs = {7, 8}
  MaxTid = 4
  MaxFiles = 1
SPECIFICATION FairSpec
INVARIANTS
  FamilyInv
  ExecTruth
  
PROPERTIES
  ExecReturns
  HandshakeCompletes
CHECK_DEADLOCK FALSE
