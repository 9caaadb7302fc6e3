CONSTANTS
  t1 = t1 t2 = t2 t3 = t3 p1 = p1 p2 = p2 p3 = p3
  Threads <- MCTwoThreads
  Processes <- MCTwoProcesses
  ProcessOf <- MCTwoProcessOf
  NoFile = NoFile
  Undecodable = Undecodable
SPECIFICATION FairSpec
CHECK_DEADLOCK FALSE
INVARIANTS
  ExclusionOutsideWindows
PROPERTIES
  AbandonedLockRecovered
