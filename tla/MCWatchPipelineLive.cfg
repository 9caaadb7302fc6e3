CONSTANTS
  r1 = r1 r2 = r2 s1 = s1 s2 = s2
  Repos = {r1}
  Workspace = Workspace
  Slots = {s1, s2}
  None = None
  LockRepo = None
  MaxEdits = 2
  MaxAttempts = 2
  PipeCapacity = 1
SPECIFICATION FairSpec
CHECK_DEADLOCK FALSE
PROPERTIES
  ObservedChangePublished
  
