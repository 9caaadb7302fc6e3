SPECIFICATION Spec
CONSTANTS
  w1 = w1 w2 = w2 c1 = c1 c2 = c2 c3 = c3 r1 = r1 r2 = r2 p1 = p1
  Workspaces = {w1, w2}
  Checkouts = {c1, c2, c3}
  Repos = {r1, r2}
  Scanners = {p1}
  RepoOf <- RepoOfDef
  NoScan = NoScan
  e1 = e1 e2 = e2 e3 = e3 x1 = x1 x2 = x2
  Editors = {e1, e2, e3}
  Admins = {e1, e2}
  Entries = {x1, x2}
  EntryOf <- EntryOfDef
  MaxBackups = 2
  Unwritten = Unwritten
  i1 = i1 i2 = i2 q1 = q1 q2 = q2 s1 = s1 s2 = s2
  SnapshotIds = {s1, s2}
  Revisions = {0, 1}
  Inputs = {i1, i2}
  Queriers = {q1, q2}
  MaxEntries = 1
  MaxTime = 2
  Nobody = Nobody
  b1 = b1 b2 = b2 o1 = o1
  Restorers = {b1, b2}
  Stores = {o1}
  LockDirectory <- OneDirectory
  MaxWrites = 1
  MaxOutside = 2
  None = None
SYMMETRY Interchangeable
CHECK_DEADLOCK FALSE
INVARIANTS
  CacheFollowsSnapshot
PROPERTIES
  RemovalIsClean
  EditsAreKept
  RestoreIsSafe
