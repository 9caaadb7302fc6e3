CONSTANTS
  r1 = r1 r2 = r2 a1 = a1 a2 = a2
  Repos = {r1, r2}
  Artifacts = {a1, a2}
  RepoOf <- MCRepoOf
  Contents = {0, 1, 2, 3}
  Absent = {0, 3}
  Settings <- MCSettings
  None = None
SPECIFICATION Spec
INVARIANTS
  ScanIsExact
  IdentityIsHonest
PROPERTIES
  UnselectedRetained
