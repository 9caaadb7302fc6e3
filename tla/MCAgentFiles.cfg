CONSTANTS
  Hosts = {h1, h2}
  JsonHosts = {h1}
  Gates = {g1}
  MaxEdits = 1
  Names = {n1, n2}
  Builds = {b1, b2}
  Databases = {d1, d2}
  MaxFaults = 2
  MaxChanges = 1
SPECIFICATION MCSpec
INVARIANTS
  CompletedCommandHolds
  RepairAccepted
PROPERTIES
  OthersKept
  FailureChangesNothing
