CONSTANTS
  w1 = w1 w2 = w2
  Watchers = {w1, w2}
  Existing = FALSE
  MaxInstance = 2
  Unset = Unset
  u1 = u1 u2 = u2
  Pool = {u1, u2}
  Units = 2
  DefaultPolicy <- BuiltInLimits
  Policy <- WorkspaceLimits
  Coalesce = 1
  Grace = 1
  MaxTime = 4
  None = None
SPECIFICATION Spec
CHECK_DEADLOCK FALSE
INVARIANTS
  VerdictIsTrue
PROPERTIES
  LeaseProtocol
  LimitsAreHonest
  SupervisionEnds
