SPECIFICATION Spec
\* A server that exited, and a provider that shut down, stop.
CHECK_DEADLOCK FALSE
CONSTANTS
  r1 = r1
  r2 = r2
  a1 = a1
  a2 = a2
  a3 = a3
  c1 = c1
  c2 = c2
  p1 = p1
  p2 = p2
  Requests = {r1, r2}
  Limits = {1, 2}
  ExplorePermits = 1
  RequestTimeout = 1
  WallTimes = {1, 2}
  Clients = {a1, a2, a3}
  Window = 2
  Limit = 1
  MaxClients = 2
  MaxAdmitted = 3
  Calls = {c1, c2}
  Repositories = {p1, p2}
  Permits = {1}
  Budget = 1
  Cooldown = 1
INVARIANTS
  ExploreIsSound
PROPERTIES
  
  ProviderIsHonest
  ServingCompletes
  CallsReturn
