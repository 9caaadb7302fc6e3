CONSTANTS
  n1 = n1 n2 = n2 v1 = v1 v2 = v2 i1 = i1 i2 = i2 i3 = i3
  NodeIds = {n1, n2}
  EvidenceIds = {e1}
  EdgeIds = {d1}
  LinkIds = {l1}
  Endpoints <- MCEndpoints
  Values = {v1, v2}
  Summaries = {v1}
  SnapshotIds = {i1}
  Readers = {}
  Exporters = {}
  None = None
SPECIFICATION Spec
SYMMETRY MCValueSymmetry
INVARIANTS
  NeverBlockedByForeignKeys
  DeltaIsCandidate
