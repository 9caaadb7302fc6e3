CONSTANTS
  n1 = n1 n2 = n2 v1 = v1 v2 = v2 i1 = i1 i2 = i2 i3 = i3
  NodeIds = {n1}
  EvidenceIds = {}
  EdgeIds = {}
  LinkIds = {}
  Endpoints <- MCLoop
  Values = {v1}
  Summaries = {v1}
  SnapshotIds = {i1, i2, i3}
  Readers = {r1}
  Exporters = {x1}
  None = None
SPECIFICATION Spec
PROPERTIES
  DerivedStateKept
  ImplementsGraphStore
