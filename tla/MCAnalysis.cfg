SPECIFICATION Spec

CONSTANTS
  c1 = c1
  c2 = c2
  Contents = {c1, c2}
  SizeOf <- MCSizeOf
  Granularity = 2
  Window = 2
  MaxClock = 5
  Missing = Missing

  Block = 3
  MaxWork = 7
  MaxNodes = 4
  MaxObservations = 2
  MaxStrings = 2
  MaxString = 1
  MaxOutput = 2
  TreeTime = 2
  StructuredTime = 1
  Amounts = {0, 1, 2, 4}
  MaxElapsed = 3
  MaxOutputs = 3

  Routers = {"a", "b", "c"}
  MountSets <- MCMountSets
  MaxMountDepth = 2
  MaxComposedPrefixes = 2

  Statics <- MCStatics
  Mixeds <- MCMixeds
  MixedMatches <- MCMixedMatches
  Routes <- MCRoutes
  Deployments <- MCDeployments
  Loopbacks = {"localhost"}
  DeclaredHosts <- MCDeclared
  Calls <- MCCalls
  MaxRoutes = 3

  GraphNodes <- MCNodes
  Declarations <- MCDeclarations
  AutomaticEdges <- MCEdges

  ImpactCases <- MCImpactCases
  TraversalCases <- MCTraversalCases

  TraceNodes = {1, 2, 3, 4}
  TraceGraphs <- MCTraceGraphs
  TraceDepths = {1, 2, 4}

  ClusterNodes = {1, 2, 3, 4}
  ClusterWeights <- MCWeights
  ClusterKeys <- MCKeys
  Resolutions = {1, 2}
  MaxIterations = 3

  Snapshots <- MCSnapshots

CHECK_DEADLOCK FALSE
INVARIANTS
  HitIsCurrentIfSettled
  BudgetHolds
  MountsCompose
  CallsFindTheirRoutes
  DeclarationsHold
  ImpactIsExact
  TraversalIsExact
  TraceIsExact
  DeltaIsExact
PROPERTIES
  ClusteringIsSound
