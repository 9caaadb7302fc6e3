----------------------------- MODULE MCAnalysis -----------------------------
(***************************************************************************)
(* The algorithms between the files and the answers, side by side:         *)
(*   - the stat cache that decides which files are read, the budgets their *)
(*     extraction is held to;                                              *)
(*   - graph assembly: router mounts, route links, manual links;           *)
(*   - graph queries: impact, traversal, trace, communities and the        *)
(*     comparison of communities.                                          *)
(* A behaviour runs one of them on one input, as the initial state says;   *)
(* the others have an input of their own and do nothing with it.           *)
(***************************************************************************)
EXTENDS FileStats, ExtractionBudget, RouterMounts, RouteLinks, ManualLinks,
        Impact, Traversal, Trace, Communities, CommunityDelta

CONSTANTS c1, c2     \* FileStats

VARIABLE part

Idle(S) == CHOOSE x \in S : TRUE

-----------------------------------------------------------------------------
(* FileStats: two contents of one size, which only time stamps tell apart. *)
MCSizeOf == [c \in Contents |-> 1]

-----------------------------------------------------------------------------
(* RouterMounts: up to four mounts of three routers.                       *)
Mountings ==
  {m \in [child : Routers, parent : Routers \cup {NoParent},
          prefix : {<<>>, <<1>>}] : m.child # m.parent}

MCMountSets == {{a, b, c, d} : a, b, c, d \in Mountings}

-----------------------------------------------------------------------------
(* RouteLinks: static, mixed, parameter and rest segments that overlap.    *)
MCStatics == {"ab", "c"}

MCMixeds == {"a{}", "{}b"}

MCMixedMatches == {<<"a{}", "ab">>, <<"{}b", "ab">>}

Firsts == {"ab", "a{}", "{}b", "param"}

MCRoutes ==
  [repo : {"api"},
   shape : {<<s>> : s \in Firsts \cup {"rest"}}
           \cup {<<s, t>> : s \in Firsts, t \in {"c", "rest"}}]
  \cup
  [repo : {"web"},
   shape : {<<"ab">>, <<"param">>, <<"ab", "c">>, <<"rest">>, <<"param", "c">>}]

MCDeployments ==
  {[document |-> 1, host |-> "orders", repo |-> "api"],
   [document |-> 2, host |-> "orders", repo |-> "web"],
   [document |-> 3, host |-> "orders", repo |-> "api"]}

MCDeclared == [h \in {"billing", "localhost"} |-> "web"]

Queries == {<<>>, <<"ab">>, <<"param">>, <<"ab", "c">>, <<"a{}", "c">>,
            <<"ab", "ab", "c">>}

MCCalls ==
  [repo : {"api"}, shape : Queries,
   scope : {"workspace", "in_process", "external"}, host : {"none"}]
  \cup
  [repo : {"api"}, shape : Queries, scope : {"authority"},
   host : {"orders", "billing", "elsewhere", "localhost"}]

-----------------------------------------------------------------------------
(* ManualLinks: identities 1 to 3, keys 11 and 12, and 9 for no node.      *)
MCNodes == {[id |-> 1, key |-> 11], [id |-> 2, key |-> 12],
            [id |-> 3, key |-> 12]}

Declared == [from : {1, 2, 11}, to : {2, 3, 11, 12, 9}, relation : {1},
             suppress : BOOLEAN]

MCDeclarations ==
  {<<>>} \cup {<<l>> : l \in Declared} \cup {<<l, m>> : l, m \in Declared}

Found1 == [source : {1, 2}, target : {2, 3}, kind : {1},
           origin : {"spec", "source"}]

MCEdges ==
  {s \in SUBSET {e \in Found1 : e.source # e.target} : Cardinality(s) <= 2}

-----------------------------------------------------------------------------
(* Impact: four edges of four certainties over three shapes, with each     *)
(* bound met or not; node 4 belongs to no repository.                      *)
Rel(k, s, c) == [kind |-> k, status |-> s, confident |-> c]
Certainties == {Rel("calls", "confirmed", TRUE), Rel("contains", "confirmed", TRUE),
                Rel("calls", "confirmed", FALSE), Rel("calls", "stale", TRUE)}

ImpactShapes == {<<<<1, 2>>, <<2, 4>>, <<1, 3>>, <<3, 4>>>>,
                 <<<<1, 2>>, <<2, 3>>, <<3, 4>>, <<1, 3>>>>,
                 <<<<1, 2>>, <<2, 3>>, <<3, 1>>, <<4, 2>>>>}

ImpactEdges(shape, attrs) ==
  [i \in 1..4 |-> [src |-> shape[i][1], dst |-> shape[i][2], kind |-> attrs[i].kind,
                   status |-> attrs[i].status, confident |-> attrs[i].confident]]

\* Depth, nodes, edges.
ImpactLimits == {<<4, 9, 9>>, <<2, 9, 9>>, <<4, 2, 9>>, <<4, 9, 3>>}

MCImpactCases ==
  {[nodes |-> 4, edges |-> ImpactEdges(shape, attrs), target |-> target,
    direction |-> dir, max_depth |-> l[1], node_limit |-> l[2],
    edge_limit |-> l[3], repo |-> <<1, 1, 2, 0>>,
    freshness |-> <<"fresh", "fresh">>, graph_complete |-> TRUE,
    compatibility |-> <<"compatible", "breaking", "none", "none">>,
    critical |-> {4}] :
   shape \in ImpactShapes, attrs \in [1..4 -> Certainties], target \in {1, 2},
   dir \in {"downstream", "upstream", "both"}, l \in ImpactLimits}

-----------------------------------------------------------------------------
(* Traversal: five edges over two shapes, light, heavy or unconfirmed.     *)
TRel(w, ok) == [weight |-> w, confirmed |-> ok]

TShapes == {<<<<1, 2>>, <<2, 4>>, <<1, 3>>, <<3, 4>>, <<2, 3>>>>,
            <<<<1, 3>>, <<3, 2>>, <<2, 4>>, <<1, 4>>, <<4, 3>>>>}

TEdges(shape, attrs) ==
  [i \in 1..5 |-> [src |-> shape[i][1], dst |-> shape[i][2], passes |-> TRUE,
                   weight |-> attrs[i].weight, confirmed |-> attrs[i].confirmed]]

Searches == {<<"bfs", 1>>, <<"dijkstra", 1>>, <<"k_shortest", 2>>}

\* Depth, crossings, nodes, edges.
TLimits == {<<3, 3, 9, 99>>, <<2, 3, 9, 99>>, <<3, 1, 9, 99>>, <<3, 3, 2, 99>>,
            <<3, 3, 9, 2>>}

MCTraversalCases ==
  {[edges |-> TEdges(shape, attrs), start |-> 1, target |-> 4,
    direction |-> dir, repo |-> <<1, 2, 1, 2>>,
    allowed |-> <<TRUE, TRUE, TRUE, TRUE>>, algorithm |-> how[1], k |-> how[2],
    max_depth |-> l[1], max_cross |-> l[2], node_limit |-> l[3],
    edge_limit |-> l[4]] :
   shape \in TShapes,
   attrs \in [1..5 -> {TRel(1, TRUE), TRel(3, TRUE), TRel(1, FALSE)}],
   dir \in {"outgoing", "both"}, how \in Searches, l \in TLimits}

-----------------------------------------------------------------------------
(* Trace: two fixed starts and two free edges.                             *)
MCTraceGraphs ==
  {<<a, b, c, d>> : a \in {<<1, 2>>, <<1, 3>>}, b \in {<<2, 3>>, <<2, 1>>},
                    c \in (1..4) \X (1..4), d \in {<<3, 4>>, <<4, 3>>, <<2, 4>>}}

-----------------------------------------------------------------------------
(* Communities: weights of four nodes, with a loop, and three orders.      *)
NodePairs == {p \in ClusterNodes \X ClusterNodes : p[1] <= p[2]}

MCWeights ==
  {w \in [NodePairs -> 0..2] :
     /\ \A n \in ClusterNodes : w[<<n, n>>] = IF n = 1 THEN w[<<2, 3>>] ELSE 0
     /\ w[<<1, 2>>] < 2}

MCKeys == {<<1, 2, 3, 4>>, <<3, 1, 4, 2>>, <<4, 3, 2, 1>>}

-----------------------------------------------------------------------------
(* CommunityDelta: the partitions of subsets of five members, from         *)
(* labellings in which 0 leaves a member out.                              *)
Snapshot(f) ==
  SetToSortSeq({{n \in 1..5 : f[n] = l} : l \in {f[n] : n \in 1..5} \ {0}},
               LAMBDA S, T : \E m \in S : \A n \in T : m < n)

MCSnapshots == {Snapshot(f) : f \in [1..5 -> 0..2]}

-----------------------------------------------------------------------------
(* One part runs; the inputs of the others are fixed, and chosen once.     *)
RestMounts == {Idle(MountSets)}
RestLinks == {Idle(Declarations)}
RestEdges == {Idle(AutomaticEdges)}
RestImpact == {Idle(ImpactCases)}
RestTraversal == {Idle(TraversalCases)}
RestGraph == {Idle(TraceGraphs)}
RestWeight == {Idle(ClusterWeights)}
RestKey == {Idle(ClusterKeys)}
RestSnapshot == {Idle(Snapshots)}

InputOf(p, inputs, rest) == IF part = p THEN inputs ELSE rest

Init ==
  /\ part \in {"stats", "budget", "mounts", "routes", "links", "impact",
               "traversal", "trace", "communities", "delta"}
  /\ StatsInit
  /\ stage \in InputOf("budget", {"syntax", "structured"}, {"syntax"}) /\ BudgetInit
  /\ mounts \in InputOf("mounts", MountSets, RestMounts) /\ prefixes = <<>>
  /\ RouteInit
  /\ links \in InputOf("links", Declarations, RestLinks)
  /\ automatic \in InputOf("links", AutomaticEdges, RestEdges) /\ LinkStart
  /\ icase \in InputOf("impact", ImpactCases, RestImpact) /\ ImpactStart
  /\ tcase \in InputOf("traversal", TraversalCases, RestTraversal) /\ TraversalStart
  /\ graph \in InputOf("trace", TraceGraphs, RestGraph)
  /\ ends \in InputOf("trace", TraceNodes \X TraceNodes, {<<1, 2>>})
  /\ max_depth \in InputOf("trace", TraceDepths, {1}) /\ TraceStart
  /\ algorithm \in InputOf("communities", {"components", "labels", "louvain"},
                           {"labels"})
  /\ weight \in InputOf("communities", ClusterWeights, RestWeight)
  /\ key \in InputOf("communities", ClusterKeys, RestKey)
  /\ resolution \in InputOf("communities", Resolutions, {1}) /\ ClusterStart
  /\ before \in InputOf("delta", Snapshots, RestSnapshot)
  /\ after \in InputOf("delta", Snapshots, RestSnapshot) /\ delta = NotCompared

filesVars == <<statVars, budgetVars>>
assemblyVars == <<mountVars, routeVars, linkVars>>
pathVars == <<impactVars, traversalVars, traceVars>>
groupVars == <<clusterVars, deltaVars>>

StatsStep == /\ part = "stats" /\ StatsNext
             /\ UNCHANGED <<budgetVars, assemblyVars, pathVars, groupVars, part>>
BudgetStep == /\ part = "budget" /\ BudgetNext
              /\ UNCHANGED <<statVars, assemblyVars, pathVars, groupVars, part>>
MountsStep == /\ part = "mounts" /\ MountNext
              /\ UNCHANGED <<filesVars, routeVars, linkVars, pathVars, groupVars, part>>
RoutesStep == /\ part = "routes" /\ RouteNext
              /\ UNCHANGED <<filesVars, mountVars, linkVars, pathVars, groupVars, part>>
LinksStep == /\ part = "links" /\ LinkNext
             /\ UNCHANGED <<filesVars, mountVars, routeVars, pathVars, groupVars, part>>
ImpactStep == /\ part = "impact" /\ ImpactNext
              /\ UNCHANGED <<filesVars, assemblyVars, traversalVars, traceVars, groupVars, part>>
TraversalStep == /\ part = "traversal" /\ TraversalNext
                 /\ UNCHANGED <<filesVars, assemblyVars, impactVars, traceVars, groupVars, part>>
TraceWalk == /\ part = "trace" /\ TraceNext
             /\ UNCHANGED <<filesVars, assemblyVars, impactVars, traversalVars, groupVars, part>>
CommunitiesStep == /\ part = "communities" /\ ClusterNext
                   /\ UNCHANGED <<filesVars, assemblyVars, pathVars, deltaVars, part>>
DeltaStep == /\ part = "delta" /\ Compare
             /\ UNCHANGED <<filesVars, assemblyVars, pathVars, clusterVars, part>>

Next == \/ StatsStep \/ BudgetStep \/ MountsStep \/ RoutesStep \/ LinksStep
        \/ ImpactStep \/ TraversalStep \/ TraceWalk \/ CommunitiesStep \/ DeltaStep

Spec == Init /\ [][Next]_<<filesVars, assemblyVars, pathVars, groupVars, part>>
=============================================================================
