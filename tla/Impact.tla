------------------------------- MODULE Impact -------------------------------
(***************************************************************************)
(* Impact analysis (core/src/impact.rs): a bounded breadth-first           *)
(* propagation from one target over the relationships of a snapshot, and   *)
(* the risk concluded from what it reached.                                *)
(*                                                                         *)
(* A node may be reached again along a path of better certainty and is     *)
(* then queued again, so the loop corrects its labels; it stops at a       *)
(* depth, a number of nodes or a number of examined relationships.         *)
(*                                                                         *)
(* Nodes are numbers and an edge's position in the sequence is the order   *)
(* of its identity.  Of the risk factors the model keeps consumers,        *)
(* fan-out, repositories, compatibility, criticality, tests and owners;    *)
(* services, centrality, communities and environments, terms of the same   *)
(* sum over the same nodes, are left out.  Weights are doubled, to stay    *)
(* with integers.                                                          *)
(***************************************************************************)
EXTENDS Integers, FiniteSets, Sequences, SequencesExt

CONSTANT
  ImpactCases   \* the requests, each with its graph and context

VARIABLES
  icase,        \* the request under analysis
  iqueue,       \* queue: [node, certainty, path]
  ibest,        \* best: node -> [certainty, depth]
  iitems,       \* items: node -> [certainty, path]
  icount,       \* [examined, possible, unknown]
  itruncation,  \* the bound that was met first, or "none"
  ireport       \* [level, score]; the level is "none" until it is built

impactVars == <<icase, iqueue, ibest, iitems, icount, itruncation, ireport>>

\* PathCertainty in the order of its declaration.
Confirmed == 0
Possible == 1
Unknown == 2

is_propagating(kind) == kind \notin {"validates", "owned_by"}

edge_certainty(e) ==
  CASE e.status = "confirmed" /\ e.confident -> Confirmed
    [] e.status \in {"stale", "incomplete"} -> Unknown
    [] OTHER -> Possible

\* The entries of a node: its relationships in the requested direction.
Entries(c, n) ==
  LET From(i) == [edge |-> i, next |-> c.edges[i].dst, reversed |-> FALSE]
      To(i) == [edge |-> i, next |-> c.edges[i].src, reversed |-> TRUE]
      along == IF c.direction = "upstream" THEN {} ELSE {i \in DOMAIN c.edges : c.edges[i].src = n}
      against == IF c.direction = "downstream" THEN {} ELSE {i \in DOMAIN c.edges : c.edges[i].dst = n}
  IN {From(i) : i \in along} \cup {To(i) : i \in against}

EntryOrder(a, b) ==
  \/ a.next < b.next
  \/ a.next = b.next /\ a.edge < b.edge
  \/ a.next = b.next /\ a.edge = b.edge /\ ~a.reversed /\ b.reversed

build_adjacency(c, n) == SetToSortSeq(Entries(c, n), EntryOrder)

KindOf(c, step) == c.edges[step.edge].kind

\* After a containment the walk does not come back through another one.
is_structural_direction_pivot(c, path, a) ==
  /\ path # <<>>
  /\ KindOf(c, Last(path)) = "contains" /\ KindOf(c, a) = "contains"
  /\ Last(path).reversed # a.reversed

Followed(c, path, a) ==
  is_propagating(KindOf(c, a)) /\ ~is_structural_direction_pivot(c, path, a)

-----------------------------------------------------------------------------
(* The loop                                                                *)

NoReport == [score |-> -1, level |-> "none"]

ImpactStart ==
  /\ iqueue = <<[node |-> icase.target, certainty |-> Confirmed, path |-> <<>>]>>
  /\ ibest = [n \in {icase.target} |-> <<Confirmed, 0>>]
  /\ iitems = [n \in {} |-> <<>>]
  /\ icount = [examined |-> 0, possible |-> 0, unknown |-> 0]
  /\ itruncation = "none"
  /\ ireport = NoReport

ImpactInit == icase \in ImpactCases /\ ImpactStart

\* The order of pairs (certainty, depth).
AtMost(p, q) == p[1] < q[1] \/ (p[1] = q[1] /\ p[2] <= q[2])

\* A path is as certain as its weakest relationship.
Weakest(p, q) == IF p > q THEN p ELSE q

Full(c, items) == Cardinality(DOMAIN items) >= c.node_limit

\* truncation.get_or_insert_with: the first bound met is the one reported.
Meets(t, bound) == IF t = "none" THEN bound ELSE t

With(f, n, v) == [m \in DOMAIN f \cup {n} |-> IF m = n THEN v ELSE f[m]]

\* The state of the loop while the entries of one node are visited: on is
\* FALSE once a bound broke out of the inner loop.
Visit(c, state, acc, a) ==
  LET depth == Len(state.path) + 1
      own == edge_certainty(c.edges[a.edge])
      certainty == Weakest(state.certainty, own)
      counted == [acc EXCEPT !.count.examined = @ + 1]
      weighed == [counted EXCEPT !.count.possible = @ + (IF own = Possible THEN 1 ELSE 0),
                                 !.count.unknown = @ + (IF own = Unknown THEN 1 ELSE 0)]
      path == Append(state.path, [edge |-> a.edge, from |-> state.node, to |-> a.next,
                                  reversed |-> a.reversed])
      known == a.next \in DOMAIN acc.best
  IN CASE ~acc.on \/ ~Followed(c, state.path, a) -> acc
       [] acc.on /\ Followed(c, state.path, a) /\ acc.count.examined >= c.edge_limit ->
            [counted EXCEPT !.on = FALSE, !.truncation = Meets(@, "edge_limit")]
       [] OTHER ->
            IF a.next = c.target \/ \E i \in DOMAIN state.path : state.path[i].to = a.next
              THEN counted
            ELSE IF known /\ AtMost(acc.best[a.next], <<certainty, depth>>)
              THEN weighed
            ELSE IF a.next \notin DOMAIN acc.items /\ Full(c, acc.items)
              THEN [weighed EXCEPT !.on = FALSE, !.truncation = Meets(@, "node_limit")]
            ELSE [weighed EXCEPT
                    !.best = With(@, a.next, <<certainty, depth>>),
                    !.items = With(@, a.next, [certainty |-> certainty, path |-> path]),
                    !.queue = Append(@, [node |-> a.next, certainty |-> certainty, path |-> path])]

\* At the depth bound: is there anything the walk would have gone on to?
MoreBeyond(c, state) ==
  \E a \in Entries(c, state.node) :
    /\ Followed(c, state.path, a)
    /\ \A i \in DOMAIN state.path : state.path[i].from # a.next

Looping == ireport = NoReport /\ iqueue # <<>> /\ itruncation \notin {"edge_limit", "node_limit"}

AtDepthBound ==
  /\ Looping /\ Len(Head(iqueue).path) = icase.max_depth
  /\ iqueue' = Tail(iqueue)
  /\ itruncation' = IF MoreBeyond(icase, Head(iqueue)) THEN Meets(itruncation, "max_depth")
                                                       ELSE itruncation
  /\ UNCHANGED <<icase, ibest, iitems, icount, ireport>>

Propagate ==
  /\ Looping /\ Len(Head(iqueue).path) < icase.max_depth
  /\ LET state == Head(iqueue)
         before == [queue |-> Tail(iqueue), best |-> ibest, items |-> iitems, count |-> icount,
                    truncation |-> itruncation, on |-> TRUE]
         after == FoldLeft(LAMBDA acc, a : Visit(icase, state, acc, a), before,
                           build_adjacency(icase, state.node))
     IN /\ iqueue' = after.queue
        /\ ibest' = after.best
        /\ iitems' = after.items
        /\ icount' = after.count
        /\ itruncation' = after.truncation
  /\ UNCHANGED <<icase, ireport>>

-----------------------------------------------------------------------------
(* Coverage and risk                                                       *)

Impacted(c, nodes) == nodes \cup {c.target}

RelevantRepositories(c, nodes) == {c.repo[n] : n \in Impacted(c, nodes)} \ {0}

\* Mutant: the bounds are not looked at.
SufficientWhenTruncated(c, nodes, count, truncation) ==
  /\ c.graph_complete
  /\ \A r \in RelevantRepositories(c, nodes) : c.freshness[r] = "fresh"
  /\ count.possible = 0 /\ count.unknown = 0
  /\ \A n \in Impacted(c, nodes) : c.compatibility[n] # "unknown"

sufficient_for_score(c, nodes, count, truncation) ==
  /\ c.graph_complete
  /\ \A r \in RelevantRepositories(c, nodes) : c.freshness[r] = "fresh"
  /\ count.possible = 0 /\ count.unknown = 0
  /\ \A n \in Impacted(c, nodes) : c.compatibility[n] # "unknown"
  /\ truncation = "none"

AtMostPoints(n, limit) == IF n < limit THEN n ELSE limit

Touching(c, kind, nodes) == \E i \in DOMAIN c.edges : c.edges[i].kind = kind /\ c.edges[i].src \in nodes

\* recommend_tests: a validates relationship from a test to an affected node.
Tested(c, nodes) == \E i \in DOMAIN c.edges : c.edges[i].kind = "validates" /\ c.edges[i].dst \in nodes

\* The sum of the factors for the affected nodes, direct of them confirmed
\* at depth one, in half points.
RiskSum(c, nodes, direct) ==
  LET all == Impacted(c, nodes)
      repositories == Cardinality(RelevantRepositories(c, nodes))
      Having(s) == Cardinality({n \in all : c.compatibility[n] = s})
  IN AtMostPoints(8 * Cardinality(direct), 48)
     + AtMostPoints(3 * Cardinality(nodes \ direct), 30)
     + (IF repositories > 1 THEN AtMostPoints(8 * (repositories - 1), 32) ELSE 0)
     + 60 * Having("breaking") + 36 * Having("potentially")
     + 110 * Cardinality(all \cap c.critical)
     + (IF nodes # {} /\ ~Tested(c, nodes) THEN 20 ELSE 0)
     + (IF nodes # {} /\ ~Touching(c, "owned_by", all) THEN 16 ELSE 0)

Clamp(points) == IF points < 2 THEN 2 ELSE AtMostPoints(points, 200)

Level(score, critical) ==
  CASE score >= 170 /\ critical -> "critical"
    [] score >= 100 /\ ~(score >= 170 /\ critical) -> "high"
    [] score >= 50 /\ score < 100 -> "medium"
    [] OTHER -> "low"

assess_risk(c, nodes, direct) ==
  LET score == Clamp(RiskSum(c, nodes, direct)) IN
  [score |-> score, level |-> Level(score, Impacted(c, nodes) \cap c.critical # {})]

DirectItems(items) == {n \in DOMAIN items : items[n].certainty = Confirmed /\ Len(items[n].path) = 1}

\* Once the loop is over: coverage_summary, then assess_risk.
ImpactReport ==
  /\ ireport = NoReport /\ ~Looping
  /\ ireport' = IF sufficient_for_score(icase, DOMAIN iitems, icount, itruncation)
                  THEN assess_risk(icase, DOMAIN iitems, DirectItems(iitems))
                  ELSE [score |-> -1, level |-> "unknown"]
  /\ UNCHANGED <<icase, iqueue, ibest, iitems, icount, itruncation>>

ImpactNext == AtDepthBound \/ Propagate \/ ImpactReport

ImpactSpec == ImpactInit /\ [][ImpactNext]_impactVars

-----------------------------------------------------------------------------
(* Reference: what the propagation is meant to find                        *)

\* The neighbours of S along propagating relationships of at most the
\* certainty q, for one direction only.
Step(c, q, S) ==
  {a.next : a \in {b \in UNION {Entries(c, n) : n \in S} :
                     is_propagating(KindOf(c, b)) /\ edge_certainty(c.edges[b.edge]) <= q}}

\* The nodes within d steps of the target, for d = 0, 1, ..., deepest.
Within(c, q, deepest) ==
  FoldLeft(LAMBDA balls, d : Append(balls, Last(balls) \cup Step(c, q, Last(balls))),
           <<{c.target}>>, [d \in 1..deepest |-> d])

Reachable(c, d) == Last(Within(c, Unknown, d))

\* The labels that paths of at most d steps give to n.
Labels(c, d, n) ==
  UNION {LET balls == Within(c, q, d) IN {<<q, k - 1>> : k \in {j \in DOMAIN balls : n \in balls[j]}} :
         q \in Confirmed..Unknown}

Finished == ireport # NoReport

Bound(c) == IF c.max_depth < c.nodes THEN c.max_depth ELSE c.nodes

-----------------------------------------------------------------------------
(* Properties                                                              *)

(* Type invariant: one label per item and none for the rest but the target,*)
(* never more items or examined relationships than the bounds allow (the   *)
(* count goes one past its bound when it stops the loop).                  *)
ImpactTypeOK ==
  /\ DOMAIN ibest = DOMAIN iitems \cup {icase.target}
  /\ icase.target \notin DOMAIN iitems
  /\ Cardinality(DOMAIN iitems) <= icase.node_limit
  /\ icount.examined <= icase.edge_limit + 1
  /\ itruncation \in {"none", "max_depth", "node_limit", "edge_limit"}

(* Every path in the report is one a reader can follow: it starts at the   *)
(* target, uses existing relationships in the direction it claims, visits  *)
(* no node twice, stays within the depth and has the certainty of its      *)
(* weakest relationship, although items are overwritten by better paths    *)
(* while extensions of the worse ones are still queued.                    *)
ImpactPathsReal ==
  \A n \in DOMAIN iitems :
    LET path == iitems[n].path IN
      /\ path # <<>> /\ Len(path) <= icase.max_depth
      /\ path[1].from = icase.target /\ Last(path).to = n
      /\ \A i \in DOMAIN path :
           /\ [edge |-> path[i].edge, next |-> path[i].to, reversed |-> path[i].reversed]
                \in Entries(icase, path[i].from)
           /\ i > 1 => path[i].from = path[i - 1].to
           /\ \A j \in DOMAIN path : j # i => path[j].to # path[i].to
           /\ edge_certainty(icase.edges[path[i].edge]) <= iitems[n].certainty
      /\ \E i \in DOMAIN path : edge_certainty(icase.edges[path[i].edge]) = iitems[n].certainty
                                \/ iitems[n].certainty = Confirmed
      /\ <<iitems[n].certainty, Len(path)>> = ibest[n]

(* When no count stopped the loop, the report lists exactly the nodes that *)
(* can be reached within the depth, each with the best certainty any path  *)
(* of that length has and the shortest such path.  Stated for the two      *)
(* single directions; in direction both the rule against turning round on  *)
(* a containment makes what is found depend on the order of identities.    *)
ImpactComplete ==
  Finished /\ icase.direction # "both" /\ itruncation \in {"none", "max_depth"} =>
    /\ DOMAIN iitems = Reachable(icase, Bound(icase)) \ {icase.target}
    /\ \A n \in DOMAIN iitems :
         LET labels == Labels(icase, Bound(icase), n) IN
           /\ ibest[n] \in labels
           /\ \A l \in labels : l[1] >= ibest[n][1] /\ (l[1] = ibest[n][1] => l[2] >= ibest[n][2])

(* A number is only concluded from the whole impact: whenever the report   *)
(* has a score, it is the score that the unbounded analysis of confirmed   *)
(* relationships would give, and no other kind of relationship leads       *)
(* anywhere else.  docs/IMPACT.md says that gaps never lower the risk.     *)
ScoreOfWholeImpact ==
  Finished /\ icase.direction # "both" /\ ireport.score # -1 =>
    LET whole == Reachable(icase, icase.nodes) \ {icase.target}
        direct == Step(icase, Confirmed, {icase.target}) \ {icase.target}
    IN ireport = assess_risk(icase, whole, direct)

(* The impact reported for a target is the set of nodes that real paths reach,
   each by its best path, and the score is that of the whole of it. *)
ImpactIsExact ==
  /\ ImpactTypeOK
  /\ ImpactPathsReal
  /\ ImpactComplete
  /\ ScoreOfWholeImpact

(* The same for direction both, where the walk may not turn round on a     *)
(* containment: a node is part of the whole impact when some walk within   *)
(* that rule reaches it.                                                   *)
LegalWalks(c) ==
  LET walks[d \in 0..c.nodes] ==
        IF d = 0 THEN {<<>>}
        ELSE walks[d - 1] \cup
             UNION {{Append(w, [edge |-> a.edge, from |-> IF w = <<>> THEN c.target ELSE Last(w).to,
                                to |-> a.next, reversed |-> a.reversed]) :
                       a \in {b \in Entries(c, IF w = <<>> THEN c.target ELSE Last(w).to) :
                                Followed(c, w, b) /\ b.next # c.target
                                /\ \A i \in DOMAIN w : w[i].to # b.next}} :
                    w \in walks[d - 1]}
  IN walks[c.nodes]

\* A score that is given covers every node such a walk reaches; the code drops
\* a later visit that is no better (impact.rs, traverse), so this fails.
ScoreOfWholeImpactBoth ==
  Finished /\ icase.direction = "both" /\ ireport.score # -1 =>
    DOMAIN iitems = {Last(w).to : w \in LegalWalks(icase) \ {<<>>}}

=============================================================================
