------------------------------ MODULE Traversal ------------------------------
(***************************************************************************)
(* Confirmed-path queries (core/src/query.rs, traverse): breadth first,    *)
(* cheapest path, or the k cheapest loopless paths between two nodes,      *)
(* within bounds on depth, repository crossings, observed nodes, examined  *)
(* relationships and time.                                                 *)
(*                                                                         *)
(* Nodes are numbers and an edge's position is the order of its identity.  *)
(* An edge has a positive cost (its base cost divided by its confidence),  *)
(* passes the filters of the request or not, and is confirmed or not; a    *)
(* node passes them or not.  The clock may run out before any node or      *)
(* relationship is looked at.                                              *)
(***************************************************************************)
EXTENDS Integers, FiniteSets, Sequences, SequencesExt

CONSTANT
  TraversalCases   \* the requests, each with its graph

VARIABLES
  tcase,       \* the request
  tstates,     \* queue or candidates: [nodes, steps, weight, cross]
  tpaths,      \* the paths found so far
  tobserved,   \* observed_nodes
  texamined,   \* examined_edges
  tgaps,       \* the bounds that stopped something; truncated says whether any did
  tdone        \* the report is built

traversalVars == <<tcase, tstates, tpaths, tobserved, texamined, tgaps, tdone>>

Start(c) == [nodes |-> <<c.start>>, steps |-> <<>>, weight |-> 0, cross |-> 0]

\* graph.adjacent, in the order of identities, each direction once.
Adjacent(c, n) ==
  LET Out(i) == [edge |-> i, next |-> c.edges[i].dst, reversed |-> FALSE]
      In(i) == [edge |-> i, next |-> c.edges[i].src, reversed |-> TRUE]
      outgoing == IF c.direction = "incoming" THEN {} ELSE {i \in DOMAIN c.edges : c.edges[i].src = n}
      incoming == IF c.direction = "outgoing" THEN {} ELSE {i \in DOMAIN c.edges : c.edges[i].dst = n}
  IN {Out(i) : i \in outgoing} \cup {In(i) : i \in incoming}

adjacent_order(a, b) ==
  \/ a.edge < b.edge
  \/ a.edge = b.edge /\ a.next < b.next
  \/ a.edge = b.edge /\ a.next = b.next /\ ~a.reversed /\ b.reversed

adjacent(c, n) == SetToSortSeq(Adjacent(c, n), adjacent_order)

Crosses(c, m, n) == IF c.repo[m] # c.repo[n] THEN 1 ELSE 0

\* PathState::extended.
extended(c, s, a) ==
  [nodes |-> Append(s.nodes, a.next), steps |-> Append(s.steps, a),
   weight |-> s.weight + c.edges[a.edge].weight,
   cross |-> s.cross + Crosses(c, Last(s.nodes), a.next)]

TooManyCrossings(c, s, a) == s.cross + Crosses(c, Last(s.nodes), a.next) > c.max_cross

\* Filters, status and looplessness: what an examined relationship must
\* have before bounds are considered.
Eligible(c, s, a) ==
  /\ c.edges[a.edge].passes /\ c.edges[a.edge].confirmed
  /\ a.next \notin ToSet(s.nodes) /\ c.allowed[a.next]

NodesFull(c, observed) == Cardinality(observed) >= c.node_limit

\* One turn of the loop of expand_bfs_state and expand_weighted_state.
Examine(c, s, acc, a) ==
  LET counted == [acc EXCEPT !.examined = @ + 1] IN
  CASE ~acc.on -> acc
    [] acc.on /\ acc.examined >= c.edge_limit -> [acc EXCEPT !.on = FALSE, !.gaps = @ \cup {"edges"}]
    [] OTHER ->
         IF ~Eligible(c, s, a) THEN counted
         ELSE IF TooManyCrossings(c, s, a) THEN [counted EXCEPT !.gaps = @ \cup {"crossings"}]
         ELSE IF a.next \notin acc.observed /\ NodesFull(c, acc.observed)
           THEN [counted EXCEPT !.gaps = @ \cup {"nodes"}]
         ELSE [counted EXCEPT !.observed = @ \cup {a.next}, !.new = Append(@, extended(c, s, a))]

\* Lexicographic order of two different sequences.
Before(p, q) ==
  \/ IsStrictPrefix(p, q)
  \/ \E i \in DOMAIN p \cap DOMAIN q : p[i] < q[i] /\ \A j \in 1..i - 1 : p[j] = q[j]

EdgeIds(s) == [i \in DOMAIN s.steps |-> s.steps[i].edge]
Turns(s) == [i \in DOMAIN s.steps |-> IF s.steps[i].reversed THEN 1 ELSE 0]

path_state_order(s, t) ==
  \/ s.weight < t.weight
  \/ s.weight = t.weight /\ Before(s.nodes, t.nodes)
  \/ s.weight = t.weight /\ s.nodes = t.nodes /\ Before(EdgeIds(s), EdgeIds(t))
  \/ s.weight = t.weight /\ s.nodes = t.nodes /\ EdgeIds(s) = EdgeIds(t) /\ Before(Turns(s), Turns(t))

select_best_state(states) ==
  CHOOSE i \in DOMAIN states : \A j \in DOMAIN states : ~path_state_order(states[j], states[i])

\* Mutant: the last state is taken first.
DepthFirst(c, states) == IF c.algorithm = "bfs" THEN Len(states) ELSE select_best_state(states)

Selected(c, states) == IF c.algorithm = "bfs" THEN 1 ELSE select_best_state(states)

Wanted(c) == IF c.algorithm = "k_shortest" THEN c.k ELSE 1

\* The same identities from the same start make the same path.
path_order(s, t) ==
  \/ s.weight < t.weight
  \/ s.weight = t.weight /\ Len(s.steps) < Len(t.steps)
  \/ s.weight = t.weight /\ Len(s.steps) = Len(t.steps) /\ Before(EdgeIds(s), EdgeIds(t))

-----------------------------------------------------------------------------
TraversalStart ==
  /\ tstates = IF tcase.start = tcase.target THEN <<>> ELSE <<Start(tcase)>>
  /\ tpaths = IF tcase.start = tcase.target THEN <<Start(tcase)>> ELSE <<>>
  /\ tobserved = {tcase.start}
  /\ texamined = 0
  /\ tgaps = {}
  /\ tdone = FALSE

TraversalInit == tcase \in TraversalCases /\ TraversalStart

Searching == ~tdone /\ tstates # <<>> /\ Len(tpaths) < Wanted(tcase)

Popped == tstates[Selected(tcase, tstates)]
Others == RemoveAt(tstates, Selected(tcase, tstates))

\* The clock is read before a state is taken.
TimeOut ==
  /\ Searching
  /\ tgaps' = tgaps \cup {"time"}
  /\ tpaths' = SortSeq(tpaths, path_order)
  /\ tdone' = TRUE
  /\ UNCHANGED <<tcase, tstates, tobserved, texamined>>

Found ==
  /\ Searching /\ Last(Popped.nodes) = tcase.target
  /\ tpaths' = Append(tpaths, Popped)
  /\ tstates' = Others
  /\ UNCHANGED <<tcase, tobserved, texamined, tgaps, tdone>>

TooDeep ==
  /\ Searching /\ Last(Popped.nodes) # tcase.target
  /\ Len(Popped.steps) >= tcase.max_depth
  /\ tstates' = Others
  /\ tgaps' = tgaps \cup {"depth"}
  /\ UNCHANGED <<tcase, tpaths, tobserved, texamined, tdone>>

\* The clock is read again before each relationship: only the first cut of
\* them may be examined.
Expand ==
  /\ Searching /\ Last(Popped.nodes) # tcase.target
  /\ Len(Popped.steps) < tcase.max_depth
  /\ LET all == adjacent(tcase, Last(Popped.nodes)) IN
     \E cut \in 0..Len(all) :
       LET before == [observed |-> tobserved, examined |-> texamined, gaps |-> tgaps, new |-> <<>>, on |-> TRUE]
           after == FoldLeft(LAMBDA acc, a : Examine(tcase, Popped, acc, a), before, SubSeq(all, 1, cut))
       IN /\ tstates' = Others \o after.new
          /\ tobserved' = after.observed
          /\ texamined' = after.examined
          /\ tgaps' = after.gaps \cup (IF cut < Len(all) /\ after.on THEN {"time"} ELSE {})
          /\ tdone' = (cut < Len(all) /\ after.on)
          /\ tpaths' = IF tdone' THEN SortSeq(tpaths, path_order) ELSE tpaths
  /\ UNCHANGED tcase

\* The loop is over; weighted paths are sorted once more.
TraversalReport ==
  /\ ~tdone /\ ~Searching
  /\ tpaths' = SortSeq(tpaths, path_order)
  /\ tdone' = TRUE
  /\ UNCHANGED <<tcase, tstates, tobserved, texamined, tgaps>>

TraversalNext == TimeOut \/ Found \/ TooDeep \/ Expand \/ TraversalReport

TraversalSpec == TraversalInit /\ [][TraversalNext]_traversalVars

-----------------------------------------------------------------------------
(* Reference: the loopless paths within the depth and the crossings.       *)
LooplessPaths(c) ==
  LET Grow(S) == S \cup UNION {{extended(c, s, a) : a \in {b \in Adjacent(c, Last(s.nodes)) :
                                  /\ c.edges[b.edge].passes /\ c.edges[b.edge].confirmed
                                  /\ b.next \notin ToSet(s.nodes) /\ c.allowed[b.next]
                                  /\ s.cross + Crosses(c, Last(s.nodes), b.next) <= c.max_cross}} :
                              s \in {t \in S : Last(t.nodes) # c.target}}
  IN {s \in FoldLeft(LAMBDA S, d : Grow(S), {Start(c)}, [d \in 1..c.max_depth |-> d]) :
        Last(s.nodes) = c.target}

-----------------------------------------------------------------------------
(* Properties                                                              *)

(* Type invariant: the bounds on nodes, relationships and paths are never  *)
(* exceeded.                                                               *)
TraversalTypeOK ==
  /\ Cardinality(tobserved) <= tcase.node_limit
  /\ texamined <= tcase.edge_limit
  /\ Len(tpaths) <= Wanted(tcase)
  /\ tgaps \subseteq {"depth", "crossings", "nodes", "edges", "time"}
  /\ tdone \in BOOLEAN

(* Whatever bound or timeout interferes, a reported path is a loopless     *)
(* walk over confirmed relationships within the depth and the number of    *)
(* crossings, and no path is reported twice.                               *)
ReportedPathsReal ==
  /\ \A p \in ToSet(tpaths) : p \in LooplessPaths(tcase)
  /\ \A i, j \in DOMAIN tpaths : tpaths[i] = tpaths[j] => i = j

(* The cheapest paths come first: no candidate that is still open, or      *)
(* that the search gave up on later, costs less than a path it returned,   *)
(* although candidates are found in any order of cost.                     *)
BestFirst ==
  tcase.algorithm # "bfs" =>
    \A p \in ToSet(tpaths), s \in ToSet(tstates) : p.weight <= s.weight

(* Unless a count or the clock stopped the search, the answer is exact:    *)
(* a breadth-first query finds a path exactly when there is one, and then  *)
(* with the fewest segments; a weighted query returns as many paths as     *)
(* were asked for and exist, and every path it leaves out costs at least   *)
(* as much.                                                                *)
AnswerIsExact ==
  tdone /\ tgaps \subseteq {"depth", "crossings"} =>
    LET all == LooplessPaths(tcase) IN
      IF tcase.algorithm = "bfs"
        THEN /\ (tpaths = <<>>) <=> (all = {})
             /\ \A p \in ToSet(tpaths), q \in all : Len(p.steps) <= Len(q.steps)
        ELSE /\ Len(tpaths) = IF Cardinality(all) < Wanted(tcase) THEN Cardinality(all) ELSE Wanted(tcase)
             /\ \A p \in ToSet(tpaths), q \in all \ ToSet(tpaths) : p.weight <= q.weight

(* An empty report that does not say truncated means there is no path at   *)
(* all, of any length and with any number of crossings: a reader may take  *)
(* the flag, and nothing else, as the limit of the search.                 *)
UntruncatedEmptyMeansNone ==
  tdone /\ tgaps = {} /\ tpaths = <<>> =>
    LET size == Len(tcase.repo) IN
      LooplessPaths([tcase EXCEPT !.max_depth = size, !.max_cross = size]) = {}

(* The paths reported are real, come best first, and are all that was asked for
   unless a gap says otherwise. *)
TraversalIsExact ==
  /\ TraversalTypeOK
  /\ ReportedPathsReal
  /\ BestFirst
  /\ AnswerIsExact
  /\ UntruncatedEmptyMeansNone

=============================================================================
