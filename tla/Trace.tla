-------------------------------- MODULE Trace --------------------------------
(***************************************************************************)
(* FederatedGraph::trace (core/src/trace.rs): the first breadth-first path *)
(* between two nodes along directed edges, which is read back from the     *)
(* parents recorded on the way.  An edge's position is the order of its    *)
(* identity.                                                               *)
(***************************************************************************)
EXTENDS Integers, FiniteSets, Sequences, SequencesExt

CONSTANTS
  TraceNodes,   \* 1..n
  TraceGraphs,  \* sequences of <<source, target>>
  TraceDepths   \* values of max_depth

VARIABLES
  graph, ends, max_depth,  \* the request: edges, <<from, to>>, bound
  pending,                 \* queue of <<node, depth>>
  visited, parents, truncated,
  outcome                  \* "open", "found" or "absent"

traceVars == <<graph, ends, max_depth, pending, visited, parents, truncated, outcome>>

outgoing(g, n) == {i \in DOMAIN g : g[i][1] = n}

Ascending(i, j) == i < j

TraceStart ==
  /\ pending = <<<<ends[1], 0>>>>
  /\ visited = {ends[1]}
  /\ parents = [n \in {} |-> 0]
  /\ truncated = FALSE
  /\ outcome = IF ends[1] = ends[2] THEN "found" ELSE "open"

TraceInit ==
  /\ graph \in TraceGraphs
  /\ ends \in TraceNodes \X TraceNodes
  /\ max_depth \in TraceDepths
  /\ TraceStart

\* A node at the bound that still has outgoing edges.
CutOff(node) == outgoing(graph, node) # {}

TraceBound ==
  /\ outcome = "open" /\ pending # <<>> /\ Head(pending)[2] >= max_depth
  /\ pending' = Tail(pending)
  /\ truncated' = (truncated \/ CutOff(Head(pending)[1]))
  /\ UNCHANGED <<graph, ends, max_depth, visited, parents, outcome>>

\* Mutant: a later edge into a visited node replaces its parent.
Overwrites(depth, acc, i) ==
  LET next == graph[i][2] IN
  IF acc.found THEN acc
  ELSE [visited |-> acc.visited \cup {next},
        parents |-> [n \in DOMAIN acc.parents \cup {next} |-> IF n = next THEN i ELSE acc.parents[n]],
        found |-> next = ends[2],
        queue |-> IF next \in acc.visited \/ next = ends[2] THEN acc.queue
                                                            ELSE Append(acc.queue, <<next, depth + 1>>)]

\* One edge of the inner loop: the target ends it.
Follow(depth, acc, i) ==
  LET next == graph[i][2] IN
  IF acc.found \/ next \in acc.visited THEN acc
  ELSE [visited |-> acc.visited \cup {next},
        parents |-> [n \in DOMAIN acc.parents \cup {next} |-> IF n = next THEN i ELSE acc.parents[n]],
        found |-> next = ends[2],
        queue |-> IF next = ends[2] THEN acc.queue ELSE Append(acc.queue, <<next, depth + 1>>)]

TraceStep ==
  /\ outcome = "open" /\ pending # <<>> /\ Head(pending)[2] < max_depth
  /\ LET node == Head(pending)[1]
         depth == Head(pending)[2]
         start == [visited |-> visited, parents |-> parents, found |-> FALSE, queue |-> Tail(pending)]
         result == FoldLeft(LAMBDA acc, i : Follow(depth, acc, i), start,
                            SetToSortSeq(outgoing(graph, node), Ascending))
     IN /\ visited' = result.visited
        /\ parents' = result.parents
        /\ pending' = result.queue
        /\ outcome' = IF result.found THEN "found" ELSE "open"
  /\ UNCHANGED <<graph, ends, max_depth, truncated>>

TraceAbsent ==
  /\ outcome = "open" /\ pending = <<>>
  /\ outcome' = "absent"
  /\ UNCHANGED <<graph, ends, max_depth, pending, visited, parents, truncated>>

TraceNext == TraceBound \/ TraceStep \/ TraceAbsent

TraceSpec == TraceInit /\ [][TraceNext]_traceVars

\* reconstruct: the edges from the target back to the start, reversed; the
\* walk is as long as the number of nodes at most when it is consistent.
reconstruct ==
  LET Back(acc, k) ==
        IF acc.at = ends[1] \/ acc.at \notin DOMAIN parents THEN acc
        ELSE [at |-> graph[parents[acc.at]][1], path |-> <<parents[acc.at]>> \o acc.path]
  IN FoldLeft(Back, [at |-> ends[2], path |-> <<>>], [k \in 1..Cardinality(TraceNodes) |-> k])

-----------------------------------------------------------------------------
(* Reference: the distance of every node from the start.                   *)
TraceBall(d) ==
  FoldLeft(LAMBDA S, k : S \cup {graph[i][2] : i \in {j \in DOMAIN graph : graph[j][1] \in S}},
           {ends[1]}, [k \in 1..d |-> k])

(* The path read back from the parents is consistent (the walk reaches the *)
(* start: the error of reconstruct cannot occur), is within the bound and  *)
(* is the shortest there is, whatever the order of identities.             *)
TraceIsShortest ==
  outcome = "found" =>
    /\ reconstruct.at = ends[1]
    /\ Len(reconstruct.path) <= max_depth
    /\ \A d \in 0..Len(reconstruct.path) - 1 : ends[2] \notin TraceBall(d)

(* A path is missed only beyond the bound, and a report without a path     *)
(* that is not marked truncated means there is none of any length.         *)
TraceMissesNothing ==
  outcome = "absent" =>
    /\ ends[2] \notin TraceBall(max_depth)
    /\ ~truncated => ends[2] \notin TraceBall(Cardinality(TraceNodes))

(* A trace is a shortest chain between its ends, and none is reported only when
   there is none within the depth. *)
TraceIsExact ==
  /\ TraceIsShortest
  /\ TraceMissesNothing

=============================================================================
