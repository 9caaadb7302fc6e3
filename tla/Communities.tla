----------------------------- MODULE Communities -----------------------------
(***************************************************************************)
(* Clustering of the graph (core/src/communities.rs): connected            *)
(* components, weighted label propagation and the local moving phase of    *)
(* Louvain, each one node at a time.  Nodes are numbers; a label is the    *)
(* number of a node.  Weights and the resolution are integers and gains    *)
(* are multiplied by 2 m^2, so the comparisons are exact where the code    *)
(* compares floats up to an epsilon.  The seeded hash that orders nodes    *)
(* and breaks ties is any one-to-one key.                                  *)
(***************************************************************************)
EXTENDS Integers, FiniteSets, Sequences, SequencesExt

CONSTANTS
  ClusterNodes,     \* 1..n
  ClusterWeights,   \* weights: pairs <<a, b>>, a <= b -> Nat
  ClusterKeys,      \* seeded orders: nodes -> distinct numbers
  Resolutions,      \* values of resolution
  MaxIterations     \* max_iterations

VARIABLES
  algorithm, weight, key, resolution,   \* the request
  assignment,        \* assignments: node -> label, 0 for none yet
  total_degree,      \* community_degree
  members,           \* members
  empty,             \* empty
  turn, round, changed,  \* position in the order, iteration, did it move a node
  stack,             \* pending of connected_components
  clustered          \* the assignment is final

clusterVars == <<algorithm, weight, key, resolution, assignment, total_degree, members, empty,
                 turn, round, changed, stack, clustered>>

Pair(m, n) == IF m <= n THEN <<m, n>> ELSE <<n, m>>
Link(w, m, n) == w[Pair(m, n)]
Neighbors(w, n) == {m \in ClusterNodes \ {n} : Link(w, m, n) > 0}

\* A loop counts twice towards the degree of its node.
weighted_degree(w, n) ==
  2 * Link(w, n, n) + FoldSet(LAMBDA m, sum : sum + Link(w, m, n), 0, ClusterNodes \ {n})

total(w) == FoldSet(LAMBDA p, sum : sum + w[p], 0, DOMAIN w)

Node(k, i) == CHOOSE n \in ClusterNodes : Cardinality({m \in ClusterNodes : k[m] <= k[n]}) = i

Size == Cardinality(ClusterNodes)

ClusterStart ==
  /\ assignment = [n \in ClusterNodes |-> IF algorithm = "components" THEN 0 ELSE n]
  /\ total_degree = [n \in ClusterNodes |-> weighted_degree(weight, n)]
  /\ members = [n \in ClusterNodes |-> 1]
  /\ empty = {}
  /\ turn = 1 /\ round = 1 /\ changed = FALSE
  /\ stack = <<>>
  /\ clustered = (algorithm = "louvain" /\ total(weight) = 0)

ClusterInit ==
  /\ algorithm \in {"components", "labels", "louvain"}
  /\ weight \in ClusterWeights
  /\ key \in ClusterKeys
  /\ resolution \in Resolutions
  /\ ClusterStart

-----------------------------------------------------------------------------
(* connected_components                                                    *)

Unassigned == {n \in ClusterNodes : assignment[n] = 0}

OpenComponent ==
  /\ ~clustered /\ algorithm = "components" /\ stack = <<>> /\ Unassigned # {}
  /\ LET start == CHOOSE n \in Unassigned : \A m \in Unassigned : n <= m IN
       /\ assignment' = [assignment EXCEPT ![start] = round]
       /\ stack' = <<start>>
  /\ UNCHANGED <<algorithm, weight, key, resolution, total_degree, members, empty, turn, round, changed, clustered>>

\* One node of the component; when none is left the next one gets the next
\* number.
VisitComponent ==
  /\ ~clustered /\ algorithm = "components" /\ stack # <<>>
  /\ LET node == Last(stack)
         fresh == {m \in Neighbors(weight, node) : assignment[m] = 0}
         rest == Front(stack) \o SetToSortSeq(fresh, <)
     IN /\ assignment' = [m \in ClusterNodes |-> IF m \in fresh THEN round ELSE assignment[m]]
        /\ stack' = rest
        /\ round' = IF rest = <<>> THEN round + 1 ELSE round
  /\ UNCHANGED <<algorithm, weight, key, resolution, total_degree, members, empty, turn, changed, clustered>>

ComponentsDone ==
  /\ ~clustered /\ algorithm = "components" /\ stack = <<>> /\ Unassigned = {}
  /\ clustered' = TRUE
  /\ UNCHANGED <<algorithm, weight, key, resolution, assignment, total_degree, members, empty, turn, round, changed, stack>>

-----------------------------------------------------------------------------
(* Moving one node                                                         *)

\* The weight from n to the other members of a label.
LinksTo(n, label) ==
  FoldSet(LAMBDA m, sum : sum + Link(weight, m, n), 0, {m \in ClusterNodes \ {n} : assignment[m] = label})

\* The candidates are looked at in the order of labels; a candidate wins by
\* a better score, or by an equal one and a smaller key.
Best(n, candidates, score) ==
  FoldLeft(LAMBDA best, label :
             IF \/ score[label] > score[best]
                \/ score[label] = score[best] /\ score[label] > score[assignment[n]] /\ key[label] < key[best]
               THEN label ELSE best,
           assignment[n], SetToSortSeq(candidates, <))

\* The end of the order is the end of an iteration; the last one moved
\* nothing or exhausted max_iterations.
NextTurn(moved) ==
  IF turn < Size
    THEN turn' = turn + 1 /\ changed' = (changed \/ moved) /\ UNCHANGED <<round, clustered>>
    ELSE /\ turn' = 1 /\ changed' = FALSE /\ round' = round + 1
         /\ clustered' = (round = MaxIterations \/ ~(changed \/ moved))

weighted_label_propagation ==
  /\ ~clustered /\ algorithm = "labels"
  /\ LET n == Node(key, turn)
         labels == {assignment[m] : m \in Neighbors(weight, n)}
         best == Best(n, labels, [l \in labels \cup {assignment[n]} |-> LinksTo(n, l)])
     IN /\ assignment' = [assignment EXCEPT ![n] = best]
        /\ NextTurn(best # assignment[n])
  /\ UNCHANGED <<algorithm, weight, key, resolution, total_degree, members, empty, stack>>

\* The gain of modularity times 2 m^2.
Gain(n, label) ==
  IF label = assignment[n] THEN 0
  ELSE LET k == weighted_degree(weight, n) IN
       2 * total(weight) * (LinksTo(n, label) - LinksTo(n, assignment[n]))
       - resolution * k * (total_degree[label] - (total_degree[assignment[n]] - k))

\* Mutant: leaving a community for an empty one is not considered.
NeighborsOnly(n) == {assignment[m] : m \in Neighbors(weight, n)}

\* The labels of the neighbours, and one empty label: to be on its own.
LouvainCandidates(n) ==
  {assignment[m] : m \in Neighbors(weight, n)}
  \cup (IF empty = {} THEN {} ELSE {CHOOSE l \in empty : \A o \in empty : l <= o})

StillEmpty(current, best) == (IF members[current] = 1 THEN empty \cup {current} ELSE empty) \ {best}

louvain ==
  /\ ~clustered /\ algorithm = "louvain"
  /\ LET n == Node(key, turn)
         current == assignment[n]
         k == weighted_degree(weight, n)
         labels == LouvainCandidates(n)
         best == Best(n, labels, [l \in labels \cup {current} |-> Gain(n, l)])
     IN /\ IF best # current
             THEN /\ assignment' = [assignment EXCEPT ![n] = best]
                  /\ total_degree' = [total_degree EXCEPT ![current] = @ - k, ![best] = @ + k]
                  /\ members' = [members EXCEPT ![current] = @ - 1, ![best] = @ + 1]
                  /\ empty' = StillEmpty(current, best)
             ELSE UNCHANGED <<assignment, total_degree, members, empty>>
        /\ NextTurn(best # current)
  /\ UNCHANGED <<algorithm, weight, key, resolution, stack>>

ClusterNext == OpenComponent \/ VisitComponent \/ ComponentsDone \/ weighted_label_propagation \/ louvain

ClusterSpec == ClusterInit /\ [][ClusterNext]_clusterVars

-----------------------------------------------------------------------------
(* Reference definitions                                                   *)

Having(f, label) == {n \in ClusterNodes : f[n] = label}

Inside(w, S) == FoldSet(LAMBDA p, sum : sum + w[p], 0, {p \in DOMAIN w : p[1] \in S /\ p[2] \in S})

IntraWeight(w, f) == FoldSet(LAMBDA l, sum : sum + Inside(w, Having(f, l)), 0, ClusterNodes)

\* Modularity times 4 m^2.
Modularity(w, r, f) ==
  FoldSet(LAMBDA l, sum :
            LET S == Having(f, l)
                d == FoldSet(LAMBDA n, s : s + weighted_degree(w, n), 0, S)
            IN sum + 4 * total(w) * Inside(w, S) - r * d * d,
          0, ClusterNodes)

Component(w, n) ==
  FoldLeft(LAMBDA S, k : S \cup UNION {Neighbors(w, m) : m \in S}, {n}, [k \in 1..Size |-> k])

Settled == clustered /\ round <= MaxIterations

-----------------------------------------------------------------------------
(* Properties                                                              *)

(* Type invariant.                                                         *)
ClusterTypeOK ==
  /\ assignment \in [ClusterNodes -> 0..Size]
  /\ turn \in 1..Size /\ round \in 1..Size + MaxIterations + 1
  /\ changed \in BOOLEAN /\ clustered \in BOOLEAN

(* The totals louvain keeps per label while it moves nodes are those of    *)
(* the assignment: the degree, the number of members and the set of unused *)
(* labels, from which the next gain is computed.                           *)
BooksBalance ==
  algorithm = "louvain" =>
    \A l \in ClusterNodes :
      /\ members[l] = Cardinality(Having(assignment, l))
      /\ total_degree[l] = FoldSet(LAMBDA n, s : s + weighted_degree(weight, n), 0, Having(assignment, l))
      /\ (l \in empty) <=> (Having(assignment, l) = {})

(* No community joins nodes that no chain of relationships joins, also     *)
(* when an unused label of another component is given a new member; and    *)
(* the components are exactly the connected ones.                          *)
WithinComponents ==
  \A m, n \in ClusterNodes :
    /\ m # n /\ assignment[m] = assignment[n] /\ assignment[m] # 0 => n \in Component(weight, m)
    /\ clustered /\ algorithm = "components" /\ n \in Component(weight, m) => assignment[m] = assignment[n]

(* Every move of louvain raises the modularity the comment above it        *)
(* defines, and every move of the label propagation raises the weight      *)
(* inside communities: neither can revisit a clustering, so both settle.   *)
MovesImprove ==
  [][algorithm # "components" /\ assignment' # assignment =>
       IF algorithm = "louvain"
         THEN Modularity(weight, resolution, assignment') > Modularity(weight, resolution, assignment)
         ELSE IntraWeight(weight, assignment') > IntraWeight(weight, assignment)]_clusterVars

(* When louvain stops before its iterations are used up, no single node    *)
(* can do better in the community of a neighbour or alone.                 *)
LocallyOptimal ==
  Settled /\ algorithm = "louvain" =>
    \A n, l \in ClusterNodes :
      Having(assignment, l) \cap Neighbors(weight, n) # {} \/ Having(assignment, l) = {} =>
        Modularity(weight, resolution, [assignment EXCEPT ![n] = l])
          <= Modularity(weight, resolution, assignment)

(* The totals kept during clustering are those of the assignment, communities
   stay within components, every move improves the objective, and a settled
   assignment admits no better move. *)
ClusteringIsSound ==
  /\ [](ClusterTypeOK /\ BooksBalance /\ WithinComponents /\ LocallyOptimal)
  /\ MovesImprove

=============================================================================
