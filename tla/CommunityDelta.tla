---------------------------- MODULE CommunityDelta ----------------------------
(***************************************************************************)
(* The comparison of two community snapshots (core/src/communities.rs,     *)
(* compare_community_snapshots).  A snapshot is a sequence of disjoint     *)
(* member sets.  Overlap is the Jaccard index, compared as a fraction:     *)
(* related from 1/4, stable from 4/5.                                      *)
(***************************************************************************)
EXTENDS Integers, FiniteSets, Sequences, SequencesExt

CONSTANT
  Snapshots   \* sequences of disjoint non-empty sets

VARIABLES
  before, after,   \* the two snapshots
  delta            \* changes: [kind, old, new] by index, or "none" before the comparison

deltaVars == <<before, after, delta>>

Common(i, j) == Cardinality(before[i] \cap after[j])
Joint(i, j) == Cardinality(before[i] \cup after[j])

Related(i, j) == 4 * Common(i, j) >= Joint(i, j)

Stable(i, j) == 5 * Common(i, j) >= 4 * Joint(i, j)

related_after(i) == {j \in DOMAIN after : Related(i, j)}
related_before(j) == {i \in DOMAIN before : Related(i, j)}

Change(kind, old, new) == [kind |-> kind, old |-> old, new |-> new]

classify_structural_changes ==
  {Change("split", {i}, related_after(i)) : i \in {k \in DOMAIN before : Cardinality(related_after(k)) >= 2}}
  \cup {Change("merged", related_before(j), {j}) : j \in {k \in DOMAIN after : Cardinality(related_before(k)) >= 2}}

\* Candidates by decreasing overlap, then by position.
CandidateOrder(p, q) ==
  LET a == Common(p[1], p[2]) * Joint(q[1], q[2])
      b == Common(q[1], q[2]) * Joint(p[1], p[2])
  IN a > b \/ (a = b /\ (p[1] < q[1] \/ (p[1] = q[1] /\ p[2] < q[2])))

\* Greedy one-to-one pairs among what the structural changes left over.
Pairs(matched) ==
  LET candidates == SetToSortSeq({p \in (DOMAIN before) \X (DOMAIN after) : Related(p[1], p[2])}, CandidateOrder)
      Take(acc, p) ==
        IF p[1] \in acc.old \/ p[2] \in acc.new THEN acc
        ELSE [old |-> acc.old \cup {p[1]}, new |-> acc.new \cup {p[2]}, pairs |-> acc.pairs \cup {p}]
  IN FoldLeft(Take, [old |-> matched.old, new |-> matched.new, pairs |-> {}], candidates)

\* Mutant: successors of a split are not marked as accounted for.
MarksOneSide(changes) ==
  [old |-> UNION {c.old : c \in changes}, new |-> UNION {c.new : c \in {d \in changes : d.kind = "merged"}}]

Accounted(changes) == [old |-> UNION {c.old : c \in changes}, new |-> UNION {c.new : c \in changes}]

compare_community_snapshots ==
  LET structural == classify_structural_changes
      paired == Pairs(Accounted(structural))
  IN structural
     \cup {Change("changed", {p[1]}, {p[2]}) : p \in {q \in paired.pairs : ~Stable(q[1], q[2])}}
     \cup {Change("removed", {i}, {}) : i \in DOMAIN before \ paired.old}
     \cup {Change("created", {}, {j}) : j \in DOMAIN after \ paired.new}

NotCompared == {Change("none", {}, {})}

DeltaInit == before \in Snapshots /\ after \in Snapshots /\ delta = NotCompared

Compare ==
  /\ delta = NotCompared
  /\ delta' = compare_community_snapshots
  /\ UNCHANGED <<before, after>>

DeltaSpec == DeltaInit /\ [][Compare]_deltaVars

-----------------------------------------------------------------------------
(* Properties                                                              *)

(* Every community is accounted for, and once: it takes part in a split or *)
(* a merge, is created or removed, or is paired with one community of the  *)
(* other side, silently when it is stable.  Removed means that no          *)
(* successor reaches the threshold, as the explanation in the report says, *)
(* although the greedy pairing skips related communities that are already  *)
(* matched.                                                                *)
DeltaAccountsForAll ==
  delta # NotCompared =>
    /\ \A i \in DOMAIN before :
         /\ (Change("removed", {i}, {}) \in delta) <=> (\A j \in DOMAIN after : 4 * Common(i, j) < Joint(i, j))
         /\ Cardinality({c \in delta : c.old = {i} /\ c.kind # "merged"}) <= 1
    /\ \A j \in DOMAIN after :
         (Change("created", {}, {j}) \in delta) <=> (\A i \in DOMAIN before : 4 * Common(i, j) < Joint(i, j))

(* Nothing changed means nothing moved much: an empty delta pairs every    *)
(* community with one that shares at least four fifths with it.            *)
EmptyDeltaMeansStable ==
  delta = {} =>
    /\ \A i \in DOMAIN before : \E j \in DOMAIN after : 5 * Common(i, j) >= 4 * Joint(i, j)
    /\ \A j \in DOMAIN after : \E i \in DOMAIN before : 5 * Common(i, j) >= 4 * Joint(i, j)

(* The delta between two analyses accounts for every community of both, and is
   empty only when all of them persist. *)
DeltaIsExact ==
  /\ DeltaAccountsForAll
  /\ EmptyDeltaMeansStable

=============================================================================
