------------------------- MODULE PublicationProofs -------------------------
(***************************************************************************)
(* Publication is correct for any nodes, edges, evidence, links, snapshots *)
(* and readers: the statements never break a foreign key, they add up to   *)
(* the candidate, what is derived follows the graph, and readers see one   *)
(* published graph, which is the refinement of GraphStore.                 *)
(***************************************************************************)
EXTENDS Publication, TLAPS

\* Zenon finds the steps that name no other prover.
USE Zenon

\* After the upserts the stored rows are the candidate's, and those that the
\* candidate lacks are noted for deletion.
Merged(stored, rows, gone) ==
  \A x \in DOMAIN stored :
    /\ rows[x] # None => stored[x] = rows[x] /\ x \notin gone
    /\ rows[x] = None /\ stored[x] # None => x \in gone

\* The analyses in the transaction: those of the database, then with the one of
\* the candidate, then without those older than the replaced graph.
WithAnalysis ==
  [db.communities EXCEPT ![candidate.snapshot] = candidate.community]

Analyses ==
  IF stmt = "commit"
  THEN [i \in SnapshotIds |-> IF i \in {candidate.snapshot, previous}
                              THEN WithAnalysis[i] ELSE None]
  ELSE IF stmt = "prune" THEN WithAnalysis ELSE db.communities

\* What the open transaction holds before each statement.  The sets name the
\* statements that come before the one that establishes a conjunct.
TxInv ==
  /\ candidate \in Candidates
  /\ previous = db.snapshot
  /\ ForeignKeysHold(tx)
  /\ tx.communities = Analyses
  /\ IF stmt \in {"cache", "snapshot"} THEN tx.snapshot = db.snapshot
     ELSE tx.snapshot = candidate.snapshot
  /\ stmt # "cache" => tx.cache = {}
  /\ stmt \notin {"cache", "snapshot", "evidence"} =>
       Merged(tx.evidence, candidate.evidence, removed.evidence)
  /\ stmt \notin {"cache", "snapshot", "evidence", "nodes"} =>
       Merged(tx.nodes, candidate.nodes, removed.nodes)
  /\ stmt \notin {"cache", "snapshot", "evidence", "nodes", "edges"} =>
       /\ tx.edges = candidate.edges
       /\ tx.edgeEvidence = candidate.edgeEvidence
  /\ stmt \notin {"cache", "snapshot", "evidence", "nodes", "edges", "links"} =>
       tx.links = candidate.links
  /\ stmt \in {"delevidence", "derived", "community", "prune", "commit"} =>
       tx.nodes = candidate.nodes
  /\ stmt \in {"derived", "community", "prune", "commit"} =>
       tx.evidence = candidate.evidence
  /\ stmt \in {"community", "prune", "commit"} => tx.derived = candidate.derived

\* What every committed database satisfies.
Sound(t) ==
  /\ ForeignKeysHold(t)
  /\ t.snapshot # None => GraphOf(t) \in Candidates
  /\ \E a, b \in SnapshotIds \cup {None} :
       \A i \in SnapshotIds : t.communities[i] # None => i \in {a, b}

\* A query holds the database of its first SELECT and the part of its graph
\* that it has read.
ReaderOK(q) ==
  /\ q \in [step : {"idle", "graph", "community"}, view : Tables \cup {None},
            got : {None} \cup [snapshot : SnapshotIds] \cup Candidates,
            answer : Candidates \cup {None}]
  /\ (q.step = "idle") = (q.view = None)
  /\ q.step # "idle" =>
       /\ q.view.snapshot # None /\ GraphOf(q.view) \in Candidates
       /\ q.answer = None
       /\ q.got = IF q.step = "graph" THEN [snapshot |-> q.view.snapshot]
                  ELSE GraphOf(q.view)

PublicationInv ==
  /\ TypeOK
  /\ (tx = None) = (candidate = None)
  /\ rolled # "constraint"
  /\ tx # None => TxInv
  /\ Sound(db)
  /\ reader = [r \in Readers |-> reader[r]]
  /\ \A r \in Readers : ReaderOK(reader[r])

-----------------------------------------------------------------------------
Removals == [nodes : SUBSET NodeIds, evidence : SUBSET EvidenceIds]

\* A statement that succeeds touches only the transaction, so the invariant
\* follows from what the transaction holds afterwards.
LEMMA StatementSuffices ==
  ASSUME PublicationInv, tx # None,
         tx' \in Tables, stmt' \in Statements \ {"none"}, removed' \in Removals,
         UNCHANGED <<db, candidate, previous, rolled, reader, export>>,
         TxInv'
  PROVE  PublicationInv'
<1>1. tx' # None
  BY SentinelAssumption
<1>2. TypeOK'
  BY <1>1 DEF PublicationInv, TypeOK, Removals
<1>3. Sound(db)' /\ reader' = [r \in Readers |-> reader'[r]]
  BY DEF PublicationInv, Sound, ForeignKeysHold, GraphOf, Joined
<1>4. \A r \in Readers : ReaderOK(reader[r])'
  BY DEF PublicationInv, ReaderOK, GraphOf
<1>. QED  BY <1>1, <1>2, <1>3, <1>4 DEF PublicationInv

\* The invariant holds of the empty database.
LEMMA InitPublicationInv == Init => PublicationInv
<1> SUFFICES ASSUME Init PROVE PublicationInv
    OBVIOUS
<1>1. TypeOK
  BY PublicationAssumption, SentinelAssumption
     DEF Init, TypeOK, EmptyTables, Tables, Nothing, NoRead, NoExport, Statements
<1>2. Sound(db)
  BY DEF Init, Sound, EmptyTables, ForeignKeysHold
<1>3. \A r \in Readers : ReaderOK(reader[r])
  BY DEF Init, ReaderOK, NoRead
<1>. QED  BY <1>1, <1>2, <1>3 DEF Init, PublicationInv

\* A transaction that is open has tables, a candidate and a statement to go on
\* with.
LEMMA Open ==
  ASSUME PublicationInv, tx # None
  PROVE  /\ tx \in Tables /\ db \in Tables /\ TxInv
         /\ candidate \in Graphs /\ ValidGraph(candidate)
         /\ removed \in Removals /\ stmt # "none"
BY DEF PublicationInv, TypeOK, TxInv, Candidates, Removals

-----------------------------------------------------------------------------
(***************************************************************************)
(* One lemma per statement of publish_current_graph.  T is the tables it   *)
(* leaves.                                                                 *)
(***************************************************************************)
\* Clearing the cache leaves nothing that refers to the snapshot row.
LEMMA DeleteQueryCacheInv == PublicationInv /\ DeleteQueryCache => PublicationInv'
<1> SUFFICES ASSUME PublicationInv, DeleteQueryCache PROVE PublicationInv'
    OBVIOUS
<1> DEFINE T == [tx EXCEPT !.cache = {}]
<1>1. stmt = "cache" /\ tx # None
  BY DEF DeleteQueryCache, Execute, PublicationInv, TypeOK
<1>2. /\ T \in Tables /\ T.cache = {}
      /\ T.snapshot = tx.snapshot /\ T.nodes = tx.nodes
      /\ T.evidence = tx.evidence /\ T.edges = tx.edges
      /\ T.edgeEvidence = tx.edgeEvidence /\ T.links = tx.links
      /\ T.derived = tx.derived /\ T.communities = tx.communities
  BY <1>1, Open DEF Tables
<1>3. ForeignKeysHold(T)
  BY <1>1, <1>2, Open DEF TxInv, ForeignKeysHold
<1> HIDE DEF T
<1>4. /\ tx' = T /\ stmt' = "snapshot"
      /\ UNCHANGED <<db, candidate, previous, removed, rolled, reader, export>>
  BY <1>3 DEF DeleteQueryCache, Execute, Keep, T
<1>5. TxInv'
  BY <1>1, <1>2, <1>3, <1>4, Open DEF TxInv, Analyses, ForeignKeysHold, Joined
<1>. QED  BY <1>1, <1>2, <1>4, <1>5, Open, StatementSuffices DEF Statements

\* The snapshot row changes its id while nothing is cached under the old one.
LEMMA UpsertSnapshotIdInv == PublicationInv /\ UpsertSnapshotId => PublicationInv'
<1> SUFFICES ASSUME PublicationInv, UpsertSnapshotId PROVE PublicationInv'
    OBVIOUS
<1> DEFINE T == [tx EXCEPT !.snapshot = candidate.snapshot]
<1>1. stmt = "snapshot" /\ tx # None
  BY DEF UpsertSnapshotId, Execute, PublicationInv, TypeOK
<1>2. /\ T \in Tables /\ T.snapshot = candidate.snapshot
      /\ T.cache = tx.cache /\ T.nodes = tx.nodes
      /\ T.evidence = tx.evidence /\ T.edges = tx.edges
      /\ T.edgeEvidence = tx.edgeEvidence /\ T.links = tx.links
      /\ T.derived = tx.derived /\ T.communities = tx.communities
  BY SMTT(30), <1>1, Open DEF Tables, Graphs
<1>3. ForeignKeysHold(T)
  BY <1>1, <1>2, Open DEF TxInv, ForeignKeysHold
<1> HIDE DEF T
<1>4. /\ tx' = T /\ stmt' = "evidence"
      /\ UNCHANGED <<db, candidate, previous, removed, rolled, reader, export>>
  BY <1>3 DEF UpsertSnapshotId, Execute, Keep, T
<1>5. TxInv'
  BY <1>1, <1>2, <1>3, <1>4, Open DEF TxInv, Analyses, ForeignKeysHold, Joined
<1>. QED  BY <1>1, <1>2, <1>4, <1>5, Open, StatementSuffices DEF Statements

\* An upsert never deletes a row, and what it leaves is merged.
LEMMA UpsertedMerged ==
  ASSUME NEW K, NEW stored \in [K -> Values \cup {None}],
         NEW rows \in [K -> Values \cup {None}]
  PROVE  /\ Upserted(stored, rows) \in [K -> Values \cup {None}]
         /\ Leftover(stored, rows) \in SUBSET K
         /\ Merged(Upserted(stored, rows), rows, Leftover(stored, rows))
         /\ \A k \in K : stored[k] # None => Upserted(stored, rows)[k] # None
BY DEF Upserted, Leftover, Merged

\* Evidence rows are inserted or updated in place, so that no edge of the old
\* graph loses one.
LEMMA UpsertEvidenceInv == PublicationInv /\ UpsertEvidence => PublicationInv'
<1> SUFFICES ASSUME PublicationInv, UpsertEvidence PROVE PublicationInv'
    OBVIOUS
<1> DEFINE rows == Upserted(tx.evidence, candidate.evidence)
           gone == Leftover(tx.evidence, candidate.evidence)
           T == [tx EXCEPT !.evidence = rows]
<1>1. stmt = "evidence" /\ tx # None
  BY DEF UpsertEvidence, Execute, PublicationInv, TypeOK
<1>2. /\ rows \in [EvidenceIds -> Values \cup {None}]
      /\ gone \in SUBSET EvidenceIds
      /\ Merged(rows, candidate.evidence, gone)
      /\ \A e \in EvidenceIds : tx.evidence[e] # None => rows[e] # None
  <2>1. /\ tx.evidence \in [EvidenceIds -> Values \cup {None}]
        /\ candidate.evidence \in [EvidenceIds -> Values \cup {None}]
    BY <1>1, Open DEF Tables, Graphs
  <2>. QED  BY <2>1, UpsertedMerged
<1> HIDE DEF rows, gone
<1>3. /\ T \in Tables /\ T.evidence = rows
      /\ T.snapshot = tx.snapshot /\ T.nodes = tx.nodes /\ T.cache = tx.cache
      /\ T.edges = tx.edges
      /\ T.edgeEvidence = tx.edgeEvidence /\ T.links = tx.links
      /\ T.derived = tx.derived /\ T.communities = tx.communities
  BY <1>1, <1>2, Open DEF Tables
<1> HIDE DEF T
<1>4. ForeignKeysHold(T)
  <2>1. ForeignKeysHold(tx) /\ tx.edgeEvidence \in [EdgeIds -> SUBSET EvidenceIds]
    BY <1>1, Open DEF TxInv, Tables
  <2>. QED  BY <1>2, <1>3, <2>1 DEF ForeignKeysHold
<1>5. /\ tx' = T /\ stmt' = "nodes" /\ removed' = [removed EXCEPT !.evidence = gone]
      /\ UNCHANGED <<db, candidate, previous, rolled, reader, export>>
  BY <1>4 DEF UpsertEvidence, Execute, T, rows, gone
<1>6. removed' \in Removals /\ removed'.evidence = gone
  BY <1>1, <1>2, <1>5, Open DEF Removals
<1>7. TxInv'
  BY <1>1, <1>2, <1>3, <1>4, <1>5, <1>6, Open
     DEF TxInv, Analyses, ForeignKeysHold, Joined
<1>. QED  BY <1>1, <1>3, <1>5, <1>6, <1>7, StatementSuffices DEF Statements

\* Node rows are inserted or updated in place, so that no edge or link of the
\* old graph loses an end.
LEMMA UpsertNodesInv == PublicationInv /\ UpsertNodes => PublicationInv'
<1> SUFFICES ASSUME PublicationInv, UpsertNodes PROVE PublicationInv'
    OBVIOUS
<1> DEFINE rows == Upserted(tx.nodes, candidate.nodes)
           gone == Leftover(tx.nodes, candidate.nodes)
           T == [tx EXCEPT !.nodes = rows]
<1>1. stmt = "nodes" /\ tx # None
  BY DEF UpsertNodes, Execute, PublicationInv, TypeOK
<1>2. /\ rows \in [NodeIds -> Values \cup {None}]
      /\ gone \in SUBSET NodeIds
      /\ Merged(rows, candidate.nodes, gone)
      /\ \A n \in NodeIds : tx.nodes[n] # None => rows[n] # None
  <2>1. /\ tx.nodes \in [NodeIds -> Values \cup {None}]
        /\ candidate.nodes \in [NodeIds -> Values \cup {None}]
    BY <1>1, Open DEF Tables, Graphs
  <2>. QED  BY <2>1, UpsertedMerged
<1> HIDE DEF rows, gone
<1>3. /\ T \in Tables /\ T.nodes = rows
      /\ T.snapshot = tx.snapshot /\ T.evidence = tx.evidence
      /\ T.cache = tx.cache /\ T.edges = tx.edges
      /\ T.edgeEvidence = tx.edgeEvidence /\ T.links = tx.links
      /\ T.derived = tx.derived /\ T.communities = tx.communities
  BY <1>1, <1>2, Open DEF Tables
<1> HIDE DEF T
<1>4. ForeignKeysHold(T)
  <2>1. /\ ForeignKeysHold(tx)
        /\ tx.edges \in [EdgeIds -> Endpoints \cup {None}]
        /\ tx.links \in [LinkIds -> Endpoints \cup {None}]
    BY <1>1, Open DEF TxInv, Tables
  <2>2. \A p \in Endpoints : Joined(tx.nodes, p) => Joined(rows, p)
    BY <1>2, PublicationAssumption DEF Joined
  <2>. QED  BY ZenonT(30), <1>3, <2>1, <2>2 DEF ForeignKeysHold
<1>5. /\ tx' = T /\ stmt' = "edges" /\ removed' = [removed EXCEPT !.nodes = gone]
      /\ UNCHANGED <<db, candidate, previous, rolled, reader, export>>
  BY <1>4 DEF UpsertNodes, Execute, T, rows, gone
<1>6. removed' \in Removals /\ removed'.nodes = gone /\ removed'.evidence = removed.evidence
  BY <1>1, <1>2, <1>5, Open DEF Removals
<1>7. TxInv'
  BY <1>1, <1>2, <1>3, <1>4, <1>5, <1>6, Open
     DEF TxInv, Analyses, ForeignKeysHold, Joined
<1>. QED  BY <1>1, <1>3, <1>5, <1>6, <1>7, StatementSuffices DEF Statements

\* Replacing the edges whose digest changed leaves the candidate's edges, and
\* their ends and evidence are all there by now.
LEMMA ReplaceChangedEdgesInv ==
  PublicationInv /\ ReplaceChangedEdges => PublicationInv'
<1> SUFFICES ASSUME PublicationInv, ReplaceChangedEdges PROVE PublicationInv'
    OBVIOUS
<1> DEFINE changed == {d \in EdgeIds : EdgeChanged(d)}
           T == [DeleteEdges(tx, changed) EXCEPT
                   !.edges = [d \in EdgeIds |-> IF d \in changed
                                THEN candidate.edges[d] ELSE @[d]],
                   !.edgeEvidence = [d \in EdgeIds |-> IF d \in changed
                                THEN candidate.edgeEvidence[d] ELSE @[d]]]
<1>1. stmt = "edges" /\ tx # None
  BY DEF ReplaceChangedEdges, Execute, PublicationInv, TypeOK
<1>2. /\ candidate.edges \in [EdgeIds -> Endpoints \cup {None}]
      /\ candidate.edgeEvidence \in [EdgeIds -> SUBSET EvidenceIds]
      /\ tx.edges \in [EdgeIds -> Endpoints \cup {None}]
      /\ tx.edgeEvidence \in [EdgeIds -> SUBSET EvidenceIds]
  BY <1>1, Open DEF Tables, Graphs
<1>3. /\ T = [tx EXCEPT !.edges = T.edges, !.edgeEvidence = T.edgeEvidence]
      /\ T.edges = [d \in EdgeIds |-> IF d \in changed
                      THEN candidate.edges[d] ELSE tx.edges[d]]
      /\ T.edgeEvidence = [d \in EdgeIds |-> IF d \in changed
                      THEN candidate.edgeEvidence[d] ELSE tx.edgeEvidence[d]]
  BY <1>1, Open DEF Tables, DeleteEdges
<1> HIDE DEF T
<1>4. T.edges = candidate.edges /\ T.edgeEvidence = candidate.edgeEvidence
  <2>1. \A d \in EdgeIds : T.edges[d] = candidate.edges[d]
    BY <1>3 DEF EdgeChanged
  <2>2. \A d \in EdgeIds : T.edgeEvidence[d] = candidate.edgeEvidence[d]
    BY <1>3 DEF EdgeChanged
  <2>. QED  BY SMTT(30), <1>2, <1>3, <2>1, <2>2
<1>5. /\ T \in Tables
      /\ T.snapshot = tx.snapshot /\ T.evidence = tx.evidence
      /\ T.cache = tx.cache /\ T.nodes = tx.nodes /\ T.links = tx.links
      /\ T.derived = tx.derived /\ T.communities = tx.communities
  BY <1>1, <1>2, <1>3, <1>4, Open DEF Tables
<1>6. ForeignKeysHold(T)
  <2>1. /\ ForeignKeysHold(tx) /\ ValidGraph(candidate)
        /\ Merged(tx.nodes, candidate.nodes, removed.nodes)
        /\ Merged(tx.evidence, candidate.evidence, removed.evidence)
        /\ DOMAIN tx.nodes = NodeIds /\ DOMAIN tx.evidence = EvidenceIds
    BY <1>1, Open DEF TxInv, Tables
  <2>2. \A p \in Endpoints : Joined(candidate.nodes, p) => Joined(tx.nodes, p)
    BY <2>1, PublicationAssumption DEF Joined, Merged
  <2>3. \A d \in EdgeIds :
          /\ T.edges[d] # None => Joined(T.nodes, T.edges[d])
          /\ T.edgeEvidence[d] # {} => T.edges[d] # None
          /\ \A e \in T.edgeEvidence[d] : T.evidence[e] # None
    BY SMTT(30), <1>2, <1>4, <1>5, <2>1, <2>2 DEF ValidGraph, Merged
  <2>. QED  BY <1>5, <2>1, <2>3 DEF ForeignKeysHold
<1>7. /\ tx' = T /\ stmt' = "links"
      /\ UNCHANGED <<db, candidate, previous, removed, rolled, reader, export>>
  BY <1>6 DEF ReplaceChangedEdges, Execute, Keep, T
<1>8. TxInv'
  BY <1>1, <1>4, <1>5, <1>6, <1>7, Open DEF TxInv, Analyses, ForeignKeysHold, Joined
<1>. QED  BY <1>1, <1>5, <1>7, <1>8, Open, StatementSuffices DEF Statements

\* The manual links are deleted and inserted again, between nodes that are there.
LEMMA ReplaceManualLinksInv ==
  PublicationInv /\ ReplaceManualLinks => PublicationInv'
<1> SUFFICES ASSUME PublicationInv, ReplaceManualLinks PROVE PublicationInv'
    OBVIOUS
<1> DEFINE T == [tx EXCEPT !.links = candidate.links]
<1>1. stmt = "links" /\ tx # None
  BY DEF ReplaceManualLinks, Execute, PublicationInv, TypeOK
<1>2. /\ T \in Tables /\ T.links = candidate.links
      /\ T.cache = tx.cache /\ T.nodes = tx.nodes /\ T.snapshot = tx.snapshot
      /\ T.evidence = tx.evidence /\ T.edges = tx.edges
      /\ T.edgeEvidence = tx.edgeEvidence
      /\ T.derived = tx.derived /\ T.communities = tx.communities
  BY <1>1, Open DEF Tables, Graphs
<1> HIDE DEF T
<1>3. ForeignKeysHold(T)
  <2>1. /\ ForeignKeysHold(tx) /\ ValidGraph(candidate)
        /\ Merged(tx.nodes, candidate.nodes, removed.nodes)
        /\ DOMAIN tx.nodes = NodeIds
        /\ candidate.links \in [LinkIds -> Endpoints \cup {None}]
    BY <1>1, Open DEF TxInv, Tables, Graphs
  <2>2. \A p \in Endpoints : Joined(candidate.nodes, p) => Joined(tx.nodes, p)
    BY <2>1, PublicationAssumption DEF Joined, Merged
  <2>. QED  BY ZenonT(30), <1>2, <2>1, <2>2 DEF ForeignKeysHold, ValidGraph
<1>4. /\ tx' = T /\ stmt' = "delnodes"
      /\ UNCHANGED <<db, candidate, previous, removed, rolled, reader, export>>
  BY SMTT(30), <1>3 DEF ReplaceManualLinks, Execute, Keep, T
<1>5. TxInv'
  BY <1>1, <1>2, <1>3, <1>4, Open DEF TxInv, Analyses, ForeignKeysHold, Joined
<1>. QED  BY <1>1, <1>2, <1>4, <1>5, Open, StatementSuffices DEF Statements

\* No edge or link of the candidate refers to a removed node, so deleting the
\* removed nodes takes nothing else along and leaves the candidate's.
LEMMA DeleteRemovedNodesInv ==
  PublicationInv /\ DeleteRemovedNodes => PublicationInv'
<1> SUFFICES ASSUME PublicationInv, DeleteRemovedNodes PROVE PublicationInv'
    OBVIOUS
<1> DEFINE gone == removed.nodes
           T == DeleteNodes(tx, gone)
<1>1. stmt = "delnodes" /\ tx # None
  BY DEF DeleteRemovedNodes, Execute, PublicationInv, TypeOK
<1>2. /\ tx \in Tables /\ candidate \in Graphs /\ ValidGraph(candidate)
      /\ tx.edges = candidate.edges /\ tx.edgeEvidence = candidate.edgeEvidence
      /\ tx.links = candidate.links /\ ForeignKeysHold(tx)
      /\ Merged(tx.nodes, candidate.nodes, gone)
  BY <1>1, Open DEF TxInv
<1> HIDE DEF gone
<1>3. \A p \in Endpoints : Joined(candidate.nodes, p) => ~Refers(p, gone)
  <2>1. DOMAIN tx.nodes = NodeIds
    BY <1>2 DEF Tables
  <2>. QED  BY <1>2, <2>1, PublicationAssumption DEF Joined, Refers, Merged
<1>4. /\ \A d \in EdgeIds : ~Refers(tx.edges[d], gone)
      /\ \A l \in LinkIds : ~Refers(tx.links[l], gone)
  <2>1. /\ candidate.edges \in [EdgeIds -> Endpoints \cup {None}]
        /\ candidate.links \in [LinkIds -> Endpoints \cup {None}]
    BY <1>2 DEF Graphs
  <2>2. ~Refers(None, gone)
    BY SMTT(30) DEF Refers
  <2>. QED  BY <1>2, <1>3, <2>1, <2>2 DEF ValidGraph
<1>5. /\ T.edges = tx.edges /\ T.edgeEvidence = tx.edgeEvidence
      /\ T.links = tx.links
      /\ T.nodes = [n \in NodeIds |-> IF n \in gone THEN None ELSE tx.nodes[n]]
      /\ T.snapshot = tx.snapshot /\ T.evidence = tx.evidence
      /\ T.cache = tx.cache /\ T.derived = tx.derived
      /\ T.communities = tx.communities /\ T \in Tables
  <2> DEFINE cut == {d \in EdgeIds : Refers(tx.edges[d], gone)}
             U == DeleteEdges(tx, cut)
  <2>1. cut = {}
    BY <1>4
  <2> HIDE DEF cut
  <2>2. U = tx
    BY <1>2, <2>1 DEF DeleteEdges, Tables
  <2>3. T = [tx EXCEPT
               !.nodes = [n \in NodeIds |-> IF n \in gone THEN None ELSE @[n]],
               !.links = [l \in LinkIds |-> IF Refers(@[l], gone) THEN None
                                            ELSE @[l]]]
    BY <2>2 DEF DeleteNodes, cut
  <2> HIDE DEF T
  <2>4. [l \in LinkIds |-> IF Refers(tx.links[l], gone) THEN None
                           ELSE tx.links[l]] = tx.links
    BY <1>2, <1>4 DEF Tables
  <2>. QED  BY <1>2, <2>3, <2>4 DEF Tables
<1> HIDE DEF T
<1>6. T.nodes = candidate.nodes
  <2>1. candidate.nodes \in [NodeIds -> Values \cup {None}] /\ DOMAIN tx.nodes = NodeIds
    BY <1>2 DEF Graphs, Tables
  <2>2. \A n \in NodeIds : T.nodes[n] = candidate.nodes[n]
    BY ZenonT(30), <1>2, <1>5, <2>1 DEF Merged
  <2>. QED  BY SMTT(30), <1>5, <2>1, <2>2
<1>7. ForeignKeysHold(T)
  BY SMTT(30), <1>2, <1>5, <1>6 DEF ForeignKeysHold, ValidGraph
<1>8. /\ tx' = T /\ stmt' = "delevidence"
      /\ UNCHANGED <<db, candidate, previous, removed, rolled, reader, export>>
  BY SMTT(30), <1>7 DEF DeleteRemovedNodes, Execute, Keep, T, gone
<1>9. TxInv'
  <2>1. Merged(T.nodes, candidate.nodes, gone)
    BY <1>2, <1>5, <1>6 DEF Merged, Tables
  <2>. QED  BY <1>1, <1>5, <1>6, <1>7, <1>8, <2>1, Open
            DEF TxInv, Analyses, ForeignKeysHold, Joined, gone
<1>. QED  BY <1>1, <1>5, <1>8, <1>9, Open, StatementSuffices DEF Statements

\* No edge of the candidate names removed evidence.
LEMMA DeleteRemovedEvidenceInv ==
  PublicationInv /\ DeleteRemovedEvidence => PublicationInv'
<1> SUFFICES ASSUME PublicationInv, DeleteRemovedEvidence PROVE PublicationInv'
    OBVIOUS
<1> DEFINE gone == removed.evidence
           T == DeleteEvidence(tx, gone)
<1>1. stmt = "delevidence" /\ tx # None
  BY DEF DeleteRemovedEvidence, Execute, PublicationInv, TypeOK
<1>2. /\ tx \in Tables /\ candidate \in Graphs /\ ValidGraph(candidate)
      /\ tx.edges = candidate.edges /\ tx.edgeEvidence = candidate.edgeEvidence
      /\ tx.nodes = candidate.nodes /\ tx.links = candidate.links
      /\ ForeignKeysHold(tx)
      /\ Merged(tx.evidence, candidate.evidence, gone)
  BY <1>1, Open DEF TxInv
<1> HIDE DEF gone
<1>3. \A d \in EdgeIds : tx.edgeEvidence[d] \ gone = tx.edgeEvidence[d]
  <2>1. /\ DOMAIN tx.evidence = EvidenceIds
        /\ candidate.edgeEvidence \in [EdgeIds -> SUBSET EvidenceIds]
    BY <1>2 DEF Tables, Graphs
  <2>2. \A d \in EdgeIds : \A e \in candidate.edgeEvidence[d] : e \notin gone
    BY SMTT(30), <1>2, <2>1 DEF ValidGraph, Merged
  <2>. QED  BY <1>2, <2>2
<1>4. /\ T.edgeEvidence = tx.edgeEvidence /\ T.edges = tx.edges
      /\ T.evidence = [e \in EvidenceIds |-> IF e \in gone THEN None
                                             ELSE tx.evidence[e]]
      /\ T.snapshot = tx.snapshot /\ T.nodes = tx.nodes /\ T.links = tx.links
      /\ T.cache = tx.cache /\ T.derived = tx.derived
      /\ T.communities = tx.communities /\ T \in Tables
  <2>1. [d \in EdgeIds |-> tx.edgeEvidence[d] \ gone] = tx.edgeEvidence
    BY <1>2, <1>3 DEF Tables
  <2>. QED  BY <1>2, <2>1 DEF Tables, DeleteEvidence
<1> HIDE DEF T
<1>5. T.evidence = candidate.evidence
  <2>1. /\ candidate.evidence \in [EvidenceIds -> Values \cup {None}]
        /\ DOMAIN tx.evidence = EvidenceIds
    BY <1>2 DEF Graphs, Tables
  <2>2. \A e \in EvidenceIds : T.evidence[e] = candidate.evidence[e]
    BY <1>2, <1>4, <2>1 DEF Merged
  <2>. QED  BY SMTT(30), <1>4, <2>1, <2>2
<1>6. ForeignKeysHold(T)
  BY ZenonT(30), <1>2, <1>4, <1>5 DEF ForeignKeysHold, ValidGraph
<1>7. /\ tx' = T /\ stmt' = "derived"
      /\ UNCHANGED <<db, candidate, previous, removed, rolled, reader, export>>
  BY SMTT(30), <1>6 DEF DeleteRemovedEvidence, Execute, Keep, T, gone
<1>8. TxInv'
  <2>1. Merged(T.evidence, candidate.evidence, gone)
    BY <1>2, <1>4, <1>5 DEF Merged, Tables
  <2>. QED  BY SMTT(30), <1>1, <1>4, <1>5, <1>6, <1>7, <2>1, Open
            DEF TxInv, Analyses, ForeignKeysHold, Joined, gone
<1>. QED  BY <1>1, <1>4, <1>7, <1>8, Open, StatementSuffices DEF Statements

\* The derived tables are replaced as a whole.
LEMMA ReplaceDerivedInv == PublicationInv /\ ReplaceDerived => PublicationInv'
<1> SUFFICES ASSUME PublicationInv, ReplaceDerived PROVE PublicationInv'
    OBVIOUS
<1> DEFINE T == [tx EXCEPT !.derived = candidate.derived]
<1>1. stmt = "derived" /\ tx # None
  BY DEF ReplaceDerived, Execute, PublicationInv, TypeOK
<1>2. /\ T \in Tables /\ T.derived = candidate.derived
      /\ T.cache = tx.cache /\ T.nodes = tx.nodes /\ T.snapshot = tx.snapshot
      /\ T.evidence = tx.evidence /\ T.edges = tx.edges
      /\ T.edgeEvidence = tx.edgeEvidence /\ T.links = tx.links
      /\ T.communities = tx.communities
  BY <1>1, Open DEF Tables, Graphs
<1>3. ForeignKeysHold(T)
  BY <1>1, <1>2, Open DEF TxInv, ForeignKeysHold
<1> HIDE DEF T
<1>4. /\ tx' = T /\ stmt' = "community"
      /\ UNCHANGED <<db, candidate, previous, removed, rolled, reader, export>>
  BY <1>3 DEF ReplaceDerived, Execute, Keep, T
<1>5. TxInv'
  BY <1>1, <1>2, <1>3, <1>4, Open DEF TxInv, Analyses, ForeignKeysHold, Joined
<1>. QED  BY <1>1, <1>2, <1>4, <1>5, Open, StatementSuffices DEF Statements

\* The analysis of the candidate is added to those of the database.
LEMMA ReplaceCommunityInv == PublicationInv /\ ReplaceCommunity => PublicationInv'
<1> SUFFICES ASSUME PublicationInv, ReplaceCommunity PROVE PublicationInv'
    OBVIOUS
<1> DEFINE T == [tx EXCEPT !.communities[candidate.snapshot] = candidate.community]
<1>1. stmt = "community" /\ tx # None
  BY DEF ReplaceCommunity, Execute, PublicationInv, TypeOK
<1>2. /\ T \in Tables /\ T.derived = tx.derived
      /\ T.cache = tx.cache /\ T.nodes = tx.nodes /\ T.snapshot = tx.snapshot
      /\ T.evidence = tx.evidence /\ T.edges = tx.edges
      /\ T.edgeEvidence = tx.edgeEvidence /\ T.links = tx.links
      /\ T.communities = [tx.communities EXCEPT
                            ![candidate.snapshot] = candidate.community]
  BY <1>1, Open DEF Tables, Graphs
<1> HIDE DEF T
<1>3. ForeignKeysHold(T)
  BY <1>1, <1>2, Open DEF TxInv, ForeignKeysHold
<1>4. /\ tx' = T /\ stmt' = "prune"
      /\ UNCHANGED <<db, candidate, previous, removed, rolled, reader, export>>
  BY <1>3 DEF ReplaceCommunity, Execute, Keep, T
<1>5. T.communities = Analyses'
  BY <1>1, <1>2, <1>4, Open DEF TxInv, Analyses, WithAnalysis
<1>6. TxInv'
  BY <1>1, <1>2, <1>3, <1>4, <1>5, Open DEF TxInv, ForeignKeysHold, Joined
<1>. QED  BY <1>1, <1>2, <1>4, <1>6, Open, StatementSuffices DEF Statements

\* Pruning keeps the analyses of the candidate and of the graph it replaces.
LEMMA PruneCommunitiesInv == PublicationInv /\ PruneCommunities => PublicationInv'
<1> SUFFICES ASSUME PublicationInv, PruneCommunities PROVE PublicationInv'
    OBVIOUS
<1> DEFINE kept == [i \in SnapshotIds |-> IF i \in {candidate.snapshot, previous}
                                          THEN tx.communities[i] ELSE None]
           T == [tx EXCEPT !.communities = kept]
<1>1. stmt = "prune" /\ tx # None
  BY DEF PruneCommunities, Execute, PublicationInv, TypeOK
<1>2. kept \in [SnapshotIds -> Summaries \cup {None}]
  BY <1>1, Open DEF Tables
<1>3. /\ T \in Tables /\ T.derived = tx.derived
      /\ T.cache = tx.cache /\ T.nodes = tx.nodes /\ T.snapshot = tx.snapshot
      /\ T.evidence = tx.evidence /\ T.edges = tx.edges
      /\ T.edgeEvidence = tx.edgeEvidence /\ T.links = tx.links
      /\ T.communities = kept
  <2> HIDE DEF kept
  <2>. QED  BY SMTT(30), <1>1, <1>2, Open DEF Tables
<1> HIDE DEF T
<1>4. ForeignKeysHold(T)
  BY <1>1, <1>3, Open DEF TxInv, ForeignKeysHold
<1>5. /\ tx' = T /\ stmt' = "commit"
      /\ UNCHANGED <<db, candidate, previous, removed, rolled, reader, export>>
  BY <1>4 DEF PruneCommunities, Execute, Keep, T
<1>6. T.communities = Analyses'
  <2>1. tx.communities = WithAnalysis
    BY SMTT(30), <1>1, Open DEF TxInv, Analyses
  <2>. QED  BY <1>3, <1>5, <2>1 DEF Analyses, WithAnalysis
<1> HIDE DEF kept
<1>7. TxInv'
  BY <1>1, <1>3, <1>4, <1>5, <1>6, Open DEF TxInv, ForeignKeysHold, Joined
<1>. QED  BY <1>1, <1>3, <1>5, <1>7, Open, StatementSuffices DEF Statements

-----------------------------------------------------------------------------
\* Row deltas add up: before COMMIT the transaction holds the candidate.
LEMMA DeltaAddsUp == PublicationInv => DeltaIsCandidate
<1> SUFFICES ASSUME PublicationInv, stmt = "commit" PROVE GraphOf(tx) = candidate
    BY DEF DeltaIsCandidate
<1>1. tx # None
  BY DEF PublicationInv, TypeOK
<1>2. /\ tx.snapshot = candidate.snapshot /\ tx.nodes = candidate.nodes
      /\ tx.evidence = candidate.evidence /\ tx.edges = candidate.edges
      /\ tx.edgeEvidence = candidate.edgeEvidence /\ tx.links = candidate.links
      /\ tx.derived = candidate.derived /\ tx.communities = Analyses
  BY <1>1, Open DEF TxInv
<1>3. candidate \in Graphs /\ db.communities \in [SnapshotIds -> Summaries \cup {None}]
  BY <1>1, Open DEF Tables
<1>4. tx.communities[candidate.snapshot] = candidate.community
  BY <1>2, <1>3 DEF Analyses, WithAnalysis, Graphs
<1>5. candidate.snapshot # None
  BY <1>3, PublicationAssumption DEF Graphs
<1>. QED  BY <1>2, <1>3, <1>4, <1>5 DEF GraphOf, Graphs

\* COMMIT makes a sound database of the transaction.
LEMMA CommitInv == PublicationInv /\ Commit => PublicationInv'
<1> SUFFICES ASSUME PublicationInv, Commit PROVE PublicationInv'
    OBVIOUS
<1>1. stmt = "commit" /\ tx # None
  BY DEF Commit, PublicationInv, TypeOK
<1>2. /\ db' = tx /\ tx' = None /\ stmt' = "none" /\ candidate' = None
      /\ previous' = None /\ removed' = Nothing /\ rolled' = "no"
      /\ UNCHANGED <<reader, export>>
  BY DEF Commit
<1>3. TypeOK'
  BY <1>1, <1>2, Open DEF PublicationInv, TypeOK, Nothing, Statements
<1>4. Sound(tx)
  <2>1. ForeignKeysHold(tx) /\ tx.communities = Analyses
        /\ candidate \in Candidates /\ previous \in SnapshotIds \cup {None}
    BY <1>1, Open DEF TxInv, PublicationInv, TypeOK
  <2>2. GraphOf(tx) \in Candidates
    BY <1>1, <2>1, DeltaAddsUp DEF DeltaIsCandidate
  <2>3. candidate.snapshot \in SnapshotIds
    BY <2>1 DEF Candidates, Graphs
  <2>4. \A i \in SnapshotIds : tx.communities[i] # None =>
                                 i \in {candidate.snapshot, previous}
    BY SMTT(30), <1>1, <2>1 DEF Analyses
  <2>. QED  BY <2>1, <2>2, <2>3, <2>4 DEF Sound
<1>5. Sound(db)'
  BY <1>2, <1>4 DEF Sound, ForeignKeysHold, GraphOf, Joined
<1>6. \A r \in Readers : ReaderOK(reader[r])'
  BY <1>2 DEF PublicationInv, ReaderOK, GraphOf
<1>. QED  BY <1>2, <1>3, <1>5, <1>6 DEF PublicationInv

\* BEGIN takes the database as it is.
LEMMA BeginInv ==
  ASSUME PublicationInv, NEW g \in Candidates, BeginPublication(g)
  PROVE  PublicationInv'
<1>1. /\ tx = None /\ candidate' = g /\ tx' = db /\ previous' = db.snapshot
      /\ removed' = Nothing /\ rolled' = "no" /\ stmt' = "cache"
      /\ UNCHANGED <<db, reader, export>>
  BY DEF BeginPublication
<1>2. db \in Tables /\ Sound(db)
  BY DEF PublicationInv, TypeOK
<1>3. db # None /\ g # None
  BY <1>2, SentinelAssumption DEF Candidates
<1>4. TypeOK'
  BY <1>1, <1>2, <1>3 DEF PublicationInv, TypeOK, Nothing, Statements, Tables
<1>5. TxInv'
  BY SMTT(30), <1>1, <1>2 DEF TxInv, Sound, Analyses, ForeignKeysHold, Joined
<1>6. Sound(db)' /\ \A r \in Readers : ReaderOK(reader[r])'
  BY ZenonT(30), <1>1 DEF PublicationInv, Sound, ForeignKeysHold, GraphOf, Joined, ReaderOK
<1>. QED  BY <1>1, <1>3, <1>4, <1>5, <1>6 DEF PublicationInv

\* A rollback forgets the transaction.
LEMMA RollbackInv == PublicationInv /\ Rollback => PublicationInv'
<1> SUFFICES ASSUME PublicationInv, Rollback PROVE PublicationInv'
    OBVIOUS
<1>1. /\ tx' = None /\ stmt' = "none" /\ candidate' = None
      /\ previous' = None /\ removed' = Nothing /\ rolled' = "abandoned"
      /\ UNCHANGED <<db, reader, export>>
  BY DEF Rollback
<1>2. TypeOK'
  BY SMTT(30), <1>1 DEF PublicationInv, TypeOK, Nothing, Statements
<1>3. Sound(db)' /\ \A r \in Readers : ReaderOK(reader[r])'
  BY <1>1 DEF PublicationInv, Sound, ForeignKeysHold, GraphOf, Joined, ReaderOK
<1>. QED  BY <1>1, <1>2, <1>3 DEF PublicationInv

\* An answer is cached for the current snapshot, and only then.
LEMMA PutQueryCacheInv == PublicationInv /\ PutQueryCache => PublicationInv'
<1> SUFFICES ASSUME PublicationInv, PutQueryCache PROVE PublicationInv'
    OBVIOUS
<1> DEFINE T == [db EXCEPT !.cache = @ \cup {db.snapshot}]
<1>1. /\ tx = None /\ db.snapshot # None /\ db' = T
      /\ UNCHANGED <<tx, stmt, candidate, previous, removed, rolled, reader, export>>
  BY DEF PutQueryCache
<1>2. db \in Tables /\ Sound(db)
  BY DEF PublicationInv, TypeOK
<1>3. /\ T \in Tables /\ T.cache = db.cache \cup {db.snapshot}
      /\ T.snapshot = db.snapshot /\ T.nodes = db.nodes
      /\ T.evidence = db.evidence /\ T.edges = db.edges
      /\ T.edgeEvidence = db.edgeEvidence /\ T.links = db.links
      /\ T.derived = db.derived /\ T.communities = db.communities
  BY <1>1, <1>2 DEF Tables
<1> HIDE DEF T
<1>4. Sound(T)
  BY <1>2, <1>3 DEF Sound, ForeignKeysHold, GraphOf
<1>5. TypeOK'
  BY SMTT(30), <1>1, <1>3 DEF PublicationInv, TypeOK
<1>6. Sound(db)' /\ \A r \in Readers : ReaderOK(reader[r])'
  BY ZenonT(30), <1>1, <1>4 DEF PublicationInv, Sound, ForeignKeysHold, GraphOf, Joined, ReaderOK
<1>. QED  BY <1>1, <1>5, <1>6 DEF PublicationInv

-----------------------------------------------------------------------------
\* A step of a query changes that query only.
LEMMA ReaderSuffices ==
  ASSUME PublicationInv, NEW r \in Readers, NEW STATE q, ReaderOK(q),
         ReaderStep(r, q)
  PROVE  PublicationInv'
<1>1. /\ reader' = [reader EXCEPT ![r] = q]
      /\ UNCHANGED <<db, tx, stmt, candidate, previous, removed, rolled, export>>
  BY DEF ReaderStep
<1>2. /\ DOMAIN reader = Readers
      /\ \A s \in Readers : reader'[s] = IF s = r THEN q ELSE reader[s]
      /\ reader' = [s \in Readers |-> reader'[s]]
  BY <1>1 DEF PublicationInv
<1>3. \A s \in Readers : ReaderOK(reader[s])'
  BY SMTT(30), <1>2 DEF PublicationInv, ReaderOK, GraphOf
<1>4. TypeOK'
  BY ZenonT(30), <1>1, <1>2 DEF PublicationInv, TypeOK, ReaderOK
<1>5. Sound(db)' /\ Analyses' = Analyses
  BY SMTT(30), <1>1 DEF PublicationInv, Sound, ForeignKeysHold, GraphOf, Joined, Analyses,
              WithAnalysis
<1>6. ASSUME tx' # None PROVE TxInv'
  <2>1. TxInv
    BY <1>1, <1>6 DEF PublicationInv
  <2>2. ForeignKeysHold(tx)'
    BY <1>1, <2>1 DEF TxInv, ForeignKeysHold, Joined
  <2>. QED  BY <1>1, <1>5, <2>1, <2>2 DEF TxInv, Merged
<1>. QED  BY <1>1, <1>2, <1>3, <1>4, <1>5, <1>6 DEF PublicationInv

\* The first SELECT pins the database that the query goes on with.
LEMMA ReadSnapshotIdInv ==
  ASSUME PublicationInv, NEW r \in Readers, ReadSnapshotId(r)
  PROVE  PublicationInv'
<1> DEFINE q == [step |-> "graph", view |-> db,
                 got |-> [snapshot |-> db.snapshot], answer |-> None]
<1>1. db.snapshot # None /\ ReaderStep(r, q)
  BY DEF ReadSnapshotId
<1>2. db \in Tables /\ GraphOf(db) \in Candidates /\ db # None
  BY <1>1, SentinelAssumption DEF PublicationInv, TypeOK, Sound
<1>3. db.snapshot \in SnapshotIds
  BY <1>1, <1>2 DEF Tables
<1>4. ReaderOK(q)
  BY <1>1, <1>2, <1>3 DEF ReaderOK
<1> HIDE DEF q
<1>. QED  BY <1>1, <1>4, ReaderSuffices

\* require_snapshot finds the id that the same transaction read before.
LEMMA ReadGraphStep ==
  ASSUME PublicationInv, NEW r \in Readers, ReadGraph(r)
  PROVE  /\ reader[r].step = "graph"
         /\ ReaderStep(r, [reader[r] EXCEPT !.step = "community",
                                            !.got = GraphOf(reader[r].view)])
         /\ ReaderOK([reader[r] EXCEPT !.step = "community",
                                       !.got = GraphOf(reader[r].view)])
<1>1. ReaderOK(reader[r]) /\ reader[r].step = "graph"
  BY DEF PublicationInv, ReadGraph
<1>2. reader[r].view.snapshot = reader[r].got.snapshot
  BY SMTT(30), <1>1 DEF ReaderOK
<1>3. ReaderStep(r, [reader[r] EXCEPT !.step = "community",
                                      !.got = GraphOf(reader[r].view)])
  BY <1>2 DEF ReadGraph
<1>4. ReaderOK([reader[r] EXCEPT !.step = "community",
                                 !.got = GraphOf(reader[r].view)])
  BY <1>1 DEF ReaderOK
<1>. QED  BY <1>1, <1>3, <1>4

\* The analysis is found, and the answer is the graph of the query's view.
LEMMA ReadCommunityStep ==
  ASSUME PublicationInv, NEW r \in Readers, ReadCommunity(r)
  PROVE  /\ reader[r].step = "community"
         /\ ReaderStep(r, [NoRead EXCEPT !.answer = GraphOf(reader[r].view)])
         /\ ReaderOK([NoRead EXCEPT !.answer = GraphOf(reader[r].view)])
<1> DEFINE seen == reader[r].view
           found == seen.communities[reader[r].got.snapshot]
<1>1. ReaderOK(reader[r]) /\ reader[r].step = "community"
  BY DEF PublicationInv, ReadCommunity
<1>2. /\ seen.snapshot # None /\ GraphOf(seen) \in Candidates
      /\ reader[r].got = GraphOf(seen)
  BY <1>1 DEF ReaderOK
<1>3. GraphOf(seen).snapshot = seen.snapshot
      /\ GraphOf(seen).community = seen.communities[seen.snapshot]
  BY <1>2 DEF GraphOf
<1>4. GraphOf(seen) \in Graphs /\ GraphOf(seen).community # None
  BY <1>2, PublicationAssumption DEF Candidates, Graphs
<1>5. found # None /\ found = GraphOf(seen).community
  BY <1>2, <1>3, <1>4
<1> HIDE DEF found
<1>6. [reader[r].got EXCEPT !.community = found] = GraphOf(seen)
  BY <1>2, <1>4, <1>5 DEF Graphs
<1>7. ReaderStep(r, [NoRead EXCEPT
        !.answer = IF found = None THEN Failed("CommunitySnapshotMissing")
                   ELSE [reader[r].got EXCEPT !.community = found]])
  BY DEF ReadCommunity, found
<1>8. ReaderStep(r, [NoRead EXCEPT !.answer = GraphOf(seen)])
  BY <1>5, <1>6, <1>7
<1>9. ReaderOK([NoRead EXCEPT !.answer = GraphOf(seen)])
  BY <1>2 DEF ReaderOK, NoRead
<1>. QED  BY <1>1, <1>8, <1>9

\* Exports have a place of their own.
LEMMA ExportInv ==
  ASSUME PublicationInv, NEW x \in Exporters, ExportGraph(x) \/ ExportEvidence(x)
  PROVE  PublicationInv'
<1>1. UNCHANGED <<db, tx, stmt, candidate, previous, removed, rolled, reader>>
  BY DEF ExportGraph, ExportEvidence, ExportStep
<1>2. export' \in [Exporters -> [step : {"idle", "evidence", "done"},
                                 named : SUBSET EvidenceIds,
                                 evidence : SUBSET EvidenceIds]]
  <2>1. CASE ExportGraph(x)
    <3> DEFINE names == UNION {db.edgeEvidence[d] : d \in EdgeIds}
    <3>1. names \in SUBSET EvidenceIds
      BY SMTT(30) DEF PublicationInv, TypeOK, Tables
    <3> HIDE DEF names
    <3>2. export' = [export EXCEPT ![x] = [NoExport EXCEPT !.step = "evidence",
                                                           !.named = names]]
      BY <2>1 DEF ExportGraph, ExportStep, names
    <3>. QED  BY <3>1, <3>2 DEF NoExport, PublicationInv, TypeOK
  <2>2. CASE ExportEvidence(x)
    <3> DEFINE found == {e \in EvidenceIds : db.evidence[e] # None}
    <3>1. found \in SUBSET EvidenceIds
      OBVIOUS
    <3> HIDE DEF found
    <3>2. export' = [export EXCEPT ![x] = [export[x] EXCEPT !.step = "done",
                                                            !.evidence = found]]
      BY <2>2 DEF ExportEvidence, ExportStep, found
    <3> DEFINE R == [step : {"idle", "evidence", "done"},
                     named : SUBSET EvidenceIds, evidence : SUBSET EvidenceIds]
    <3>3. export \in [Exporters -> R]
      BY DEF PublicationInv, TypeOK
    <3>4. [export[x] EXCEPT !.step = "done", !.evidence = found] \in R
      BY <3>1, <3>3
    <3> HIDE DEF R
    <3>5. export' \in [Exporters -> R]
      BY <3>2, <3>3, <3>4
    <3>. QED  BY <3>5 DEF R
  <2>. QED  BY <2>1, <2>2
<1>3. TypeOK'
  BY <1>1, <1>2 DEF PublicationInv, TypeOK
<1>4. Sound(db)' /\ Analyses' = Analyses /\ \A r \in Readers : ReaderOK(reader[r])'
  <2>1. Sound(db)'
    BY <1>1 DEF PublicationInv, Sound, ForeignKeysHold, GraphOf, Joined
  <2>2. Analyses' = Analyses
    BY SMTT(30), <1>1 DEF Analyses, WithAnalysis
  <2>3. \A r \in Readers : ReaderOK(reader[r])'
    BY <1>1 DEF PublicationInv, ReaderOK, GraphOf
  <2>. QED  BY <2>1, <2>2, <2>3
<1>5. ASSUME tx' # None PROVE TxInv'
  <2>1. TxInv
    BY <1>1, <1>5 DEF PublicationInv
  <2>2. ForeignKeysHold(tx)'
    BY <1>1, <2>1 DEF TxInv, ForeignKeysHold, Joined
  <2>. QED  BY <1>1, <1>4, <2>1, <2>2 DEF TxInv, Merged
<1>. QED  BY <1>1, <1>3, <1>4, <1>5 DEF PublicationInv

-----------------------------------------------------------------------------
\* Steps that change nothing keep the invariant.
LEMMA StutterInv == PublicationInv /\ UNCHANGED vars => PublicationInv'
<1> SUFFICES ASSUME PublicationInv, UNCHANGED vars PROVE PublicationInv'
    OBVIOUS
<1> USE DEF vars
<1>1. TypeOK'
  BY SMTT(30) DEF PublicationInv, TypeOK
<1>2. Sound(db)' /\ Analyses' = Analyses /\ \A r \in Readers : ReaderOK(reader[r])'
  <2>1. Sound(db)'
    BY DEF PublicationInv, Sound, ForeignKeysHold, GraphOf, Joined
  <2>2. Analyses' = Analyses
    BY SMTT(30), SMTT(30) DEF Analyses, WithAnalysis
  <2>3. \A r \in Readers : ReaderOK(reader[r])'
    BY DEF PublicationInv, ReaderOK, GraphOf
  <2>. QED  BY SMTT(30), <2>1, <2>2, <2>3
<1>3. ASSUME tx' # None PROVE TxInv'
  <2>1. TxInv
    BY <1>3 DEF PublicationInv
  <2>2. ForeignKeysHold(tx)'
    BY <2>1 DEF TxInv, ForeignKeysHold, Joined
  <2>. QED  BY <1>2, <2>1, <2>2 DEF TxInv, Merged
<1>. QED  BY <1>1, <1>2, <1>3 DEF PublicationInv

\* The invariant of a publication is inductive: before every statement the
\* transaction holds what the earlier ones promised, the database is a sound
\* graph, and every query holds one such database.
LEMMA StepPublicationInv == PublicationInv /\ [Next]_vars => PublicationInv'
<1> SUFFICES ASSUME PublicationInv, [Next]_vars PROVE PublicationInv'
    OBVIOUS
<1>1. ASSUME NEW g \in Candidates, BeginPublication(g) PROVE PublicationInv'
  BY <1>1, BeginInv
<1>2. CASE Statement
  BY <1>2, DeleteQueryCacheInv, UpsertSnapshotIdInv, UpsertEvidenceInv,
     UpsertNodesInv, ReplaceChangedEdgesInv, ReplaceManualLinksInv,
     DeleteRemovedNodesInv, DeleteRemovedEvidenceInv, ReplaceDerivedInv,
     ReplaceCommunityInv, PruneCommunitiesInv DEF Statement
<1>3. CASE Commit \/ Rollback \/ PutQueryCache
  BY <1>3, CommitInv, RollbackInv, PutQueryCacheInv
<1>4. ASSUME NEW r \in Readers, ReadSnapshotId(r) PROVE PublicationInv'
  BY <1>4, ReadSnapshotIdInv
<1>5. ASSUME NEW r \in Readers, ReadGraph(r) PROVE PublicationInv'
  BY <1>5, ReadGraphStep, ReaderSuffices
<1>6. ASSUME NEW r \in Readers, ReadCommunity(r) PROVE PublicationInv'
  BY <1>6, ReadCommunityStep, ReaderSuffices
<1>7. ASSUME NEW x \in Exporters, ExportGraph(x) \/ ExportEvidence(x)
      PROVE  PublicationInv'
  BY <1>7, ExportInv
<1>8. CASE UNCHANGED vars
  BY <1>8, StutterInv
<1>. QED  BY <1>1, <1>2, <1>3, <1>4, <1>5, <1>6, <1>7, <1>8 DEF Next

\* For any workspace, any sequence of publications, failures and queries.
THEOREM PublicationInductive == Spec => []PublicationInv
<1>. QED  BY InitPublicationInv, StepPublicationInv, PTL DEF Spec

\* publish_current_graph never fails on a foreign key: every valid candidate
\* can replace every graph that was published.
THEOREM NeverBlocked == Spec => []NeverBlockedByForeignKeys
<1>1. PublicationInv => NeverBlockedByForeignKeys
  BY DEF PublicationInv, NeverBlockedByForeignKeys
<1>. QED  BY <1>1, PublicationInductive, PTL

\* The row deltas of publish_current_graph add up to the candidate, for all
\* graphs that can be stored when it starts.
THEOREM DeltaCommitsCandidate == Spec => []DeltaIsCandidate
<1>. QED  BY DeltaAddsUp, PublicationInductive, PTL

INSTANCE FiniteSetTheorems

\* At most two analyses are stored, one of them that of the current graph, and
\* only answers for the current snapshot are cached.
LEMMA DerivedFollows == PublicationInv => DerivedStateFollows
<1> SUFFICES ASSUME PublicationInv PROVE DerivedStateFollows
    OBVIOUS
<1> DEFINE A == {i \in SnapshotIds : db.communities[i] # None}
<1>1. db \in Tables /\ Sound(db)
  BY DEF PublicationInv, TypeOK
<1>2. db.snapshot # None => db.communities[db.snapshot] # None
  BY <1>1, PublicationAssumption DEF Sound, GraphOf, Candidates, Graphs
<1>3. PICK a, b \in SnapshotIds \cup {None} :
        \A i \in SnapshotIds : db.communities[i] # None => i \in {a, b}
  BY <1>1 DEF Sound
<1>4. A \subseteq {a, b}
  BY <1>3
<1> HIDE DEF A
<1>5. IsFiniteSet({a, b}) /\ Cardinality({a, b}) <= 2 /\ Cardinality({a, b}) \in Nat
  <2>1. IsFiniteSet({b}) /\ Cardinality({b}) = 1
    BY FS_Singleton
  <2>2. {a, b} = {b} \cup {a}
    OBVIOUS
  <2>. QED  BY SMTT(30), SMTT(30), <2>1, <2>2, FS_AddElement
<1>6. Cardinality(A) \in Nat /\ Cardinality(A) <= 2
  BY SMTT(30), <1>4, <1>5, FS_Subset, FS_CardinalityType
<1>7. db.cache \subseteq {db.snapshot}
  BY <1>1 DEF Sound, ForeignKeysHold
<1>. QED  BY <1>2, <1>6, <1>7 DEF DerivedStateFollows, A

\* Only COMMIT and put_query_cache write the database.
LEMMA WhoWrites == [Next]_vars => db' = db \/ Commit \/ PutQueryCache
BY  DEF Next, vars, BeginPublication, Statement, DeleteQueryCache, UpsertSnapshotId,
       UpsertEvidence, UpsertNodes, ReplaceChangedEdges, ReplaceManualLinks,
       DeleteRemovedNodes, DeleteRemovedEvidence, ReplaceDerived, ReplaceCommunity,
       PruneCommunities, Execute, Rollback, ReadSnapshotId, ReadGraph, ReadCommunity,
       ReaderStep, ExportGraph, ExportEvidence, ExportStep

\* put_query_cache does not touch the graph.
LEMMA CacheKeepsGraph ==
  PublicationInv /\ PutQueryCache =>
    GraphOf(db') = GraphOf(db) /\ db'.snapshot = db.snapshot
BY DEF PublicationInv, TypeOK, PutQueryCache, Tables, GraphOf

\* What a step does to the analyses and to the cache.
LEMMA StepRetains ==
  PublicationInv /\ [Next]_vars =>
    /\ db'.snapshot # db.snapshot /\ db.snapshot # None =>
         db'.communities[db.snapshot] = db.communities[db.snapshot]
    /\ GraphOf(db') # GraphOf(db) => db'.cache = {}
<1> SUFFICES ASSUME PublicationInv, [Next]_vars
             PROVE  /\ db'.snapshot # db.snapshot /\ db.snapshot # None =>
                         db'.communities[db.snapshot] = db.communities[db.snapshot]
                    /\ GraphOf(db') # GraphOf(db) => db'.cache = {}
    OBVIOUS
<1>1. CASE db' = db
  BY <1>1
<1>2. CASE PutQueryCache
  BY <1>2, CacheKeepsGraph
<1>3. CASE Commit
  <2>1. stmt = "commit" /\ tx # None /\ db' = tx
    BY <1>3 DEF Commit, PublicationInv, TypeOK
  <2>2. /\ tx.cache = {} /\ tx.snapshot = candidate.snapshot
        /\ previous = db.snapshot /\ tx.communities = Analyses
    BY <2>1, Open DEF TxInv
  <2>3. /\ db.communities \in [SnapshotIds -> Summaries \cup {None}]
        /\ db.snapshot \in SnapshotIds \cup {None}
    BY DEF PublicationInv, TypeOK, Tables
  <2>4. ASSUME db.snapshot # None, tx.snapshot # db.snapshot
        PROVE  tx.communities[db.snapshot] = db.communities[db.snapshot]
    BY <2>1, <2>2, <2>3, <2>4 DEF Analyses, WithAnalysis
  <2>. QED  BY SMTT(30), <2>1, <2>2, <2>4
<1>. QED  BY <1>1, <1>2, <1>3, WhoWrites

\* The analyses of the current and of the replaced graph are retained, no older
\* one is, and publication clears the cache.
THEOREM DerivedIsKept == Spec => DerivedStateKept
<1>1. PublicationInv /\ [Next]_vars =>
        [/\ db'.snapshot # db.snapshot /\ db.snapshot # None =>
              db'.communities[db.snapshot] = db.communities[db.snapshot]
         /\ GraphOf(db') # GraphOf(db) => db'.cache = {}]_vars
  BY StepRetains
<1>2. Spec => RetainsReplacedAnalysis
  BY <1>1, PublicationInductive, PTL DEF Spec, RetainsReplacedAnalysis
<1>3. Spec => []DerivedStateFollows
  BY DerivedFollows, PublicationInductive, PTL
<1>. QED  BY <1>2, <1>3 DEF DerivedStateKept

-----------------------------------------------------------------------------
(***************************************************************************)
(* Refinement of GraphStore.                                               *)
(***************************************************************************)
\* A statement that does not roll back is invisible.
LEMMA StatementStutters ==
  PublicationInv /\ Statement => UNCHANGED <<db, candidate, reader>>
<1> SUFFICES ASSUME PublicationInv, Statement PROVE UNCHANGED <<db, candidate, reader>>
    OBVIOUS
<1>1. rolled' # "constraint"
  <2>1. PublicationInv'
    BY StepPublicationInv DEF Next
  <2>. QED  BY <2>1 DEF PublicationInv
<1>. QED  BY <1>1 DEF Statement, DeleteQueryCache, UpsertSnapshotId,
       UpsertEvidence, UpsertNodes, ReplaceChangedEdges, ReplaceManualLinks,
       DeleteRemovedNodes, DeleteRemovedEvidence, ReplaceDerived, ReplaceCommunity,
       PruneCommunities, Execute

\* Every step of a publication or of a query is a step of the store that
\* replaces its graph as a whole, or invisible to it.
LEMMA StepRefines == PublicationInv /\ [Next]_vars => [Store!Next]_(Store!vars)
<1> SUFFICES ASSUME PublicationInv, [Next]_vars PROVE [Store!Next]_(Store!vars)
    OBVIOUS
<1> DEFINE Reading == [r \in Readers |-> IF reader[r].view = None THEN None
                                         ELSE GraphOf(reader[r].view)]
           Answers == [r \in Readers |-> reader[r].answer]
<1>1. ASSUME NEW g \in Candidates, BeginPublication(g) PROVE Store!Request(g)
  BY <1>1 DEF BeginPublication, PublicationInv, Store!Request
<1>2. CASE Statement
  BY <1>2, StatementStutters DEF Store!vars
<1>3. CASE Commit
  <2>1. stmt = "commit" /\ tx # None
    BY <1>3 DEF Commit, PublicationInv, TypeOK
  <2>2. GraphOf(tx) = candidate /\ candidate # None
    BY <2>1, DeltaAddsUp DEF DeltaIsCandidate, PublicationInv
  <2>. QED  BY <1>3, <2>2 DEF Commit, Store!Publish, Store!Next
<1>4. CASE Rollback
  BY <1>4 DEF Rollback, PublicationInv, Store!Abandon, Store!Next
<1>5. CASE PutQueryCache
  <2>1. GraphOf(db)' = GraphOf(db)
    BY SMTT(30), <1>5, CacheKeepsGraph
  <2>. QED  BY <1>5, <2>1 DEF PutQueryCache, Store!vars
<1>6. ASSUME NEW r \in Readers, ReadSnapshotId(r) PROVE Store!StartRead(r)
  <2>1. /\ reader' = [reader EXCEPT ![r] = [step |-> "graph", view |-> db,
                        got |-> [snapshot |-> db.snapshot], answer |-> None]]
        /\ UNCHANGED <<db, candidate>> /\ reader[r].step = "idle"
        /\ db.snapshot # None /\ DOMAIN reader = Readers
    BY <1>6 DEF ReadSnapshotId, ReaderStep, PublicationInv
  <2>2. reader[r].view = None
    BY <2>1 DEF PublicationInv, ReaderOK
  <2>3. db # None /\ GraphOf(db) # None
    BY <2>1, SentinelAssumption DEF PublicationInv, TypeOK, Sound, Candidates
  <2>4. Reading' = [Reading EXCEPT ![r] = GraphOf(db)]
    BY <2>1, <2>3
  <2>5. Answers' = [Answers EXCEPT ![r] = None]
    BY <2>1
  <2>. QED  BY SMTT(30), <2>1, <2>2, <2>3, <2>4, <2>5 DEF Store!StartRead
<1>7. ASSUME NEW r \in Readers, ReadGraph(r) PROVE UNCHANGED Store!vars
  <2>1. /\ reader' = [reader EXCEPT ![r] = [reader[r] EXCEPT
                        !.step = "community", !.got = GraphOf(reader[r].view)]]
        /\ UNCHANGED <<db, candidate>> /\ DOMAIN reader = Readers
    BY <1>7, ReadGraphStep DEF ReaderStep, PublicationInv
  <2>2. ReaderOK(reader[r])
    BY DEF PublicationInv
  <2>3. \A s \in Readers : /\ reader'[s].view = reader[s].view
                           /\ reader'[s].answer = reader[s].answer
    BY <2>1, <2>2 DEF ReaderOK
  <2>4. Reading' = Reading /\ Answers' = Answers
    BY <2>3
  <2>. QED  BY <2>1, <2>4 DEF Store!vars
<1>8. ASSUME NEW r \in Readers, ReadCommunity(r) PROVE Store!FinishRead(r)
  <2>1. /\ reader' = [reader EXCEPT ![r] =
                        [NoRead EXCEPT !.answer = GraphOf(reader[r].view)]]
        /\ UNCHANGED <<db, candidate>> /\ reader[r].step = "community"
        /\ DOMAIN reader = Readers
    BY <1>8, ReadCommunityStep DEF ReaderStep, PublicationInv
  <2>2. reader[r].view # None /\ GraphOf(reader[r].view) \in Candidates
    BY <2>1 DEF PublicationInv, ReaderOK
  <2>3. GraphOf(reader[r].view) # None
    BY <2>2, SentinelAssumption DEF Candidates
  <2>4. Reading' = [Reading EXCEPT ![r] = None]
    BY <2>1 DEF NoRead
  <2>5. Answers' = [Answers EXCEPT ![r] = Reading[r]]
    BY <2>1, <2>2 DEF NoRead
  <2>6. Reading[r] # None
    BY <2>2, <2>3
  <2>. QED  BY <2>1, <2>4, <2>5, <2>6 DEF Store!FinishRead
<1>9. ASSUME NEW x \in Exporters, ExportGraph(x) \/ ExportEvidence(x)
      PROVE  UNCHANGED Store!vars
  BY <1>9 DEF ExportGraph, ExportEvidence, ExportStep, Store!vars
<1>10. CASE UNCHANGED vars
  BY <1>10 DEF vars, Store!vars
<1>. QED  BY <1>1, <1>2, <1>3, <1>4, <1>5, <1>6, <1>7, <1>8, <1>9, <1>10
          DEF Next, Store!Next

\* "readers see the previous or the new graph, never a mix": publication with
\* its statements, failures, crashes and queries implements the atomic store.
THEOREM PublicationRefinesGraphStore == Spec => ImplementsGraphStore
<1>1. Init => Store!Init
  BY SMTT(30) DEF Init, Store!Init, EmptyTables, GraphOf, NoRead
<1>. QED  BY <1>1, StepRefines, PublicationInductive, PTL
          DEF Spec, ImplementsGraphStore, Store!Spec

=============================================================================
