----------------------------- MODULE Publication -----------------------------
(***************************************************************************)
(* Publication of a workspace graph: the statements publish_current_graph  *)
(* executes inside one SQLite transaction, the foreign keys of the schema, *)
(* and readers that collect a graph with several SELECTs inside            *)
(* consistent_read.                                                        *)
(*                                                                         *)
(* A table is a function from row keys to rows; None is "no such row".     *)
(* Rows of one table that do not refer to each other are written in one    *)
(* step, since the order among them cannot matter.  The tables that are    *)
(* deleted and refilled without being referred to (runs, freshness, HTTP   *)
(* links) are one value, `derived`; artifact rows are modelled in Scan.    *)
(***************************************************************************)
EXTENDS Naturals, FiniteSets

CONSTANTS
  NodeIds, EvidenceIds, EdgeIds, LinkIds,
  Endpoints,    \* the (source, target) pairs edges and links may have
  Values,       \* contents of a node or evidence row
  Summaries,    \* contents of the derived tables and of an analysis
  SnapshotIds,
  Readers,      \* queries that read inside consistent_read
  Exporters,    \* exports, which read graph and evidence separately
  None

ASSUME PublicationAssumption ==
  /\ Endpoints \subseteq NodeIds \X NodeIds
  /\ None \notin Endpoints /\ None \notin Values
  /\ None \notin Summaries /\ None \notin SnapshotIds

VARIABLES
  db,           \* the committed tables
  tx,           \* the tables as the open write transaction sees them
  stmt,         \* the next statement of publish_current_graph
  candidate,    \* the SnapshotBatch being published
  previous,     \* local previous_snapshot_id
  removed,      \* locals removed_nodes and removed_evidence
  rolled,       \* why the last transaction was rolled back
  reader,       \* each query: its transaction and what it has read
  export        \* each export: the evidence its edges name, its evidence

vars == <<db, tx, stmt, candidate, previous, removed, rolled, reader,
          export>>

Tables ==
  [snapshot : SnapshotIds \cup {None},
   nodes : [NodeIds -> Values \cup {None}],
   evidence : [EvidenceIds -> Values \cup {None}],
   edges : [EdgeIds -> Endpoints \cup {None}],
   edgeEvidence : [EdgeIds -> SUBSET EvidenceIds],
   links : [LinkIds -> Endpoints \cup {None}],
   derived : Summaries \cup {None},
   communities : [SnapshotIds -> Summaries \cup {None}],
   cache : SUBSET SnapshotIds]

EmptyTables ==
  [snapshot |-> None,
   nodes |-> [n \in NodeIds |-> None],
   evidence |-> [e \in EvidenceIds |-> None],
   edges |-> [d \in EdgeIds |-> None],
   edgeEvidence |-> [d \in EdgeIds |-> {}],
   links |-> [l \in LinkIds |-> None],
   derived |-> None,
   communities |-> [i \in SnapshotIds |-> None],
   cache |-> {}]

-----------------------------------------------------------------------------
(***************************************************************************)
(* Candidates: what validate_graph_snapshot and validate_manual_links let  *)
(* through.                                                                *)
(***************************************************************************)
Joined(nodes, ends) == nodes[ends[1]] # None /\ nodes[ends[2]] # None

Graphs ==
  [snapshot : SnapshotIds,
   nodes : [NodeIds -> Values \cup {None}],
   evidence : [EvidenceIds -> Values \cup {None}],
   edges : [EdgeIds -> Endpoints \cup {None}],
   edgeEvidence : [EdgeIds -> SUBSET EvidenceIds],
   links : [LinkIds -> Endpoints \cup {None}],
   derived : Summaries,
   community : Summaries]

ValidGraph(g) ==
  /\ \A d \in EdgeIds :
       /\ g.edges[d] # None => Joined(g.nodes, g.edges[d])
       /\ g.edges[d] = None => g.edgeEvidence[d] = {}
       /\ \A e \in g.edgeEvidence[d] : g.evidence[e] # None
  /\ \A l \in LinkIds : g.links[l] # None => Joined(g.nodes, g.links[l])

Candidates == {g \in Graphs : ValidGraph(g)}

\* "No row" is neither a database nor a graph.
ASSUME SentinelAssumption == None \notin Tables /\ None \notin Graphs

\* What a reader of tables t gets to see.
GraphOf(t) ==
  IF t.snapshot = None THEN None
  ELSE [snapshot |-> t.snapshot, nodes |-> t.nodes, evidence |-> t.evidence,
        edges |-> t.edges, edgeEvidence |-> t.edgeEvidence, links |-> t.links,
        derived |-> t.derived, community |-> t.communities[t.snapshot]]

-----------------------------------------------------------------------------
(***************************************************************************)
(* SQLite: foreign keys are checked after each statement, and a deleted    *)
(* row takes the rows that refer to it along.                              *)
(***************************************************************************)
ForeignKeysHold(t) ==
  /\ \A d \in EdgeIds :
       /\ t.edges[d] # None => Joined(t.nodes, t.edges[d])
       /\ t.edgeEvidence[d] # {} => t.edges[d] # None
       /\ \A e \in t.edgeEvidence[d] : t.evidence[e] # None
  /\ \A l \in LinkIds : t.links[l] # None => Joined(t.nodes, t.links[l])
  /\ t.cache \subseteq {t.snapshot}

DeleteEdges(t, gone) ==
  [t EXCEPT !.edges = [d \in EdgeIds |-> IF d \in gone THEN None ELSE @[d]],
            !.edgeEvidence = [d \in EdgeIds |->
                                IF d \in gone THEN {} ELSE @[d]]]

Refers(ends, gone) == ends # None /\ (ends[1] \in gone \/ ends[2] \in gone)

DeleteNodes(t, gone) ==
  [DeleteEdges(t, {d \in EdgeIds : Refers(t.edges[d], gone)}) EXCEPT
     !.nodes = [n \in NodeIds |-> IF n \in gone THEN None ELSE @[n]],
     !.links = [l \in LinkIds |-> IF Refers(@[l], gone) THEN None ELSE @[l]]]

DeleteEvidence(t, gone) ==
  [t EXCEPT !.evidence = [e \in EvidenceIds |->
                            IF e \in gone THEN None ELSE @[e]],
            !.edgeEvidence = [d \in EdgeIds |-> @[d] \ gone]]

-----------------------------------------------------------------------------
NoExport == [step |-> "idle", named |-> {}, evidence |-> {}]

Failed(error) == [failed |-> error]

NoRead == [step |-> "idle", view |-> None, got |-> None, answer |-> None]

Statements == {"none", "cache", "snapshot", "evidence", "nodes", "edges",
               "links", "delnodes", "delevidence", "derived", "community",
               "prune", "commit"}

TypeOK ==
  /\ db \in Tables
  /\ tx \in Tables \cup {None}
  /\ stmt \in Statements
  /\ (stmt = "none") = (tx = None)
  /\ candidate \in Candidates \cup {None}
  /\ previous \in SnapshotIds \cup {None}
  /\ removed \in [nodes : SUBSET NodeIds, evidence : SUBSET EvidenceIds]
  /\ rolled \in {"no", "constraint", "abandoned"}
  /\ \A r \in Readers : /\ reader[r].step \in {"idle", "graph", "community"}
                        /\ (reader[r].step = "idle") = (reader[r].view = None)
  /\ export \in [Exporters -> [step : {"idle", "evidence", "done"},
                               named : SUBSET EvidenceIds,
                               evidence : SUBSET EvidenceIds]]

Nothing == [nodes |-> {}, evidence |-> {}]

Init ==
  /\ db = EmptyTables /\ tx = None /\ stmt = "none"
  /\ candidate = None /\ previous = None /\ removed = Nothing
  /\ rolled = "no"
  /\ reader = [r \in Readers |-> NoRead]
  /\ export = [x \in Exporters |-> NoExport]

-----------------------------------------------------------------------------
(***************************************************************************)
(* publish_snapshot_with_progress_and_coverage                             *)
(***************************************************************************)
\* Validation, BEGIN, and the SELECT of the previous snapshot id.
BeginPublication(g) ==
  /\ tx = None
  /\ candidate' = g
  /\ tx' = db
  /\ previous' = db.snapshot
  /\ removed' = Nothing
  /\ rolled' = "no"
  /\ stmt' = "cache"
  /\ UNCHANGED <<db, reader, export>>

\* A statement that breaks a foreign key is an error, which rolls back.
Execute(here, next, tables) ==
  /\ stmt = here
  /\ IF ForeignKeysHold(tables)
     THEN /\ tx' = tables /\ stmt' = next
          /\ UNCHANGED <<candidate, previous, rolled>>
     ELSE /\ tx' = None /\ stmt' = "none" /\ candidate' = None
          /\ previous' = None
          /\ rolled' = "constraint"
  /\ UNCHANGED <<db, reader, export>>

Keep == UNCHANGED removed

DeleteQueryCache ==
  /\ Execute("cache", "snapshot", [tx EXCEPT !.cache = {}])
  /\ Keep

UpsertSnapshotId ==
  /\ Execute("snapshot", "evidence",
             [tx EXCEPT !.snapshot = candidate.snapshot])
  /\ Keep

\* Rows that differ are inserted or updated in place; rows the candidate
\* lacks are returned for deletion.
Upserted(stored, rows) ==
  [x \in DOMAIN stored |->
     IF rows[x] # None /\ rows[x] # stored[x] THEN rows[x] ELSE stored[x]]

Leftover(stored, rows) ==
  {x \in DOMAIN stored : stored[x] # None /\ rows[x] = None}

\* Mutant: edges are written before the nodes they join.
UpsertEvidenceThenEdges ==
  /\ Execute("evidence", "edges",
             [tx EXCEPT !.evidence = Upserted(@, candidate.evidence)])
  /\ removed' = [removed EXCEPT
                   !.evidence = Leftover(tx.evidence, candidate.evidence)]

UpsertEvidence ==
  /\ Execute("evidence", "nodes",
             [tx EXCEPT !.evidence = Upserted(@, candidate.evidence)])
  /\ removed' = [removed EXCEPT
                   !.evidence = Leftover(tx.evidence, candidate.evidence)]

UpsertNodes ==
  /\ Execute("nodes", "edges",
             [tx EXCEPT !.nodes = Upserted(@, candidate.nodes)])
  /\ removed' = [removed EXCEPT !.nodes = Leftover(tx.nodes, candidate.nodes)]

\* Mutant: the digest of an edge leaves out its evidence.
EdgeRowChanged(d) == tx.edges[d] # candidate.edges[d]

\* The digest of an edge covers its row and its evidence ids.
EdgeChanged(d) ==
  \/ tx.edges[d] # candidate.edges[d]
  \/ tx.edgeEvidence[d] # candidate.edgeEvidence[d]

ReplaceChangedEdges ==
  LET changed == {d \in EdgeIds : EdgeChanged(d)}
      deleted == DeleteEdges(tx, changed)
  IN  /\ Execute("edges", "links",
           [deleted EXCEPT
              !.edges = [d \in EdgeIds |-> IF d \in changed
                                           THEN candidate.edges[d] ELSE @[d]],
              !.edgeEvidence = [d \in EdgeIds |->
                 IF d \in changed THEN candidate.edgeEvidence[d] ELSE @[d]]])
      /\ Keep

ReplaceManualLinks ==
  /\ Execute("links", "delnodes", [tx EXCEPT !.links = candidate.links])
  /\ Keep

DeleteRemovedNodes ==
  /\ Execute("delnodes", "delevidence", DeleteNodes(tx, removed.nodes))
  /\ Keep

DeleteRemovedEvidence ==
  /\ Execute("delevidence", "derived", DeleteEvidence(tx, removed.evidence))
  /\ Keep

ReplaceDerived ==
  /\ Execute("derived", "community", [tx EXCEPT !.derived = candidate.derived])
  /\ Keep

ReplaceCommunity ==
  /\ Execute("community", "prune",
       [tx EXCEPT !.communities[candidate.snapshot] = candidate.community])
  /\ Keep

\* Mutant: only the analysis of the new snapshot is retained.
PrunePrevious ==
  /\ Execute("prune", "commit",
       [tx EXCEPT !.communities = [i \in SnapshotIds |->
          IF i = candidate.snapshot THEN @[i] ELSE None]])
  /\ Keep

\* The analyses of the new and of the previous snapshot are retained.
PruneCommunities ==
  /\ Execute("prune", "commit",
       [tx EXCEPT !.communities = [i \in SnapshotIds |->
          IF i \in {candidate.snapshot, previous} THEN @[i] ELSE None]])
  /\ Keep

Commit ==
  /\ stmt = "commit"
  /\ db' = tx
  /\ tx' = None /\ stmt' = "none" /\ candidate' = None
  /\ previous' = None /\ removed' = Nothing /\ rolled' = "no"
  /\ UNCHANGED <<reader, export>>

\* Any other error, a cancelled worker or a crash before COMMIT.
Rollback ==
  /\ tx # None
  /\ tx' = None /\ stmt' = "none" /\ candidate' = None
  /\ previous' = None /\ removed' = Nothing /\ rolled' = "abandoned"
  /\ UNCHANGED <<db, reader, export>>

Statement ==
  \/ DeleteQueryCache \/ UpsertSnapshotId \/ UpsertEvidence \/ UpsertNodes
  \/ ReplaceChangedEdges \/ ReplaceManualLinks \/ DeleteRemovedNodes
  \/ DeleteRemovedEvidence \/ ReplaceDerived \/ ReplaceCommunity
  \/ PruneCommunities

-----------------------------------------------------------------------------
(***************************************************************************)
(* put_query_cache: an answer may be stored for the current snapshot only. *)
(***************************************************************************)
PutQueryCache ==
  /\ tx = None
  /\ db.snapshot # None
  /\ db' = [db EXCEPT !.cache = @ \cup {db.snapshot}]
  /\ UNCHANGED <<tx, stmt, candidate, previous, removed, rolled, reader, export>>

-----------------------------------------------------------------------------
(***************************************************************************)
(* A query: current snapshot id, then the graph, then its communities, all *)
(* inside consistent_read, whose transaction sees the database of its      *)
(* first SELECT.                                                           *)
(***************************************************************************)
ReaderStep(r, new) ==
  /\ reader' = [reader EXCEPT ![r] = new]
  /\ UNCHANGED <<db, tx, stmt, candidate, previous, removed, rolled, export>>

ReadSnapshotId(r) ==
  /\ reader[r].step = "idle"
  /\ db.snapshot # None
  /\ ReaderStep(r, [step |-> "graph", view |-> db,
                    got |-> [snapshot |-> db.snapshot], answer |-> None])

\* Mutant: the reads of a query are not in one transaction.
ReadGraphLater(r) ==
  /\ reader[r].step = "graph"
  /\ ReaderStep(r, IF db.snapshot # reader[r].got.snapshot
                   THEN [NoRead EXCEPT !.answer = Failed("SnapshotMissing")]
                   ELSE [reader[r] EXCEPT !.step = "community",
                                          !.got = GraphOf(db)])

\* require_snapshot, then nodes, edges, evidence, links and freshness.
ReadGraph(r) ==
  /\ reader[r].step = "graph"
  /\ LET seen == reader[r].view IN
     ReaderStep(r, IF seen.snapshot # reader[r].got.snapshot
                   THEN [NoRead EXCEPT !.answer = Failed("SnapshotMissing")]
                   ELSE [reader[r] EXCEPT !.step = "community",
                                          !.got = GraphOf(seen)])

ReadCommunity(r) ==
  /\ reader[r].step = "community"
  /\ LET found == reader[r].view.communities[reader[r].got.snapshot] IN
     ReaderStep(r, [NoRead EXCEPT
       !.answer = IF found = None THEN Failed("CommunitySnapshotMissing")
                  ELSE [reader[r].got EXCEPT !.community = found]])

-----------------------------------------------------------------------------
(***************************************************************************)
(* export_workspace and contracts_workspace: load_current_graph and        *)
(* load_current_evidence are two transactions.                             *)
(***************************************************************************)
ExportStep(x, new) ==
  /\ export' = [export EXCEPT ![x] = new]
  /\ UNCHANGED <<db, tx, stmt, candidate, previous, removed, rolled, reader>>

ExportGraph(x) ==
  /\ export[x].step # "evidence"
  /\ db.snapshot # None
  /\ ExportStep(x, [NoExport EXCEPT
       !.step = "evidence",
       !.named = UNION {db.edgeEvidence[d] : d \in EdgeIds}])

ExportEvidence(x) ==
  /\ export[x].step = "evidence"
  /\ ExportStep(x, [export[x] EXCEPT
       !.step = "done",
       !.evidence = {e \in EvidenceIds : db.evidence[e] # None}])

-----------------------------------------------------------------------------
Next ==
  \/ \E g \in Candidates : BeginPublication(g)
  \/ Statement
  \/ Commit
  \/ Rollback
  \/ PutQueryCache
  \/ \E r \in Readers : ReadSnapshotId(r) \/ ReadGraph(r) \/ ReadCommunity(r)
  \/ \E x \in Exporters : ExportGraph(x) \/ ExportEvidence(x)

Spec == Init /\ [][Next]_vars

-----------------------------------------------------------------------------
(***************************************************************************)
(* Properties                                                              *)
(***************************************************************************)
\* The order of the statements of publish_current_graph never trips over a
\* foreign key: a valid candidate can replace any published graph, whatever
\* rows are cached, removed or re-used.
NeverBlockedByForeignKeys == rolled # "constraint"

\* Row deltas add up: what the transaction is about to commit is the candidate
\* itself, row for row, whatever was stored before.
DeltaIsCandidate == stmt = "commit" => GraphOf(tx) = candidate

\* "The analyses of the current and the previous snapshot of each workspace
\* are retained": the current graph has its analysis, at most one older
\* analysis exists, and cached answers are for the current snapshot only.
DerivedStateFollows ==
  /\ db.snapshot # None => db.communities[db.snapshot] # None
  /\ Cardinality({i \in SnapshotIds : db.communities[i] # None}) <= 2
  /\ db.cache \subseteq {db.snapshot}

\* A commit keeps the analysis of the graph it replaces, for the comparison of
\* communities, and "Publication clears the workspace cache".
RetainsReplacedAnalysis ==
  [][/\ db'.snapshot # db.snapshot /\ db.snapshot # None =>
          db'.communities[db.snapshot] = db.communities[db.snapshot]
     /\ GraphOf(db') # GraphOf(db) => db'.cache = {}]_vars

(* What is derived from the graph lives and dies with it: it follows the active
   snapshot in every state, and a publication drops exactly what it replaces. *)
DerivedStateKept ==
  /\ []DerivedStateFollows
  /\ RetainsReplacedAnalysis

\* "readers see the previous or the new graph, never a mix": the statements,
\* commits, rollbacks and SELECTs implement a store that replaces the current
\* graph atomically and answers with one published graph.
Store == INSTANCE GraphStore WITH
  current <- GraphOf(db),
  reading <- [r \in Readers |-> IF reader[r].view = None THEN None
                                ELSE GraphOf(reader[r].view)],
  answer <- [r \in Readers |-> reader[r].answer]

ImplementsGraphStore == Store!Spec

\* The same promise for exports: what export_workspace renders is one graph,
\* so every evidence item an exported edge names is exported with it.
ExportIsOneGraph ==
  \A x \in Exporters :
    export[x].step = "done" => export[x].named \subseteq export[x].evidence
=============================================================================
