----------------------------- MODULE QueryCache -----------------------------
(***************************************************************************)
(* search_workspace_for_delivery and the query cache of a workspace.       *)
(*                                                                         *)
(* A query looks the answer up and computes it inside one read             *)
(* transaction, drops the store and then stores the answer under the       *)
(* writer lock in a second step.  The key is the identity of the snapshot  *)
(* and the fingerprint of the input.  The identity hashes the manifest,    *)
(* the budgets and the artifacts; it does not cover what CodeGraph         *)
(* corroborates or the freshness of the repositories, so a forced scan, or *)
(* one with CodeGraph, can publish other rows under the same identity.     *)
(***************************************************************************)
EXTENDS Naturals, FiniteSets

CONSTANTS
  SnapshotIds,
  Revisions,     \* what may be published under one identity: 0 .. n
  Inputs,        \* fingerprints of queries
  Queriers,
  MaxEntries,    \* the bound of query_cache_bound_workspace_entries: 1,024
  MaxTime,       \* bound of the model: milliseconds
  Nobody         \* no snapshot, no answer

ASSUME QueryCacheAssumption ==
  /\ Revisions \subseteq Nat
  /\ MaxEntries \in Nat \ {0}
  /\ MaxTime \in Nat

VARIABLES
  snapshot,      \* the published snapshot: identity and rows
  rows,          \* query_cache: answer and time by identity and input
  querier,       \* the answer a query computed and has still to store
  served,        \* the last answer a query returned, and the rows then current
  time

cacheVars == <<snapshot, rows, querier, served, time>>

Snapshots == [id : SnapshotIds, revision : Revisions]

\* An answer is determined by the snapshot and the input.
Answer(s, input) == [snapshot |-> s, input |-> input]

Row(s, input, at) == [key |-> <<s.id, input>>, answer |-> Answer(s, input), at |-> at]

CacheInit ==
  /\ snapshot = Nobody
  /\ rows = {}
  /\ querier = [q \in Queriers |-> Nobody]
  /\ served = Nobody
  /\ time = 0

-----------------------------------------------------------------------------
\* The first statement of publish_current_graph.
RowsAfterPublication == {}

Publish(s) ==
  /\ snapshot' = s
  /\ rows' = RowsAfterPublication
  /\ UNCHANGED <<querier, served, time>>

\* The foreign key of query_cache cascades.
RemoveCachedWorkspace ==
  /\ snapshot # Nobody
  /\ snapshot' = Nobody
  /\ rows' = {}
  /\ UNCHANGED <<querier, served, time>>

\* run_cache_clean refuses a workspace without a snapshot.
CleanCache ==
  /\ snapshot # Nobody
  /\ rows' = {}
  /\ UNCHANGED <<snapshot, querier, served, time>>

-----------------------------------------------------------------------------
Serve(answer) == served' = [answer |-> answer, current |-> snapshot]

CacheHit(q, input) ==
  /\ querier[q] = Nobody
  /\ snapshot # Nobody
  /\ \E row \in rows :
       /\ row.key = <<snapshot.id, input>>
       /\ Serve(row.answer)
  /\ UNCHANGED <<snapshot, rows, querier, time>>

\* The envelope is computed now and returned after the attempt to store it.
CacheMiss(q, input) ==
  /\ querier[q] = Nobody
  /\ snapshot # Nobody
  /\ ~\E row \in rows : row.key = <<snapshot.id, input>>
  /\ Serve(Answer(snapshot, input))
  /\ querier' = [querier EXCEPT ![q] = Row(snapshot, input, time)]
  /\ UNCHANGED <<snapshot, rows, time>>

\* ORDER BY stored_at DESC, ... LIMIT -1 OFFSET 1024: which of equally old rows
\* go depends on their keys.
Bounded(candidate) ==
  {kept \in SUBSET candidate :
     /\ Cardinality(kept) = IF Cardinality(candidate) <= MaxEntries
                            THEN Cardinality(candidate) ELSE MaxEntries
     /\ \A k \in kept, d \in candidate \ kept : d.at <= k.at}

\* Mutant: the identity is not looked up.
AlwaysStores(row) == TRUE

\* put_query_cache: the identity must be published.
SnapshotExists(row) == snapshot # Nobody /\ snapshot.id = row.key[1]

Upsert(row) == {r \in rows : r.key # row.key} \cup {row}

PutQueryCache(q) ==
  /\ querier[q] # Nobody
  /\ SnapshotExists(querier[q])
  /\ rows' \in Bounded(Upsert(querier[q]))
  /\ querier' = [querier EXCEPT ![q] = Nobody]
  /\ UNCHANGED <<snapshot, served, time>>

\* store_query_cache ignores every error, a lock it does not get in five
\* seconds and a snapshot that is gone included.
SkipStore(q) ==
  /\ querier[q] # Nobody
  /\ querier' = [querier EXCEPT ![q] = Nobody]
  /\ UNCHANGED <<snapshot, rows, served, time>>

CacheTick ==
  /\ time < MaxTime
  /\ time' = time + 1
  /\ UNCHANGED <<snapshot, rows, querier, served>>

CacheNext ==
  \/ \E s \in Snapshots : Publish(s)
  \/ RemoveCachedWorkspace
  \/ CleanCache
  \/ \E q \in Queriers :
       \/ \E input \in Inputs : CacheHit(q, input) \/ CacheMiss(q, input)
       \/ PutQueryCache(q)
       \/ SkipStore(q)
  \/ CacheTick

CacheSpec == CacheInit /\ [][CacheNext]_cacheVars

-----------------------------------------------------------------------------
RowSet == {Row(s, input, at) : s \in Snapshots, input \in Inputs, at \in 0 .. MaxTime}

\* One row per key, at most MaxEntries of them (the primary key and the
\* trigger of the schema).
CacheTypeOK ==
  /\ snapshot \in Snapshots \cup {Nobody}
  /\ rows \subseteq RowSet
  /\ \A r1, r2 \in rows : r1.key = r2.key => r1 = r2
  /\ Cardinality(rows) <= MaxEntries
  /\ \A q \in Queriers : querier[q] \in RowSet \cup {Nobody}
  /\ time \in 0 .. MaxTime

\* The cache never holds an answer about a snapshot that is no longer
\* published, although answers are stored some time after they were computed
\* (put_query_cache's test and the first statement of the publication).
CacheFollowsSnapshot ==
  \A row \in rows : snapshot # Nobody /\ row.key[1] = snapshot.id

\* "Keeps freshly computed and cached query results identical": a query
\* returns what it would compute from the rows that are current as it reads.
AnswersAreFresh == served # Nobody => served.answer.snapshot = served.current
=============================================================================
