-------------------------------- MODULE Scan --------------------------------
(***************************************************************************)
(* run_loaded_scan: fingerprint the artifacts, derive the snapshot         *)
(* identity, reuse the published snapshot or plan an incremental scan,     *)
(* reuse or extract batches, checkpoint the fresh ones, assemble the graph *)
(* and publish it, while files may be edited and the process may end.      *)
(*                                                                         *)
(* The writer lock is held throughout (StoreLock) and publication is one   *)
(* step (Publication implements GraphStore), so a scan shares only the     *)
(* files with others.  A hash is the content it was computed from; what an *)
(* extractor finds in a file is a function of its content, so the payload  *)
(* of a batch is the content that was read.  Each artifact is one file and *)
(* one extractor.                                                          *)
(***************************************************************************)
EXTENDS Naturals, FiniteSets

CONSTANTS
  Repos,
  Artifacts,
  RepoOf,        \* the repository of each artifact
  Contents,      \* what a file may hold
  Absent,        \* the elements of Contents that stand for "no file"
  Settings,      \* the workspaces considered and how their files change
  None

ASSUME ScanAssumption ==
  /\ RepoOf \in [Artifacts -> Repos]
  /\ Absent \subseteq Contents
  /\ None \notin Contents
  /\ \A w \in Settings :
       /\ w.declared \subseteq Artifacts
       /\ w.sizes \in [Contents -> Nat]
       /\ w.edits \subseteq Contents \X Contents
       /\ \A c \in w.configs : c = [manifest |-> c.manifest,
                                    budget |-> c.budget]
       /\ w.concurrent \in BOOLEAN

VARIABLES
  setting,       \* the member of Settings this workspace is; never changes
  disk,          \* the content of each artifact's file
  config,        \* the configuration in force
  store,         \* the published snapshot
  cache,         \* checkpointed batches of the work sidecar
  scan,          \* the scan that runs: its options and locals
  settled        \* the scope of the last scan, when it succeeded and nothing
                 \* has changed since it began; otherwise {}

vars == <<setting, disk, config, store, cache, scan, settled>>

\* OpenAPI artifacts: no batch, read when the graph is built.
Declared == setting.declared

\* The size of a file by content.
SizeOf == setting.sizes

\* The changes of a file that occur, as pairs of contents, and whether they
\* occur while a scan runs.
Edits == setting.edits

Concurrent == setting.concurrent

\* Merged configurations: manifest hash and budgets.
Configs == setting.configs

Focused == Artifacts \ Declared

Fingerprint(hash, size) == [hash |-> hash, size |-> size]

Batch(source, budget, payload) ==
  [source |-> source, budget |-> budget, payload |-> payload]

\* What may be stored of a file, found in it, and published under an identity.
Fingerprints == [hash : Contents \cup {None}, size : Nat]

Budgets == UNION {{c.budget : c \in w.configs} : w \in Settings}

Batches == [source : Fingerprints, budget : Budgets, payload : Contents]

Identities ==
  [manifest : UNION {{c.manifest : c \in w.configs} : w \in Settings},
   budget : Budgets,
   fps : [Artifacts -> Fingerprints \cup {None}]]

ASSUME NoneAssumption ==
  None \notin Fingerprints /\ None \notin Batches /\ None \notin Identities

Nothing == [a \in Artifacts |-> None]

NoSnapshot == [id |-> None, fps |-> Nothing, batches |-> Nothing,
               facts |-> Nothing]

Idle == [step |-> "idle", scope |-> {}, partial |-> FALSE, force |-> FALSE,
         reuse |-> FALSE, quiet |-> TRUE, config |-> None, todo |-> {},
         fps |-> Nothing, id |-> None, changed |-> {}, deleted |-> {},
         found |-> Nothing, batches |-> Nothing, unpublished |-> {},
         facts |-> Nothing, failed |-> FALSE]

Init ==
  /\ setting \in Settings
  /\ disk \in [Artifacts -> {e[1] : e \in Edits} \cup {e[2] : e \in Edits}]
  /\ config \in Configs
  /\ store = NoSnapshot
  /\ cache = {}
  /\ scan = Idle
  /\ settled = {}

-----------------------------------------------------------------------------
(***************************************************************************)
(* The world outside: editors, version control, configuration changes.     *)
(***************************************************************************)
EditFile(a) ==
  /\ Concurrent \/ scan.step = "idle"
  /\ \E e \in Edits : disk[a] = e[1] /\ disk' = [disk EXCEPT ![a] = e[2]]
  /\ scan' = [scan EXCEPT !.quiet = (scan.step = "idle")]
  /\ settled' = {}
  /\ UNCHANGED <<setting, config, store, cache>>

\* The configuration is loaded once, before the scan proper.
EditConfig ==
  /\ scan.step = "idle"
  /\ config' \in Configs \ {config}
  /\ settled' = {}
  /\ UNCHANGED <<setting, disk, store, cache, scan>>

-----------------------------------------------------------------------------
(***************************************************************************)
(* Discovery and fingerprinting                                            *)
(***************************************************************************)
Become(new) ==
  /\ scan' = new
  /\ UNCHANGED <<setting, disk, config, store, cache, settled>>

\* An error ends the scan.
Fail == Become(Idle)

Settle == settled' = IF scan.quiet THEN scan.scope ELSE {}

\* The options: repositories, --repo, --force, and corroboration by CodeGraph
\* of unchanged inputs too.  Declared files are fingerprinted whether they
\* exist or not.
StartScan(scope, partial, force, codegraph) ==
  /\ scan.step = "idle"
  /\ ~partial => scope = Repos
  /\ scan' = [Idle EXCEPT
       !.step = "stat", !.scope = scope, !.partial = partial,
       !.force = force, !.reuse = ~force /\ ~codegraph, !.config = config,
       !.todo = {a \in Artifacts :
                   /\ RepoOf[a] \in scope
                   /\ a \in Declared \/ disk[a] \notin Absent}]
  /\ settled' = {}
  /\ UNCHANGED <<setting, disk, config, store, cache>>

StatFile(a) ==
  /\ scan.step = "stat" /\ a \in scan.todo
  /\ IF disk[a] \in Absent THEN Fail
     ELSE Become([scan EXCEPT !.step = "hash", !.todo = @ \ {a},
                    !.fps[a] = Fingerprint(None, SizeOf[disk[a]])])

\* The content is read after the metadata.  A stat-cache hit is the case in
\* which the file did not change in between.
HashFile(a) ==
  /\ scan.step = "hash"
  /\ scan.fps[a] # None /\ scan.fps[a].hash = None
  /\ IF disk[a] \in Absent THEN Fail
     ELSE Become([scan EXCEPT !.step = "stat", !.fps[a].hash = disk[a]])

-----------------------------------------------------------------------------
(***************************************************************************)
(* Identity, reuse and plan                                                *)
(***************************************************************************)
\* snapshot_identity hashes all of these: equal identities, equal inputs.
SnapshotIdentity(c, fps) ==
  [manifest |-> c.manifest, budget |-> c.budget, fps |-> fps]

\* Mutant: a partial scan forgets the other repositories.
OnlyDiscovered == scan.fps

\* A partial scan keeps the published fingerprints of the other repositories.
MergedFingerprints ==
  [a \in Artifacts |->
     IF scan.partial /\ RepoOf[a] \notin scan.scope THEN store.fps[a]
     ELSE scan.fps[a]]

\* --force forgets what was published for the selected repositories.
PreviousFingerprints ==
  [a \in Artifacts |-> IF scan.force /\ RepoOf[a] \in scan.scope THEN None
                       ELSE store.fps[a]]

\* plan_incremental_scan
Changed(previous, current) ==
  {a \in Artifacts : /\ current[a] # None
                     /\ \/ previous[a] = None
                        \/ previous[a].hash # current[a].hash}

Deleted(previous, current) ==
  {a \in Artifacts : previous[a] # None /\ current[a] = None}

\* load_batches: checkpoints of artifacts whose published batch is not for
\* exactly this fingerprint and these budgets.
Checkpointed(a, fp) ==
  {b \in cache : /\ b.artifact = a
                 /\ b.batch.source = fp
                 /\ b.batch.budget = scan.config.budget}

FromCache(fps) ==
  [a \in Artifacts |->
     IF \/ scan.force \/ a \notin Focused \/ fps[a] = None
        \/ /\ store.batches[a] # None
           /\ store.batches[a].source = fps[a]
           /\ store.batches[a].budget = scan.config.budget
        \/ Checkpointed(a, fps[a]) = {}
     THEN None
     ELSE (CHOOSE b \in Checkpointed(a, fps[a]) : TRUE).batch]

\* Mutant: any published snapshot is reused.
ReusesAnySnapshot(id) == scan.reuse /\ store.id # None

ReusesSnapshot(id) == scan.reuse /\ store.id = id

BudgetsChanged ==
  \E a \in Artifacts : /\ store.batches[a] # None
                       /\ store.batches[a].budget # scan.config.budget

PlanScan ==
  /\ scan.step = "stat" /\ scan.todo = {}
  /\ LET fps == MergedFingerprints
         id == SnapshotIdentity(scan.config, fps)
         previous == PreviousFingerprints
     IN  CASE ReusesSnapshot(id) ->
                /\ scan' = Idle
                /\ Settle
                /\ UNCHANGED <<setting, disk, config, store, cache>>
           [] ~ReusesSnapshot(id) /\ scan.partial /\ BudgetsChanged -> Fail
           [] OTHER ->
                Become([scan EXCEPT
                  !.step = "extract", !.fps = fps, !.id = id,
                  !.changed = Changed(previous, fps),
                  !.deleted = Deleted(previous, fps),
                  !.found = FromCache(fps),
                  !.todo = {a \in Focused : fps[a] # None}])

-----------------------------------------------------------------------------
(***************************************************************************)
(* assemble_focused_batches: reuse or extract, then checkpoint             *)
(***************************************************************************)
Matches(batch, fp) ==
  /\ batch # None
  /\ batch.source.hash = fp.hash
  /\ batch.budget = scan.config.budget

\* The batch of an earlier run that stands for artifact a, checkpoints first.
Reusable(a) ==
  CASE Matches(scan.found[a], scan.fps[a]) -> scan.found[a]
    [] /\ ~Matches(scan.found[a], scan.fps[a])
       /\ a \notin scan.changed /\ Matches(store.batches[a], scan.fps[a]) ->
         store.batches[a]
    [] OTHER -> None

Published(a) == scan.found[a] = None

ReuseBatch(a) ==
  /\ scan.step = "extract" /\ a \in scan.todo
  /\ Reusable(a) # None
  /\ Become([scan EXCEPT
       !.todo = @ \ {a}, !.batches[a] = Reusable(a),
       !.unpublished = IF Published(a) THEN @ ELSE @ \cup {a}])

\* extract_file reads the file again.  After an error other jobs are skipped
\* and what was extracted so far is still checkpointed.
ExtractFile(a) ==
  /\ scan.step = "extract" /\ a \in scan.todo
  /\ Reusable(a) = None
  /\ IF disk[a] \in Absent
     THEN Become([scan EXCEPT !.step = "checkpoint", !.failed = TRUE])
     ELSE Become([scan EXCEPT
            !.todo = @ \ {a},
            !.batches[a] = Batch(scan.fps[a], scan.config.budget, disk[a]),
            !.unpublished = @ \cup {a}])

FreshBatches ==
  {[artifact |-> a, batch |-> scan.batches[a]] :
     a \in {x \in scan.unpublished : scan.found[x] = None}}

SameKey(x, y) ==
  /\ x.artifact = y.artifact
  /\ x.batch.source = y.batch.source /\ x.batch.budget = y.batch.budget

\* put_batches: an entry replaces the one with its key; evict_to_quota then
\* removes what does not fit, which depends on sizes and access times.
WriteCheckpoints ==
  /\ \/ scan.step = "extract" /\ scan.todo = {}
     \/ scan.step = "checkpoint"
  /\ \E kept \in SUBSET (FreshBatches \cup
         {x \in cache : \A y \in FreshBatches : ~SameKey(x, y)}) :
       cache' = kept
  /\ scan' = IF scan.failed THEN Idle
             ELSE [scan EXCEPT !.step = "assemble", !.todo = Declared]
  /\ UNCHANGED <<setting, disk, config, store, settled>>

-----------------------------------------------------------------------------
(***************************************************************************)
(* assemble_graph and publication                                          *)
(***************************************************************************)
\* extract_boundaries reads the OpenAPI files of every repository.
ReadDeclared(a) ==
  /\ scan.step = "assemble" /\ a \in scan.todo
  /\ IF disk[a] \in Absent THEN Fail
     ELSE Become([scan EXCEPT !.todo = @ \ {a}, !.facts[a] = disk[a]])

Facts ==
  [a \in Artifacts |-> IF a \in Declared THEN scan.facts[a]
                       ELSE IF scan.batches[a] = None THEN None
                       ELSE scan.batches[a].payload]

\* Mutant: rows of deleted artifacts stay.
RowsNotDeleted(rows, new, upserted) ==
  [a \in Artifacts |-> IF scan.force \/ a \in upserted THEN new[a]
                       ELSE rows[a]]

\* The rows publish_current_graph leaves: all of the candidate's after
\* --force, otherwise the old rows with the planned delta applied.
PublishedRows(rows, new, upserted) ==
  [a \in Artifacts |-> CASE scan.force \/ a \in upserted -> new[a]
                         [] ~scan.force /\ a \in scan.deleted \ upserted -> None
                         [] OTHER -> rows[a]]

PublishScan ==
  /\ scan.step = "assemble" /\ scan.todo = {}
  /\ store' = [id |-> scan.id,
               fps |-> PublishedRows(store.fps, scan.fps, scan.changed),
               batches |-> PublishedRows(store.batches, scan.batches,
                                         scan.unpublished),
               facts |-> Facts]
  /\ scan' = Idle
  /\ Settle
  /\ UNCHANGED <<setting, disk, config, cache>>

\* The process ends, is cancelled or runs out of its limits.
AbandonScan ==
  /\ scan.step # "idle"
  /\ Fail

-----------------------------------------------------------------------------
Options == {o \in [scope : (SUBSET Repos) \ {{}}, partial : BOOLEAN,
                   force : BOOLEAN, codegraph : BOOLEAN] :
              ~o.partial => o.scope = Repos}

Next ==
  \/ \E o \in Options : StartScan(o.scope, o.partial, o.force, o.codegraph)
  \/ \E a \in Artifacts :
       \/ EditFile(a) \/ StatFile(a) \/ HashFile(a)
       \/ ReuseBatch(a) \/ ExtractFile(a) \/ ReadDeclared(a)
  \/ EditConfig
  \/ PlanScan
  \/ WriteCheckpoints
  \/ PublishScan
  \/ AbandonScan

Spec == Init /\ [][Next]_vars

-----------------------------------------------------------------------------
(***************************************************************************)
(* Workspaces by how their files change: what the properties depend on.    *)
(***************************************************************************)
\* Whoever edits a file while a scan runs keeps its size.
SizesKeptIn(w) ==
  w.concurrent => \A e \in w.edits : w.sizes[e[1]] = w.sizes[e[2]]

SizesKept == \A w \in Settings : SizesKeptIn(w)

\* Edits lead from content c to content d.
Leads(w, c, d) ==
  \A S \in SUBSET Contents :
    c \in S /\ (\A e \in w.edits : e[1] \in S => e[2] \in S) => d \in S

\* No file returns to an earlier content.
NeverReturns(w) ==
  \A c, d \in Contents : Leads(w, c, d) /\ Leads(w, d, c) => c = d

\* The workspaces in which a hash tells what was read: no content comes back, or
\* no OpenAPI document exists and files rest while a scan runs.
HashesTell ==
  \A w \in Settings : NeverReturns(w) \/ (~w.concurrent /\ w.declared = {})

-----------------------------------------------------------------------------
(***************************************************************************)
(* Properties                                                              *)
(***************************************************************************)
Steps == {"idle", "stat", "hash", "extract", "checkpoint", "assemble"}

TypeOK ==
  /\ setting \in Settings
  /\ disk \in [Artifacts -> Contents]
  /\ config \in Configs
  /\ store \in [id : Identities \cup {None},
                fps : [Artifacts -> Fingerprints \cup {None}],
                batches : [Artifacts -> Batches \cup {None}],
                facts : [Artifacts -> Contents \cup {None}]]
  /\ cache \subseteq [artifact : Artifacts, batch : Batches]
  /\ scan \in [step : Steps, scope : SUBSET Repos, partial : BOOLEAN,
               force : BOOLEAN, reuse : BOOLEAN, quiet : BOOLEAN,
               config : Configs \cup {None}, todo : SUBSET Artifacts,
               fps : [Artifacts -> Fingerprints \cup {None}],
               id : Identities \cup {None},
               changed : SUBSET Artifacts, deleted : SUBSET Artifacts,
               found : [Artifacts -> Batches \cup {None}],
               batches : [Artifacts -> Batches \cup {None}],
               unpublished : SUBSET Artifacts,
               facts : [Artifacts -> Contents \cup {None}], failed : BOOLEAN]
  /\ settled \subseteq Repos

\* "incremental and full scans publish identical graphs": a scan during which
\* nothing changed leaves exactly the facts of the files of its scope,
\* whatever earlier scans, crashes and checkpoints left behind.
ScanIsExact ==
  \A a \in Artifacts : RepoOf[a] \in settled =>
    store.facts[a] = IF disk[a] \in Absent THEN None ELSE disk[a]

\* "an equal identity also proves that the published batches are reusable
\* under the active contract and budgets": the published identity covers the
\* batch of every focused artifact, so reuse of a snapshot needs no look at
\* the batches.
IdentityProvesBatches ==
  store.id # None =>
    \A a \in Focused :
      IF store.id.fps[a] = None THEN store.batches[a] = None
      ELSE /\ store.batches[a] # None
           /\ store.batches[a].source.hash = store.id.fps[a].hash
           /\ store.batches[a].budget = store.id.budget

\* "every other stored fingerprint and extractor batch must already equal the
\* candidate": after publishing a delta the stored fingerprints are those the
\* identity was computed from.
StoredEqualsCandidate == store.id # None => store.fps = store.id.fps

(* The identity that the next scan compares itself with is the truth about the
   rows stored under it, batches and fingerprints both. *)
IdentityIsHonest ==
  /\ IdentityProvesBatches
  /\ StoredEqualsCandidate

\* "--repo recomputes only the selected alias and retains the other
\* repositories' previous batches".
UnselectedRetained ==
  [][scan.partial =>
       \A a \in Focused : RepoOf[a] \notin scan.scope =>
         /\ store'.fps[a] = store.fps[a]
         /\ store'.batches[a] = store.batches[a]
         /\ store'.facts[a] = store.facts[a]]_vars
=============================================================================
