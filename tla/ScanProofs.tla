----------------------------- MODULE ScanProofs -----------------------------
(***************************************************************************)
(* What scans leave behind, for any repositories, artifacts, contents and  *)
(* configurations, whatever edits, crashes and checkpoints come between:   *)
(* the published identity proves the batches, a partial scan keeps the     *)
(* other repositories, and quiet scans are exact.                          *)
(***************************************************************************)
EXTENDS Scan, TLAPS

\* Zenon finds the steps that name no other prover.
USE Zenon

\* The scan has planned: the store is what it planned against.
Planned == scan.step \in {"extract", "checkpoint", "assemble"}

\* Artifacts that still wait for a batch.
Waiting == IF scan.step = "assemble" THEN {} ELSE scan.todo

\* While a file is between stat and hash no other one is; a scan that runs has a
\* configuration.
HashInv ==
  /\ scan.step # "idle" => scan.config \in Configs
  /\ \A a \in Artifacts :
       scan.fps[a] # None /\ scan.fps[a].hash = None => scan.step = "hash"
  /\ \A a, b \in Artifacts :
       /\ scan.fps[a] # None /\ scan.fps[a].hash = None
       /\ scan.fps[b] # None /\ scan.fps[b].hash = None
       => a = b

\* The published rows say what the published identity says.
StoreInv ==
  /\ store.id = None => store.fps = Nothing /\ store.batches = Nothing
  /\ store.id # None =>
       \A a \in Artifacts :
         /\ (store.fps[a] = None) = (store.id.fps[a] = None)
         /\ store.fps[a] # None => /\ store.fps[a].hash \in Contents
                                   /\ store.fps[a].hash = store.id.fps[a].hash
  /\ IdentityProvesBatches
  /\ \A a \in Artifacts : a \notin Focused => store.batches[a] = None
  /\ \A a \in Focused : store.facts[a] = IF store.batches[a] = None THEN None
                                         ELSE store.batches[a].payload

\* A planned scan: its delta is the difference to the store, what it found among
\* the checkpoints fits, and every artifact that no longer waits has a batch
\* that fits, the stored one unless it is noted as unpublished.
PlanInv ==
  IF ~Planned THEN scan.batches = Nothing /\ scan.unpublished = {} /\ ~scan.failed
  ELSE
    /\ scan.id = SnapshotIdentity(scan.config, scan.fps)
    /\ scan.changed = Changed(PreviousFingerprints, scan.fps)
    /\ scan.deleted = Deleted(PreviousFingerprints, scan.fps)
    /\ scan.failed = (scan.step = "checkpoint")
    /\ \A a \in Waiting : a \in Focused /\ scan.fps[a] # None
    /\ \A a \in Artifacts :
         /\ scan.partial /\ RepoOf[a] \notin scan.scope => scan.fps[a] = store.fps[a]
         /\ scan.found[a] # None => a \in Focused /\ Matches(scan.found[a], scan.fps[a])
         /\ IF a \in Focused /\ scan.fps[a] # None /\ a \notin Waiting
            THEN /\ Matches(scan.batches[a], scan.fps[a])
                 /\ a \notin scan.unpublished => scan.batches[a] = store.batches[a]
            ELSE scan.batches[a] = None /\ a \notin scan.unpublished

ScanInv == TypeOK /\ HashInv /\ StoreInv /\ PlanInv

-----------------------------------------------------------------------------
\* The size belongs to the content that was hashed.
Honest(fp) == fp.hash \in Contents /\ fp.size = SizeOf[fp.hash]

FpsHonest ==
  \A a \in Artifacts : scan.fps[a] # None =>
    \/ Honest(scan.fps[a])
    \/ scan.fps[a].hash = None /\ scan.fps[a].size = SizeOf[disk[a]]

RowsHonest ==
  /\ \A a \in Artifacts :
       /\ store.fps[a] # None => Honest(store.fps[a])
       /\ store.batches[a] # None => Honest(store.batches[a].source)
  /\ store.id # None =>
       \A a \in Artifacts : store.id.fps[a] # None => Honest(store.id.fps[a])

BatchesHonest ==
  /\ \A a \in Artifacts :
       /\ scan.batches[a] # None => Honest(scan.batches[a].source)
       /\ scan.found[a] # None => Honest(scan.found[a].source)
  /\ \A b \in cache : Honest(b.batch.source)

\* A partial scan reuses the published batches of the other repositories.
OthersReused ==
  Planned /\ scan.partial =>
    \A a \in Focused : RepoOf[a] \notin scan.scope =>
      /\ a \notin scan.unpublished /\ scan.found[a] = None
      /\ scan.fps[a] # None => Matches(store.batches[a], scan.fps[a])

SizeInv == FpsHonest /\ RowsHonest /\ BatchesHonest /\ OthersReused

-----------------------------------------------------------------------------
\* Content p was read for artifact a under hash h: it is the content with that
\* hash, or lies on the way from it to the file's present content.
Fits(h, p, a) ==
  \/ p = h
  \/ /\ NeverReturns(setting)
     /\ Leads(setting, h, p) /\ Leads(setting, p, disk[a])

TrueBatch(b, a) ==
  b # None => b.source.hash \in Contents /\ Fits(b.source.hash, b.payload, a)

BatchesTrue ==
  /\ \A b \in cache : TrueBatch(b.batch, b.artifact)
  /\ \A a \in Artifacts : /\ TrueBatch(store.batches[a], a)
                          /\ TrueBatch(scan.found[a], a)
                          /\ TrueBatch(scan.batches[a], a)

\* Hashes are of contents that lead to the present one.
HashesLead ==
  NeverReturns(setting) =>
    \A a \in Artifacts :
      /\ scan.fps[a] # None /\ scan.fps[a].hash # None =>
           Leads(setting, scan.fps[a].hash, disk[a])
      /\ store.fps[a] # None => Leads(setting, store.fps[a].hash, disk[a])

\* The facts of OpenAPI documents, published and about to be.
DeclaredTrue ==
  \A a \in Declared :
    /\ store.id # None =>
         /\ store.facts[a] \in Contents
         /\ store.fps[a] # None => Fits(store.fps[a].hash, store.facts[a], a)
    /\ scan.step = "assemble" /\ a \notin scan.todo =>
         /\ scan.facts[a] \in Contents
         /\ scan.fps[a] # None => Fits(scan.fps[a].hash, scan.facts[a], a)
         /\ scan.quiet => scan.facts[a] = disk[a] /\ disk[a] \notin Absent

\* As long as nothing changed a scan knows the files of its scope as they are.
ScopeKnown ==
  scan.step # "idle" =>
    /\ ~scan.partial => scan.scope = Repos
    /\ ~Concurrent => scan.quiet
    /\ scan.quiet =>
         \A a \in Artifacts :
           RepoOf[a] \in scan.scope /\ (Planned \/ a \notin scan.todo) =>
             IF scan.fps[a] = None THEN disk[a] \in Absent /\ a \notin Declared
             ELSE \/ scan.fps[a].hash = None
                  \/ scan.fps[a].hash = disk[a] /\ disk[a] \notin Absent

ExactInv ==
  /\ ~Concurrent => SizeInv
  /\ BatchesTrue /\ HashesLead /\ DeclaredTrue /\ ScopeKnown /\ ScanIsExact

-----------------------------------------------------------------------------
\* What a setting provides.
LEMMA SettingFacts ==
  ASSUME setting \in Settings
  PROVE  /\ Declared \subseteq Artifacts /\ Focused \subseteq Artifacts
         /\ SizeOf \in [Contents -> Nat]
         /\ Edits \subseteq Contents \X Contents
         /\ \A c \in Configs : c.budget \in Budgets
         /\ Concurrent \in BOOLEAN
BY SMTT(30), ScanAssumption DEF Declared, Focused, SizeOf, Edits, Configs, Budgets, Concurrent

\* Fingerprints that a configuration's identity is computed from make one.
LEMMA IdentityType ==
  ASSUME setting \in Settings, NEW c \in Configs,
         NEW fps \in [Artifacts -> Fingerprints \cup {None}]
  PROVE  SnapshotIdentity(c, fps) \in Identities
BY SMTT(30) DEF SnapshotIdentity, Identities, Budgets, Configs

\* Initially nothing is published and no scan runs.
LEMMA InitScanInv == Init => ScanInv
<1> SUFFICES ASSUME Init PROVE ScanInv
    OBVIOUS
<1> USE DEF Init, Idle, Nothing, NoSnapshot
<1>1. disk \in [Artifacts -> Contents]
  BY SMTT(30), SettingFacts
<1>2. TypeOK
  BY <1>1 DEF TypeOK, Steps
<1>3. HashInv /\ PlanInv
  BY DEF HashInv, PlanInv, Planned
<1>4. StoreInv
  BY SettingFacts DEF StoreInv, IdentityProvesBatches
<1>. QED  BY <1>2, <1>3, <1>4 DEF ScanInv

ScanRecords ==
  [step : Steps, scope : SUBSET Repos, partial : BOOLEAN,
   force : BOOLEAN, reuse : BOOLEAN, quiet : BOOLEAN,
   config : Configs \cup {None}, todo : SUBSET Artifacts,
   fps : [Artifacts -> Fingerprints \cup {None}],
   id : Identities \cup {None},
   changed : SUBSET Artifacts, deleted : SUBSET Artifacts,
   found : [Artifacts -> Batches \cup {None}],
   batches : [Artifacts -> Batches \cup {None}],
   unpublished : SUBSET Artifacts,
   facts : [Artifacts -> Contents \cup {None}], failed : BOOLEAN]

\* The end of a scan.
LEMMA IdleType == Idle \in ScanRecords
BY DEF Idle, ScanRecords, Nothing, Steps

\* A scan that moves on within its types keeps the types.
LEMMA BecomeType ==
  ASSUME TypeOK, scan' \in ScanRecords, settled' \subseteq Repos,
         UNCHANGED <<setting, disk, config, store, cache>>
  PROVE  TypeOK'
BY DEF TypeOK, ScanRecords, Configs

\* load_batches returns batches.
LEMMA FromCacheType ==
  ASSUME TypeOK, NEW fps
  PROVE  /\ FromCache(fps) \in [Artifacts -> Batches \cup {None}]
         /\ \A a \in Artifacts : FromCache(fps)[a] # None =>
              /\ a \in Focused /\ fps[a] # None /\ ~scan.force
              /\ FromCache(fps)[a].source = fps[a]
              /\ FromCache(fps)[a].budget = scan.config.budget
              /\ \E b \in cache : b.artifact = a /\ b.batch = FromCache(fps)[a]
              /\ ~ /\ store.batches[a] # None
                   /\ store.batches[a].source = fps[a]
                   /\ store.batches[a].budget = scan.config.budget
<1> SUFFICES ASSUME NEW a \in Artifacts
             PROVE  /\ FromCache(fps)[a] \in Batches \cup {None}
                    /\ FromCache(fps)[a] # None =>
                         /\ a \in Focused /\ fps[a] # None /\ ~scan.force
                         /\ FromCache(fps)[a].source = fps[a]
                         /\ FromCache(fps)[a].budget = scan.config.budget
                         /\ \E b \in cache : b.artifact = a /\ b.batch = FromCache(fps)[a]
                         /\ ~ /\ store.batches[a] # None
                              /\ store.batches[a].source = fps[a]
                              /\ store.batches[a].budget = scan.config.budget
    BY DEF FromCache
<1> DEFINE b == CHOOSE b \in Checkpointed(a, fps[a]) : TRUE
<1>1. \/ FromCache(fps)[a] = None
      \/ /\ FromCache(fps)[a] = b.batch /\ Checkpointed(a, fps[a]) # {}
         /\ a \in Focused /\ fps[a] # None /\ ~scan.force
         /\ ~ /\ store.batches[a] # None
              /\ store.batches[a].source = fps[a]
              /\ store.batches[a].budget = scan.config.budget
  BY DEF FromCache
<1>2. ASSUME Checkpointed(a, fps[a]) # {}
      PROVE  /\ b \in cache /\ b.artifact = a /\ b.batch \in Batches
             /\ b.batch.source = fps[a] /\ b.batch.budget = scan.config.budget
  <2>1. b \in Checkpointed(a, fps[a])
    BY <1>2
  <2> HIDE DEF b
  <2>. QED  BY <2>1 DEF Checkpointed, TypeOK
<1> HIDE DEF b
<1>. QED  BY <1>1, <1>2

\* The fields of the scan.
LEMMA ScanFields ==
  ASSUME TypeOK
  PROVE  /\ scan \in ScanRecords
         /\ scan.step \in Steps /\ scan.scope \subseteq Repos
         /\ scan.partial \in BOOLEAN /\ scan.force \in BOOLEAN
         /\ scan.reuse \in BOOLEAN /\ scan.quiet \in BOOLEAN
         /\ scan.failed \in BOOLEAN
         /\ scan.todo \subseteq Artifacts
         /\ scan.changed \subseteq Artifacts /\ scan.deleted \subseteq Artifacts
         /\ scan.unpublished \subseteq Artifacts
         /\ scan.fps \in [Artifacts -> Fingerprints \cup {None}]
         /\ scan.id \in Identities \cup {None}
         /\ scan.found \in [Artifacts -> Batches \cup {None}]
         /\ scan.batches \in [Artifacts -> Batches \cup {None}]
         /\ scan.facts \in [Artifacts -> Contents \cup {None}]
BY DEF TypeOK, ScanRecords

\* A scan that ends leaves the published snapshot as it was.
LEMMA EndScan ==
  ASSUME ScanInv, scan' = Idle, settled' \subseteq Repos,
         cache' \subseteq [artifact : Artifacts, batch : Batches],
         UNCHANGED <<setting, disk, config, store>>
  PROVE  ScanInv'
<1>1. TypeOK'
  BY ZenonT(30), IdleType DEF ScanInv, TypeOK, ScanRecords, Configs
<1>2. HashInv'
  BY DEF HashInv, Idle, Nothing
<1>3. StoreInv'
  BY ZenonT(30) DEF ScanInv, StoreInv, IdentityProvesBatches, Focused, Declared
<1>4. PlanInv'
  BY DEF PlanInv, Planned, Idle, Nothing
<1>. QED  BY <1>1, <1>2, <1>3, <1>4 DEF ScanInv

\* Edits of files and configurations are no business of a running scan.
LEMMA EditKeeps ==
  ASSUME ScanInv, NEW a \in Artifacts, EditFile(a)
  PROVE  ScanInv'
<1> DEFINE T == [scan EXCEPT !.quiet = (scan.step = "idle")]
<1>0. TypeOK /\ scan' = T /\ UNCHANGED <<setting, config, store, cache>>
      /\ settled' = {}
  BY DEF ScanInv, EditFile
<1>1. /\ T \in ScanRecords
      /\ T.step = scan.step /\ T.config = scan.config /\ T.fps = scan.fps
      /\ T.batches = scan.batches /\ T.unpublished = scan.unpublished
      /\ T.failed = scan.failed /\ T.id = scan.id /\ T.changed = scan.changed
      /\ T.deleted = scan.deleted /\ T.partial = scan.partial
      /\ T.force = scan.force /\ T.scope = scan.scope /\ T.found = scan.found
      /\ T.todo = scan.todo
  BY ZenonT(30), <1>0, ScanFields DEF ScanRecords
<1> HIDE DEF T
<1>2. disk' \in [Artifacts -> Contents]
  <2>1. PICK e \in Edits : disk' = [disk EXCEPT ![a] = e[2]]
    BY DEF EditFile
  <2>2. e[2] \in Contents
    BY <1>0, SettingFacts DEF TypeOK
  <2>. QED  BY <1>0, <2>1, <2>2 DEF TypeOK
<1>3. TypeOK'
  BY ZenonT(30), <1>0, <1>1, <1>2 DEF TypeOK, ScanRecords, Configs
<1>4. HashInv'
  BY SMTT(30), <1>0, <1>1 DEF ScanInv, HashInv, Configs
<1>5. StoreInv'
  BY ZenonT(30), <1>0 DEF ScanInv, StoreInv, IdentityProvesBatches, Focused, Declared
<1>6. PlanInv'
  <2>1. CASE ~Planned
    BY <2>1, <1>0, <1>1 DEF ScanInv, PlanInv, Planned
  <2>2. CASE Planned
    <3>1. Planned' /\ PreviousFingerprints' = PreviousFingerprints
      BY <2>2, <1>0, <1>1 DEF Planned, PreviousFingerprints
    <3>2. /\ Changed(PreviousFingerprints, scan.fps)' = Changed(PreviousFingerprints, scan.fps)
          /\ Deleted(PreviousFingerprints, scan.fps)' = Deleted(PreviousFingerprints, scan.fps)
          /\ SnapshotIdentity(scan.config, scan.fps)' = SnapshotIdentity(scan.config, scan.fps)
      BY <3>1, <1>0, <1>1 DEF Changed, Deleted, SnapshotIdentity
    <3>3. Waiting' = Waiting /\ Focused' = Focused
      BY <1>0, <1>1 DEF Waiting, Focused, Declared
    <3>4. \A b, fp : Matches(b, fp)' = Matches(b, fp)
      BY <1>0, <1>1 DEF Matches
    <3>. QED  BY SMTT(30), <2>2, <3>1, <3>2, <3>3, <3>4, <1>0, <1>1 DEF ScanInv, PlanInv, Matches
  <2>. QED  BY <2>1, <2>2
<1>. QED  BY <1>3, <1>4, <1>5, <1>6 DEF ScanInv

LEMMA EditConfigKeeps ==
  ASSUME ScanInv, EditConfig
  PROVE  ScanInv'
<1>0. /\ UNCHANGED <<setting, disk, store, cache, scan>>
      /\ config' \in Configs /\ settled' = {}
  BY DEF EditConfig
<1>1. TypeOK'
  BY ZenonT(30), <1>0 DEF ScanInv, TypeOK, Configs
<1>2. HashInv' /\ StoreInv'
  BY ZenonT(30), <1>0 DEF ScanInv, HashInv, StoreInv, IdentityProvesBatches, Focused, Declared,
       Configs
<1>3. PlanInv'
  BY ZenonT(30), <1>0 DEF ScanInv, PlanInv, Planned, Waiting, Matches, Focused, Declared,
       Changed, Deleted, PreviousFingerprints, SnapshotIdentity
<1>. QED  BY <1>1, <1>2, <1>3 DEF ScanInv

\* Before the plan a step touches only the locals of discovery.
LEMMA DiscoverKeeps ==
  ASSUME ScanInv, ~Planned, scan' \in ScanRecords,
         scan'.step \in {"stat", "hash"}, scan'.config \in Configs,
         scan'.batches = scan.batches, scan'.unpublished = scan.unpublished,
         scan'.failed = scan.failed, settled' \subseteq Repos,
         UNCHANGED <<setting, disk, config, store, cache>>,
         HashInv'
  PROVE  ScanInv'
<1>1. TypeOK'
  BY BecomeType DEF ScanInv
<1>2. StoreInv'
  BY ZenonT(30) DEF ScanInv, StoreInv, IdentityProvesBatches, Focused, Declared
<1>3. PlanInv'
  BY DEF ScanInv, PlanInv, Planned
<1>. QED  BY <1>1, <1>2, <1>3 DEF ScanInv

LEMMA StartKeeps ==
  ASSUME ScanInv, NEW o \in Options, StartScan(o.scope, o.partial, o.force, o.codegraph)
  PROVE  ScanInv'
<1> DEFINE D == {a \in Artifacts : /\ RepoOf[a] \in o.scope
                                   /\ a \in Declared \/ disk[a] \notin Absent}
<1> DEFINE R == ~o.force /\ ~o.codegraph
<1> DEFINE T == [Idle EXCEPT
       !.step = "stat", !.scope = o.scope, !.partial = o.partial,
       !.force = o.force, !.reuse = R, !.config = config,
       !.todo = D]
<1>0. /\ TypeOK /\ scan' = T /\ settled' = {} /\ scan.step = "idle"
      /\ UNCHANGED <<setting, disk, config, store, cache>>
  BY DEF ScanInv, StartScan
<1>1. o.scope \in SUBSET Repos /\ o.partial \in BOOLEAN /\ o.force \in BOOLEAN
  BY DEF Options
<1>2. config \in Configs /\ D \subseteq Artifacts
  BY <1>0 DEF TypeOK
<1>3. /\ T \in ScanRecords /\ T.step = "stat" /\ T.config = config
      /\ T.batches = Nothing /\ T.unpublished = {} /\ T.failed = FALSE
      /\ T.fps = Nothing
  <2>1. R \in BOOLEAN
    OBVIOUS
  <2> HIDE DEF D, R
  <2>. QED  BY ZenonT(60), <1>1, <1>2, <2>1 DEF Idle, ScanRecords, Nothing, Steps
<1>4. ~Planned /\ scan.batches = Nothing /\ scan.unpublished = {} /\ ~scan.failed
  BY <1>0 DEF ScanInv, PlanInv, Planned
<1> HIDE DEF T
<1>5. HashInv'
  BY <1>0, <1>2, <1>3 DEF HashInv, Nothing, Configs
<1>6. scan.failed = FALSE
  BY <1>4, <1>0, ScanFields
<1>7. scan'.config \in Configs /\ {} \subseteq Repos
  BY <1>0, <1>2, <1>3
<1>. QED  BY <1>0, <1>3, <1>4, <1>5, <1>6, <1>7, DiscoverKeeps

LEMMA StatKeeps ==
  ASSUME ScanInv, NEW a \in Artifacts, StatFile(a)
  PROVE  ScanInv'
<1>0. TypeOK /\ HashInv /\ scan.step = "stat" /\ ~Planned
  BY DEF ScanInv, StatFile, Planned
<1>1. CASE disk[a] \in Absent
  BY <1>1, EndScan DEF StatFile, Fail, Become, ScanInv, TypeOK
<1>2. CASE disk[a] \notin Absent
  <2> DEFINE F == Fingerprint(None, SizeOf[disk[a]])
  <2> DEFINE T == [scan EXCEPT !.step = "hash", !.todo = @ \ {a}, !.fps[a] = F]
  <2>1. scan' = T /\ UNCHANGED <<setting, disk, config, store, cache, settled>>
    BY <1>2 DEF StatFile, Become
  <2>2. F \in Fingerprints /\ F.hash = None
    BY <1>0, SettingFacts DEF TypeOK, Fingerprint, Fingerprints
  <2> HIDE DEF F
  <2>3. /\ T \in ScanRecords /\ T.step = "hash" /\ T.config = scan.config
        /\ T.batches = scan.batches /\ T.unpublished = scan.unpublished
        /\ T.failed = scan.failed /\ T.fps = [scan.fps EXCEPT ![a] = F]
    BY ZenonT(60), <2>2, <1>0, ScanFields DEF ScanRecords, Steps
  <2> HIDE DEF T
  <2>4. HashInv'
    BY SMTT(30), <2>1, <2>3, <1>0, ScanFields DEF HashInv, Configs
  <2>5. settled' \subseteq Repos /\ scan'.config \in Configs
    BY <2>1, <2>3, <1>0 DEF TypeOK, HashInv
  <2>. QED  BY <2>1, <2>3, <2>4, <2>5, <1>0, DiscoverKeeps
<1>. QED  BY <1>1, <1>2

LEMMA HashKeeps ==
  ASSUME ScanInv, NEW a \in Artifacts, HashFile(a)
  PROVE  ScanInv'
<1>0. TypeOK /\ HashInv /\ scan.step = "hash" /\ ~Planned
      /\ scan.fps[a] # None /\ scan.fps[a].hash = None
  BY DEF ScanInv, HashFile, Planned
<1>1. CASE disk[a] \in Absent
  BY ZenonT(30), <1>1, EndScan DEF HashFile, Fail, Become, ScanInv, TypeOK
<1>2. CASE disk[a] \notin Absent
  <2> DEFINE T == [scan EXCEPT !.step = "stat", !.fps[a].hash = disk[a]]
  <2>1. scan' = T /\ UNCHANGED <<setting, disk, config, store, cache, settled>>
    BY <1>2 DEF HashFile, Become
  <2>2. disk[a] \in Contents /\ disk[a] # None /\ scan.fps[a] \in Fingerprints
    BY ZenonT(30), <1>0, ScanAssumption, ScanFields DEF TypeOK
  <2>3. /\ T \in ScanRecords /\ T.step = "stat" /\ T.config = scan.config
        /\ T.batches = scan.batches /\ T.unpublished = scan.unpublished
        /\ T.failed = scan.failed
        /\ T.fps = [scan.fps EXCEPT ![a] = [@ EXCEPT !.hash = disk[a]]]
    BY ZenonT(60), <2>2, <1>0, ScanFields DEF ScanRecords, Steps, Fingerprints
  <2>4. /\ T.fps[a].hash = disk[a]
        /\ \A b \in Artifacts : b # a => T.fps[b] = scan.fps[b]
    BY SMTT(30), <2>2, <2>3, <1>0, ScanFields DEF Fingerprints
  <2> HIDE DEF T
  <2>5. HashInv'
    BY SMTT(30), <2>1, <2>2, <2>3, <2>4, <1>0, ScanFields DEF HashInv, Configs
  <2>6. settled' \subseteq Repos /\ scan'.config \in Configs
    BY <2>1, <2>3, <1>0 DEF TypeOK, HashInv
  <2>. QED  BY <2>1, <2>3, <2>5, <2>6, <1>0, DiscoverKeeps
<1>. QED  BY <1>1, <1>2

\* The merged fingerprints.
LEMMA MergedType ==
  ASSUME ScanInv
  PROVE  /\ MergedFingerprints \in [Artifacts -> Fingerprints \cup {None}]
         /\ \A a \in Artifacts :
              MergedFingerprints[a] = IF scan.partial /\ RepoOf[a] \notin scan.scope
                                      THEN store.fps[a] ELSE scan.fps[a]
BY ScanFields DEF ScanInv, TypeOK, MergedFingerprints

\* The three ways on from PlanScan.
LEMMA PlanCases ==
  ASSUME PlanScan
  PROVE  /\ scan.step = "stat" /\ scan.todo = {}
         /\ \/ /\ ReusesSnapshot(SnapshotIdentity(scan.config, MergedFingerprints))
               /\ scan' = Idle /\ Settle
               /\ UNCHANGED <<setting, disk, config, store, cache>>
            \/ Fail
            \/ /\ ~ (scan.partial /\ BudgetsChanged)
               /\ Become([scan EXCEPT
                  !.step = "extract", !.fps = MergedFingerprints,
                  !.id = SnapshotIdentity(scan.config, MergedFingerprints),
                  !.changed = Changed(PreviousFingerprints, MergedFingerprints),
                  !.deleted = Deleted(PreviousFingerprints, MergedFingerprints),
                  !.found = FromCache(MergedFingerprints),
                  !.todo = {a \in Focused : MergedFingerprints[a] # None}])
<1> DEFINE A == ReusesSnapshot(SnapshotIdentity(scan.config, MergedFingerprints))
<1> DEFINE B == scan.partial /\ BudgetsChanged
<1>1. CASE A
  BY <1>1 DEF PlanScan
<1>2. CASE ~A /\ B
  BY <1>2 DEF PlanScan
<1>3. CASE ~A /\ ~B
  BY <1>3 DEF PlanScan
<1>. QED  BY <1>1, <1>2, <1>3

LEMMA PlanKeeps ==
  ASSUME ScanInv, PlanScan
  PROVE  ScanInv'
<1> DEFINE M == MergedFingerprints
           I == SnapshotIdentity(scan.config, M)
           C == Changed(PreviousFingerprints, M)
           D == Deleted(PreviousFingerprints, M)
           F == FromCache(M)
           W == {a \in Focused : M[a] # None}
           T == [scan EXCEPT !.step = "extract", !.fps = M, !.id = I, !.changed = C,
                             !.deleted = D, !.found = F, !.todo = W]
<1>0. /\ TypeOK /\ HashInv /\ StoreInv /\ scan.step = "stat" /\ ~Planned
      /\ scan.batches = Nothing /\ scan.unpublished = {} /\ scan.failed = FALSE
  BY PlanCases, ScanFields DEF ScanInv, PlanInv, Planned
<1>1. CASE scan' = Idle /\ Settle /\ UNCHANGED <<setting, disk, config, store, cache>>
  <2>1. settled' \subseteq Repos /\ cache' \subseteq [artifact : Artifacts, batch : Batches]
    BY <1>0, <1>1, ScanFields DEF Settle, TypeOK
  <2>. QED  BY <1>1, <2>1, EndScan
<1>2. CASE Fail
  BY <1>2, <1>0, EndScan DEF Fail, Become, TypeOK
<1>3. CASE Become(T)
  <2>1. scan.config \in Configs /\ setting \in Settings /\ Focused \subseteq Artifacts
    BY <1>0, SettingFacts DEF HashInv, TypeOK
  <2>2. M \in [Artifacts -> Fingerprints \cup {None}]
    BY MergedType
  <2>3. I \in Identities
    BY <2>1, <2>2, IdentityType
  <2>4. C \subseteq Artifacts /\ D \subseteq Artifacts /\ W \subseteq Artifacts
    BY <2>1 DEF Changed, Deleted
  <2>5. F \in [Artifacts -> Batches \cup {None}]
    BY <1>0, FromCacheType
  <2>6. /\ scan' = T /\ UNCHANGED <<setting, disk, config, store, cache, settled>>
    BY <1>3 DEF Become
  <2>7. \A a \in Artifacts : F[a] # None =>
          a \in Focused /\ M[a] # None /\ Matches(F[a], M[a])
    <3>1. \A a \in Artifacts : F[a] # None =>
            /\ a \in Focused /\ M[a] # None /\ F[a].source = M[a]
            /\ F[a].budget = scan.config.budget
      BY SMTT(30), <1>0, FromCacheType
    <3>. QED  BY <3>1 DEF Matches
  <2>8. \A a \in Artifacts : M[a] # None => M[a].hash # None
    <3> SUFFICES ASSUME NEW a \in Artifacts, M[a] # None PROVE M[a].hash # None
        OBVIOUS
    <3>1. CASE scan.partial /\ RepoOf[a] \notin scan.scope
      <4>1. M[a] = store.fps[a]
        BY <3>1, MergedType
      <4>2. store.id # None
        BY ZenonT(30), <4>1, <1>0 DEF StoreInv, Nothing
      <4>. QED  BY SMTT(30), <4>1, <4>2, <1>0, ScanAssumption DEF StoreInv
    <3>2. CASE ~(scan.partial /\ RepoOf[a] \notin scan.scope)
      BY <3>2, MergedType, <1>0 DEF HashInv
    <3>. QED  BY <3>1, <3>2
  <2>9. \A a \in Artifacts : scan.partial /\ RepoOf[a] \notin scan.scope => M[a] = store.fps[a]
    BY MergedType
  <2>10. \A a \in Artifacts : a \in W <=> a \in Focused /\ M[a] # None
    OBVIOUS
  <2>11. /\ C = Changed(PreviousFingerprints, M) /\ D = Deleted(PreviousFingerprints, M)
         /\ I = SnapshotIdentity(scan.config, M)
    OBVIOUS
  <2> HIDE DEF M, I, C, D, F, W
  <2>12. /\ T \in ScanRecords /\ T.step = "extract" /\ T.fps = M /\ T.id = I
         /\ T.changed = C /\ T.deleted = D /\ T.found = F /\ T.todo = W
         /\ T.config = scan.config /\ T.batches = scan.batches
         /\ T.unpublished = scan.unpublished /\ T.failed = scan.failed
         /\ T.partial = scan.partial /\ T.force = scan.force /\ T.scope = scan.scope
    BY <1>0, <2>2, <2>3, <2>4, <2>5, ScanFields DEF ScanRecords, Steps
  <2> HIDE DEF T
  <2>13. TypeOK'
    BY <2>6, <2>12, <1>0, BecomeType DEF TypeOK
  <2>14. HashInv'
    BY <2>1, <2>6, <2>8, <2>12 DEF HashInv, Configs
  <2>15. StoreInv'
    BY ZenonT(30), <1>0, <2>6 DEF StoreInv, IdentityProvesBatches, Focused, Declared
  <2>16. PlanInv'
    <3>1. Planned' /\ Waiting' = W /\ Focused' = Focused
          /\ PreviousFingerprints' = PreviousFingerprints
      BY <2>6, <2>12 DEF Planned, Waiting, Focused, Declared, PreviousFingerprints
    <3>2. /\ scan'.id = SnapshotIdentity(scan.config, scan.fps)'
          /\ scan'.changed = Changed(PreviousFingerprints, scan.fps)'
          /\ scan'.deleted = Deleted(PreviousFingerprints, scan.fps)'
      BY <3>1, <2>6, <2>11, <2>12 DEF SnapshotIdentity, Changed, Deleted
    <3>3. \A a \in Artifacts : scan'.batches[a] = None
      BY ZenonT(30), <2>6, <2>12, <1>0 DEF Nothing
    <3>4. \A a \in Artifacts :
            scan'.found[a] # None => a \in Focused' /\ Matches(scan.found[a], scan.fps[a])'
      BY ZenonT(30), <3>1, <2>6, <2>7, <2>12 DEF Matches
    <3>5. scan'.failed = (scan'.step = "checkpoint")
      BY <2>6, <2>12, <1>0
    <3>6. \A a \in Artifacts :
            scan'.partial /\ RepoOf[a] \notin scan'.scope => scan'.fps[a] = store'.fps[a]
      BY <2>6, <2>9, <2>12
    <3>7. \A a \in Artifacts : /\ a \notin scan'.unpublished
                               /\ ~ (a \in Focused' /\ scan'.fps[a] # None /\ a \notin Waiting')
      BY <3>1, <2>6, <2>10, <2>12, <1>0
    <3>8. \A a \in Waiting' : a \in Focused' /\ scan'.fps[a] # None
      BY <3>1, <2>4, <2>6, <2>10, <2>12
    <3>. QED  BY <3>1, <3>2, <3>3, <3>4, <3>5, <3>6, <3>7, <3>8 DEF PlanInv
  <2>. QED  BY <2>13, <2>14, <2>15, <2>16 DEF ScanInv
<1>. QED  BY <1>1, <1>2, <1>3, PlanCases

\* After the plan a step keeps the plan; it has to account for its batches.
LEMMA WorkKeeps ==
  ASSUME ScanInv, Planned, scan' \in ScanRecords,
         scan'.step \in {"extract", "checkpoint", "assemble"},
         scan'.failed = (scan'.step = "checkpoint"),
         scan'.config = scan.config, scan'.id = scan.id, scan'.fps = scan.fps,
         scan'.changed = scan.changed, scan'.deleted = scan.deleted,
         scan'.found = scan.found, scan'.partial = scan.partial,
         scan'.force = scan.force, scan'.scope = scan.scope,
         cache' \subseteq [artifact : Artifacts, batch : Batches],
         UNCHANGED <<setting, disk, config, store, settled>>,
         Waiting' \subseteq Waiting,
         \A a \in Artifacts :
           IF a \in Focused /\ scan.fps[a] # None /\ a \notin Waiting'
           THEN /\ Matches(scan'.batches[a], scan.fps[a])
                /\ a \notin scan'.unpublished => scan'.batches[a] = store.batches[a]
           ELSE scan'.batches[a] = None /\ a \notin scan'.unpublished
  PROVE  ScanInv'
<1>1. TypeOK'
  BY DEF ScanInv, TypeOK, ScanRecords, Configs
<1>2. HashInv'
  <2>1. \A a \in Artifacts : scan.fps[a] # None => scan.fps[a].hash # None
    BY DEF ScanInv, HashInv, Planned
  <2>2. scan.config \in Configs
    BY DEF ScanInv, HashInv, Planned
  <2>. QED  BY <2>1, <2>2 DEF HashInv, Configs
<1>3. StoreInv'
  BY ZenonT(30) DEF ScanInv, StoreInv, IdentityProvesBatches, Focused, Declared
<1>4. PlanInv'
  <2>1. Planned' /\ PreviousFingerprints' = PreviousFingerprints /\ Focused' = Focused
    BY DEF Planned, PreviousFingerprints, Focused, Declared
  <2>2. /\ scan'.id = SnapshotIdentity(scan.config, scan.fps)'
        /\ scan'.changed = Changed(PreviousFingerprints, scan.fps)'
        /\ scan'.deleted = Deleted(PreviousFingerprints, scan.fps)'
    BY SMTT(30), <2>1 DEF ScanInv, PlanInv, SnapshotIdentity, Changed, Deleted
  <2>3. \A a \in Artifacts :
          /\ Matches(scan.found[a], scan.fps[a])' = Matches(scan.found[a], scan.fps[a])
          /\ Matches(scan.batches[a], scan.fps[a])' = Matches(scan'.batches[a], scan.fps[a])
    BY DEF Matches
  <2>4. \A a \in Artifacts :
          /\ scan.partial /\ RepoOf[a] \notin scan.scope => scan.fps[a] = store.fps[a]
          /\ scan.found[a] # None => a \in Focused /\ Matches(scan.found[a], scan.fps[a])
    BY DEF ScanInv, PlanInv
  <2>5. \A a \in Waiting' : a \in Focused /\ scan.fps[a] # None
    BY DEF ScanInv, PlanInv
  <2>. QED  BY SMTT(30), <2>1, <2>2, <2>3, <2>4, <2>5 DEF PlanInv
<1>. QED  BY <1>1, <1>2, <1>3, <1>4 DEF ScanInv

\* What a planned scan reuses fits; a batch that no checkpoint provides is the
\* published one.
LEMMA ReusableFits ==
  ASSUME ScanInv, Planned, NEW a \in Artifacts, Reusable(a) # None
  PROVE  /\ Reusable(a) \in Batches
         /\ Matches(Reusable(a), scan.fps[a])
         /\ IF Published(a) THEN Reusable(a) = store.batches[a]
            ELSE Reusable(a) = scan.found[a]
         /\ Published(a) => a \notin scan.changed
<1>1. scan.found[a] # None => Matches(scan.found[a], scan.fps[a])
  BY DEF ScanInv, PlanInv
<1>2. CASE Matches(scan.found[a], scan.fps[a])
  BY <1>2, ScanFields DEF Reusable, Published, Matches, ScanInv
<1>3. CASE ~Matches(scan.found[a], scan.fps[a])
  <2>1. /\ Reusable(a) = store.batches[a] /\ Matches(store.batches[a], scan.fps[a])
        /\ a \notin scan.changed
    BY <1>3 DEF Reusable
  <2>. QED  BY <1>1, <1>3, <2>1 DEF Published, ScanInv, TypeOK
<1>. QED  BY <1>2, <1>3

LEMMA ReuseKeeps ==
  ASSUME ScanInv, NEW a \in Artifacts, ReuseBatch(a)
  PROVE  ScanInv'
<1> DEFINE U == IF Published(a) THEN scan.unpublished ELSE scan.unpublished \cup {a}
           B == Reusable(a)
           T == [scan EXCEPT !.todo = @ \ {a}, !.batches[a] = B, !.unpublished = U]
<1>0. /\ TypeOK /\ PlanInv /\ Planned /\ scan.step = "extract" /\ a \in scan.todo
      /\ scan' = T /\ UNCHANGED <<setting, disk, config, store, cache, settled>>
      /\ B # None
  BY DEF ScanInv, ReuseBatch, Become, Planned
<1>1. /\ B \in Batches /\ Matches(B, scan.fps[a])
      /\ Published(a) => B = store.batches[a]
  BY <1>0, ReusableFits
<1>2. /\ U \subseteq Artifacts /\ scan.unpublished \subseteq U
      /\ U \subseteq scan.unpublished \cup {a} /\ (a \notin U => Published(a))
  BY <1>0, ScanFields
<1> HIDE DEF U, B
<1>3. /\ T \in ScanRecords /\ T.step = "extract" /\ T.todo = scan.todo \ {a}
      /\ T.batches = [scan.batches EXCEPT ![a] = B] /\ T.unpublished = U
      /\ T.failed = scan.failed /\ T.config = scan.config /\ T.id = scan.id
      /\ T.fps = scan.fps /\ T.changed = scan.changed /\ T.deleted = scan.deleted
      /\ T.found = scan.found /\ T.partial = scan.partial /\ T.force = scan.force
      /\ T.scope = scan.scope
  BY <1>0, <1>1, <1>2, ScanFields DEF ScanRecords, Steps
<1> HIDE DEF T
<1>4. Waiting = scan.todo /\ Waiting' = scan.todo \ {a}
  BY <1>0, <1>3 DEF Waiting
<1>5. \A x \in Artifacts :
        IF x \in Focused /\ scan.fps[x] # None /\ x \notin Waiting'
        THEN /\ Matches(scan'.batches[x], scan.fps[x])
             /\ x \notin scan'.unpublished => scan'.batches[x] = store.batches[x]
        ELSE scan'.batches[x] = None /\ x \notin scan'.unpublished
  <2>1. a \in Focused /\ scan.fps[a] # None
    BY <1>0, <1>4 DEF PlanInv
  <2>2. ASSUME NEW x \in Artifacts, x # a
        PROVE  scan'.batches[x] = scan.batches[x]
               /\ (x \in scan'.unpublished <=> x \in scan.unpublished)
               /\ (x \in Waiting' <=> x \in Waiting)
    BY <2>2, <1>0, <1>2, <1>3, <1>4, ScanFields
  <2>3. /\ scan'.batches[a] = B /\ a \notin Waiting'
        /\ a \notin scan'.unpublished => Published(a)
    BY <1>0, <1>2, <1>3, <1>4, ScanFields
  <2>. QED  BY ZenonT(30), <2>1, <2>2, <2>3, <1>0, <1>1 DEF PlanInv
<1>6. scan'.failed = (scan'.step = "checkpoint")
  BY <1>0, <1>3 DEF PlanInv
<1>7. cache' \subseteq [artifact : Artifacts, batch : Batches]
  BY <1>0 DEF TypeOK
<1>. QED  BY <1>0, <1>3, <1>4, <1>5, <1>6, <1>7, WorkKeeps

LEMMA ExtractKeeps ==
  ASSUME ScanInv, NEW a \in Artifacts, ExtractFile(a)
  PROVE  ScanInv'
<1>0. /\ TypeOK /\ PlanInv /\ Planned /\ scan.step = "extract" /\ a \in scan.todo
      /\ UNCHANGED <<setting, disk, config, store, cache, settled>>
      /\ Waiting = scan.todo
      /\ cache' \subseteq [artifact : Artifacts, batch : Batches]
  BY DEF ScanInv, ExtractFile, Become, Planned, Waiting, TypeOK
<1>1. CASE disk[a] \in Absent
  <2> DEFINE T == [scan EXCEPT !.step = "checkpoint", !.failed = TRUE]
  <2>1. scan' = T
    BY <1>1 DEF ExtractFile, Become
  <2>2. /\ T \in ScanRecords /\ T.step = "checkpoint" /\ T.todo = scan.todo
        /\ T.batches = scan.batches /\ T.unpublished = scan.unpublished
        /\ T.failed = TRUE /\ T.config = scan.config /\ T.id = scan.id
        /\ T.fps = scan.fps /\ T.changed = scan.changed /\ T.deleted = scan.deleted
        /\ T.found = scan.found /\ T.partial = scan.partial /\ T.force = scan.force
        /\ T.scope = scan.scope
    BY <1>0, ScanFields DEF ScanRecords, Steps
  <2> HIDE DEF T
  <2>3. Waiting' = Waiting
    BY <1>0, <2>1, <2>2 DEF Waiting
  <2>4. \A x \in Artifacts :
          IF x \in Focused /\ scan.fps[x] # None /\ x \notin Waiting'
          THEN /\ Matches(scan'.batches[x], scan.fps[x])
               /\ x \notin scan'.unpublished => scan'.batches[x] = store.batches[x]
          ELSE scan'.batches[x] = None /\ x \notin scan'.unpublished
    BY SMTT(30), <1>0, <2>1, <2>2, <2>3 DEF PlanInv
  <2>. QED  BY <1>0, <2>1, <2>2, <2>3, <2>4, WorkKeeps
<1>2. CASE disk[a] \notin Absent
  <2> DEFINE B == Batch(scan.fps[a], scan.config.budget, disk[a])
             T == [scan EXCEPT !.todo = @ \ {a}, !.batches[a] = B,
                               !.unpublished = @ \cup {a}]
  <2>1. scan' = T
    BY <1>2 DEF ExtractFile, Become
  <2>2. a \in Focused /\ scan.fps[a] \in Fingerprints /\ scan.config \in Configs
    BY <1>0, ScanFields DEF PlanInv, ScanInv, HashInv
  <2>3. B \in Batches /\ B # None
    BY SMTT(30), <1>0, <2>2, SettingFacts, NoneAssumption DEF TypeOK, Batch, Batches
  <2>4. Matches(B, scan.fps[a])
    BY <2>3 DEF Matches, Batch
  <2> HIDE DEF B
  <2>5. /\ T \in ScanRecords /\ T.step = "extract" /\ T.todo = scan.todo \ {a}
        /\ T.batches = [scan.batches EXCEPT ![a] = B]
        /\ T.unpublished = scan.unpublished \cup {a}
        /\ T.failed = scan.failed /\ T.config = scan.config /\ T.id = scan.id
        /\ T.fps = scan.fps /\ T.changed = scan.changed /\ T.deleted = scan.deleted
        /\ T.found = scan.found /\ T.partial = scan.partial /\ T.force = scan.force
        /\ T.scope = scan.scope
    BY ZenonT(30), <1>0, <2>3, ScanFields DEF ScanRecords, Steps
  <2> HIDE DEF T
  <2>6. Waiting' = scan.todo \ {a}
    BY <1>0, <2>1, <2>5 DEF Waiting
  <2>7. \A x \in Artifacts :
          IF x \in Focused /\ scan.fps[x] # None /\ x \notin Waiting'
          THEN /\ Matches(scan'.batches[x], scan.fps[x])
               /\ x \notin scan'.unpublished => scan'.batches[x] = store.batches[x]
          ELSE scan'.batches[x] = None /\ x \notin scan'.unpublished
    <3>1. ASSUME NEW x \in Artifacts, x # a
          PROVE  scan'.batches[x] = scan.batches[x]
                 /\ (x \in scan'.unpublished <=> x \in scan.unpublished)
                 /\ (x \in Waiting' <=> x \in Waiting)
      BY <3>1, <1>0, <2>1, <2>5, <2>6, ScanFields
    <3>2. scan'.batches[a] = B /\ a \notin Waiting' /\ a \in scan'.unpublished
      BY <1>0, <2>1, <2>5, <2>6, ScanFields
    <3>3. scan.fps[a] # None
      BY <1>0 DEF PlanInv
    <3>. QED  BY ZenonT(30), <1>0, <2>2, <2>4, <3>1, <3>2, <3>3 DEF PlanInv
  <2>8. scan'.failed = (scan'.step = "checkpoint")
    BY <1>0, <2>1, <2>5 DEF PlanInv
  <2>9. Waiting' \subseteq Waiting
    BY <2>6, <1>0
  <2>. QED  BY <1>0, <2>1, <2>5, <2>7, <2>8, <2>9, WorkKeeps
<1>. QED  BY <1>1, <1>2

\* What put_batches adds is a batch of an artifact.
LEMMA FreshType ==
  ASSUME ScanInv, Planned
  PROVE  /\ FreshBatches \subseteq [artifact : Artifacts, batch : Batches]
         /\ \A x \in FreshBatches : x.batch = scan.batches[x.artifact]
<1> SUFFICES ASSUME NEW a \in scan.unpublished
             PROVE  a \in Artifacts /\ scan.batches[a] \in Batches
    BY SMTT(30) DEF FreshBatches
<1>1. a \in Artifacts /\ scan.batches[a] \in Batches \cup {None}
  BY ScanFields DEF ScanInv
<1>2. scan.batches[a] # None
  BY <1>1 DEF ScanInv, PlanInv, Matches
<1>. QED  BY <1>1, <1>2

LEMMA CheckpointKeeps ==
  ASSUME ScanInv, WriteCheckpoints
  PROVE  ScanInv'
<1>0. /\ TypeOK /\ PlanInv /\ Planned
      /\ UNCHANGED <<setting, disk, config, store, settled>>
      /\ (scan.step = "extract" /\ scan.todo = {}) \/ scan.step = "checkpoint"
  BY DEF ScanInv, WriteCheckpoints, Planned
<1>1. cache' \subseteq [artifact : Artifacts, batch : Batches]
  BY <1>0, FreshType DEF WriteCheckpoints, TypeOK
<1>2. CASE scan.failed
  <2>1. scan' = Idle
    BY <1>2 DEF WriteCheckpoints
  <2>2. settled' \subseteq Repos
    BY <1>0 DEF TypeOK
  <2>. QED  BY <1>0, <1>1, <2>1, <2>2, EndScan
<1>3. CASE ~scan.failed
  <2> DEFINE T == [scan EXCEPT !.step = "assemble", !.todo = Declared]
  <2>1. scan' = T
    BY <1>3 DEF WriteCheckpoints
  <2>2. Declared \subseteq Artifacts
    BY <1>0, SettingFacts DEF TypeOK
  <2>3. scan.step = "extract" /\ scan.todo = {}
    BY <1>0, <1>3 DEF PlanInv
  <2>4. /\ T \in ScanRecords /\ T.step = "assemble"
        /\ T.batches = scan.batches /\ T.unpublished = scan.unpublished
        /\ T.failed = scan.failed /\ T.config = scan.config /\ T.id = scan.id
        /\ T.fps = scan.fps /\ T.changed = scan.changed /\ T.deleted = scan.deleted
        /\ T.found = scan.found /\ T.partial = scan.partial /\ T.force = scan.force
        /\ T.scope = scan.scope
    BY <1>0, <2>2, ScanFields DEF ScanRecords, Steps
  <2> HIDE DEF T
  <2>5. Waiting = {} /\ Waiting' = {}
    BY <2>1, <2>3, <2>4 DEF Waiting
  <2>6. \A x \in Artifacts :
          IF x \in Focused /\ scan.fps[x] # None /\ x \notin Waiting'
          THEN /\ Matches(scan'.batches[x], scan.fps[x])
               /\ x \notin scan'.unpublished => scan'.batches[x] = store.batches[x]
          ELSE scan'.batches[x] = None /\ x \notin scan'.unpublished
    BY SMTT(30), <1>0, <2>1, <2>4, <2>5 DEF PlanInv
  <2>7. scan'.failed = (scan'.step = "checkpoint")
    BY <1>3, <2>1, <2>4, <1>0, ScanFields
  <2>. QED  BY <1>0, <1>1, <2>1, <2>4, <2>5, <2>6, <2>7, WorkKeeps
<1>. QED  BY <1>2, <1>3

LEMMA DeclaredKeeps ==
  ASSUME ScanInv, NEW a \in Artifacts, ReadDeclared(a)
  PROVE  ScanInv'
<1>0. /\ TypeOK /\ PlanInv /\ Planned /\ scan.step = "assemble"
      /\ UNCHANGED <<setting, disk, config, store, cache, settled>>
      /\ cache' \subseteq [artifact : Artifacts, batch : Batches]
      /\ settled' \subseteq Repos
  BY DEF ScanInv, ReadDeclared, Fail, Become, Planned, TypeOK
<1>1. CASE disk[a] \in Absent
  <2>1. scan' = Idle
    BY <1>1 DEF ReadDeclared, Fail, Become
  <2>. QED  BY <1>0, <2>1, EndScan
<1>2. CASE disk[a] \notin Absent
  <2> DEFINE T == [scan EXCEPT !.todo = @ \ {a}, !.facts[a] = disk[a]]
  <2>1. scan' = T /\ disk[a] \in Contents
    BY <1>0, <1>2 DEF ReadDeclared, Become, TypeOK
  <2>2. /\ T \in ScanRecords /\ T.step = "assemble"
        /\ T.batches = scan.batches /\ T.unpublished = scan.unpublished
        /\ T.failed = scan.failed /\ T.config = scan.config /\ T.id = scan.id
        /\ T.fps = scan.fps /\ T.changed = scan.changed /\ T.deleted = scan.deleted
        /\ T.found = scan.found /\ T.partial = scan.partial /\ T.force = scan.force
        /\ T.scope = scan.scope
    BY ZenonT(30), <1>0, <2>1, ScanFields DEF ScanRecords, Steps
  <2> HIDE DEF T
  <2>3. Waiting = {} /\ Waiting' = {}
    BY <1>0, <2>1, <2>2 DEF Waiting
  <2>4. \A x \in Artifacts :
          IF x \in Focused /\ scan.fps[x] # None /\ x \notin Waiting'
          THEN /\ Matches(scan'.batches[x], scan.fps[x])
               /\ x \notin scan'.unpublished => scan'.batches[x] = store.batches[x]
          ELSE scan'.batches[x] = None /\ x \notin scan'.unpublished
    BY ZenonT(30), <1>0, <2>1, <2>2, <2>3 DEF PlanInv
  <2>5. scan'.failed = (scan'.step = "checkpoint")
    BY <1>0, <2>1, <2>2 DEF PlanInv
  <2>. QED  BY <1>0, <2>1, <2>2, <2>3, <2>4, <2>5, WorkKeeps
<1>. QED  BY <1>1, <1>2

\* "incremental and full scans publish identical graphs", for the batches: the
\* delta that publish_current_graph applies to the stored rows leaves exactly the
\* batches the scan holds, and fingerprints with the hashes it computed.
LEMMA DeltaLeavesCandidate ==
  ASSUME ScanInv, scan.step = "assemble"
  PROVE  /\ PublishedRows(store.batches, scan.batches, scan.unpublished) = scan.batches
         /\ \A a \in Artifacts :
              LET fp == PublishedRows(store.fps, scan.fps, scan.changed)[a]
              IN  /\ (fp = None) = (scan.fps[a] = None)
                  /\ fp # None => fp.hash = scan.fps[a].hash
                  /\ fp = scan.fps[a] \/ fp = store.fps[a]
<1>0. /\ TypeOK /\ StoreInv /\ PlanInv /\ Planned /\ Waiting = {}
  BY DEF ScanInv, Planned, Waiting
<1>1. \A a \in Artifacts :
        /\ a \in scan.changed <=> /\ scan.fps[a] # None
                                  /\ \/ PreviousFingerprints[a] = None
                                     \/ PreviousFingerprints[a].hash # scan.fps[a].hash
        /\ a \in scan.deleted <=> PreviousFingerprints[a] # None /\ scan.fps[a] = None
  BY <1>0 DEF PlanInv, Changed, Deleted
<1>2. ~scan.force => \A a \in Artifacts : PreviousFingerprints[a] = store.fps[a]
  BY DEF PreviousFingerprints
<1>3. ASSUME NEW a \in Artifacts
      PROVE  /\ PublishedRows(store.fps, scan.fps, scan.changed)[a] =
                  IF scan.force \/ a \in scan.changed THEN scan.fps[a]
                  ELSE IF a \in scan.deleted THEN None ELSE store.fps[a]
             /\ PublishedRows(store.batches, scan.batches, scan.unpublished)[a] =
                  IF scan.force \/ a \in scan.unpublished THEN scan.batches[a]
                  ELSE IF a \in scan.deleted THEN None ELSE store.batches[a]
  BY <1>0, ScanFields DEF PublishedRows
<1>4. ASSUME NEW a \in Artifacts
      PROVE  PublishedRows(store.batches, scan.batches, scan.unpublished)[a] = scan.batches[a]
  <2>1. CASE scan.force \/ a \in scan.unpublished
    BY <2>1, <1>3
  <2>2. CASE ~scan.force /\ a \notin scan.unpublished /\ a \in scan.deleted
    BY <2>2, <1>0, <1>1, <1>3 DEF PlanInv
  <2>3. CASE ~scan.force /\ a \notin scan.unpublished /\ a \notin scan.deleted
    <3>1. CASE a \in Focused /\ scan.fps[a] # None
      BY <2>3, <3>1, <1>0, <1>3 DEF PlanInv
    <3>2. CASE a \notin Focused
      BY <2>3, <3>2, <1>0, <1>3 DEF PlanInv, StoreInv
    <3>3. CASE a \in Focused /\ scan.fps[a] = None
      <4>1. store.fps[a] = None /\ scan.batches[a] = None
        BY <2>3, <3>3, <1>0, <1>1, <1>2 DEF PlanInv
      <4>2. store.batches[a] = None
        BY <3>3, <4>1, <1>0 DEF StoreInv, IdentityProvesBatches, Nothing
      <4>. QED  BY <2>3, <4>1, <4>2, <1>3
    <3>. QED  BY <3>1, <3>2, <3>3
  <2>. QED  BY <2>1, <2>2, <2>3
<1>5. PublishedRows(store.batches, scan.batches, scan.unpublished) = scan.batches
  <2>1. scan.batches = [a \in Artifacts |-> scan.batches[a]]
    BY <1>0, ScanFields
  <2>. QED  BY <1>4, <2>1 DEF PublishedRows
<1>6. ASSUME NEW a \in Artifacts
      PROVE  LET fp == PublishedRows(store.fps, scan.fps, scan.changed)[a]
             IN  /\ (fp = None) = (scan.fps[a] = None)
                 /\ fp # None => fp.hash = scan.fps[a].hash
                 /\ fp = scan.fps[a] \/ fp = store.fps[a]
  BY SMTT(30), <1>1, <1>2, <1>3
<1>. QED  BY <1>5, <1>6

LEMMA PublishKeeps ==
  ASSUME ScanInv, PublishScan
  PROVE  ScanInv'
<1> DEFINE P == PublishedRows(store.fps, scan.fps, scan.changed)
           S == [id |-> scan.id, fps |-> P, batches |-> scan.batches, facts |-> Facts]
<1>0. /\ TypeOK /\ HashInv /\ StoreInv /\ PlanInv /\ Planned /\ Waiting = {}
      /\ scan.step = "assemble"
      /\ scan' = Idle /\ Settle /\ UNCHANGED <<setting, disk, config, cache>>
  BY DEF ScanInv, Planned, Waiting, PublishScan
<1>1. store' = S
  BY <1>0, DeltaLeavesCandidate DEF PublishScan
<1>2. P \in [Artifacts -> Fingerprints \cup {None}]
  <2>1. \A a \in Artifacts : P[a] = scan.fps[a] \/ P[a] = store.fps[a]
    BY <1>0, DeltaLeavesCandidate
  <2>2. P = [a \in Artifacts |-> P[a]]
    BY DEF PublishedRows
  <2> HIDE DEF P
  <2>. QED  BY <2>1, <2>2, <1>0, ScanFields DEF TypeOK
<1>3. \A a \in Artifacts : /\ (P[a] = None) = (scan.fps[a] = None)
                           /\ P[a] # None => P[a].hash = scan.fps[a].hash
  BY <1>0, DeltaLeavesCandidate
<1> HIDE DEF P
<1>4. /\ Facts \in [Artifacts -> Contents \cup {None}]
      /\ \A a \in Focused : Facts[a] = IF scan.batches[a] = None THEN None
                                       ELSE scan.batches[a].payload
  BY <1>0, ScanFields DEF Facts, Focused, Batches
<1>5. /\ scan.config \in Configs /\ scan.id \in Identities /\ scan.id # None
      /\ scan.id.fps = scan.fps /\ scan.id.budget = scan.config.budget
  <2>1. scan.config \in Configs /\ scan.id = SnapshotIdentity(scan.config, scan.fps)
    BY <1>0 DEF HashInv, PlanInv
  <2>2. scan.id \in Identities
    BY SMTT(30), <2>1, <1>0, IdentityType, ScanFields DEF TypeOK
  <2>. QED  BY SMTT(30), <2>1, <2>2, NoneAssumption DEF SnapshotIdentity
<1>6. settled' \subseteq Repos
  BY <1>0, ScanFields DEF Settle
<1>7. TypeOK'
  <2>1. S \in [id : Identities \cup {None},
               fps : [Artifacts -> Fingerprints \cup {None}],
               batches : [Artifacts -> Batches \cup {None}],
               facts : [Artifacts -> Contents \cup {None}]]
    BY <1>0, <1>2, <1>4, <1>5, ScanFields
  <2> HIDE DEF S
  <2>. QED  BY ZenonT(30), <1>0, <1>1, <1>6, <2>1, IdleType DEF TypeOK, ScanRecords, Configs
<1>8. HashInv' /\ PlanInv'
  BY <1>0 DEF HashInv, PlanInv, Planned, Idle, Nothing
<1>9. StoreInv'
  <2>1. /\ store'.id = scan.id /\ store'.fps = P /\ store'.batches = scan.batches
        /\ store'.facts = Facts /\ Focused' = Focused
    BY <1>0, <1>1 DEF Focused, Declared
  <2>2. \A a \in Artifacts : P[a] # None => P[a].hash \in Contents
    <3>1. \A a \in Artifacts : P[a] # None => P[a].hash # None
      BY <1>0, <1>3 DEF HashInv
    <3>. QED  BY <3>1, <1>2 DEF Fingerprints
  <2>3. IdentityProvesBatches'
    <3> SUFFICES ASSUME NEW a \in Focused
                 PROVE  IF scan.fps[a] = None THEN scan.batches[a] = None
                        ELSE /\ scan.batches[a] # None
                             /\ scan.batches[a].source.hash = scan.fps[a].hash
                             /\ scan.batches[a].budget = scan.config.budget
      BY ZenonT(30), <2>1, <1>5 DEF IdentityProvesBatches
    <3>1. a \in Artifacts
      BY <1>0, SettingFacts DEF TypeOK
    <3>. QED  BY <3>1, <1>0 DEF PlanInv, Matches
  <2>4. \A a \in Artifacts : a \notin Focused => scan.batches[a] = None
    BY <1>0 DEF PlanInv
  <2>. QED  BY SMTT(30), <2>1, <2>2, <2>3, <2>4, <1>3, <1>4, <1>5 DEF StoreInv
<1>. QED  BY <1>7, <1>8, <1>9 DEF ScanInv

\* Every step of a scan, and every edit and crash, keeps ScanInv.
LEMMA NextScanInv ==
  ASSUME ScanInv, [Next]_vars
  PROVE  ScanInv'
<1>1. CASE UNCHANGED vars
  <2> USE <1>1 DEF vars
  <2>1. TypeOK'
    BY ZenonT(30) DEF ScanInv, TypeOK, Configs
  <2>2. HashInv' /\ StoreInv'
    BY ZenonT(30) DEF ScanInv, HashInv, StoreInv, IdentityProvesBatches, Focused, Declared,
         Configs
  <2>3. PlanInv'
    BY ZenonT(30) DEF ScanInv, PlanInv, Planned, Waiting, Matches, Focused, Declared,
         Changed, Deleted, PreviousFingerprints, SnapshotIdentity
  <2>. QED  BY <2>1, <2>2, <2>3 DEF ScanInv
<1>2. CASE AbandonScan
  BY <1>2, EndScan DEF AbandonScan, Fail, Become, ScanInv, TypeOK
<1>. QED  BY <1>1, <1>2, EditKeeps, EditConfigKeeps, StartKeeps, StatKeeps, HashKeeps,
          PlanKeeps, ReuseKeeps, ExtractKeeps, CheckpointKeeps, DeclaredKeeps,
          PublishKeeps DEF Next

(* For every workspace, every editing and every sequence of scans, options and crashes:
   ScanInv holds, with it "an equal identity also proves that the published
   batches are reusable under the active contract and budgets". *)
THEOREM IdentityProves == Spec => [](ScanInv /\ IdentityProvesBatches)
<1>1. ScanInv => IdentityProvesBatches
  BY DEF ScanInv, StoreInv
<1>. QED  BY <1>1, InitScanInv, NextScanInv, PTL DEF Spec

-----------------------------------------------------------------------------
(***************************************************************************)
(* Fingerprints compare by hash alone but are stored with their size.      *)
(***************************************************************************)
LEMMA HonestKept ==
  ASSUME UNCHANGED setting
  PROVE  SizeOf' = SizeOf /\ Focused' = Focused /\ \A fp : Honest(fp)' = Honest(fp)
BY DEF Honest, SizeOf, Focused, Declared

\* Honest fingerprints with equal hashes are equal.
LEMMA HonestEqual ==
  ASSUME NEW f \in Fingerprints, NEW g \in Fingerprints,
         Honest(f), Honest(g), f.hash = g.hash
  PROVE  f = g
BY SMTT(30) DEF Honest, Fingerprints

LEMMA InitSizeInv == Init => SizeInv
BY SMTT(30) DEF Init, SizeInv, FpsHonest, RowsHonest, BatchesHonest, OthersReused, Idle,
     Nothing, NoSnapshot, Planned

\* A scan that ends.
LEMMA EndSize ==
  ASSUME SizeInv, scan' = Idle, UNCHANGED <<setting, store>>,
         \A b \in cache' : Honest(b.batch.source)
  PROVE  SizeInv'
<1>1. FpsHonest' /\ OthersReused'
  BY DEF FpsHonest, OthersReused, Planned, Idle, Nothing
<1>2. RowsHonest'
  BY DEF SizeInv, RowsHonest, Honest, SizeOf
<1>3. BatchesHonest'
  BY HonestKept DEF BatchesHonest, Idle, Nothing
<1>. QED  BY <1>1, <1>2, <1>3 DEF SizeInv

LEMMA EditSize ==
  ASSUME ScanInv, SizeInv, SizesKeptIn(setting), NEW a \in Artifacts, EditFile(a)
  PROVE  SizeInv'
<1> DEFINE T == [scan EXCEPT !.quiet = (scan.step = "idle")]
<1>0. TypeOK /\ HashInv /\ scan' = T /\ UNCHANGED <<setting, config, store, cache>>
  BY DEF ScanInv, EditFile
<1>1. /\ T.step = scan.step /\ T.fps = scan.fps /\ T.batches = scan.batches
      /\ T.unpublished = scan.unpublished /\ T.partial = scan.partial
      /\ T.scope = scan.scope /\ T.found = scan.found /\ T.config = scan.config
  BY <1>0, ScanFields DEF ScanRecords
<1> HIDE DEF T
<1>2. FpsHonest'
  <2> SUFFICES ASSUME NEW b \in Artifacts, scan.fps[b] # None, ~Honest(scan.fps[b])
               PROVE  scan.fps[b].hash = None /\ scan.fps[b].size = SizeOf[disk'[b]]
      BY <1>0, <1>1, HonestKept DEF FpsHonest
  <2>1. scan.fps[b].hash = None /\ scan.fps[b].size = SizeOf[disk[b]]
    BY DEF SizeInv, FpsHonest
  <2>2. Concurrent
    BY <2>1, <1>0 DEF HashInv, EditFile
  <2>3. PICK e \in Edits : disk[a] = e[1] /\ disk' = [disk EXCEPT ![a] = e[2]]
    BY DEF EditFile
  <2>4. SizeOf[e[1]] = SizeOf[e[2]]
    BY <2>2, <1>0 DEF SizesKeptIn, Concurrent, Edits, SizeOf, TypeOK
  <2>5. SizeOf[disk'[b]] = SizeOf[disk[b]]
    BY <2>3, <2>4, <1>0 DEF TypeOK
  <2>. QED  BY <2>1, <2>5
<1>3. RowsHonest' /\ BatchesHonest'
  BY <1>0, <1>1, HonestKept DEF SizeInv, RowsHonest, BatchesHonest
<1>4. OthersReused'
  BY SMTT(30), <1>0, <1>1, HonestKept DEF SizeInv, OthersReused, Planned, Matches
<1>. QED  BY <1>2, <1>3, <1>4 DEF SizeInv

\* Discovery.
LEMMA DiscoverSize ==
  ASSUME SizeInv, UNCHANGED <<setting, disk, store, cache>>, FpsHonest',
         scan'.step \in {"stat", "hash"},
         \A a \in Artifacts : scan'.batches[a] # None => scan'.batches[a] = scan.batches[a],
         \A a \in Artifacts : scan'.found[a] # None => scan'.found[a] = scan.found[a]
  PROVE  SizeInv'
<1>1. RowsHonest' /\ BatchesHonest'
  BY HonestKept DEF SizeInv, RowsHonest, BatchesHonest
<1>2. OthersReused'
  BY DEF OthersReused, Planned
<1>. QED  BY <1>1, <1>2 DEF SizeInv

LEMMA StartSize ==
  ASSUME ScanInv, SizeInv, NEW o \in Options,
         StartScan(o.scope, o.partial, o.force, o.codegraph)
  PROVE  SizeInv'
<1>1. /\ scan'.step = "stat" /\ scan'.fps = Nothing /\ scan'.batches = Nothing
      /\ scan'.found = Nothing /\ UNCHANGED <<setting, disk, store, cache>>
  BY DEF StartScan, Idle
<1>2. FpsHonest'
  BY <1>1 DEF FpsHonest, Nothing
<1>. QED  BY <1>1, <1>2, DiscoverSize DEF Nothing

LEMMA StatSize ==
  ASSUME ScanInv, SizeInv, NEW a \in Artifacts, StatFile(a)
  PROVE  SizeInv'
<1>0. TypeOK /\ UNCHANGED <<setting, disk, store, cache>>
  BY DEF ScanInv, StatFile, Fail, Become
<1>1. CASE scan' = Idle
  BY <1>0, <1>1, EndSize DEF SizeInv, BatchesHonest
<1>2. CASE scan' # Idle
  <2> DEFINE F == Fingerprint(None, SizeOf[disk[a]])
  <2>1. scan' = [scan EXCEPT !.step = "hash", !.todo = @ \ {a}, !.fps[a] = F]
    BY <1>2 DEF StatFile, Fail, Become
  <2>2. F.hash = None /\ F.size = SizeOf[disk[a]]
    BY DEF Fingerprint
  <2> HIDE DEF F
  <2>3. /\ scan'.step = "hash" /\ scan'.batches = scan.batches /\ scan'.found = scan.found
        /\ scan'.fps = [scan.fps EXCEPT ![a] = F]
    BY <2>1, <1>0, ScanFields DEF ScanRecords
  <2>4. FpsHonest'
    BY ZenonT(30), <2>2, <2>3, <1>0, HonestKept, ScanFields DEF SizeInv, FpsHonest
  <2>. QED  BY <1>0, <2>3, <2>4, DiscoverSize
<1>. QED  BY <1>1, <1>2

LEMMA HashSize ==
  ASSUME ScanInv, SizeInv, NEW a \in Artifacts, HashFile(a)
  PROVE  SizeInv'
<1>0. /\ TypeOK /\ UNCHANGED <<setting, disk, store, cache>>
      /\ scan.fps[a] # None /\ scan.fps[a].hash = None
  BY DEF ScanInv, HashFile, Fail, Become
<1>1. CASE scan' = Idle
  BY <1>0, <1>1, EndSize DEF SizeInv, BatchesHonest
<1>2. CASE scan' # Idle
  <2>1. scan' = [scan EXCEPT !.step = "stat", !.fps[a].hash = disk[a]]
    BY <1>2 DEF HashFile, Fail, Become
  <2>2. disk[a] \in Contents /\ scan.fps[a] \in Fingerprints
    BY <1>0, ScanFields DEF TypeOK
  <2>3. scan.fps[a].size = SizeOf[disk[a]]
    BY <1>0, ScanAssumption DEF SizeInv, FpsHonest, Honest
  <2>4. /\ scan'.step = "stat" /\ scan'.batches = scan.batches /\ scan'.found = scan.found
        /\ scan'.fps = [scan.fps EXCEPT ![a] = [@ EXCEPT !.hash = disk[a]]]
    BY <2>1, <1>0, ScanFields DEF ScanRecords
  <2>5. /\ scan'.fps[a].hash = disk[a] /\ scan'.fps[a].size = SizeOf[disk[a]]
        /\ \A b \in Artifacts : b # a => scan'.fps[b] = scan.fps[b]
    BY SMTT(30), <2>2, <2>3, <2>4, <1>0, ScanFields DEF Fingerprints
  <2>6. Honest(scan'.fps[a])
    BY <2>2, <2>5 DEF Honest
  <2>7. FpsHonest'
    BY <2>5, <2>6, <1>0, HonestKept DEF SizeInv, FpsHonest
  <2>. QED  BY <1>0, <2>4, <2>7, DiscoverSize
<1>. QED  BY <1>1, <1>2

LEMMA PlanSize ==
  ASSUME ScanInv, SizeInv, PlanScan
  PROVE  SizeInv'
<1> DEFINE M == MergedFingerprints
           I == SnapshotIdentity(scan.config, M)
           C == Changed(PreviousFingerprints, M)
           D == Deleted(PreviousFingerprints, M)
           F == FromCache(M)
           W == {a \in Focused : M[a] # None}
           T == [scan EXCEPT !.step = "extract", !.fps = M, !.id = I, !.changed = C,
                             !.deleted = D, !.found = F, !.todo = W]
<1>0. TypeOK /\ UNCHANGED <<setting, disk, store, cache>> /\ scan.step = "stat"
  BY PlanCases DEF ScanInv, Fail, Become
<1>1. CASE scan' = Idle
  BY <1>0, <1>1, EndSize DEF SizeInv, BatchesHonest
<1>2. CASE ~(scan.partial /\ BudgetsChanged) /\ scan' = T
  <2>1. /\ scan'.step = "extract" /\ scan'.fps = M /\ scan'.batches = scan.batches
        /\ scan'.found = F /\ scan'.unpublished = scan.unpublished
        /\ scan'.partial = scan.partial /\ scan'.scope = scan.scope
        /\ scan'.config = scan.config
    <3> HIDE DEF M, I, C, D, F, W
    <3>. QED  BY <1>0, <1>2, ScanFields DEF ScanRecords
  <2> HIDE DEF T, I, C, D, W
  <2>2. FpsHonest'
    <3> SUFFICES ASSUME NEW a \in Artifacts, M[a] # None
                 PROVE  \/ Honest(M[a])
                        \/ M[a].hash = None /\ M[a].size = SizeOf[disk[a]]
        BY <1>0, <2>1, HonestKept DEF FpsHonest
    <3>. QED  BY MergedType DEF SizeInv, FpsHonest, RowsHonest
  <2>3. RowsHonest'
    BY <1>0, HonestKept DEF SizeInv, RowsHonest
  <2>4. BatchesHonest'
    <3>1. \A a \in Artifacts : F[a] # None => Honest(F[a].source)
      BY SMTT(30), <1>0, FromCacheType DEF SizeInv, BatchesHonest
    <3>. QED  BY <3>1, <1>0, <2>1, HonestKept DEF SizeInv, BatchesHonest
  <2>5. OthersReused'
    <3> SUFFICES ASSUME scan.partial, NEW a \in Focused, RepoOf[a] \notin scan.scope
                 PROVE  /\ a \notin scan.unpublished /\ F[a] = None
                        /\ M[a] # None => Matches(store.batches[a], M[a])
        BY SMTT(30), <1>0, <2>1, HonestKept DEF OthersReused, Matches
    <3>1. a \in Artifacts /\ M[a] = store.fps[a] /\ a \notin scan.unpublished
      BY <1>0, SettingFacts, MergedType DEF TypeOK, ScanInv, PlanInv, Planned
    <3>2. CASE M[a] = None
      BY <3>1, <3>2, <1>0, FromCacheType
    <3>3. CASE M[a] # None
      <4>1. store.id # None
        BY <3>1, <3>3 DEF ScanInv, StoreInv, Nothing
      <4>2. /\ store.id.fps[a] # None
            /\ store.fps[a].hash = store.id.fps[a].hash
        BY <3>1, <3>3, <4>1 DEF ScanInv, StoreInv
      <4>3. /\ store.batches[a] # None
            /\ store.batches[a].source.hash = store.fps[a].hash
        BY <4>1, <4>2 DEF ScanInv, StoreInv, IdentityProvesBatches
      <4>4. store.batches[a].budget = scan.config.budget
        BY <1>2, <3>1, <4>3 DEF BudgetsChanged
      <4>5. store.batches[a].source = M[a]
        <5>1. store.batches[a].source \in Fingerprints /\ store.fps[a] \in Fingerprints
          BY <1>0, <3>1, <3>3, <4>3 DEF TypeOK, Batches
        <5>. QED  BY <3>1, <3>3, <4>3, <5>1, HonestEqual DEF SizeInv, RowsHonest
      <4>6. F[a] = None
        BY <1>0, <3>1, <4>3, <4>4, <4>5, FromCacheType
      <4>. QED  BY <3>1, <4>3, <4>4, <4>5, <4>6 DEF Matches
    <3>. QED  BY <3>1, <3>2, <3>3
  <2>. QED  BY <2>2, <2>3, <2>4, <2>5 DEF SizeInv
<1>. QED  BY <1>1, <1>2, PlanCases DEF Fail, Become

\* The work of a planned scan.
LEMMA WorkSize ==
  ASSUME SizeInv, Planned, scan'.fps = scan.fps, scan'.found = scan.found,
         scan'.partial = scan.partial, scan'.scope = scan.scope,
         scan'.config = scan.config,
         UNCHANGED <<setting, disk, store>>,
         \A a \in Artifacts : scan'.batches[a] # None => Honest(scan'.batches[a].source),
         \A b \in cache' : Honest(b.batch.source),
         \A a \in Focused : scan.partial /\ RepoOf[a] \notin scan.scope
                            /\ a \notin scan.unpublished
                            => a \notin scan'.unpublished
  PROVE  SizeInv'
<1>1. FpsHonest' /\ RowsHonest' /\ BatchesHonest'
  BY ZenonT(30), HonestKept DEF SizeInv, FpsHonest, RowsHonest, BatchesHonest
<1>2. OthersReused'
  BY SMTT(30), HonestKept DEF SizeInv, OthersReused, Matches
<1>. QED  BY <1>1, <1>2 DEF SizeInv

LEMMA ReuseSize ==
  ASSUME ScanInv, SizeInv, NEW a \in Artifacts, ReuseBatch(a)
  PROVE  SizeInv'
<1> DEFINE U == IF Published(a) THEN scan.unpublished ELSE scan.unpublished \cup {a}
           B == Reusable(a)
           T == [scan EXCEPT !.todo = @ \ {a}, !.batches[a] = B, !.unpublished = U]
<1>0. /\ TypeOK /\ PlanInv /\ Planned /\ a \in scan.todo
      /\ scan' = T /\ UNCHANGED <<setting, disk, config, store, cache, settled>>
      /\ B # None
  BY DEF ScanInv, ReuseBatch, Become, Planned
<1>1. Honest(B.source)
  BY <1>0, ReusableFits DEF SizeInv, RowsHonest, BatchesHonest, Published
<1>2. \A x \in Focused : scan.partial /\ RepoOf[x] \notin scan.scope
                         /\ x \notin scan.unpublished => x \notin U
  BY <1>0 DEF SizeInv, OthersReused, Published
<1> HIDE DEF U, B
<1>3. /\ scan'.batches = [scan.batches EXCEPT ![a] = B] /\ scan'.unpublished = U
      /\ scan'.config = scan.config /\ scan'.fps = scan.fps
      /\ scan'.found = scan.found /\ scan'.partial = scan.partial
      /\ scan'.scope = scan.scope
  BY <1>0, ScanFields DEF ScanRecords
<1> HIDE DEF T
<1>4. /\ \A x \in Artifacts : scan'.batches[x] # None => Honest(scan'.batches[x].source)
      /\ \A b \in cache' : Honest(b.batch.source)
  BY <1>0, <1>1, <1>3, ScanFields DEF SizeInv, BatchesHonest
<1>. QED  BY <1>0, <1>2, <1>3, <1>4, WorkSize

LEMMA ExtractSize ==
  ASSUME ScanInv, SizeInv, NEW a \in Artifacts, ExtractFile(a)
  PROVE  SizeInv'
<1>0. /\ TypeOK /\ PlanInv /\ HashInv /\ Planned /\ Waiting = scan.todo
      /\ a \in scan.todo
      /\ UNCHANGED <<setting, disk, config, store, cache, settled>>
  BY DEF ScanInv, ExtractFile, Become, Planned, Waiting
<1>1. \A b \in cache' : Honest(b.batch.source)
  BY <1>0 DEF SizeInv, BatchesHonest
<1>2. CASE disk[a] \in Absent
  <2>1. scan' = [scan EXCEPT !.step = "checkpoint", !.failed = TRUE]
    BY <1>2 DEF ExtractFile, Become
  <2>2. /\ scan'.batches = scan.batches /\ scan'.unpublished = scan.unpublished
        /\ scan'.config = scan.config /\ scan'.fps = scan.fps
        /\ scan'.found = scan.found /\ scan'.partial = scan.partial
        /\ scan'.scope = scan.scope
    BY <1>0, <2>1, ScanFields DEF ScanRecords
  <2>3. \A x \in Artifacts : scan'.batches[x] # None => Honest(scan'.batches[x].source)
    BY <2>2 DEF SizeInv, BatchesHonest
  <2>. QED  BY <1>0, <1>1, <2>2, <2>3, WorkSize
<1>3. CASE disk[a] \notin Absent
  <2> DEFINE B == Batch(scan.fps[a], scan.config.budget, disk[a])
             T == [scan EXCEPT !.todo = @ \ {a}, !.batches[a] = B,
                               !.unpublished = @ \cup {a}]
  <2>1. scan' = T
    BY <1>3 DEF ExtractFile, Become
  <2>2. a \in Focused /\ scan.fps[a] # None /\ scan.fps[a].hash # None
    BY <1>0 DEF PlanInv, HashInv, Planned
  <2>3. Honest(B.source)
    BY <2>2 DEF SizeInv, FpsHonest, Batch
  <2> HIDE DEF B
  <2>4. /\ scan'.batches = [scan.batches EXCEPT ![a] = B]
        /\ scan'.unpublished = scan.unpublished \cup {a}
        /\ scan'.config = scan.config /\ scan'.fps = scan.fps
        /\ scan'.found = scan.found /\ scan'.partial = scan.partial
        /\ scan'.scope = scan.scope
    BY <1>0, <2>1, ScanFields DEF ScanRecords
  <2> HIDE DEF T
  <2>5. \A x \in Artifacts : scan'.batches[x] # None => Honest(scan'.batches[x].source)
    BY <1>0, <2>3, <2>4, ScanFields DEF SizeInv, BatchesHonest
  <2>6. ~(scan.partial /\ RepoOf[a] \notin scan.scope)
    <3> SUFFICES ASSUME scan.partial, RepoOf[a] \notin scan.scope PROVE FALSE
        OBVIOUS
    <3>1. scan.found[a] = None /\ Matches(store.batches[a], scan.fps[a])
      BY <1>0, <2>2 DEF SizeInv, OthersReused
    <3>2. ~Matches(scan.found[a], scan.fps[a])
      BY <3>1 DEF Matches
    <3>3. a \notin scan.changed
      <4>1. scan.fps[a] = store.fps[a]
        BY <1>0 DEF PlanInv
      <4>2. PreviousFingerprints[a] = store.fps[a]
        BY DEF PreviousFingerprints
      <4>. QED  BY SMTT(30), <4>1, <4>2, <1>0, <2>2 DEF PlanInv, Changed
    <3>4. Reusable(a) = store.batches[a]
      BY <3>1, <3>2, <3>3 DEF Reusable
    <3>. QED  BY <3>1, <3>4 DEF Matches, ExtractFile
  <2>. QED  BY <1>0, <1>1, <2>4, <2>5, <2>6, WorkSize
<1>. QED  BY <1>2, <1>3

LEMMA CheckpointSize ==
  ASSUME ScanInv, SizeInv, WriteCheckpoints
  PROVE  SizeInv'
<1>0. /\ TypeOK /\ Planned /\ UNCHANGED <<setting, disk, config, store, settled>>
  BY DEF ScanInv, WriteCheckpoints, Planned
<1>1. \A b \in cache' : Honest(b.batch.source)
  <2> SUFFICES ASSUME NEW b \in FreshBatches \cup cache PROVE Honest(b.batch.source)
      BY DEF WriteCheckpoints
  <2>1. CASE b \in FreshBatches
    <3>1. /\ b.artifact \in Artifacts /\ b.batch \in Batches
          /\ b.batch = scan.batches[b.artifact]
      BY <1>0, <2>1, FreshType
    <3>. QED  BY <3>1, NoneAssumption DEF SizeInv, BatchesHonest
  <2>. QED  BY <2>1 DEF SizeInv, BatchesHonest
<1>2. CASE scan.failed
  BY <1>0, <1>1, <1>2, EndSize DEF WriteCheckpoints
<1>3. CASE ~scan.failed
  <2>1. scan' = [scan EXCEPT !.step = "assemble", !.todo = Declared]
    BY <1>3 DEF WriteCheckpoints
  <2>2. /\ scan'.batches = scan.batches /\ scan'.unpublished = scan.unpublished
        /\ scan'.config = scan.config /\ scan'.fps = scan.fps
        /\ scan'.found = scan.found /\ scan'.partial = scan.partial
        /\ scan'.scope = scan.scope
    BY <1>0, <2>1, ScanFields DEF ScanRecords
  <2>3. \A x \in Artifacts : scan'.batches[x] # None => Honest(scan'.batches[x].source)
    BY <2>2 DEF SizeInv, BatchesHonest
  <2>. QED  BY <1>0, <1>1, <2>2, <2>3, WorkSize
<1>. QED  BY <1>2, <1>3

LEMMA DeclaredSize ==
  ASSUME ScanInv, SizeInv, NEW a \in Artifacts, ReadDeclared(a)
  PROVE  SizeInv'
<1>0. /\ TypeOK /\ Planned /\ UNCHANGED <<setting, disk, store, cache>>
      /\ \A b \in cache' : Honest(b.batch.source)
  BY DEF ScanInv, SizeInv, BatchesHonest, ReadDeclared, Fail, Become, Planned
<1>1. CASE scan' = Idle
  BY <1>0, <1>1, EndSize
<1>2. CASE scan' # Idle
  <2>1. scan' = [scan EXCEPT !.todo = @ \ {a}, !.facts[a] = disk[a]]
    BY <1>2 DEF ReadDeclared, Fail, Become
  <2>2. /\ scan'.batches = scan.batches /\ scan'.unpublished = scan.unpublished
        /\ scan'.config = scan.config /\ scan'.fps = scan.fps
        /\ scan'.found = scan.found /\ scan'.partial = scan.partial
        /\ scan'.scope = scan.scope
    BY <1>0, <2>1, ScanFields DEF ScanRecords
  <2>3. \A x \in Artifacts : scan'.batches[x] # None => Honest(scan'.batches[x].source)
    BY <2>2 DEF SizeInv, BatchesHonest
  <2>. QED  BY <1>0, <2>2, <2>3, WorkSize
<1>. QED  BY <1>1, <1>2

LEMMA PublishSize ==
  ASSUME ScanInv, SizeInv, PublishScan
  PROVE  SizeInv'
<1> DEFINE P == PublishedRows(store.fps, scan.fps, scan.changed)
<1>0. /\ TypeOK /\ HashInv /\ PlanInv /\ Planned /\ scan.step = "assemble"
      /\ scan' = Idle /\ UNCHANGED <<setting, disk, config, cache>>
  BY DEF ScanInv, Planned, PublishScan
<1>1. store' = [id |-> scan.id, fps |-> P, batches |-> scan.batches, facts |-> Facts]
  BY <1>0, DeltaLeavesCandidate DEF PublishScan
<1>2. \A a \in Artifacts : P[a] = scan.fps[a] \/ P[a] = store.fps[a]
  BY <1>0, DeltaLeavesCandidate
<1>3. \A a \in Artifacts : scan.fps[a] # None => Honest(scan.fps[a])
  BY <1>0 DEF SizeInv, FpsHonest, HashInv, Planned
<1>4. scan.id.fps = scan.fps
  BY SMTT(30), <1>0 DEF PlanInv, SnapshotIdentity
<1> HIDE DEF P
<1>5. RowsHonest'
  BY <1>0, <1>1, <1>2, <1>3, <1>4, HonestKept DEF SizeInv, RowsHonest, BatchesHonest
<1>6. FpsHonest' /\ OthersReused' /\ BatchesHonest'
  BY <1>0, HonestKept DEF SizeInv, FpsHonest, OthersReused, BatchesHonest, Planned,
       Idle, Nothing
<1>. QED  BY <1>5, <1>6 DEF SizeInv

LEMMA NextSizeInv ==
  ASSUME SizesKeptIn(setting), ScanInv, SizeInv, [Next]_vars
  PROVE  SizeInv'
<1>1. CASE UNCHANGED vars \/ EditConfig
  <2>1. UNCHANGED <<setting, disk, store, cache, scan>>
    BY <1>1 DEF vars, EditConfig
  <2>. QED  BY ZenonT(30), <2>1, HonestKept DEF SizeInv, FpsHonest, RowsHonest, BatchesHonest,
            OthersReused, Planned, Matches
<1>2. CASE AbandonScan
  BY <1>2, EndSize DEF AbandonScan, Fail, Become, SizeInv, BatchesHonest
<1>. QED  BY <1>1, <1>2, EditSize, StartSize, StatSize, HashSize, PlanSize, ReuseSize,
          ExtractSize, CheckpointSize, DeclaredSize, PublishSize DEF Next

\* Where sizes follow contents the stored fingerprints are those the identity
\* was computed from.
LEMMA StoredAreIdentity ==
  ASSUME ScanInv, SizeInv
  PROVE  StoredEqualsCandidate
<1> SUFFICES ASSUME store.id # None PROVE store.fps = store.id.fps
    BY DEF StoredEqualsCandidate
<1>1. /\ store.fps \in [Artifacts -> Fingerprints \cup {None}]
      /\ store.id.fps \in [Artifacts -> Fingerprints \cup {None}]
  BY DEF ScanInv, TypeOK, Identities
<1>2. ASSUME NEW a \in Artifacts PROVE store.fps[a] = store.id.fps[a]
  <2>1. CASE store.fps[a] = None
    BY <2>1 DEF ScanInv, StoreInv
  <2>2. CASE store.fps[a] # None
    BY SMTT(30), <2>2, <1>1, HonestEqual DEF ScanInv, StoreInv, SizeInv, RowsHonest
  <2>. QED  BY <2>1, <2>2
<1>. QED  BY SMTT(30), <1>1, <1>2

(* "every other stored fingerprint and extractor batch must already equal the
   candidate": if files edited while a scan runs keep their sizes (without that,
   the size of one reading and the hash of the next can be stored together), the
   published identity is the truth about the rows stored under it, for every
   sequence of scans, options, edits and crashes. *)
THEOREM IdentityHonest ==
  ASSUME SizesKept
  PROVE  Spec => []IdentityIsHonest
<1>1. ScanInv /\ SizeInv => IdentityIsHonest
  BY StoredAreIdentity DEF ScanInv, StoreInv, IdentityIsHonest
<1>2. Init => ScanInv /\ SizeInv
  BY InitScanInv, InitSizeInv
<1>3. ScanInv /\ SizeInv /\ [Next]_vars => (ScanInv /\ SizeInv)'
  BY NextScanInv, NextSizeInv DEF SizesKept, ScanInv, TypeOK
<1>. QED  BY <1>1, <1>2, <1>3, PTL DEF Spec

\* What a step of a partial scan leaves of the other repositories.
LEMMA OthersKeptByStep ==
  ASSUME ScanInv, SizeInv, [Next]_vars, scan.partial,
         NEW a \in Focused, RepoOf[a] \notin scan.scope
  PROVE  /\ store'.fps[a] = store.fps[a]
         /\ store'.batches[a] = store.batches[a]
         /\ store'.facts[a] = store.facts[a]
<1>1. CASE PublishScan
  <2> DEFINE P == PublishedRows(store.fps, scan.fps, scan.changed)
  <2>0. /\ TypeOK /\ StoreInv /\ PlanInv /\ Planned /\ scan.step = "assemble"
        /\ Waiting = {} /\ a \in Artifacts
    BY <1>1, SettingFacts DEF ScanInv, Planned, PublishScan, Waiting, TypeOK
  <2>1. store' = [id |-> scan.id, fps |-> P, batches |-> scan.batches, facts |-> Facts]
    BY <1>1, <2>0, DeltaLeavesCandidate DEF PublishScan
  <2>2. P[a] = store.fps[a]
    BY <2>0, DeltaLeavesCandidate DEF PlanInv
  <2> HIDE DEF P
  <2>3. scan.batches[a] = store.batches[a]
    <3>1. CASE scan.fps[a] = None
      <4>1. store.fps[a] = None /\ scan.batches[a] = None
        BY <2>0, <3>1 DEF PlanInv
      <4>2. store.batches[a] = None
        BY <4>1, <2>0 DEF StoreInv, IdentityProvesBatches, Nothing
      <4>. QED  BY <4>1, <4>2
    <3>2. CASE scan.fps[a] # None
      BY <2>0, <3>2 DEF PlanInv, SizeInv, OthersReused
    <3>. QED  BY <3>1, <3>2
  <2>4. Facts[a] = store.facts[a]
    BY ZenonT(30), <2>0, <2>3 DEF Facts, StoreInv, Focused
  <2>. QED  BY <2>1, <2>2, <2>3, <2>4
<1>2. CASE ~PublishScan
  <2>1. store' = store
    <3>1. CASE PlanScan
      BY <3>1, PlanCases DEF Fail, Become
    <3>2. CASE ~PlanScan
      BY <1>2, <3>2 DEF Next, vars, EditFile, EditConfig, StartScan, StatFile, HashFile,
           ReuseBatch, ExtractFile, WriteCheckpoints, ReadDeclared, AbandonScan,
           Fail, Become
    <3>. QED  BY <3>1, <3>2
  <2>. QED  BY <2>1
<1>. QED  BY <1>1, <1>2

(* "--repo recomputes only the selected alias and retains the other repositories'
   previous batches": under the same condition no step of a partial scan changes a
   fingerprint, batch or fact of a repository that it does not select. *)
THEOREM UnselectedAreRetained ==
  ASSUME SizesKept
  PROVE  Spec => UnselectedRetained
<1>1. Init => ScanInv /\ SizeInv
  BY InitScanInv, InitSizeInv
<1>2. ScanInv /\ SizeInv /\ [Next]_vars => (ScanInv /\ SizeInv)'
  BY NextScanInv, NextSizeInv DEF SizesKept, ScanInv, TypeOK
<1>3. ScanInv /\ SizeInv /\ [Next]_vars =>
        [scan.partial =>
           \A a \in Focused : RepoOf[a] \notin scan.scope =>
             /\ store'.fps[a] = store.fps[a]
             /\ store'.batches[a] = store.batches[a]
             /\ store'.facts[a] = store.facts[a]]_vars
  BY OthersKeptByStep
<1>. QED  BY <1>1, <1>2, <1>3, PTL DEF Spec, UnselectedRetained

-----------------------------------------------------------------------------
(***************************************************************************)
(* What a scan publishes of the files of its scope.                        *)
(***************************************************************************)
\* Leading is reflexive, transitive and prolonged by an edit.
LEMMA LeadsFacts ==
  ASSUME NEW w, NEW c, NEW d
  PROVE  /\ Leads(w, c, c)
         /\ Leads(w, c, d) => \A x : Leads(w, d, x) => Leads(w, c, x)
         /\ \A e \in w.edits : d = e[1] /\ Leads(w, c, d) => Leads(w, c, e[2])
BY DEF Leads

\* Between a hash and the present content, when they are the same, is nothing else.
LEMMA FitsPresent ==
  ASSUME NEW h \in Contents, NEW p \in Contents, NEW a, Fits(h, p, a), h = disk[a]
  PROVE  p = h
BY DEF Fits, NeverReturns

\* Only edits touch what Fits and TrueBatch speak of.
LEMMA FitsKept ==
  ASSUME UNCHANGED <<setting, disk>>
  PROVE  /\ \A h, p, a : Fits(h, p, a)' = Fits(h, p, a)
         /\ \A b, a : TrueBatch(b, a)' = TrueBatch(b, a)
         /\ NeverReturns(setting)' = NeverReturns(setting)
         /\ \A c, d : Leads(setting, c, d)' = Leads(setting, c, d)
         /\ Declared' = Declared /\ Focused' = Focused /\ Concurrent' = Concurrent
BY SMTT(30) DEF Fits, TrueBatch, NeverReturns, Leads, Declared, Focused, Concurrent

\* They survive an edit.
LEMMA FitsEdited ==
  ASSUME TypeOK, NEW x \in Artifacts, EditFile(x)
  PROVE  /\ \A c : \A a \in Artifacts :
              Leads(setting, c, disk[a]) => Leads(setting, c, disk'[a])
         /\ \A h, p : \A a \in Artifacts : Fits(h, p, a) => Fits(h, p, a)'
         /\ \A b : \A a \in Artifacts : TrueBatch(b, a) => TrueBatch(b, a)'
<1>1. PICK e \in Edits : disk[x] = e[1] /\ disk' = [disk EXCEPT ![x] = e[2]]
  BY DEF EditFile
<1>2. setting' = setting /\ e \in setting.edits
  BY DEF EditFile, Edits
<1>3. \A a \in Artifacts : disk'[a] = IF a = x THEN e[2] ELSE disk[a]
  BY <1>1 DEF TypeOK
<1>4. \A c : \A a \in Artifacts :
        Leads(setting, c, disk[a]) => Leads(setting, c, disk'[a])
  BY SMTT(30), <1>1, <1>2, <1>3, LeadsFacts
<1>5. \A h, p : \A a \in Artifacts : Fits(h, p, a) => Fits(h, p, a)'
  BY <1>2, <1>4 DEF Fits
<1>. QED  BY <1>4, <1>5 DEF TrueBatch

LEMMA InitExactInv == Init => ExactInv
<1> SUFFICES ASSUME Init PROVE ExactInv
    OBVIOUS
<1> USE DEF Init, Idle, Nothing, NoSnapshot
<1>1. SizeInv
  BY InitSizeInv
<1>2. BatchesTrue /\ HashesLead
  BY DEF BatchesTrue, TrueBatch, HashesLead
<1>3. DeclaredTrue /\ ScopeKnown /\ ScanIsExact
  BY DEF DeclaredTrue, ScopeKnown, ScanIsExact
<1>. QED  BY <1>1, <1>2, <1>3 DEF ExactInv

LEMMA EditExact ==
  ASSUME ScanInv, ExactInv, NEW x \in Artifacts, EditFile(x)
  PROVE  BatchesTrue' /\ HashesLead' /\ DeclaredTrue' /\ ScopeKnown' /\ ScanIsExact'
<1> DEFINE T == [scan EXCEPT !.quiet = (scan.step = "idle")]
<1>0. /\ TypeOK /\ scan' = T /\ UNCHANGED <<setting, config, store, cache>>
      /\ settled' = {} /\ (Concurrent \/ scan.step = "idle")
  BY DEF ScanInv, EditFile
<1>1. /\ T.step = scan.step /\ T.fps = scan.fps /\ T.batches = scan.batches
      /\ T.partial = scan.partial /\ T.quiet = (scan.step = "idle")
      /\ T.scope = scan.scope /\ T.found = scan.found /\ T.todo = scan.todo
      /\ T.facts = scan.facts
  BY <1>0, ScanFields DEF ScanRecords
<1> HIDE DEF T
<1>2. Declared' = Declared /\ Concurrent' = Concurrent /\ Declared \subseteq Artifacts
  BY <1>0, SettingFacts DEF Declared, Concurrent, TypeOK
<1>3. BatchesTrue'
  BY <1>0, <1>1, FitsEdited DEF ExactInv, BatchesTrue, TypeOK
<1>4. HashesLead'
  BY ZenonT(30), <1>0, <1>1, FitsEdited DEF ExactInv, HashesLead
<1>5. DeclaredTrue'
  <2> SUFFICES ASSUME NEW a \in Declared
               PROVE /\ store.id # None =>
                          /\ store.facts[a] \in Contents
                          /\ store.fps[a] # None => Fits(store.fps[a].hash, store.facts[a], a)'
                     /\ scan.step = "assemble" /\ a \notin scan.todo =>
                          /\ scan.facts[a] \in Contents
                          /\ scan.fps[a] # None => Fits(scan.fps[a].hash, scan.facts[a], a)'
      BY <1>0, <1>1, <1>2 DEF DeclaredTrue
  <2>1. /\ Fits(store.fps[a].hash, store.facts[a], a) => Fits(store.fps[a].hash, store.facts[a], a)'
        /\ Fits(scan.fps[a].hash, scan.facts[a], a) => Fits(scan.fps[a].hash, scan.facts[a], a)'
    BY <1>0, <1>1, <1>2, FitsEdited DEF Fits
  <2>. QED  BY <2>1 DEF ExactInv, DeclaredTrue
<1>6. ScopeKnown'
  BY <1>0, <1>1, <1>2 DEF ExactInv, ScopeKnown
<1>7. ScanIsExact'
  BY <1>0 DEF ScanIsExact
<1>. QED  BY <1>3, <1>4, <1>5, <1>6, <1>7

\* The published facts stay exact while neither they nor the files change.
LEMMA ExactKept ==
  ASSUME ScanIsExact, UNCHANGED <<disk, store>>, settled' \subseteq settled
  PROVE  ScanIsExact'
BY DEF ScanIsExact

LEMMA EndExact ==
  ASSUME ExactInv, scan' = Idle, UNCHANGED <<setting, disk, store>>,
         \A b \in cache' : TrueBatch(b.batch, b.artifact)
  PROVE  BatchesTrue' /\ HashesLead' /\ DeclaredTrue' /\ ScopeKnown'
<1>1. BatchesTrue'
  <2>1. \A a : TrueBatch(None, a)'
    BY DEF TrueBatch
  <2>2. \A a \in Artifacts : scan'.found[a] = None /\ scan'.batches[a] = None
    BY DEF Idle, Nothing
  <2>3. \A b \in cache' : TrueBatch(b.batch, b.artifact)'
    BY FitsKept
  <2>4. \A a \in Artifacts : TrueBatch(store.batches[a], a)'
    BY FitsKept DEF ExactInv, BatchesTrue, TrueBatch, Fits
  <2>. QED  BY <2>1, <2>2, <2>3, <2>4 DEF BatchesTrue, TrueBatch
<1>2. HashesLead'
  BY FitsKept DEF ExactInv, HashesLead, Idle, Nothing
<1>3. DeclaredTrue'
  BY FitsKept DEF ExactInv, DeclaredTrue, Idle, Fits
<1>4. ScopeKnown'
  BY DEF ScopeKnown, Idle
<1>. QED  BY <1>1, <1>2, <1>3, <1>4

\* A step that leaves the files, the store and the checkpoints alone.
LEMMA ScanOnlyExact ==
  ASSUME ScanInv, ExactInv, UNCHANGED <<setting, disk, store, cache>>,
         \A a \in Artifacts : /\ TrueBatch(scan'.found[a], a)
                              /\ TrueBatch(scan'.batches[a], a),
         NeverReturns(setting) =>
           \A a \in Artifacts : scan'.fps[a] # None /\ scan'.fps[a].hash # None =>
             Leads(setting, scan'.fps[a].hash, disk[a]),
         \A a \in Declared : scan'.step = "assemble" /\ a \notin scan'.todo =>
           /\ scan'.facts[a] \in Contents
           /\ scan'.fps[a] # None => Fits(scan'.fps[a].hash, scan'.facts[a], a)
           /\ scan'.quiet => scan'.facts[a] = disk[a] /\ disk[a] \notin Absent,
         settled' \subseteq settled, ScopeKnown'
  PROVE  BatchesTrue' /\ HashesLead' /\ DeclaredTrue' /\ ScopeKnown' /\ ScanIsExact'
<1>1. BatchesTrue'
  BY ZenonT(30), FitsKept DEF ExactInv, BatchesTrue, TrueBatch, Fits
<1>2. HashesLead'
  BY FitsKept DEF ExactInv, HashesLead
<1>3. DeclaredTrue'
  BY FitsKept DEF ExactInv, DeclaredTrue, Fits
<1>4. ScanIsExact'
  BY ExactKept DEF ExactInv
<1>. QED  BY <1>1, <1>2, <1>3, <1>4

LEMMA StartExact ==
  ASSUME ScanInv, ExactInv, NEW o \in Options,
         StartScan(o.scope, o.partial, o.force, o.codegraph)
  PROVE  BatchesTrue' /\ HashesLead' /\ DeclaredTrue' /\ ScopeKnown' /\ ScanIsExact'
<1> DEFINE D == {a \in Artifacts : /\ RepoOf[a] \in o.scope
                                   /\ a \in Declared \/ disk[a] \notin Absent}
<1>1. /\ scan'.step = "stat" /\ scan'.fps = Nothing /\ scan'.batches = Nothing
      /\ scan'.found = Nothing /\ UNCHANGED <<setting, disk, store, cache>>
      /\ scan'.quiet = TRUE /\ scan'.partial = o.partial /\ scan'.scope = o.scope
      /\ scan'.todo = D /\ settled' = {}
  BY DEF StartScan, Idle
<1>2. o.partial \/ o.scope = Repos
  BY DEF Options
<1>3. ScopeKnown'
  <2>1. \A a \in Artifacts : RepoOf[a] \in o.scope /\ a \notin D =>
          disk[a] \in Absent /\ a \notin Declared
    OBVIOUS
  <2> HIDE DEF D
  <2>. QED  BY ZenonT(30), <1>1, <1>2, <2>1, FitsKept DEF ScopeKnown, Planned, Nothing
<1>. QED  BY SMTT(30), <1>1, <1>3, ScanOnlyExact DEF Nothing, TrueBatch

LEMMA StatExact ==
  ASSUME ScanInv, ExactInv, NEW a \in Artifacts, StatFile(a)
  PROVE  BatchesTrue' /\ HashesLead' /\ DeclaredTrue' /\ ScopeKnown' /\ ScanIsExact'
<1>0. /\ TypeOK /\ UNCHANGED <<setting, disk, store, cache, settled>>
      /\ scan.step = "stat" /\ a \in scan.todo
  BY DEF ScanInv, StatFile, Fail, Become
<1>1. CASE scan' = Idle
  BY <1>0, <1>1, EndExact, ExactKept DEF ExactInv, BatchesTrue
<1>2. CASE scan' # Idle
  <2> DEFINE F == Fingerprint(None, SizeOf[disk[a]])
  <2>1. scan' = [scan EXCEPT !.step = "hash", !.todo = @ \ {a}, !.fps[a] = F]
    BY <1>2 DEF StatFile, Fail, Become
  <2>2. F.hash = None /\ F \in Fingerprints /\ F # None
    BY SMTT(30), <1>0, SettingFacts, NoneAssumption DEF TypeOK, Fingerprint, Fingerprints
  <2> HIDE DEF F
  <2>3. /\ scan'.step = "hash" /\ scan'.batches = scan.batches /\ scan'.found = scan.found
        /\ scan'.fps = [scan.fps EXCEPT ![a] = F] /\ scan'.todo = scan.todo \ {a}
        /\ scan'.partial = scan.partial /\ scan'.scope = scan.scope
        /\ scan'.quiet = scan.quiet
    BY <2>1, <1>0, ScanFields DEF ScanRecords
  <2>4. ScopeKnown'
    BY SMTT(30), <1>0, <2>2, <2>3, FitsKept, ScanFields DEF ExactInv, ScopeKnown, Planned
  <2>5. NeverReturns(setting) =>
           \A b \in Artifacts : scan'.fps[b] # None /\ scan'.fps[b].hash # None =>
             Leads(setting, scan'.fps[b].hash, disk[b])
    BY <1>0, <2>2, <2>3, ScanFields DEF ExactInv, HashesLead
  <2>. QED  BY <1>0, <2>3, <2>4, <2>5, ScanOnlyExact DEF ExactInv, BatchesTrue
<1>. QED  BY <1>1, <1>2

LEMMA HashExact ==
  ASSUME ScanInv, ExactInv, NEW a \in Artifacts, HashFile(a)
  PROVE  BatchesTrue' /\ HashesLead' /\ DeclaredTrue' /\ ScopeKnown' /\ ScanIsExact'
<1>0. /\ TypeOK /\ UNCHANGED <<setting, disk, store, cache, settled>>
      /\ scan.step = "hash" /\ scan.fps[a] # None
  BY DEF ScanInv, HashFile, Fail, Become
<1>1. CASE scan' = Idle
  BY <1>0, <1>1, EndExact, ExactKept DEF ExactInv, BatchesTrue
<1>2. CASE scan' # Idle
  <2>1. scan' = [scan EXCEPT !.step = "stat", !.fps[a].hash = disk[a]]
        /\ disk[a] \notin Absent
    BY <1>2 DEF HashFile, Fail, Become
  <2>2. disk[a] \in Contents /\ scan.fps[a] \in Fingerprints
    BY <1>0, ScanFields DEF TypeOK
  <2>3. /\ scan'.step = "stat" /\ scan'.batches = scan.batches /\ scan'.found = scan.found
        /\ scan'.fps = [scan.fps EXCEPT ![a] = [@ EXCEPT !.hash = disk[a]]]
        /\ scan'.todo = scan.todo /\ scan'.partial = scan.partial
        /\ scan'.scope = scan.scope /\ scan'.quiet = scan.quiet
    BY <2>1, <1>0, ScanFields DEF ScanRecords
  <2>4. /\ scan'.fps[a].hash = disk[a] /\ scan'.fps[a] # None
        /\ \A b \in Artifacts : b # a => scan'.fps[b] = scan.fps[b]
    BY SMTT(30), <2>2, <2>3, <1>0, ScanFields, NoneAssumption DEF Fingerprints
  <2>5. ScopeKnown'
    BY SMTT(30), <1>0, <2>1, <2>3, <2>4, FitsKept DEF ExactInv, ScopeKnown, Planned
  <2>6. NeverReturns(setting) =>
           \A b \in Artifacts : scan'.fps[b] # None /\ scan'.fps[b].hash # None =>
             Leads(setting, scan'.fps[b].hash, disk[b])
    BY <1>0, <2>4, LeadsFacts DEF ExactInv, HashesLead
  <2>. QED  BY <1>0, <2>3, <2>5, <2>6, ScanOnlyExact DEF ExactInv, BatchesTrue
<1>. QED  BY <1>1, <1>2

\* The identity of an unchanged scope vouches for the published facts.
LEMMA ReuseIsExact ==
  ASSUME ScanInv, ExactInv, scan.step = "stat", scan.todo = {}, scan.quiet,
         store.id = SnapshotIdentity(scan.config, MergedFingerprints),
         NEW a \in Artifacts, RepoOf[a] \in scan.scope
  PROVE  store.facts[a] = IF disk[a] \in Absent THEN None ELSE disk[a]
<1>0. /\ TypeOK /\ StoreInv /\ HashInv /\ DeclaredTrue /\ BatchesTrue
  BY DEF ScanInv, ExactInv
<1>1. MergedFingerprints[a] = scan.fps[a]
  BY MergedType
<1>2. /\ store.id \in Identities /\ store.id # None
      /\ store.id.fps = MergedFingerprints
  <2>1. scan.config \in Configs
    BY <1>0 DEF HashInv
  <2>2. store.id \in Identities
    BY SMTT(30), <1>0, <2>1, IdentityType, MergedType DEF TypeOK
  <2>. QED  BY SMTT(30), <2>2, NoneAssumption DEF SnapshotIdentity
<1>3. IF scan.fps[a] = None THEN disk[a] \in Absent /\ a \notin Declared
      ELSE scan.fps[a].hash = disk[a] /\ disk[a] \notin Absent
  BY <1>0 DEF ExactInv, ScopeKnown, HashInv
<1>4. disk[a] \in Contents
  BY <1>0 DEF TypeOK
<1>5. CASE a \in Focused
  <2>1. CASE scan.fps[a] = None
    BY <1>0, <1>1, <1>2, <1>3, <1>5, <2>1 DEF StoreInv, IdentityProvesBatches
  <2>2. CASE scan.fps[a] # None
    <3>1. /\ store.batches[a] # None
          /\ store.batches[a].source.hash = disk[a]
      BY SMTT(30), <1>0, <1>1, <1>2, <1>3, <1>5, <2>2 DEF StoreInv, IdentityProvesBatches
    <3>2. store.batches[a].payload \in Contents
      BY <1>0, <3>1 DEF TypeOK, Batches
    <3>3. store.batches[a].payload = disk[a]
      BY ZenonT(30), <1>0, <1>4, <3>1, <3>2, FitsPresent DEF BatchesTrue, TrueBatch
    <3>. QED  BY <1>0, <1>3, <1>5, <2>2, <3>1, <3>3 DEF StoreInv
  <2>. QED  BY <2>1, <2>2
<1>6. CASE a \in Declared
  <2>1. /\ store.fps[a] # None /\ store.fps[a].hash = disk[a]
    BY SMTT(30), <1>0, <1>1, <1>2, <1>3, <1>6 DEF StoreInv
  <2>2. store.facts[a] = disk[a]
    BY <1>0, <1>2, <1>4, <1>6, <2>1, FitsPresent DEF DeclaredTrue
  <2>. QED  BY <1>3, <1>6, <2>2
<1>. QED  BY <1>5, <1>6 DEF Focused

LEMMA PlanExact ==
  ASSUME ScanInv, ExactInv, PlanScan
  PROVE  BatchesTrue' /\ HashesLead' /\ DeclaredTrue' /\ ScopeKnown' /\ ScanIsExact'
<1> DEFINE M == MergedFingerprints
           I == SnapshotIdentity(scan.config, M)
           C == Changed(PreviousFingerprints, M)
           D == Deleted(PreviousFingerprints, M)
           F == FromCache(M)
           W == {a \in Focused : M[a] # None}
           T == [scan EXCEPT !.step = "extract", !.fps = M, !.id = I, !.changed = C,
                             !.deleted = D, !.found = F, !.todo = W]
<1>0. /\ TypeOK /\ UNCHANGED <<setting, disk, store, cache>> /\ scan.step = "stat"
      /\ scan.todo = {} /\ \A b \in cache' : TrueBatch(b.batch, b.artifact)
  BY PlanCases DEF ScanInv, Fail, Become, ExactInv, BatchesTrue
<1>1. CASE scan' = Idle /\ Settle /\ ReusesSnapshot(I)
  <2>1. ScanIsExact'
    <3>1. store.id = I
      BY <1>1 DEF ReusesSnapshot
    <3>2. CASE scan.quiet
      BY <1>0, <1>1, <3>1, <3>2, ReuseIsExact DEF ScanIsExact, Settle
    <3>3. CASE ~scan.quiet
      BY <1>1, <3>3 DEF ScanIsExact, Settle
    <3>. QED  BY <3>2, <3>3
  <2>. QED  BY <1>0, <1>1, <2>1, EndExact
<1>2. CASE Fail
  <2>1. scan' = Idle /\ settled' = settled
    BY <1>2 DEF Fail, Become
  <2>. QED  BY <1>0, <2>1, EndExact, ExactKept DEF ExactInv
<1>3. CASE scan' = T /\ settled' = settled
  <2>1. /\ scan'.step = "extract" /\ scan'.fps = M /\ scan'.batches = scan.batches
        /\ scan'.found = F /\ scan'.partial = scan.partial /\ scan'.scope = scan.scope
        /\ scan'.quiet = scan.quiet
    <3> HIDE DEF M, I, C, D, F, W
    <3>. QED  BY <1>0, <1>3, ScanFields DEF ScanRecords
  <2> HIDE DEF T, I, C, D, W
  <2>2. \A a \in Artifacts : TrueBatch(F[a], a)
    <3> SUFFICES ASSUME NEW a \in Artifacts, F[a] # None PROVE TrueBatch(F[a], a)
        BY DEF TrueBatch
    <3>1. \E b \in cache : b.artifact = a /\ b.batch = F[a]
      BY ZenonT(30), <1>0, FromCacheType
    <3>. QED  BY <3>1 DEF ExactInv, BatchesTrue
  <2>3. \A a \in Artifacts : M[a] = scan.fps[a] \/ M[a] = store.fps[a]
    BY MergedType
  <2>4. \A a \in Artifacts : ~scan.partial \/ RepoOf[a] \in scan.scope => M[a] = scan.fps[a]
    BY MergedType
  <2> HIDE DEF M, F
  <2>5. ScopeKnown'
    BY ZenonT(30), <1>0, <2>1, <2>4, FitsKept DEF ExactInv, ScopeKnown, Planned
  <2>6. NeverReturns(setting) =>
           \A b \in Artifacts : scan'.fps[b] # None /\ scan'.fps[b].hash # None =>
             Leads(setting, scan'.fps[b].hash, disk[b])
    BY <2>1, <2>3 DEF ExactInv, HashesLead
  <2>. QED  BY <1>0, <1>3, <2>1, <2>2, <2>5, <2>6, ScanOnlyExact DEF ExactInv, BatchesTrue
<1>. QED  BY <1>1, <1>2, <1>3, PlanCases DEF Become

LEMMA ReuseExact ==
  ASSUME ScanInv, ExactInv, NEW a \in Artifacts, ReuseBatch(a)
  PROVE  BatchesTrue' /\ HashesLead' /\ DeclaredTrue' /\ ScopeKnown' /\ ScanIsExact'
<1> DEFINE U == IF Published(a) THEN scan.unpublished ELSE scan.unpublished \cup {a}
           B == Reusable(a)
           T == [scan EXCEPT !.todo = @ \ {a}, !.batches[a] = B, !.unpublished = U]
<1>0. /\ TypeOK /\ Planned /\ scan.step = "extract" /\ scan' = T /\ B # None
      /\ UNCHANGED <<setting, disk, config, store, cache, settled>>
  BY DEF ScanInv, ReuseBatch, Become, Planned
<1>1. TrueBatch(B, a)
  BY <1>0, ReusableFits DEF ExactInv, BatchesTrue
<1> HIDE DEF U, B
<1>2. /\ scan'.batches = [scan.batches EXCEPT ![a] = B] /\ scan'.step = "extract"
      /\ scan'.fps = scan.fps /\ scan'.found = scan.found
      /\ scan'.partial = scan.partial /\ scan'.scope = scan.scope
      /\ scan'.quiet = scan.quiet
  BY <1>0, ScanFields DEF ScanRecords
<1> HIDE DEF T
<1>3. \A x \in Artifacts : TrueBatch(scan'.found[x], x) /\ TrueBatch(scan'.batches[x], x)
  BY <1>0, <1>1, <1>2, ScanFields DEF ExactInv, BatchesTrue
<1>4. ScopeKnown'
  BY ZenonT(30), <1>0, <1>2, FitsKept DEF ExactInv, ScopeKnown, Planned
<1>. QED  BY <1>0, <1>2, <1>3, <1>4, ScanOnlyExact DEF ExactInv, HashesLead

LEMMA ExtractExact ==
  ASSUME HashesTell, ScanInv, ExactInv, NEW a \in Artifacts, ExtractFile(a)
  PROVE  BatchesTrue' /\ HashesLead' /\ DeclaredTrue' /\ ScopeKnown' /\ ScanIsExact'
<1>0. /\ TypeOK /\ PlanInv /\ HashInv /\ Planned /\ Waiting = scan.todo
      /\ a \in scan.todo /\ scan.step = "extract"
      /\ UNCHANGED <<setting, disk, config, store, cache, settled>>
  BY DEF ScanInv, ExtractFile, Become, Planned, Waiting
<1>1. CASE disk[a] \in Absent
  <2>1. scan' = [scan EXCEPT !.step = "checkpoint", !.failed = TRUE]
    BY <1>1 DEF ExtractFile, Become
  <2>2. /\ scan'.batches = scan.batches /\ scan'.step = "checkpoint"
        /\ scan'.fps = scan.fps /\ scan'.found = scan.found
        /\ scan'.partial = scan.partial /\ scan'.scope = scan.scope
        /\ scan'.quiet = scan.quiet
    BY <1>0, <2>1, ScanFields DEF ScanRecords
  <2>3. ScopeKnown'
    BY ZenonT(30), <1>0, <2>2, FitsKept DEF ExactInv, ScopeKnown, Planned
  <2>. QED  BY <1>0, <2>2, <2>3, ScanOnlyExact DEF ExactInv, HashesLead, BatchesTrue
<1>2. CASE disk[a] \notin Absent
  <2> DEFINE B == Batch(scan.fps[a], scan.config.budget, disk[a])
             T == [scan EXCEPT !.todo = @ \ {a}, !.batches[a] = B,
                               !.unpublished = @ \cup {a}]
  <2>1. scan' = T
    BY <1>2 DEF ExtractFile, Become
  <2>2. /\ a \in Focused /\ scan.fps[a] # None /\ scan.fps[a].hash \in Contents
    BY <1>0, ScanFields DEF PlanInv, HashInv, Planned, Fingerprints
  <2>3. Fits(scan.fps[a].hash, disk[a], a)
    <3>1. CASE NeverReturns(setting)
      BY <2>2, <3>1, LeadsFacts, ScanAssumption DEF ExactInv, HashesLead, Fits
    <3>2. CASE ~NeverReturns(setting)
      <4>1. ~Concurrent /\ SizeInv /\ scan.quiet
        BY <1>0, <3>2 DEF HashesTell, TypeOK, Concurrent, ExactInv, ScopeKnown
      <4>2. RepoOf[a] \in scan.scope
        <5>1. CASE ~scan.partial
          BY <1>0, <5>1, ScanAssumption DEF ExactInv, ScopeKnown
        <5>2. CASE scan.partial
          <6> SUFFICES ASSUME RepoOf[a] \notin scan.scope PROVE FALSE
              OBVIOUS
          <6>1. scan.found[a] = None /\ Matches(store.batches[a], scan.fps[a])
            BY <1>0, <2>2, <4>1, <5>2 DEF SizeInv, OthersReused
          <6>2. ~Matches(scan.found[a], scan.fps[a])
            BY <6>1 DEF Matches
          <6>3. a \notin scan.changed
            <7>1. scan.fps[a] = store.fps[a]
              BY <1>0, <5>2 DEF PlanInv
            <7>2. PreviousFingerprints[a] = store.fps[a]
              BY DEF PreviousFingerprints
            <7>. QED  BY SMTT(30), <7>1, <7>2, <1>0, <2>2 DEF PlanInv, Changed
          <6>4. Reusable(a) = store.batches[a]
            BY <6>1, <6>2, <6>3 DEF Reusable
          <6>. QED  BY <6>1, <6>4 DEF Matches, ExtractFile
        <5>. QED  BY <5>1, <5>2
      <4>3. scan.fps[a].hash = disk[a]
        BY <1>0, <2>2, <4>1, <4>2, ScanAssumption DEF ExactInv, ScopeKnown
      <4>. QED  BY <4>3 DEF Fits
    <3>. QED  BY <3>1, <3>2
  <2>4. TrueBatch(B, a)
    BY <2>2, <2>3 DEF TrueBatch, Batch
  <2> HIDE DEF B
  <2>5. /\ scan'.batches = [scan.batches EXCEPT ![a] = B] /\ scan'.step = "extract"
        /\ scan'.fps = scan.fps /\ scan'.found = scan.found
        /\ scan'.partial = scan.partial /\ scan'.scope = scan.scope
        /\ scan'.quiet = scan.quiet
    BY <1>0, <2>1, ScanFields DEF ScanRecords
  <2> HIDE DEF T
  <2>6. \A x \in Artifacts : TrueBatch(scan'.found[x], x) /\ TrueBatch(scan'.batches[x], x)
    BY <1>0, <2>4, <2>5, ScanFields DEF ExactInv, BatchesTrue
  <2>7. ScopeKnown'
    BY ZenonT(30), <1>0, <2>5, FitsKept DEF ExactInv, ScopeKnown, Planned
  <2>. QED  BY <1>0, <2>5, <2>6, <2>7, ScanOnlyExact DEF ExactInv, HashesLead
<1>. QED  BY <1>1, <1>2

LEMMA CheckpointExact ==
  ASSUME ScanInv, ExactInv, WriteCheckpoints
  PROVE  BatchesTrue' /\ HashesLead' /\ DeclaredTrue' /\ ScopeKnown' /\ ScanIsExact'
<1>0. /\ TypeOK /\ Planned /\ UNCHANGED <<setting, disk, config, store, settled>>
      /\ Declared \subseteq Artifacts
  BY SettingFacts DEF ScanInv, WriteCheckpoints, Planned, TypeOK
<1>1. \A b \in cache' : TrueBatch(b.batch, b.artifact)
  <2> SUFFICES ASSUME NEW b \in FreshBatches \cup cache
               PROVE  TrueBatch(b.batch, b.artifact)
      BY DEF WriteCheckpoints
  <2>1. CASE b \in FreshBatches
    <3>1. b.artifact \in Artifacts /\ b.batch = scan.batches[b.artifact]
      BY <1>0, <2>1, FreshType
    <3>. QED  BY <3>1 DEF ExactInv, BatchesTrue
  <2>. QED  BY <2>1 DEF ExactInv, BatchesTrue
<1>2. CASE scan.failed
  <2>1. scan' = Idle
    BY <1>2 DEF WriteCheckpoints
  <2>. QED  BY <1>0, <1>1, <2>1, EndExact, ExactKept DEF ExactInv
<1>3. CASE ~scan.failed
  <2>1. scan' = [scan EXCEPT !.step = "assemble", !.todo = Declared]
    BY <1>3 DEF WriteCheckpoints
  <2>2. /\ scan'.batches = scan.batches /\ scan'.step = "assemble"
        /\ scan'.fps = scan.fps /\ scan'.found = scan.found /\ scan'.todo = Declared
        /\ scan'.partial = scan.partial /\ scan'.scope = scan.scope
        /\ scan'.quiet = scan.quiet
    BY <1>0, <2>1, ScanFields DEF ScanRecords
  <2>3. ScopeKnown'
    BY ZenonT(30), <1>0, <2>2, FitsKept DEF ExactInv, ScopeKnown, Planned
  <2>4. BatchesTrue'
    BY SMTT(30), <1>0, <1>1, <2>2, FitsKept DEF ExactInv, BatchesTrue, TrueBatch, Fits
  <2>5. HashesLead'
    BY <1>0, <2>2, FitsKept DEF ExactInv, HashesLead
  <2>6. DeclaredTrue'
    BY <1>0, <2>2, FitsKept DEF ExactInv, DeclaredTrue, Fits
  <2>. QED  BY <1>0, <2>3, <2>4, <2>5, <2>6, ExactKept DEF ExactInv
<1>. QED  BY <1>2, <1>3

LEMMA DeclaredExact ==
  ASSUME HashesTell, ScanInv, ExactInv, NEW a \in Artifacts, ReadDeclared(a)
  PROVE  BatchesTrue' /\ HashesLead' /\ DeclaredTrue' /\ ScopeKnown' /\ ScanIsExact'
<1>0. /\ TypeOK /\ HashInv /\ Planned /\ UNCHANGED <<setting, disk, store, cache, settled>>
      /\ scan.step = "assemble" /\ Declared \subseteq Artifacts
  BY SettingFacts DEF ScanInv, ReadDeclared, Fail, Become, Planned, TypeOK
<1>1. CASE scan' = Idle
  BY <1>0, <1>1, EndExact, ExactKept DEF ExactInv, BatchesTrue
<1>2. CASE scan' # Idle
  <2>1. /\ scan' = [scan EXCEPT !.todo = @ \ {a}, !.facts[a] = disk[a]]
        /\ disk[a] \notin Absent /\ disk[a] \in Contents
    BY <1>0, <1>2 DEF ReadDeclared, Fail, Become, TypeOK
  <2>2. /\ scan'.batches = scan.batches /\ scan'.step = "assemble"
        /\ scan'.fps = scan.fps /\ scan'.found = scan.found
        /\ scan'.todo = scan.todo \ {a}
        /\ scan'.facts = [scan.facts EXCEPT ![a] = disk[a]]
        /\ scan'.partial = scan.partial /\ scan'.scope = scan.scope
        /\ scan'.quiet = scan.quiet
    BY <1>0, <2>1, ScanFields DEF ScanRecords
  <2>3. ScopeKnown'
    BY SMTT(30), <1>0, <2>2, FitsKept DEF ExactInv, ScopeKnown, Planned
  <2>4. a \in Declared /\ scan.fps[a] # None => Fits(scan.fps[a].hash, disk[a], a)
    <3> SUFFICES ASSUME a \in Declared, scan.fps[a] # None
                 PROVE  Fits(scan.fps[a].hash, disk[a], a)
        OBVIOUS
    <3>1. NeverReturns(setting)
      BY <1>0 DEF HashesTell, TypeOK, Declared
    <3>2. scan.fps[a].hash # None
      BY <1>0 DEF HashInv
    <3>. QED  BY <3>1, <3>2, LeadsFacts DEF ExactInv, HashesLead, Fits
  <2>5. \A x \in Declared : scan'.step = "assemble" /\ x \notin scan'.todo =>
           /\ scan'.facts[x] \in Contents
           /\ scan'.fps[x] # None => Fits(scan'.fps[x].hash, scan'.facts[x], x)
           /\ scan'.quiet => scan'.facts[x] = disk[x] /\ disk[x] \notin Absent
    <3> SUFFICES ASSUME NEW x \in Declared, x \notin scan'.todo
                 PROVE  /\ scan'.facts[x] \in Contents
                        /\ scan.fps[x] # None => Fits(scan.fps[x].hash, scan'.facts[x], x)
                        /\ scan.quiet => scan'.facts[x] = disk[x] /\ disk[x] \notin Absent
        BY <2>2
    <3>1. CASE x = a
      BY SMTT(30), <1>0, <2>1, <2>2, <2>4, <3>1, ScanFields
    <3>2. CASE x # a
      BY <1>0, <2>2, <3>2, ScanFields DEF ExactInv, DeclaredTrue
    <3>. QED  BY <3>1, <3>2
  <2>. QED  BY <1>0, <2>2, <2>3, <2>5, ScanOnlyExact DEF ExactInv, HashesLead, BatchesTrue
<1>. QED  BY <1>1, <1>2

LEMMA PublishExact ==
  ASSUME ScanInv, ExactInv, PublishScan
  PROVE  BatchesTrue' /\ HashesLead' /\ DeclaredTrue' /\ ScopeKnown' /\ ScanIsExact'
<1> DEFINE P == PublishedRows(store.fps, scan.fps, scan.changed)
<1>0. /\ TypeOK /\ HashInv /\ PlanInv /\ Planned /\ scan.step = "assemble"
      /\ scan.todo = {} /\ Waiting = {} /\ Declared \subseteq Artifacts
      /\ scan' = Idle /\ Settle /\ UNCHANGED <<setting, disk, config, cache>>
  BY SettingFacts DEF ScanInv, Planned, PublishScan, Waiting, TypeOK
<1>1. store' = [id |-> scan.id, fps |-> P, batches |-> scan.batches, facts |-> Facts]
  BY <1>0, DeltaLeavesCandidate DEF PublishScan
<1>2. \A a \in Artifacts : /\ (P[a] = None) = (scan.fps[a] = None)
                           /\ P[a] # None => P[a].hash = scan.fps[a].hash
  BY <1>0, DeltaLeavesCandidate
<1> HIDE DEF P
<1>3. \A a \in Artifacts : scan.fps[a] # None => scan.fps[a].hash # None
  BY <1>0 DEF HashInv, Planned
<1>4. BatchesTrue'
  <2>1. \A a \in Artifacts : scan'.found[a] = None /\ scan'.batches[a] = None
    BY <1>0 DEF Idle, Nothing
  <2>. QED  BY <1>0, <1>1, <2>1, FitsKept DEF ExactInv, BatchesTrue, TrueBatch, Fits
<1>5. HashesLead'
  <2>1. \A a \in Artifacts : scan'.fps[a] = None
    BY <1>0 DEF Idle, Nothing
  <2>. QED  BY <1>0, <1>1, <1>2, <1>3, <2>1, FitsKept DEF ExactInv, HashesLead
<1>6. DeclaredTrue'
  <2>1. \A a \in Declared : Facts[a] = scan.facts[a]
    BY <1>0 DEF Facts
  <2>2. scan'.step = "idle"
    BY <1>0 DEF Idle
  <2>3. \A a \in Declared :
          /\ scan.facts[a] \in Contents
          /\ scan.fps[a] # None => Fits(scan.fps[a].hash, scan.facts[a], a)
    BY <1>0 DEF ExactInv, DeclaredTrue
  <2>. QED  BY <1>0, <1>1, <1>2, <2>1, <2>2, <2>3, FitsKept DEF DeclaredTrue, Fits
<1>7. ScopeKnown'
  BY <1>0 DEF ScopeKnown, Idle
<1>8. ScanIsExact'
  <2>1. CASE ~scan.quiet
    BY <1>0, <2>1 DEF Settle, ScanIsExact
  <2>2. CASE scan.quiet
    <3> SUFFICES ASSUME NEW a \in Artifacts, RepoOf[a] \in scan.scope
                 PROVE  Facts[a] = IF disk[a] \in Absent THEN None ELSE disk[a]
        BY <1>0, <1>1, <2>2 DEF Settle, ScanIsExact
    <3>1. IF scan.fps[a] = None THEN disk[a] \in Absent /\ a \notin Declared
          ELSE scan.fps[a].hash = disk[a] /\ disk[a] \notin Absent
      BY <1>0, <1>3, <2>2 DEF ExactInv, ScopeKnown
    <3>2. CASE a \in Declared
      BY <1>0, <2>2, <3>2 DEF ExactInv, DeclaredTrue, Facts
    <3>3. CASE a \in Focused /\ scan.fps[a] = None
      <4>1. scan.batches[a] = None
        BY <1>0, <3>3 DEF PlanInv
      <4>. QED  BY <3>1, <3>3, <4>1 DEF Facts
    <3>4. CASE a \in Focused /\ scan.fps[a] # None
      <4>1. scan.batches[a] # None /\ scan.batches[a].source.hash = disk[a]
        BY <1>0, <3>1, <3>4 DEF PlanInv, Matches
      <4>2. scan.batches[a].payload \in Contents /\ disk[a] \in Contents
        BY <1>0, <4>1, ScanFields DEF Batches, TypeOK
      <4>3. scan.batches[a].payload = disk[a]
        BY <4>1, <4>2, FitsPresent DEF ExactInv, BatchesTrue, TrueBatch
      <4>. QED  BY <3>1, <3>4, <4>1, <4>3 DEF Facts, Focused
    <3>. QED  BY <3>2, <3>3, <3>4 DEF Focused
  <2>. QED  BY <2>1, <2>2
<1>. QED  BY <1>4, <1>5, <1>6, <1>7, <1>8

LEMMA NextExactInv ==
  ASSUME HashesTell, ScanInv, ExactInv, [Next]_vars
  PROVE  ExactInv'
<1>1. UNCHANGED setting /\ Concurrent' = Concurrent
  <2>1. CASE PlanScan
    BY <2>1, PlanCases DEF Fail, Become, Concurrent
  <2>2. CASE ~PlanScan
    BY <2>2 DEF Next, vars, EditFile, EditConfig, StartScan, StatFile, HashFile,
         ReuseBatch, ExtractFile, WriteCheckpoints, ReadDeclared, PublishScan,
         AbandonScan, Fail, Become, Concurrent
  <2>. QED  BY <2>1, <2>2
<1>2. ~Concurrent' => SizeInv'
  <2> SUFFICES ASSUME ~Concurrent PROVE SizeInv'
      BY <1>1
  <2>1. SizesKeptIn(setting)
    BY DEF SizesKeptIn, Concurrent
  <2>. QED  BY <2>1, NextSizeInv DEF ExactInv
<1>3. BatchesTrue' /\ HashesLead' /\ DeclaredTrue' /\ ScopeKnown' /\ ScanIsExact'
  <2>1. CASE UNCHANGED vars \/ EditConfig
    <3>1. UNCHANGED <<setting, disk, store, cache, scan>> /\ settled' \subseteq settled
      BY <2>1 DEF vars, EditConfig
    <3>2. ScopeKnown'
      BY <3>1, FitsKept DEF ExactInv, ScopeKnown, Planned
    <3>. QED  BY <3>1, <3>2, ScanOnlyExact DEF ExactInv, BatchesTrue, HashesLead, DeclaredTrue
  <2>2. CASE AbandonScan
    <3>1. scan' = Idle /\ UNCHANGED <<setting, disk, store, cache, settled>>
      BY <2>2 DEF AbandonScan, Fail, Become
    <3>. QED  BY <3>1, EndExact, ExactKept DEF ExactInv, BatchesTrue
  <2>. QED  BY <2>1, <2>2, EditExact, StartExact, StatExact, HashExact, PlanExact,
            ReuseExact, ExtractExact, CheckpointExact, DeclaredExact, PublishExact
            DEF Next
<1>. QED  BY <1>2, <1>3 DEF ExactInv

(* "incremental and full scans publish identical graphs": in a workspace whose files
   never return to an earlier content, whatever is edited during scans, and in one
   without OpenAPI documents whose files rest while a scan runs, a scan during which
   nothing changed leaves exactly the facts of the files of its scope, whatever
   earlier scans, crashes and checkpoints left behind. *)
THEOREM ScansAreExact ==
  ASSUME HashesTell
  PROVE  Spec => []ScanIsExact
<1>1. Init => ScanInv /\ ExactInv
  BY InitScanInv, InitExactInv
<1>2. ScanInv /\ ExactInv /\ [Next]_vars => (ScanInv /\ ExactInv)'
  BY NextScanInv, NextExactInv
<1>3. ExactInv => ScanIsExact
  BY DEF ExactInv
<1>. QED  BY <1>1, <1>2, <1>3, PTL DEF Spec

=============================================================================
