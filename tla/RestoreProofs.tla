---------------------------- MODULE RestoreProofs ----------------------------
(***************************************************************************)
(* Proofs about Restore for every set of restores and stores and every     *)
(* behaviour of other programs, deaths of the processes included.          *)
(*                                                                         *)
(* RestoreInv says, in the order of its conjuncts: what the state is made  *)
(* of; that every content is one that was written, so that a new write     *)
(* differs from all that were ever seen; that a safety copy and its        *)
(* staging never share a file with the database, a staged or displaced     *)
(* file or an open connection; that the restore between LockWriter and its *)
(* return has the writer lock and the access lock; how far each restore    *)
(* has come; and that without deaths no two names of the database, staged  *)
(* and displaced files are names of one file.                              *)
(***************************************************************************)
EXTENDS Restore, TLAPS

\* Zenon finds the steps that name no other prover.
USE Zenon

\* The steps of restore_from under the writer lock.
Busy == {"existing", "before", "copying", "copied", "link", "linked", "stage",
         "staged", "compare", "create", "exchange", "displaced", "back", "clean"}

RestorePcs == Busy \cup {"idle", "checked", "locked", "ok", "failed", "crashed"}

SnapshotRecords == [file : Nat, content : Nat \cup {None}]

RestorerRecords == [pc : RestorePcs, before : SnapshotRecords, safe : Nat,
                    took : Nat \cup {None}]

StoreRecords == [pc : {"closed", "checked", "locked", "open"}, file : Nat]

\* What the variables hold.  Names are those of files that were created.
FileTypes ==
  /\ \E m \in Nat : data \in [1..m -> Nat]
  /\ dest \in DOMAIN data \cup {NoFile}
  /\ stage \in [Restorers -> DOMAIN data \cup {NoFile}]
  /\ copy \in [Restorers -> DOMAIN data \cup {NoFile}]
  /\ safety \in [Safeties -> DOMAIN data \cup {NoFile}]
  /\ stamp \in Original .. Original + MaxWrites
  /\ outside \in Nat

LockTypes ==
  /\ access \in [Processes -> {"none", "shared", "exclusive"}]
  /\ writer \in Restorers \cup {None}
  /\ guard # None => guard.holder \in Restorers /\ guard.file \in DOMAIN data

StoreTypes ==
  /\ store \in [Stores -> StoreRecords]
  /\ \A s \in Stores : /\ store[s].file \in DOMAIN data \cup {NoFile}
                       /\ store[s].pc = "open" => store[s].file \in DOMAIN data

TypeInv ==
  /\ FileTypes
  /\ LockTypes
  /\ StoreTypes
  /\ restorer \in [Restorers -> RestorerRecords]

\* The contents written so far.
Used(content) ==
  \/ content <= stamp
  \/ content > Original + MaxWrites /\ content <= Original + MaxWrites + outside

ContentInv ==
  /\ \A f \in DOMAIN data : Used(data[f])
  /\ \A r \in Restorers :
       restorer[r].before # NoSnapshot =>
         restorer[r].before.content \in Nat /\ Used(restorer[r].before.content)

\* f is neither the database nor a staged, displaced or opened file.
Aside(f) ==
  /\ f # dest
  /\ \A r \in Restorers : f # stage[r]
  /\ \A s \in Stores : f # store[s].file

ApartInv ==
  /\ \A r \in Restorers : copy[r] # NoFile => Aside(copy[r])
  /\ \A k \in Safeties : safety[k] # NoFile => Aside(safety[k])

LocksInv ==
  \A r \in Restorers :
    /\ restorer[r].pc \in Busy => writer = r
    /\ restorer[r].pc \in Busy \cup {"locked"} => access[r] = "exclusive"

\* The safety copy of r is where r said, and holds what r read.
SavedBefore(r) ==
  /\ restorer[r].safe \in Safeties
  /\ safety[restorer[r].safe] # NoFile
  /\ data[safety[restorer[r].safe]] = restorer[r].before.content

\* The staged file of r has no other name and no connection.
OwnStage(r) ==
  /\ stage[r] # NoFile
  /\ stage[r] # dest
  /\ \A q \in Restorers : q # r => stage[q] # stage[r]
  /\ \A s \in Stores : store[s].file # stage[r]

BeforeInv(r) ==
  /\ restorer[r].pc \in {"idle", "checked", "locked", "existing", "before", "create"} =>
       restorer[r].before = NoSnapshot
  /\ restorer[r].pc \in {"compare", "exchange", "displaced"} =>
       restorer[r].before # NoSnapshot
  /\ restorer[r].took # None =>
       restorer[r].before # NoSnapshot
       /\ restorer[r].pc \in {"displaced", "back", "clean", "ok", "failed", "crashed"}

CopyInv(r) ==
  /\ restorer[r].pc \in {"copying", "copied", "link", "linked"} =>
       restorer[r].safe \in Safeties
  /\ restorer[r].pc \in {"copied", "link", "linked"} => copy[r] # NoFile
  /\ restorer[r].pc \in {"copied", "link"} =>
       \A k \in Safeties : safety[k] # copy[r]
  /\ restorer[r].pc \in {"link", "linked"} => data[copy[r]] # Partial
  /\ restorer[r].pc = "linked" => safety[restorer[r].safe] = copy[r]

SavedInv(r) ==
  restorer[r].pc \in {"stage", "staged", "compare", "exchange", "displaced",
                      "clean", "ok"}
  /\ restorer[r].before # NoSnapshot => SavedBefore(r)

StageInv(r) ==
  /\ restorer[r].pc \in {"staged", "compare", "exchange", "create"} => OwnStage(r)
  /\ restorer[r].pc \in {"compare", "exchange", "create"} =>
       data[stage[r]] = Backup

\* Until it is compared, a displaced file that was written since is
\* distinguished by its content from the file that was saved.
DisplacedInv(r) ==
  /\ restorer[r].pc \in {"displaced", "back"} =>
       /\ stage[r] # NoFile /\ data[stage[r]] # Partial
       /\ restorer[r].took # None
  /\ restorer[r].pc = "displaced" =>
       \/ data[stage[r]] = restorer[r].took
       \/ data[stage[r]] # restorer[r].before.content
  /\ restorer[r].pc \in {"clean", "ok"} /\ restorer[r].took # None =>
       restorer[r].took = restorer[r].before.content

RestorerInv(r) ==
  BeforeInv(r) /\ CopyInv(r) /\ SavedInv(r) /\ StageInv(r) /\ DisplacedInv(r)

\* Without deaths the files with names are distinct.
DistinctInv ==
  (\A r \in Restorers : restorer[r].pc # "crashed") =>
    \A r \in Restorers : stage[r] # NoFile =>
      /\ stage[r] = dest => restorer[r].pc = "clean"
      /\ \A q \in Restorers : q # r => stage[q] # stage[r]

\* The inductive invariant.
RestoreInv ==
  /\ TypeInv
  /\ WholeFiles
  /\ ContentInv
  /\ ApartInv
  /\ LocksInv
  /\ \A r \in Restorers : RestorerInv(r)
  /\ DistinctInv

\* Every process keeps its access lock in the same directory.
OneLockDirectory ==
  \A p, q \in Processes : LockDirectory[p] = LockDirectory[q]

\* No process has the lock while another one has it for itself.
AccessInv ==
  \A p, q \in Processes :
    p # q /\ access[p] = "exclusive" => access[q] = "none"

\* A store with an open connection has the lock.
OpenInv ==
  \A s \in Stores : store[s].pc \in {"locked", "open"} => access[s] = "shared"


-----------------------------------------------------------------------------
(***************************************************************************)
(* Files and records                                                       *)
(***************************************************************************)
\* How the numbers of the files are counted (proved as IntervalsAreCounted).
IntervalsCount == \A m \in Nat : Cardinality(1..m) = m

\* Files are numbered from 1, and no file is NoFile.
LEMMA FilesNumbered ==
  ASSUME IntervalsCount, FileTypes
  PROVE  /\ NoFile \notin DOMAIN data
         /\ File \notin DOMAIN data /\ File \in Nat /\ File # NoFile
         /\ \A f \in DOMAIN data : f \in Nat /\ data[f] \in Nat
  <1>1. PICK m \in Nat : data \in [1..m -> Nat]
    BY  DEF FileTypes
  <1>2. DOMAIN data = 1..m
    BY <1>1
  <1>3. Cardinality(1..m) = m
    BY DEF IntervalsCount
  <1>4. File = m + 1
    BY <1>2, <1>3 DEF File
  <1> QED BY SMTT(30), <1>1, <1>2, <1>4 DEF NoFile

\* A new file is a new number; the others stay as they are.
LEMMA CreateFacts ==
  ASSUME IntervalsCount, FileTypes, NEW c \in Nat, Create(c)
  PROVE  /\ \E m \in Nat : data' \in [1..m -> Nat]
         /\ DOMAIN data' = DOMAIN data \cup {File}
         /\ data'[File] = c
         /\ \A f \in DOMAIN data : data'[f] = data[f]
  <1>1. PICK m \in Nat : data \in [1..m -> Nat]
    BY  DEF FileTypes
  <1>2. DOMAIN data = 1..m
    BY <1>1
  <1>3. Cardinality(1..m) = m
    BY DEF IntervalsCount
  <1>4. File = m + 1
    BY <1>2, <1>3 DEF File
  <1>5. DOMAIN data \cup {File} = 1..(m + 1)
    BY SMTT(30), <1>2, <1>4
  <1>6. data' = [i \in 1..(m + 1) |-> IF i = File THEN c ELSE data[i]]
    BY <1>5 DEF Create
  <1>7. data' \in [1..(m + 1) -> Nat]
    BY SMTT(30), <1>1, <1>4, <1>6
  <1>8. m + 1 \in Nat
    BY SMTT(30)
  <1>9. data'[File] = c /\ \A f \in DOMAIN data : data'[f] = data[f]
    BY SMTT(30), <1>2, <1>4, <1>6
  <1> HIDE DEF File
  <1> QED BY <1>5, <1>6, <1>7, <1>8, <1>9

\* A write changes one file.
LEMMA WriteFacts ==
  ASSUME FileTypes, NEW f \in DOMAIN data, NEW c \in Nat,
         data' = [data EXCEPT ![f] = c]
  PROVE  /\ \E m \in Nat : data' \in [1..m -> Nat]
         /\ DOMAIN data' = DOMAIN data
         /\ data'[f] = c
         /\ \A g \in DOMAIN data : g # f => data'[g] = data[g]
  <1>1. PICK m \in Nat : data \in [1..m -> Nat]
    BY  DEF FileTypes
  <1>2. data' \in [1..m -> Nat]
    BY <1>1
  <1> QED BY <1>1, <1>2

\* The record of r changes to one with these fields.
Becomes(r, pc, before, safe, took) ==
  /\ restorer' \in [Restorers -> RestorerRecords]
  /\ restorer'[r].pc = pc
  /\ restorer'[r].before = before
  /\ restorer'[r].safe = safe
  /\ restorer'[r].took = took
  /\ \A q \in Restorers : q # r => restorer'[q] = restorer[q]

\* r goes to another step and keeps the rest of its record.
LEMMA PcBecomes ==
  ASSUME TypeInv, NEW r \in Restorers, NEW p \in RestorePcs, Pc(r, p)
  PROVE  Becomes(r, p, restorer[r].before, restorer[r].safe, restorer[r].took)
  <1> DEFINE n == [restorer[r] EXCEPT !.pc = p]
  <1>1. restorer[r] \in RestorerRecords
    BY DEF TypeInv
  <1>2. n \in RestorerRecords
    BY <1>1 DEF RestorerRecords
  <1>3. /\ n.pc = p /\ n.before = restorer[r].before
        /\ n.safe = restorer[r].safe /\ n.took = restorer[r].took
    BY <1>1 DEF RestorerRecords
  <1>4. restorer' = [restorer EXCEPT ![r] = n]
    BY DEF Pc
  <1> HIDE DEF n
  <1> QED BY <1>2, <1>3, <1>4 DEF TypeInv, Becomes

\* A content that is used stays used.
LEMMA UsedStays ==
  ASSUME FileTypes, NEW c \in Nat, Used(c), stamp' \in Nat, stamp' >= stamp,
         outside' \in Nat, outside' >= outside
  PROVE  Used(c)'
  <1>1. Original \in Nat /\ MaxWrites \in Nat /\ stamp \in Nat /\ outside \in Nat
    BY SMTT(30), RestoreAssumption DEF FileTypes, Original
  <1>2. CASE c <= stamp
    <2>1. c <= stamp'
      BY SMTT(30), <1>1, <1>2
    <2> QED BY <2>1 DEF Used
  <1>3. CASE c > Original + MaxWrites /\ c <= Original + MaxWrites + outside
    <2>1. PICK o \in Nat, p \in Nat : o = outside /\ p = outside'
      BY <1>1
    <2>2. o <= p /\ c <= Original + MaxWrites + o
      BY <1>3, <2>1
    <2>3. c <= Original + MaxWrites + p
      BY SMTT(30), <1>1, <2>2
    <2> QED BY <1>3, <2>1, <2>3 DEF Used
  <1> QED BY <1>2, <1>3 DEF Used

\* What the next publication and the next outside write put into a file was
\* never written before.
LEMMA NewContents ==
  ASSUME FileTypes
  PROVE  /\ stamp + 1 \in Nat /\ Original + MaxWrites + 1 + outside \in Nat
         /\ stamp < Original + MaxWrites => ~Used(stamp + 1)
         /\ ~Used(Original + MaxWrites + 1 + outside)
         /\ Used(Partial) /\ Used(Backup) /\ Used(Corrupt)
  <1>1. MaxWrites \in Nat /\ outside \in Nat
        /\ stamp \in Original .. Original + MaxWrites
    BY RestoreAssumption DEF FileTypes
  <1> QED BY SMTT(30), <1>1 DEF Used, Original, Partial, Backup, Corrupt


-----------------------------------------------------------------------------
(***************************************************************************)
(* Steps of stores and of other programs                                   *)
(***************************************************************************)
\* The files that stores and other programs write.
Writable(f) ==
  \/ f = dest
  \/ \E r \in Restorers : stage[r] = f /\ Exchanged(r)
  \/ \E s \in Stores : store[s].file = f

\* They write new contents into such files, make files, and remove the
\* database; the names of staged files and of safety copies are not theirs.
WorldStep ==
  /\ UNCHANGED <<stage, copy, safety, restorer, writer, guard>>
  /\ \A r \in Restorers : access'[r] = access[r]
  /\ dest' = dest \/ dest' \notin DOMAIN data
  /\ \A s \in Stores : \/ store'[s].file \in {store[s].file, dest}
                       \/ store'[s].file \notin DOMAIN data
  /\ DOMAIN data \subseteq DOMAIN data'
  /\ \A f \in DOMAIN data :
       data'[f] = data[f] \/ (Writable(f) /\ ~Used(data'[f]))
  /\ \A f \in DOMAIN data' : f \notin DOMAIN data => data'[f] # Partial
  /\ stamp' \in Nat /\ stamp' >= stamp
  /\ outside' \in Nat /\ outside' >= outside

\* A file that is aside is not written and stays aside.
LEMMA AsideStays ==
  ASSUME RestoreInv, WorldStep, NEW f \in DOMAIN data, Aside(f)
  PROVE  Aside(f)' /\ data'[f] = data[f]
  <1>1. Aside(f)'
    BY DEF Aside, WorldStep
  <1>2. ~Writable(f)
    BY DEF Aside, Writable
  <1> QED BY <1>1, <1>2 DEF WorldStep

\* How far a restore has come is not changed by others.
LEMMA WorldKeepsRestorer ==
  ASSUME IntervalsCount, RestoreInv, WorldStep, NEW r \in Restorers
  PROVE  RestorerInv(r)'
  <1>1. /\ UNCHANGED <<stage, copy, safety, restorer>>
        /\ RestorerInv(r)
    BY DEF WorldStep, RestoreInv
  <1>2. /\ stage[r] # NoFile => stage[r] \in DOMAIN data
        /\ copy[r] # NoFile => copy[r] \in DOMAIN data
        /\ \A k \in Safeties : safety[k] # NoFile => safety[k] \in DOMAIN data
        /\ Used(Partial) /\ NoFile \notin DOMAIN data
    BY FilesNumbered, NewContents DEF RestoreInv, TypeInv, FileTypes
  <1>3. /\ copy[r] # NoFile => data'[copy[r]] = data[copy[r]]
        /\ \A k \in Safeties : safety[k] # NoFile =>
             data'[safety[k]] = data[safety[k]]
    BY <1>2, AsideStays DEF RestoreInv, ApartInv
  <1>4. BeforeInv(r)'
    BY <1>1 DEF RestorerInv, BeforeInv, NoSnapshot, NoFile
  <1>5. CopyInv(r)'
    BY <1>1, <1>3 DEF RestorerInv, CopyInv, NoFile, Partial
  <1>6. SavedInv(r)'
    BY <1>1, <1>3 DEF RestorerInv, SavedInv, SavedBefore, NoSnapshot, NoFile
  <1>7. StageInv(r)'
    <2>1. ASSUME OwnStage(r), restorer[r].took = None
          PROVE  OwnStage(r)' /\ data'[stage[r]] = data[stage[r]]
      <3>1. stage[r] \in DOMAIN data
        BY <1>2, <2>1 DEF OwnStage
      <3>2. OwnStage(r)'
        BY <1>1, <2>1, <3>1 DEF OwnStage, WorldStep, NoFile
      <3>3. ~Writable(stage[r])
        BY <2>1 DEF OwnStage, Writable, Exchanged
      <3> QED BY <3>1, <3>2, <3>3 DEF WorldStep
    <2>2. restorer[r].pc \in {"staged", "compare", "exchange", "create"} =>
            restorer[r].took = None
      BY <1>1 DEF RestorerInv, BeforeInv
    <2> QED BY <1>1, <2>1, <2>2 DEF RestorerInv, StageInv, Backup
  <1>8. DisplacedInv(r)'
    <2>1. CASE restorer[r].pc \in {"displaced", "back"}
      <3>1. stage[r] \in DOMAIN data /\ data[stage[r]] # Partial
        BY <1>1, <1>2, <2>1 DEF RestorerInv, DisplacedInv
      <3>2. data'[stage[r]] = data[stage[r]] \/ ~Used(data'[stage[r]])
        BY <3>1 DEF WorldStep
      <3>3. data'[stage[r]] # Partial
        BY <1>2, <3>1, <3>2
      <3>4. restorer[r].pc = "displaced" =>
              \/ data'[stage[r]] = restorer[r].took
              \/ data'[stage[r]] # restorer[r].before.content
        BY <1>1, <3>2 DEF RestoreInv, ContentInv, RestorerInv, BeforeInv, DisplacedInv
      <3> QED BY <1>1, <2>1, <3>1, <3>3, <3>4
              DEF RestorerInv, DisplacedInv, NoFile, Partial
    <2>2. CASE restorer[r].pc \notin {"displaced", "back"}
      BY <1>1, <2>2 DEF RestorerInv, DisplacedInv
    <2> QED BY <2>1, <2>2
  <1> QED BY <1>4, <1>5, <1>6, <1>7, <1>8 DEF RestorerInv

\* A step of stores or of other programs keeps the invariant.
LEMMA WorldKeeps ==
  ASSUME IntervalsCount, RestoreInv, WorldStep, TypeInv',
         (\A f \in DOMAIN data : Used(data[f]))'
  PROVE  RestoreInv'
  <1>1. /\ UNCHANGED <<stage, copy, safety, restorer>>
        /\ TypeInv /\ WholeFiles /\ ContentInv /\ ApartInv /\ LocksInv /\ DistinctInv
    BY DEF WorldStep, RestoreInv
  <1>2. /\ \A r \in Restorers : stage[r] # NoFile => stage[r] \in DOMAIN data
        /\ \A r \in Restorers : copy[r] # NoFile => copy[r] \in DOMAIN data
        /\ \A k \in Safeties : safety[k] # NoFile => safety[k] \in DOMAIN data
        /\ dest # NoFile => dest \in DOMAIN data
        /\ Used(Partial) /\ NoFile \notin DOMAIN data
    BY <1>1, FilesNumbered, NewContents DEF TypeInv, FileTypes
  <1>3. WholeFiles'
    <2>1. \A k \in Safeties : safety[k] # NoFile =>
             data'[safety[k]] = data[safety[k]]
      BY <1>1, <1>2, AsideStays DEF ApartInv
    <2>2. \A f \in DOMAIN data : data[f] # Partial => data'[f] # Partial
      BY <1>2 DEF WorldStep
    <2>3. dest' # NoFile => dest' \in DOMAIN data'
      BY DEF TypeInv, FileTypes, NoFile
    <2>4. dest' # NoFile => data'[dest'] # Partial
      BY <1>1, <1>2, <2>2, <2>3 DEF WholeFiles, WorldStep
    <2> QED BY <1>1, <2>1, <2>4 DEF WholeFiles, NoFile, Partial
  <1>4. ContentInv'
    <2>3. ASSUME NEW r \in Restorers, restorer[r].before # NoSnapshot
          PROVE  Used(restorer[r].before.content)'
      BY <1>1, <2>3, UsedStays DEF ContentInv, TypeInv, WorldStep
    <2> QED BY <1>1, <2>3 DEF ContentInv, NoSnapshot, NoFile
  <1>5. ApartInv'
    BY <1>1, <1>2, AsideStays DEF ApartInv, NoFile
  <1>6. LocksInv'
    BY <1>1 DEF LocksInv, WorldStep
  <1>7. DistinctInv'
    BY ZenonT(30), <1>1, <1>2 DEF DistinctInv, WorldStep, NoFile
  <1> QED BY <1>3, <1>4, <1>5, <1>6, <1>7, WorldKeepsRestorer DEF RestoreInv


\* A store that locks or closes changes no file.
LEMMA StoreOnly ==
  ASSUME IntervalsCount, RestoreInv, NEW s \in Stores, UNCHANGED <<files, writer, guard, restorer, outside>>,
         access' \in [Processes -> {"none", "shared", "exclusive"}],
         \A r \in Restorers : access'[r] = access[r],
         store' \in [Stores -> StoreRecords],
         \A t \in Stores : t # s => store'[t] = store[t],
         store'[s].file \in {store[s].file, dest, NoFile},
         store'[s].pc = "open" => store'[s].file # NoFile
  PROVE  RestoreInv'
  <1>1. TypeInv /\ UNCHANGED <<dest, stage, copy, safety, data, stamp>>
    BY DEF RestoreInv, files
  <1>2. NoFile \notin DOMAIN data
    BY <1>1, FilesNumbered DEF TypeInv
  <1>3. FileTypes' /\ LockTypes'
    BY <1>1 DEF TypeInv, FileTypes, LockTypes, NoFile
  <1>4. StoreTypes'
    <2>1. \A t \in Stores : t # s =>
            /\ store'[t].file \in DOMAIN data \cup {NoFile}
            /\ store'[t].pc = "open" => store'[t].file \in DOMAIN data
      BY <1>1 DEF TypeInv, StoreTypes
    <2>2. store'[s].file \in DOMAIN data \cup {NoFile}
      BY <1>1 DEF TypeInv, StoreTypes, FileTypes
    <2> QED BY <1>1, <2>1, <2>2 DEF StoreTypes, NoFile
  <1>5. WorldStep
    <2>1. stamp \in Nat /\ outside \in Nat
      BY SMTT(30), <1>1, RestoreAssumption DEF TypeInv, FileTypes, Original
    <2>2. \A t \in Stores : \/ store'[t].file \in {store[t].file, dest}
                            \/ store'[t].file \notin DOMAIN data
      BY <1>2
    <2> QED BY SMTT(30), <1>1, <2>1, <2>2 DEF WorldStep
  <1>6. (\A f \in DOMAIN data : Used(data[f]))'
    BY <1>1 DEF RestoreInv, ContentInv, Used, Original
  <1> QED BY <1>1, <1>3, <1>4, <1>5, <1>6, WorldKeeps DEF TypeInv

\* Stores and restores are different processes.
LEMMA StoresAreOthers ==
  ASSUME NEW s \in Stores, NEW r \in Restorers
  PROVE  r # s /\ s \in Processes /\ r \in Processes
  BY RestoreAssumption DEF Processes

\* The lock of a store changes none of a restore.
LEMMA TakeFacts ==
  ASSUME TypeInv, NEW s \in Stores, NEW mode \in {"none", "shared", "exclusive"},
         Take(s, mode)
  PROVE  /\ access' \in [Processes -> {"none", "shared", "exclusive"}]
         /\ \A r \in Restorers : access'[r] = access[r]
         /\ access'[s] = mode
         /\ \A p \in Processes : p # s => access'[p] = access[p]
  BY StoresAreOthers DEF Take, TypeInv, LockTypes, Processes

\* The record of a store.
LEMMA StoreBecomes ==
  ASSUME TypeInv, NEW s \in Stores, NEW n \in StoreRecords,
         store' = [store EXCEPT ![s] = n]
  PROVE  /\ store' \in [Stores -> StoreRecords]
         /\ store'[s] = n
         /\ \A t \in Stores : t # s => store'[t] = store[t]
  BY DEF TypeInv, StoreTypes

\* A store goes to another step.
LEMMA StorePcBecomes ==
  ASSUME TypeInv, NEW s \in Stores, NEW p \in {"closed", "checked", "locked", "open"},
         store' = [store EXCEPT ![s].pc = p]
  PROVE  /\ store' \in [Stores -> StoreRecords]
         /\ store'[s].pc = p /\ store'[s].file = store[s].file
         /\ \A t \in Stores : t # s => store'[t] = store[t]
  <1> DEFINE n == [store[s] EXCEPT !.pc = p]
  <1>1. store[s] \in StoreRecords
    BY DEF TypeInv, StoreTypes
  <1>2. n \in StoreRecords /\ n.pc = p /\ n.file = store[s].file
    BY <1>1 DEF StoreRecords
  <1>3. store' = [store EXCEPT ![s] = n]
    OBVIOUS
  <1> HIDE DEF n
  <1> QED BY <1>2, <1>3, StoreBecomes

\* SqliteStore::open until the lock, and the end of a connection.
LEMMA StoreLocksKeep ==
  ASSUME IntervalsCount, RestoreInv, NEW s \in Stores, StoreChecks(s) \/ StoreLocks(s) \/ StoreCloses(s)
  PROVE  RestoreInv'
  <1>1. TypeInv
    BY DEF RestoreInv
  <1>2. CASE StoreChecks(s)
    <2>1. /\ store' = [store EXCEPT ![s].pc = "checked"]
          /\ UNCHANGED <<files, writer, guard, restorer, outside, access>>
      BY <1>2 DEF StoreChecks, locks
    <2>2. access' \in [Processes -> {"none", "shared", "exclusive"}]
      BY <1>1, <2>1 DEF TypeInv, LockTypes
    <2> QED BY <1>1, <2>1, <2>2, StorePcBecomes, StoreOnly
  <1>3. CASE StoreLocks(s)
    <2>1. UNCHANGED <<files, writer, guard, restorer, outside>>
      BY <1>3 DEF StoreLocks
    <2>2. CASE Compatible(s, "shared")
      <3>1. Take(s, "shared") /\ store' = [store EXCEPT ![s].pc = "locked"]
        BY <1>3, <2>2 DEF StoreLocks
      <3> QED BY <1>1, <2>1, <3>1, TakeFacts, StorePcBecomes, StoreOnly
    <2>3. CASE ~Compatible(s, "shared")
      <3>1. UNCHANGED access /\ store' = [store EXCEPT ![s].pc = "closed"]
        BY <1>3, <2>3 DEF StoreLocks
      <3>2. access' \in [Processes -> {"none", "shared", "exclusive"}]
        BY <1>1, <3>1 DEF TypeInv, LockTypes
      <3> QED BY <1>1, <2>1, <3>1, <3>2, StorePcBecomes, StoreOnly
    <2> QED BY <2>2, <2>3
  <1>4. CASE StoreCloses(s)
    <2> DEFINE n == [pc |-> "closed", file |-> NoFile]
    <2>1. /\ store' = [store EXCEPT ![s] = n] /\ Take(s, "none")
          /\ UNCHANGED <<files, writer, guard, restorer, outside>>
      BY <1>4 DEF StoreCloses
    <2>2. n \in StoreRecords /\ n.file = NoFile /\ n.pc = "closed"
      BY DEF StoreRecords, NoFile
    <2> HIDE DEF n
    <2> QED BY ZenonT(30), <1>1, <2>1, <2>2, TakeFacts, StoreBecomes, StoreOnly
  <1> QED BY <1>2, <1>3, <1>4


\* A store or another program makes the database file.
LEMMA WorldCreates ==
  ASSUME IntervalsCount, RestoreInv, NEW c \in Nat, c # Partial, Create(c), dest' = File,
         UNCHANGED <<stage, copy, safety, writer, guard, restorer, access>>,
         stamp' \in Original .. Original + MaxWrites, stamp' >= stamp,
         outside' \in Nat, outside' >= outside, Used(c)',
         store' \in [Stores -> StoreRecords],
         \A s \in Stores : \/ store'[s] = store[s]
                           \/ store'[s].file = File
  PROVE  RestoreInv'
  <1>1. TypeInv /\ FileTypes
    BY DEF RestoreInv, TypeInv
  <1>2. /\ NoFile \notin DOMAIN data /\ File \notin DOMAIN data
        /\ \A f \in DOMAIN data : data[f] \in Nat
    BY <1>1, FilesNumbered
  <1>3. /\ \E m \in Nat : data' \in [1..m -> Nat]
        /\ DOMAIN data' = DOMAIN data \cup {File}
        /\ data'[File] = c
        /\ \A f \in DOMAIN data : data'[f] = data[f]
    BY <1>1, CreateFacts
  <1> HIDE DEF File
  <1>4. FileTypes'
    BY <1>1, <1>3 DEF FileTypes, NoFile, Original
  <1>5. LockTypes'
    BY <1>1, <1>3 DEF TypeInv, LockTypes
  <1>6. StoreTypes'
    BY <1>1, <1>3 DEF TypeInv, StoreTypes, NoFile
  <1>7. stamp' \in Nat
    BY SMTT(30), RestoreAssumption DEF Original
  <1>8. WorldStep
    BY <1>2, <1>3, <1>7 DEF WorldStep
  <1>9. (\A f \in DOMAIN data : Used(data[f]))'
    <2>1. \A f \in DOMAIN data : Used(data[f])
      BY DEF RestoreInv, ContentInv
    <2>2. \A f \in DOMAIN data : Used(data[f])'
      <3> SUFFICES ASSUME NEW f \in DOMAIN data PROVE Used(data[f])'
        OBVIOUS
      <3>1. PICK d \in Nat : d = data[f]
        BY <1>2
      <3>2. Used(d)
        BY <2>1, <3>1
      <3>3. Used(d)'
        BY <1>1, <1>7, <3>2, UsedStays
      <3>4. data'[f] = d
        BY <1>3, <3>1
      <3> QED BY <3>3, <3>4 DEF Used, Original
    <2> QED BY <1>3, <2>2 DEF Used, Original
  <1> QED BY <1>1, <1>4, <1>5, <1>6, <1>8, <1>9, WorldKeeps DEF TypeInv

\* A store or another program writes a database file.
LEMMA WorldWrites ==
  ASSUME IntervalsCount, RestoreInv, NEW f \in DOMAIN data, NEW c \in Nat, ~Used(c), Writable(f),
         data' = [data EXCEPT ![f] = c],
         UNCHANGED <<dest, stage, copy, safety, writer, guard, restorer, access, store>>,
         stamp' \in Original .. Original + MaxWrites, stamp' >= stamp,
         outside' \in Nat, outside' >= outside, Used(c)'
  PROVE  RestoreInv'
  <1>1. TypeInv /\ FileTypes
    BY DEF RestoreInv, TypeInv
  <1>2. \A g \in DOMAIN data : data[g] \in Nat
    BY <1>1, FilesNumbered
  <1>3. /\ \E m \in Nat : data' \in [1..m -> Nat]
        /\ DOMAIN data' = DOMAIN data
        /\ data'[f] = c
        /\ \A g \in DOMAIN data : g # f => data'[g] = data[g]
    BY <1>1, WriteFacts
  <1>4. FileTypes'
    BY <1>1, <1>3 DEF FileTypes, NoFile, Original
  <1>5. LockTypes' /\ StoreTypes'
    BY <1>1, <1>3 DEF TypeInv, LockTypes, StoreTypes, NoFile
  <1>7. stamp' \in Nat
    BY SMTT(30), RestoreAssumption DEF Original
  <1>8. WorldStep
    BY <1>3, <1>7 DEF WorldStep
  <1>9. (\A g \in DOMAIN data : Used(data[g]))'
    <2>1. \A g \in DOMAIN data : Used(data[g])
      BY DEF RestoreInv, ContentInv
    <2>2. ASSUME NEW g \in DOMAIN data, g # f PROVE Used(data[g])'
      <3>1. PICK d \in Nat : d = data[g]
        BY <1>2
      <3>2. Used(d)
        BY <2>1, <3>1
      <3>3. Used(d)'
        BY <1>1, <1>7, <3>2, UsedStays
      <3>4. data'[g] = d
        BY <1>3, <2>2, <3>1
      <3> QED BY <3>3, <3>4 DEF Used, Original
    <2> QED BY <1>3, <2>2 DEF Used, Original
  <1> QED BY <1>1, <1>4, <1>5, <1>8, <1>9, WorldKeeps DEF TypeInv

\* What a publication writes is new, and used afterwards.
LEMMA StampIsNew ==
  ASSUME FileTypes, NEW c \in Nat, c = stamp + 1, stamp < Original + MaxWrites,
         stamp' = stamp + 1
  PROVE  /\ ~Used(c) /\ Used(c)' /\ c # Partial
         /\ stamp' \in Original .. Original + MaxWrites /\ stamp' >= stamp
  <1>1. stamp \in Original .. Original + MaxWrites
    BY DEF FileTypes
  <1>2. ~Used(c)
    BY NewContents
  <1>3. c <= stamp'
    BY SMTT(30), <1>1, RestoreAssumption DEF Original
  <1>4. Used(c)'
    BY <1>3 DEF Used
  <1> QED BY SMTT(30), <1>1, <1>2, <1>4, RestoreAssumption DEF Original, Partial

\* What another program writes is new, and used afterwards.
LEMMA OutsideIsNew ==
  ASSUME FileTypes, NEW c \in Nat, c = Original + MaxWrites + 1 + outside,
         outside' = outside + 1
  PROVE  /\ ~Used(c) /\ Used(c)' /\ c # Partial
         /\ outside' \in Nat /\ outside' >= outside
  <1>1. outside \in Nat /\ MaxWrites \in Nat /\ Original \in Nat
    BY RestoreAssumption DEF FileTypes, Original
  <1>2. ~Used(c) /\ c # Partial
    BY <1>1, NewContents DEF Partial
  <1>3. PICK o \in Nat : o = outside'
    BY SMTT(30), <1>1
  <1>4. c > Original + MaxWrites /\ c <= Original + MaxWrites + o
    BY SMTT(30), <1>1, <1>3
  <1>5. Used(c)'
    BY <1>3, <1>4 DEF Used
  <1> QED BY SMTT(30), <1>1, <1>2, <1>5

\* SqliteStore::open: a new database, an existing one, or a refusal.
LEMMA StoreOpensKeeps ==
  ASSUME IntervalsCount, RestoreInv, NEW s \in Stores, StoreOpens(s)
  PROVE  RestoreInv'
  <1>1. TypeInv /\ FileTypes
    BY DEF RestoreInv, TypeInv
  <1>2. UNCHANGED <<stage, copy, safety, writer, guard, restorer, outside>>
    BY DEF StoreOpens
  <1>0. dest \in DOMAIN data \cup {NoFile} /\ NoFile \in Nat /\ outside \in Nat
    BY <1>1 DEF FileTypes, NoFile
  <1>3. File \in Nat /\ File # NoFile /\ dest \in Nat /\ outside \in Nat
    BY <1>0, <1>1, FilesNumbered
  <1>4. ASSUME stamp < Original + MaxWrites, Create(stamp + 1), dest' = File,
               stamp' = stamp + 1, UNCHANGED access,
               store' = [store EXCEPT ![s] = [pc |-> "open", file |-> File]]
        PROVE  RestoreInv'
    <2> DEFINE n == [pc |-> "open", file |-> File]
    <2>1. n \in StoreRecords /\ n.file = File
      BY <1>3 DEF StoreRecords
    <2> HIDE DEF n
    <2>2. /\ store' \in [Stores -> StoreRecords]
          /\ \A t \in Stores : store'[t] = store[t] \/ store'[t].file = File
      BY <1>1, <1>4, <2>1, StoreBecomes DEF n
    <2>3. PICK c \in Nat : c = stamp + 1
      BY <1>1, NewContents
    <2>4. Create(c)
      BY <1>4, <2>3
    <2>5. /\ Used(c)' /\ c # Partial
          /\ stamp' \in Original .. Original + MaxWrites /\ stamp' >= stamp
      BY <1>1, <1>4, <2>3, StampIsNew
    <2>6. outside' \in Nat /\ outside' >= outside
      BY SMTT(30), <1>2, <1>3
    <2> QED BY <1>2, <1>4, <2>2, <2>4, <2>5, <2>6, WorldCreates
  <1>5. ASSUME dest # NoFile, UNCHANGED <<dest, data, stamp, access>>,
               store' = [store EXCEPT ![s] = [pc |-> "open", file |-> dest]]
        PROVE  RestoreInv'
    <2> DEFINE n == [pc |-> "open", file |-> dest]
    <2>1. n \in StoreRecords /\ n.file = dest
      BY <1>3 DEF StoreRecords
    <2>2. store' = [store EXCEPT ![s] = n]
      BY <1>5
    <2> HIDE DEF n
    <2>3. access' \in [Processes -> {"none", "shared", "exclusive"}]
      BY <1>1, <1>5 DEF TypeInv, LockTypes
    <2>4. UNCHANGED <<files, writer, guard, restorer, outside>>
      BY <1>2, <1>5 DEF files
    <2> QED BY <1>1, <1>5, <2>1, <2>2, <2>3, <2>4, StoreBecomes, StoreOnly
  <1>6. ASSUME UNCHANGED <<dest, data, stamp>>, Take(s, "none"),
               store' = [store EXCEPT ![s].pc = "closed"]
        PROVE  RestoreInv'
    <2>1. UNCHANGED <<files, writer, guard, restorer, outside>>
      BY <1>2, <1>6 DEF files
    <2> QED BY <1>1, <1>6, <2>1, TakeFacts, StorePcBecomes, StoreOnly
  <1> QED BY <1>4, <1>5, <1>6 DEF StoreOpens

\* A publication of a store.
LEMMA StoreWritesKeeps ==
  ASSUME IntervalsCount, RestoreInv, NEW s \in Stores, StoreWrites(s)
  PROVE  RestoreInv'
  <1>1. TypeInv /\ FileTypes
    BY DEF RestoreInv, TypeInv
  <1>2. /\ stamp < Original + MaxWrites /\ stamp' = stamp + 1
        /\ data' = [data EXCEPT ![store[s].file] = stamp + 1]
        /\ UNCHANGED <<dest, stage, copy, safety, writer, guard, access, restorer,
                       store, outside>>
    BY DEF StoreWrites, names, locks
  <1>3. PICK f \in DOMAIN data : f = store[s].file
    BY <1>1 DEF StoreWrites, TypeInv, StoreTypes
  <1>4. PICK c \in Nat : c = stamp + 1
    BY <1>1, NewContents
  <1>5. data' = [data EXCEPT ![f] = c] /\ Writable(f)
    BY <1>2, <1>3, <1>4 DEF Writable
  <1>6. /\ ~Used(c) /\ Used(c)'
        /\ stamp' \in Original .. Original + MaxWrites /\ stamp' >= stamp
    BY <1>1, <1>2, <1>4, StampIsNew
  <1>7. outside' \in Nat /\ outside' >= outside
    BY SMTT(30), <1>1, <1>2 DEF FileTypes
  <1> QED BY <1>2, <1>5, <1>6, <1>7, WorldWrites

\* Other programs write, replace and remove the database.
LEMMA OutsideKeeps ==
  ASSUME IntervalsCount, RestoreInv, Outside
  PROVE  RestoreInv'
  <1>1. TypeInv /\ FileTypes
    BY DEF RestoreInv, TypeInv
  <1>2. PICK c \in Nat : c = Original + MaxWrites + 1 + outside
    BY <1>1, NewContents
  <1>3. stamp \in Original .. Original + MaxWrites /\ stamp \in Nat /\ stamp >= stamp
    BY SMTT(30), <1>1, RestoreAssumption DEF FileTypes, Original
  <1>4. ASSUME NEW f \in DOMAIN data, OutsideWrites(f) PROVE RestoreInv'
    <2>1. /\ data' = [data EXCEPT ![f] = c] /\ outside' = outside + 1
          /\ UNCHANGED <<dest, stage, copy, safety, writer, guard, access, restorer,
                         store, stamp>>
      BY <1>2, <1>4 DEF OutsideWrites, names, locks
    <2>2. Writable(f)
      BY <1>4 DEF OutsideWrites, Writable
    <2>3. ~Used(c) /\ Used(c)' /\ outside' \in Nat /\ outside' >= outside
      BY <1>1, <1>2, <2>1, OutsideIsNew
    <2>4. stamp' \in Original .. Original + MaxWrites /\ stamp' >= stamp
      BY <1>3, <2>1
    <2> QED BY <2>1, <2>2, <2>3, <2>4, WorldWrites
  <1>5. CASE OutsideReplaces
    <2>1. /\ Create(c) /\ outside' = outside + 1 /\ dest' = File
          /\ UNCHANGED <<stage, copy, safety, writer, guard, access, restorer,
                         store, stamp>>
      BY <1>2, <1>5 DEF OutsideReplaces, locks
    <2>2. c # Partial /\ Used(c)' /\ outside' \in Nat /\ outside' >= outside
      BY <1>1, <1>2, <2>1, OutsideIsNew
    <2>3. stamp' \in Original .. Original + MaxWrites /\ stamp' >= stamp
      BY <1>3, <2>1
    <2>4. /\ store' \in [Stores -> StoreRecords]
          /\ \A s \in Stores : store'[s] = store[s] \/ store'[s].file = File
      BY <1>1, <2>1 DEF TypeInv, StoreTypes
    <2> QED BY <2>1, <2>2, <2>3, <2>4, WorldCreates
  <1>6. CASE OutsideRemoves
    <2>1. /\ dest' = NoFile /\ outside' = outside + 1
          /\ UNCHANGED <<stage, copy, safety, writer, guard, access, restorer,
                         store, stamp, data>>
      BY <1>6 DEF OutsideRemoves, locks
    <2>2. TypeInv'
      BY SMTT(30), <1>1, <2>1 DEF TypeInv, FileTypes, LockTypes, StoreTypes, NoFile
    <2>3. outside' \in Nat /\ outside' >= outside
      BY SMTT(30), <1>1, <2>1 DEF FileTypes
    <2>4. WorldStep
      BY <1>1, <1>3, <2>1, <2>3, FilesNumbered DEF WorldStep
    <2>5. (\A f \in DOMAIN data : Used(data[f]))'
      <3> SUFFICES ASSUME NEW f \in DOMAIN data PROVE Used(data[f])'
        BY <2>1
      <3>1. PICK d \in Nat : d = data[f]
        BY <1>1, FilesNumbered
      <3>2. Used(d)
        BY <3>1 DEF RestoreInv, ContentInv
      <3>3. Used(d)'
        BY <1>1, <1>3, <2>1, <2>3, <3>2, UsedStays
      <3>4. data'[f] = d
        BY <2>1, <3>1
      <3> QED BY <3>3, <3>4 DEF Used, Original
    <2> QED BY <2>2, <2>4, <2>5, WorldKeeps
  <1> QED BY <1>4, <1>5, <1>6 DEF Outside


-----------------------------------------------------------------------------
(***************************************************************************)
(* Steps of a restore: its locks                                           *)
(***************************************************************************)
\* A restore that goes on under the locks it has.
LEMMA LocksStay ==
  ASSUME RestoreInv, NEW r \in Restorers, UNCHANGED <<access, writer>>,
         \A q \in Restorers : q # r => restorer'[q] = restorer[q],
         restorer'[r].pc \in Busy => restorer[r].pc \in Busy,
         restorer'[r].pc = "locked" => restorer[r].pc = "locked"
  PROVE  LocksInv'
  BY DEF RestoreInv, LocksInv

\* A restore that returns or dies.
LEMMA LocksGo ==
  ASSUME RestoreInv, NEW r \in Restorers, Release(r),
         \A q \in Restorers : q # r => restorer'[q] = restorer[q],
         restorer'[r].pc \notin Busy \cup {"locked"},
         DOMAIN data \subseteq DOMAIN data'
  PROVE  LocksInv' /\ LockTypes'
  <1>1. LockTypes /\ LocksInv /\ r \in Processes
    BY DEF RestoreInv, TypeInv, Processes
  <1>2. LocksInv'
    BY <1>1 DEF LocksInv, LockTypes, Release, Processes
  <1>3. /\ access' \in [Processes -> {"none", "shared", "exclusive"}]
        /\ writer' \in Restorers \cup {None}
    BY <1>1 DEF LockTypes, Release
  <1>4. guard' = None \/ guard' = guard
    BY DEF Release
  <1>5. guard' # None => guard'.holder \in Restorers /\ guard'.file \in DOMAIN data'
    BY <1>1, <1>4 DEF LockTypes
  <1> QED BY <1>2, <1>3, <1>5 DEF LockTypes

\* The guard of a restore is dropped or stays.
LEMMA GuardTyped ==
  ASSUME RestoreInv, UNCHANGED <<access, writer>>, guard' = None \/ guard' = guard,
         DOMAIN data \subseteq DOMAIN data'
  PROVE  LockTypes'
  <1>1. LockTypes
    BY DEF RestoreInv, TypeInv
  <1>2. guard' # None => guard'.holder \in Restorers /\ guard'.file \in DOMAIN data'
    BY <1>1 DEF LockTypes
  <1> QED BY <1>1, <1>2 DEF LockTypes

-----------------------------------------------------------------------------
(***************************************************************************)
(* Steps of a restore that change no file                                  *)
(***************************************************************************)
\* c is the content of the database, of a safety copy, or of a displaced file
\* that was not found equal to one.
KeptIn(c) ==
  \/ dest # NoFile /\ data[dest] = c
  \/ \E k \in Safeties : safety[k] # NoFile /\ data[safety[k]] = c
  \/ \E r \in Restorers : /\ Exchanged(r) /\ ~At(r, "clean") /\ ~At(r, "ok")
                          /\ stage[r] # NoFile /\ data[stage[r]] = c

\* Kept, one content at a time.
LEMMA KeptMeans == ASSUME NEW c PROVE c \in Kept <=> KeptIn(c)
  BY DEF Kept, KeptIn

\* Nothing but the backup is lost if every other kept content stays kept.
LEMMA KeptStays ==
  ASSUME \A c : KeptIn(c) /\ c # Backup => KeptIn(c)'
  PROVE  Kept \ {Backup} \subseteq Kept'
  <1> SUFFICES ASSUME NEW c, c \in Kept, c # Backup PROVE c \in Kept'
    OBVIOUS
  <1>1. KeptIn(c)'
    BY KeptMeans
  <1>2. c \in Kept' <=> KeptIn(c)'
    BY SMTT(30) DEF Kept, KeptIn, Exchanged, At, NoFile
  <1> QED BY <1>1, <1>2

\* A restore that changes its own record only.
LEMMA LocalKeeps ==
  ASSUME RestoreInv, NEW r \in Restorers,
         restorer' \in [Restorers -> RestorerRecords],
         \A q \in Restorers : q # r => restorer'[q] = restorer[q],
         UNCHANGED <<files, store, outside>>, LockTypes', LocksInv',
         restorer'[r].before # NoSnapshot =>
           restorer'[r].before.content \in Nat /\ Used(restorer'[r].before.content),
         restorer[r].pc # "crashed",
         restorer[r].pc = "clean" => restorer'[r].pc = "crashed",
         RestorerInv(r)'
  PROVE  RestoreInv'
  <1>1. /\ UNCHANGED <<dest, stage, copy, safety, data, stamp, store, outside>>
        /\ TypeInv /\ WholeFiles /\ ContentInv /\ ApartInv /\ DistinctInv
    BY DEF RestoreInv, files
  <1>2. TypeInv'
    BY <1>1 DEF TypeInv, FileTypes, StoreTypes, NoFile, Original
  <1>3. WholeFiles' /\ ApartInv'
    BY SMTT(30), <1>1 DEF WholeFiles, ApartInv, Aside, NoFile, Partial
  <1>4. ContentInv'
    <2>1. \A f \in DOMAIN data' : Used(data[f])'
      BY <1>1 DEF ContentInv, Used, Original
    <2>2. \A q \in Restorers : restorer'[q].before # NoSnapshot =>
            restorer'[q].before.content \in Nat /\ Used(restorer'[q].before.content)
      BY <1>1 DEF ContentInv
    <2>3. \A c : Used(c) => Used(c)'
      BY <1>1 DEF Used, Original
    <2> QED BY <2>1, <2>2, <1>1 DEF ContentInv, NoSnapshot, NoFile, Used, Original
  <1>5. \A q \in Restorers : RestorerInv(q)'
    <2>1. ASSUME NEW q \in Restorers, q # r PROVE RestorerInv(q)'
      <3>1. RestorerInv(q) /\ restorer'[q] = restorer[q]
        BY SMTT(30), <2>1 DEF RestoreInv
      <3>2. BeforeInv(q)' /\ CopyInv(q)'
        BY SMTT(30), <1>1, <3>1 DEF RestorerInv, BeforeInv, CopyInv, NoSnapshot, NoFile, Partial
      <3>3. SavedInv(q)'
        BY ZenonT(30), <1>1, <3>1 DEF RestorerInv, SavedInv, SavedBefore, NoSnapshot, NoFile
      <3>4. StageInv(q)' /\ DisplacedInv(q)'
        BY <1>1, <3>1 DEF RestorerInv, StageInv, OwnStage, DisplacedInv, NoFile,
                          Partial, Backup
      <3> QED BY <3>2, <3>3, <3>4 DEF RestorerInv
    <2> QED BY <2>1
  <1>6. DistinctInv'
    BY <1>1 DEF DistinctInv, NoFile
  <1> QED BY <1>2, <1>3, <1>4, <1>5, <1>6 DEF RestoreInv

\* Such a step loses nothing if the displaced file stays to be compared.
LEMMA LocalSaves ==
  ASSUME NEW r \in Restorers, \A q \in Restorers : q # r => restorer'[q] = restorer[q],
         UNCHANGED <<files, store, outside>>,
         restorer'[r].took = restorer[r].took,
         restorer'[r].pc \notin {"clean", "ok"}
  PROVE  Kept \ {Backup} \subseteq Kept'
  <1>1. UNCHANGED <<dest, stage, copy, safety, data>>
    BY DEF files
  <1>2. \A c : KeptIn(c) => KeptIn(c)'
    BY SMTT(30), <1>1 DEF KeptIn, Exchanged, At, NoFile
  <1> QED BY <1>2, KeptStays


\* A restore that failed or died promises nothing more about its files.
LEMMA EndInv ==
  ASSUME NEW r \in Restorers, RestorerInv(r), NEW p \in {"failed", "crashed"},
         Becomes(r, p, restorer[r].before, restorer[r].safe, restorer[r].took)
  PROVE  RestorerInv(r)'
  <1>1. /\ restorer'[r].pc = p /\ restorer'[r].before = restorer[r].before
        /\ restorer'[r].took = restorer[r].took
    BY DEF Becomes
  <1>2. BeforeInv(r)'
    BY SMTT(30), <1>1 DEF RestorerInv, BeforeInv, NoSnapshot, NoFile
  <1> QED BY <1>1, <1>2 DEF RestorerInv, CopyInv, SavedInv, StageInv, DisplacedInv

\* What r knows of its own files, when none of them changes.
LEMMA LocalRestorer ==
  ASSUME NEW r \in Restorers, RestorerInv(r), UNCHANGED <<files, store>>,
         NEW p, Becomes(r, p, restorer[r].before, restorer[r].safe, restorer[r].took),
         \/ /\ p \in {"checked", "locked", "existing", "before"}
            /\ restorer[r].pc \in {"idle", "checked", "locked", "existing", "before"}
         \/ p = "stage" /\ restorer[r].pc = "locked"
         \/ p = "exchange" /\ restorer[r].pc = "compare"
         \/ p = "back" /\ restorer[r].pc = "displaced"
  PROVE  RestorerInv(r)'
  <1>1. /\ restorer'[r].pc = p /\ restorer'[r].before = restorer[r].before
        /\ restorer'[r].took = restorer[r].took /\ restorer'[r].safe = restorer[r].safe
        /\ UNCHANGED <<dest, stage, copy, safety, data, store>>
    BY DEF Becomes, files
  <1>2. BeforeInv(r)'
    BY <1>1 DEF RestorerInv, BeforeInv, NoSnapshot, NoFile
  <1>3. CopyInv(r)'
    BY <1>1 DEF CopyInv
  <1>4. SavedInv(r)'
    BY <1>1 DEF RestorerInv, BeforeInv, SavedInv, SavedBefore, NoSnapshot, NoFile
  <1>5. StageInv(r)'
    BY SMTT(30), <1>1 DEF RestorerInv, StageInv, OwnStage, NoFile, Backup
  <1>6. DisplacedInv(r)'
    BY <1>1 DEF RestorerInv, DisplacedInv, NoFile, Partial
  <1> QED BY <1>2, <1>3, <1>4, <1>5, <1>6 DEF RestorerInv

\* A snapshot of a file is not NoSnapshot, and its content was used.
LEMMA SnapshotFacts ==
  ASSUME IntervalsCount, RestoreInv, NEW f \in DOMAIN data
  PROVE  /\ Snapshot(f) \in SnapshotRecords /\ Snapshot(f) # NoSnapshot
         /\ Snapshot(f).content = data[f] /\ Snapshot(f).file = f
         /\ data[f] \in Nat /\ Used(data[f])
  <1>1. f \in Nat /\ f # NoFile /\ data[f] \in Nat
    BY FilesNumbered DEF RestoreInv, TypeInv
  <1> QED BY <1>1 DEF Snapshot, SnapshotRecords, NoSnapshot, RestoreInv, ContentInv

\* The steps before the first snapshot, and the comparison.
LEMMA QuietSteps ==
  ASSUME RestoreInv, NEW r \in Restorers,
         CheckLinks(r) \/ LockExclusive(r) \/ LockWriter(r) \/ LockExisting(r)
         \/ CompareUnchanged(r) \/ CrashRestore(r)
  PROVE  RestoreInv' /\ Kept \ {Backup} \subseteq Kept'
  <1>1. TypeInv /\ FileTypes /\ LockTypes /\ LocksInv /\ RestorerInv(r) /\ r \in Processes
    BY DEF RestoreInv, TypeInv, Processes
  <1>2. restorer[r].before # NoSnapshot =>
          restorer[r].before.content \in Nat /\ Used(restorer[r].before.content)
    BY DEF RestoreInv, ContentInv
  <1>3. ASSUME NEW p \in RestorePcs, Pc(r, p), p \notin {"clean", "ok"},
               UNCHANGED <<files, store, outside>>, LockTypes', LocksInv',
               restorer[r].pc # "crashed", restorer[r].pc = "clean" => p = "crashed",
               \/ p \in {"failed", "crashed"}
               \/ /\ p \in {"checked", "locked", "existing", "before"}
                  /\ restorer[r].pc \in {"idle", "checked", "locked", "existing", "before"}
               \/ p = "stage" /\ restorer[r].pc = "locked"
               \/ p = "exchange" /\ restorer[r].pc = "compare"
        PROVE  RestoreInv' /\ Kept \ {Backup} \subseteq Kept'
    <2>1. Becomes(r, p, restorer[r].before, restorer[r].safe, restorer[r].took)
      BY <1>1, <1>3, PcBecomes
    <2>2. RestorerInv(r)'
      BY <1>1, <1>3, <2>1, EndInv, LocalRestorer
    <2>3. /\ restorer' \in [Restorers -> RestorerRecords]
          /\ \A q \in Restorers : q # r => restorer'[q] = restorer[q]
          /\ restorer'[r].pc = p /\ restorer'[r].before = restorer[r].before
          /\ restorer'[r].took = restorer[r].took
      BY SMTT(30), <2>1 DEF Becomes
    <2>4. RestoreInv'
      BY SMTT(30), <1>2, <1>3, <2>2, <2>3, LocalKeeps
    <2>5. Kept \ {Backup} \subseteq Kept'
      BY <1>3, <2>3, LocalSaves
    <2> QED BY <2>4, <2>5
  <1>4. ASSUME NEW p \in RestorePcs, Pc(r, p)
        PROVE  /\ \A q \in Restorers : q # r => restorer'[q] = restorer[q]
               /\ restorer'[r].pc = p
    BY <1>1, <1>4, PcBecomes DEF Becomes
  <1>5. CASE CheckLinks(r)
    <2>1. PICK p \in {"checked", "failed"} : Pc(r, p)
      BY SMTT(30), <1>5 DEF CheckLinks
    <2>2. /\ restorer[r].pc = "idle" /\ UNCHANGED <<files, store, outside>>
          /\ UNCHANGED <<access, writer, guard, data>> /\ p \in RestorePcs
      BY <1>5, <2>1 DEF CheckLinks, At, locks, files, RestorePcs
    <2>3. LockTypes'
      BY <2>2, GuardTyped
    <2>4. LocksInv'
      BY <1>4, <2>1, <2>2, LocksStay DEF Busy
    <2> QED BY <1>3, <2>1, <2>2, <2>3, <2>4
  <1>6. CASE LockExclusive(r)
    <2>1. /\ restorer[r].pc = "checked" /\ UNCHANGED <<files, store, outside>>
          /\ UNCHANGED <<writer, guard, data>>
      BY <1>6 DEF LockExclusive, At, files
    <2>2. CASE Compatible(r, "exclusive")
      <3>1. /\ Pc(r, "locked") /\ "locked" \in RestorePcs
            /\ access' = [access EXCEPT ![r] = "exclusive"]
        BY <1>6, <2>2 DEF LockExclusive, Take, RestorePcs
      <3>2. LockTypes'
        BY <1>1, <2>1, <3>1 DEF LockTypes
      <3>3. access'[r] = "exclusive" /\ \A q \in Restorers : q # r => access'[q] = access[q]
        BY SMTT(30), <1>1, <3>1 DEF LockTypes, Processes
      <3>4. LocksInv'
        BY ZenonT(30), SMTT(30), <1>1, <1>4, <2>1, <3>1, <3>3 DEF LocksInv, Busy
      <3> QED BY <1>3, <2>1, <3>1, <3>2, <3>4
    <2>3. CASE ~Compatible(r, "exclusive")
      <3>1. Pc(r, "failed") /\ "failed" \in RestorePcs /\ UNCHANGED access
        BY <1>6, <2>3 DEF LockExclusive, RestorePcs
      <3>2. LockTypes'
        BY <2>1, <3>1, GuardTyped
      <3>3. LocksInv'
        BY ZenonT(30), <1>4, <2>1, <3>1, LocksStay DEF Busy
      <3> QED BY <1>3, <2>1, <3>1, <3>2, <3>3
    <2> QED BY <2>2, <2>3
  <1>7. CASE LockWriter(r)
    <2>1. PICK p \in {"stage", "existing"} : Pc(r, p)
      BY <1>7 DEF LockWriter
    <2>2. /\ restorer[r].pc = "locked" /\ UNCHANGED <<files, store, outside>>
          /\ UNCHANGED <<access, guard, data>> /\ p \in RestorePcs
          /\ writer = None /\ writer' = r
      BY <1>7, <2>1 DEF LockWriter, At, locks, files, RestorePcs, Busy
    <2>3. LockTypes'
      BY <1>1, <2>2 DEF LockTypes
    <2>4. LocksInv'
      BY <1>1, <1>4, <2>1, <2>2, RestoreAssumption DEF LocksInv, Busy
    <2> QED BY <1>3, <2>1, <2>2, <2>3, <2>4
  <1>8. CASE LockExisting(r)
    <2>1. /\ restorer[r].pc = "existing" /\ UNCHANGED <<files, store, outside>>
          /\ UNCHANGED <<access, writer, data>> /\ Pc(r, "before")
          /\ "before" \in RestorePcs /\ dest # NoFile
          /\ guard' = guard \/ guard' = [holder |-> r, file |-> dest]
      BY <1>8 DEF LockExisting, At, files, RestorePcs, Busy
    <2>2. dest \in DOMAIN data
      BY <1>1, <2>1 DEF FileTypes
    <2>3. guard' # None => guard'.holder \in Restorers /\ guard'.file \in DOMAIN data'
      BY SMTT(30), <1>1, <2>1, <2>2 DEF LockTypes
    <2>4. LockTypes'
      BY <1>1, <2>1, <2>3 DEF LockTypes
    <2>5. LocksInv'
      BY <1>4, <2>1, LocksStay DEF Busy
    <2> QED BY SMTT(30), <1>3, <2>1, <2>4, <2>5
  <1>9. CASE CompareUnchanged(r)
    <2>1. /\ restorer[r].pc = "compare" /\ UNCHANGED <<files, store, outside>>
          /\ UNCHANGED <<access, writer, data>> /\ Pc(r, "exchange")
          /\ "exchange" \in RestorePcs /\ (guard' = None \/ guard' = guard)
      BY <1>9 DEF CompareUnchanged, CloseDescriptor, At, files, RestorePcs, Busy
    <2>2. LockTypes'
      BY SMTT(30), <2>1, GuardTyped
    <2>3. LocksInv'
      BY <1>4, <2>1, LocksStay DEF Busy
    <2> QED BY <1>3, <2>1, <2>2, <2>3
  <1>10. CASE CrashRestore(r)
    <2>1. /\ restorer[r].pc # "crashed" /\ UNCHANGED <<files, store, outside>>
          /\ UNCHANGED data /\ Pc(r, "crashed") /\ Release(r)
          /\ "crashed" \in RestorePcs /\ "crashed" \notin Busy \cup {"locked"}
      BY <1>10 DEF CrashRestore, files, RestorePcs, Busy
    <2>2. LockTypes' /\ LocksInv'
      BY <1>4, <2>1, LocksGo
    <2> QED BY SMTT(30), <1>3, <2>1, <2>2
  <1> QED BY <1>5, <1>6, <1>7, <1>8, <1>9, <1>10


\* The first snapshot is taken, of a file that is there.
LEMMA CaptureBeforeKeeps ==
  ASSUME IntervalsCount, RestoreInv, NEW r \in Restorers, CaptureBefore(r)
  PROVE  RestoreInv' /\ Kept \ {Backup} \subseteq Kept'
  <1>1. TypeInv /\ FileTypes /\ RestorerInv(r) /\ restorer[r] \in RestorerRecords
    BY DEF RestoreInv, TypeInv
  <1>2. PICK k \in Safeties :
          restorer' = [restorer EXCEPT ![r].pc = "copying",
                         ![r].before = Snapshot(dest), ![r].safe = k]
    BY  DEF CaptureBefore
  <1>3. /\ restorer[r].pc = "before" /\ dest # NoFile
        /\ UNCHANGED <<files, store, outside>> /\ UNCHANGED <<access, writer, data>>
        /\ guard' = None \/ guard' = guard
    BY DEF CaptureBefore, CloseDescriptor, At, files
  <1>4. dest \in DOMAIN data /\ k \in Nat
    BY SMTT(30), <1>1, <1>3 DEF FileTypes, Safeties
  <1>5. PICK b \in SnapshotRecords :
          /\ b = Snapshot(dest) /\ b # NoSnapshot /\ b.content = data[dest]
          /\ data[dest] \in Nat /\ Used(data[dest])
    BY <1>4, SnapshotFacts
  <1> DEFINE n == [restorer[r] EXCEPT !.pc = "copying", !.before = b, !.safe = k]
  <1>6. n \in RestorerRecords
    BY <1>1, <1>4 DEF RestorerRecords, RestorePcs, Busy
  <1>7. /\ n.pc = "copying" /\ n.before = b /\ n.safe = k
        /\ n.took = restorer[r].took
    BY <1>1 DEF RestorerRecords
  <1>8. restorer' = [restorer EXCEPT ![r] = n]
    BY <1>2, <1>5
  <1> HIDE DEF n
  <1>9. /\ restorer' \in [Restorers -> RestorerRecords] /\ restorer'[r] = n
        /\ \A q \in Restorers : q # r => restorer'[q] = restorer[q]
    BY <1>1, <1>6, <1>8 DEF TypeInv
  <1>10. restorer[r].took = None
    BY <1>1, <1>3 DEF RestorerInv, BeforeInv
  <1>11. RestorerInv(r)'
    BY <1>5, <1>7, <1>9, <1>10
    DEF RestorerInv, BeforeInv, CopyInv, SavedInv, StageInv, DisplacedInv
  <1>12. LockTypes'
    BY SMTT(30), <1>3, GuardTyped
  <1>13. LocksInv'
    BY SMTT(30), <1>3, <1>7, <1>9, LocksStay DEF Busy
  <1>14. RestoreInv'
    BY ZenonT(30), <1>3, <1>5, <1>7, <1>9, <1>11, <1>12, <1>13, LocalKeeps
  <1>15. Kept \ {Backup} \subseteq Kept'
    BY <1>3, <1>7, <1>9, LocalSaves
  <1> QED BY <1>14, <1>15

\* The displaced file is compared: it was saved, or it stays to be put back.
LEMMA CaptureDisplacedKeeps ==
  ASSUME RestoreInv, NEW r \in Restorers, CaptureDisplaced(r)
  PROVE  RestoreInv' /\ Kept \ {Backup} \subseteq Kept'
  <1>1. TypeInv /\ FileTypes /\ RestorerInv(r)
    BY DEF RestoreInv, TypeInv
  <1>2. /\ restorer[r].pc = "displaced"
        /\ UNCHANGED <<files, store, outside>> /\ UNCHANGED <<access, writer, data>>
        /\ guard' = None \/ guard' = guard
    BY DEF CaptureDisplaced, At, files
  <1>3. PICK p \in {"clean", "back"} :
          Pc(r, p) /\ (p = "clean" => Snapshot(stage[r]) = restorer[r].before)
    BY DEF CaptureDisplaced
  <1>4. Becomes(r, p, restorer[r].before, restorer[r].safe, restorer[r].took)
    BY <1>1, <1>3, PcBecomes DEF RestorePcs, Busy
  <1>5. /\ restorer' \in [Restorers -> RestorerRecords]
        /\ \A q \in Restorers : q # r => restorer'[q] = restorer[q]
        /\ restorer'[r].pc = p /\ restorer'[r].before = restorer[r].before
        /\ restorer'[r].safe = restorer[r].safe
        /\ restorer'[r].took = restorer[r].took
    BY <1>4 DEF Becomes
  <1>6. LockTypes'
    BY <1>2, GuardTyped
  <1>7. LocksInv'
    BY <1>2, <1>5, LocksStay DEF Busy
  <1>8. restorer[r].before # NoSnapshot =>
          restorer[r].before.content \in Nat /\ Used(restorer[r].before.content)
    BY DEF RestoreInv, ContentInv
  <1>9. RestorerInv(r)'
    <2>1. CASE p = "back"
      BY <1>1, <1>2, <1>4, <2>1, LocalRestorer
    <2>2. CASE p = "clean"
      <3>1. UNCHANGED <<dest, stage, copy, safety, data>>
        BY <1>2 DEF files
      <3>2. data[stage[r]] = restorer[r].before.content
        BY SMTT(30), <1>3, <2>2 DEF Snapshot
      <3>3. /\ restorer[r].took = restorer[r].before.content
            /\ restorer[r].before # NoSnapshot
        BY <1>1, <1>2, <3>2 DEF RestorerInv, DisplacedInv, BeforeInv
      <3>4. SavedBefore(r)
        BY <1>1, <1>2, <3>3 DEF RestorerInv, SavedInv
      <3>5. SavedBefore(r)'
        BY <1>5, <3>1, <3>4 DEF SavedBefore, NoFile
      <3>6. BeforeInv(r)' /\ SavedInv(r)'
        BY <1>5, <2>2, <3>3, <3>5 DEF BeforeInv, SavedInv, NoSnapshot, NoFile
      <3>7. CopyInv(r)' /\ StageInv(r)' /\ DisplacedInv(r)'
        BY SMTT(30), <1>5, <2>2, <3>3 DEF CopyInv, StageInv, DisplacedInv
      <3> QED BY <3>6, <3>7 DEF RestorerInv
    <2> QED BY <2>1, <2>2
  <1>10. RestoreInv'
    BY <1>2, <1>5, <1>6, <1>7, <1>8, <1>9, LocalKeeps
  <1>11. Kept \ {Backup} \subseteq Kept'
    <2>1. CASE p = "back"
      BY <1>2, <1>5, <2>1, LocalSaves
    <2>2. CASE p = "clean"
      <3>1. UNCHANGED <<dest, stage, copy, safety, data>>
        BY <1>2 DEF files
      <3>2. data[stage[r]] = restorer[r].before.content /\ SavedBefore(r)
        BY SMTT(30), SMTT(30), <1>1, <1>2, <1>3, <2>2
        DEF Snapshot, RestorerInv, BeforeInv, SavedInv
      <3>3. \A c : KeptIn(c) => KeptIn(c)'
        BY SMTT(30), <1>5, <3>1, <3>2 DEF KeptIn, SavedBefore, Exchanged, At, NoFile
      <3> QED BY <3>3, KeptStays
    <2> QED BY SMTT(30), <2>1, <2>2
  <1> QED BY <1>10, <1>11

-----------------------------------------------------------------------------
(***************************************************************************)
(* Steps of a restore on its files                                         *)
(***************************************************************************)
\* The restore with the writer lock keeps the invariant if it keeps the
\* safety copies of the others and what it says of its own files.
LEMMA BusyKeeps ==
  ASSUME RestoreInv, NEW r \in Restorers, restorer[r].pc \in Busy,
         NEW p, Becomes(r, p, restorer[r].before, restorer[r].safe, restorer'[r].took),
         UNCHANGED <<store, outside, stamp>>, FileTypes', LockTypes', LocksInv',
         DOMAIN data \subseteq DOMAIN data',
         \A f \in DOMAIN data' : Used(data'[f]),
         \A k \in Safeties : safety[k] # NoFile =>
           safety'[k] = safety[k] /\ data'[safety[k]] = data[safety[k]],
         RestorerInv(r)', WholeFiles', ApartInv', DistinctInv'
  PROVE  RestoreInv'
  <1>1. /\ restorer' \in [Restorers -> RestorerRecords]
        /\ restorer'[r].before = restorer[r].before
        /\ \A q \in Restorers : q # r => restorer'[q] = restorer[q]
    BY DEF Becomes
  <1>2. StoreTypes'
    BY SMTT(30) DEF RestoreInv, TypeInv, StoreTypes, NoFile
  <1>3. ContentInv'
    <2>1. \A q \in Restorers : restorer'[q].before = restorer[q].before
      BY ZenonT(30), <1>1
    <2> QED BY ZenonT(30), <2>1 DEF RestoreInv, ContentInv, Used, NoSnapshot, NoFile, Original
  <1>4. ASSUME NEW q \in Restorers, q # r PROVE RestorerInv(q)'
    <2>1. restorer[q].pc \notin Busy /\ restorer'[q] = restorer[q] /\ RestorerInv(q)
      BY SMTT(30), <1>1, <1>4 DEF RestoreInv, LocksInv
    <2>2. BeforeInv(q)'
      BY ZenonT(30), <2>1 DEF RestorerInv, BeforeInv, NoSnapshot, NoFile
    <2>3. CopyInv(q)' /\ StageInv(q)'
      BY ZenonT(30), <2>1 DEF CopyInv, StageInv, Busy
    <2>4. SavedInv(q)'
      BY ZenonT(30), ZenonT(30), <2>1 DEF RestorerInv, SavedInv, SavedBefore, Busy, NoSnapshot, NoFile
    <2>5. DisplacedInv(q)'
      BY ZenonT(30), <2>1 DEF RestorerInv, DisplacedInv, Busy
    <2> QED BY <2>2, <2>3, <2>4, <2>5 DEF RestorerInv
  <1> QED BY SMTT(30), <1>1, <1>2, <1>3, <1>4 DEF RestoreInv, TypeInv


\* r removes its staging names, or keeps them.
Removes(r) ==
  /\ UNCHANGED <<dest, safety, data, stamp, store, outside>>
  /\ \/ stage' = stage
     \/ stage' = [stage EXCEPT ![r] = NoFile]
  /\ \/ copy' = copy
     \/ copy' = [copy EXCEPT ![r] = NoFile]

\* Removing staging names keeps the invariant.
LEMMA RemovalKeeps ==
  ASSUME RestoreInv, NEW r \in Restorers, Removes(r),
         NEW p, Becomes(r, p, restorer[r].before, restorer[r].safe, restorer[r].took),
         LockTypes', LocksInv', RestorerInv(r)', restorer[r].pc # "crashed",
         restorer[r].pc = "clean" => stage'[r] = NoFile
  PROVE  RestoreInv'
  <1>1. /\ TypeInv /\ WholeFiles /\ ContentInv /\ ApartInv /\ DistinctInv
        /\ UNCHANGED <<dest, safety, data, stamp, store, outside>>
        /\ restorer' \in [Restorers -> RestorerRecords]
        /\ restorer'[r].before = restorer[r].before
        /\ \A q \in Restorers : q # r => restorer'[q] = restorer[q]
    BY DEF RestoreInv, Removes, Becomes
  <1>2. /\ \A q \in Restorers : q # r => stage'[q] = stage[q] /\ copy'[q] = copy[q]
        /\ stage'[r] \in {stage[r], NoFile} /\ copy'[r] \in {copy[r], NoFile}
        /\ stage' \in [Restorers -> DOMAIN data \cup {NoFile}]
        /\ copy' \in [Restorers -> DOMAIN data \cup {NoFile}]
    BY <1>1 DEF Removes, TypeInv, FileTypes
  <1>3. TypeInv'
    BY ZenonT(30), <1>1, <1>2 DEF TypeInv, FileTypes, StoreTypes, NoFile, Original
  <1>4. WholeFiles'
    BY <1>1 DEF WholeFiles, NoFile, Partial
  <1>5. ContentInv'
    <2>1. \A q \in Restorers : restorer'[q].before = restorer[q].before
      BY SMTT(30), <1>1
    <2> QED BY <1>1, <2>1 DEF ContentInv, Used, NoSnapshot, NoFile, Original
  <1>6. ApartInv'
    <2>1. ASSUME NEW f, f # NoFile, Aside(f) PROVE Aside(f)'
      BY <1>1, <1>2, <2>1 DEF Aside
    <2>2. \A q \in Restorers : copy'[q] \in {copy[q], NoFile}
      BY <1>2
    <2>3. \A q \in Restorers : copy'[q] # NoFile => copy'[q] = copy[q] /\ Aside(copy[q])
      BY <1>1, <2>2 DEF ApartInv
    <2>4. \A q \in Restorers : (copy[q] # NoFile => Aside(copy[q]))'
      <3> SUFFICES ASSUME NEW q \in Restorers, copy'[q] # NoFile
                   PROVE  Aside(copy[q])'
        BY DEF NoFile
      <3>1. PICK f : f = copy[q]
        OBVIOUS
      <3>2. f # NoFile /\ Aside(f) /\ copy'[q] = f
        BY <2>3, <3>1
      <3>3. Aside(f)'
        BY <2>1, <3>2
      <3> QED BY <3>2, <3>3 DEF Aside
    <2>5. \A k \in Safeties : (safety[k] # NoFile => Aside(safety[k]))'
      <3> SUFFICES ASSUME NEW k \in Safeties, safety[k] # NoFile
                   PROVE  Aside(safety[k])'
        BY <1>1 DEF NoFile
      <3>1. PICK f : f = safety[k]
        OBVIOUS
      <3>2. Aside(f)'
        BY SMTT(30), <1>1, <2>1, <3>1 DEF ApartInv
      <3> QED BY <1>1, <3>1, <3>2 DEF Aside
    <2> QED BY SMTT(30), <2>4, <2>5 DEF ApartInv
  <1>7. ASSUME NEW q \in Restorers, q # r PROVE RestorerInv(q)'
    <2>1. /\ restorer'[q] = restorer[q] /\ stage'[q] = stage[q] /\ copy'[q] = copy[q]
          /\ RestorerInv(q)
      BY ZenonT(30), <1>1, <1>2, <1>7 DEF RestoreInv
    <2>2. BeforeInv(q)' /\ CopyInv(q)'
      BY ZenonT(30), ZenonT(30), <1>1, <2>1 DEF RestorerInv, BeforeInv, CopyInv, NoSnapshot, NoFile, Partial
    <2>3. SavedInv(q)'
      BY ZenonT(30), <1>1, <2>1 DEF RestorerInv, SavedInv, SavedBefore, NoSnapshot, NoFile
    <2>4. OwnStage(q) => OwnStage(q)'
      BY ZenonT(30), ZenonT(30), <1>1, <1>2, <2>1 DEF OwnStage, NoFile
    <2>5. StageInv(q)' /\ DisplacedInv(q)'
      BY ZenonT(30), <1>1, <2>1, <2>4 DEF RestorerInv, StageInv, DisplacedInv, NoFile,
                              Partial, Backup
    <2> QED BY SMTT(30), <2>2, <2>3, <2>5 DEF RestorerInv
  <1>8. DistinctInv'
    BY SMTT(30), <1>1, <1>2 DEF DistinctInv, NoFile
  <1> QED BY <1>3, <1>4, <1>5, <1>6, <1>7, <1>8 DEF RestoreInv

\* Removing a staging name loses nothing unless it is the name of a displaced
\* file that was not compared.
LEMMA RemovalSaves ==
  ASSUME RestoreInv, NEW r \in Restorers, Removes(r),
         NEW p, Becomes(r, p, restorer[r].before, restorer[r].safe, restorer[r].took),
         \/ stage' = stage /\ p \notin {"clean", "ok"}
         \/ restorer[r].took = None
         \/ restorer[r].pc \in {"clean", "ok"}
  PROVE  Kept \ {Backup} \subseteq Kept'
  <1>1. /\ restorer'[r].pc = p /\ restorer'[r].took = restorer[r].took
        /\ \A q \in Restorers : q # r => restorer'[q] = restorer[q]
        /\ UNCHANGED <<dest, safety, data>>
    BY DEF Becomes, Removes
  <1>2. \A q \in Restorers : q # r => stage'[q] = stage[q]
    BY DEF Removes, RestoreInv, TypeInv, FileTypes
  <1>3. \A c : KeptIn(c) => KeptIn(c)'
    BY ZenonT(30), <1>1, <1>2 DEF KeptIn, Exchanged, At, NoFile
  <1> QED BY <1>3, KeptStays

\* The second snapshot, the end of a restore, and its errors.
LEMMA RemovalSteps ==
  ASSUME RestoreInv, NEW r \in Restorers,
         CaptureAfter(r) \/ RemoveStage(r) \/ Abort(r)
  PROVE  RestoreInv' /\ Kept \ {Backup} \subseteq Kept'
  <1>1. TypeInv /\ FileTypes /\ RestorerInv(r)
    BY DEF RestoreInv, TypeInv
  <1>2. ASSUME NEW p \in RestorePcs, Pc(r, p), Release(r), UNCHANGED data,
               p \in {"ok", "failed"}
        PROVE  LockTypes' /\ LocksInv'
    <2>1. /\ \A q \in Restorers : q # r => restorer'[q] = restorer[q]
          /\ restorer'[r].pc = p
      BY SMTT(30), <1>1, <1>2, PcBecomes DEF Becomes
    <2> QED BY <1>2, <2>1, LocksGo DEF Busy
  <1>3. CASE CaptureAfter(r)
    <2>1. /\ restorer[r].pc = "linked" /\ UNCHANGED <<access, writer, data>>
          /\ copy' = [copy EXCEPT ![r] = NoFile]
          /\ data[copy[r]] = restorer[r].before.content
          /\ UNCHANGED <<dest, stage, safety, data, stamp, store, outside>>
          /\ Pc(r, "stage") /\ "stage" \in RestorePcs
          /\ guard' = None \/ guard' = guard
      BY <1>3 DEF CaptureAfter, CloseDescriptor, At, RestorePcs, Busy
    <2>2. Removes(r)
      BY <2>1 DEF Removes
    <2>3. Becomes(r, "stage", restorer[r].before, restorer[r].safe, restorer[r].took)
      BY <1>1, <2>1, PcBecomes
    <2>4. LockTypes'
      BY SMTT(30), <2>1, GuardTyped
    <2>5. LocksInv'
      BY SMTT(30), <2>1, <2>3, LocksStay DEF Busy, Becomes
    <2>6. restorer[r].took = None /\ SavedBefore(r)
      BY SMTT(30), <1>1, <2>1 DEF RestorerInv, BeforeInv, CopyInv, SavedBefore
    <2>7. SavedBefore(r)'
      BY ZenonT(30), <2>1, <2>3, <2>6 DEF SavedBefore, Becomes, NoFile
    <2>8. RestorerInv(r)'
      BY ZenonT(30), <2>3, <2>6, <2>7
      DEF Becomes, RestorerInv, BeforeInv, CopyInv, SavedInv, StageInv, DisplacedInv
    <2> QED BY ZenonT(30), <2>1, <2>2, <2>3, <2>4, <2>5, <2>6, <2>8, RemovalKeeps, RemovalSaves
  <1>4. CASE RemoveStage(r)
    <2>1. /\ restorer[r].pc = "clean" /\ Release(r)
          /\ stage' = [stage EXCEPT ![r] = NoFile]
          /\ UNCHANGED <<dest, copy, safety, data, stamp, store, outside>>
          /\ Pc(r, "ok") /\ "ok" \in RestorePcs
      BY <1>4 DEF RemoveStage, At, RestorePcs
    <2>2. Removes(r) /\ stage'[r] = NoFile
      BY SMTT(30), <1>1, <2>1 DEF Removes, FileTypes
    <2>3. Becomes(r, "ok", restorer[r].before, restorer[r].safe, restorer[r].took)
      BY <1>1, <2>1, PcBecomes
    <2>4. LockTypes' /\ LocksInv'
      BY SMTT(30), <1>2, <2>1
    <2>5. /\ restorer[r].took # None =>
               /\ restorer[r].before # NoSnapshot
               /\ restorer[r].took = restorer[r].before.content
          /\ restorer[r].before # NoSnapshot => SavedBefore(r)
      BY ZenonT(30), <1>1, <2>1 DEF RestorerInv, BeforeInv, SavedInv, DisplacedInv
    <2>6. SavedBefore(r) => SavedBefore(r)'
      BY ZenonT(30), <2>1, <2>3 DEF SavedBefore, Becomes, NoFile
    <2>7. RestorerInv(r)'
      BY <2>3, <2>5, <2>6
      DEF Becomes, RestorerInv, BeforeInv, CopyInv, SavedInv, StageInv, DisplacedInv,
          NoSnapshot, NoFile
    <2> QED BY ZenonT(30), <2>1, <2>2, <2>3, <2>4, <2>7, RemovalKeeps, RemovalSaves
  <1>5. CASE Abort(r)
    <2>1. /\ restorer[r].pc \in Preparing \cup {"exchange", "back"} /\ Release(r)
          /\ UNCHANGED <<dest, safety, data, stamp, store, outside>>
          /\ Pc(r, "failed") /\ "failed" \in RestorePcs
      BY <1>5 DEF Abort, RestorePcs
    <2>2. /\ Removes(r)
          /\ restorer[r].pc \notin Preparing => stage' = stage
      BY SMTT(30), <1>5, <2>1 DEF Abort, Removes
    <2>3. Becomes(r, "failed", restorer[r].before, restorer[r].safe, restorer[r].took)
      BY SMTT(30), <1>1, <2>1, PcBecomes
    <2>4. LockTypes' /\ LocksInv'
      BY <1>2, <2>1
    <2>5. RestorerInv(r)'
      BY <1>1, <2>3, EndInv
    <2>6. restorer[r].pc \in Preparing => restorer[r].took = None
      BY <1>1 DEF RestorerInv, BeforeInv, Preparing
    <2>7. restorer[r].pc \notin {"clean", "crashed"}
      BY SMTT(30), <2>1 DEF Preparing
    <2>8. RestoreInv'
      BY <2>2, <2>3, <2>4, <2>5, <2>7, RemovalKeeps
    <2>9. Kept \ {Backup} \subseteq Kept'
      BY <2>2, <2>3, <2>6, RemovalSaves
    <2> QED BY SMTT(30), <2>8, <2>9
  <1> QED BY <1>3, <1>4, <1>5


\* A restore creates an empty file for its safety copy or for its staging.
LEMMA CreateSteps ==
  ASSUME IntervalsCount, RestoreInv, NEW r \in Restorers, CreateCopy(r) \/ CreateStage(r)
  PROVE  RestoreInv' /\ Kept \ {Backup} \subseteq Kept'
  <1>1. /\ TypeInv /\ FileTypes /\ StoreTypes /\ RestorerInv(r) /\ WholeFiles
        /\ ContentInv /\ ApartInv /\ DistinctInv
    BY DEF RestoreInv, TypeInv
  <1>2. Create(Partial)
    BY DEF CreateCopy, CreateStage
  <1>3. /\ \E m \in Nat : data' \in [1..m -> Nat]
        /\ DOMAIN data' = DOMAIN data \cup {File}
        /\ data'[File] = Partial
        /\ \A f \in DOMAIN data : data'[f] = data[f]
    <2>1. Partial \in Nat
      BY DEF Partial
    <2> QED BY <1>1, <1>2, <2>1, CreateFacts
  <1>4. PICK g : g = File
    OBVIOUS
  <1>5. g \notin DOMAIN data /\ NoFile \notin DOMAIN data /\ g # NoFile
    BY <1>1, <1>4, FilesNumbered
  <1>6. /\ \A q \in Restorers : stage[q] \in DOMAIN data \cup {NoFile}
        /\ \A q \in Restorers : copy[q] \in DOMAIN data \cup {NoFile}
        /\ \A k \in Safeties : safety[k] \in DOMAIN data \cup {NoFile}
        /\ dest \in DOMAIN data \cup {NoFile}
        /\ \A s \in Stores : store[s].file \in DOMAIN data \cup {NoFile}
    BY <1>1 DEF FileTypes, StoreTypes
  <1>7. /\ \A f \in DOMAIN data' : Used(data'[f])
        /\ \A k \in Safeties : safety[k] # NoFile => data'[safety[k]] = data[safety[k]]
        /\ dest # NoFile => data'[dest] = data[dest]
    <2>1. Used(Partial)
      BY <1>1, NewContents
    <2> QED BY <1>1, <1>3, <1>6, <2>1 DEF ContentInv
  <1>8. /\ UNCHANGED <<dest, safety, stamp, access, writer, guard, store, outside>>
        /\ restorer[r].pc \in {"copying", "stage"} /\ restorer[r].pc \in Busy
    BY DEF CreateCopy, CreateStage, locks, At, Busy
  <1>9. LockTypes'
    BY <1>3, <1>8, GuardTyped
  <1>10. WholeFiles'
    BY SMTT(30), <1>1, <1>7, <1>8 DEF WholeFiles, NoFile, Partial
  <1>11. restorer[r].took = None
    BY SMTT(30), <1>1, <1>8 DEF RestorerInv, BeforeInv
  <1>12. \A q \in Restorers : stage[q] # NoFile => data'[stage[q]] = data[stage[q]]
    BY <1>3, <1>6
  <1> HIDE DEF File
  <1>13. CASE CreateCopy(r)
    <2>1. /\ copy' = [copy EXCEPT ![r] = g] /\ UNCHANGED stage
          /\ Pc(r, "copied") /\ "copied" \in RestorePcs /\ restorer[r].pc = "copying"
      BY <1>4, <1>13 DEF CreateCopy, RestorePcs, Busy, At
    <2>2. Becomes(r, "copied", restorer[r].before, restorer[r].safe, restorer[r].took)
      BY <1>1, <2>1, PcBecomes
    <2>3. copy'[r] = g /\ \A q \in Restorers : q # r => copy'[q] = copy[q]
      BY <1>1, <2>1 DEF FileTypes
    <2>4. copy' \in [Restorers -> DOMAIN data' \cup {NoFile}]
      BY <1>1, <1>3, <1>4, <2>1 DEF FileTypes
    <2>5. FileTypes'
      BY <1>1, <1>3, <1>8, <2>1, <2>4 DEF FileTypes, NoFile, Original
    <2>6. LocksInv'
      BY <1>8, <2>2, LocksStay DEF Becomes
    <2>7. ApartInv'
      <3>1. Aside(g)
        BY SMTT(30), <1>5, <1>6 DEF Aside
      <3>2. \A f : Aside(f) => Aside(f)'
        BY <1>8, <2>1 DEF Aside
      <3>3. \A q \in Restorers : copy'[q] # NoFile => Aside(copy'[q])
        BY <1>1, <2>3, <3>1 DEF ApartInv
      <3>4. \A q \in Restorers : copy'[q] # NoFile =>
              /\ copy'[q] # dest' /\ \A t \in Restorers : copy'[q] # stage'[t]
              /\ \A s \in Stores : copy'[q] # store'[s].file
        BY SMTT(30), <1>8, <2>1, <3>3 DEF Aside
      <3>5. \A k \in Safeties : safety'[k] # NoFile =>
              /\ safety'[k] # dest' /\ \A t \in Restorers : safety'[k] # stage'[t]
              /\ \A s \in Stores : safety'[k] # store'[s].file
        BY SMTT(30), <1>1, <1>8, <2>1 DEF ApartInv, Aside
      <3> QED BY <3>4, <3>5 DEF ApartInv, Aside, NoFile
    <2>8. DistinctInv'
      BY ZenonT(30), ZenonT(30), <1>1, <1>8, <2>1, <2>2 DEF DistinctInv, Becomes, NoFile
    <2>9. RestorerInv(r)'
      <3>1. \A k \in Safeties : safety'[k] # copy'[r]
        BY <1>5, <1>6, <1>8, <2>3
      <3>2. restorer[r].safe \in Safeties
        BY <1>1, <2>1 DEF RestorerInv, CopyInv
      <3>3. CopyInv(r)'
        BY SMTT(30), <1>5, <2>2, <2>3, <3>1, <3>2 DEF CopyInv, Becomes, NoFile
      <3> QED BY ZenonT(30), <1>11, <2>2, <3>3
              DEF Becomes, RestorerInv, BeforeInv, SavedInv, StageInv, DisplacedInv
    <2>10. RestoreInv'
      BY ZenonT(30), ZenonT(30), <1>3, <1>7, <1>8, <1>9, <1>10, <2>2, <2>5, <2>6, <2>7, <2>8, <2>9, BusyKeeps
      DEF Becomes
    <2>11. \A c : KeptIn(c) => KeptIn(c)'
      BY ZenonT(30), ZenonT(30), <1>7, <1>8, <1>12, <1>11, <2>1, <2>2
      DEF KeptIn, Becomes, Exchanged, At, NoFile
    <2> QED BY <2>10, <2>11, KeptStays
  <1>14. CASE CreateStage(r)
    <2>1. /\ stage' = [stage EXCEPT ![r] = g] /\ UNCHANGED copy
          /\ Pc(r, "staged") /\ "staged" \in RestorePcs /\ restorer[r].pc = "stage"
      BY <1>4, <1>14 DEF CreateStage, RestorePcs, Busy, At
    <2>2. Becomes(r, "staged", restorer[r].before, restorer[r].safe, restorer[r].took)
      BY <1>1, <2>1, PcBecomes
    <2>3. stage'[r] = g /\ \A q \in Restorers : q # r => stage'[q] = stage[q]
      BY <1>1, <2>1 DEF FileTypes
    <2>4. stage' \in [Restorers -> DOMAIN data' \cup {NoFile}]
      BY <1>1, <1>3, <1>4, <2>1 DEF FileTypes
    <2>5. FileTypes'
      BY ZenonT(60), <1>1, <1>3, <1>8, <2>1, <2>4 DEF FileTypes, NoFile, Original
    <2>6. LocksInv'
      BY <1>8, <2>2, LocksStay DEF Becomes, Busy
    <2>7. ApartInv'
      BY SMTT(30), <1>1, <1>5, <1>6, <1>8, <2>1, <2>3 DEF ApartInv, Aside, NoFile
    <2>8. DistinctInv'
      BY SMTT(30), <1>1, <1>5, <1>6, <1>8, <2>1, <2>2, <2>3 DEF DistinctInv, Becomes, NoFile
    <2>9. RestorerInv(r)'
      <3>1. OwnStage(r)'
        BY ZenonT(30), <1>5, <1>6, <1>8, <2>3 DEF OwnStage, NoFile
      <3>2. restorer[r].before # NoSnapshot => SavedBefore(r)
        BY <1>1, <2>1 DEF RestorerInv, SavedInv
      <3>3. SavedBefore(r) => SavedBefore(r)'
        BY SMTT(30), <1>7, <1>8, <2>2 DEF SavedBefore, Becomes, NoFile
      <3>4. SavedInv(r)'
        BY SMTT(30), <2>2, <3>2, <3>3 DEF SavedInv, Becomes, NoSnapshot, NoFile
      <3> QED BY ZenonT(30), <1>11, <2>2, <3>1, <3>4
              DEF Becomes, RestorerInv, BeforeInv, CopyInv, StageInv, DisplacedInv
    <2>10. RestoreInv'
      BY ZenonT(30), ZenonT(30), <1>3, <1>7, <1>8, <1>9, <1>10, <2>2, <2>5, <2>6, <2>7, <2>8, <2>9, BusyKeeps
      DEF Becomes
    <2>11. \A c : KeptIn(c) => KeptIn(c)'
      BY ZenonT(30), ZenonT(30), <1>7, <1>8, <1>12, <1>11, <2>2, <2>3
      DEF KeptIn, Becomes, Exchanged, At, NoFile
    <2> QED BY <2>10, <2>11, KeptStays
  <1> QED BY <1>13, <1>14


\* A restore writes a file of its own: a staged file, or a copy that is not
\* linked.  Nobody else knows the file.
LEMMA OwnWriteKeeps ==
  ASSUME RestoreInv, NEW r \in Restorers, restorer[r].pc \in Busy,
         NEW f \in DOMAIN data, NEW c \in Nat, Used(c), c # Partial,
         data' = [data EXCEPT ![f] = c],
         UNCHANGED <<dest, stage, copy, safety, stamp, access, writer, store, outside>>,
         guard' = None \/ guard' = guard, restorer[r].took = None,
         f # dest, \A k \in Safeties : safety[k] # f,
         \A q \in Restorers : q # r => stage[q] # f,
         NEW p, p \in Busy, p # "clean", restorer[r].pc # "clean",
         Becomes(r, p, restorer[r].before, restorer[r].safe, restorer[r].took),
         RestorerInv(r)'
  PROVE  RestoreInv' /\ Kept \ {Backup} \subseteq Kept'
  <1>1. TypeInv /\ FileTypes /\ WholeFiles /\ ContentInv /\ ApartInv /\ DistinctInv
    BY DEF RestoreInv, TypeInv
  <1>2. /\ \E m \in Nat : data' \in [1..m -> Nat]
        /\ DOMAIN data' = DOMAIN data
        /\ data'[f] = c
        /\ \A g \in DOMAIN data : g # f => data'[g] = data[g]
    BY <1>1, WriteFacts
  <1>3. /\ dest # NoFile => data'[dest] = data[dest]
        /\ \A k \in Safeties : safety[k] # NoFile => data'[safety[k]] = data[safety[k]]
        /\ \A q \in Restorers : q # r /\ stage[q] # NoFile =>
             data'[stage[q]] = data[stage[q]]
    BY ZenonT(30), ZenonT(30), <1>1, <1>2 DEF FileTypes
  <1>4. FileTypes'
    BY <1>1, <1>2 DEF FileTypes, NoFile, Original
  <1>5. LockTypes'
    BY <1>2, GuardTyped
  <1>6. LocksInv'
    BY LocksStay DEF Becomes, Busy
  <1>7. WholeFiles'
    BY ZenonT(30), <1>1, <1>3 DEF WholeFiles, NoFile, Partial
  <1>8. ApartInv'
    BY <1>1 DEF ApartInv, Aside, NoFile
  <1>9. DistinctInv'
    BY ZenonT(30), SMTT(30), <1>1 DEF DistinctInv, Becomes, Busy, NoFile
  <1>10. \A g \in DOMAIN data' : Used(data'[g])
    BY ZenonT(30), <1>1, <1>2 DEF ContentInv
  <1>11. RestoreInv'
    BY <1>2, <1>3, <1>4, <1>5, <1>6, <1>7, <1>8, <1>9, <1>10, BusyKeeps DEF Becomes
  <1>12. \A d : KeptIn(d) => KeptIn(d)'
    BY SMTT(30), <1>3 DEF KeptIn, Becomes, Exchanged, At, NoFile
  <1> QED BY <1>11, <1>12, KeptStays

\* The database is copied into the safety copy's staging.
LEMMA CopySafetyKeeps ==
  ASSUME IntervalsCount, RestoreInv, NEW r \in Restorers, CopySafety(r)
  PROVE  RestoreInv' /\ Kept \ {Backup} \subseteq Kept'
  <1>1. /\ TypeInv /\ FileTypes /\ WholeFiles /\ ContentInv /\ ApartInv
        /\ RestorerInv(r)
    BY DEF RestoreInv, TypeInv
  <1>2. /\ restorer[r].pc = "copied" /\ dest # NoFile
        /\ data' = [data EXCEPT ![copy[r]] = data[dest]]
        /\ guard' = None \/ guard' = guard
        /\ Pc(r, "link") /\ "link" \in RestorePcs
        /\ UNCHANGED <<dest, stage, copy, safety, stamp, access, writer, store, outside>>
    BY DEF CopySafety, CloseDescriptor, names, At, RestorePcs, Busy
  <1>3. /\ copy[r] # NoFile /\ restorer[r].safe \in Safeties
        /\ \A k \in Safeties : safety[k] # copy[r]
        /\ restorer[r].took = None
    BY <1>1, <1>2 DEF RestorerInv, CopyInv, BeforeInv
  <1>4. PICK f \in DOMAIN data : f = copy[r]
    BY <1>1, <1>3 DEF FileTypes
  <1>5. dest \in DOMAIN data
    BY <1>1, <1>2 DEF FileTypes
  <1>6. PICK c \in Nat : c = data[dest]
    BY <1>1, <1>5, FilesNumbered
  <1>7. Used(c) /\ c # Partial
    BY <1>1, <1>2, <1>5, <1>6 DEF ContentInv, WholeFiles
  <1>8. f # dest /\ \A q \in Restorers : stage[q] # f
    BY <1>1, <1>3, <1>4 DEF ApartInv, Aside
  <1>9. Becomes(r, "link", restorer[r].before, restorer[r].safe, restorer[r].took)
    BY <1>1, <1>2, PcBecomes
  <1>10. data' = [data EXCEPT ![f] = c]
    BY <1>2, <1>4, <1>6
  <1>11. data'[f] = c
    BY SMTT(30), <1>1, <1>10, WriteFacts
  <1>12. RestorerInv(r)'
    <2>1. CopyInv(r)'
      BY <1>2, <1>3, <1>4, <1>7, <1>9, <1>11 DEF CopyInv, Becomes, NoFile, Partial
    <2> QED BY <1>3, <1>9, <2>1
            DEF Becomes, RestorerInv, BeforeInv, SavedInv, StageInv, DisplacedInv
  <1>13. restorer[r].pc \in Busy /\ "link" \in Busy
    BY <1>2 DEF Busy
  <1> QED BY <1>2, <1>3, <1>4, <1>7, <1>8, <1>9, <1>10, <1>12, <1>13, OwnWriteKeeps

\* The backup is copied into the staged file.
LEMMA FillStageKeeps ==
  ASSUME RestoreInv, NEW r \in Restorers, FillStage(r)
  PROVE  RestoreInv' /\ Kept \ {Backup} \subseteq Kept'
  <1>1. TypeInv /\ FileTypes /\ ApartInv /\ RestorerInv(r)
    BY DEF RestoreInv, TypeInv
  <1>2. /\ restorer[r].pc = "staged"
        /\ data' = [data EXCEPT ![stage[r]] = Backup]
        /\ UNCHANGED <<dest, stage, copy, safety, stamp, access, writer, guard, store,
                       outside>>
    BY  DEF FillStage, names, locks, At
  <1>3. PICK p \in {"create", "compare"} :
          Pc(r, p) /\ (p = "compare" <=> restorer[r].before # NoSnapshot)
    BY  DEF FillStage
  <1>4. OwnStage(r) /\ restorer[r].took = None
    BY <1>1, <1>2 DEF RestorerInv, StageInv, BeforeInv
  <1>5. PICK f \in DOMAIN data : f = stage[r]
    BY <1>1, <1>4 DEF FileTypes, OwnStage
  <1>6. PICK c \in Nat : c = Backup
    BY DEF Backup
  <1>7. Used(c) /\ c # Partial
    BY SMTT(30), <1>1, <1>6, NewContents DEF Backup, Partial
  <1>8. /\ f # dest /\ \A q \in Restorers : q # r => stage[q] # f
        /\ \A k \in Safeties : safety[k] # f
    <2>1. f # NoFile /\ f # dest /\ \A q \in Restorers : q # r => stage[q] # f
      BY <1>4, <1>5 DEF OwnStage
    <2> QED BY <1>1, <1>5, <2>1 DEF ApartInv, Aside
  <1>9. Becomes(r, p, restorer[r].before, restorer[r].safe, restorer[r].took)
    BY <1>1, <1>3, PcBecomes DEF RestorePcs, Busy
  <1>10. data' = [data EXCEPT ![f] = c]
    BY <1>2, <1>5, <1>6
  <1>11. data'[f] = c /\ \A g \in DOMAIN data : g # f => data'[g] = data[g]
    BY SMTT(30), <1>1, <1>10, WriteFacts
  <1>12. RestorerInv(r)'
    <2>1. StageInv(r)'
      BY SMTT(30), <1>2, <1>4, <1>5, <1>6, <1>9, <1>11
      DEF StageInv, OwnStage, Becomes, NoFile, Backup
    <2>2. restorer[r].before # NoSnapshot => SavedBefore(r)
      BY ZenonT(30), <1>1, <1>2 DEF RestorerInv, SavedInv
    <2>3. SavedBefore(r) => SavedBefore(r)'
      BY ZenonT(30), SMTT(30), <1>1, <1>2, <1>8, <1>9, <1>11 DEF SavedBefore, Becomes, FileTypes, NoFile
    <2>4. SavedInv(r)'
      BY SMTT(30), <1>9, <2>2, <2>3 DEF SavedInv, Becomes, NoSnapshot, NoFile
    <2>5. BeforeInv(r)'
      BY <1>3, <1>4, <1>9 DEF BeforeInv, Becomes, NoSnapshot, NoFile
    <2> QED BY ZenonT(60), <1>4, <1>9, <2>1, <2>4, <2>5
            DEF Becomes, RestorerInv, CopyInv, DisplacedInv
  <1>13. restorer[r].pc \in Busy /\ p \in Busy /\ p # "clean"
    BY <1>2 DEF Busy
  <1> QED BY ZenonT(30), <1>2, <1>4, <1>7, <1>8, <1>9, <1>10, <1>12, <1>13, OwnWriteKeeps

\* The copy of the database becomes a safety copy.
LEMMA LinkSafetyKeeps ==
  ASSUME RestoreInv, NEW r \in Restorers, LinkSafety(r)
  PROVE  RestoreInv' /\ Kept \ {Backup} \subseteq Kept'
  <1>1. /\ TypeInv /\ FileTypes /\ WholeFiles /\ ContentInv /\ ApartInv /\ DistinctInv
        /\ RestorerInv(r)
    BY DEF RestoreInv, TypeInv
  <1>2. /\ restorer[r].pc = "link" /\ restorer[r].pc \in Busy
        /\ safety[restorer[r].safe] = NoFile
        /\ safety' = [safety EXCEPT ![restorer[r].safe] = copy[r]]
        /\ Pc(r, "linked") /\ "linked" \in RestorePcs
        /\ UNCHANGED <<dest, stage, copy, data, stamp, access, writer, guard, store,
                       outside>>
    BY SMTT(30) DEF LinkSafety, locks, At, RestorePcs, Busy
  <1>3. /\ copy[r] # NoFile /\ restorer[r].safe \in Safeties
        /\ data[copy[r]] # Partial /\ restorer[r].took = None
    BY SMTT(30), <1>1, <1>2 DEF RestorerInv, CopyInv, BeforeInv
  <1>4. Becomes(r, "linked", restorer[r].before, restorer[r].safe, restorer[r].took)
    BY ZenonT(30), <1>1, <1>2, PcBecomes
  <1>5. /\ safety'[restorer[r].safe] = copy[r]
        /\ \A k \in Safeties : safety'[k] = safety[k] \/ safety'[k] = copy[r]
        /\ \A k \in Safeties : safety[k] # NoFile => safety'[k] = safety[k]
        /\ safety' \in [Safeties -> DOMAIN data \cup {NoFile}]
    BY <1>1, <1>2, <1>3 DEF FileTypes
  <1>6. FileTypes'
    BY ZenonT(30), <1>1, <1>2, <1>5 DEF FileTypes, NoFile, Original
  <1>7. LockTypes'
    BY <1>2, GuardTyped
  <1>8. LocksInv'
    BY SMTT(30), <1>2, <1>4, LocksStay DEF Becomes
  <1>9. WholeFiles'
    BY ZenonT(30), <1>1, <1>2, <1>3, <1>5 DEF WholeFiles, NoFile, Partial
  <1>10. ApartInv'
    BY SMTT(30), ZenonT(30), <1>1, <1>2, <1>3, <1>5 DEF ApartInv, Aside, NoFile
  <1>11. DistinctInv'
    BY ZenonT(30), <1>1, <1>2, <1>4 DEF DistinctInv, Becomes, NoFile
  <1>12. RestorerInv(r)'
    <2>1. CopyInv(r)'
      BY ZenonT(30), <1>2, <1>3, <1>4, <1>5 DEF CopyInv, Becomes, NoFile, Partial
    <2> QED BY ZenonT(30), <1>3, <1>4, <2>1
            DEF Becomes, RestorerInv, BeforeInv, SavedInv, StageInv, DisplacedInv
  <1>13. \A f \in DOMAIN data' : Used(data'[f])
    BY ZenonT(30), <1>1, <1>2 DEF ContentInv
  <1>14. RestoreInv'
    BY ZenonT(30), <1>2, <1>4, <1>5, <1>6, <1>7, <1>8, <1>9, <1>10, <1>11, <1>12, <1>13, BusyKeeps
    DEF Becomes
  <1>15. \A c : KeptIn(c) => KeptIn(c)'
    BY SMTT(30), ZenonT(30), <1>2, <1>4, <1>5, <1>3 DEF KeptIn, Becomes, Exchanged, At, NoFile
  <1> QED BY <1>14, <1>15, KeptStays


\* The staged file and the database change places.
LEMMA SwapFacts ==
  ASSUME RestoreInv, NEW r \in Restorers, Swap(r), dest # NoFile, stage[r] # NoFile,
         UNCHANGED <<copy, safety, data, stamp, store, outside>>
  PROVE  /\ dest' = stage[r] /\ stage'[r] = dest
         /\ \A q \in Restorers : q # r => stage'[q] = stage[q]
         /\ FileTypes' /\ ApartInv'
  <1>1. TypeInv /\ FileTypes /\ ApartInv
    BY DEF RestoreInv, TypeInv
  <1>2. /\ dest' = stage[r] /\ stage'[r] = dest
        /\ \A q \in Restorers : q # r => stage'[q] = stage[q]
    BY <1>1 DEF Swap, FileTypes
  <1>3. stage' \in [Restorers -> DOMAIN data \cup {NoFile}]
    BY <1>1 DEF Swap, FileTypes
  <1>4. dest' \in DOMAIN data \cup {NoFile}
    BY <1>1, <1>2 DEF FileTypes
  <1>5. FileTypes'
    BY <1>1, <1>3, <1>4 DEF FileTypes, NoFile, Original
  <1>6. ApartInv'
    BY SMTT(30), <1>1, <1>2 DEF ApartInv, Aside, NoFile
  <1> QED BY <1>2, <1>5, <1>6

\* RENAME_EXCHANGE.
LEMMA ExchangeKeeps ==
  ASSUME IntervalsCount, RestoreInv, NEW r \in Restorers, Exchange(r)
  PROVE  RestoreInv' /\ Kept \ {Backup} \subseteq Kept'
  <1>1. /\ TypeInv /\ FileTypes /\ WholeFiles /\ ContentInv /\ ApartInv /\ DistinctInv
        /\ RestorerInv(r) /\ restorer[r] \in RestorerRecords
    BY DEF RestoreInv, TypeInv
  <1>2. /\ restorer[r].pc = "exchange" /\ restorer[r].pc \in Busy /\ dest # NoFile
        /\ Swap(r)
        /\ restorer' = [restorer EXCEPT ![r].pc = "displaced", ![r].took = data[dest]]
        /\ UNCHANGED <<copy, safety, data, stamp, access, writer, guard, store, outside>>
    BY DEF Exchange, locks, At, Busy
  <1>3. dest \in DOMAIN data /\ data[dest] \in Nat /\ data[dest] # None
        /\ data[dest] # Partial
    <2>1. dest \in DOMAIN data
      BY <1>1, <1>2 DEF FileTypes
    <2>2. data[dest] \in Nat
      BY <1>1, <2>1, FilesNumbered
    <2> QED BY <1>1, <1>2, <2>1, <2>2, RestoreAssumption DEF WholeFiles
  <1>4. PICK t \in Nat : t = data[dest]
    BY <1>3
  <1> DEFINE n == [restorer[r] EXCEPT !.pc = "displaced", !.took = t]
  <1>5. n \in RestorerRecords
    BY <1>1 DEF RestorerRecords, RestorePcs, Busy
  <1>6. /\ n.pc = "displaced" /\ n.took = t /\ n.before = restorer[r].before
        /\ n.safe = restorer[r].safe
    BY <1>1 DEF RestorerRecords
  <1>7. restorer' = [restorer EXCEPT ![r] = n]
    BY <1>2, <1>4
  <1> HIDE DEF n
  <1>8. Becomes(r, "displaced", restorer[r].before, restorer[r].safe, t)
    BY <1>1, <1>5, <1>6, <1>7 DEF TypeInv, Becomes
  <1>9. /\ OwnStage(r) /\ data[stage[r]] = Backup /\ restorer[r].before # NoSnapshot
        /\ SavedBefore(r)
    BY <1>1, <1>2 DEF RestorerInv, StageInv, BeforeInv, SavedInv
  <1>10. /\ dest' = stage[r] /\ stage'[r] = dest
         /\ \A q \in Restorers : q # r => stage'[q] = stage[q]
         /\ FileTypes' /\ ApartInv'
    BY <1>2, <1>9, SwapFacts DEF OwnStage
  <1>11. LockTypes'
    BY <1>2, GuardTyped
  <1>12. LocksInv'
    BY <1>2, <1>8, LocksStay DEF Becomes
  <1>13. WholeFiles'
    BY SMTT(30), <1>1, <1>2, <1>9, <1>10 DEF WholeFiles, NoFile, Partial, Backup
  <1>14. DistinctInv'
    <2>1. \A q \in Restorers : q # r => restorer[q].pc \notin Busy
      BY <1>2 DEF RestoreInv, LocksInv
    <2> SUFFICES ASSUME \A q \in Restorers : restorer'[q].pc # "crashed",
                        NEW x \in Restorers, stage'[x] # NoFile
                 PROVE  /\ stage'[x] = dest' => restorer'[x].pc = "clean"
                        /\ \A q \in Restorers : q # x => stage'[q] # stage'[x]
      BY DEF DistinctInv, NoFile
    <2>2. \A q \in Restorers : restorer[q].pc # "crashed"
      BY <1>2, <1>8 DEF Becomes
    <2>3. \A q \in Restorers : q # r /\ stage[q] # NoFile =>
            stage[q] # dest /\ stage[q] # stage[r]
      BY SMTT(30), <1>1, <1>9, <2>1, <2>2 DEF DistinctInv, OwnStage, Busy
    <2>4. stage[r] # dest /\ \A q \in Restorers : q # r => stage[q] # stage[r]
      BY <1>9 DEF OwnStage
    <2>5. CASE x = r
      BY <1>2, <1>10, <2>3, <2>4, <2>5
    <2>6. CASE x # r
      <3>1. stage'[x] = stage[x] /\ stage[x] # NoFile
        BY <1>10, <2>6
      <3>2. stage[x] # dest /\ stage[x] # stage[r]
        BY <2>3, <2>6, <3>1
      <3>3. \A q \in Restorers : q # x => stage[q] # stage[x]
        BY <1>1, <2>2, <3>1 DEF DistinctInv
      <3> QED BY <1>10, <2>6, <3>1, <3>2, <3>3
    <2> QED BY <2>5, <2>6
  <1>15. RestorerInv(r)'
    <2>1. DisplacedInv(r)'
      BY ZenonT(30), <1>2, <1>3, <1>4, <1>8, <1>10 DEF DisplacedInv, Becomes, NoFile, Partial
    <2>2. SavedBefore(r)'
      BY SMTT(30), <1>2, <1>8, <1>9 DEF SavedBefore, Becomes, NoFile
    <2>3. BeforeInv(r)' /\ SavedInv(r)'
      BY <1>8, <1>9, <2>2 DEF BeforeInv, SavedInv, Becomes, NoSnapshot, NoFile
    <2> QED BY <1>8, <2>1, <2>3 DEF Becomes, RestorerInv, CopyInv, StageInv
  <1>16. \A f \in DOMAIN data' : Used(data'[f])
    BY <1>1, <1>2 DEF ContentInv
  <1>17. RestoreInv'
    BY <1>2, <1>8, <1>10, <1>11, <1>12, <1>13, <1>14, <1>15, <1>16, BusyKeeps
    DEF Becomes
  <1>18. Kept \ {Backup} \subseteq Kept'
    <2>1. restorer[r].took = None /\ t # None
      BY <1>1, <1>2, <1>3, <1>4 DEF RestorerInv, BeforeInv
    <2>2. \A c : KeptIn(c) => KeptIn(c)'
      BY SMTT(30), SMTT(30), <1>2, <1>8, <1>10, <2>1 DEF KeptIn, Becomes, Exchanged, At, NoFile
    <2> QED BY <2>2, KeptStays
  <1> QED BY <1>17, <1>18

\* The displaced file is put back; what was exchanged for it keeps a name.
LEMMA ExchangeBackKeeps ==
  ASSUME RestoreInv, NEW r \in Restorers, ExchangeBack(r)
  PROVE  RestoreInv' /\ Kept \ {Backup} \subseteq Kept'
  <1>1. /\ TypeInv /\ FileTypes /\ WholeFiles /\ ContentInv /\ ApartInv /\ DistinctInv
        /\ RestorerInv(r)
    BY DEF RestoreInv, TypeInv
  <1>2. /\ restorer[r].pc = "back" /\ restorer[r].pc \in Busy /\ dest # NoFile
        /\ Swap(r) /\ Release(r) /\ Pc(r, "failed") /\ "failed" \in RestorePcs
        /\ UNCHANGED <<copy, safety, data, stamp, store, outside>>
    BY DEF ExchangeBack, At, Busy, RestorePcs
  <1>3. Becomes(r, "failed", restorer[r].before, restorer[r].safe, restorer[r].took)
    BY SMTT(30), <1>1, <1>2, PcBecomes
  <1>4. stage[r] # NoFile /\ data[stage[r]] # Partial
    BY ZenonT(30), <1>1, <1>2 DEF RestorerInv, DisplacedInv
  <1>5. /\ dest' = stage[r] /\ stage'[r] = dest
        /\ \A q \in Restorers : q # r => stage'[q] = stage[q]
        /\ FileTypes' /\ ApartInv'
    BY <1>2, <1>4, SwapFacts
  <1>6. LockTypes' /\ LocksInv'
    BY SMTT(30), <1>2, <1>3, LocksGo DEF Becomes, Busy
  <1>7. WholeFiles'
    BY <1>1, <1>2, <1>4, <1>5 DEF WholeFiles, NoFile, Partial
  <1>8. DistinctInv'
    <2>1. \A q \in Restorers : q # r => restorer[q].pc \notin Busy
      BY <1>2 DEF RestoreInv, LocksInv
    <2> SUFFICES ASSUME \A q \in Restorers : restorer'[q].pc # "crashed",
                        NEW x \in Restorers, stage'[x] # NoFile
                 PROVE  /\ stage'[x] = dest' => restorer'[x].pc = "clean"
                        /\ \A q \in Restorers : q # x => stage'[q] # stage'[x]
      BY DEF DistinctInv, NoFile
    <2>2. \A q \in Restorers : restorer[q].pc # "crashed"
      BY SMTT(30), <1>2, <1>3 DEF Becomes
    <2>3. \A q \in Restorers : q # r /\ stage[q] # NoFile => stage[q] # dest
      BY SMTT(30), <1>1, <2>1, <2>2 DEF DistinctInv, Busy
    <2>4. stage[r] # dest /\ \A q \in Restorers : q # r => stage[q] # stage[r]
      BY SMTT(30), <1>1, <1>2, <1>4, <2>2 DEF DistinctInv
    <2>5. CASE x = r
      BY SMTT(30), <1>2, <1>5, <2>3, <2>4, <2>5
    <2>6. CASE x # r
      <3>1. stage'[x] = stage[x] /\ stage[x] # NoFile
        BY <1>5, <2>6
      <3>2. stage[x] # dest /\ stage[x] # stage[r]
        BY <2>3, <2>4, <2>6, <3>1
      <3>3. \A q \in Restorers : q # x => stage[q] # stage[x]
        BY <1>1, <2>2, <3>1 DEF DistinctInv
      <3> QED BY <1>5, <2>6, <3>1, <3>2, <3>3
    <2> QED BY <2>5, <2>6
  <1>9. RestorerInv(r)'
    BY SMTT(30), <1>1, <1>3, EndInv
  <1>10. \A f \in DOMAIN data' : Used(data'[f])
    BY ZenonT(30), <1>1, <1>2 DEF ContentInv
  <1>11. RestoreInv'
    BY ZenonT(30), <1>2, <1>3, <1>5, <1>6, <1>7, <1>8, <1>9, <1>10, BusyKeeps DEF Becomes
  <1>12. \A c : KeptIn(c) => KeptIn(c)'
    <2>1. restorer[r].took # None
      BY ZenonT(30), <1>1, <1>2 DEF RestorerInv, DisplacedInv
    <2> QED BY ZenonT(30), ZenonT(30), <1>2, <1>3, <1>5, <2>1 DEF KeptIn, Becomes, Exchanged, At, NoFile
  <1> QED BY <1>11, <1>12, KeptStays


\* The staged file gets the name of a database that was not there.
LEMMA PublishNewKeeps ==
  ASSUME RestoreInv, NEW r \in Restorers, PublishNew(r)
  PROVE  RestoreInv' /\ Kept \ {Backup} \subseteq Kept'
  <1>1. /\ TypeInv /\ FileTypes /\ WholeFiles /\ ContentInv /\ ApartInv /\ DistinctInv
        /\ RestorerInv(r)
    BY DEF RestoreInv, TypeInv
  <1>2. /\ restorer[r].pc = "create" /\ restorer[r].pc \in Busy /\ dest = NoFile
        /\ dest' = stage[r] /\ Pc(r, "clean") /\ "clean" \in RestorePcs
        /\ UNCHANGED <<stage, copy, safety, data, stamp, access, writer, guard, store,
                       outside>>
    BY  DEF PublishNew, locks, At, Busy, RestorePcs
  <1>3. Becomes(r, "clean", restorer[r].before, restorer[r].safe, restorer[r].took)
    BY SMTT(30), <1>1, <1>2, PcBecomes
  <1>4. OwnStage(r) /\ data[stage[r]] = Backup /\ restorer[r].took = None
    BY SMTT(30), <1>1, <1>2 DEF RestorerInv, StageInv, BeforeInv
  <1>5. FileTypes'
    BY <1>1, <1>2 DEF FileTypes, NoFile, Original
  <1>6. ApartInv'
    BY <1>1, <1>2 DEF ApartInv, Aside, NoFile
  <1>7. LockTypes'
    BY SMTT(30), <1>2, GuardTyped
  <1>8. LocksInv'
    BY SMTT(30), <1>2, <1>3, LocksStay DEF Becomes
  <1>9. WholeFiles'
    BY SMTT(30), <1>1, <1>2, <1>4 DEF WholeFiles, NoFile, Partial, Backup
  <1>10. DistinctInv'
    BY ZenonT(30), ZenonT(30), <1>1, <1>2, <1>3, <1>4 DEF DistinctInv, OwnStage, Becomes, NoFile
  <1>11. RestorerInv(r)'
    <2>1. restorer[r].before = NoSnapshot
      BY ZenonT(30), <1>1, <1>2 DEF RestorerInv, BeforeInv
    <2> QED BY ZenonT(30), <1>3, <1>4, <2>1
            DEF Becomes, RestorerInv, BeforeInv, CopyInv, SavedInv, StageInv,
                DisplacedInv, NoSnapshot, NoFile
  <1>12. \A f \in DOMAIN data' : Used(data'[f])
    BY ZenonT(30), <1>1, <1>2 DEF ContentInv
  <1>13. RestoreInv'
    BY ZenonT(30), ZenonT(30), <1>2, <1>3, <1>5, <1>6, <1>7, <1>8, <1>9, <1>10, <1>11, <1>12, BusyKeeps
    DEF Becomes
  <1>14. \A c : KeptIn(c) => KeptIn(c)'
    BY ZenonT(30), <1>2, <1>3, <1>4 DEF KeptIn, Becomes, Exchanged, At, NoFile
  <1> QED BY <1>13, <1>14, KeptStays

-----------------------------------------------------------------------------
(***************************************************************************)
(* The theorems                                                            *)
(***************************************************************************)
\* The invariant holds before the first step.
LEMMA InitRestore == RestoreInit => RestoreInv
  <1> SUFFICES ASSUME RestoreInit PROVE RestoreInv
    BY SMTT(30), SMTT(30)
  <1> USE RestoreAssumption
  <1>1. /\ \E m \in Nat : data \in [1..m -> Nat]
        /\ dest \in DOMAIN data \cup {NoFile}
        /\ \A f \in DOMAIN data : data[f] \in Nat /\ data[f] <= Original
        /\ \A f \in DOMAIN data : data[f] # Partial
        /\ dest # NoFile => dest \in DOMAIN data
    <2>1. CASE dest = NoFile /\ data = [i \in {} |-> None]
      <3>1. data \in [1..0 -> Nat] /\ DOMAIN data = {} /\ 0 \in Nat
        BY SMTT(30), <2>1
      <3> QED BY <2>1, <3>1
    <2>2. ASSUME dest = 1, NEW content \in {Original, Corrupt},
                 data = [i \in {1} |-> content]
          PROVE  <1>1
      <3>1. data \in [1..1 -> Nat] /\ DOMAIN data = {1} /\ 1 \in Nat /\ data[1] = content
        BY SMTT(30), <2>2 DEF Original, Corrupt
      <3> QED BY SMTT(30), <2>2, <3>1 DEF Original, Corrupt, Partial, NoFile
    <2> QED BY <2>1, <2>2 DEF RestoreInit
  <1>2. \A r \in Restorers :
          /\ restorer[r].pc = "idle" /\ restorer[r].before = NoSnapshot
          /\ restorer[r].took = None
    BY SMTT(30) DEF RestoreInit
  <1>3. restorer \in [Restorers -> RestorerRecords]
    BY DEF RestoreInit, RestorerRecords, SnapshotRecords, RestorePcs, NoSnapshot, NoFile
  <1>4. TypeInv
    <2>0. /\ stage \in [Restorers -> DOMAIN data \cup {NoFile}]
          /\ copy \in [Restorers -> DOMAIN data \cup {NoFile}]
          /\ safety \in [Safeties -> DOMAIN data \cup {NoFile}]
      BY DEF RestoreInit
    <2>3. stamp \in Original .. Original + MaxWrites /\ outside \in Nat
      BY SMTT(30) DEF RestoreInit, Original
    <2>1. FileTypes
      BY <1>1, <2>0, <2>3 DEF FileTypes
    <2>2. LockTypes /\ StoreTypes
      BY DEF RestoreInit, LockTypes, StoreTypes, StoreRecords, NoFile
    <2> QED BY SMTT(30), <1>3, <2>1, <2>2 DEF TypeInv
  <1>5. WholeFiles /\ ApartInv
    BY <1>1 DEF RestoreInit, WholeFiles, ApartInv
  <1>6. ContentInv
    BY SMTT(30), <1>1, <1>2 DEF RestoreInit, ContentInv, Used
  <1>7. LocksInv
    BY SMTT(30), <1>2 DEF LocksInv, Busy
  <1>8. \A r \in Restorers : RestorerInv(r)
    BY ZenonT(30), SMTT(30), <1>2 DEF RestorerInv, BeforeInv, CopyInv, SavedInv, StageInv, DisplacedInv
  <1>9. DistinctInv
    BY DEF RestoreInit, DistinctInv
  <1> QED BY <1>4, <1>5, <1>6, <1>7, <1>8, <1>9 DEF RestoreInv

\* Every step of a restore keeps the invariant and loses nothing.
LEMMA RestorerStep ==
  ASSUME IntervalsCount, RestoreInv, NEW r \in Restorers, RestoreStep(r) \/ CrashRestore(r)
  PROVE  RestoreInv' /\ Kept \ {Backup} \subseteq Kept'
  BY QuietSteps, CaptureBeforeKeeps, CaptureDisplacedKeeps, RemovalSteps, CreateSteps,
     CopySafetyKeeps, FillStageKeeps, LinkSafetyKeeps, ExchangeKeeps,
     ExchangeBackKeeps, PublishNewKeeps DEF RestoreStep

\* Every step keeps the invariant, and a step of a restore loses nothing.
LEMMA NextRestore ==
  ASSUME IntervalsCount, RestoreInv, [RestoreNext]_restoreVars
  PROVE  /\ RestoreInv'
         /\ restorer' # restorer => Kept \ {Backup} \subseteq Kept'
  <1>1. ASSUME NEW r \in Restorers, RestoreStep(r) \/ CrashRestore(r)
        PROVE  RestoreInv' /\ Kept \ {Backup} \subseteq Kept'
    BY <1>1, RestorerStep
  <1>2. ASSUME NEW s \in Stores, StoreStep(s)
        PROVE  RestoreInv' /\ restorer' = restorer
    <2>1. RestoreInv'
      BY <1>2, StoreLocksKeep, StoreOpensKeeps, StoreWritesKeeps DEF StoreStep
    <2>2. restorer' = restorer
      BY <1>2 DEF StoreStep, StoreChecks, StoreLocks, StoreOpens, StoreWrites, StoreCloses
    <2> QED BY <2>1, <2>2
  <1>3. CASE Outside
    <2>1. restorer' = restorer
      BY <1>3 DEF Outside, OutsideWrites, OutsideReplaces, OutsideRemoves
    <2> QED BY <1>3, <2>1, OutsideKeeps
  <1>4. CASE UNCHANGED restoreVars
    <2>1. UNCHANGED <<dest, stage, copy, safety, data, stamp, access, writer, guard,
                      restorer, store, outside>>
      BY <1>4 DEF restoreVars
    <2>2. TypeInv'
      BY SMTT(30), <2>1 DEF RestoreInv, TypeInv, FileTypes, LockTypes, StoreTypes, NoFile, Original
    <2>3. WorldStep
      <3>1. stamp \in Nat /\ outside \in Nat
        BY SMTT(30), RestoreAssumption DEF RestoreInv, TypeInv, FileTypes, Original
      <3> QED BY SMTT(30), <2>1, <3>1 DEF WorldStep
    <2>4. (\A f \in DOMAIN data : Used(data[f]))'
      BY <2>1 DEF RestoreInv, ContentInv, Used, Original
    <2> QED BY <2>1, <2>2, <2>3, <2>4, WorldKeeps
  <1> QED BY <1>1, <1>2, <1>3, <1>4 DEF RestoreNext


\* The invariant gives what the run checks of every state.
LEMMA RestoreInvImplies ==
  ASSUME IntervalsCount, RestoreInv
  PROVE  RestoreTypeOK /\ WholeFiles /\ OldIsSaved /\ OpenableAfterwards
  <1>1. TypeInv /\ FileTypes /\ LockTypes /\ ApartInv /\ DistinctInv /\ WholeFiles
    BY DEF RestoreInv, TypeInv
  <1>2. RestoreTypeOK
    BY SMTT(30), SMTT(30), <1>1 DEF RestoreTypeOK, FileTypes, LockTypes
  <1>3. OldIsSaved
    <2> SUFFICES ASSUME NEW r \in Restorers, At(r, "ok"), Exchanged(r)
                 PROVE  /\ safety[restorer[r].safe] # NoFile
                        /\ data[safety[restorer[r].safe]] = restorer[r].took
      BY DEF OldIsSaved
    <2>1. RestorerInv(r)
      BY SMTT(30) DEF RestoreInv
    <2> QED BY SMTT(30), <2>1 DEF RestorerInv, BeforeInv, SavedInv, SavedBefore, DisplacedInv,
                        At, Exchanged
  <1>4. OpenableAfterwards
    <2> SUFFICES ASSUME \A r \in Restorers :
                          restorer[r].pc \in {"idle", "checked", "ok", "failed"},
                        dest # NoFile
                 PROVE  Links(dest) = 1
      BY DEF OpenableAfterwards, SingleLink
    <2>1. \A r \in Restorers : stage[r] # dest /\ copy[r] # dest
      BY <1>1 DEF DistinctInv, ApartInv, Aside
    <2>2. \A k \in Safeties : safety[k] # dest
      BY SMTT(30), <1>1 DEF ApartInv, Aside
    <2>3. /\ {r \in Restorers : stage[r] = dest} = {}
          /\ {r \in Restorers : copy[r] = dest} = {}
          /\ {k \in Safeties : safety[k] = dest} = {}
      BY SMTT(30), <2>1, <2>2
    <2>4. Cardinality({}) = 0
      <3>1. {} = 1..0 /\ 0 \in Nat
        BY SMTT(30), SMTT(30)
      <3> QED BY <3>1 DEF IntervalsCount
    <2> QED BY SMTT(30), SMTT(30), <2>3, <2>4 DEF Links
  <1> QED BY <1>1, <1>2, <1>3, <1>4

\* How the access locks change: they stay, one goes, or one is taken where
\* the others allow it.
LEMMA AccessSteps ==
  ASSUME RestoreInv, [RestoreNext]_restoreVars
  PROVE  \/ access' = access
         \/ \E p \in Processes : access' = [access EXCEPT ![p] = "none"]
         \/ \E r \in Restorers : /\ Compatible(r, "exclusive")
                                 /\ access' = [access EXCEPT ![r] = "exclusive"]
         \/ \E s \in Stores : /\ Compatible(s, "shared")
                              /\ access' = [access EXCEPT ![s] = "shared"]
  <1>0. Restorers \subseteq Processes /\ Stores \subseteq Processes
    BY SMTT(30) DEF Processes
  <1>1. ASSUME NEW r \in Restorers, RestoreStep(r) \/ CrashRestore(r)
        PROVE  \/ access' = access
               \/ access' = [access EXCEPT ![r] = "none"]
               \/ /\ Compatible(r, "exclusive")
                  /\ access' = [access EXCEPT ![r] = "exclusive"]
    <2>1. CASE ExchangeBack(r) \/ RemoveStage(r) \/ Abort(r) \/ CrashRestore(r)
      BY <2>1 DEF ExchangeBack, RemoveStage, Abort, CrashRestore, Release
    <2>2. CASE LockExclusive(r)
      BY <2>2 DEF LockExclusive, Take
    <2>3. CASE CheckLinks(r) \/ LockWriter(r) \/ LockExisting(r) \/ CaptureBefore(r)
               \/ CreateCopy(r) \/ CopySafety(r) \/ LinkSafety(r)
      BY <2>3 DEF CheckLinks, LockWriter, LockExisting, CaptureBefore, CreateCopy,
                  CopySafety, LinkSafety, locks
    <2>4. CASE CaptureAfter(r) \/ CreateStage(r) \/ FillStage(r) \/ CompareUnchanged(r)
               \/ Exchange(r) \/ CaptureDisplaced(r) \/ PublishNew(r)
      BY <2>4 DEF CaptureAfter, CreateStage, FillStage, CompareUnchanged, Exchange,
                  CaptureDisplaced, PublishNew, locks
    <2> QED BY SMTT(30), <1>1, <2>1, <2>2, <2>3, <2>4 DEF RestoreStep
  <1>2. ASSUME NEW s \in Stores, StoreStep(s)
        PROVE  \/ access' = access
               \/ access' = [access EXCEPT ![s] = "none"]
               \/ /\ Compatible(s, "shared")
                  /\ access' = [access EXCEPT ![s] = "shared"]
    <2>1. CASE StoreChecks(s) \/ StoreWrites(s) \/ StoreOpens(s)
      BY <2>1 DEF StoreChecks, StoreWrites, StoreOpens, Take, locks
    <2>2. CASE StoreLocks(s) \/ StoreCloses(s)
      BY <2>2 DEF StoreLocks, StoreCloses, Take
    <2> QED BY <1>2, <2>1, <2>2 DEF StoreStep
  <1>3. CASE Outside
    BY <1>3 DEF Outside, OutsideWrites, OutsideReplaces, OutsideRemoves, locks
  <1>4. CASE UNCHANGED restoreVars
    BY <1>4 DEF restoreVars
  <1> QED BY <1>0, <1>1, <1>2, <1>3, <1>4 DEF RestoreNext

\* With one directory of access locks, no two processes hold it against each
\* other.
LEMMA AccessStays ==
  ASSUME OneLockDirectory, RestoreInv, AccessInv, [RestoreNext]_restoreVars
  PROVE  AccessInv'
  <1>1. access \in [Processes -> {"none", "shared", "exclusive"}]
    BY DEF RestoreInv, TypeInv, LockTypes
  <1>2. ASSUME NEW p \in Processes, access' = [access EXCEPT ![p] = "none"]
        PROVE  AccessInv'
    BY <1>1, <1>2 DEF AccessInv
  <1>3. ASSUME NEW r \in Restorers, Compatible(r, "exclusive"),
               access' = [access EXCEPT ![r] = "exclusive"]
        PROVE  AccessInv'
    <2>1. r \in Processes /\ \A q \in Processes : q # r => access[q] = "none"
      BY <1>3 DEF Compatible, OneLockDirectory, Processes
    <2> QED BY <1>1, <1>3, <2>1 DEF AccessInv
  <1>4. ASSUME NEW s \in Stores, Compatible(s, "shared"),
               access' = [access EXCEPT ![s] = "shared"]
        PROVE  AccessInv'
    <2>1. /\ s \in Processes
          /\ \A q \in Processes : q # s => access[q] \in {"none", "shared"}
      BY <1>4 DEF Compatible, OneLockDirectory, Processes
    <2> QED BY <1>1, <1>4, <2>1 DEF AccessInv
  <1>5. CASE access' = access
    BY <1>5 DEF AccessInv
  <1> QED BY <1>2, <1>3, <1>4, <1>5, AccessSteps

\* A store holds the access lock from before it opens the file until it
\* closes it.
LEMMA OpenStays ==
  ASSUME RestoreInv, OpenInv, [RestoreNext]_restoreVars
  PROVE  OpenInv'
  <1>1. TypeInv /\ access \in [Processes -> {"none", "shared", "exclusive"}]
        /\ Stores \subseteq Processes
    BY DEF RestoreInv, TypeInv, LockTypes, Processes
  <1>2. ASSUME NEW r \in Restorers, RestoreStep(r) \/ CrashRestore(r)
        PROVE  OpenInv'
    <2>1. store' = store
      <3>1. CASE CheckLinks(r) \/ LockExclusive(r) \/ LockWriter(r) \/ LockExisting(r)
                 \/ CaptureBefore(r) \/ CreateCopy(r) \/ CopySafety(r) \/ LinkSafety(r)
        BY <3>1 DEF CheckLinks, LockExclusive, LockWriter, LockExisting, CaptureBefore,
                    CreateCopy, CopySafety, LinkSafety
      <3>2. CASE CaptureAfter(r) \/ CreateStage(r) \/ FillStage(r)
                 \/ CompareUnchanged(r) \/ Exchange(r) \/ CaptureDisplaced(r)
        BY SMTT(30), <3>2 DEF CaptureAfter, CreateStage, FillStage, CompareUnchanged, Exchange,
                    CaptureDisplaced
      <3>3. CASE ExchangeBack(r) \/ PublishNew(r) \/ RemoveStage(r) \/ Abort(r)
                 \/ CrashRestore(r)
        BY ZenonT(30), <3>3 DEF ExchangeBack, PublishNew, RemoveStage, Abort, CrashRestore
      <3> QED BY <1>2, <3>1, <3>2, <3>3 DEF RestoreStep
    <2>2. \A s \in Stores : access'[s] = access[s]
      <3>1. CASE access' = [access EXCEPT ![r] = "none"]
                 \/ access' = [access EXCEPT ![r] = "exclusive"]
        BY SMTT(30), <1>1, <3>1, StoresAreOthers
      <3>2. CASE ExchangeBack(r) \/ RemoveStage(r) \/ Abort(r) \/ CrashRestore(r)
        BY <3>1, <3>2 DEF ExchangeBack, RemoveStage, Abort, CrashRestore, Release
      <3>3. CASE LockExclusive(r)
        BY <3>1, <3>3 DEF LockExclusive, Take
      <3>4. CASE CheckLinks(r) \/ LockWriter(r) \/ LockExisting(r) \/ CaptureBefore(r)
                 \/ CreateCopy(r) \/ CopySafety(r) \/ LinkSafety(r)
        BY <3>4 DEF CheckLinks, LockWriter, LockExisting, CaptureBefore, CreateCopy,
                    CopySafety, LinkSafety, locks
      <3>5. CASE CaptureAfter(r) \/ CreateStage(r) \/ FillStage(r)
                 \/ CompareUnchanged(r) \/ Exchange(r) \/ CaptureDisplaced(r)
                 \/ PublishNew(r)
        BY <3>5 DEF CaptureAfter, CreateStage, FillStage, CompareUnchanged, Exchange,
                    CaptureDisplaced, PublishNew, locks
      <3> QED BY <1>2, <3>2, <3>3, <3>4, <3>5 DEF RestoreStep
    <2> QED BY <2>1, <2>2 DEF OpenInv
  <1>3. ASSUME NEW s \in Stores, StoreStep(s) PROVE OpenInv'
    <2>1. ASSUME NEW mode \in {"none", "shared"}, Take(s, mode),
                 \A t \in Stores : t # s => store'[t] = store[t],
                 store'[s].pc \in {"locked", "open"} => mode = "shared"
          PROVE  OpenInv'
      BY SMTT(30), <1>1, <2>1, TakeFacts DEF OpenInv
    <2>2. CASE StoreChecks(s)
      <3>1. UNCHANGED access /\ store' = [store EXCEPT ![s].pc = "checked"]
        BY <2>2 DEF StoreChecks, locks
      <3> QED BY <1>1, <3>1, StorePcBecomes DEF OpenInv
    <2>3. CASE StoreLocks(s)
      <3>1. CASE Compatible(s, "shared")
        BY <1>1, <2>1, <2>3, <3>1, StorePcBecomes DEF StoreLocks
      <3>2. CASE ~Compatible(s, "shared")
        <4>1. UNCHANGED access /\ store' = [store EXCEPT ![s].pc = "closed"]
          BY <2>3, <3>2 DEF StoreLocks
        <4> QED BY <1>1, <4>1, StorePcBecomes DEF OpenInv
      <3> QED BY <3>1, <3>2
    <2>4. CASE StoreOpens(s)
      <3>1. CASE UNCHANGED access
        <4>1. access[s] = "shared"
          BY <2>4 DEF StoreOpens, OpenInv
        <4>2. \A t \in Stores : t # s => store'[t] = store[t]
          BY <1>1, <2>4 DEF StoreOpens, TypeInv, StoreTypes
        <4> QED BY <3>1, <4>1, <4>2 DEF OpenInv
      <3>2. CASE Take(s, "none") /\ store' = [store EXCEPT ![s].pc = "closed"]
        BY <1>1, <2>1, <3>2, StorePcBecomes
      <3> QED BY <2>4, <3>1, <3>2 DEF StoreOpens
    <2>5. CASE StoreWrites(s)
      BY <2>5 DEF StoreWrites, OpenInv, locks
    <2>6. CASE StoreCloses(s)
      <3>1. /\ Take(s, "none")
            /\ store' = [store EXCEPT ![s] = [pc |-> "closed", file |-> NoFile]]
        BY <2>6 DEF StoreCloses
      <3>2. /\ store'[s].pc = "closed"
            /\ \A t \in Stores : t # s => store'[t] = store[t]
        BY <1>1, <3>1 DEF TypeInv, StoreTypes
      <3> QED BY <2>1, <3>1, <3>2
    <2> QED BY SMTT(30), <1>3, <2>2, <2>3, <2>4, <2>5, <2>6 DEF StoreStep
  <1>4. CASE Outside
    BY SMTT(30), <1>4 DEF Outside, OutsideWrites, OutsideReplaces, OutsideRemoves, OpenInv, locks
  <1>5. CASE UNCHANGED restoreVars
    BY SMTT(30), <1>5 DEF restoreVars, OpenInv
  <1> QED BY <1>2, <1>3, <1>4, <1>5 DEF RestoreNext


\* A restore gives the database another file only while no store is open.
LEMMA ExchangeAlone ==
  ASSUME RestoreInv, AccessInv, OpenInv, [RestoreNext]_restoreVars,
         restorer' # restorer, dest' # dest
  PROVE  \A s \in Stores : store[s].pc # "open"
  <1>1. ASSUME NEW r \in Restorers, RestoreStep(r) \/ CrashRestore(r)
        PROVE  restorer[r].pc \in Busy
    <2>1. CASE CheckLinks(r) \/ LockExclusive(r) \/ LockWriter(r) \/ LockExisting(r)
               \/ CaptureBefore(r) \/ CompareUnchanged(r) \/ CaptureDisplaced(r)
               \/ CrashRestore(r)
      BY SMTT(30), <2>1 DEF CheckLinks, LockExclusive, LockWriter, LockExisting, CaptureBefore,
                  CompareUnchanged, CaptureDisplaced, CrashRestore, files
    <2>2. CASE CreateCopy(r) \/ CopySafety(r) \/ LinkSafety(r) \/ CaptureAfter(r)
               \/ CreateStage(r) \/ FillStage(r) \/ RemoveStage(r) \/ Abort(r)
      BY <2>2 DEF CreateCopy, CopySafety, LinkSafety, CaptureAfter, CreateStage,
                  FillStage, RemoveStage, Abort, names
    <2>3. CASE Exchange(r) \/ ExchangeBack(r) \/ PublishNew(r)
      BY <2>3 DEF Exchange, ExchangeBack, PublishNew, At, Busy
    <2> QED BY <1>1, <2>1, <2>2, <2>3 DEF RestoreStep
  <1>2. PICK r \in Restorers : restorer[r].pc \in Busy
    <2>1. ASSUME NEW s \in Stores, StoreStep(s) PROVE FALSE
      BY <2>1 DEF StoreStep, StoreChecks, StoreLocks, StoreOpens, StoreWrites, StoreCloses
    <2>2. CASE Outside
      BY <2>2 DEF Outside, OutsideWrites, OutsideReplaces, OutsideRemoves
    <2>3. CASE UNCHANGED restoreVars
      BY <2>3 DEF restoreVars
    <2> QED BY <1>1, <2>1, <2>2, <2>3 DEF RestoreNext
  <1>3. access[r] = "exclusive"
    BY <1>2 DEF RestoreInv, LocksInv
  <1> QED BY <1>3, StoresAreOthers DEF AccessInv, OpenInv

-----------------------------------------------------------------------------
(***************************************************************************)
(* The theorems                                                            *)
(***************************************************************************)
INSTANCE FiniteSetTheorems

LEMMA IntervalsAreCounted == IntervalsCount
BY SMTT(30), FS_Interval DEF IntervalsCount

\* Whatever the other processes and programs do and wherever a restore dies:
\* the database and the safety copies are complete files, a restore that
\* succeeded has saved exactly what it displaced, restores that were not
\* killed leave a database that can be opened, and no step of restore_from
\* destroys the last copy of anything but the backup.
THEOREM RestoreLosesNothing ==
  RestoreSpec =>
    /\ [](RestoreTypeOK /\ WholeFiles /\ OldIsSaved /\ OpenableAfterwards)
    /\ NothingLost
  <1>1. RestoreInv /\ [RestoreNext]_restoreVars => RestoreInv'
    BY IntervalsAreCounted, NextRestore
  <1>2. RestoreInv /\ [RestoreNext]_restoreVars =>
          [restorer' # restorer => Kept \ {Backup} \subseteq Kept']_restoreVars
    BY IntervalsAreCounted, NextRestore
  <1>3. RestoreInv => RestoreTypeOK /\ WholeFiles /\ OldIsSaved /\ OpenableAfterwards
    BY IntervalsAreCounted, RestoreInvImplies
  <1> QED BY <1>1, <1>2, <1>3, InitRestore, PTL
          DEF RestoreSpec, NothingLost

\* If all processes keep their access locks in the same directory, a restore
\* is safe in full: it also never changes the file under an open store.
THEOREM RestoresAreSafe ==
  ASSUME OneLockDirectory
  PROVE  RestoreSpec => RestoreIsSafe
  <1> DEFINE Inv == RestoreInv /\ AccessInv /\ OpenInv
  <1>1. RestoreInit => Inv
    <2>1. RestoreInit => AccessInv /\ OpenInv
      BY SMTT(30) DEF RestoreInit, AccessInv, OpenInv
    <2> QED BY SMTT(30), <2>1, InitRestore
  <1>2. Inv /\ [RestoreNext]_restoreVars => Inv'
    BY IntervalsAreCounted, NextRestore, AccessStays, OpenStays
  <1>3. Inv /\ [RestoreNext]_restoreVars =>
          [restorer' # restorer /\ dest' # dest =>
             \A s \in Stores : store[s].pc # "open"]_restoreVars
    BY ExchangeAlone
  <1>4. RestoreSpec => RestoreExcludesStores
    BY <1>1, <1>2, <1>3, PTL DEF RestoreSpec, RestoreExcludesStores
  <1> QED BY <1>4, RestoreLosesNothing, PTL DEF RestoreIsSafe

=============================================================================
