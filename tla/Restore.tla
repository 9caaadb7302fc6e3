------------------------------ MODULE Restore ------------------------------
(***************************************************************************)
(* Restoring a backup over a database: the access lock that store          *)
(* connections share and a restore takes exclusively, the safety copy of   *)
(* the destination, the staged copy of the backup, and the atomic exchange *)
(* that is compared afterwards and undone if the displaced file is not the *)
(* one that was saved.  Any process may die anywhere, and other programs   *)
(* of the machine take part without the locks: they write the database     *)
(* through SQLite, replace the file or remove it.                          *)
(*                                                                         *)
(* A file is a number (NoFile is none) with a content; a hard link is a    *)
(* second name of the same file.  This is the Linux build: RENAME_EXCHANGE *)
(* and POSIX record locks.                                                 *)
(***************************************************************************)
EXTENDS Naturals, FiniteSets

CONSTANTS
  Restorers,       \* processes that run `csgraph restore` once
  Stores,          \* processes that open the store
  LockDirectory,   \* the directory of access locks each process uses
  MaxWrites,       \* bound: publications of the stores
  MaxOutside,      \* bound: steps of other programs
  None

ASSUME RestoreAssumption ==
  /\ IsFiniteSet(Restorers) /\ Restorers \cap Stores = {}
  /\ None \notin Nat \cup Restorers
  /\ DOMAIN LockDirectory = Restorers \cup Stores
  /\ {MaxWrites, MaxOutside} \subseteq Nat

NoFile == 0

\* Contents: four that are named, and then one for every later write.
Partial == 0    \* still being written
Backup == 1     \* what the validated source holds
Corrupt == 2
Original == 3

Processes == Restorers \cup Stores
Safeties == 1 .. Cardinality(Restorers)

VARIABLES
  dest, stage, copy, safety,   \* names: the database, staging, safety copies
  data,                        \* the content of each file
  stamp,                       \* contents written so far
  access,                      \* the access lock each process holds
  writer,                      \* holder of the writer lock
  guard,                       \* [holder, file] of the SQLite write lock
  restorer, store,             \* the processes
  outside                      \* steps other programs have taken

names == <<dest, stage, copy, safety>>
files == <<dest, stage, copy, safety, data, stamp>>
locks == <<access, writer, guard>>
restoreVars == <<dest, stage, copy, safety, data, stamp, access, writer, guard,
                 restorer, store, outside>>

Snapshot(file) == [file |-> file, content |-> data[file]]
NoSnapshot == [file |-> NoFile, content |-> None]

Links(file) ==
  (IF dest = file THEN 1 ELSE 0)
  + Cardinality({r \in Restorers : stage[r] = file})
  + Cardinality({r \in Restorers : copy[r] = file})
  + Cardinality({k \in Safeties : safety[k] = file})

\* A new file, with what is in it.
File == Cardinality(DOMAIN data) + 1
Create(content) == data' = [i \in DOMAIN data \cup {File} |->
                              IF i = File THEN content ELSE data[i]]

\* The database is absent, intact or corrupt.
RestoreInit ==
  /\ \/ dest = NoFile /\ data = [i \in {} |-> None]
     \/ dest = 1 /\ \E content \in {Original, Corrupt} : data = [i \in {1} |-> content]
  /\ stage = [r \in Restorers |-> NoFile]
  /\ copy = [r \in Restorers |-> NoFile]
  /\ safety = [k \in Safeties |-> NoFile]
  /\ stamp = Original
  /\ access = [p \in Processes |-> "none"]
  /\ writer = None
  /\ guard = None
  /\ restorer = [r \in Restorers |->
       [pc |-> "idle", before |-> NoSnapshot, safe |-> 0, took |-> None]]
  /\ store = [s \in Stores |-> [pc |-> "closed", file |-> NoFile]]
  /\ outside = 0

-----------------------------------------------------------------------------
(***************************************************************************)
(* The access lock                                                         *)
(***************************************************************************)
SingleLink == dest = NoFile \/ Links(dest) = 1

\* try_lock: the holders that use the same lock file decide.
Compatible(p, mode) ==
  \A q \in Processes \ {p} :
    LockDirectory[q] = LockDirectory[p] =>
      \/ access[q] = "none"
      \/ mode = "shared" /\ access[q] = "shared"

Take(p, mode) == access' = [access EXCEPT ![p] = mode]

-----------------------------------------------------------------------------
(***************************************************************************)
(* restore_from                                                            *)
(***************************************************************************)
Pc(r, pc) == restorer' = [restorer EXCEPT ![r].pc = pc]
At(r, pc) == restorer[r].pc = pc

\* Every lock goes when the function returns and when the process dies.
Release(r) ==
  /\ access' = [access EXCEPT ![r] = "none"]
  /\ writer' = IF writer = r THEN None ELSE writer
  /\ guard' = IF guard # None /\ guard.holder = r THEN None ELSE guard

\* POSIX: closing any descriptor of a file drops the record locks that the
\* process has on it, those of its SQLite connection included.
CloseDescriptor(r) ==
  guard' = IF guard # None /\ guard.holder = r /\ guard.file = dest
           THEN None ELSE guard

CheckLinks(r) ==
  /\ At(r, "idle")
  /\ Pc(r, IF SingleLink THEN "checked" ELSE "failed")
  /\ UNCHANGED <<files, locks, store, outside>>

LockExclusive(r) ==
  /\ At(r, "checked")
  /\ IF Compatible(r, "exclusive")
     THEN Take(r, "exclusive") /\ Pc(r, "locked")
     ELSE Pc(r, "failed") /\ UNCHANGED access
  /\ UNCHANGED <<files, writer, guard, store, outside>>

\* StoreLock::acquire, which waits, then the source is opened and validated.
LockWriter(r) ==
  /\ At(r, "locked") /\ writer = None
  /\ writer' = r
  /\ Pc(r, IF dest = NoFile THEN "stage" ELSE "existing")
  /\ UNCHANGED <<files, access, guard, store, outside>>

\* lock_existing_destination: a corrupt file cannot be locked.
LockExisting(r) ==
  /\ At(r, "existing") /\ dest # NoFile
  /\ guard' = IF data[dest] = Corrupt THEN guard
              ELSE [holder |-> r, file |-> dest]
  /\ Pc(r, "before")
  /\ UNCHANGED <<files, access, writer, store, outside>>

\* next_backup_path: the first name that no file has.
NextSafety(k) ==
  safety[k] = NoFile /\ \A j \in Safeties : j < k => safety[j] # NoFile

\* The first snapshot, and the name of the safety copy.
CaptureBefore(r) ==
  /\ At(r, "before") /\ dest # NoFile
  /\ \E k \in Safeties :
       /\ NextSafety(k)
       /\ restorer' = [restorer EXCEPT ![r].pc = "copying",
                         ![r].before = Snapshot(dest), ![r].safe = k]
  /\ CloseDescriptor(r)
  /\ UNCHANGED <<files, access, writer, store, outside>>

CreateCopy(r) ==
  /\ At(r, "copying")
  /\ Create(Partial)
  /\ copy' = [copy EXCEPT ![r] = File]
  /\ Pc(r, "copied")
  /\ UNCHANGED <<dest, stage, safety, stamp, locks, store, outside>>

CopySafety(r) ==
  /\ At(r, "copied") /\ dest # NoFile
  /\ data' = [data EXCEPT ![copy[r]] = data[dest]]
  /\ CloseDescriptor(r)
  /\ Pc(r, "link")
  /\ UNCHANGED <<names, stamp, access, writer, store, outside>>

\* publish_new_database_file: a hard link, refused if the name exists.
LinkSafety(r) ==
  /\ At(r, "link") /\ safety[restorer[r].safe] = NoFile
  /\ safety' = [safety EXCEPT ![restorer[r].safe] = copy[r]]
  /\ Pc(r, "linked")
  /\ UNCHANGED <<dest, stage, copy, data, stamp, locks, store, outside>>

\* The staging of the copy goes; then the second snapshot.
CaptureAfter(r) ==
  /\ At(r, "linked") /\ dest # NoFile
  /\ Snapshot(dest) = restorer[r].before
  /\ data[copy[r]] = restorer[r].before.content
  /\ copy' = [copy EXCEPT ![r] = NoFile]
  /\ CloseDescriptor(r)
  /\ Pc(r, "stage")
  /\ UNCHANGED <<dest, stage, safety, data, stamp, access, writer, store, outside>>

\* The staged database: created, then copied from the source and validated.
CreateStage(r) ==
  /\ At(r, "stage")
  /\ Create(Partial)
  /\ stage' = [stage EXCEPT ![r] = File]
  /\ Pc(r, "staged")
  /\ UNCHANGED <<dest, copy, safety, stamp, locks, store, outside>>

FillStage(r) ==
  /\ At(r, "staged")
  /\ data' = [data EXCEPT ![stage[r]] = Backup]
  /\ Pc(r, IF restorer[r].before = NoSnapshot THEN "create" ELSE "compare")
  /\ UNCHANGED <<names, stamp, locks, store, outside>>

\* The destination is compared once more.
CompareUnchanged(r) ==
  /\ At(r, "compare") /\ dest # NoFile
  /\ Snapshot(dest) = restorer[r].before
  /\ CloseDescriptor(r)
  /\ Pc(r, "exchange")
  /\ UNCHANGED <<files, access, writer, store, outside>>

Swap(r) == dest' = stage[r] /\ stage' = [stage EXCEPT ![r] = dest]

\* renameat2 with RENAME_EXCHANGE; took is a history variable.
Exchange(r) ==
  /\ At(r, "exchange") /\ dest # NoFile
  /\ Swap(r)
  /\ restorer' = [restorer EXCEPT ![r].pc = "displaced", ![r].took = data[dest]]
  /\ UNCHANGED <<copy, safety, data, stamp, locks, store, outside>>

\* Mutant: the displaced file is only compared by what the path names.
CaptureIdentity(r) ==
  /\ At(r, "displaced")
  /\ Pc(r, IF stage[r] = restorer[r].before.file THEN "clean" ELSE "back")
  /\ UNCHANGED <<files, locks, store, outside>>

\* The displaced file is the one that was saved, or the exchange is undone.
CaptureDisplaced(r) ==
  /\ At(r, "displaced")
  /\ \E readable \in BOOLEAN :
       Pc(r, IF readable /\ Snapshot(stage[r]) = restorer[r].before
             THEN "clean" ELSE "back")
  /\ guard' = IF guard # None /\ guard.file = stage[r] THEN None ELSE guard
  /\ UNCHANGED <<files, access, writer, store, outside>>

ExchangeBack(r) ==
  /\ At(r, "back") /\ dest # NoFile
  /\ Swap(r)
  /\ Pc(r, "failed")
  /\ Release(r)
  /\ UNCHANGED <<copy, safety, data, stamp, store, outside>>

PublishNew(r) ==
  /\ At(r, "create") /\ dest = NoFile
  /\ dest' = stage[r]
  /\ Pc(r, "clean")
  /\ UNCHANGED <<stage, copy, safety, data, stamp, locks, store, outside>>

\* The staging directory is removed and the function returns.
RemoveStage(r) ==
  /\ At(r, "clean")
  /\ stage' = [stage EXCEPT ![r] = NoFile]
  /\ Release(r)
  /\ Pc(r, "ok")
  /\ UNCHANGED <<dest, copy, safety, data, stamp, store, outside>>

Preparing == {"locked", "existing", "before", "copying", "copied", "link",
              "linked", "stage", "staged", "compare", "create"}

\* An error before the publication removes the staging directories; a failed
\* exchange, forth or back, keeps them.
Abort(r) ==
  /\ \/ /\ restorer[r].pc \in Preparing
        /\ stage' = [stage EXCEPT ![r] = NoFile]
        /\ copy' = [copy EXCEPT ![r] = NoFile]
     \/ /\ restorer[r].pc \in {"exchange", "back"}
        /\ UNCHANGED <<stage, copy>>
  /\ Pc(r, "failed")
  /\ Release(r)
  /\ UNCHANGED <<dest, safety, data, stamp, store, outside>>

\* The process dies: the kernel drops its locks, the files stay.
CrashRestore(r) ==
  /\ restorer[r].pc \notin {"idle", "ok", "failed", "crashed"}
  /\ Pc(r, "crashed")
  /\ Release(r)
  /\ UNCHANGED <<files, store, outside>>

RestoreStep(r) ==
  \/ CheckLinks(r) \/ LockExclusive(r) \/ LockWriter(r) \/ LockExisting(r)
  \/ CaptureBefore(r) \/ CreateCopy(r) \/ CopySafety(r) \/ LinkSafety(r)
  \/ CaptureAfter(r) \/ CreateStage(r) \/ FillStage(r) \/ CompareUnchanged(r)
  \/ Exchange(r) \/ CaptureDisplaced(r) \/ ExchangeBack(r) \/ PublishNew(r)
  \/ RemoveStage(r) \/ Abort(r)

-----------------------------------------------------------------------------
(***************************************************************************)
(* SqliteStore::open and its life                                          *)
(***************************************************************************)
StoreChecks(s) ==
  /\ store[s].pc = "closed" /\ SingleLink
  /\ store' = [store EXCEPT ![s].pc = "checked"]
  /\ UNCHANGED <<files, locks, restorer, outside>>

StoreLocks(s) ==
  /\ store[s].pc = "checked"
  /\ IF Compatible(s, "shared")
     THEN Take(s, "shared") /\ store' = [store EXCEPT ![s].pc = "locked"]
     ELSE store' = [store EXCEPT ![s].pc = "closed"] /\ UNCHANGED access
  /\ UNCHANGED <<files, writer, guard, restorer, outside>>

\* open_exact: a new database is initialized, a corrupt one refused.
StoreOpens(s) ==
  /\ store[s].pc = "locked"
  /\ \/ /\ dest = NoFile /\ stamp < Original + MaxWrites
        /\ Create(stamp + 1) /\ dest' = File /\ stamp' = stamp + 1
        /\ store' = [store EXCEPT ![s] = [pc |-> "open", file |-> File]]
        /\ UNCHANGED access
     \/ /\ dest # NoFile /\ data[dest] # Corrupt
        /\ store' = [store EXCEPT ![s] = [pc |-> "open", file |-> dest]]
        /\ UNCHANGED <<dest, data, stamp, access>>
     \/ /\ dest # NoFile /\ data[dest] = Corrupt
        /\ store' = [store EXCEPT ![s].pc = "closed"]
        /\ Take(s, "none")
        /\ UNCHANGED <<dest, data, stamp>>
  /\ UNCHANGED <<stage, copy, safety, writer, guard, restorer, outside>>

\* A publication, under the writer lock and SQLite's.
StoreWrites(s) ==
  /\ store[s].pc = "open" /\ stamp < Original + MaxWrites
  /\ writer = None
  /\ guard # None => guard.file # store[s].file
  /\ data' = [data EXCEPT ![store[s].file] = stamp + 1]
  /\ stamp' = stamp + 1
  /\ UNCHANGED <<names, locks, restorer, store, outside>>

\* The connection is dropped, or the process dies.
StoreCloses(s) ==
  /\ store[s].pc \in {"locked", "open"}
  /\ store' = [store EXCEPT ![s] = [pc |-> "closed", file |-> NoFile]]
  /\ Take(s, "none")
  /\ UNCHANGED <<files, writer, guard, restorer, outside>>

StoreStep(s) == StoreChecks(s) \/ StoreLocks(s) \/ StoreOpens(s)
                \/ StoreWrites(s) \/ StoreCloses(s)

-----------------------------------------------------------------------------
(***************************************************************************)
(* Other programs                                                          *)
(***************************************************************************)
\* The staging directory holds the displaced file.
Exchanged(r) == restorer[r].took # None

\* A write through SQLite, which honours its lock; the connection may be to
\* a file that has lost its name since.
OutsideWrites(file) ==
  /\ outside < MaxOutside
  /\ data[file] \notin {Partial, Corrupt}
  /\ \/ file = dest
     \/ \E r \in Restorers : stage[r] = file /\ Exchanged(r)
  /\ guard # None => guard.file # file
  /\ data' = [data EXCEPT ![file] = Original + MaxWrites + 1 + outside]
  /\ outside' = outside + 1
  /\ UNCHANGED <<names, stamp, locks, restorer, store>>

OutsideReplaces ==
  /\ outside < MaxOutside
  /\ Create(Original + MaxWrites + 1 + outside) /\ dest' = File
  /\ outside' = outside + 1
  /\ UNCHANGED <<stage, copy, safety, stamp, locks, restorer, store>>

OutsideRemoves ==
  /\ outside < MaxOutside /\ dest # NoFile
  /\ dest' = NoFile
  /\ outside' = outside + 1
  /\ UNCHANGED <<stage, copy, safety, data, stamp, locks, restorer, store>>

Outside == (\E file \in DOMAIN data : OutsideWrites(file))
           \/ OutsideReplaces \/ OutsideRemoves

-----------------------------------------------------------------------------
RestoreNext ==
  \/ \E r \in Restorers : RestoreStep(r) \/ CrashRestore(r)
  \/ \E s \in Stores : StoreStep(s)
  \/ Outside

RestoreSpec == RestoreInit /\ [][RestoreNext]_restoreVars

-----------------------------------------------------------------------------
(***************************************************************************)
(* Properties                                                              *)
(***************************************************************************)
RestoreTypeOK ==
  /\ {dest} \cup {stage[r] : r \in Restorers} \cup {copy[r] : r \in Restorers}
       \cup {safety[k] : k \in Safeties} \subseteq DOMAIN data \cup {NoFile}
  /\ stamp \in Original .. Original + MaxWrites
  /\ \A p \in Processes : access[p] \in {"none", "shared", "exclusive"}
  /\ writer \in Restorers \cup {None}
  /\ guard # None => guard.holder \in Restorers /\ guard.file \in DOMAIN data

\* At every moment, and wherever a process dies, the database and the safety
\* copies are complete files: they get their names only once they are written.
WholeFiles ==
  /\ dest # NoFile => data[dest] # Partial
  /\ \A k \in Safeties : safety[k] # NoFile => data[safety[k]] # Partial

\* "The existing destination is first preserved as a non-overwriting safety
\* backup": after a restore that succeeded the safety copy holds exactly what
\* the exchange displaced, whatever other programs did in between.
OldIsSaved ==
  \A r \in Restorers : At(r, "ok") /\ Exchanged(r) =>
    /\ safety[restorer[r].safe] # NoFile
    /\ data[safety[restorer[r].safe]] = restorer[r].took

\* What has a name: the database, the safety copies, displaced files that
\* were not yet compared or that a failed restore keeps.
Kept ==
  {data[f] : f \in ({dest} \cup {safety[k] : k \in Safeties}
      \cup {stage[r] : r \in {q \in Restorers : Exchanged(q)
                               /\ ~At(q, "clean") /\ ~At(q, "ok")}}) \ {NoFile}}

\* No step of a restore, its failures included, destroys the last copy of
\* anything but the backup itself: not even of a file that another program
\* put in the place of the database a moment before the exchange.
NothingLost ==
  [][restorer' # restorer => Kept \ {Backup} \subseteq Kept']_restoreVars

\* "Restore is refused while another SqliteStore has the destination open":
\* no restore changes the file under an open store.
RestoreExcludesStores ==
  [][restorer' # restorer /\ dest' # dest =>
       \A s \in Stores : store[s].pc # "open"]_restoreVars

\* open_should_reject_hard_link_aliases: a second name makes every open fail.
\* Restores that were not killed leave the database with one name.
OpenableAfterwards ==
  (\A r \in Restorers : restorer[r].pc \in {"idle", "checked", "ok", "failed"})
    => SingleLink

(* A restore, crashed or finished, keeps the database that was there and the
   files that hold it whole, and exchanges it only while no store is open. *)
RestoreIsSafe ==
  /\ [](RestoreTypeOK /\ WholeFiles /\ OldIsSaved /\ OpenableAfterwards)
  /\ NothingLost
  /\ RestoreExcludesStores

\* "another SQLite writer must remain blocked through publication", from the
\* moment the safety copy is reported.
WritersAreBlocked ==
  [][\A r \in Restorers :
       restorer[r].pc \in {"stage", "staged", "compare", "exchange"}
       /\ restorer[r].before.content \notin {None, Corrupt}
       /\ dest = restorer[r].before.file
       => \A f \in DOMAIN data : f = dest => data'[f] = data[f]]_restoreVars
=============================================================================
