------------------------------ MODULE StoreLock ------------------------------
(***************************************************************************)
(* The sidecar writer lock of the SQLite store: a `<db>.lock` file made    *)
(* with create_new, holding pid, process start time and a token, unlinked  *)
(* by path when the guard is dropped or when a later acquirer judges it    *)
(* stale.                                                                  *)
(*                                                                         *)
(* An element of Threads is one caller of StoreLock::acquire and stands    *)
(* for the token it writes; ProcessOf gives the (pid, start time) pair.  A *)
(* process that ends is never the same process again, because the start    *)
(* time is compared with the pid.  Every file-system call is one step.     *)
(***************************************************************************)
CONSTANTS
  Threads,      \* callers of StoreLock::acquire
  Processes,    \* operating-system process instances
  ProcessOf,    \* the process each thread runs in
  NoFile,       \* the lock path does not exist
  Undecodable   \* LockMetadata::decode returned None

ASSUME ProcessOfAssumption == ProcessOf \in [Threads -> Processes]

VARIABLES
  file,     \* the file at the lock path: its creator, whether its content was
            \* written, whether its mtime is at least stale_after ago
  pc,       \* where each thread is inside acquire / drop
  seen,     \* the content a thread read from the path
  alive,    \* is the process instance running?
  (*************************************************************************)
  (* History variables, read by no guard.                                  *)
  (*************************************************************************)
  same,     \* the file a thread inspected is still the one at the path
  raced     \* windows through which a lock was unlinked wrongly

vars == <<file, pc, seen, alive, same, raced>>

Files == [owner : Threads, written : BOOLEAN, old : BOOLEAN]

ASSUME SentinelAssumption == Undecodable \notin Threads /\ NoFile \notin Files

\* "create" and "recreate" are create_lock_file in attempts 0 and 1.
Steps == {"idle", "create", "recreate", "write", "held", "stat", "read",
          "judge", "unlink", "dropunlink"}

Live(t) == alive[ProcessOf[t]]

TypeOK ==
  /\ file = NoFile \/ file \in Files
  /\ pc \in [Threads -> Steps]
  /\ seen \in [Threads -> Threads \cup {Undecodable}]
  /\ alive \in [Processes -> BOOLEAN]
  /\ same \in [Threads -> BOOLEAN]
  /\ raced \in SUBSET {"replaced", "unwritten"}

Init ==
  /\ file = NoFile
  /\ pc = [t \in Threads |-> "idle"]
  /\ seen = [t \in Threads |-> Undecodable]
  /\ alive = [p \in Processes |-> TRUE]
  /\ same = [t \in Threads |-> FALSE]
  /\ raced = {}

-----------------------------------------------------------------------------
(***************************************************************************)
(* StoreLock::acquire                                                      *)
(***************************************************************************)
At(t, step) == Live(t) /\ pc[t] = step

Goto(t, step) == pc' = [pc EXCEPT ![t] = step]

\* lock_is_stale returns: what it saw is gone with its stack frame.
Forget(t) ==
  /\ seen' = [seen EXCEPT ![t] = Undecodable]
  /\ same' = [same EXCEPT ![t] = FALSE]

AcquireStart(t) ==
  /\ At(t, "idle")
  /\ Goto(t, "create")
  /\ UNCHANGED <<file, seen, alive, same, raced>>

\* create_lock_file succeeded: an empty file exists from here on.
CreateNew(t) ==
  /\ At(t, "create") \/ At(t, "recreate")
  /\ file = NoFile
  /\ file' = [owner |-> t, written |-> FALSE, old |-> FALSE]
  /\ Goto(t, "write")
  /\ UNCHANGED <<seen, alive, same, raced>>

\* AlreadyExists: inspect the lock on the first attempt, else LockHeld.
CreateExists(t) ==
  /\ file # NoFile
  /\ \/ At(t, "create") /\ Goto(t, "stat")
     \/ At(t, "recreate") /\ Goto(t, "idle")
  /\ UNCHANGED <<file, seen, alive, same, raced>>

\* write_all and sync_all through the open descriptor: the content reaches
\* the path only if the created file is still linked there.
WriteContent(t) ==
  /\ At(t, "write")
  /\ file' = IF file # NoFile /\ file.owner = t
             THEN [file EXCEPT !.written = TRUE, !.old = FALSE]
             ELSE file
  /\ Goto(t, "held")
  /\ UNCHANGED <<seen, alive, same, raced>>

\* Any other I/O error returns from acquire; after create_new it leaves the
\* file behind, and no guard exists to remove it.
AcquireFails(t) ==
  /\ Live(t)
  /\ pc[t] \in {"create", "recreate", "write", "stat", "read", "unlink"}
  /\ Goto(t, "idle")
  /\ Forget(t)
  /\ UNCHANGED <<file, alive, raced>>

\* lock_is_stale, first call: the age of whatever is at the path now.
StatAge(t) ==
  /\ At(t, "stat")
  /\ IF file # NoFile /\ file.old
     THEN Goto(t, "read") /\ same' = [same EXCEPT ![t] = TRUE]
     ELSE Goto(t, "idle") /\ UNCHANGED same
  /\ UNCHANGED <<file, seen, alive, raced>>

\* lock_is_stale, second call: the content of whatever is at the path now.
ReadContent(t) ==
  /\ At(t, "read")
  /\ IF file = NoFile
     THEN Goto(t, "idle") /\ Forget(t)
     ELSE /\ seen' = [seen EXCEPT ![t] =
                        IF file.written THEN file.owner ELSE Undecodable]
          /\ Goto(t, "judge")
          /\ UNCHANGED same
  /\ UNCHANGED <<file, alive, raced>>

\* Mutant: age alone makes a lock stale.
OwnerIgnored(t) == TRUE

\* Mutant: a lock whose content cannot be decoded is never stale.
OwnerMustDecode(t) == seen[t] # Undecodable /\ ~Live(seen[t])

\* Undecodable content, or an owner that no longer runs, is stale.
OwnerGone(t) == seen[t] = Undecodable \/ ~Live(seen[t])

Judge(t) ==
  /\ At(t, "judge")
  /\ IF OwnerGone(t)
     THEN Goto(t, "unlink") /\ UNCHANGED <<seen, same>>
     ELSE Goto(t, "idle") /\ Forget(t)
  /\ UNCHANGED <<file, alive, raced>>

\* The thread still needs the file it created.
Busy(t) == Live(t) /\ pc[t] \in {"write", "held", "dropunlink"}

\* fs::remove_file(path) removes whatever is at the path now.
UnlinkStale(t) ==
  /\ At(t, "unlink")
  /\ IF file = NoFile
     THEN Goto(t, "idle") /\ Forget(t) /\ UNCHANGED raced
     ELSE /\ Goto(t, "recreate")
          /\ seen' = [seen EXCEPT ![t] = Undecodable]
          /\ same' = [u \in Threads |-> FALSE]
          /\ raced' = raced
               \cup (IF same[t] THEN {} ELSE {"replaced"})
               \cup (IF seen[t] = Undecodable /\ Busy(file.owner)
                     THEN {"unwritten"} ELSE {})
  /\ file' = NoFile
  /\ UNCHANGED alive

-----------------------------------------------------------------------------
(***************************************************************************)
(* Drop for StoreLock                                                      *)
(***************************************************************************)
DropRead(t) ==
  /\ At(t, "held")
  /\ Goto(t, IF file # NoFile /\ file.written /\ file.owner = t
             THEN "dropunlink" ELSE "idle")
  /\ UNCHANGED <<file, seen, alive, same, raced>>

DropUnlink(t) ==
  /\ At(t, "dropunlink")
  /\ Goto(t, "idle")
  /\ file' = NoFile
  /\ same' = [u \in Threads |-> FALSE]
  /\ UNCHANGED <<seen, alive, raced>>

\* The result of remove_file is ignored: when it fails the file stays.
DropUnlinkFails(t) ==
  /\ At(t, "dropunlink")
  /\ Goto(t, "idle")
  /\ UNCHANGED <<file, seen, alive, same, raced>>

-----------------------------------------------------------------------------
(***************************************************************************)
(* Environment: a process ends (exit or crash), time passes.               *)
(***************************************************************************)
ProcessEnds(p) ==
  /\ alive[p]
  /\ alive' = [alive EXCEPT ![p] = FALSE]
  /\ pc' = [t \in Threads |-> IF ProcessOf[t] = p THEN "idle" ELSE pc[t]]
  /\ seen' = [t \in Threads |->
                IF ProcessOf[t] = p THEN Undecodable ELSE seen[t]]
  /\ same' = [t \in Threads |-> ProcessOf[t] # p /\ same[t]]
  /\ UNCHANGED <<file, raced>>

LockAges ==
  /\ file # NoFile /\ ~file.old
  /\ file' = [file EXCEPT !.old = TRUE]
  /\ UNCHANGED <<pc, seen, alive, same, raced>>

ThreadStep(t) ==
  \/ AcquireStart(t) \/ CreateNew(t) \/ CreateExists(t) \/ WriteContent(t)
  \/ AcquireFails(t) \/ StatAge(t) \/ ReadContent(t) \/ Judge(t)
  \/ UnlinkStale(t) \/ DropRead(t) \/ DropUnlink(t) \/ DropUnlinkFails(t)

Next ==
  \/ \E t \in Threads : ThreadStep(t)
  \/ \E p \in Processes : ProcessEnds(p)
  \/ LockAges

Spec == Init /\ [][Next]_vars

\* Callers keep retrying, calls return, time passes, and no call that can
\* succeed fails for ever.
Fairness ==
  /\ \A t \in Threads :
       /\ WF_vars(ThreadStep(t))
       /\ SF_vars(CreateExists(t)) /\ SF_vars(StatAge(t))
       /\ SF_vars(ReadContent(t)) /\ SF_vars(UnlinkStale(t))
  /\ WF_vars(LockAges)

FairSpec == Spec /\ Fairness

-----------------------------------------------------------------------------
Holders == {t \in Threads : Live(t) /\ pc[t] \in {"held", "dropunlink"}}

\* StoreLock is documented as an "Exclusive writer lock": at no time do two
\* running threads hold the guard that StoreLock::acquire returned.
MutualExclusion == \A t, u \in Holders : t = u

\* "Acquires an exclusive writer lock and recovers an expired lock once": as
\* long as every lock file was written before it expired, at most one running
\* thread holds the guard, recovery of an abandoned lock included.
RecoveryExclusive == "unwritten" \notin raced => MutualExclusion

\* The guard is exclusive in every behaviour in which recovery never went
\* through one of its two windows: unlinking by path a file other than the one
\* inspected, or judging stale the still unwritten file of a running acquirer.
ExclusionOutsideWindows == raced = {} => MutualExclusion

\* A lock file nobody will ever drop: its owner ended, or its creator left
\* acquire before the content was written.
Abandoned ==
  /\ file # NoFile
  /\ ~Live(file.owner) \/ (~file.written /\ pc[file.owner] # "write")

\* Stale-lock recovery works: while some process runs and keeps trying to
\* acquire, an abandoned lock file does not stay at the path.
AbandonedLockRecovered ==
  Abandoned ~> (~Abandoned \/ \A p \in Processes : ~alive[p])

-----------------------------------------------------------------------------
(***************************************************************************)
(* The inductive invariant behind ExclusionOutsideWindows.                 *)
(***************************************************************************)
\* A thread that created a lock and still needs it finds it at the path.
BusyOwnsFile ==
  \A t \in Threads : Busy(t) =>
    /\ file # NoFile
    /\ file.owner = t

\* What a thread read names the owner of the file at the path, as long as
\* that file is the one it inspected; it unlinks only after that owner ended.
InspectionSound ==
  \A t \in Threads :
    /\ same[t] /\ pc[t] \in {"judge", "unlink"} /\ seen[t] # Undecodable =>
         file # NoFile /\ file.owner = seen[t]
    /\ pc[t] = "unlink" => OwnerGone(t)

\* InspectionSound alone does not survive the unlink of another thread, nor
\* BusyOwnsFile the unlink of a lock whose owner ended: together they do.
IInv ==
  /\ TypeOK
  /\ raced = {} => BusyOwnsFile
  /\ InspectionSound
=============================================================================
