---------------------------- MODULE WorkSidecar ----------------------------
(***************************************************************************)
(* The work sidecar: how WorkState::open creates, binds and recreates the  *)
(* file beside the database, and the watcher lease kept in it.  Every call *)
(* on the lease opens the sidecar anew.  Statements outside a transaction  *)
(* are steps of their own; the writer lock is not taken.                   *)
(*                                                                         *)
(* A process is identified by pid and start time and runs one watcher, so  *)
(* its owner token is the process.  The file and its SQLite companions are *)
(* removed in one step.  Scans and status calls open the sidecar in the    *)
(* same way, as a watcher that is then refused its lease does.             *)
(***************************************************************************)
EXTENDS Naturals, FiniteSets

CONSTANTS
  Watchers,      \* processes that run `sync --watch`
  Existing,      \* whether the database already has a sidecar
  MaxInstance,   \* bound: databases that take each other's place
  Unset

\* Identities of the databases at the path: random, numbered as they come.
Instances == 1 .. MaxInstance

\* The file at the path and the removed ones that are still open.
SidecarFiles == 1 .. Cardinality(Watchers) + 1

ASSUME WorkSidecarAssumption ==
  /\ IsFiniteSet(Watchers)
  /\ Existing \in BOOLEAN
  /\ MaxInstance \in Nat \ {0}
  /\ Unset \notin Nat \cup Watchers

VARIABLES
  instance,      \* the identity of the database
  path,          \* the file at the sidecar's path; 0 when there is none
  files,         \* their contents; what nothing refers to is garbage
  proc           \* what each process is doing

sidecarVars == <<instance, path, files, proc>>

NoLease == [owner |-> Unset, state |-> "ended", fresh |-> FALSE]

NewFile == [version |-> FALSE, bound |-> Unset, lease |-> NoLease]

\* `watching`: from the grant of the lease until the watcher begins to finish.
NotStarted == [state |-> "new", watching |-> FALSE, call |-> "start",
               step |-> "idle", id |-> Unset, file |-> 0, again |-> FALSE]

Exited == [NotStarted EXCEPT !.state = "gone"]

SidecarInit ==
  /\ instance = 1
  /\ path = IF Existing THEN 1 ELSE 0
  /\ files = [f \in SidecarFiles |-> IF Existing /\ f = 1
                 THEN [NewFile EXCEPT !.version = TRUE, !.bound = 1]
                 ELSE NewFile]
  /\ proc = [p \in Watchers |-> NotStarted]

ProcAt(p, step) == proc[p].state = "alive" /\ proc[p].step = step

ProcGoto(p, step) == proc' = [proc EXCEPT ![p].step = step]

\* The end of a call closes the connection.
Closed(call, watching) ==
  [NotStarted EXCEPT !.state = "alive", !.call = call, !.watching = watching]

\* WorkState::open or the statement after it returned an error: a failed
\* heartbeat makes the watcher finish, any other failure ends the process.
Failed(p) ==
  IF proc[p].call = "heartbeat"
  THEN Closed("finish", FALSE)
  ELSE Exited

Fail(p) == proc' = [proc EXCEPT ![p] = Failed(p)]

-----------------------------------------------------------------------------
(***************************************************************************)
(* The world outside                                                       *)
(***************************************************************************)
\* The database is rebuilt or replaced by another one.
ReplaceDatabase ==
  /\ instance < MaxInstance
  /\ instance' = instance + 1
  /\ UNCHANGED <<path, files, proc>>

\* Twice the no-progress time passes without a heartbeat.
LeaseAges ==
  /\ path # 0 /\ files[path].lease.fresh
  /\ files' = [files EXCEPT ![path].lease.fresh = FALSE]
  /\ UNCHANGED <<instance, path, proc>>

Launch(p) ==
  /\ proc[p].state = "new"
  /\ proc' = [proc EXCEPT ![p].state = "alive"]
  /\ UNCHANGED <<instance, path, files>>

Crash(p) ==
  /\ proc[p].state = "alive"
  /\ proc' = [proc EXCEPT ![p] = Exited]
  /\ UNCHANGED <<instance, path, files>>

-----------------------------------------------------------------------------
(***************************************************************************)
(* WorkState::open                                                         *)
(***************************************************************************)
\* Each call first reads the identity of the database.
BeginCall(p) ==
  /\ ProcAt(p, "idle")
  /\ proc' = [proc EXCEPT ![p].step = "exists", ![p].id = instance,
                          ![p].again = FALSE]
  /\ UNCHANGED <<instance, path, files>>

\* A watcher that has its lease ends its session for a reason of its own.
BeginFinish(p) ==
  /\ ProcAt(p, "idle") /\ proc[p].watching
  /\ proc' = [proc EXCEPT ![p].watching = FALSE, ![p].call = "finish"]
  /\ UNCHANGED <<instance, path, files>>

\* ensure_private_file: path.exists, then create_new.
FileExists(p) ==
  /\ ProcAt(p, "exists")
  /\ ProcGoto(p, IF path # 0 THEN "connect" ELSE "create")
  /\ UNCHANGED <<instance, path, files>>

AddFile ==
  LET new == CHOOSE f \in SidecarFiles : \A p \in Watchers : proc[p].file # f
  IN  path' = new /\ files' = [files EXCEPT ![new] = NewFile]

CreateFile(p) ==
  /\ ProcAt(p, "create")
  /\ \/ path = 0 /\ AddFile /\ ProcGoto(p, "connect")
     \/ path # 0 /\ Fail(p) /\ UNCHANGED <<path, files>>
  /\ UNCHANGED instance

\* Connection::open_with_flags also creates a file that is missing.
Connect(p) ==
  /\ ProcAt(p, "connect")
  /\ IF path = 0 THEN AddFile ELSE UNCHANGED <<path, files>>
  /\ proc' = [proc EXCEPT ![p].step = "version", ![p].file = path']
  /\ UNCHANGED instance

ReadVersion(p) ==
  /\ ProcAt(p, "version")
  /\ ProcGoto(p, IF files[proc[p].file].version THEN "check" ELSE "claim")
  /\ UNCHANGED <<instance, path, files>>

\* The first INSERT fails if another process made it since.
InsertVersion(p) ==
  /\ ProcAt(p, "claim")
  /\ IF files[proc[p].file].version
     THEN Fail(p) /\ UNCHANGED files
     ELSE ProcGoto(p, "bind") /\ files' = [files EXCEPT ![proc[p].file].version = TRUE]
  /\ UNCHANGED <<instance, path>>

InsertInstance(p) ==
  /\ ProcAt(p, "bind")
  /\ files' = [files EXCEPT ![proc[p].file].bound = proc[p].id]
  /\ ProcGoto(p, "ready")
  /\ UNCHANGED <<instance, path>>

\* A sidecar that is not bound to the database is recreated, once.
CheckInstance(p) ==
  /\ ProcAt(p, "check")
  /\ IF files[proc[p].file].bound = proc[p].id THEN ProcGoto(p, "ready")
     ELSE IF proc[p].again THEN Fail(p)
     ELSE ProcGoto(p, "remove")
  /\ UNCHANGED <<instance, path, files>>

\* remove_sidecar_files removes whatever is at the path by now.
RemoveSidecarFiles(p) ==
  /\ ProcAt(p, "remove")
  /\ path' = 0
  /\ proc' = [proc EXCEPT ![p].step = "exists", ![p].again = TRUE,
                          ![p].file = 0]
  /\ UNCHANGED <<instance, files>>

-----------------------------------------------------------------------------
(***************************************************************************)
(* The calls on the opened sidecar                                         *)
(***************************************************************************)
Ready(p, call) == ProcAt(p, "ready") /\ proc[p].call = call

Lease(p) == files[proc[p].file].lease

\* Mutant: the heartbeat decides, whether or not the owner lives.
BlockedByHeartbeat(lease, reused) == lease.state = "active" /\ lease.fresh

\* process_identity: a live owner is recognised.  The pid of one that is gone
\* is unknown to the system or belongs to another process.
BlockedBy(lease, reused) ==
  /\ lease.state = "active"
  /\ \/ proc[lease.owner].state = "alive"
     \/ proc[lease.owner].state = "gone" /\ ~reused /\ lease.fresh

\* start_watcher, an IMMEDIATE transaction.
StartWatcher(p, reused) ==
  /\ Ready(p, "start")
  /\ IF BlockedBy(Lease(p), reused)
     THEN Fail(p) /\ UNCHANGED files
     ELSE /\ files' = [files EXCEPT ![proc[p].file].lease =
                         [owner |-> p, state |-> "active", fresh |-> TRUE]]
          /\ proc' = [proc EXCEPT ![p] = Closed("heartbeat", TRUE)]
  /\ UNCHANGED <<instance, path>>

HeartbeatWatcher(p) ==
  /\ Ready(p, "heartbeat")
  /\ IF Lease(p).owner = p /\ Lease(p).state = "active"
     THEN /\ files' = [files EXCEPT ![proc[p].file].lease.fresh = TRUE]
          /\ proc' = [proc EXCEPT ![p] = Closed("heartbeat", TRUE)]
     ELSE Fail(p) /\ UNCHANGED files
  /\ UNCHANGED <<instance, path>>

FinishWatcher(p) ==
  /\ Ready(p, "finish")
  /\ files' = IF Lease(p).owner = p
              THEN [files EXCEPT ![proc[p].file].lease.state = "ended",
                                 ![proc[p].file].lease.fresh = TRUE]
              ELSE files
  /\ proc' = [proc EXCEPT ![p] = Exited]
  /\ UNCHANGED <<instance, path>>

-----------------------------------------------------------------------------
Step(p) ==
  \/ BeginCall(p) \/ FileExists(p) \/ CreateFile(p) \/ Connect(p)
  \/ ReadVersion(p) \/ InsertVersion(p) \/ InsertInstance(p)
  \/ CheckInstance(p) \/ RemoveSidecarFiles(p)
  \/ \E reused \in BOOLEAN : StartWatcher(p, reused)
  \/ HeartbeatWatcher(p) \/ FinishWatcher(p)

SidecarNext ==
  \/ ReplaceDatabase
  \/ LeaseAges
  \/ \E p \in Watchers : Launch(p) \/ Crash(p) \/ BeginFinish(p) \/ Step(p)

SidecarSpec == SidecarInit /\ [][SidecarNext]_sidecarVars

\* The loop of watch_workspace renews the lease after every wait, and every
\* wait is bounded: a live process keeps taking steps.
SidecarFairness == \A p \in Watchers : WF_sidecarVars(Step(p))

-----------------------------------------------------------------------------
(***************************************************************************)
(* Properties                                                              *)
(***************************************************************************)
Leases == [owner : Watchers \cup {Unset}, state : {"active", "ended"},
           fresh : BOOLEAN]

SidecarTypeOK ==
  /\ instance \in Instances
  /\ path \in SidecarFiles \cup {0}
  /\ files \in [SidecarFiles ->
       [version : BOOLEAN, bound : Instances \cup {Unset}, lease : Leases]]
  /\ proc \in [Watchers ->
       [state : {"new", "alive", "gone"}, watching : BOOLEAN,
        call : {"start", "heartbeat", "finish"},
        step : {"idle", "exists", "create", "connect", "version", "claim",
                "bind", "check", "remove", "ready"},
        id : Instances \cup {Unset}, file : SidecarFiles \cup {0},
        again : BOOLEAN]]

Holds(p, f) ==
  /\ proc[p].state = "alive" /\ proc[p].watching
  /\ files[f].lease.owner = p /\ files[f].lease.state = "active"

\* "a sidecar from another or rebuilt database is discarded rather than
\* reused": rows are read and written only in a file bound to the identity the
\* call read, whoever recreated it in between.
ReadyIsBound ==
  \A p \in Watchers :
    ProcAt(p, "ready") => files[proc[p].file].bound = proc[p].id

\* start_watcher never takes the lease of a watcher that lives, however old
\* its heartbeat, and no end of another session clears it: while the sidecar
\* stays in place the row of a running watcher is its own.
LeaseKept ==
  [][\A p \in Watchers :
       /\ path # 0 /\ path' = path /\ Holds(p, path)
       /\ proc'[p].state = "alive" /\ proc'[p].watching
       => Holds(p, path)']_sidecarVars

\* "watcher for workspace is already active": two live processes never both
\* run a watcher.
OneWatcher ==
  \A p, q \in Watchers : p # q => ~(proc[p].watching /\ proc[q].watching)

\* A watcher whose lease is gone, because the sidecar was recreated or the row
\* is another's, finds out at its next heartbeat and ends.
LostLeaseStops ==
  \A p \in Watchers :
    proc[p].watching /\ (path = 0 \/ ~Holds(p, path)) ~> ~proc[p].watching

(* What the lease promises a watcher: the file it opened is this workspace's, a
   held lease stays held while its owner lives, and a watcher whose lease is
   gone stops. *)
LeaseProtocol ==
  /\ [](SidecarTypeOK /\ ReadyIsBound)
  /\ LeaseKept
  /\ LostLeaseStops

=============================================================================
