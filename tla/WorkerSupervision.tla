------------------------- MODULE WorkerSupervision -------------------------
(***************************************************************************)
(* One supervised scan or sync: the hidden worker process with its pool of *)
(* threads and the helper programs they start, the stream of messages it   *)
(* writes, and the loop of the supervisor that applies the messages, tests *)
(* the limits, reaps the worker and, if need be, ends it.                  *)
(*                                                                         *)
(* A unit of work of the pool is one repository handled by                 *)
(* synchronize_codegraph_target: `codegraph status` runs in the worker's   *)
(* process group, `codegraph sync` in a group of its own.  The pipe and    *)
(* the reader thread are one queue: at any poll the supervisor may not yet *)
(* see what the worker has written.  Publication is one commit.            *)
(***************************************************************************)
EXTENDS Naturals, FiniteSets, Sequences

CONSTANTS
  Pool,            \* threads of map_ordered
  Units,           \* repositories to synchronize
  DefaultPolicy,   \* limits before the worker's policy arrives
  Policy,          \* limits of the workspace: [wall, idle]
  Coalesce,        \* PROGRESS_WRITE_INTERVAL_MS
  Grace,           \* graceful_termination_ms
  MaxTime,         \* bound: ticks of the clock
  None

\* How the loop of the supervisor may end.
Reasons == {"cancelled", "protocol", "failure", "wall", "idle", "memory",
            "process", "ok"}

ASSUME SupervisionAssumption ==
  /\ DefaultPolicy \in [wall : Nat, idle : Nat]
  /\ Policy \in [wall : Nat, idle : Nat]
  /\ {Units, Coalesce, Grace, MaxTime} \subseteq Nat
  /\ MaxTime > DefaultPolicy.wall + Grace /\ MaxTime > Policy.wall + Grace
  /\ None \notin Nat \cup Reasons \cup {"error", "limit", "signal"}
  /\ IsFiniteSet(Pool) /\ "main" \notin Pool

VARIABLES
  now,         \* the clock
  worker,      \* the process: exit, limit, began, last, total, taken, wrote
  at,          \* where each of its threads is
  helpers,     \* helper programs alive: [thread, own]
  wire,        \* messages written and not yet handled
  published,   \* whether the snapshot is committed
  cancelled,   \* a signal reached the supervisor
  sup          \* the supervisor's loop

supervisionVars == <<now, worker, at, helpers, wire, published, cancelled, sup>>

WorkerThreads == Pool \cup {"main"}

Alive == worker.exit = None

Returned == sup.pc = "returned"

Message(kind, total) == [kind |-> kind, total |-> total]

\* The stream after a message; nobody reads it once the loop has ended.
Written(kind, total) ==
  IF sup.why = None THEN Append(wire, Message(kind, total)) ELSE wire

SupervisionInit ==
  /\ now = 0
  /\ worker = [exit |-> None, limit |-> FALSE, began |-> None, last |-> 0,
               total |-> 0, taken |-> 0, wrote |-> None]
  /\ at = [t \in WorkerThreads |-> IF t = "main" THEN "boot" ELSE "parked"]
  /\ helpers = {}
  /\ wire = <<>>
  /\ published = FALSE
  /\ cancelled = FALSE
  /\ sup = [pc |-> "top", policy |-> DefaultPolicy, received |-> FALSE,
            last |-> 0, total |-> 0, result |-> FALSE, exited |-> None,
            since |-> 0, rounds |-> 0, why |-> None]

-----------------------------------------------------------------------------
(***************************************************************************)
(* The worker                                                              *)
(***************************************************************************)
ThreadGoto(t, pc) == at' = [at EXCEPT ![t] = pc]

\* ScanJobTracker::check_time.
Expired ==
  \/ now - worker.began > Policy.wall
  \/ now - worker.last > Policy.idle

\* progress_write_due: its clock starts with the first call.
WriteDue == worker.wrote # None /\ now - worker.wrote >= Coalesce

\* report_progress, with the tracker's enter_phase and progress.
ReportProgress(t, pc) ==
  IF worker.limit THEN ThreadGoto(t, pc) /\ UNCHANGED <<worker, wire>>
  ELSE IF Expired THEN ThreadGoto(t, "limit") /\ UNCHANGED <<worker, wire>>
  ELSE /\ ThreadGoto(t, pc)
       /\ worker' = [worker EXCEPT !.last = now, !.total = @ + 1,
            !.wrote = IF @ = None \/ WriteDue THEN now ELSE @]
       /\ wire' = IF WriteDue
                  THEN Written("progress", worker.total + 1) ELSE wire

CheckTime(t, pc) ==
  /\ ThreadGoto(t, IF ~worker.limit /\ Expired THEN "limit" ELSE pc)
  /\ UNCHANGED <<worker, wire>>

\* run_worker_from_stdio up to the call of the scan.
LoadPolicy ==
  /\ Alive /\ at["main"] = "boot"
  /\ \/ /\ wire' = Written("policy", 0)
        /\ worker' = [worker EXCEPT !.began = now, !.last = now]
        /\ at' = [t \in WorkerThreads |-> IF t = "main" THEN "started" ELSE "take"]
     \/ /\ wire' = Written("failure", 0)
        /\ ThreadGoto("main", "return")
        /\ UNCHANGED worker
  /\ UNCHANGED <<now, helpers, published, cancelled, sup>>

Started ==
  /\ Alive /\ at["main"] = "started"
  /\ ReportProgress("main", "join")
  /\ UNCHANGED <<now, helpers, published, cancelled, sup>>

\* map_ordered hands out the next index; a helper program is started.
TakeUnit(t, own) ==
  /\ Alive /\ at[t] = "take" /\ at["main"] = "join"
  /\ worker.taken < Units
  /\ worker' = [worker EXCEPT !.taken = @ + 1]
  /\ helpers' = helpers \cup {[thread |-> t, own |-> own]}
  /\ ThreadGoto(t, "helper")
  /\ UNCHANGED <<now, wire, published, cancelled, sup>>

NoUnitLeft(t) ==
  /\ Alive /\ at[t] = "take" /\ at["main"] = "join"
  /\ worker.taken = Units
  /\ ThreadGoto(t, "joined")
  /\ UNCHANGED <<now, worker, helpers, wire, published, cancelled, sup>>

HelperEnds(h) ==
  /\ h \in helpers /\ ~Returned
  /\ helpers' = helpers \ {h}
  /\ UNCHANGED <<now, worker, at, wire, published, cancelled, sup>>

\* The thread sees the end of its helper, whatever ended it.
UnitDone(t) ==
  /\ Alive /\ at[t] = "helper"
  /\ \A h \in helpers : h.thread # t
  /\ ReportProgress(t, "take")
  /\ UNCHANGED <<now, helpers, published, cancelled, sup>>

\* The scoped threads are joined; publish_snapshot_candidate reports first.
Join ==
  /\ Alive /\ at["main"] = "join"
  /\ \A t \in Pool : at[t] = "joined"
  /\ ReportProgress("main", "publish")
  /\ UNCHANGED <<now, helpers, published, cancelled, sup>>

\* The progress callback of the publication: check_time for every row.
PublishRows ==
  /\ Alive /\ at["main"] = "publish"
  /\ CheckTime("main", "commit")
  /\ UNCHANGED <<now, helpers, published, cancelled, sup>>

Commit ==
  /\ Alive /\ at["main"] = "commit"
  /\ published' = TRUE
  /\ ThreadGoto("main", "flush")
  /\ UNCHANGED <<now, worker, helpers, wire, cancelled, sup>>

\* Any step of the scan may fail up to the commit, and none after it does.
ScanFails ==
  /\ Alive /\ at["main"] \in {"publish", "commit"}
  /\ wire' = IF sup.why = None
             THEN wire \o <<Message("progress", worker.total),
                            Message("failure", 0)>>
             ELSE wire
  /\ ThreadGoto("main", "return")
  /\ UNCHANGED <<now, worker, helpers, published, cancelled, sup>>

FlushProgress ==
  /\ Alive /\ at["main"] = "flush"
  /\ wire' = Written("progress", worker.total)
  /\ ThreadGoto("main", "result")
  /\ UNCHANGED <<now, worker, helpers, published, cancelled, sup>>

\* write_message refuses a result longer than a protocol line.
WriteResult ==
  /\ Alive /\ at["main"] = "result"
  /\ \/ /\ wire' = Written("result", 0)
        /\ ThreadGoto("main", "return")
        /\ UNCHANGED worker
     \/ /\ worker' = [worker EXCEPT !.exit = "error"]
        /\ UNCHANGED <<wire, at>>
  /\ UNCHANGED <<now, helpers, published, cancelled, sup>>

ReturnMain ==
  /\ Alive /\ at["main"] = "return"
  /\ worker' = [worker EXCEPT !.exit = "ok"]
  /\ UNCHANGED <<now, at, helpers, wire, published, cancelled, sup>>

\* Mutant: the thread that reported the limit goes on.
LimitGoesOn(t) ==
  /\ Alive
  /\ at[t] = "limit"
  /\ worker' = [worker EXCEPT !.limit = TRUE]
  /\ wire' = Written("failure", 0)
  /\ ThreadGoto(t, IF t = "main" THEN "commit" ELSE "joined")
  /\ UNCHANGED <<now, helpers, published, cancelled, sup>>

\* exit_for_execution_limit: the flag and the failure, then exit(70); the
\* other threads run on in between.
ExitForExecutionLimit(t) ==
  /\ Alive
  /\ \/ /\ at[t] = "limit"
        /\ worker' = [worker EXCEPT !.limit = TRUE]
        /\ wire' = Written("failure", 0)
        /\ ThreadGoto(t, "exit")
     \/ /\ at[t] = "exit"
        /\ worker' = [worker EXCEPT !.exit = "limit"]
        /\ UNCHANGED <<wire, at>>
  /\ UNCHANGED <<now, helpers, published, cancelled, sup>>

\* The system ends the worker; a line may be cut off.
CrashWorker ==
  /\ Alive
  /\ worker' = [worker EXCEPT !.exit = "signal"]
  /\ wire' \in {wire, Written("garbage", 0)}
  /\ UNCHANGED <<now, at, helpers, published, cancelled, sup>>

-----------------------------------------------------------------------------
(***************************************************************************)
(* The supervisor                                                          *)
(***************************************************************************)
TimePasses ==
  /\ now < MaxTime /\ ~Returned
  /\ now' = now + 1
  /\ UNCHANGED <<worker, at, helpers, wire, published, cancelled, sup>>

Signal ==
  /\ ~cancelled /\ ~Returned
  /\ cancelled' = TRUE
  /\ UNCHANGED <<now, worker, at, helpers, wire, published, sup>>

\* At the bound of the clock every wait is over.
Passed(time) == now - sup.since >= time \/ now = MaxTime

\* Ends the loop with an error for reason why.
Terminate(why) ==
  sup' = [sup EXCEPT !.pc = "tree", !.why = why, !.last = 0, !.since = 0]

InGroup == {h \in helpers : ~h.own}

\* The return of monitor_worker drops the group: SIGKILL to its members.
Return(why) ==
  /\ sup' = [sup EXCEPT !.pc = "returned", !.why = why, !.since = 0,
                       !.last = 0]
  /\ helpers' = helpers \ InGroup

World == <<now, worker, at, helpers, wire, published, cancelled>>

Cancellation ==
  /\ sup.pc = "top"
  /\ IF cancelled THEN Terminate("cancelled")
     ELSE sup' = [sup EXCEPT !.pc = "drain"]
  /\ UNCHANGED World

\* The match of monitor_worker on one message.
Apply(m) ==
  CASE m.kind = "policy" /\ ~sup.received ->
         sup' = [sup EXCEPT !.policy = Policy, !.received = TRUE]
    [] m.kind = "progress" ->
         sup' = IF sup.received /\ m.total > sup.total
                THEN [sup EXCEPT !.total = m.total, !.last = now]
                ELSE sup
    [] m.kind = "result" /\ sup.received ->
         sup' = [sup EXCEPT !.result = TRUE]
    [] m.kind = "failure" ->
         sup' = [sup EXCEPT !.pc = "failing", !.since = now]
    [] OTHER -> Terminate("protocol")

Drain ==
  /\ sup.pc = "drain" /\ wire # <<>>
  /\ Apply(Head(wire))
  /\ wire' = Tail(wire)
  /\ UNCHANGED <<now, worker, at, helpers, published, cancelled>>

\* A Failure was reported: the worker gets a moment to exit.
AwaitFailure ==
  /\ sup.pc = "failing"
  /\ IF Alive
     THEN /\ Passed(1)
          /\ Terminate("failure")
          /\ UNCHANGED helpers
     ELSE Return("failure")
  /\ UNCHANGED <<now, worker, at, wire, published, cancelled>>

\* Mutant: only memory is limited.
ExceededMemory == {}

\* The deadline that is exceeded, if one is.
Exceeded ==
  IF now > sup.policy.wall THEN {"wall"}
  ELSE IF now - sup.last > sup.policy.idle THEN {"idle"} ELSE {}

\* Mutant: the exit status decides without the result message.
TryWaitStatus ==
  IF Alive THEN sup' = [sup EXCEPT !.pc = "top"] /\ UNCHANGED helpers
  ELSE Return(IF worker.exit = "ok" THEN "ok" ELSE "process")

\* try_wait: the result may still be on its way when the worker is gone.
TryWait ==
  IF Alive THEN sup' = [sup EXCEPT !.pc = "top"] /\ UNCHANGED helpers
  ELSE IF worker.exit = "ok" /\ sup.result THEN Return("ok")
  ELSE IF worker.exit = "ok" /\ (sup.exited = None \/ now - sup.exited <= 1)
  THEN /\ sup' = [sup EXCEPT !.pc = "top",
                    !.exited = IF @ = None THEN now ELSE @]
       /\ helpers' = helpers \ InGroup
  ELSE Return("process")

\* The rest of the loop, when try_recv finds nothing, or not yet: deadlines,
\* memory (process_tree_memory may be above its limit at any poll), exit.
Poll ==
  /\ sup.pc = "drain"
  /\ \/ \E why \in Exceeded : Terminate(why) /\ UNCHANGED helpers
     \/ Exceeded = {} /\ Alive /\ Terminate("memory") /\ UNCHANGED helpers
     \/ Exceeded = {} /\ TryWait
  /\ UNCHANGED <<now, worker, at, wire, published, cancelled>>

\* terminate_process_tree: up to three rounds over the descendants; those of
\* a process that is gone are not found.
KillTree ==
  /\ sup.pc \in {"tree", "again"}
  /\ IF sup.rounds = 3 \/ ~Alive \/ helpers = {}
     THEN /\ sup' = [sup EXCEPT !.since = now, !.rounds = 0,
                       !.pc = IF sup.pc = "tree" THEN "term" ELSE "kill"]
          /\ UNCHANGED helpers
     ELSE /\ sup' = [sup EXCEPT !.rounds = @ + 1]
          /\ helpers' = {}
  /\ wire' = <<>>
  /\ UNCHANGED <<now, worker, at, published, cancelled>>

\* killpg(SIGTERM): the worker has no handler and dies, unless it is stuck
\* in the kernel.
RequestTermination ==
  /\ sup.pc = "term"
  /\ \/ /\ worker' = IF Alive THEN [worker EXCEPT !.exit = "signal"] ELSE worker
        /\ helpers' = helpers \ InGroup
     \/ UNCHANGED <<worker, helpers>>
  /\ sup' = [sup EXCEPT !.pc = "grace"]
  /\ UNCHANGED <<now, at, wire, published, cancelled>>

AwaitGrace ==
  /\ sup.pc = "grace"
  /\ IF ~Alive THEN Return(sup.why)
     ELSE /\ Passed(Grace)
          /\ sup' = [sup EXCEPT !.pc = "again"]
          /\ UNCHANGED helpers
  /\ UNCHANGED <<now, worker, at, wire, published, cancelled>>

ForceTermination ==
  /\ sup.pc = "kill"
  /\ worker' = IF Alive THEN [worker EXCEPT !.exit = "signal"] ELSE worker
  /\ Return(sup.why)
  /\ UNCHANGED <<now, at, wire, published, cancelled>>

-----------------------------------------------------------------------------
WorkerStep ==
  \/ LoadPolicy \/ Started \/ Join \/ PublishRows \/ Commit \/ ScanFails
  \/ FlushProgress \/ WriteResult \/ ReturnMain
  \/ \E t \in Pool : \/ \E own \in BOOLEAN : TakeUnit(t, own)
                     \/ NoUnitLeft(t)
                     \/ UnitDone(t)
  \/ \E t \in WorkerThreads : ExitForExecutionLimit(t)

SupervisorStep ==
  \/ Cancellation \/ Drain \/ AwaitFailure \/ Poll \/ KillTree
  \/ RequestTermination \/ AwaitGrace \/ ForceTermination

SupervisionNext ==
  \/ WorkerStep
  \/ CrashWorker
  \/ \E h \in helpers : HelperEnds(h)
  \/ SupervisorStep
  \/ TimePasses
  \/ Signal

SupervisionSpec == SupervisionInit /\ [][SupervisionNext]_supervisionVars

\* The supervisor is a thread of its own that only sleeps for bounded times;
\* nothing is assumed of the worker and of its helpers.
SupervisionFairness ==
  WF_supervisionVars(SupervisorStep) /\ WF_supervisionVars(TimePasses)

-----------------------------------------------------------------------------
(***************************************************************************)
(* Properties                                                              *)
(***************************************************************************)
SupervisionTypeOK ==
  /\ now \in 0 .. MaxTime
  /\ worker.exit \in {None, "ok", "error", "limit", "signal"}
  /\ worker.total \in 0 .. Units + 2 /\ worker.taken \in 0 .. Units
  /\ helpers \subseteq [thread : Pool, own : BOOLEAN]
  /\ \A i \in DOMAIN wire : wire[i].total \in 0 .. worker.total
  /\ sup.total \in 0 .. worker.total
  /\ sup.why \in Reasons \cup {None}

\* supervise returns a result only for a worker that committed the snapshot,
\* said so and exited with success.
OkIsPublished ==
  Returned /\ sup.why = "ok" => published /\ worker.exit = "ok"

\* A failure the worker reported, of the scan or of a limit, means that
\* nothing was published: the previous snapshot stays current.
FailureIsUnpublished ==
  Returned /\ sup.why = "failure" => ~published

\* "Continuing after the cooperative tracker expires could reach publication
\* before the supervisor observes the failure, so terminate immediately": once
\* a thread has reported a limit no other thread publishes.
LimitStopsPublication ==
  [][worker.limit /\ ~published => ~published']_supervisionVars

\* The idle deadline ends only workers that were idle, up to the interval in
\* which progress is coalesced; or the progress they made is still on the
\* wire, or their first message was not yet due.
IdleMeansIdle ==
  [][sup.why = None /\ sup'.why = "idle" =>
       \/ now - worker.last + Coalesce > sup.policy.idle
       \/ \E i \in DOMAIN wire : wire[i].kind = "progress"
       \/ sup.total = 0]_supervisionVars

(* A limit that the supervisor reports was really exceeded, and nothing is
   published after the worker met one. *)
LimitsAreHonest ==
  /\ LimitStopsPublication
  /\ IdleMeansIdle

\* When supervise has returned, the worker and every process of its group
\* are gone, whichever way the loop ended.
GroupIsReaped == Returned => ~Alive /\ InGroup = {}

(* What the supervisor returns is what happened: success means published,
   failure means not published, and either way the worker's group is gone. *)
VerdictIsTrue ==
  /\ SupervisionTypeOK
  /\ OkIsPublished
  /\ FailureIsUnpublished
  /\ GroupIsReaped

\* Whatever the worker does, and if it does nothing, supervise returns.
SupervisionEnds == <>Returned

\* "the parent reaps the whole process group"; "Shutdown cancels work,
\* terminates child processes": no helper program outlives the supervision.
HelpersAreReaped == Returned => helpers = {}
=============================================================================
