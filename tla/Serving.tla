------------------------------ MODULE Serving ------------------------------
(***************************************************************************)
(* Requests of the HTTP server from admission to answer.  A tool request   *)
(* runs one blocking task and waits for it.  An explore request loads four *)
(* snapshot stages, runs the CodeGraph provider and correlates the result, *)
(* each blocking stage under one of a few permits that its task carries,   *)
(* all of it under one deadline.  Blocking tasks cannot be aborted: they   *)
(* outlive the request that started them.  The server's own timeout drops  *)
(* the request's future wherever it is.  Deadlines are timers that a tick  *)
(* runs down.                                                              *)
(***************************************************************************)
EXTENDS Integers, FiniteSets

CONSTANTS
  Requests,         \* requests the clients may send
  Limits,           \* CONCURRENCY_LIMIT, one of these
  ExplorePermits,   \* explore_blocking_permits
  RequestTimeout,   \* REQUEST_TIMEOUT, in ticks
  WallTimes         \* maxExploreWallTimeMs, one of these, in ticks

ASSUME ServingAssumption == /\ IsFiniteSet(Requests)
                            /\ Limits \subseteq Nat \ {0}
                            /\ ExplorePermits \in Nat \ {0}
                            /\ RequestTimeout \in Nat
                            /\ WallTimes \subseteq Nat

VARIABLES
  limit,       \* the server's concurrency limit
  wall,        \* the policy's explore wall time
  server,      \* "serving", "draining" after cancellation, "exited"
  stage,       \* where the request's future is
  awaiting,    \* what it waits for there: a permit, its task, or nothing
  task,        \* its blocking task: none, working, or ended with a result
  kind,        \* what the request asks for
  cancelled,   \* its cancellation token
  timeLeft,    \* ticks to the server's timeout
  wallLeft,    \* ticks to the explore deadline
  gap,         \* the answer records a gap
  missed,      \* history: a snapshot stage did not load
  answer       \* what the client received

servingVars == <<limit, wall, server, stage, awaiting, task, kind, cancelled,
                 timeLeft, wallLeft, gap, missed, answer>>

Kinds == {"tool", "explore", "unknown"}   \* unknown: no such repository
Snapshot == {"registry", "freshness", "graph", "evidence"}
Blocking == Snapshot \cup {"correlation"}
Stages == {"new", "tool", "provider", "done"} \cup Blocking
Answers == {"none", "refused", "busy", "ok", "degraded", "error", "timeout"}

After(s) == CASE s = "registry"  -> "freshness"
              [] s = "freshness" -> "graph"
              [] s = "graph"     -> "evidence"
              [] s = "evidence"  -> "provider"
              [] s = "provider"  -> "correlation"

Handling == {r \in Requests : stage[r] \notin {"new", "done"}}
Expired(r) == wallLeft[r] = 0

ServingTypeOK ==
  /\ limit \in Limits
  /\ wall \in WallTimes
  /\ server \in {"serving", "draining", "exited"}
  /\ stage \in [Requests -> Stages]
  /\ awaiting \in [Requests -> {"nothing", "permit", "task"}]
  /\ task \in [Requests -> {"none", "working", "ok", "failed"}]
  /\ kind \in [Requests -> Kinds]
  /\ cancelled \in [Requests -> BOOLEAN]
  /\ timeLeft \in [Requests -> 0 .. RequestTimeout]
  /\ wallLeft \in [Requests -> 0 .. wall]
  /\ gap \in [Requests -> BOOLEAN]
  /\ missed \in [Requests -> BOOLEAN]
  /\ answer \in [Requests -> Answers]

ServingInit ==
  /\ limit \in Limits
  /\ wall \in WallTimes
  /\ server = "serving"
  /\ stage = [r \in Requests |-> "new"]
  /\ awaiting = [r \in Requests |-> "nothing"]
  /\ task = [r \in Requests |-> "none"]
  /\ kind = [r \in Requests |-> "tool"]
  /\ cancelled = [r \in Requests |-> FALSE]
  /\ timeLeft = [r \in Requests |-> 0]
  /\ wallLeft = [r \in Requests |-> 0]
  /\ gap = [r \in Requests |-> FALSE]
  /\ missed = [r \in Requests |-> FALSE]
  /\ answer = [r \in Requests |-> "none"]

----------------------------------------------------------------------------
(* Permits                                                                 *)

\* Mutant: the permit belongs to the waiting future, which a deadline drops.
HeldByFuture ==
  {r \in Requests : stage[r] \in Blocking /\ awaiting[r] = "task"}

\* The explore permits in use: the closure given to spawn_blocking owns the
\* permit, so the task holds it until it ends.
HoldsExplorePermit ==
  {r \in Requests : kind[r] # "tool" /\ task[r] = "working"}

\* try_acquire_owned on the server's semaphore; the guard's stack frame
\* holds the permit until the answer.
PermitFree == Cardinality(Handling) < limit

----------------------------------------------------------------------------
(* The ends of a request                                                   *)

\* The answer leaves: the future is dropped, with its permit, its locals
\* and its execution context, whose Drop cancels.
Respond(r, what) ==
  /\ stage' = [stage EXCEPT ![r] = "done"]
  /\ awaiting' = [awaiting EXCEPT ![r] = "nothing"]
  /\ answer' = [answer EXCEPT ![r] = what]
  /\ cancelled' = [cancelled EXCEPT ![r] = TRUE]
  /\ timeLeft' = [timeLeft EXCEPT ![r] = 0]
  /\ wallLeft' = [wallLeft EXCEPT ![r] = 0]
  /\ gap' = [gap EXCEPT ![r] = FALSE]

MoveOn(r) ==
  /\ stage' = [stage EXCEPT ![r] = After(stage[r])]
  /\ awaiting' = [awaiting EXCEPT ![r] =
                    IF After(stage[r]) = "provider" THEN "nothing" ELSE "permit"]

\* finish_explore_envelope: without a gap, and with freshness loaded and
\* fresh, the report is complete.
Report(r) == IF gap[r] THEN {"degraded"} ELSE {"ok", "degraded"}

\* request_guard turns a request away: too large, over the client's rate or
\* without the token, whatever the permits, or else for want of one.
TurnAway(r) ==
  /\ server = "serving"
  /\ stage[r] = "new"
  /\ stage' = [stage EXCEPT ![r] = "done"]
  /\ \/ answer' = [answer EXCEPT ![r] = "refused"]
     \/ ~PermitFree /\ answer' = [answer EXCEPT ![r] = "busy"]
  /\ UNCHANGED <<limit, wall, server, awaiting, task, kind, cancelled, timeLeft,
                 wallLeft, gap, missed>>

\* request_guard admits a request and its handler starts: run_blocking for
\* a tool, the execution context and the first stage for explore.
Admit(r) ==
  /\ server = "serving"
  /\ stage[r] = "new"
  /\ PermitFree
  /\ \E k \in Kinds :
       /\ kind' = [kind EXCEPT ![r] = k]
       /\ stage' = [stage EXCEPT ![r] = IF k = "tool" THEN "tool" ELSE "registry"]
       /\ awaiting' = [awaiting EXCEPT ![r] = IF k = "tool" THEN "task" ELSE "permit"]
       /\ task' = [task EXCEPT ![r] = IF k = "tool" THEN "working" ELSE "none"]
       /\ wallLeft' = [wallLeft EXCEPT ![r] = IF k = "tool" THEN 0 ELSE wall]
  /\ timeLeft' = [timeLeft EXCEPT ![r] = RequestTimeout]
  /\ UNCHANGED <<limit, wall, server, cancelled, gap, missed, answer>>

\* A tool's task ended and its result is the answer.
AnswerTool(r) ==
  /\ stage[r] = "tool"
  /\ task[r] \in {"ok", "failed"}
  /\ task' = [task EXCEPT ![r] = "none"]
  /\ Respond(r, IF task[r] = "ok" THEN "ok" ELSE "error")
  /\ UNCHANGED <<limit, wall, server, kind, missed>>

\* Mutant: no timeout around the handler.
NeverTimesOut(r) == FALSE /\ UNCHANGED servingVars

\* The timeout of request_guard: the future is dropped wherever it waits.
GatewayTimeout(r) ==
  /\ r \in Handling
  /\ timeLeft[r] = 0
  /\ task' = [task EXCEPT ![r] = IF @ = "working" THEN @ ELSE "none"]
  /\ Respond(r, "timeout")
  /\ UNCHANGED <<limit, wall, server, kind, missed>>

----------------------------------------------------------------------------
(* run_bounded_explore_blocking                                            *)

\* A permit is free before the deadline: the task starts with it.
StartTask(r) ==
  /\ stage[r] \in Blocking
  /\ awaiting[r] = "permit"
  /\ ~Expired(r)
  /\ Cardinality(HoldsExplorePermit) < ExplorePermits
  /\ awaiting' = [awaiting EXCEPT ![r] = "task"]
  /\ task' = [task EXCEPT ![r] = "working"]
  /\ UNCHANGED <<limit, wall, server, stage, kind, cancelled, timeLeft, wallLeft, gap,
                 missed, answer>>

\* The stage ends at the deadline: before a permit came, before the task
\* ended, or with the failure of an interrupted task.
AtDeadline(r) ==
  /\ stage[r] \in Blocking
  /\ Expired(r)
  /\ \/ awaiting[r] = "permit"
     \/ awaiting[r] = "task" /\ task[r] \in {"working", "failed"}

\* What each stage makes of a deadline: no later stage starts, and the
\* answer says what is missing.  An unknown repository is an error unless
\* even the registry did not load.
StageDeadline(r) ==
  /\ AtDeadline(r)
  /\ Respond(r, IF kind[r] = "unknown" /\ stage[r] # "registry"
                THEN "error" ELSE "degraded")
  /\ missed' = [missed EXCEPT ![r] = @ \/ stage[r] \in Snapshot]
  /\ task' = [task EXCEPT ![r] = IF @ = "working" THEN @ ELSE "none"]
  /\ UNCHANGED <<limit, wall, server, kind>>

\* A stage's task ended: with a value, also when the deadline has passed
\* meanwhile, or with a failure before the deadline.
StageEnds(r) ==
  /\ stage[r] \in Blocking
  /\ awaiting[r] = "task"
  /\ \/ task[r] = "ok"
     \/ task[r] = "failed" /\ ~Expired(r)

\* The registry is needed: its failure is the answer.
RegistryFails(r) ==
  /\ StageEnds(r)
  /\ stage[r] = "registry" /\ task[r] = "failed"
  /\ Respond(r, "error")
  /\ task' = [task EXCEPT ![r] = "none"]
  /\ UNCHANGED <<limit, wall, server, kind, missed>>

\* The next snapshot stage, after a failure with a gap.
NextStage(r) ==
  /\ StageEnds(r)
  /\ stage[r] \in {"registry", "freshness", "graph"}
  /\ stage[r] = "registry" => task[r] = "ok"
  /\ MoveOn(r)
  /\ task' = [task EXCEPT ![r] = "none"]
  /\ gap' = [gap EXCEPT ![r] = @ \/ task[r] = "failed"]
  /\ missed' = [missed EXCEPT ![r] = @ \/ task[r] = "failed"]
  /\ UNCHANGED <<limit, wall, server, kind, cancelled, timeLeft, wallLeft, answer>>

\* The snapshot is there: the repository is looked up, and the provider is
\* built and starts, or cannot be built.
SnapshotDone(r) ==
  /\ StageEnds(r)
  /\ stage[r] = "evidence"
  /\ task' = [task EXCEPT ![r] = "none"]
  /\ missed' = [missed EXCEPT ![r] = @ \/ task[r] = "failed"]
  /\ \/ /\ kind[r] = "unknown"
        /\ Respond(r, "error")
     \/ /\ kind[r] = "explore"
        /\ Respond(r, "degraded")
     \/ /\ kind[r] = "explore"
        /\ MoveOn(r)
        /\ gap' = [gap EXCEPT ![r] = @ \/ task[r] = "failed"]
        /\ UNCHANGED <<cancelled, timeLeft, wallLeft, answer>>
  /\ UNCHANGED <<limit, wall, server, kind>>

\* The provider's operations end, complete, with gaps, or cut short at the
\* deadline, which is a gap; correlation follows in every case.
ProviderDone(r) ==
  /\ stage[r] = "provider"
  /\ MoveOn(r)
  /\ \E missing \in BOOLEAN :
       gap' = [gap EXCEPT ![r] = @ \/ missing \/ Expired(r)]
  /\ UNCHANGED <<limit, wall, server, task, kind, cancelled, timeLeft, wallLeft, missed, answer>>

\* Correlation ended: the report.
Correlated(r) ==
  /\ StageEnds(r)
  /\ stage[r] = "correlation"
  /\ task' = [task EXCEPT ![r] = "none"]
  /\ \E a \in IF task[r] = "ok" THEN Report(r) ELSE {"degraded"} : Respond(r, a)
  /\ UNCHANGED <<limit, wall, server, kind, missed>>

----------------------------------------------------------------------------
(* Tasks, time and shutdown                                                *)

\* An explore task stops at its next check: the store's progress handler and
\* the correlation loop look at the token and at the deadline.
Interrupted(r) == kind[r] # "tool" /\ (cancelled[r] \/ Expired(r))

\* A task ends.  Nobody takes the result of one whose request is gone.
TaskEnds(r) ==
  /\ task[r] = "working"
  /\ \E result \in {"ok", "failed"} :
       task' = [task EXCEPT ![r] = IF stage[r] = "done" THEN "none" ELSE result]
  /\ UNCHANGED <<limit, wall, server, stage, awaiting, kind, cancelled, timeLeft, wallLeft,
                 gap, missed, answer>>

\* An interrupted task ends.
TaskStops(r) == Interrupted(r) /\ TaskEnds(r)

RunsDown(timer) == [r \in Requests |-> IF timer[r] = 0 THEN 0 ELSE timer[r] - 1]

ServingTick ==
  /\ timeLeft' = RunsDown(timeLeft)
  /\ wallLeft' = RunsDown(wallLeft)
  /\ UNCHANGED <<limit, wall, server, stage, awaiting, task, kind, cancelled, gap,
                 missed, answer>>

\* Cancellation: no more connections, the admitted requests finish.
Drain ==
  /\ server = "serving"
  /\ server' = "draining"
  /\ UNCHANGED <<limit, wall, stage, awaiting, task, kind, cancelled, timeLeft, wallLeft, gap,
                 missed, answer>>

\* The server returned and its runtime is dropped, which waits for the
\* blocking tasks.
Exit ==
  /\ server = "draining"
  /\ Handling = {}
  /\ \A r \in Requests : task[r] # "working"
  /\ server' = "exited"
  /\ UNCHANGED <<limit, wall, stage, awaiting, task, kind, cancelled, timeLeft, wallLeft, gap,
                 missed, answer>>

RequestStep(r) ==
  \/ AnswerTool(r) \/ GatewayTimeout(r)
  \/ StartTask(r) \/ StageDeadline(r) \/ RegistryFails(r) \/ NextStage(r)
  \/ SnapshotDone(r) \/ Correlated(r)

ServingNext ==
  \/ \E r \in Requests :
       \/ TurnAway(r) \/ Admit(r)
       \/ RequestStep(r) \/ ProviderDone(r) \/ TaskEnds(r)
  \/ ServingTick
  \/ Drain
  \/ Exit

\* The runtime polls a woken future and the clock runs; an interrupted task
\* reaches its next check; the provider keeps its own deadline.  Nothing is
\* assumed of a tool's task, nor of an explore task before its deadline.
ServingFairness ==
  /\ \A r \in Requests : /\ WF_servingVars(RequestStep(r))
                         /\ WF_servingVars(TaskStops(r))
                         /\ WF_servingVars(Expired(r) /\ ProviderDone(r))
  /\ WF_servingVars(ServingTick)
  /\ WF_servingVars(Exit)

ServingSpec == ServingInit /\ [][ServingNext]_servingVars /\ ServingFairness

----------------------------------------------------------------------------
(* Properties                                                              *)

\* Explore never runs more blocking tasks than it has permits, whatever
\* deadlines and timeouts have done to the requests that started them
\* (run_bounded_explore_blocking moves the permit into the task).
ExploreWorkBounded ==
  Cardinality({r \in Requests : task[r] = "working" /\ kind[r] # "tool"})
    <= ExplorePermits

\* Work that goes on after its request was answered belongs to a request
\* that ran out of time: a client that was given a tool's result, or a
\* complete report, left nothing running.
OnlyLateWorkIsOrphaned ==
  \A r \in Requests :
    task[r] = "working" /\ stage[r] = "done" =>
      \/ answer[r] = "timeout"
      \/ kind[r] # "tool" /\ answer[r] \in {"degraded", "error"}

\* A complete report rests on all four snapshot stages; a stage that failed
\* or was cut short shows as a degraded answer (assemble_explore_snapshot,
\* finish_explore_envelope).
OkReportIsWhole ==
  \A r \in Requests :
    answer[r] = "ok" /\ kind[r] # "tool" => ~missed[r]

(* Explore requests run within their permits, leave work behind only when they
   answered early, and call a report complete only when every stage answered. *)
ExploreIsSound ==
  /\ ServingTypeOK
  /\ ExploreWorkBounded
  /\ OnlyLateWorkIsOrphaned
  /\ OkReportIsWhole

\* What the server's concurrency limit would say of the work it does: no
\* more tool tasks than permits.  A timed-out request returns its permit
\* while its task goes on.
ToolWorkBounded ==
  Cardinality({r \in Requests : task[r] = "working" /\ kind[r] = "tool"})
    <= limit

\* Every admitted request is answered, though its blocking task never ends
\* and other requests' tasks keep the explore permits (request_guard's
\* timeout, the explore deadline).
RequestsAnswered ==
  \A r \in Requests : r \in Handling ~> stage[r] = "done"

\* An explore task that outlives its request stops: Drop of the execution
\* context cancels, the deadline passes, and the store's progress handler
\* sees it.
ExploreWorkStops ==
  \A r \in Requests :
    (kind[r] # "tool" /\ stage[r] = "done" /\ task[r] = "working") ~> task[r] # "working"

\* After cancellation the process exits, as long as the tools' blocking
\* tasks end: graceful shutdown waits for requests, the runtime for tasks.
ShutdownCompletes ==
  (\A r \in Requests : []<>(kind[r] # "tool" \/ task[r] # "working"))
    => (server = "draining" ~> server = "exited")

(* Every request is answered, explore work stops after its answer, and a drain
   ends. *)
ServingCompletes ==
  /\ RequestsAnswered
  /\ ExploreWorkStops
  /\ ShutdownCompletes

============================================================================
