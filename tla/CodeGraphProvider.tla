------------------------- MODULE CodeGraphProvider -------------------------
(***************************************************************************)
(* Concurrent calls of one CodeGraphProvider: the process permits and the  *)
(* concurrency counters, the cached CLI version, the per-repository MCP    *)
(* circuit, the child processes with their cancellation and deadline, and  *)
(* shutdown.  Each call has a budget, run down by ticks, that every        *)
(* process it starts inherits.  What a call returns is left out, when and  *)
(* after which processes it returns is not.  A child may start a helper    *)
(* that keeps the child's output open.                                     *)
(***************************************************************************)
EXTENDS Integers, FiniteSets

CONSTANTS
  Calls,         \* tasks that make one call of the provider after another
  Repositories,  \* repositories
  Permits,       \* max_concurrent_processes, one of these
  Budget,        \* the request's timeout, in ticks
  Cooldown       \* circuit_breaker_cooldown, in ticks

ASSUME ProviderAssumption == /\ IsFiniteSet(Calls)
                             /\ Permits \subseteq Nat \ {0}
                             /\ Budget \in Nat \ {0}
                             /\ Cooldown \in Nat \ {0}

VARIABLES
  permits,     \* the provider's permits
  pc,          \* where the call is
  op,          \* its operation: "context" tries MCP first, "probe" asks for
               \* everything, "command" stands for the others
  repo,        \* the repository its task works on
  left,        \* ticks to its deadline
  process,     \* its child: none, running, exited, or why it was killed
  helper,      \* a helper of the child holds the output open
  revoked,     \* its cancellation token
  active,      \* active_processes
  observed,    \* maximum_concurrency_observed
  version,     \* cli_version
  circuit,     \* mcp_circuits: ticks until the repository's circuit closes
  closed,      \* shut down: the flag and the closed semaphore
  calm         \* history: ticks since the repository's last MCP timeout

providerVars == <<permits, pc, op, repo, left, process, helper, revoked, active,
                  observed, version, circuit, closed, calm>>

Ops == {"context", "probe", "command"}

\* A call holds a permit from enter until the guard is dropped; the counter
\* goes down first.
Holding == {c \in Calls : pc[c] \in {"entered", "checked", "mcp", "fallback",
                                     "version", "run", "leaving"}}
Running == {c \in Calls : process[c] = "running"}
Due(c) == left[c] = 0

ProviderTypeOK ==
  /\ permits \in Permits
  /\ pc \in [Calls -> {"idle", "waiting", "entered", "checked", "mcp", "fallback",
                       "version", "run", "leaving"}]
  /\ op \in [Calls -> Ops]
  /\ repo \in [Calls -> Repositories]
  /\ left \in [Calls -> 0 .. Budget]
  /\ process \in [Calls -> {"none", "running", "ok", "failed", "cancelled", "timeout"}]
  /\ helper \in [Calls -> BOOLEAN]
  /\ revoked \in [Calls -> BOOLEAN]
  /\ active \in 0 .. Cardinality(Calls)
  /\ observed \in 0 .. Cardinality(Calls)
  /\ version \in {"unknown", "supported", "unsupported"}
  /\ circuit \in [Repositories -> 0 .. Cooldown]
  /\ closed \in BOOLEAN
  /\ calm \in [Repositories -> 0 .. Cooldown]

ProviderInit ==
  /\ permits \in Permits
  /\ pc = [c \in Calls |-> "idle"]
  /\ op = [c \in Calls |-> "command"]
  /\ repo \in [Calls -> Repositories]
  /\ left = [c \in Calls |-> 0]
  /\ process = [c \in Calls |-> "none"]
  /\ helper = [c \in Calls |-> FALSE]
  /\ revoked = [c \in Calls |-> FALSE]
  /\ active = 0
  /\ observed = 0
  /\ version = "unknown"
  /\ circuit = [r \in Repositories |-> 0]
  /\ closed = FALSE
  /\ calm = [r \in Repositories |-> Cooldown]

----------------------------------------------------------------------------
(* enter and the drop of the permit                                        *)

Goes(c, where) == pc' = [pc EXCEPT ![c] = where]

\* The caller has its answer and the call is over.
Over(c) ==
  /\ pc' = [pc EXCEPT ![c] = "idle"]
  /\ op' = [op EXCEPT ![c] = "command"]
  /\ left' = [left EXCEPT ![c] = 0]
  /\ revoked' = [revoked EXCEPT ![c] = FALSE]

\* A call that holds a permit returns: its child is gone, and Drop of the
\* permit counts it out.
Return(c) ==
  /\ Goes(c, "leaving")
  /\ process' = [process EXCEPT ![c] = "none"]
  /\ active' = active - 1

\* A call is made before shutdown, and waits for a permit until its
\* deadline; after shutdown it is refused at once.
Call(c) ==
  /\ pc[c] = "idle"
  /\ ~closed
  /\ Goes(c, "waiting")
  /\ \E o \in Ops : op' = [op EXCEPT ![c] = o]
  /\ left' = [left EXCEPT ![c] = Budget]
  /\ UNCHANGED <<permits, repo, process, helper, revoked, active, observed,
                 version, circuit, closed, calm>>

\* The select of enter looks at cancellation, at the deadline, and then at
\* the semaphore, which is closed or free.
GiveUp(c) ==
  /\ pc[c] = "waiting"
  /\ revoked[c] \/ Due(c) \/ closed
  /\ Over(c)
  /\ UNCHANGED <<permits, repo, process, helper, active, observed, version, circuit,
                 closed, calm>>

Larger(a, b) == IF a > b THEN a ELSE b

Acquire(c) ==
  /\ pc[c] = "waiting" /\ ~revoked[c] /\ ~Due(c) /\ ~closed
  /\ Cardinality(Holding) < permits
  /\ Goes(c, "entered")
  /\ active' = active + 1
  /\ observed' = Larger(observed, active + 1)
  /\ UNCHANGED <<permits, op, repo, left, process, helper, revoked, version, circuit,
                 closed, calm>>

\* The semaphore permit, dropped after the counter.
Leave(c) ==
  /\ pc[c] = "leaving"
  /\ Over(c)
  /\ UNCHANGED <<permits, repo, process, helper, active, observed, version, circuit,
                 closed, calm>>

----------------------------------------------------------------------------
(* Processes                                                               *)

\* update_remaining_timeout lets a call start a process only with time left.
Start(c, where) ==
  /\ Goes(c, where)
  /\ process' = [process EXCEPT ![c] = "running"]
  /\ UNCHANGED active

\* Mutant: only cancellation ends a wait.
IgnoresDeadline(c) == revoked[c]

\* The select of run and of the MCP session looks at cancellation and at the
\* deadline before it looks at the child.
CutShort(c) == revoked[c] \/ Due(c)

\* The child exits by itself, perhaps leaving a helper.
ChildExits(c) ==
  /\ process[c] = "running"
  /\ ~CutShort(c)
  /\ \E r \in {"ok", "failed"}, h \in BOOLEAN :
       /\ process' = [process EXCEPT ![c] = r]
       /\ helper' = [helper EXCEPT ![c] = h]
  /\ UNCHANGED <<permits, pc, op, repo, left, revoked, active, observed, version,
                 circuit, closed, calm>>

\* A helper exits, closing the output.
HelperExits(c) ==
  /\ helper[c]
  /\ helper' = [helper EXCEPT ![c] = FALSE]
  /\ UNCHANGED <<permits, pc, op, repo, left, process, revoked, active, observed,
                 version, circuit, closed, calm>>

\* Cancellation or the deadline terminates the child, killed and waited for;
\* the readers of its output are still awaited.
Terminate(c) ==
  /\ pc[c] \in {"mcp", "version", "run"}
  /\ process[c] = "running"
  /\ CutShort(c)
  /\ \E h \in BOOLEAN :
       helper' = [helper EXCEPT ![c] = h]
  /\ process' = [process EXCEPT ![c] = IF revoked[c] THEN "cancelled" ELSE "timeout"]
  /\ UNCHANGED <<permits, pc, op, repo, left, revoked, active, observed, version,
                 circuit, closed, calm>>

\* The output readers are joined once nobody holds the output open.
Ended(c) == process[c] # "running" /\ ~helper[c]

----------------------------------------------------------------------------
(* build_local_context and the CLI operations                              *)

\* Mutant: one circuit for all repositories.
AnyCircuit(c) == \A r \in Repositories : circuit[r] = 0

\* mcp_is_available: expired circuits are dropped, the repository's own is
\* looked up.
Available(c) == circuit[repo[c]] = 0

\* Where a call with a permit begins: build_local_context with MCP unless
\* the circuit is open, probe with the CLI's version, the others with the
\* version they may have cached.
ChooseTransport(c) ==
  /\ pc[c] = "entered"
  /\ \/ /\ op[c] = "probe"
        /\ IF Due(c) THEN Return(c) ELSE Start(c, "version")
     \/ /\ op[c] # "probe"
        /\ Goes(c, IF op[c] = "context" /\ Available(c) THEN "checked" ELSE "fallback")
        /\ UNCHANGED <<process, active>>
  /\ UNCHANGED <<permits, op, repo, left, helper, revoked, observed, version, circuit, closed, calm>>

\* The MCP session starts, if time is left.
ConnectMcp(c) ==
  /\ pc[c] = "checked"
  /\ IF Due(c) THEN Return(c) ELSE Start(c, "mcp")
  /\ UNCHANGED <<permits, op, repo, left, helper, revoked, observed, version, circuit, closed, calm>>

\* open_mcp_circuit after a timeout.
Circuit(c) == IF process[c] = "timeout"
              THEN [circuit EXCEPT ![repo[c]] = Cooldown] ELSE circuit

\* The session ended: an answer or a cancellation is the result; after any
\* other failure local context turns to the CLI and a probe does without.
McpEnds(c) ==
  /\ pc[c] = "mcp"
  /\ Ended(c)
  /\ circuit' = Circuit(c)
  /\ calm' = IF process[c] = "timeout" THEN [calm EXCEPT ![repo[c]] = 0] ELSE calm
  /\ IF process[c] \in {"ok", "cancelled"} \/ op[c] = "probe"
     THEN Return(c)
     ELSE /\ Goes(c, "fallback")
          /\ process' = [process EXCEPT ![c] = "none"]
          /\ UNCHANGED active
  /\ UNCHANGED <<permits, op, repo, left, helper, revoked, observed, version, closed>>

\* compatible_cli_version: from the cache, or by asking the CLI.
NeedVersion(c) ==
  /\ pc[c] = "fallback"
  /\ \/ /\ version = "unsupported" \/ Due(c)
        /\ Return(c)
     \/ /\ version # "unsupported" /\ ~Due(c)
        /\ Start(c, IF version = "supported" THEN "run" ELSE "version")
  /\ UNCHANGED <<permits, op, repo, left, helper, revoked, observed, version, circuit, closed, calm>>

\* probe_mcp: passed over while the circuit is open.
ProbeMcp(c) ==
  IF Available(c)
  THEN /\ Goes(c, "checked")
       /\ process' = [process EXCEPT ![c] = "none"]
       /\ UNCHANGED active
  ELSE Return(c)

\* The version arrived and is kept, or the CLI could not be asked, which
\* also ends a probe.
VersionEnds(c) ==
  /\ pc[c] = "version"
  /\ Ended(c)
  /\ \/ /\ process[c] # "ok"
        /\ Return(c)
        /\ UNCHANGED version
     \/ /\ process[c] = "ok"
        /\ version' = "unsupported"
        /\ IF op[c] = "probe" THEN ProbeMcp(c) ELSE Return(c)
     \/ /\ process[c] = "ok"
        /\ version' = "supported"
        /\ IF Due(c) THEN Return(c) ELSE Start(c, "run")
  /\ UNCHANGED <<permits, op, repo, left, helper, revoked, observed, circuit, closed, calm>>

\* The command ended; a probe's was the status, whatever came of it.
RunEnds(c) ==
  /\ pc[c] = "run"
  /\ Ended(c)
  /\ IF op[c] = "probe" THEN ProbeMcp(c) ELSE Return(c)
  /\ UNCHANGED <<permits, op, repo, left, helper, revoked, observed, version, circuit, closed, calm>>

----------------------------------------------------------------------------
\* The caller cancels a call.
Revoke(c) ==
  /\ pc[c] # "idle"
  /\ ~revoked[c]
  /\ revoked' = [revoked EXCEPT ![c] = TRUE]
  /\ UNCHANGED <<permits, pc, op, repo, left, process, helper, active, observed,
                 version, circuit, closed, calm>>

\* shutdown: the flag, then the semaphore.
Shutdown ==
  /\ ~closed
  /\ closed' = TRUE
  /\ UNCHANGED <<permits, pc, op, repo, left, process, helper, revoked, active,
                 observed, version, circuit, calm>>

ProviderTick ==
  /\ left' = [c \in Calls |-> IF left[c] > 0 THEN left[c] - 1 ELSE 0]
  /\ circuit' = [r \in Repositories |-> IF circuit[r] > 0 THEN circuit[r] - 1 ELSE 0]
  /\ calm' = [r \in Repositories |-> IF calm[r] < Cooldown THEN calm[r] + 1 ELSE Cooldown]
  /\ UNCHANGED <<permits, pc, op, repo, process, helper, revoked, active, observed,
                 version, closed>>

CallStep(c) ==
  \/ GiveUp(c) \/ Acquire(c) \/ Leave(c) \/ Terminate(c)
  \/ ChooseTransport(c) \/ ConnectMcp(c) \/ McpEnds(c)
  \/ NeedVersion(c) \/ VersionEnds(c) \/ RunEnds(c)

ProviderNext ==
  \/ \E c \in Calls : \/ Call(c) \/ Revoke(c) \/ CallStep(c)
                      \/ ChildExits(c) \/ HelperExits(c)
  \/ Shutdown
  \/ ProviderTick

\* The runtime polls woken futures, kill ends a child, and the clock runs.
\* A child may run for ever, and so may a helper.
ProviderFairness ==
  /\ \A c \in Calls : WF_providerVars(CallStep(c))
  /\ WF_providerVars(ProviderTick)

ProviderSpec == ProviderInit /\ [][ProviderNext]_providerVars /\ ProviderFairness

----------------------------------------------------------------------------
(* Properties                                                              *)

\* At most max_concurrent_processes children run, and the concurrency the
\* provider reports is honest: at least what was ever running at once and
\* never above the permits, though Drop gives back counter and permit one
\* after the other.
ObservedConcurrencyHonest ==
  /\ Cardinality(Running) <= observed
  /\ observed <= permits

\* MCP is passed over for a repository exactly during the cooldown after
\* that repository's own last MCP timeout: other repositories, other
\* failures and cancellations leave it alone.
CircuitFollowsTimeouts ==
  [][\A c \in Calls :
       /\ pc'[c] = "checked" /\ pc[c] # "checked" => calm[repo[c]] = Cooldown
       /\ pc[c] = "entered" /\ pc'[c] = "fallback" /\ op[c] = "context"
            => calm[repo[c]] < Cooldown]_providerVars

(* The provider's counters tell what ran, and the circuit of a repository is
   open for exactly the cooldown after its timeouts. *)
ProviderIsHonest ==
  /\ [](ProviderTypeOK /\ ObservedConcurrencyHonest)
  /\ CircuitFollowsTimeouts

\* Every call returns, though its child never exits and others keep the
\* permits (the deadline of enter, and of run and the MCP session), as long
\* as no helper of a terminated child holds the output open for ever.
CallsReturn ==
  (\A c \in Calls : []<>~helper[c])
    => \A c \in Calls : pc[c] = "waiting" ~> pc[c] = "idle"

\* The same of any helper: the readers of a terminated child's output are
\* awaited without a bound.
CallsAlwaysReturn ==
  \A c \in Calls : pc[c] = "waiting" ~> pc[c] = "idle"

\* What the trait says of shutdown: it terminates owned child processes.
ShutdownTerminates == closed => Running = {}

\* What the operation table says of local context: CLI explore is the
\* fallback of MCP.  An MCP timeout spends the whole budget of its call.
TimeoutLeavesFallback ==
  [][\A c \in Calls : pc[c] = "mcp" /\ pc'[c] = "fallback" => ~Due(c)]_providerVars
============================================================================
