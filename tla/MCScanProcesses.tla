-------------------------- MODULE MCScanProcesses --------------------------
(***************************************************************************)
(* The processes of a watched scan side by side: watchers with their work  *)
(* sidecar, and one supervised pass of the worker a watcher starts.  A     *)
(* behaviour is one of the two, as the initial state says; they share no   *)
(* state.                                                                  *)
(***************************************************************************)
EXTENDS WorkSidecar, WorkerSupervision

CONSTANTS
  w1, w2,           \* WorkSidecar
  u1, u2            \* WorkerSupervision

VARIABLE part

\* The built-in limits and those of the workspace, in ticks.
BuiltInLimits == [wall |-> 2, idle |-> 2]
WorkspaceLimits == [wall |-> 2, idle |-> 1]

\* The supervisor would run by itself; when it is not the part it has returned.
SupervisionAtRest ==
  /\ now = 0 /\ helpers = {} /\ wire = <<>>
  /\ published = FALSE /\ cancelled = TRUE
  /\ worker = [exit |-> "signal", limit |-> FALSE, began |-> None, last |-> 0,
               total |-> 0, taken |-> 0, wrote |-> None]
  /\ at = [t \in WorkerThreads |-> IF t = "main" THEN "boot" ELSE "parked"]
  /\ sup = [pc |-> "returned", policy |-> DefaultPolicy, received |-> FALSE,
            last |-> 0, total |-> 0, result |-> FALSE, exited |-> None,
            since |-> 0, rounds |-> 0, why |-> "cancelled"]

Init ==
  /\ part \in {"sidecar", "supervision"}
  /\ SidecarInit
  /\ IF part = "supervision" THEN SupervisionInit ELSE SupervisionAtRest

SidecarStep ==
  /\ part = "sidecar"
  /\ SidecarNext
  /\ UNCHANGED <<part, supervisionVars>>

SupervisionStep ==
  /\ part = "supervision"
  /\ SupervisionNext
  /\ UNCHANGED <<part, sidecarVars>>

Next == SidecarStep \/ SupervisionStep

vars == <<part, sidecarVars, supervisionVars>>

\* The fair actions of a part that is not running are disabled.
Spec == Init /\ [][Next]_vars /\ SidecarFairness /\ SupervisionFairness
=============================================================================
