---------------------------- MODULE WatchPipeline ----------------------------
(***************************************************************************)
(* `sync --watch`: file-system callbacks, the event worker process, the    *)
(* reader thread of the supervisor and the supervisor loop, from an edit   *)
(* on disk to the pass that publishes it.                                  *)
(*                                                                         *)
(* The touched set of the code is a set of aliases and a flag; here the    *)
(* flag is the member Workspace.  Workspace also names the manifest as a   *)
(* thing that can change: only a pass over everything reads it.            *)
(***************************************************************************)
EXTENDS Naturals, Sequences, FiniteSets

CONSTANTS
  Repos,        \* repository aliases
  Workspace,    \* the workspace flag of TouchedRepositories; the manifest
  Slots,        \* two places for an event worker: current and replacement
  None,         \* no slot, no event
  LockRepo,     \* the repository whose tree holds `<db>.lock` outside the
                \* protected directories, or None
  MaxEdits,     \* bound on the changes made on disk
  MaxAttempts,  \* MAX_SYNC_ATTEMPTS
  PipeCapacity  \* Dirty messages the worker can write ahead of the reader

ASSUME WatchAssumption ==
  /\ Workspace \notin Repos /\ None \notin Slots
  /\ LockRepo \in Repos \cup {None} /\ None \notin Repos
  /\ MaxEdits \in Nat /\ MaxAttempts \in Nat \ {0} /\ PipeCapacity \in Nat \ {0}

VARIABLES
  (*************************************************************************)
  (* The disk.                                                             *)
  (*************************************************************************)
  stale,      \* items changed since a completed pass last read them
  rules,      \* version of the .gitignore files
  manifest,   \* version of the manifest
  edits,      \* changes made so far
  (*************************************************************************)
  (* Event workers, each with the supervisor's reader thread for it.       *)
  (*************************************************************************)
  slots,
  (*************************************************************************)
  (* The supervisor.                                                       *)
  (*************************************************************************)
  sup,        \* control state of watch_workspace
  cur, rep,   \* slots of `watcher` and `replacement`
  held,       \* local refresh_scope
  scope,      \* manifest version of the local `scope`
  persisted,  \* manifest version of the persisted watch targets
  pass,       \* the synchronization pass in progress
  (*************************************************************************)
  (* History variables, read by no guard.                                  *)
  (*************************************************************************)
  unseen,     \* items with a change a ready worker got no event for
  lost        \* how a request to rebuild the scope was dropped

vars == <<stale, rules, manifest, edits, slots, sup, cur, rep, held, scope,
          persisted, pass, unseen, lost>>

disk == <<stale, rules, manifest, edits>>
history == <<unseen, lost>>

Items == Repos \cup {Workspace}

Events == [touch : SUBSET Items, ignore : BOOLEAN, dir : BOOLEAN]

Messages == [refresh : BOOLEAN, repositories : SUBSET Repos]

FreeSlot ==
  [phase |-> "free", osq |-> {}, cb |-> None, cbStep |-> "idle",
   pend |-> {}, pendRefresh |-> FALSE, pendDirs |-> FALSE, tok |-> "none",
   step |-> "recv", sig |-> "none", swapped |-> FALSE, pipe |-> <<>>,
   rstep |-> "read", touched |-> {}, refresh |-> FALSE, wake |-> FALSE,
   uncovered |-> {}, rules |-> 0, manifest |-> 0]

NoPass == [step |-> "none", scope |-> {}, unread |-> {}, taken |-> {},
           attempt |-> 0]

BeginPass(items) ==
  [step |-> "begin", scope |-> items, unread |-> items, taken |-> {},
   attempt |-> 1]

SlotStates ==
  [phase : {"free", "installing", "ready"}, osq : SUBSET Events,
   cb : Events \cup {None}, cbStep : {"idle", "flag", "send"},
   pend : SUBSET Items, pendRefresh : BOOLEAN, pendDirs : BOOLEAN,
   tok : {"none", "dirty", "dirs"}, step : {"recv", "swap", "emit", "dirs"},
   sig : {"none", "dirty", "dirs"}, swapped : BOOLEAN, pipe : Seq(Messages),
   rstep : {"read", "send"}, touched : SUBSET Items, refresh : BOOLEAN,
   wake : BOOLEAN, uncovered : SUBSET Repos, rules : 0..MaxEdits,
   manifest : 0..MaxEdits]

TypeOK ==
  /\ stale \subseteq Items /\ unseen \subseteq Items
  /\ rules \in 0..MaxEdits /\ manifest \in 0..MaxEdits
  /\ scope \in 0..MaxEdits /\ persisted \in 0..MaxEdits
  /\ edits \in 0..MaxEdits
  /\ sup \in {"initial", "spawn", "catchup", "wait", "debounce", "takescope",
              "taketouched", "pass", "load", "respawn", "replace", "stopped"}
  /\ cur \in Slots \cup {None} /\ rep \in Slots \cup {None}
  /\ held \in BOOLEAN
  /\ lost \subseteq {"load", "overflow"}
  /\ pass \in [step : {"none", "begin", "reading"}, scope : SUBSET Items,
               unread : SUBSET Items, taken : SUBSET Items,
               attempt : 0..MaxAttempts]
  /\ slots \in [Slots -> SlotStates]
  /\ \A s \in Slots : Len(slots[s].pipe) <= PipeCapacity

Init ==
  /\ stale = Items /\ rules = 0 /\ manifest = 0 /\ edits = 0
  /\ slots = [s \in Slots |-> FreeSlot]
  /\ sup = "initial" /\ cur = None /\ rep = None
  /\ held = FALSE /\ scope = 0 /\ persisted = 0
  /\ pass = BeginPass(Items)
  /\ unseen = {} /\ lost = {}

-----------------------------------------------------------------------------
(***************************************************************************)
(* Changes on disk.  `seers` are the workers that get an event if ready.    *)
(***************************************************************************)
Event(touch, ignore, dir) == [touch |-> touch, ignore |-> ignore, dir |-> dir]

Ready(s) == slots[s].phase = "ready"

Deliver(e, seers) ==
  slots' = [s \in Slots |->
    IF Ready(s) /\ s \in seers
    THEN [slots[s] EXCEPT !.osq = @ \cup {e}]
    ELSE slots[s]]

Change(items, e, seers) ==
  /\ sup # "stopped"
  /\ edits < MaxEdits
  /\ edits' = edits + 1
  /\ stale' = stale \cup items
  /\ unseen' = IF \A s \in Slots : Ready(s) => s \in seers
               THEN unseen ELSE unseen \cup items
  /\ Deliver(e, seers)
  /\ UNCHANGED <<sup, cur, rep, held, scope, persisted, pass, lost>>

Edit(r) ==
  /\ Change({r}, Event({r}, FALSE, FALSE), Slots)
  /\ UNCHANGED <<rules, manifest>>

\* A file below a directory created after the watches were installed: the
\* native watcher watches each directory on its own.
EditInNewDirectory(r) ==
  /\ \E s \in Slots : Ready(s) /\ r \in slots[s].uncovered
  /\ Change({r}, Event({r}, FALSE, FALSE),
            {s \in Slots : r \notin slots[s].uncovered})
  /\ UNCHANGED <<rules, manifest>>

\* A file that only the present manifest and ignore rules include.
EditInNewScope(r) ==
  LET current == {s \in Slots : /\ slots[s].rules = rules
                                /\ slots[s].manifest = manifest}
  IN  /\ \E s \in Slots : Ready(s) /\ s \notin current
      /\ Change({r}, Event({r}, FALSE, FALSE), current)
      /\ UNCHANGED <<rules, manifest>>

EditIgnoreFile(r) ==
  /\ Change({r}, Event({r}, TRUE, FALSE), Slots)
  /\ rules' = rules + 1
  /\ UNCHANGED manifest

EditManifest ==
  /\ Change({Workspace}, Event({Workspace}, FALSE, FALSE), Slots)
  /\ manifest' = manifest + 1
  /\ UNCHANGED rules

CreateDirectory(r) ==
  /\ sup # "stopped" /\ edits < MaxEdits
  /\ edits' = edits + 1
  /\ stale' = stale \cup {r}
  /\ slots' = [s \in Slots |->
       IF Ready(s)
       THEN [slots[s] EXCEPT !.osq = @ \cup {Event({r}, FALSE, TRUE)},
                             !.uncovered = @ \cup {r}]
       ELSE slots[s]]
  /\ UNCHANGED <<rules, manifest, sup, cur, rep, held, scope, persisted, pass,
                 history>>

\* The kernel queue overflows: one event that asks for a rescan is left.
Overflow(s) ==
  /\ Cardinality(slots[s].osq) > 1
  /\ slots' = [slots EXCEPT ![s].osq = {Event({Workspace}, FALSE, FALSE)}]
  /\ lost' = IF \E e \in slots[s].osq : e.ignore
             THEN lost \cup {"overflow"} ELSE lost
  /\ UNCHANGED <<disk, sup, cur, rep, held, scope, persisted, pass, unseen>>

-----------------------------------------------------------------------------
(***************************************************************************)
(* The event worker: the watcher callback forward_event and the loop of    *)
(* run_watch_event_worker.                                                 *)
(***************************************************************************)
SlotStep(s, new) ==
  /\ slots' = [slots EXCEPT ![s] = new]
  /\ UNCHANGED <<disk, sup, cur, rep, held, scope, persisted, pass, history>>

\* pending.record(touched): the set grows before any signal is sent.
RecordTouched(s) ==
  /\ Ready(s) /\ slots[s].cbStep = "idle"
  /\ \E e \in slots[s].osq :
       SlotStep(s, [slots[s] EXCEPT !.osq = @ \ {e}, !.cb = e,
                                    !.pend = @ \cup e.touch, !.cbStep = "flag"])

StoreFlags(s) ==
  /\ slots[s].cbStep = "flag"
  /\ SlotStep(s, [slots[s] EXCEPT
                    !.pendRefresh = @ \/ slots[s].cb.ignore,
                    !.pendDirs = @ \/ slots[s].cb.dir, !.cbStep = "send"])

\* try_send on a channel of capacity one: a full channel drops the signal.
SendSignal(s) ==
  /\ slots[s].cbStep = "send"
  /\ SlotStep(s, [slots[s] EXCEPT
                    !.tok = IF @ # "none" THEN @
                            ELSE IF slots[s].cb.dir THEN "dirs" ELSE "dirty",
                    !.cb = None, !.cbStep = "idle"])

ReceiveSignal(s) ==
  /\ Ready(s) /\ slots[s].step = "recv" /\ slots[s].tok # "none"
  /\ SlotStep(s, [slots[s] EXCEPT !.sig = slots[s].tok, !.tok = "none",
                                  !.step = "swap"])

SwapRefreshScope(s) ==
  /\ slots[s].step = "swap"
  /\ SlotStep(s, [slots[s] EXCEPT !.swapped = slots[s].pendRefresh,
                                  !.pendRefresh = FALSE, !.step = "emit"])

\* TouchedRepositories::take followed by unwrap_or_default.
Take(touched) == IF Workspace \in touched THEN {} ELSE touched

EmitDirty(s) ==
  /\ slots[s].step = "emit" /\ Len(slots[s].pipe) < PipeCapacity
  /\ SlotStep(s, [slots[s] EXCEPT
       !.pipe = Append(@, [refresh |-> slots[s].swapped,
                           repositories |-> Take(slots[s].pend)]),
       !.pend = {}, !.swapped = FALSE, !.step = "dirs"])

\* refresh_native_directories, or the polling fallback, sees the whole tree.
RefreshDirectories(s) ==
  /\ slots[s].step = "dirs"
  /\ SlotStep(s, [slots[s] EXCEPT
       !.uncovered = IF slots[s].pendDirs \/ slots[s].sig = "dirs"
                     THEN {} ELSE @,
       !.pendDirs = FALSE, !.sig = "none", !.step = "recv"])

-----------------------------------------------------------------------------
(***************************************************************************)
(* The reader thread of the supervisor, spawn_watch_event_reader.          *)
(***************************************************************************)
\* Mutant: an empty list of repositories touches nothing.
ReadDirtyLiterally(s) ==
  /\ slots[s].rstep = "read" /\ slots[s].pipe # <<>>
  /\ LET m == Head(slots[s].pipe) IN
     SlotStep(s, [slots[s] EXCEPT
       !.pipe = Tail(@), !.refresh = @ \/ m.refresh,
       !.touched = @ \cup m.repositories, !.rstep = "send"])

ReadDirty(s) ==
  /\ slots[s].rstep = "read" /\ slots[s].pipe # <<>>
  /\ LET m == Head(slots[s].pipe) IN
     SlotStep(s, [slots[s] EXCEPT
       !.pipe = Tail(@),
       !.refresh = @ \/ m.refresh,
       !.touched = @ \cup (IF m.repositories = {} THEN {Workspace}
                           ELSE m.repositories),
       !.rstep = "send"])

\* Mutant: the signal is kept only for a supervisor that waits for it.
WakeIfWaiting(s) ==
  /\ slots[s].rstep = "send"
  /\ SlotStep(s, [slots[s] EXCEPT !.wake = (sup = "wait"), !.rstep = "read"])

WakeSupervisor(s) ==
  /\ slots[s].rstep = "send"
  /\ SlotStep(s, [slots[s] EXCEPT !.wake = TRUE, !.rstep = "read"])

-----------------------------------------------------------------------------

\* wait_for_debounced_change: the first signal, then signals until quiet.
ReceiveChange ==
  /\ sup \in {"wait", "debounce"} /\ slots[cur].wake
  /\ slots' = [slots EXCEPT ![cur].wake = FALSE]
  /\ sup' = "debounce"
  /\ UNCHANGED <<disk, cur, rep, held, scope, persisted, pass, history>>

DebounceElapsed ==
  /\ sup = "debounce"
  /\ sup' = "takescope"
  /\ UNCHANGED <<disk, slots, cur, rep, held, scope, persisted, pass, history>>

TakeScopeRefresh ==
  /\ sup = "takescope"
  /\ held' = slots[cur].refresh
  /\ slots' = [slots EXCEPT ![cur].refresh = FALSE]
  /\ sup' = "taketouched"
  /\ UNCHANGED <<disk, cur, rep, scope, persisted, pass, history>>

\* take_touched_repositories and targeted_pass_overrides.
TakeTouched ==
  /\ sup = "taketouched"
  /\ LET touched == Take(slots[cur].touched) IN
     pass' = BeginPass(IF held \/ touched = {} THEN Items ELSE touched)
  /\ slots' = [slots EXCEPT ![cur].touched = {}]
  /\ sup' = "pass"
  /\ UNCHANGED <<disk, cur, rep, held, scope, persisted, history>>

\* One attempt loads the manifest and, unless it is targeted, persists the
\* watch targets.  The store lock it takes may itself be seen as an edit.
PassBegins ==
  /\ pass.step = "begin"
  /\ pass' = [pass EXCEPT !.step = "reading"]
  /\ persisted' = IF Workspace \in pass.scope THEN manifest ELSE persisted
  /\ Deliver(Event({LockRepo}, FALSE, FALSE), {s \in Slots : LockRepo # None})
  /\ UNCHANGED <<disk, sup, cur, rep, held, scope, history>>

PassReads(x) ==
  /\ pass.step = "reading" /\ x \in pass.unread
  /\ pass' = [pass EXCEPT !.unread = @ \ {x}, !.taken = @ \cup ({x} \cap stale)]
  /\ stale' = stale \ {x}
  /\ unseen' = unseen \ {x}
  /\ UNCHANGED <<rules, manifest, edits, slots, sup, cur, rep, held, scope,
                 persisted, lost>>

\* TransientExecution before the last attempt: everything is read again.
PassRetries ==
  /\ pass.step = "reading" /\ pass.attempt < MaxAttempts
  /\ pass' = [BeginPass(pass.scope) EXCEPT !.attempt = pass.attempt + 1]
  /\ stale' = stale \cup pass.taken
  /\ UNCHANGED <<rules, manifest, edits, slots, sup, cur, rep, held, scope,
                 persisted, history>>

PassPublishes ==
  /\ pass.step = "reading" /\ pass.unread = {}
  /\ pass' = NoPass
  /\ \/ /\ sup = "initial" /\ sup' = "spawn" /\ scope' = persisted
        /\ UNCHANGED <<slots, cur, rep>>
     \/ /\ sup = "catchup" /\ sup' = "wait"
        /\ UNCHANGED <<slots, cur, rep, scope>>
     \/ /\ sup = "pass" /\ sup' = "load"
        /\ UNCHANGED <<slots, cur, rep, scope>>
     \/ /\ sup = "replace" /\ sup' = "wait"
        /\ slots' = [slots EXCEPT ![cur] = FreeSlot]
        /\ cur' = rep /\ rep' = None /\ scope' = slots[rep].manifest
  /\ UNCHANGED <<disk, held, persisted, history>>

\* WatchEventWorker::spawn: the worker loads the persisted targets, installs
\* its watches and reports Ready.
SpawnWorker(s) ==
  /\ slots[s].phase = "free"
  /\ \/ sup = "spawn" /\ cur = None /\ cur' = s /\ UNCHANGED rep
     \/ sup = "respawn" /\ rep = None /\ rep' = s /\ UNCHANGED cur
  /\ slots' = [slots EXCEPT ![s] = [FreeSlot EXCEPT !.phase = "installing",
                                                    !.manifest = persisted]]
  /\ UNCHANGED <<disk, sup, held, scope, persisted, pass, history>>

WorkerReady(s) ==
  /\ slots[s].phase = "installing"
  /\ slots' = [slots EXCEPT ![s].phase = "ready", ![s].rules = rules]
  /\ sup' = IF sup = "spawn" THEN "catchup" ELSE "replace"
  /\ pass' = BeginPass(Items)
  /\ UNCHANGED <<disk, cur, rep, held, scope, persisted, history>>

\* Mutant: only different targets replace the worker.
LoadScopeByTargets ==
  /\ sup = "load"
  /\ sup' = IF persisted # scope THEN "respawn" ELSE "wait"
  /\ held' = FALSE
  /\ UNCHANGED <<disk, slots, cur, rep, scope, persisted, pass, history>>

LoadScope ==
  /\ sup = "load"
  /\ sup' = IF held \/ persisted # scope THEN "respawn" ELSE "wait"
  /\ held' = FALSE
  /\ UNCHANGED <<disk, slots, cur, rep, scope, persisted, pass, history>>

\* The error is printed and the loop continues with the scope it has.
LoadScopeFails ==
  /\ sup = "load"
  /\ sup' = "wait"
  /\ held' = FALSE
  /\ lost' = IF held \/ persisted # scope THEN lost \cup {"load"} ELSE lost
  /\ UNCHANGED <<disk, slots, cur, rep, scope, persisted, pass, unseen>>

\* Deadlines, signals and every error that is not retried end the process.
Stop ==
  /\ sup # "stopped"
  /\ sup' = "stopped"
  /\ slots' = [s \in Slots |-> FreeSlot]
  /\ cur' = None /\ rep' = None /\ held' = FALSE /\ pass' = NoPass
  /\ UNCHANGED <<disk, scope, persisted, history>>

-----------------------------------------------------------------------------
DiskStep ==
  \/ \E r \in Repos : \/ Edit(r) \/ EditInNewDirectory(r) \/ EditInNewScope(r)
                      \/ EditIgnoreFile(r) \/ CreateDirectory(r)
  \/ EditManifest
  \/ \E s \in Slots : Overflow(s)

WorkerStep(s) ==
  \/ RecordTouched(s) \/ StoreFlags(s) \/ SendSignal(s) \/ ReceiveSignal(s)
  \/ SwapRefreshScope(s) \/ EmitDirty(s) \/ RefreshDirectories(s)
  \/ ReadDirty(s) \/ WakeSupervisor(s)

SupervisorStep ==
  \/ ReceiveChange \/ DebounceElapsed \/ TakeScopeRefresh \/ TakeTouched
  \/ PassBegins \/ (\E x \in Items : PassReads(x)) \/ PassPublishes
  \/ (\E s \in Slots : SpawnWorker(s) \/ WorkerReady(s)) \/ LoadScope

Next ==
  \/ DiskStep
  \/ \E s \in Slots : WorkerStep(s)
  \/ SupervisorStep
  \/ PassRetries \/ LoadScopeFails \/ Stop

Spec == Init /\ [][Next]_vars

\* Threads run and the debounce elapses: it is capped even when signals keep
\* coming.  Edits, failures and deadlines need not happen.
Fairness ==
  /\ WF_vars(SupervisorStep) /\ SF_vars(DebounceElapsed)
  /\ \A s \in Slots :
       /\ WF_vars(RecordTouched(s)) /\ WF_vars(StoreFlags(s))
       /\ WF_vars(SendSignal(s)) /\ WF_vars(ReceiveSignal(s))
       /\ WF_vars(SwapRefreshScope(s)) /\ WF_vars(EmitDirty(s))
       /\ WF_vars(RefreshDirectories(s)) /\ WF_vars(ReadDirty(s))
       /\ WF_vars(WakeSupervisor(s))

FairSpec == Spec /\ Fairness

-----------------------------------------------------------------------------
\* The items a Dirty message or a touched set asks the next pass to read.
Widened(touched) == IF Take(touched) = {} THEN Items ELSE touched

\* Some signal is still on its way to, or already with, the consumer.
WorkerWillEmit(s) ==
  \/ slots[s].cbStep \in {"flag", "send"} \/ slots[s].tok # "none"
  \/ slots[s].step \in {"swap", "emit"}

SupervisorWillTake(s) ==
  slots[s].wake \/ slots[s].rstep = "send"
    \/ (s = cur /\ sup \in {"debounce", "takescope", "taketouched"})

InPipeline(s, x) ==
  \/ \E e \in slots[s].osq : x \in Widened(e.touch)
  \/ slots[s].pend # {} /\ x \in Widened(slots[s].pend) /\ WorkerWillEmit(s)
  \/ \E i \in DOMAIN slots[s].pipe : x \in Widened(slots[s].pipe[i].repositories)
  \/ slots[s].touched # {} /\ x \in Widened(slots[s].touched)
       /\ SupervisorWillTake(s)

\* The worker whose events the supervisor will go on listening to.
Active == IF sup = "replace" THEN rep ELSE cur

Covered(x) ==
  \/ sup \in {"initial", "spawn", "respawn", "stopped"}
  \/ x \in pass.unread
  \/ Active # None /\ InPipeline(Active, x)

\* While `sync --watch` runs, a change a worker was told about is in a pending
\* set with a signal for it, or a pass that will read it is under way: no
\* interleaving of callback, worker, reader and supervisor loses it, and
\* neither does replacing the worker ("either included by this pass or remains
\* coalesced in the replacement channel").
NoObservedChangeLost == \A x \in stale \ unseen : Covered(x)

(* The pipeline's books are well formed and hold every change that a watcher
   was told of and the store does not have yet: between the callback, the
   accumulator, the pass and its retries nothing falls through. *)
PipelineCovers ==
  /\ TypeOK
  /\ NoObservedChangeLost

RefreshInPipeline(s) ==
  \/ \E e \in slots[s].osq : e.ignore
  \/ slots[s].cbStep = "flag" /\ slots[s].cb.ignore
  \/ slots[s].pendRefresh /\ (slots[s].cbStep = "send" \/ slots[s].tok # "none"
                                \/ slots[s].step = "swap")
  \/ slots[s].swapped
  \/ \E i \in DOMAIN slots[s].pipe : slots[s].pipe[i].refresh
  \/ slots[s].refresh /\ (slots[s].wake \/ slots[s].rstep = "send"
                            \/ (s = cur /\ sup \in {"debounce", "takescope"}))

\* A worker filters with the ignore rules on disk, or the request to replace
\* it is on its way: the refresh flag is never lost between the callback and
\* WatchEventWorker::spawn unless the queue overflowed or reloading failed.
IgnoreRulesFollowed ==
  lost = {} /\ Active # None /\ Ready(Active)
    /\ slots[Active].rules # rules
      => RefreshInPipeline(Active) \/ held \/ sup = "respawn"

\* A change a worker was told about is published, or the watcher ends.
ObservedChangePublished ==
  \A x \in Items :
    (x \in stale \ unseen) ~> (x \notin stale \/ x \in unseen \/ sup = "stopped")

\* watch_workspace "keeps both local index layers current": as long as nobody
\* touches the manifest or the ignore rules, every change to a declared
\* repository is published, or the watcher ends.
ChangeInFixedScopePublished ==
  \A x \in Repos :
    (x \in stale /\ rules = 0 /\ manifest = 0)
      ~> (x \notin stale \/ rules # 0 \/ manifest # 0 \/ sup = "stopped")

\* `sync --watch` "observes the manifest plus all declared checkout trees": a
\* worker that lacks targets a pass has published is replaced, or the watcher
\* ends.
DeclaredTreesObserved ==
  \A s \in Slots :
    (sup = "wait" /\ cur = s /\ slots[s].manifest # persisted)
      ~> (cur # s \/ sup = "stopped")

=============================================================================
