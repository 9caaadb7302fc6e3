---------------------------- MODULE PluginCompose ----------------------------
(***************************************************************************)
(* The managed integration that `csgraph plugin create` composes into an    *)
(* existing Agent Plugin and `csgraph plugin uninstall` takes out again     *)
(* (cli/src/agent_plugin.rs, agent_plugin/composition.rs, filesystem.rs).   *)
(*                                                                         *)
(* An integration has three parts: an MCP server entry in one or two JSON   *)
(* documents, a directory with the routing skill, and a local directory     *)
(* with the binding and a receipt.  A command changes them one after the    *)
(* other and undoes its changes when a step fails; it may also be killed    *)
(* between two steps, and then undoes nothing.                              *)
(*                                                                         *)
(* A skill directory is the build that rendered it, Edited when the owner   *)
(* has changed its files, or PartialSkill when its removal was cut short.   *)
(* The owner's change of the binding leaves its ownership identity readable.*)
(***************************************************************************)
EXTENDS Naturals, FiniteSets

CONSTANTS
  Names,      \* names an integration can be given (server and skill together)
  Builds,     \* builds of csgraph: each renders its own skill and binding
  Databases,  \* databases a binding can name
  MaxFaults,  \* bound: failing file operations and kills
  MaxChanges  \* bound: changes by the owner of the plugin

VARIABLES
  documents,  \* the JSON documents of the plugin
  entry,      \* per document and name: the server entry
  skill,      \* per name: the skill directory
  local,      \* .local/code-system-graph
  task,       \* the command that runs, or NoTask
  step,       \* what it does next
  todo,       \* documents it has still to write
  before,     \* <<entry, skill, local>> as its check read them
  aside,      \* the directories it has renamed out of the way
  result,     \* how the last command ended
  faults,     \* failures and kills so far
  changes,    \* owner's changes so far
  late        \* the owner changed something while a command ran

pluginVars == <<documents, entry, skill, local, task, step, todo, before, aside,
                result, faults, changes, late>>

NoTask == [kind |-> "none"]
NoLocal == [name |-> "none"]
NoAside == [skill |-> "none", local |-> NoLocal]
Edited == "edited"
PartialSkill == "partial"

ASSUME PluginAssumption ==
  /\ MaxFaults \in Nat /\ MaxChanges \in Nat
  /\ Builds # {} /\ Databases # {}
  /\ Builds \cap {"none", Edited, PartialSkill} = {}

Creates == [kind : {"create"}, name : Names, build : Builds, database : Databases,
            replace : BOOLEAN]
Tasks == Creates \cup [kind : {"uninstall"}, name : Names]

\* What create writes into the local directory: the binding, and a receipt with the names,
\* the managed documents and the hashes of skill and binding.
LocalOf(c) == [name |-> c.name, build |-> c.build, database |-> c.database,
               documents |-> documents, intact |-> TRUE]
Locals == [name : Names, build : Builds, database : Databases,
           documents : SUBSET {"mcp.json", "codex"}, intact : BOOLEAN]

PluginTypeOK ==
  /\ documents \in {{"mcp.json"}, {"mcp.json", "codex"}}
  /\ entry \in [documents -> [Names -> {"none", "managed", "foreign"}]]
  /\ skill \in [Names -> Builds \cup {"none", Edited, PartialSkill}]
  /\ local \in Locals \cup {NoLocal}
  /\ task \in Tasks \cup {NoTask}
  /\ todo \subseteq documents
  /\ result \in {"none", "done", "refused", "failed", "replaced", "killed"}
  /\ faults \in 0..MaxFaults
  /\ changes \in 0..MaxChanges
  /\ late \in BOOLEAN

PluginInit ==
  /\ documents \in {{"mcp.json"}, {"mcp.json", "codex"}}
  /\ entry = [d \in documents |-> [n \in Names |-> "none"]]
  /\ skill = [n \in Names |-> "none"]
  /\ local = NoLocal
  /\ task = NoTask
  /\ step = "idle"
  /\ todo = {}
  /\ before = NoTask
  /\ aside = NoAside
  /\ result = "none"
  /\ faults = 0
  /\ changes = 0
  /\ late = FALSE

PluginIdle == task = NoTask
Parts == <<entry, skill, local>>

----------------------------------------------------------------------------
(* What the commands verify before they write                              *)

\* Mutant: create refuses an entry it has written itself.
CreateAcceptsMut(c) ==
  /\ \A d \in documents : entry[d][c.name] = "none"
  /\ skill[c.name] \in {"none", c.build}

\* merge_server finds no entry or its own in every document, and verify_existing finds no
\* skill directory or the one this build renders.
CreateAccepts(c) ==
  /\ \A d \in documents : entry[d][c.name] # "foreign"
  /\ skill[c.name] \in {"none", c.build}

\* write_local_binding verifies the local directory only after documents and skill are
\* written; an owned directory may be replaced.
LocalAccepts(c) == local = NoLocal \/ local = LocalOf(c) \/ c.replace

\* The receipt names this integration, the hashes of binding and skill are the recorded
\* ones, and every managed document has the entry.
UninstallAccepts(n) ==
  /\ local # NoLocal
  /\ local.name = n
  /\ local.intact
  /\ skill[n] = local.build
  /\ \A d \in local.documents : d \in documents /\ entry[d][n] = "managed"

----------------------------------------------------------------------------
(* Steps common to both commands                                           *)

Frame == UNCHANGED <<documents, faults, changes, late>>

StartTask(c) ==
  /\ PluginIdle
  /\ task' = c
  /\ step' = "check"
  /\ before' = NoTask
  /\ result' = "none"
  /\ late' = FALSE
  /\ UNCHANGED <<documents, entry, skill, local, todo, aside, faults, changes>>

GoesOn(next) == step' = next /\ UNCHANGED <<task, before, result>>

Ends(how) ==
  /\ task' = NoTask
  /\ step' = "idle"
  /\ todo' = {}
  /\ aside' = NoAside
  /\ result' = how

Fault == faults < MaxFaults /\ faults' = faults + 1

\* apply_document_updates writes mcp.json first.
NextDocument == IF "mcp.json" \in todo THEN "mcp.json" ELSE "codex"
ApplyDocument ==
  /\ step = "documents"
  /\ todo # {}
  /\ entry' = [entry EXCEPT ![NextDocument][task.name] =
       IF task.kind = "create" THEN "managed" ELSE "none"]
  /\ todo' = todo \ {NextDocument}
  /\ GoesOn("documents")
  /\ UNCHANGED <<skill, local, aside>>
  /\ Frame

\* rollback_document_updates puts back what was read into the documents written so far.
Updates ==
  IF task.kind = "create" THEN {d \in documents : before[1][d][task.name] = "none"}
  ELSE before[3].documents
UndoDocuments ==
  /\ step = "undo-documents"
  /\ entry' = [d \in documents |-> IF d \in Updates \ todo THEN before[1][d] ELSE entry[d]]
  /\ Ends(IF result = "replaced" THEN "replaced" ELSE "failed")
  /\ UNCHANGED <<skill, local, before>>
  /\ Frame

\* A kill undoes nothing.  When it falls into the removal of the skill directory by a
\* failing create, part of the directory is left.
Killed ==
  /\ ~ PluginIdle
  /\ Fault
  /\ skill' = IF step = "undo-skill" THEN [skill EXCEPT ![task.name] = PartialSkill] ELSE skill
  /\ Ends("killed")
  /\ UNCHANGED <<documents, entry, local, before, changes, late>>

----------------------------------------------------------------------------
(* install_composed_integration                                            *)

CheckCreate ==
  /\ step = "check"
  /\ task.kind = "create"
  /\ before' = Parts
  /\ IF CreateAccepts(task)
       THEN /\ todo' = {d \in documents : entry[d][task.name] = "none"}
            /\ step' = "documents"
            /\ UNCHANGED <<task, aside, result>>
       ELSE Ends("refused")
  /\ UNCHANGED <<entry, skill, local>>
  /\ Frame

WriteSkill ==
  /\ step = "documents"
  /\ task.kind = "create"
  /\ todo = {}
  /\ skill' = [skill EXCEPT ![task.name] = IF before[2][task.name] = "none" THEN task.build ELSE @]
  /\ GoesOn("local")
  /\ UNCHANGED <<entry, local, todo, aside>>
  /\ Frame

\* Writing a document or the skill fails; the documents written so far are put back.  The
\* skill is assembled in a temporary directory, so nothing of it is left in its place.
CreateFails ==
  /\ step = "documents"
  /\ task.kind = "create"
  /\ Fault
  /\ todo # {} \/ before[2][task.name] = "none"
  /\ GoesOn("undo-documents")
  /\ UNCHANGED <<documents, entry, skill, local, todo, aside, changes, late>>

\* write_local_binding: a new directory, an identical one, or the replacement of an owned
\* one, which is first renamed out of the way.
WriteLocal ==
  /\ step = "local"
  /\ LocalAccepts(task)
  /\ IF local = NoLocal \/ local = LocalOf(task)
       THEN local' = LocalOf(task) /\ before' = before /\ Ends("done")
       ELSE /\ local' = NoLocal
            /\ aside' = [aside EXCEPT !.local = local]
            /\ todo' = todo
            /\ GoesOn("replace")
  /\ UNCHANGED <<entry, skill>>
  /\ Frame

\* Between the two renames of replace_owned_atomically there is no local directory.
ReplaceLocal ==
  /\ step = "replace"
  /\ local' = LocalOf(task)
  /\ GoesOn("discard")
  /\ UNCHANGED <<entry, skill, todo, aside>>
  /\ Frame

DiscardPrevious ==
  /\ step = "discard"
  /\ Ends("done")
  /\ UNCHANGED <<entry, skill, local, before>>
  /\ Frame

\* The local directory is refused, cannot be written, or cannot be renamed into place (the
\* previous one is renamed back): the create is undone.  When only the previous directory
\* cannot be deleted, the rest is undone too, but the new directory stays.
LocalFails ==
  /\ \/ step = "local" /\ ~ LocalAccepts(task) /\ faults' = faults
     \/ step \in {"local", "replace", "discard"} /\ Fault
  /\ local' = IF step = "replace" THEN aside.local ELSE local
  /\ result' = IF step = "discard" THEN "replaced" ELSE result
  /\ step' = IF before[2][task.name] = "none" THEN "undo-skill" ELSE "undo-documents"
  /\ UNCHANGED <<documents, entry, skill, task, todo, before, aside, changes, late>>

UndoSkill ==
  /\ step = "undo-skill"
  /\ skill' = [skill EXCEPT ![task.name] = "none"]
  /\ GoesOn("undo-documents")
  /\ UNCHANGED <<entry, local, todo, aside>>
  /\ Frame

----------------------------------------------------------------------------
(* uninstall_composed_integration                                          *)

\* uninstall_document_updates takes the documents from the receipt.
ManagedDocuments == local.documents

CheckUninstall ==
  /\ step = "check"
  /\ task.kind = "uninstall"
  /\ before' = Parts
  /\ IF UninstallAccepts(task.name)
       THEN todo' = ManagedDocuments /\ step' = "stage-skill" /\ UNCHANGED <<task, aside, result>>
       ELSE Ends("refused")
  /\ UNCHANGED <<entry, skill, local>>
  /\ Frame

\* stage_managed_removal renames both directories out of the way.
StageSkill ==
  /\ step = "stage-skill"
  /\ skill' = [skill EXCEPT ![task.name] = "none"]
  /\ aside' = [aside EXCEPT !.skill = skill[task.name]]
  /\ GoesOn("stage-local")
  /\ UNCHANGED <<entry, local, todo>>
  /\ Frame

StageLocal ==
  /\ step = "stage-local"
  /\ local' = NoLocal
  /\ aside' = [aside EXCEPT !.local = local]
  /\ GoesOn("documents")
  /\ UNCHANGED <<entry, skill, todo>>
  /\ Frame

\* commit copies both directories, deletes the staged ones and then the copies.
CommitRemoval ==
  /\ step = "documents"
  /\ task.kind = "uninstall"
  /\ todo = {}
  /\ Ends("done")
  /\ UNCHANGED <<entry, skill, local, before>>
  /\ Frame

\* Mutant: a failing uninstall renames only the skill back.
RestoreStagedMut ==
  /\ skill' = IF step = "stage-skill" THEN skill
              ELSE [skill EXCEPT ![task.name] = aside.skill]
  /\ local' = local

\* restore, and restore_after_cleanup_failure once the deletions have begun: what was
\* renamed away comes back, from the staged directories or from their copies.
RestoreStaged ==
  /\ skill' = IF step = "stage-skill" THEN skill
              ELSE [skill EXCEPT ![task.name] = aside.skill]
  /\ local' = IF step = "documents" THEN aside.local ELSE local

UninstallFails ==
  /\ step \in {"stage-skill", "stage-local", "documents"}
  /\ task.kind = "uninstall"
  /\ Fault
  /\ RestoreStaged
  /\ GoesOn("undo-documents")
  /\ UNCHANGED <<documents, entry, todo, aside, changes, late>>

----------------------------------------------------------------------------
(* The owner of the plugin                                                 *)

OwnerChange ==
  /\ changes < MaxChanges
  /\ changes' = changes + 1
  /\ late' = (~ PluginIdle /\ step # "check")
  /\ \/ \E n \in Names :
          /\ skill[n] \in Builds
          /\ skill' = [skill EXCEPT ![n] = Edited]
          /\ UNCHANGED <<entry, local>>
     \/ /\ local # NoLocal
        /\ local' = [local EXCEPT !.intact = FALSE]
        /\ UNCHANGED <<entry, skill>>
     \/ \E d \in documents, n \in Names :
          /\ entry' = [entry EXCEPT ![d][n] = "foreign"]
          /\ UNCHANGED <<skill, local>>
  /\ result' = IF PluginIdle THEN "none" ELSE result
  /\ UNCHANGED <<documents, task, step, todo, before, aside, faults>>

PluginNext ==
  \/ \E c \in Tasks : StartTask(c)
  \/ ApplyDocument
  \/ UndoDocuments
  \/ Killed
  \/ CheckCreate
  \/ WriteSkill
  \/ CreateFails
  \/ WriteLocal
  \/ ReplaceLocal
  \/ DiscardPrevious
  \/ LocalFails
  \/ UndoSkill
  \/ CheckUninstall
  \/ StageSkill
  \/ StageLocal
  \/ CommitRemoval
  \/ UninstallFails
  \/ OwnerChange

PluginSpec == PluginInit /\ [][PluginNext]_pluginVars

----------------------------------------------------------------------------
(* Properties                                                              *)

\* A command that ends with an error has put back everything it had changed, whichever of
\* its steps failed (composition.rs:148-162, 206-214, 473-483), unless the error was the
\* deletion of a replaced binding.
FailedCommandUndone ==
  (result \in {"failed", "refused"} /\ ~ late /\ PluginIdle) => Parts = before

\* A create that the same build accepts for what is under the name n.
Recreatable(n) == \E c \in Creates : c.name = n /\ CreateAccepts(c) /\ LocalAccepts(c)

\* However many commands were killed or failed at any of their steps, none leaves anything
\* that locks the owner out: there is a create that is accepted for every name, and after
\* at most one failure or kill the very create that a receipt describes is, without
\* replacing anything (composition.rs:139-162).  The exception is a kill while a failing
\* create removes the skill it had written.
RepairAccepted ==
  (PluginIdle /\ changes = 0) =>
    /\ \A n \in Names : skill[n] # PartialSkill => Recreatable(n)
    /\ local # NoLocal /\ faults <= 1 =>
         \E c \in Creates : LocalOf(c) = local /\ ~ c.replace /\ CreateAccepts(c)

\* The same without the exception: a partly removed skill is refused by create, and without
\* a receipt by uninstall, so the code fails this.
RepairAlwaysAccepted ==
  (PluginIdle /\ changes = 0) => \A n \in Names : skill[n] # "none" => Recreatable(n)

\* A skill that the owner has changed is never deleted or overwritten, unless the change
\* came after the command had verified the skill (composition.rs:624-651).
EditedSkillKept ==
  [][\A n \in Names : (skill[n] = Edited /\ ~ late) => skill'[n] = Edited]_pluginVars

(* A command that fails or is refused puts back what it touched, and none ever
   touches a skill that a person edited. *)
FailureChangesNothing ==
  /\ [](PluginTypeOK /\ FailedCommandUndone)
  /\ EditedSkillKept

\* Without a kill, what the program has put into the plugin is described by the receipt, so
\* that uninstall can take it out again.  A create under a second name with replace drops
\* the receipt of the first, so the code fails this.
EverythingOwned ==
  (PluginIdle /\ faults = 0 /\ changes = 0) =>
    \A n \in Names :
      (skill[n] # "none" \/ \E d \in documents : entry[d][n] = "managed") =>
        UninstallAccepts(n)

\* The same for a command that reports an error after the new binding is in place: the
\* code undoes documents and skill and keeps the binding.
ErrorMeansUnchanged ==
  (PluginIdle /\ ~ late /\ result \in {"failed", "refused", "replaced"}) => Parts = before
=============================================================================
