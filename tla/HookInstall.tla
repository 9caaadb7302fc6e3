----------------------------- MODULE HookInstall -----------------------------
(***************************************************************************)
(* Installation and removal of the agent hooks of one repository            *)
(* (crates/code-system-graph-hooks/src/install.rs, managed_root.rs).        *)
(*                                                                         *)
(* One command installs or removes the integration of one host.  It edits   *)
(* the host's own file, the Git pre-commit hook, a state file and           *)
(* .gitignore, one after the other: each is read, backed up and replaced by *)
(* a rename.  A command may fail or be killed between any two of these      *)
(* steps, and the owner of the repository may edit a file at any time.      *)
(*                                                                         *)
(* A file is abstracted to the number of the owner's text in it (0: none)   *)
(* and what this program owns in it: for a host file the CodeGraph policies *)
(* of its marked entries, for pre-commit the arguments of the marked block  *)
(* of each host.                                                            *)
(***************************************************************************)
EXTENDS Naturals, FiniteSets

CONSTANTS
  Hosts,       \* agent hosts (HostKind)
  JsonHosts,   \* the hosts whose file is JSON; the others take guidance text
  Gates,       \* arguments of a pre-commit block: database, workspace, repository
  MaxEdits     \* bound: texts the owner writes, over all files

VARIABLES
  git,        \* where the Git metadata of the root is
  hostFile,   \* the file of each host
  preCommit,  \* .git/hooks/pre-commit
  stateFile,  \* install-<host>.json of each host
  ignored,    \* .gitignore has the rule for the generated state
  saved,      \* owner's texts in timestamped backups
  command,    \* the command that runs, or NoCommand
  doing,      \* what it does next
  seen,       \* the file content it read
  settled,    \* the last command, when it completed; NoCommand once another starts
  edits,      \* texts the owner has written so far
  latest,     \* the owner's last text in each file
  overtaken   \* texts written between a backup and the rename that follows it

hookVars == <<git, hostFile, preCommit, stateFile, ignored, saved, command, doing, seen,
              settled, edits, latest, overtaken>>

NoCommand == [kind |-> "none"]
NoGate == "no gate"
NoState == [mode |-> "absent", policy |-> FALSE]
Installs ==
  [kind : {"install"}, host : Hosts, mode : {"advisory", "strict"}, policy : BOOLEAN,
   gate : Gates]
Commands == Installs \cup [kind : {"uninstall"}, host : Hosts]
Files == Hosts \cup {"pre-commit"}

ASSUME HookAssumption ==
  /\ JsonHosts \subseteq Hosts
  /\ MaxEdits \in Nat
  /\ "pre-commit" \notin Hosts
  /\ NoGate \notin Gates

\* Where the root's Git metadata is: in a directory of the root, in a directory of an
\* ancestor, behind a gitdir pointer that leaves the root (a linked worktree), or nowhere.
GitKinds == {"root", "ancestor", "outside", "none"}

HookTypeOK ==
  /\ git \in GitKinds
  /\ hostFile \in [Hosts -> [text : 0..MaxEdits, owned : SUBSET BOOLEAN]]
  /\ preCommit \in [text : 0..MaxEdits, blocks : [Hosts -> Gates \cup {NoGate}],
                    executable : BOOLEAN]
  /\ stateFile \in [Hosts -> [mode : {"absent", "advisory", "strict"}, policy : BOOLEAN]]
  /\ ignored \in BOOLEAN
  /\ saved \in SUBSET (Files \X (1..MaxEdits))
  /\ command \in Commands \cup {NoCommand}
  /\ settled \in Commands \cup {NoCommand}
  /\ edits \in 0..MaxEdits
  /\ latest \in [Files -> 0..MaxEdits]
  /\ overtaken \subseteq 1..MaxEdits

NoBlocks == [h \in Hosts |-> NoGate]

HookInit ==
  /\ git \in GitKinds
  /\ hostFile = [h \in Hosts |-> [text |-> 0, owned |-> {}]]
  /\ preCommit = [text |-> 0, blocks |-> NoBlocks, executable |-> FALSE]
  /\ stateFile = [h \in Hosts |-> NoState]
  /\ ignored = FALSE
  /\ saved = {}
  /\ command = NoCommand
  /\ doing = "idle"
  /\ seen = NoCommand
  /\ settled = NoCommand
  /\ edits = 0
  /\ latest = [f \in Files |-> 0]
  /\ overtaken = {}

HookIdle == command = NoCommand

----------------------------------------------------------------------------
(* The helpers of install.rs                                               *)

\* Mutant: no backup before the file is replaced.
BackupMut(file, text) == saved' = saved

\* A backup is taken of the content the file has at that moment, not of the one read.
SaveCopy(file, text) == saved' = saved \cup (IF text = 0 THEN {} ELSE {<<file, text>>})

\* Mutant: an entry with another policy is kept beside the new one.
WithEntryMut(owned, policy) == owned \cup {policy}

\* install_json_hook keeps the entries when one equals the wanted entry, and otherwise
\* drops every owned entry before it adds one.
WithHookEntry(owned, policy) == IF policy \in owned THEN owned ELSE {policy}

\* uninstall_json_hook drops every owned entry.
WithoutEntries(owned) == {}

\* remove_marked_block cuts one marked block of the host out of a guidance file.
WithoutBlock(owned) == IF owned = {} THEN {} ELSE owned \ {CHOOSE b \in owned : TRUE}

\* install_guidance keeps a file that has the wanted block, and otherwise replaces one.
WithBlock(owned, policy) ==
  IF policy \in owned THEN owned ELSE WithoutBlock(owned) \cup {policy}

\* install_strict_gate leaves a block that carries the host's marker as it is.
WithGate(blocks, c) ==
  IF blocks[c.host] # NoGate THEN blocks ELSE [blocks EXCEPT ![c.host] = c.gate]

\* remove_marked_block cuts from the host's begin marker to the host's end marker.
WithoutGate(blocks, host) == [blocks EXCEPT ![host] = NoGate]

\* The host file as the command will write it.
RoutedFile(file, c) ==
  LET json == c.host \in JsonHosts
  IN [file EXCEPT !.owned =
       IF c.kind = "install"
         THEN IF json THEN WithHookEntry(@, c.policy) ELSE WithBlock(@, c.policy)
         ELSE IF json THEN WithoutEntries(@) ELSE WithoutBlock(@)]

\* The pre-commit file as the command will write it.
WantsGate(c) == c.kind = "install" /\ c.mode = "strict"
GatedFile(file, c) ==
  [file EXCEPT !.blocks = IF WantsGate(c) THEN WithGate(@, c) ELSE WithoutGate(@, c.host)]

\* The file is there when it has a text of the owner or a part of this program.  An empty
\* JSON object, or a file with the interpreter line only, counts as not there.
Exists(file) == file.text # 0 \/ file.owned # {}
GateExists(file) == file.text # 0 \/ file.blocks # NoBlocks

----------------------------------------------------------------------------
(* One command                                                             *)

Start(c) ==
  /\ HookIdle
  /\ command' = c
  /\ doing' = "routing"
  /\ settled' = NoCommand
  /\ UNCHANGED <<git, hostFile, preCommit, stateFile, ignored, saved, seen, edits, latest, overtaken>>

FilesKept == UNCHANGED <<git, hostFile, preCommit, stateFile, ignored, edits, latest, overtaken,
                         command, settled>>

\* Reading the host file: nothing to do goes on to the pre-commit hook.  A JSON file that
\* was not there when it was read is written without a backup.
ReadRouting ==
  LET file == hostFile[command.host]
      updated == RoutedFile(file, command)
  IN /\ doing = "routing"
     /\ IF updated = file THEN doing' = "gate" /\ seen' = seen
        ELSE /\ seen' = file
             /\ doing' = IF command.host \in JsonHosts /\ ~ Exists(file)
                           THEN "routing-write" ELSE "routing-backup"
     /\ saved' = saved
     /\ FilesKept

BackupRouting ==
  /\ doing = "routing-backup"
  /\ SaveCopy(command.host, hostFile[command.host].text)
  /\ doing' = "routing-write"
  /\ seen' = seen
  /\ FilesKept

\* The rename puts the content computed from what was read in place of whatever is there.
WriteRouting ==
  /\ doing = "routing-write"
  /\ hostFile' = [hostFile EXCEPT ![command.host] = RoutedFile(seen, command)]
  /\ doing' = "gate"
  /\ seen' = NoCommand
  /\ UNCHANGED <<git, preCommit, stateFile, ignored, saved, command, settled, edits, latest, overtaken>>

\* optional_git_pre_commit is an error when the pointer leaves the root, and git_pre_commit
\* when strict mode finds no repository at the root itself.
GateRefused(c) == git = "outside" \/ (WantsGate(c) /\ git # "root")

ReadGate ==
  LET updated == GatedFile(preCommit, command)
  IN /\ doing = "gate"
     /\ ~ GateRefused(command)
     /\ IF git # "root" \/ updated = preCommit THEN doing' = "state" /\ seen' = seen
        ELSE seen' = preCommit /\ doing' = "gate-backup"
     /\ saved' = saved
     /\ FilesKept

BackupGate ==
  /\ doing = "gate-backup"
  /\ SaveCopy("pre-commit", preCommit.text)
  /\ doing' = "gate-write"
  /\ seen' = seen
  /\ FilesKept

\* The new file is created with mode 0600; it is made executable by the next step.  A file
\* left with nothing but the interpreter line is removed.
WriteGate ==
  LET updated == GatedFile(seen, command)
  IN /\ doing = "gate-write"
     /\ preCommit' = [updated EXCEPT !.executable = FALSE]
     /\ doing' = IF GateExists(updated) THEN "gate-mode" ELSE "state"
     /\ seen' = NoCommand
     /\ UNCHANGED <<git, hostFile, stateFile, ignored, saved, command, settled, edits, latest, overtaken>>

MakeExecutable ==
  /\ doing = "gate-mode"
  /\ preCommit' = [preCommit EXCEPT !.executable = TRUE]
  /\ doing' = "state"
  /\ UNCHANGED <<git, hostFile, stateFile, ignored, saved, command, seen, settled, edits, latest, overtaken>>

\* The state file is written after both, or removed.  An uninstall ends here.
WriteState ==
  /\ doing = "state"
  /\ stateFile' = [stateFile EXCEPT ![command.host] =
       IF command.kind = "uninstall" THEN NoState
       ELSE [mode |-> command.mode, policy |-> command.policy]]
  /\ IF command.kind = "uninstall"
       THEN doing' = "idle" /\ command' = NoCommand /\ settled' = command
       ELSE doing' = "ignore" /\ UNCHANGED <<command, settled>>
  /\ UNCHANGED <<git, hostFile, preCommit, ignored, saved, seen, edits, latest, overtaken>>

WriteIgnore ==
  /\ doing = "ignore"
  /\ ignored' = (ignored \/ git # "none")
  /\ doing' = "idle"
  /\ command' = NoCommand
  /\ settled' = command
  /\ UNCHANGED <<git, hostFile, preCommit, stateFile, saved, seen, edits, latest, overtaken>>

\* An error ends the command where it is, and so does a kill; nothing is undone.
Stops ==
  /\ ~ HookIdle
  /\ command' = NoCommand
  /\ doing' = "idle"
  /\ seen' = NoCommand
  /\ UNCHANGED <<git, hostFile, preCommit, stateFile, ignored, saved, settled, edits, latest, overtaken>>

\* The owner replaces their text in a file and leaves the marked parts alone.
NextToWrite ==
  CASE doing = "routing-write" -> command.host
    [] doing = "gate-write" -> "pre-commit"
    [] OTHER -> "no file"
OwnerEdits(f) ==
  LET n == edits + 1
  IN /\ edits < MaxEdits
     /\ edits' = n
     /\ latest' = [latest EXCEPT ![f] = n]
     /\ overtaken' = IF f = NextToWrite THEN overtaken \cup {n} ELSE overtaken
     /\ IF f = "pre-commit"
          THEN /\ git = "root"
               /\ preCommit' = [preCommit EXCEPT !.text = n, !.executable = TRUE]
               /\ hostFile' = hostFile
          ELSE /\ hostFile' = [hostFile EXCEPT ![f].text = n]
               /\ preCommit' = preCommit
     /\ UNCHANGED <<git, stateFile, ignored, saved, command, doing, seen, settled>>

HookNext ==
  \/ \E c \in Commands : Start(c)
  \/ ReadRouting
  \/ BackupRouting
  \/ WriteRouting
  \/ ReadGate
  \/ BackupGate
  \/ WriteGate
  \/ MakeExecutable
  \/ WriteState
  \/ WriteIgnore
  \/ Stops
  \/ \E f \in Files : OwnerEdits(f)

HookSpec == HookInit /\ [][HookNext]_hookVars

----------------------------------------------------------------------------
(* status and the properties                                               *)

\* What status answers for a request, when it answers.
StatusInstalled(c) ==
  LET state == stateFile[c.host]
      policy == IF state = NoState THEN c.policy ELSE state.policy
  IN /\ policy \in hostFile[c.host].owned
     /\ c.mode = "strict" => preCommit.blocks[c.host] # NoGate
     /\ state # NoState
     /\ state.policy = c.policy

\* Whatever earlier commands left behind when they failed or were killed, a command that
\* completes has done all of its work: after an install the host file has exactly one entry
\* of the host, with the requested policy, the gate is there just when it was asked for and
\* status answers yes; after an uninstall nothing of the host is left (install.rs:52-201).
CompletedCommandHolds ==
  settled # NoCommand =>
    LET h == settled.host
    IN IF settled.kind = "install"
         THEN /\ hostFile[h].owned = {settled.policy}
              /\ preCommit.blocks[h] # NoGate <=> WantsGate(settled)
              /\ ignored <=> git # "none"
              /\ StatusInstalled(settled)
         ELSE /\ hostFile[h].owned = {}
              /\ preCommit.blocks[h] = NoGate
              /\ stateFile[h] = NoState
              /\ \A c \in Installs : c.host = h => ~ StatusInstalled(c)

\* "Existing unrelated configuration is preserved and changed existing files receive
\* timestamped backups": the owner's last text of every file is in the file or in a backup,
\* unless it was written between the backup and the rename (install.rs:908-952).
EditsSurvive ==
  \A f \in Files :
    \/ latest[f] = 0
    \/ latest[f] = IF f = "pre-commit" THEN preCommit.text ELSE hostFile[f].text
    \/ <<f, latest[f]>> \in saved
    \/ latest[f] \in overtaken

\* A command touches only what carries the markers of its own host, also in the pre-commit
\* file that all hosts share (install.rs:847-860).
OtherHostsKept ==
  [][\A h \in Hosts :
       (~ HookIdle /\ command.host # h) =>
         /\ hostFile'[h].owned = hostFile[h].owned
         /\ preCommit'.blocks[h] = preCommit.blocks[h]
         /\ stateFile'[h] = stateFile[h]]_hookVars

(* Installing or removing the hooks of one host keeps what a person wrote and
   what belongs to the other hosts. *)
OthersKept ==
  /\ [](HookTypeOK /\ EditsSurvive)
  /\ OtherHostsKept

\* A completed strict install leaves a gate that checks the workspace and the repository it
\* was given ("for the explicitly supplied workspace and registered repository alias").
\* The code leaves an existing block of the host alone, so this fails.
GateMatchesInstall ==
  (settled # NoCommand /\ WantsGate(settled)) =>
    preCommit.blocks[settled.host] = settled.gate

\* When no command runs, a gate that status reports as installed is run by Git.  The code
\* fails this when a command stops between the rename and the change of mode.
ReportedGateRuns ==
  (HookIdle /\ \E c \in Installs : c.mode = "strict" /\ StatusInstalled(c)) =>
    preCommit.executable
=============================================================================
