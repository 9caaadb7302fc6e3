-------------------------- MODULE AgentFilesProofs --------------------------
(***************************************************************************)
(* The commands that put files of this program beside files of others, for *)
(* any hosts, plugins, builds and databases: what the installers of hooks  *)
(* and of the composed plugin leave of what is not theirs, what a          *)
(* completed command has reached, and what is left after failures and      *)
(* kills.                                                                  *)
(***************************************************************************)
EXTENDS HookInstall, PluginCompose, TLAPS

\* Zenon finds the steps that name no other prover.
USE Zenon

-----------------------------------------------------------------------------
(***************************************************************************)
(* The agent hooks                                                         *)
(***************************************************************************)
HostFiles == [text : 0..MaxEdits, owned : SUBSET BOOLEAN]
GateFiles ==
  [text : 0..MaxEdits, blocks : [Hosts -> Gates \cup {NoGate}], executable : BOOLEAN]

AfterGate == {"gate-mode", "state", "ignore"}
AfterRouting == {"gate", "gate-backup", "gate-write"} \cup AfterGate
Doings == {"idle", "routing", "routing-backup", "routing-write"} \cup AfterRouting

\* The policies of the host's own entries after the command.
Wanted(c) == IF c.kind = "install" THEN {c.policy} ELSE {}

AtMostOne(owned) == owned = {} \/ \E p \in BOOLEAN : owned = {p}

\* A command runs from the first read to its end; what it read is still what
\* this program owns in the file.
CommandInv ==
  /\ doing \in Doings
  /\ doing = "idle" <=> command = NoCommand
  /\ settled # NoCommand => doing = "idle"
  /\ doing \in {"routing-backup", "routing-write"} =>
       seen \in HostFiles /\ seen.owned = hostFile[command.host].owned
  /\ doing \in {"gate-backup", "gate-write"} =>
       seen \in GateFiles /\ seen.blocks = preCommit.blocks
  /\ doing \in {"gate-backup", "gate-write", "gate-mode"} => git = "root"

\* What is done of a command at each of its steps, whatever was there before.
DoneInv ==
  /\ \A h \in Hosts : AtMostOne(hostFile[h].owned)
  /\ git # "root" => preCommit.blocks = NoBlocks
  /\ ignored => git # "none"
  /\ doing \in AfterRouting => hostFile[command.host].owned = Wanted(command)
  /\ doing \in AfterGate => (preCommit.blocks[command.host] # NoGate <=> WantsGate(command))
  /\ doing = "ignore" =>
       /\ command.kind = "install"
       /\ stateFile[command.host] = [mode |-> command.mode, policy |-> command.policy]
  /\ CompletedCommandHolds

\* The owner's last text of a file that is about to be replaced is safe
\* without the file.
TextSafe(f) ==
  latest[f] = 0 \/ <<f, latest[f]>> \in saved \/ latest[f] \in overtaken
TextInv ==
  /\ EditsSurvive
  /\ doing = "routing-write" => TextSafe(command.host)
  /\ doing = "gate-write" => TextSafe("pre-commit")

\* The inductive invariant of the hooks.
HookInv == HookTypeOK /\ CommandInv /\ DoneInv /\ TextInv

\* A running command names a host.
LEMMA CommandTyped ==
  ASSUME HookTypeOK, command # NoCommand
  PROVE  /\ command \in Commands /\ command.host \in Hosts /\ command.host \in Files
         /\ command.kind \in {"install", "uninstall"}
         /\ command.kind = "install" =>
              /\ command.policy \in BOOLEAN /\ command.mode \in {"advisory", "strict"}
              /\ command.gate \in Gates
BY DEF HookTypeOK, Commands, Installs, Files

\* What the command will write into the host file: its own entry and no other,
\* or none; a file that already has it is the same.
LEMMA Routed ==
  ASSUME NEW file \in HostFiles, AtMostOne(file.owned), NEW c \in Commands
  PROVE  /\ RoutedFile(file, c) \in HostFiles
         /\ RoutedFile(file, c).text = file.text
         /\ RoutedFile(file, c).owned = Wanted(c)
         /\ AtMostOne(Wanted(c))
<1> DEFINE owned == file.owned
<1>1. owned \in SUBSET BOOLEAN /\ file.text \in 0..MaxEdits
  BY DEF HostFiles
<1>2. c.kind = "install" => c.policy \in BOOLEAN
  BY DEF Commands, Installs
<1>3. WithoutBlock(owned) = {}
  <2>1. CASE owned = {}
    BY <2>1 DEF WithoutBlock
  <2>2. CASE owned # {}
    <3>1. PICK p \in BOOLEAN : owned = {p}
      BY <2>2 DEF AtMostOne
    <3>2. (CHOOSE b \in owned : TRUE) = p
      BY <3>1
    <3> QED
      BY <3>1, <3>2 DEF WithoutBlock
  <2> QED
    BY <2>1, <2>2
<1>4. c.kind = "install" => WithHookEntry(owned, c.policy) = {c.policy}
                            /\ WithBlock(owned, c.policy) = {c.policy}
  BY <1>3 DEF WithHookEntry, WithBlock, AtMostOne
<1>5. /\ RoutedFile(file, c) = [file EXCEPT !.owned = Wanted(c)]
  BY <1>3, <1>4 DEF RoutedFile, WithoutEntries, Wanted
<1>6. Wanted(c) \in SUBSET BOOLEAN /\ AtMostOne(Wanted(c))
  BY <1>2 DEF Wanted, AtMostOne
<1> QED
  BY <1>1, <1>5, <1>6 DEF HostFiles

\* What the command will write into the pre-commit file.
LEMMA Gated ==
  ASSUME NEW file \in GateFiles, NEW c \in Commands
  PROVE  /\ GatedFile(file, c) \in GateFiles
         /\ GatedFile(file, c).text = file.text
         /\ GatedFile(file, c).blocks[c.host] # NoGate <=> WantsGate(c)
         /\ \A h \in Hosts : h # c.host => GatedFile(file, c).blocks[h] = file.blocks[h]
<1>1. file.blocks \in [Hosts -> Gates \cup {NoGate}] /\ c.host \in Hosts
  BY DEF GateFiles, Commands, Installs
<1>2. WantsGate(c) => c.gate \in Gates /\ c.gate # NoGate
  BY HookAssumption DEF WantsGate, Commands, Installs
<1> DEFINE b == IF WantsGate(c) THEN WithGate(file.blocks, c) ELSE WithoutGate(file.blocks, c.host)
<1>3. /\ b \in [Hosts -> Gates \cup {NoGate}]
      /\ b[c.host] # NoGate <=> WantsGate(c)
      /\ \A h \in Hosts : h # c.host => b[h] = file.blocks[h]
  BY <1>1, <1>2 DEF WithGate, WithoutGate
<1>4. GatedFile(file, c) = [file EXCEPT !.blocks = b]
  BY DEF GatedFile
<1> HIDE DEF b
<1> QED
  BY <1>3, <1>4 DEF GateFiles

LEMMA HookStarts == HookInit => HookInv
<1> SUFFICES ASSUME HookInit PROVE HookInv
  OBVIOUS
<1>1. MaxEdits \in Nat
  BY HookAssumption
<1>2. HookTypeOK
  <2>1. /\ hostFile \in [Hosts -> [text : 0..MaxEdits, owned : SUBSET BOOLEAN]]
        /\ latest \in [Files -> 0..MaxEdits]
    BY SMTT(30), <1>1 DEF HookInit
  <2>2. preCommit \in [text : 0..MaxEdits, blocks : [Hosts -> Gates \cup {NoGate}],
                       executable : BOOLEAN]
    BY SMTT(30), <1>1 DEF HookInit, NoBlocks
  <2> QED
    BY <1>1, <2>1, <2>2 DEF HookInit, HookTypeOK, NoState
<1>3. CommandInv
  BY DEF HookInit, CommandInv, Doings
<1>4. DoneInv
  BY DEF HookInit, DoneInv, AtMostOne, AfterRouting, AfterGate, CompletedCommandHolds
<1>5. TextInv
  BY DEF HookInit, TextInv, EditsSurvive, Files
<1> QED
  BY <1>2, <1>3, <1>4, <1>5 DEF HookInv

LEMMA StartKeeps ==
  ASSUME HookInv, NEW c \in Commands, Start(c)
  PROVE  HookInv'
<1>1. c # NoCommand
  BY SMTT(30) DEF Commands, Installs, NoCommand
<1>2. HookTypeOK'
  BY DEF Start, HookInv, HookTypeOK
<1>3. CommandInv'
  BY <1>1 DEF Start, HookInv, CommandInv, Doings
<1>4. DoneInv'
  BY DEF Start, HookInv, DoneInv, AfterRouting, AfterGate, CompletedCommandHolds
<1>5. TextInv'
  BY DEF Start, HookInv, TextInv, EditsSurvive
<1> QED
  BY <1>2, <1>3, <1>4, <1>5 DEF HookInv

\* A step that reads or backs up leaves the files as they are.
LEMMA FilesKeptKeeps ==
  ASSUME HookInv, FilesKept, command # NoCommand,
         saved \subseteq saved', saved' \in SUBSET (Files \X (1..MaxEdits)),
         CommandInv',
         doing' \in AfterRouting /\ doing \notin AfterRouting =>
           hostFile[command.host].owned = Wanted(command),
         doing' \in AfterGate /\ doing \notin AfterGate =>
           (preCommit.blocks[command.host] # NoGate <=> WantsGate(command)),
         doing' # "ignore",
         doing' = "routing-write" => TextSafe(command.host)',
         doing' = "gate-write" => TextSafe("pre-commit")'
  PROVE  HookInv'
<1>1. HookTypeOK'
  BY DEF FilesKept, HookInv, HookTypeOK
<1>2. DoneInv'
  <2>1. settled = NoCommand /\ settled' = NoCommand
    BY DEF HookInv, CommandInv, FilesKept
  <2> QED
    BY <2>1 DEF FilesKept, HookInv, DoneInv, CompletedCommandHolds
<1>3. TextInv'
  BY DEF FilesKept, HookInv, TextInv, EditsSurvive
<1> QED
  BY <1>1, <1>2, <1>3 DEF HookInv

LEMMA ReadRoutingKeeps ==
  ASSUME HookInv, ReadRouting
  PROVE  HookInv'
<1> DEFINE file == hostFile[command.host]
<1>1. command # NoCommand /\ doing = "routing"
  BY DEF HookInv, CommandInv, ReadRouting
<1>2. file \in HostFiles /\ AtMostOne(file.owned) /\ command \in Commands
      /\ command.host \in Hosts /\ command.host \in Files
  BY <1>1, CommandTyped DEF HookInv, HookTypeOK, DoneInv, HostFiles
<1>3. RoutedFile(file, command) = file => file.owned = Wanted(command)
  BY <1>2, Routed
<1>4. FilesKept /\ saved' = saved /\ command' = command /\ hostFile' = hostFile
      /\ settled' = settled
  BY DEF ReadRouting, FilesKept
<1>5. CASE RoutedFile(file, command) = file
  <2>1. doing' = "gate" /\ seen' = seen
    BY <1>5 DEF ReadRouting
  <2>2. CommandInv'
    BY <1>1, <1>4, <2>1 DEF HookInv, CommandInv, Doings, AfterRouting
  <2> QED
    BY <1>1, <1>3, <1>4, <1>5, <2>1, <2>2, FilesKeptKeeps
       DEF HookInv, HookTypeOK, AfterRouting, AfterGate
<1>6. CASE RoutedFile(file, command) # file
  <2>1. /\ seen' = file
        /\ doing' = IF command.host \in JsonHosts /\ ~ Exists(file)
                    THEN "routing-write" ELSE "routing-backup"
    BY <1>6 DEF ReadRouting
  <2>2. CommandInv'
    BY <1>1, <1>2, <1>4, <2>1 DEF HookInv, CommandInv, Doings
  <2>3. doing' = "routing-write" => TextSafe(command.host)'
    <3> SUFFICES ASSUME doing' = "routing-write" PROVE TextSafe(command.host)'
      OBVIOUS
    <3>1. file.text = 0
      BY <2>1 DEF Exists
    <3>2. command.host # "pre-commit"
      BY <1>2, HookAssumption
    <3>3. TextSafe(command.host)
      BY <1>2, <3>1, <3>2 DEF HookInv, TextInv, EditsSurvive, TextSafe
    <3> QED
      BY <1>4, <3>3 DEF TextSafe, FilesKept
  <2> QED
    BY <1>1, <1>4, <2>1, <2>2, <2>3, FilesKeptKeeps
       DEF HookInv, HookTypeOK, AfterRouting, AfterGate
<1> QED
  BY <1>5, <1>6

\* A backup holds the text that the file has.
LEMMA Saved ==
  ASSUME HookTypeOK, EditsSurvive, NEW f \in Files, NEW text \in 0..MaxEdits,
         SaveCopy(f, text), latest' = latest, overtaken' = overtaken,
         text = IF f = "pre-commit" THEN preCommit.text ELSE hostFile[f].text
  PROVE  /\ saved \subseteq saved' /\ saved' \in SUBSET (Files \X (1..MaxEdits))
         /\ TextSafe(f)'
<1>1. text # 0 => <<f, text>> \in Files \X (1..MaxEdits)
  BY SMTT(30), HookAssumption
<1>2. saved \in SUBSET (Files \X (1..MaxEdits))
  BY DEF HookTypeOK
<1>3. /\ saved' = saved \cup (IF text = 0 THEN {} ELSE {<<f, text>>})
  BY DEF SaveCopy
<1>4. \/ latest[f] = 0 \/ latest[f] = text
      \/ <<f, latest[f]>> \in saved \/ latest[f] \in overtaken
  BY DEF EditsSurvive
<1> QED
  BY <1>1, <1>2, <1>3, <1>4 DEF TextSafe

LEMMA BackupsKeep ==
  ASSUME HookInv, BackupRouting \/ BackupGate
  PROVE  HookInv'
<1>1. command # NoCommand /\ FilesKept /\ seen' = seen
  BY DEF HookInv, CommandInv, BackupRouting, BackupGate
<1>2. /\ command' = command /\ hostFile' = hostFile /\ preCommit' = preCommit /\ git' = git
      /\ settled' = settled /\ latest' = latest /\ overtaken' = overtaken
  BY <1>1 DEF FilesKept
<1>3. CASE BackupRouting
  <2>1. doing = "routing-backup" /\ doing' = "routing-write"
    BY <1>3 DEF BackupRouting
  <2>2. /\ command.host \in Files /\ command.host # "pre-commit"
        /\ hostFile[command.host].text \in 0..MaxEdits
    BY <1>1, CommandTyped, HookAssumption DEF HookInv, HookTypeOK
  <2>3. /\ saved \subseteq saved' /\ saved' \in SUBSET (Files \X (1..MaxEdits))
        /\ TextSafe(command.host)'
    <3>1. PICK f : f = command.host
      OBVIOUS
    <3>2. SaveCopy(f, hostFile[f].text)
      BY <1>3, <3>1 DEF BackupRouting
    <3>3. /\ saved \subseteq saved' /\ saved' \in SUBSET (Files \X (1..MaxEdits))
          /\ TextSafe(f)'
      BY <1>2, <2>2, <3>1, <3>2, Saved DEF HookInv, TextInv
    <3> QED
      BY <1>2, <3>1, <3>3 DEF TextSafe
  <2>4. CommandInv'
    BY <1>1, <1>2, <2>1 DEF HookInv, CommandInv, Doings
  <2> QED
    BY <1>1, <2>1, <2>3, <2>4, FilesKeptKeeps DEF AfterRouting, AfterGate
<1>4. CASE BackupGate
  <2>1. doing = "gate-backup" /\ doing' = "gate-write"
    BY <1>4 DEF BackupGate
  <2>2. "pre-commit" \in Files /\ preCommit.text \in 0..MaxEdits
    BY DEF HookInv, HookTypeOK, Files
  <2>3. /\ saved \subseteq saved' /\ saved' \in SUBSET (Files \X (1..MaxEdits))
        /\ TextSafe("pre-commit")'
    BY <1>2, <1>4, <2>2, Saved DEF BackupGate, HookInv, TextInv
  <2>4. CommandInv'
    BY <1>1, <1>2, <2>1 DEF HookInv, CommandInv, Doings, AfterRouting
  <2> QED
    BY <1>1, <2>1, <2>3, <2>4, FilesKeptKeeps DEF AfterRouting, AfterGate
<1> QED
  BY <1>3, <1>4

LEMMA WriteRoutingKeeps ==
  ASSUME HookInv, WriteRouting
  PROVE  HookInv'
<1>1. doing = "routing-write" /\ doing' = "gate" /\ command # NoCommand
  BY DEF HookInv, CommandInv, WriteRouting
<1>2. PICK h : h = command.host
  OBVIOUS
<1>3. PICK new : new = RoutedFile(seen, command)
  OBVIOUS
<1>4. h \in Hosts /\ h \in Files /\ h # "pre-commit" /\ command \in Commands
  BY <1>1, <1>2, CommandTyped, HookAssumption DEF HookInv
<1>5. seen \in HostFiles /\ AtMostOne(seen.owned)
  BY <1>1, <1>2, <1>4 DEF HookInv, CommandInv, DoneInv
<1>6. new \in HostFiles /\ new.owned = Wanted(command) /\ AtMostOne(new.owned)
  BY <1>3, <1>4, <1>5, Routed
<1>7. /\ hostFile' = [hostFile EXCEPT ![h] = new]
      /\ UNCHANGED <<git, preCommit, stateFile, ignored, saved, command, settled, edits,
                     latest, overtaken>>
  BY <1>2, <1>3 DEF WriteRouting
<1>8. hostFile \in [Hosts -> HostFiles]
  BY DEF HookInv, HookTypeOK, HostFiles
<1>9. /\ hostFile' \in [Hosts -> HostFiles] /\ hostFile'[h] = new
      /\ \A g \in Hosts : g # h => hostFile'[g] = hostFile[g]
  BY <1>4, <1>6, <1>7, <1>8
<1>10. HookTypeOK'
  BY <1>7, <1>9 DEF HookInv, HookTypeOK, HostFiles
<1>11. CommandInv'
  BY <1>1, <1>7 DEF HookInv, CommandInv, Doings, AfterRouting
<1>12. DoneInv'
  <2>1. settled' = NoCommand
    BY <1>1, <1>7 DEF HookInv, CommandInv
  <2> QED
    BY <1>1, <1>2, <1>4, <1>6, <1>7, <1>9, <2>1
       DEF HookInv, DoneInv, AfterGate, CompletedCommandHolds, Wanted
<1>13. TextInv'
  <2>1. TextSafe(h)
    BY <1>1, <1>2 DEF HookInv, TextInv
  <2>2. \A f \in Files : f # h /\ f # "pre-commit" => hostFile'[f] = hostFile[f]
    BY <1>9 DEF Files
  <2> QED
    BY <1>1, <1>7, <2>1, <2>2 DEF HookInv, TextInv, TextSafe, EditsSurvive
<1> QED
  BY <1>10, <1>11, <1>12, <1>13 DEF HookInv

LEMMA ReadGateKeeps ==
  ASSUME HookInv, ReadGate
  PROVE  HookInv'
<1>1. command # NoCommand /\ doing = "gate"
  BY DEF HookInv, CommandInv, ReadGate
<1>2. /\ preCommit \in GateFiles /\ command \in Commands
      /\ command.host \in Hosts /\ command.host \in Files
  BY <1>1, CommandTyped DEF HookInv, HookTypeOK, GateFiles
<1>3. /\ FilesKept /\ saved' = saved /\ command' = command /\ hostFile' = hostFile
      /\ preCommit' = preCommit /\ settled' = settled /\ git' = git
  BY DEF ReadGate, FilesKept
<1>4. CASE git # "root" \/ GatedFile(preCommit, command) = preCommit
  <2>1. doing' = "state" /\ seen' = seen
    BY <1>4 DEF ReadGate
  <2>2. preCommit.blocks[command.host] # NoGate <=> WantsGate(command)
    <3>1. CASE GatedFile(preCommit, command) = preCommit
      BY SMTT(30), <1>2, <3>1, Gated
    <3>2. CASE git # "root"
      BY <1>2, <3>2 DEF ReadGate, GateRefused, HookInv, DoneInv, NoBlocks
    <3> QED
      BY <1>4, <3>1, <3>2
  <2>3. CommandInv'
    BY <1>1, <1>3, <2>1 DEF HookInv, CommandInv, Doings, AfterRouting, AfterGate
  <2> QED
    BY <1>1, <1>3, <2>1, <2>2, <2>3, FilesKeptKeeps
       DEF HookInv, HookTypeOK, AfterRouting, AfterGate
<1>5. CASE ~(git # "root" \/ GatedFile(preCommit, command) = preCommit)
  <2>1. seen' = preCommit /\ doing' = "gate-backup"
    BY <1>5 DEF ReadGate
  <2>2. CommandInv'
    BY <1>1, <1>2, <1>3, <1>5, <2>1 DEF HookInv, CommandInv, Doings, AfterRouting
  <2> QED
    BY <1>1, <1>3, <2>1, <2>2, FilesKeptKeeps
       DEF HookInv, HookTypeOK, AfterRouting, AfterGate
<1> QED
  BY <1>4, <1>5

\* A new pre-commit file, where the old text is safe or stays.
LEMMA GateWritten ==
  ASSUME HookInv, command # NoCommand, doing \in AfterRouting, preCommit' \in GateFiles,
         git = "root",
         doing' \in {"gate-mode", "state"},
         preCommit'.blocks[command.host] # NoGate <=> WantsGate(command),
         TextSafe("pre-commit") \/ preCommit'.text = preCommit.text,
         UNCHANGED <<git, hostFile, stateFile, ignored, saved, command, settled, edits,
                     latest, overtaken>>
  PROVE  HookInv'
<1>1. HookTypeOK'
  BY DEF HookInv, HookTypeOK, GateFiles
<1>2. CommandInv'
  BY DEF HookInv, CommandInv, Doings, AfterRouting, AfterGate
<1>3. DoneInv'
  <2>1. settled' = NoCommand
    BY DEF HookInv, CommandInv
  <2> QED
    BY <2>1 DEF HookInv, DoneInv, CompletedCommandHolds, Wanted, WantsGate
<1>4. TextInv'
  BY DEF HookInv, TextInv, TextSafe, EditsSurvive
<1> QED
  BY <1>1, <1>2, <1>3, <1>4 DEF HookInv

LEMMA WriteGateKeeps ==
  ASSUME HookInv, WriteGate \/ MakeExecutable
  PROVE  HookInv'
<1>1. command # NoCommand /\ doing \in AfterRouting
  BY DEF HookInv, CommandInv, WriteGate, MakeExecutable, AfterRouting, AfterGate
<1>2. command \in Commands /\ command.host \in Hosts
  BY <1>1, CommandTyped DEF HookInv
<1>3. CASE WriteGate
  <2>1. PICK new : new = GatedFile(seen, command)
    OBVIOUS
  <2>2. seen \in GateFiles /\ git = "root" /\ TextSafe("pre-commit")
    BY <1>3 DEF WriteGate, HookInv, CommandInv, TextInv
  <2>3. new \in GateFiles /\ (new.blocks[command.host] # NoGate <=> WantsGate(command))
    BY <1>2, <2>1, <2>2, Gated
  <2>4. preCommit' = [new EXCEPT !.executable = FALSE]
    BY <1>3, <2>1 DEF WriteGate
  <2>5. preCommit' \in GateFiles /\ preCommit'.blocks = new.blocks
    BY <2>3, <2>4 DEF GateFiles
  <2>6. doing' \in {"gate-mode", "state"}
    BY <1>3 DEF WriteGate
  <2> QED
    BY <1>1, <1>3, <2>2, <2>3, <2>5, <2>6, GateWritten DEF WriteGate
<1>4. CASE MakeExecutable
  <2>1. /\ preCommit' \in GateFiles /\ preCommit'.blocks = preCommit.blocks
        /\ preCommit'.text = preCommit.text
    BY <1>4 DEF MakeExecutable, HookInv, HookTypeOK, GateFiles
  <2>2. (preCommit.blocks[command.host] # NoGate <=> WantsGate(command)) /\ doing' = "state"
    BY <1>4 DEF MakeExecutable, HookInv, DoneInv, AfterGate
  <2>3. git = "root"
    BY <1>4 DEF MakeExecutable, HookInv, CommandInv
  <2> QED
    BY <1>1, <1>4, <2>1, <2>2, <2>3, GateWritten DEF MakeExecutable
<1> QED
  BY <1>3, <1>4

\* A command that has written its state is complete.
LEMMA EndsHold ==
  ASSUME HookInv, WriteState \/ WriteIgnore
  PROVE  /\ CompletedCommandHolds'
         /\ doing' = "ignore" =>
              /\ command.kind = "install"
              /\ stateFile'[command.host] = [mode |-> command.mode, policy |-> command.policy]
<1>1. command # NoCommand /\ doing \in {"state", "ignore"}
  BY DEF HookInv, CommandInv, WriteState, WriteIgnore
<1>2. PICK c : c = command
  OBVIOUS
<1>3. PICK h : h = c.host
  OBVIOUS
<1>4. /\ c \in Commands /\ h \in Hosts /\ c.kind \in {"install", "uninstall"}
      /\ c.kind = "install" => c.policy \in BOOLEAN /\ c.mode \in {"advisory", "strict"}
  BY <1>1, <1>2, <1>3, CommandTyped DEF HookInv
<1>5. /\ hostFile' = hostFile /\ preCommit' = preCommit /\ git' = git
      /\ hostFile[h].owned = Wanted(c)
      /\ preCommit.blocks[h] # NoGate <=> WantsGate(c)
      /\ settled = NoCommand
  BY <1>1, <1>2, <1>3
     DEF HookInv, CommandInv, DoneInv, AfterRouting, AfterGate, WriteState, WriteIgnore
<1>6. stateFile \in [Hosts -> [mode : {"absent", "advisory", "strict"}, policy : BOOLEAN]]
  BY DEF HookInv, HookTypeOK
<1>7. CASE WriteState /\ c.kind = "uninstall"
  <2>1. settled' = c /\ stateFile' = [stateFile EXCEPT ![h] = NoState] /\ doing' = "idle"
    BY <1>2, <1>3, <1>7 DEF WriteState
  <2>2. stateFile'[h] = NoState
    BY <1>4, <1>6, <2>1
  <2>3. \A d \in Installs : d.host = h => ~ StatusInstalled(d)'
    BY <2>2 DEF StatusInstalled
  <2>4. hostFile'[h].owned = {} /\ preCommit'.blocks[h] = NoGate
    BY <1>5, <1>7 DEF Wanted, WantsGate
  <2> QED
    BY <1>3, <1>7, <2>1, <2>2, <2>3, <2>4 DEF CompletedCommandHolds
<1>8. CASE WriteState /\ c.kind # "uninstall"
  <2>1. PICK s : s = [mode |-> c.mode, policy |-> c.policy]
    OBVIOUS
  <2>2. /\ settled' = NoCommand /\ doing' = "ignore" /\ c.kind = "install"
        /\ stateFile' = [stateFile EXCEPT ![h] = s]
    <3>1. command.kind # "uninstall" /\ c.kind = "install"
      BY <1>2, <1>4, <1>8
    <3>2. stateFile' = [stateFile EXCEPT ![command.host] =
                          [mode |-> command.mode, policy |-> command.policy]]
      BY <1>8, <3>1 DEF WriteState
    <3> QED
      BY <1>2, <1>3, <1>5, <1>8, <2>1, <3>1, <3>2 DEF WriteState
  <2>3. stateFile'[h] = s
    BY <1>4, <1>6, <2>2
  <2> QED
    BY <1>2, <1>3, <2>1, <2>2, <2>3 DEF CompletedCommandHolds
<1>9. CASE WriteIgnore
  <2>1. /\ settled' = c /\ stateFile' = stateFile /\ ignored' = (ignored \/ git # "none")
        /\ doing' = "idle"
    BY <1>2, <1>9 DEF WriteIgnore
  <2>2. /\ c.kind = "install"
        /\ stateFile[h] = [mode |-> c.mode, policy |-> c.policy]
    BY <1>2, <1>3, <1>9 DEF WriteIgnore, HookInv, DoneInv
  <2>3. stateFile[h] # NoState /\ stateFile[h].policy = c.policy
    BY SMTT(30), <1>4, <2>2 DEF NoState
  <2>4. hostFile'[h].owned = {c.policy} /\ (preCommit'.blocks[h] # NoGate <=> WantsGate(c))
    BY <1>5, <2>2 DEF Wanted
  <2>5. StatusInstalled(c)'
    BY <1>3, <2>1, <2>2, <2>3, <2>4 DEF StatusInstalled, WantsGate
  <2>6. ignored' <=> git' # "none"
    BY <1>5, <2>1 DEF HookInv, HookTypeOK, DoneInv
  <2> QED
    BY <1>3, <2>1, <2>2, <2>4, <2>5, <2>6 DEF CompletedCommandHolds
<1> QED
  BY <1>7, <1>8, <1>9

LEMMA EndKeeps ==
  ASSUME HookInv, WriteState \/ WriteIgnore
  PROVE  HookInv'
<1>1. /\ command # NoCommand /\ doing \in {"state", "ignore"} /\ doing' \in {"ignore", "idle"}
      /\ UNCHANGED <<git, hostFile, preCommit, saved, seen, edits, latest, overtaken>>
      /\ doing' = "ignore" => command' = command /\ settled' = settled
      /\ doing' = "idle" => command' = NoCommand /\ settled' = command
  BY DEF HookInv, CommandInv, WriteState, WriteIgnore
<1>2. /\ command \in Commands /\ command.host \in Hosts
      /\ command.kind \in {"install", "uninstall"}
      /\ command.kind = "install" =>
           command.policy \in BOOLEAN /\ command.mode \in {"advisory", "strict"}
  BY <1>1, CommandTyped DEF HookInv
<1>3. HookTypeOK'
  <2>1. stateFile' \in [Hosts -> [mode : {"absent", "advisory", "strict"}, policy : BOOLEAN]]
    <3> DEFINE StateFiles == [mode : {"absent", "advisory", "strict"}, policy : BOOLEAN]
    <3>1. /\ NoState \in StateFiles
          /\ command.kind = "install" =>
               [mode |-> command.mode, policy |-> command.policy] \in StateFiles
      BY <1>2 DEF NoState
    <3>2. stateFile \in [Hosts -> StateFiles]
      BY DEF HookInv, HookTypeOK
    <3> HIDE DEF StateFiles
    <3>3. \/ stateFile' = stateFile
          \/ \E s \in StateFiles : stateFile' = [stateFile EXCEPT ![command.host] = s]
      BY <1>2, <3>1 DEF WriteState, WriteIgnore
    <3>4. stateFile' \in [Hosts -> StateFiles]
      BY <1>2, <3>2, <3>3
    <3> QED
      BY <3>4 DEF StateFiles
  <2>2. ignored' \in BOOLEAN
    BY DEF WriteState, WriteIgnore, HookInv, HookTypeOK
  <2> QED
    BY <1>1, <1>2, <2>1, <2>2 DEF HookInv, HookTypeOK
<1>4. CommandInv'
  BY <1>1 DEF HookInv, CommandInv, Doings, AfterRouting, AfterGate
<1>5. DoneInv'
  <2>1. ignored' => git' # "none"
    BY <1>1 DEF WriteState, WriteIgnore, HookInv, HookTypeOK, DoneInv
  <2> QED
    BY <1>1, <2>1, EndsHold DEF HookInv, DoneInv, AfterRouting, AfterGate, Wanted, WantsGate
<1>6. TextInv'
  BY <1>1 DEF HookInv, TextInv, EditsSurvive
<1> QED
  BY <1>3, <1>4, <1>5, <1>6 DEF HookInv

LEMMA StopsKeeps ==
  ASSUME HookInv, Stops
  PROVE  HookInv'
<1>1. HookTypeOK'
  BY DEF Stops, HookInv, HookTypeOK
<1>2. CommandInv' /\ settled' = NoCommand
  BY DEF Stops, HookIdle, HookInv, CommandInv, Doings
<1>3. DoneInv'
  BY <1>2 DEF Stops, HookInv, DoneInv, AfterRouting, AfterGate, CompletedCommandHolds
<1>4. TextInv'
  BY DEF Stops, HookInv, TextInv, EditsSurvive
<1> QED
  BY <1>1, <1>2, <1>3, <1>4 DEF HookInv

\* The owner's text changes in one file, and nothing that this program owns.
LEMMA OwnerFacts ==
  ASSUME HookTypeOK, NEW f \in Files, OwnerEdits(f)
  PROVE  /\ edits + 1 \in 1..MaxEdits /\ edits' = edits + 1
         /\ latest' \in [Files -> 0..MaxEdits] /\ latest'[f] = edits + 1
         /\ \A g \in Files : g # f => latest'[g] = latest[g]
         /\ hostFile' \in [Hosts -> HostFiles] /\ preCommit' \in GateFiles
         /\ \A h \in Hosts : hostFile'[h].owned = hostFile[h].owned
         /\ \A h \in Hosts : hostFile'[h].text = IF h = f THEN edits + 1 ELSE hostFile[h].text
         /\ preCommit'.blocks = preCommit.blocks
         /\ preCommit'.text = IF f = "pre-commit" THEN edits + 1 ELSE preCommit.text
<1>1. edits + 1 \in 1..MaxEdits /\ edits' = edits + 1
  BY SMTT(30), HookAssumption DEF OwnerEdits, HookTypeOK
<1>2. PICK n \in 1..MaxEdits : n = edits + 1
  BY <1>1
<1>3. /\ latest' \in [Files -> 0..MaxEdits] /\ latest'[f] = n
      /\ \A g \in Files : g # f => latest'[g] = latest[g]
  BY SMTT(30), <1>2 DEF OwnerEdits, HookTypeOK
<1>4. hostFile \in [Hosts -> HostFiles] /\ preCommit \in GateFiles
  BY DEF HookTypeOK, HostFiles, GateFiles
<1>5. CASE f = "pre-commit"
  <2>1. hostFile' = hostFile /\ preCommit' = [preCommit EXCEPT !.text = n, !.executable = TRUE]
    BY <1>2, <1>5 DEF OwnerEdits
  <2>2. /\ preCommit' \in GateFiles /\ preCommit'.text = n
        /\ preCommit'.blocks = preCommit.blocks
    <3>1. n \in 0..MaxEdits
      BY SMTT(30), <1>2
    <3> QED
      BY <1>4, <2>1, <3>1 DEF GateFiles
  <2>3. "pre-commit" \notin Hosts
    BY HookAssumption
  <2> QED
    BY <1>1, <1>2, <1>3, <1>4, <1>5, <2>1, <2>2, <2>3
<1>6. CASE f # "pre-commit"
  <2>1. f \in Hosts
    BY <1>6 DEF Files
  <2>2. hostFile' = [hostFile EXCEPT ![f].text = n] /\ preCommit' = preCommit
    BY <1>2, <1>6 DEF OwnerEdits
  <2>3. /\ hostFile' \in [Hosts -> HostFiles]
        /\ hostFile'[f].text = n /\ hostFile'[f].owned = hostFile[f].owned
        /\ \A h \in Hosts : h # f => hostFile'[h] = hostFile[h]
    BY SMTT(30), <1>2, <1>4, <2>1, <2>2 DEF HostFiles
  <2> QED
    BY <1>1, <1>2, <1>3, <1>4, <1>6, <2>1, <2>2, <2>3
<1> QED
  BY <1>5, <1>6

LEMMA OwnerKeeps ==
  ASSUME HookInv, NEW f \in Files, OwnerEdits(f)
  PROVE  HookInv'
<1>1. PICK n \in 1..MaxEdits :
        /\ edits' = n
        /\ latest' \in [Files -> 0..MaxEdits] /\ latest'[f] = n
        /\ \A g \in Files : g # f => latest'[g] = latest[g]
        /\ hostFile' \in [Hosts -> HostFiles] /\ preCommit' \in GateFiles
        /\ \A h \in Hosts : hostFile'[h].owned = hostFile[h].owned
        /\ \A h \in Hosts : hostFile'[h].text = IF h = f THEN n ELSE hostFile[h].text
        /\ preCommit'.blocks = preCommit.blocks
        /\ preCommit'.text = IF f = "pre-commit" THEN n ELSE preCommit.text
        /\ overtaken' = IF f = NextToWrite THEN overtaken \cup {n} ELSE overtaken
  <2>1. overtaken' = IF f = NextToWrite THEN overtaken \cup {edits + 1} ELSE overtaken
    BY DEF OwnerEdits
  <2> QED
    BY <2>1, OwnerFacts DEF HookInv
<1>2. UNCHANGED <<git, stateFile, ignored, saved, command, doing, seen, settled>>
  BY DEF OwnerEdits
<1>3. HookTypeOK'
  <2>1. edits' \in 0..MaxEdits /\ overtaken' \subseteq 1..MaxEdits
    BY <1>1 DEF HookInv, HookTypeOK
  <2> QED
    BY <1>1, <1>2, <2>1 DEF HookInv, HookTypeOK, HostFiles, GateFiles
<1>4. command # NoCommand => command.host \in Hosts
  BY CommandTyped DEF HookInv
<1>5. settled # NoCommand => settled.host \in Hosts
  BY DEF HookInv, HookTypeOK, Commands, Installs
<1>6. CommandInv'
  BY <1>1, <1>2, <1>4 DEF HookInv, CommandInv
<1>7. CompletedCommandHolds'
  <2>1. \A c \in Installs : c.host \in Hosts
    BY DEF Installs
  <2>2. \A c \in Installs : StatusInstalled(c)' <=> StatusInstalled(c)
    BY <1>1, <1>2, <2>1 DEF StatusInstalled
  <2>3. settled # NoCommand /\ settled.kind = "install" => settled \in Installs
    BY DEF HookInv, HookTypeOK, Commands
  <2> QED
    BY <1>1, <1>2, <1>5, <2>2, <2>3 DEF HookInv, DoneInv, CompletedCommandHolds
<1>8. DoneInv'
  <2>1. doing # "idle" => command.host \in Hosts
    BY <1>4 DEF HookInv, CommandInv
  <2> QED
    BY <1>1, <1>2, <1>7, <2>1 DEF HookInv, DoneInv, AfterRouting, AfterGate, Wanted, WantsGate
<1>9. TextInv'
  <2>1. ASSUME NEW g \in Files, g # f, TextSafe(g) PROVE TextSafe(g)'
    BY <1>1, <1>2, <2>1 DEF TextSafe
  <2>2. f = NextToWrite => TextSafe(f)'
    BY <1>1 DEF TextSafe
  <2>3. doing = "routing-write" => TextSafe(command.host)'
    BY <1>2, <1>4, <2>1, <2>2 DEF NextToWrite, HookInv, TextInv, CommandInv, Files
  <2>4. doing = "gate-write" => TextSafe("pre-commit")'
    BY <1>2, <2>1, <2>2 DEF NextToWrite, HookInv, TextInv, Files
  <2>5. EditsSurvive'
    <3> SUFFICES ASSUME NEW g \in Files
                 PROVE  \/ latest'[g] = 0
                        \/ latest'[g] = IF g = "pre-commit" THEN preCommit'.text
                                                            ELSE hostFile'[g].text
                        \/ <<g, latest'[g]>> \in saved'
                        \/ latest'[g] \in overtaken'
      BY DEF EditsSurvive
    <3>1. g # "pre-commit" => g \in Hosts
      BY DEF Files
    <3>2. CASE g = f
      BY <1>1, <3>1, <3>2
    <3>3. CASE g # f
      BY <1>1, <1>2, <3>1, <3>3 DEF HookInv, TextInv, EditsSurvive
    <3> QED
      BY <3>2, <3>3
  <2> QED
    BY <1>2, <2>3, <2>4, <2>5 DEF TextInv, TextSafe
<1> QED
  BY <1>3, <1>6, <1>8, <1>9 DEF HookInv

LEMMA HookKeeps == HookInv /\ [HookNext]_hookVars => HookInv'
<1> SUFFICES ASSUME HookInv, [HookNext]_hookVars PROVE HookInv'
  OBVIOUS
<1>1. CASE UNCHANGED hookVars
  <2>1. HookTypeOK' /\ CommandInv'
    BY <1>1 DEF hookVars, HookInv, HookTypeOK, CommandInv
  <2>2. DoneInv'
    BY <1>1 DEF hookVars, HookInv, DoneInv, CompletedCommandHolds, StatusInstalled
  <2>3. TextInv'
    BY <1>1 DEF hookVars, HookInv, TextInv, EditsSurvive, TextSafe
  <2> QED
    BY <2>1, <2>2, <2>3 DEF HookInv
<1> QED
  BY <1>1, StartKeeps, ReadRoutingKeeps, BackupsKeep, WriteRoutingKeeps, ReadGateKeeps,
     WriteGateKeeps, EndKeeps, StopsKeeps, OwnerKeeps DEF HookNext

\* A step of a command for one host leaves what the others own.
LEMMA OthersStay ==
  ASSUME HookInv, HookNext, NEW h \in Hosts, command # NoCommand, command.host # h
  PROVE  /\ hostFile'[h].owned = hostFile[h].owned
         /\ preCommit'.blocks[h] = preCommit.blocks[h]
         /\ stateFile'[h] = stateFile[h]
<1>1. command \in Commands /\ command.host \in Hosts
  BY CommandTyped DEF HookInv
<1>2. hostFile \in [Hosts -> HostFiles] /\ preCommit \in GateFiles
  BY DEF HookInv, HookTypeOK, HostFiles, GateFiles
<1>3. ASSUME NEW c \in Commands PROVE ~Start(c)
  BY DEF Start, HookIdle
<1>4. CASE ReadRouting \/ BackupRouting \/ ReadGate \/ BackupGate
  BY <1>4 DEF ReadRouting, BackupRouting, ReadGate, BackupGate, FilesKept
<1>5. CASE WriteRouting
  BY <1>1, <1>2, <1>5 DEF WriteRouting
<1>6. CASE WriteGate
  <2>1. PICK new : new = GatedFile(seen, command)
    OBVIOUS
  <2>2. seen \in GateFiles /\ seen.blocks = preCommit.blocks
    BY <1>6 DEF WriteGate, HookInv, CommandInv
  <2>3. new \in GateFiles /\ new.blocks[h] = preCommit.blocks[h]
    BY SMTT(30), <1>1, <2>1, <2>2, Gated
  <2>4. preCommit' = [new EXCEPT !.executable = FALSE] /\ UNCHANGED <<hostFile, stateFile>>
    BY <1>6, <2>1 DEF WriteGate
  <2> QED
    BY <2>3, <2>4 DEF GateFiles
<1>7. CASE MakeExecutable
  BY <1>2, <1>7 DEF MakeExecutable, GateFiles
<1>8. CASE WriteState \/ WriteIgnore \/ Stops
  BY ZenonT(30), <1>1, <1>8 DEF WriteState, WriteIgnore, Stops, HookInv, HookTypeOK
<1>9. ASSUME NEW f \in Files, OwnerEdits(f)
      PROVE  /\ hostFile'[h].owned = hostFile[h].owned
             /\ preCommit'.blocks[h] = preCommit.blocks[h]
             /\ stateFile'[h] = stateFile[h]
  BY <1>9, OwnerFacts DEF OwnerEdits, HookInv
<1> QED
  BY <1>3, <1>4, <1>5, <1>6, <1>7, <1>8, <1>9 DEF HookNext

\* Whatever earlier commands left behind when they failed or were killed, and
\* whenever the owner edits a file, a command that completes has done all of
\* its work (install, uninstall and status of install.rs), for any hosts,
\* commands and number of edits.
THEOREM CompletedCommandsHold == HookSpec => []CompletedCommandHolds
<1>1. HookInv => CompletedCommandHolds
  BY DEF HookInv, DoneInv
<1> QED
  BY <1>1, HookStarts, HookKeeps, PTL DEF HookSpec

\* The owner's last text of every file is in the file or in a backup, unless it
\* was written between the backup and the rename, and a command changes
\* nothing that carries another host's markers (atomic_write, backup and
\* remove_marked_block of install.rs), for any hosts, commands and number of
\* edits.
THEOREM HooksKeepOthers == HookSpec => OthersKept
<1>1. HookInv => HookTypeOK /\ EditsSurvive
  BY DEF HookInv, TextInv
<1>2. HookInv /\ [HookNext]_hookVars =>
        [\A h \in Hosts :
           (~ HookIdle /\ command.host # h) =>
             /\ hostFile'[h].owned = hostFile[h].owned
             /\ preCommit'.blocks[h] = preCommit.blocks[h]
             /\ stateFile'[h] = stateFile[h]]_hookVars
  BY OthersStay DEF HookIdle
<1> QED
  BY <1>1, <1>2, HookStarts, HookKeeps, PTL DEF HookSpec, OthersKept, OtherHostsKept

-----------------------------------------------------------------------------
(***************************************************************************)
(* The composed plugin                                                     *)
(***************************************************************************)
EntryStates == [documents -> [Names -> {"none", "managed", "foreign"}]]
SkillStates == Builds \cup {"none", Edited, PartialSkill}
Skills == [Names -> SkillStates]
AnyLocal == Locals \cup {NoLocal}

CreateSteps == {"local", "replace", "discard", "undo-skill"}
UninstallSteps == {"stage-skill", "stage-local"}
PluginSteps ==
  {"idle", "check", "documents", "undo-documents"} \cup CreateSteps \cup UninstallSteps

\* The command has read the parts and may have changed some.
Underway == step \notin {"idle", "check"}

\* Which command is where, and what it has read.
TaskInv ==
  /\ step \in PluginSteps
  /\ step = "idle" <=> task = NoTask
  /\ step \in CreateSteps => task.kind = "create"
  /\ step \in UninstallSteps => task.kind = "uninstall"
  /\ aside \in [skill : SkillStates, local : AnyLocal]
  /\ Underway =>
       /\ before \in EntryStates \X Skills \X AnyLocal
       /\ task.kind = "uninstall" => before[3] \in Locals
       /\ step \in {"documents"} \cup UninstallSteps => todo \subseteq Updates
  /\ step # "idle" => result \in {"none", "replaced"}
  /\ step # "idle" /\ result = "replaced" =>
       step \in {"undo-skill", "undo-documents"} /\ task.kind = "create" /\ faults >= 1

\* What a create has changed of what it read.
CreateInv ==
  /\ before[2][task.name] \in {"none", task.build}
  /\ step \in {"documents", "undo-documents"} => skill = before[2]
  /\ step \in CreateSteps => skill = [before[2] EXCEPT ![task.name] = task.build]
  /\ step = "undo-skill" => before[2][task.name] = "none"
  /\ local = IF step = "replace" THEN NoLocal
             ELSE IF step = "discard" \/ result = "replaced" THEN LocalOf(task)
             ELSE before[3]
  /\ step = "replace" => aside.local = before[3]

\* What an uninstall has changed of what it read.
UninstallInv ==
  /\ before[3].name = task.name /\ before[2][task.name] = before[3].build
  /\ step \in {"stage-skill", "undo-documents"} => skill = before[2]
  /\ step \in {"stage-local", "documents"} =>
       /\ skill = [before[2] EXCEPT ![task.name] = "none"]
       /\ aside.skill = before[2][task.name]
  /\ local = IF step = "documents" THEN NoLocal ELSE before[3]
  /\ step = "documents" => aside.local = before[3]

\* Unless the owner changed something since, all that a command has changed
\* is what it can put back.
UndoInv ==
  /\ ~late /\ Underway =>
       /\ \A d \in documents : d \notin Updates \ todo => entry[d] = before[1][d]
       /\ IF task.kind = "create" THEN CreateInv ELSE UninstallInv
  /\ FailedCommandUndone

\* No change by the owner, and a receipt as a create wrote it.
Unedited(e, s, l) ==
  /\ \A d \in documents, n \in Names : e[d][n] # "foreign"
  /\ \A n \in Names : s[n] # Edited
  /\ l # NoLocal => l.intact /\ l.documents = documents

\* The skill that the receipt names is there, or one kill has removed it.
Described(s, l) ==
  /\ faults = 0 /\ l # NoLocal => s[l.name] = l.build
  /\ faults <= 1 /\ l # NoLocal => s[l.name] \in {"none", l.build}

\* As long as the owner changes nothing.
RepairInv ==
  changes = 0 =>
    /\ ~late
    /\ Unedited(entry, skill, local)
    /\ aside.skill # Edited
    /\ aside.local # NoLocal => aside.local.intact /\ aside.local.documents = documents
    /\ Underway => Unedited(before[1], before[2], before[3])
    /\ IF Underway THEN Described(before[2], before[3]) ELSE Described(skill, local)

\* The inductive invariant of the plugin.
PluginInv == PluginTypeOK /\ TaskInv /\ UndoInv /\ RepairInv

LEMMA TaskTyped ==
  ASSUME PluginTypeOK, task # NoTask
  PROVE  /\ task \in Tasks /\ task.name \in Names /\ task.kind \in {"create", "uninstall"}
         /\ task.kind = "create" =>
              /\ task \in Creates /\ task.build \in Builds /\ task.database \in Databases
              /\ task.replace \in BOOLEAN
              /\ LocalOf(task) \in Locals /\ LocalOf(task) # NoLocal
              /\ LocalOf(task).name = task.name /\ LocalOf(task).build = task.build
              /\ LocalOf(task).intact /\ LocalOf(task).documents = documents
<1>1. /\ task \in Tasks /\ task.name \in Names /\ task.kind \in {"create", "uninstall"}
      /\ task.kind = "create" =>
              /\ task \in Creates /\ task.build \in Builds /\ task.database \in Databases
              /\ task.replace \in BOOLEAN
  BY DEF PluginTypeOK, Tasks, Creates
<1>2. documents \in SUBSET {"mcp.json", "codex"}
  BY DEF PluginTypeOK
<1> QED
  BY <1>1, <1>2 DEF LocalOf, Locals, NoLocal

LEMMA NoLocalIsNone == NoLocal \notin Locals
BY SMTT(30) DEF NoLocal, Locals

LEMMA PluginStarts == PluginInit => PluginInv
<1> SUFFICES ASSUME PluginInit PROVE PluginInv
  OBVIOUS
<1>1. PluginTypeOK
  <2>1. entry \in [documents -> [Names -> {"none", "managed", "foreign"}]]
    BY DEF PluginInit
  <2>2. skill \in [Names -> Builds \cup {"none", Edited, PartialSkill}]
    BY DEF PluginInit
  <2>3. faults \in 0..MaxFaults /\ changes \in 0..MaxChanges
    BY SMTT(30), PluginAssumption DEF PluginInit
  <2>4. todo \subseteq documents
    BY DEF PluginInit
  <2> QED
    BY <2>1, <2>2, <2>3, <2>4 DEF PluginInit, PluginTypeOK
<1>2. TaskInv
  BY DEF PluginInit, TaskInv, PluginSteps, CreateSteps, UninstallSteps, Underway, NoAside,
         AnyLocal, SkillStates
<1>3. UndoInv
  BY DEF PluginInit, UndoInv, Underway, FailedCommandUndone
<1>4. RepairInv
  BY DEF PluginInit, RepairInv, Underway, Unedited, Described, NoAside, Edited
<1> QED
  BY <1>1, <1>2, <1>3, <1>4 DEF PluginInv

LEMMA StartInv ==
  ASSUME PluginInv, NEW c \in Tasks, StartTask(c)
  PROVE  PluginInv'
<1> c # NoTask /\ task' = c /\ step' = "check"
  BY SMTT(30) DEF StartTask, Tasks, Creates, NoTask
<1>1. PluginTypeOK'
  BY DEF PluginInv, PluginTypeOK, StartTask
<1>2. TaskInv'
  BY DEF PluginInv, TaskInv, StartTask, PluginSteps, CreateSteps, UninstallSteps, Underway
<1>3. UndoInv'
  BY DEF UndoInv, StartTask, Underway, FailedCommandUndone
<1>4. RepairInv'
  BY DEF PluginInv, TaskInv, RepairInv, StartTask, Underway, Unedited, Described, PluginIdle
<1> QED
  BY <1>1, <1>2, <1>3, <1>4 DEF PluginInv

LEMMA CheckCreateInv ==
  ASSUME PluginInv, CheckCreate
  PROVE  PluginInv'
<1> DEFINE ok == CreateAccepts(task)
<1>a. task # NoTask /\ step = "check" /\ task.kind = "create"
  BY DEF PluginInv, TaskInv, CheckCreate
<1>b. task \in Creates /\ task.name \in Names
  BY <1>a, TaskTyped DEF PluginInv
<1>c. before' = <<entry, skill, local>> /\ before' \in (EntryStates \X Skills \X AnyLocal)'
  BY DEF CheckCreate, Parts, Frame, PluginInv, PluginTypeOK, EntryStates, Skills, SkillStates, AnyLocal
<1>1. PluginTypeOK'
  BY DEF PluginInv, PluginTypeOK, CheckCreate, Frame, Ends
<1>2. TaskInv'
  <2>1. CASE ok
    <3>1. todo' \subseteq Updates'
      BY SMTT(30), <1>a, <1>c, <2>1 DEF CheckCreate, Updates, Frame
    <3> QED
      BY <1>a, <1>c, <2>1, <3>1 DEF PluginInv, TaskInv, CheckCreate, Frame, PluginSteps,
         CreateSteps, UninstallSteps, Underway, AnyLocal
  <2>2. CASE ~ ok
    BY SMTT(30), <1>a, <2>2 DEF PluginInv, TaskInv, CheckCreate, Frame, PluginSteps, CreateSteps,
       UninstallSteps, Underway, Ends, NoAside, AnyLocal, SkillStates
  <2> QED
    BY <2>1, <2>2
<1>3. UndoInv'
  <2>1. CASE ok
    <3>1. task' = task /\ step' = "documents" /\ result' = result /\ result' \in {"none", "replaced"}
          /\ result # "replaced"
      BY <1>a, <2>1 DEF PluginInv, TaskInv, CheckCreate
    <3>2. CreateInv'
      BY SMTT(30), <1>a, <1>c, <2>1, <3>1 DEF CheckCreate, CreateInv, CreateAccepts, CreateSteps
    <3>3. \A d \in documents' : d \notin (Updates \ todo)' => entry'[d] = before'[1][d]
      BY SMTT(30), <1>c DEF CheckCreate
    <3>4. FailedCommandUndone'
      BY <1>c DEF CheckCreate, FailedCommandUndone, Parts
    <3> QED
      BY <1>a, <3>1, <3>2, <3>3, <3>4 DEF UndoInv
  <2>2. CASE ~ ok
    BY <1>c, <2>2 DEF CheckCreate, Ends, UndoInv, Underway, FailedCommandUndone, Parts
  <2> QED
    BY <2>1, <2>2
<1>4. RepairInv'
  <2>1. CASE ok
    BY SMTT(30), <1>a, <1>c, <2>1 DEF PluginInv, RepairInv, CheckCreate, Frame, Unedited, Described, Underway
  <2>2. CASE ~ ok
    BY SMTT(30), <1>a, <2>2 DEF PluginInv, RepairInv, CheckCreate, Frame, Unedited, Described, Underway,
       Ends, NoAside, Edited
  <2> QED
    BY <2>1, <2>2
<1> QED
  BY <1>1, <1>2, <1>3, <1>4 DEF PluginInv

LEMMA CheckUninstallInv ==
  ASSUME PluginInv, CheckUninstall
  PROVE  PluginInv'
<1> DEFINE ok == UninstallAccepts(task.name)
<1>a. task # NoTask /\ step = "check" /\ task.kind = "uninstall"
  BY DEF PluginInv, TaskInv, CheckUninstall
<1>b. task.name \in Names
  BY <1>a, TaskTyped DEF PluginInv
<1>c. before' = <<entry, skill, local>> /\ before' \in (EntryStates \X Skills \X AnyLocal)'
  BY DEF CheckUninstall, Parts, Frame, PluginInv, PluginTypeOK, EntryStates, Skills, SkillStates,
         AnyLocal
<1>d. ok => local \in Locals /\ local.documents \subseteq documents /\ local.name = task.name
            /\ skill[task.name] = local.build
  BY DEF PluginInv, PluginTypeOK, UninstallAccepts
<1>1. PluginTypeOK'
  BY <1>d DEF PluginInv, PluginTypeOK, CheckUninstall, Frame, Ends, ManagedDocuments
<1>2. TaskInv'
  <2>1. CASE ok
    <3>1. todo' \subseteq Updates'
      BY SMTT(30), <1>a, <1>c, <2>1 DEF CheckUninstall, Updates, Frame, ManagedDocuments
    <3> QED
      BY SMTT(30), <1>a, <1>c, <1>d, <2>1, <3>1 DEF PluginInv, TaskInv, CheckUninstall, Frame, PluginSteps,
         CreateSteps, UninstallSteps, Underway, AnyLocal
  <2>2. CASE ~ ok
    BY SMTT(30), <1>a, <2>2 DEF PluginInv, TaskInv, CheckUninstall, Frame, PluginSteps, CreateSteps,
       UninstallSteps, Underway, Ends, NoAside, AnyLocal, SkillStates
  <2> QED
    BY <2>1, <2>2
<1>3. UndoInv'
  <2>1. CASE ok
    <3>1. task' = task /\ step' = "stage-skill"
      BY <1>a, <2>1 DEF CheckUninstall
    <3>2. UninstallInv'
      BY SMTT(30), <1>a, <1>c, <1>d, <2>1, <3>1 DEF CheckUninstall, UninstallInv
    <3>3. \A d \in documents' : d \notin (Updates \ todo)' => entry'[d] = before'[1][d]
      BY SMTT(30), <1>c DEF CheckUninstall
    <3>4. FailedCommandUndone'
      BY <1>c DEF CheckUninstall, FailedCommandUndone, Parts
    <3> QED
      BY <1>a, <3>1, <3>2, <3>3, <3>4 DEF UndoInv
  <2>2. CASE ~ ok
    BY <1>c, <2>2 DEF CheckUninstall, Ends, UndoInv, Underway, FailedCommandUndone, Parts
  <2> QED
    BY <2>1, <2>2
<1>4. RepairInv'
  <2>1. CASE ok
    BY SMTT(30), <1>a, <1>c, <2>1 DEF PluginInv, RepairInv, CheckUninstall, Frame, Unedited, Described,
       Underway
  <2>2. CASE ~ ok
    BY SMTT(30), <1>a, <2>2 DEF PluginInv, RepairInv, CheckUninstall, Frame, Unedited, Described, Underway,
       Ends, NoAside, Edited
  <2> QED
    BY <2>1, <2>2
<1> QED
  BY <1>1, <1>2, <1>3, <1>4 DEF PluginInv

LEMMA ApplyDocumentInv ==
  ASSUME PluginInv, ApplyDocument
  PROVE  PluginInv'
<1> DEFINE next == NextDocument
           put == IF task.kind = "create" THEN "managed" ELSE "none"
<1>a. task # NoTask /\ step = "documents" /\ Underway /\ Underway'
  BY DEF PluginInv, TaskInv, ApplyDocument, Underway, GoesOn
<1>b. task.name \in Names
  BY <1>a, TaskTyped DEF PluginInv
<1>c. /\ task' = task /\ before' = before /\ step' = step /\ result' = result
      /\ skill' = skill /\ local' = local /\ aside' = aside /\ documents' = documents
      /\ faults' = faults /\ changes' = changes /\ late' = late
      /\ Updates' = Updates
  BY <1>a DEF ApplyDocument, GoesOn, Frame, Updates
<1>d. next \in todo /\ next \in documents /\ next \in Updates /\ todo \subseteq Updates
  BY ZenonT(30), <1>a DEF PluginInv, TaskInv, PluginTypeOK, ApplyDocument, NextDocument
<1>e. /\ entry' \in [documents -> [Names -> {"none", "managed", "foreign"}]]
      /\ \A d \in documents : d # next => entry'[d] = entry[d]
      /\ \A d \in documents, n \in Names : entry'[d][n] \in {entry[d][n], put}
  <2>1. entry' = [entry EXCEPT ![next] = [entry[next] EXCEPT ![task.name] = put]]
    BY DEF ApplyDocument
  <2>2. [entry[next] EXCEPT ![task.name] = put] \in [Names -> {"none", "managed", "foreign"}]
    BY <1>d DEF PluginInv, PluginTypeOK
  <2> HIDE DEF next, put
  <2> QED
    BY <1>b, <1>d, <2>1, <2>2 DEF PluginInv, PluginTypeOK
<1>f. todo' = todo \ {next}
  BY DEF ApplyDocument
<1> HIDE DEF next
<1>1. PluginTypeOK'
  BY <1>c, <1>e, <1>f DEF PluginInv, PluginTypeOK
<1>2. TaskInv'
  BY <1>a, <1>c, <1>d, <1>f DEF PluginInv, TaskInv, EntryStates, Skills, AnyLocal
<1>3. UndoInv'
  <2>1. ASSUME ~ late
        PROVE  /\ \A d \in documents : d \notin Updates \ todo' => entry'[d] = before[1][d]
               /\ IF task.kind = "create" THEN CreateInv' ELSE UninstallInv'
    <3>1. \A d \in documents : d \notin Updates \ todo => entry[d] = before[1][d]
      BY <1>a, <2>1 DEF PluginInv, UndoInv
    <3>2. IF task.kind = "create" THEN CreateInv' ELSE UninstallInv'
      BY <1>a, <1>c, <2>1 DEF PluginInv, UndoInv, CreateInv, UninstallInv, LocalOf
    <3> QED
      BY <1>d, <1>e, <1>f, <3>1, <3>2
  <2>2. FailedCommandUndone'
    BY <1>a, <1>c DEF FailedCommandUndone, PluginIdle
  <2> QED
    BY <1>a, <1>c, <2>1, <2>2 DEF UndoInv
<1>4. RepairInv'
  <2>1. put # "foreign"
    OBVIOUS
  <2> HIDE DEF put
  <2> QED
    BY SMTT(30), <1>a, <1>c, <1>e, <2>1 DEF PluginInv, RepairInv, Unedited, Described
<1> QED
  BY <1>1, <1>2, <1>3, <1>4 DEF PluginInv

LEMMA WriteSkillInv ==
  ASSUME PluginInv, WriteSkill
  PROVE  PluginInv'
<1>a. task # NoTask /\ step = "documents" /\ Underway /\ Underway' /\ task.kind = "create"
  BY DEF PluginInv, TaskInv, WriteSkill, Underway, GoesOn
<1>b. task.name \in Names /\ task.build \in Builds
  BY <1>a, TaskTyped DEF PluginInv
<1>c. /\ task' = task /\ before' = before /\ step' = "local" /\ result' = result
      /\ local' = local /\ aside' = aside /\ documents' = documents /\ entry' = entry
      /\ todo' = todo /\ faults' = faults /\ changes' = changes /\ late' = late
      /\ Updates' = Updates
  BY <1>a DEF WriteSkill, GoesOn, Frame, Updates
<1>d. skill' \in Skills /\ \A n \in Names : skill'[n] \in {skill[n], task.build}
  BY <1>b DEF PluginInv, PluginTypeOK, WriteSkill, Skills, SkillStates
<1>1. PluginTypeOK'
  BY <1>c, <1>d DEF PluginInv, PluginTypeOK, Skills, SkillStates
<1>2. TaskInv'
  BY <1>a, <1>c DEF PluginInv, TaskInv, EntryStates, Skills, AnyLocal, PluginSteps, CreateSteps,
     UninstallSteps
<1>3. UndoInv'
  <2>1. ASSUME ~ late PROVE CreateInv'
    <3>1. CreateInv
      BY <1>a, <2>1 DEF PluginInv, UndoInv
    <3>2. before[2] \in Skills /\ skill = before[2]
      BY <1>a, <3>1 DEF PluginInv, TaskInv, CreateInv
    <3>3. skill' = [before[2] EXCEPT ![task.name] = task.build]
      BY <1>b, <3>1, <3>2 DEF WriteSkill, CreateInv, Skills
    <3>4. result # "replaced"
      BY <1>a DEF PluginInv, TaskInv
    <3> QED
      BY <1>a, <1>c, <3>1, <3>3, <3>4 DEF CreateInv, LocalOf, CreateSteps
  <2>2. ~ late => \A d \in documents : d \notin Updates \ todo => entry[d] = before[1][d]
    BY <1>a DEF PluginInv, UndoInv
  <2>3. FailedCommandUndone'
    BY <1>a, <1>c DEF FailedCommandUndone, PluginIdle
  <2> QED
    BY <1>a, <1>c, <2>1, <2>2, <2>3 DEF UndoInv
<1>4. RepairInv'
  BY <1>a, <1>b, <1>c, <1>d, PluginAssumption DEF PluginInv, RepairInv, Unedited, Described
<1> QED
  BY <1>1, <1>2, <1>3, <1>4 DEF PluginInv

LEMMA CreateFailsInv ==
  ASSUME PluginInv, CreateFails
  PROVE  PluginInv'
<1>a. task # NoTask /\ step = "documents" /\ Underway /\ Underway' /\ task.kind = "create"
  BY DEF PluginInv, TaskInv, CreateFails, Underway, GoesOn
<1>c. /\ task' = task /\ before' = before /\ step' = "undo-documents" /\ result' = result
      /\ skill' = skill /\ local' = local /\ aside' = aside /\ documents' = documents
      /\ entry' = entry /\ todo' = todo /\ changes' = changes /\ late' = late
      /\ Updates' = Updates
  BY <1>a DEF CreateFails, GoesOn, Updates
<1>d. faults \in Nat /\ faults' = faults + 1 /\ faults' \in 0..MaxFaults
  BY SMTT(30), PluginAssumption DEF PluginInv, PluginTypeOK, CreateFails, Fault
<1>1. PluginTypeOK'
  BY <1>c, <1>d DEF PluginInv, PluginTypeOK
<1>2. TaskInv'
  BY <1>a, <1>c, <1>d DEF PluginInv, TaskInv, EntryStates, Skills, AnyLocal, PluginSteps,
     CreateSteps, UninstallSteps
<1>3. UndoInv'
  <2>1. result # "replaced"
    BY <1>a DEF PluginInv, TaskInv
  <2>2. ASSUME ~ late PROVE CreateInv'
    <3>1. CreateInv
      BY <1>a, <2>2 DEF PluginInv, UndoInv
    <3> QED
      BY <1>a, <1>c, <2>1, <3>1 DEF CreateInv, CreateSteps
  <2>3. ~ late => \A d \in documents : d \notin Updates \ todo => entry[d] = before[1][d]
    BY <1>a DEF PluginInv, UndoInv
  <2>4. FailedCommandUndone'
    BY <1>a, <1>c DEF FailedCommandUndone, PluginIdle
  <2> QED
    BY <1>a, <1>c, <2>2, <2>3, <2>4 DEF UndoInv
<1>4. RepairInv'
  BY SMTT(30), <1>a, <1>c, <1>d DEF PluginInv, RepairInv, Unedited, Described
<1> QED
  BY <1>1, <1>2, <1>3, <1>4 DEF PluginInv

\* However a command ends, types and control are those of an idle plugin.
LEMMA EndedIsTyped ==
  ASSUME PluginInv, NEW how \in {"done", "refused", "failed", "replaced", "killed"}, Ends(how),
         documents' = documents, changes' = changes, late' = late,
         faults' \in 0..MaxFaults, skill' \in Skills, local' \in AnyLocal,
         entry' \in [documents -> [Names -> {"none", "managed", "foreign"}]]
  PROVE  PluginTypeOK' /\ TaskInv' /\ ~ Underway'
<1>1. PluginTypeOK'
  BY DEF PluginInv, PluginTypeOK, Ends, Skills, SkillStates, AnyLocal
<1>2. TaskInv'
  BY DEF TaskInv, Ends, PluginSteps, CreateSteps, UninstallSteps, Underway, NoAside, AnyLocal,
         SkillStates
<1> QED
  BY <1>1, <1>2 DEF Ends, Underway

LEMMA WriteLocalInv ==
  ASSUME PluginInv, WriteLocal
  PROVE  PluginInv'
<1> DEFINE new == local = NoLocal \/ local = LocalOf(task)
<1>a. task # NoTask /\ step = "local" /\ Underway /\ task.kind = "create" /\ result = "none"
  BY DEF PluginInv, TaskInv, WriteLocal, Underway, CreateSteps
<1>b. /\ task.name \in Names /\ task.build \in Builds /\ LocalOf(task) \in Locals
      /\ LocalOf(task).name = task.name /\ LocalOf(task).build = task.build
      /\ LocalOf(task).intact /\ LocalOf(task).documents = documents
  BY <1>a, TaskTyped DEF PluginInv
<1>c. /\ before' = before /\ documents' = documents /\ skill' = skill
      /\ entry' = entry /\ changes' = changes /\ late' = late /\ faults' = faults
  BY DEF WriteLocal, Frame, GoesOn
<1>d. ~ late => CreateInv
  BY <1>a DEF PluginInv, UndoInv
<1>1. CASE new
  <2>1. Ends("done") /\ local' = LocalOf(task)
    BY <1>1 DEF WriteLocal
  <2>2. PluginTypeOK' /\ TaskInv' /\ ~ Underway'
    BY <1>b, <1>c, <2>1, EndedIsTyped DEF PluginInv, PluginTypeOK, Skills, SkillStates, AnyLocal
  <2>3. UndoInv'
    BY <2>1, <2>2 DEF UndoInv, FailedCommandUndone, Ends
  <2>4. RepairInv'
    <3> SUFFICES ASSUME changes' = 0 PROVE RepairInv'
      BY DEF RepairInv
    <3>1. ~ late /\ CreateInv
      BY <1>c, <1>d DEF PluginInv, RepairInv
    <3>2. skill[task.name] = task.build
      BY <1>a, <1>b, <3>1 DEF PluginInv, TaskInv, CreateInv, CreateSteps, Skills
    <3> QED
      BY <1>b, <1>c, <2>1, <2>2, <3>2 DEF PluginInv, RepairInv, Unedited, Described, Ends, NoAside,
         Edited
  <2> QED
    BY <2>2, <2>3, <2>4 DEF PluginInv
<1>2. CASE ~ new
  <2>1. /\ local' = NoLocal /\ aside' = [aside EXCEPT !.local = local] /\ todo' = todo
        /\ step' = "replace" /\ task' = task /\ result' = result /\ Updates' = Updates
        /\ Underway'
    BY <1>2, <1>c DEF WriteLocal, GoesOn, Updates, Underway
  <2>2. aside' \in [skill : SkillStates, local : AnyLocal] /\ aside'.skill = aside.skill
        /\ aside'.local = local
    BY <2>1 DEF PluginInv, PluginTypeOK, TaskInv, AnyLocal
  <2>3. PluginTypeOK'
    BY <1>c, <2>1 DEF PluginInv, PluginTypeOK
  <2>4. TaskInv'
    BY <1>a, <1>c, <2>1, <2>2 DEF PluginInv, TaskInv, EntryStates, Skills, PluginSteps,
       CreateSteps, UninstallSteps
  <2>5. UndoInv'
    <3>1. ASSUME ~ late PROVE CreateInv'
      BY <1>a, <1>c, <1>d, <2>1, <2>2, <3>1 DEF CreateInv, CreateSteps
    <3>2. ~ late => \A d \in documents : d \notin Updates \ todo => entry[d] = before[1][d]
      BY <1>a DEF PluginInv, UndoInv
    <3>3. FailedCommandUndone'
      BY <1>a, <2>1 DEF FailedCommandUndone, PluginIdle
    <3> QED
      BY <1>a, <1>c, <2>1, <3>1, <3>2, <3>3 DEF UndoInv
  <2>6. RepairInv'
    BY ZenonT(30), <1>a, <1>c, <2>1, <2>2 DEF PluginInv, RepairInv, Unedited, Described
  <2> QED
    BY <2>3, <2>4, <2>5, <2>6 DEF PluginInv
<1> QED
  BY <1>1, <1>2

LEMMA ReplaceLocalInv ==
  ASSUME PluginInv, ReplaceLocal
  PROVE  PluginInv'
<1>a. task # NoTask /\ step = "replace" /\ Underway /\ task.kind = "create" /\ result = "none"
  BY DEF PluginInv, TaskInv, ReplaceLocal, Underway, CreateSteps
<1>b. /\ LocalOf(task) \in Locals
      /\ LocalOf(task).intact /\ LocalOf(task).documents = documents
  BY <1>a, TaskTyped DEF PluginInv
<1>c. /\ before' = before /\ documents' = documents /\ skill' = skill /\ local' = LocalOf(task)
      /\ entry' = entry /\ changes' = changes /\ late' = late /\ faults' = faults
      /\ todo' = todo /\ aside' = aside /\ step' = "discard" /\ task' = task
      /\ result' = result /\ Underway'
  BY DEF ReplaceLocal, Frame, GoesOn, Underway
<1>d. Updates' = Updates /\ LocalOf(task)' = LocalOf(task)
  BY <1>c DEF Updates, LocalOf
<1>1. PluginTypeOK'
  BY <1>b, <1>c DEF PluginInv, PluginTypeOK
<1>2. TaskInv'
  BY <1>a, <1>c, <1>d DEF PluginInv, TaskInv, EntryStates, Skills, AnyLocal, PluginSteps,
     CreateSteps, UninstallSteps
<1>3. UndoInv'
  <2>1. ASSUME ~ late PROVE CreateInv'
    <3>1. CreateInv
      BY <1>a, <2>1 DEF PluginInv, UndoInv
    <3> QED
      BY <1>a, <1>c, <1>d, <3>1 DEF CreateInv, CreateSteps
  <2>2. ~ late => \A d \in documents : d \notin Updates \ todo => entry[d] = before[1][d]
    BY <1>a DEF PluginInv, UndoInv
  <2>3. FailedCommandUndone'
    BY <1>a, <1>c DEF FailedCommandUndone, PluginIdle
  <2> QED
    BY <1>a, <1>c, <1>d, <2>1, <2>2, <2>3 DEF UndoInv
<1>4. RepairInv'
  BY <1>a, <1>b, <1>c DEF PluginInv, RepairInv, Unedited, Described
<1> QED
  BY <1>1, <1>2, <1>3, <1>4 DEF PluginInv

LEMMA DiscardPreviousInv ==
  ASSUME PluginInv, DiscardPrevious
  PROVE  PluginInv'
<1>a. task # NoTask /\ step = "discard" /\ Underway /\ task.kind = "create"
  BY DEF PluginInv, TaskInv, DiscardPrevious, Underway, CreateSteps
<1>b. /\ task.name \in Names /\ task.build \in Builds
      /\ LocalOf(task).name = task.name /\ LocalOf(task).build = task.build
  BY <1>a, TaskTyped DEF PluginInv
<1>c. /\ before' = before /\ documents' = documents /\ skill' = skill /\ local' = local
      /\ entry' = entry /\ changes' = changes /\ late' = late /\ faults' = faults
      /\ Ends("done")
  BY DEF DiscardPrevious, Frame
<1>1. PluginTypeOK' /\ TaskInv' /\ ~ Underway'
  BY <1>c, EndedIsTyped DEF PluginInv, PluginTypeOK, Skills, SkillStates, AnyLocal
<1>2. UndoInv'
  BY <1>c, <1>1 DEF UndoInv, FailedCommandUndone, Ends
<1>3. RepairInv'
  <2> SUFFICES ASSUME changes' = 0 PROVE RepairInv'
    BY DEF RepairInv
  <2>1. ~ late /\ CreateInv
    BY <1>a, <1>c DEF PluginInv, RepairInv, UndoInv
  <2>2. skill[task.name] = task.build /\ local = LocalOf(task)
    BY <1>a, <1>b, <2>1 DEF PluginInv, TaskInv, CreateInv, CreateSteps, Skills
  <2> QED
    BY <1>b, <1>c, <1>1, <2>2 DEF PluginInv, RepairInv, Unedited, Described, Ends, NoAside, Edited
<1> QED
  BY <1>1, <1>2, <1>3 DEF PluginInv

LEMMA LocalFailsInv ==
  ASSUME PluginInv, LocalFails
  PROVE  PluginInv'
<1>a. /\ task # NoTask /\ step \in {"local", "replace", "discard"} /\ Underway
      /\ task.kind = "create" /\ result = "none"
  BY DEF PluginInv, TaskInv, LocalFails, Underway, CreateSteps
<1>b. task.name \in Names /\ task.build \in Builds
  BY <1>a, TaskTyped DEF PluginInv
<1>c. /\ before' = before /\ documents' = documents /\ skill' = skill
      /\ entry' = entry /\ changes' = changes /\ late' = late
      /\ todo' = todo /\ aside' = aside /\ task' = task
      /\ step' \in {"undo-skill", "undo-documents"} /\ Underway'
      /\ local' = IF step = "replace" THEN aside.local ELSE local
      /\ result' = IF step = "discard" THEN "replaced" ELSE result
      /\ step' = "undo-skill" <=> before[2][task.name] = "none"
  BY DEF LocalFails, Underway
<1>d. Updates' = Updates /\ LocalOf(task)' = LocalOf(task)
  BY <1>c DEF Updates, LocalOf
<1>e. /\ faults \in Nat /\ faults' \in {faults, faults + 1} /\ faults' \in 0..MaxFaults
      /\ step = "discard" => faults' >= 1
  BY SMTT(30), PluginAssumption DEF PluginInv, PluginTypeOK, LocalFails, Fault
<1>1. PluginTypeOK'
  BY <1>a, <1>c, <1>e DEF PluginInv, PluginTypeOK, TaskInv, AnyLocal
<1>2. TaskInv'
  BY <1>a, <1>c, <1>d, <1>e DEF PluginInv, TaskInv, EntryStates, Skills, AnyLocal, PluginSteps,
     CreateSteps, UninstallSteps
<1>3. UndoInv'
  <2>1. ASSUME ~ late PROVE CreateInv'
    <3>1. CreateInv /\ before[2] \in Skills
      BY <1>a, <2>1 DEF PluginInv, UndoInv, TaskInv
    <3>2. skill = [before[2] EXCEPT ![task.name] = task.build]
      BY <1>a, <3>1 DEF CreateInv, CreateSteps
    <3>3. before[2][task.name] # "none" => skill = before[2]
      <4> SUFFICES ASSUME before[2][task.name] = task.build PROVE skill = before[2]
        BY <3>1 DEF CreateInv
      <4> QED
        BY <3>1, <3>2 DEF Skills
    <3>4. local' = IF step = "discard" THEN LocalOf(task) ELSE before[3]
      BY <1>a, <1>c, <3>1 DEF CreateInv
    <3> QED
      BY <1>a, <1>c, <1>d, <3>1, <3>2, <3>3, <3>4 DEF CreateInv, CreateSteps
  <2>2. ~ late => \A d \in documents : d \notin Updates \ todo => entry[d] = before[1][d]
    BY <1>a DEF PluginInv, UndoInv
  <2>3. FailedCommandUndone'
    BY <1>a, <1>c DEF FailedCommandUndone, PluginIdle
  <2> QED
    BY <1>a, <1>c, <1>d, <2>1, <2>2, <2>3 DEF UndoInv
<1>4. RepairInv'
  BY SMTT(30), <1>a, <1>c, <1>e DEF PluginInv, RepairInv, Unedited, Described
<1> QED
  BY <1>1, <1>2, <1>3, <1>4 DEF PluginInv

LEMMA UndoSkillInv ==
  ASSUME PluginInv, UndoSkill
  PROVE  PluginInv'
<1>a. /\ task # NoTask /\ step = "undo-skill" /\ Underway /\ Underway' /\ task.kind = "create"
  BY DEF PluginInv, TaskInv, UndoSkill, Underway, CreateSteps, GoesOn
<1>b. task.name \in Names
  BY <1>a, TaskTyped DEF PluginInv
<1>c. /\ before' = before /\ documents' = documents /\ local' = local
      /\ entry' = entry /\ changes' = changes /\ late' = late /\ faults' = faults
      /\ todo' = todo /\ aside' = aside /\ task' = task
      /\ step' = "undo-documents" /\ result' = result
  BY DEF UndoSkill, GoesOn, Frame
<1>d. Updates' = Updates /\ LocalOf(task)' = LocalOf(task)
  BY <1>c DEF Updates, LocalOf
<1>e. skill' \in Skills /\ \A n \in Names : skill'[n] \in {skill[n], "none"}
  BY <1>b DEF PluginInv, PluginTypeOK, UndoSkill, Skills, SkillStates
<1>1. PluginTypeOK'
  BY <1>c, <1>e DEF PluginInv, PluginTypeOK, Skills, SkillStates
<1>2. TaskInv'
  BY <1>a, <1>c, <1>d DEF PluginInv, TaskInv, EntryStates, Skills, AnyLocal, PluginSteps,
     CreateSteps, UninstallSteps
<1>3. UndoInv'
  <2>1. ASSUME ~ late PROVE CreateInv'
    <3>1. CreateInv /\ before[2] \in Skills
      BY <1>a, <2>1 DEF PluginInv, UndoInv, TaskInv
    <3>2. skill = [before[2] EXCEPT ![task.name] = task.build] /\ before[2][task.name] = "none"
      BY <1>a, <3>1 DEF CreateInv, CreateSteps
    <3>3. skill' = before[2]
      BY <1>b, <3>1, <3>2 DEF UndoSkill, Skills
    <3> QED
      BY <1>a, <1>c, <1>d, <3>1, <3>3 DEF CreateInv, CreateSteps
  <2>2. ~ late => \A d \in documents : d \notin Updates \ todo => entry[d] = before[1][d]
    BY <1>a DEF PluginInv, UndoInv
  <2>3. FailedCommandUndone'
    BY <1>a, <1>c DEF FailedCommandUndone, PluginIdle
  <2> QED
    BY <1>a, <1>c, <1>d, <2>1, <2>2, <2>3 DEF UndoInv
<1>4. RepairInv'
  BY <1>a, <1>c, <1>e DEF PluginInv, RepairInv, Unedited, Described, Edited
<1> QED
  BY <1>1, <1>2, <1>3, <1>4 DEF PluginInv

\* The end of a command that failed.
LEMMA UndoDocumentsInv ==
  ASSUME PluginInv, UndoDocuments
  PROVE  PluginInv'
<1> DEFINE how == IF result = "replaced" THEN "replaced" ELSE "failed"
<1>a. task # NoTask /\ step = "undo-documents" /\ Underway
  BY DEF PluginInv, TaskInv, UndoDocuments, Underway
<1>b. task.name \in Names /\ task.kind \in {"create", "uninstall"}
  BY <1>a, TaskTyped DEF PluginInv
<1>c. /\ before' = before /\ documents' = documents /\ skill' = skill /\ local' = local
      /\ changes' = changes /\ late' = late /\ faults' = faults
      /\ entry' = [d \in documents |-> IF d \in Updates \ todo THEN before[1][d] ELSE entry[d]]
  BY DEF UndoDocuments, Frame
<1>d. Ends(how)
  BY DEF UndoDocuments
<1>e. /\ before[1] \in [documents -> [Names -> {"none", "managed", "foreign"}]]
      /\ before[2] \in Skills
      /\ before = <<before[1], before[2], before[3]>>
  BY SMTT(30), <1>a DEF PluginInv, TaskInv, EntryStates
<1>f. entry' \in [documents -> [Names -> {"none", "managed", "foreign"}]]
  BY <1>c, <1>e DEF PluginInv, PluginTypeOK
<1>g. ~ late => entry' = before[1]
  BY <1>a, <1>c, <1>e DEF PluginInv, UndoInv
<1>h. ~ late => /\ skill = before[2]
                /\ result # "replaced" => local = before[3]
                /\ result = "replaced" => local = LocalOf(task)
                /\ result = "replaced" => before[2][task.name] \in {"none", task.build}
  BY <1>a DEF PluginInv, UndoInv, TaskInv, CreateInv, UninstallInv
<1>1. PluginTypeOK' /\ TaskInv' /\ ~ Underway'
  <2>1. how \in {"done", "refused", "failed", "replaced", "killed"}
    OBVIOUS
  <2> HIDE DEF how
  <2> QED
    BY <1>c, <1>d, <1>f, <2>1, EndedIsTyped DEF PluginInv, PluginTypeOK, Skills, SkillStates,
       AnyLocal
<1>2. UndoInv'
  <2>1. FailedCommandUndone'
    <3> SUFFICES ASSUME result' \in {"failed", "refused"}, ~ late
                 PROVE  Parts' = before
      BY <1>c DEF FailedCommandUndone
    <3>1. result # "replaced"
      BY <1>d DEF Ends
    <3> QED
      BY <1>c, <1>e, <1>g, <1>h, <3>1 DEF Parts
  <2> QED
    BY <1>1, <2>1 DEF UndoInv
<1>3. RepairInv'
  <2> SUFFICES ASSUME changes' = 0 PROVE RepairInv'
    BY DEF RepairInv
  <2>1. /\ ~ late /\ Unedited(before[1], before[2], before[3]) /\ Unedited(entry, skill, local)
        /\ Described(before[2], before[3])
    BY <1>a, <1>c DEF PluginInv, RepairInv
  <2>2. Unedited(entry, skill, local)'
    BY <1>c, <1>g, <2>1 DEF Unedited
  <2>3. Described(skill, local)'
    <3>1. CASE result # "replaced"
      BY <1>c, <1>h, <2>1, <3>1 DEF Described
    <3>2. CASE result = "replaced"
      <4>1. faults >= 1 /\ faults \in Nat /\ task.kind = "create"
        BY SMTT(30), <1>a, <3>2 DEF PluginInv, TaskInv, PluginTypeOK
      <4>2. LocalOf(task).name = task.name /\ LocalOf(task).build = task.build
        BY DEF LocalOf
      <4> QED
        BY SMTT(30), <1>c, <1>h, <2>1, <3>2, <4>1, <4>2 DEF Described
    <3> QED
      BY <3>1, <3>2
  <2>4. aside'.skill # Edited /\ aside'.local = NoLocal
    BY <1>d DEF Ends, NoAside, Edited
  <2> QED
    BY <1>1, <1>c, <2>1, <2>2, <2>3, <2>4 DEF RepairInv
<1> QED
  BY <1>1, <1>2, <1>3 DEF PluginInv

LEMMA StageSkillInv ==
  ASSUME PluginInv, StageSkill
  PROVE  PluginInv'
<1>a. task # NoTask /\ step = "stage-skill" /\ Underway /\ Underway' /\ task.kind = "uninstall"
  BY DEF PluginInv, TaskInv, StageSkill, Underway, UninstallSteps, GoesOn
<1>b. task.name \in Names
  BY <1>a, TaskTyped DEF PluginInv
<1>c. /\ before' = before /\ documents' = documents /\ local' = local
      /\ entry' = entry /\ changes' = changes /\ late' = late /\ faults' = faults
      /\ todo' = todo /\ task' = task /\ step' = "stage-local" /\ result' = result
      /\ skill' = [skill EXCEPT ![task.name] = "none"]
  BY DEF StageSkill, GoesOn, Frame
<1>d. Updates' = Updates
  BY <1>c DEF Updates
<1>e. skill' \in Skills /\ \A n \in Names : skill'[n] \in {skill[n], "none"}
  BY <1>b, <1>c DEF PluginInv, PluginTypeOK, Skills, SkillStates
<1>f. /\ aside' \in [skill : SkillStates, local : AnyLocal]
      /\ aside'.skill = skill[task.name] /\ aside'.local = aside.local
  BY <1>b DEF PluginInv, PluginTypeOK, TaskInv, StageSkill, SkillStates
<1>1. PluginTypeOK'
  BY <1>c, <1>e DEF PluginInv, PluginTypeOK, Skills, SkillStates
<1>2. TaskInv'
  BY <1>a, <1>c, <1>d, <1>f DEF PluginInv, TaskInv, EntryStates, Skills, PluginSteps,
     CreateSteps, UninstallSteps
<1>3. UndoInv'
  <2>1. ASSUME ~ late PROVE UninstallInv'
    <3>1. UninstallInv
      BY <1>a, <2>1 DEF PluginInv, UndoInv
    <3> QED
      BY <1>a, <1>c, <1>f, <3>1 DEF UninstallInv
  <2>2. ~ late => \A d \in documents : d \notin Updates \ todo => entry[d] = before[1][d]
    BY <1>a DEF PluginInv, UndoInv
  <2>3. FailedCommandUndone'
    BY <1>a, <1>c DEF FailedCommandUndone, PluginIdle
  <2> QED
    BY <1>a, <1>c, <1>d, <2>1, <2>2, <2>3 DEF UndoInv
<1>4. RepairInv'
  BY SMTT(30), <1>a, <1>b, <1>c, <1>e, <1>f DEF PluginInv, RepairInv, Unedited, Described, Edited
<1> QED
  BY <1>1, <1>2, <1>3, <1>4 DEF PluginInv

LEMMA StageLocalInv ==
  ASSUME PluginInv, StageLocal
  PROVE  PluginInv'
<1>a. task # NoTask /\ step = "stage-local" /\ Underway /\ Underway' /\ task.kind = "uninstall"
  BY DEF PluginInv, TaskInv, StageLocal, Underway, UninstallSteps, GoesOn
<1>c. /\ before' = before /\ documents' = documents /\ local' = NoLocal /\ skill' = skill
      /\ entry' = entry /\ changes' = changes /\ late' = late /\ faults' = faults
      /\ todo' = todo /\ task' = task /\ step' = "documents" /\ result' = result
  BY DEF StageLocal, GoesOn, Frame
<1>d. Updates' = Updates
  BY <1>c DEF Updates
<1>f. /\ aside' \in [skill : SkillStates, local : AnyLocal]
      /\ aside'.skill = aside.skill /\ aside'.local = local
  BY DEF PluginInv, PluginTypeOK, TaskInv, StageLocal, AnyLocal
<1>1. PluginTypeOK'
  BY <1>c DEF PluginInv, PluginTypeOK
<1>2. TaskInv'
  BY <1>a, <1>c, <1>d, <1>f DEF PluginInv, TaskInv, EntryStates, Skills, PluginSteps,
     CreateSteps, UninstallSteps
<1>3. UndoInv'
  <2>1. ASSUME ~ late PROVE UninstallInv'
    <3>1. UninstallInv
      BY <1>a, <2>1 DEF PluginInv, UndoInv
    <3> QED
      BY <1>a, <1>c, <1>f, <3>1 DEF UninstallInv
  <2>2. ~ late => \A d \in documents : d \notin Updates \ todo => entry[d] = before[1][d]
    BY <1>a DEF PluginInv, UndoInv
  <2>3. FailedCommandUndone'
    BY <1>a, <1>c DEF FailedCommandUndone, PluginIdle
  <2> QED
    BY <1>a, <1>c, <1>d, <2>1, <2>2, <2>3 DEF UndoInv
<1>4. RepairInv'
  BY ZenonT(30), <1>a, <1>c, <1>f DEF PluginInv, RepairInv, Unedited, Described
<1> QED
  BY <1>1, <1>2, <1>3, <1>4 DEF PluginInv

LEMMA CommitRemovalInv ==
  ASSUME PluginInv, CommitRemoval
  PROVE  PluginInv'
<1>a. task # NoTask /\ step = "documents" /\ Underway /\ task.kind = "uninstall"
  BY DEF PluginInv, TaskInv, CommitRemoval, Underway
<1>c. /\ before' = before /\ documents' = documents /\ skill' = skill /\ local' = local
      /\ entry' = entry /\ changes' = changes /\ late' = late /\ faults' = faults
      /\ Ends("done")
  BY DEF CommitRemoval, Frame
<1>1. PluginTypeOK' /\ TaskInv' /\ ~ Underway'
  BY <1>c, EndedIsTyped DEF PluginInv, PluginTypeOK, Skills, SkillStates, AnyLocal
<1>2. UndoInv'
  BY <1>c, <1>1 DEF UndoInv, FailedCommandUndone, Ends
<1>3. RepairInv'
  <2> SUFFICES ASSUME changes' = 0 PROVE RepairInv'
    BY DEF RepairInv
  <2>1. ~ late /\ UninstallInv
    BY <1>a, <1>c DEF PluginInv, RepairInv, UndoInv
  <2>2. local = NoLocal
    BY <1>a, <2>1 DEF UninstallInv
  <2> QED
    BY <1>c, <1>1, <2>2 DEF PluginInv, RepairInv, Unedited, Described, Ends, NoAside, Edited
<1> QED
  BY <1>1, <1>2, <1>3 DEF PluginInv

LEMMA UninstallFailsInv ==
  ASSUME PluginInv, UninstallFails
  PROVE  PluginInv'
<1>a. /\ task # NoTask /\ step \in {"stage-skill", "stage-local", "documents"} /\ Underway
      /\ task.kind = "uninstall" /\ result = "none" /\ Underway'
  BY DEF PluginInv, TaskInv, UninstallFails, Underway, GoesOn
<1>b. task.name \in Names
  BY <1>a, TaskTyped DEF PluginInv
<1>c. /\ before' = before /\ documents' = documents
      /\ entry' = entry /\ changes' = changes /\ late' = late
      /\ todo' = todo /\ aside' = aside /\ task' = task
      /\ step' = "undo-documents" /\ result' = result
      /\ skill' = IF step = "stage-skill" THEN skill
                  ELSE [skill EXCEPT ![task.name] = aside.skill]
      /\ local' = IF step = "documents" THEN aside.local ELSE local
  BY DEF UninstallFails, RestoreStaged, GoesOn
<1>d. Updates' = Updates
  BY <1>c DEF Updates
<1>e. /\ faults \in Nat /\ faults' = faults + 1 /\ faults' \in 0..MaxFaults
  BY SMTT(30), PluginAssumption DEF PluginInv, PluginTypeOK, UninstallFails, Fault
<1>f. skill' \in Skills /\ \A n \in Names : skill'[n] \in {skill[n], aside.skill}
  BY <1>b, <1>c DEF PluginInv, PluginTypeOK, TaskInv, Skills, SkillStates
<1>1. PluginTypeOK'
  BY <1>c, <1>e, <1>f DEF PluginInv, PluginTypeOK, TaskInv, AnyLocal, Skills, SkillStates
<1>2. TaskInv'
  BY <1>a, <1>c, <1>d, <1>e DEF PluginInv, TaskInv, EntryStates, Skills, AnyLocal, PluginSteps,
     CreateSteps, UninstallSteps
<1>3. UndoInv'
  <2>1. ASSUME ~ late PROVE UninstallInv'
    <3>1. UninstallInv /\ before[2] \in Skills
      BY <1>a, <2>1 DEF PluginInv, UndoInv, TaskInv
    <3>2. skill' = before[2]
      <4>1. CASE step = "stage-skill"
        BY <1>c, <3>1, <4>1 DEF UninstallInv
      <4>2. CASE step # "stage-skill"
        <5>1. /\ skill = [before[2] EXCEPT ![task.name] = "none"]
              /\ aside.skill = before[2][task.name]
          BY <1>a, <3>1, <4>2 DEF UninstallInv
        <5> QED
          BY <1>b, <1>c, <3>1, <4>2, <5>1 DEF Skills
      <4> QED
        BY <4>1, <4>2
    <3>3. local' = before[3]
      BY <1>a, <1>c, <3>1 DEF UninstallInv
    <3> QED
      BY <1>a, <1>c, <3>1, <3>2, <3>3 DEF UninstallInv
  <2>2. ~ late => \A d \in documents : d \notin Updates \ todo => entry[d] = before[1][d]
    BY <1>a DEF PluginInv, UndoInv
  <2>3. FailedCommandUndone'
    BY <1>a, <1>c DEF FailedCommandUndone, PluginIdle
  <2> QED
    BY <1>a, <1>c, <1>d, <2>1, <2>2, <2>3 DEF UndoInv
<1>4. RepairInv'
  BY SMTT(30), <1>a, <1>c, <1>e, <1>f DEF PluginInv, RepairInv, Unedited, Described
<1> QED
  BY <1>1, <1>2, <1>3, <1>4 DEF PluginInv

LEMMA KilledInv ==
  ASSUME PluginInv, Killed
  PROVE  PluginInv'
<1>a. task # NoTask /\ step # "idle"
  BY DEF PluginInv, TaskInv, Killed, PluginIdle
<1>b. /\ task.name \in Names /\ task.kind \in {"create", "uninstall"}
      /\ task.kind = "create" => /\ task.build \in Builds
                                 /\ LocalOf(task).name = task.name
                                 /\ LocalOf(task).build = task.build
  BY <1>a, TaskTyped DEF PluginInv
<1>c. /\ before' = before /\ documents' = documents /\ local' = local
      /\ entry' = entry /\ changes' = changes /\ late' = late /\ Ends("killed")
      /\ skill' = IF step = "undo-skill" THEN [skill EXCEPT ![task.name] = PartialSkill]
                  ELSE skill
  BY DEF Killed
<1>d. /\ faults \in Nat /\ faults' = faults + 1 /\ faults' \in 0..MaxFaults
  BY SMTT(30), PluginAssumption DEF PluginInv, PluginTypeOK, Killed, Fault
<1>e. skill' \in Skills /\ \A n \in Names : skill'[n] \in {skill[n], PartialSkill}
  BY <1>b, <1>c DEF PluginInv, PluginTypeOK, Skills, SkillStates
<1>1. PluginTypeOK' /\ TaskInv' /\ ~ Underway'
  BY <1>c, <1>d, <1>e, EndedIsTyped DEF PluginInv, PluginTypeOK, Skills, AnyLocal
<1>2. UndoInv'
  BY <1>c, <1>1 DEF UndoInv, FailedCommandUndone, Ends
<1>3. RepairInv'
  <2> SUFFICES ASSUME changes' = 0 PROVE RepairInv'
    BY DEF RepairInv
  <2>1. ~ late /\ Unedited(entry, skill, local)
    BY <1>c DEF PluginInv, RepairInv
  <2>2. Unedited(entry, skill, local)'
    BY <1>c, <1>e, <2>1 DEF Unedited, Edited, PartialSkill
  <2>3. ASSUME faults = 0, local # NoLocal
        PROVE  skill'[local.name] \in {"none", local.build}
    <3>1. CASE ~ Underway
      BY <1>a, <1>c, <2>3, <3>1 DEF PluginInv, RepairInv, Described, Underway
    <3>2. CASE Underway
      <4>1. /\ before[2] \in Skills /\ before[3] \in AnyLocal /\ result # "replaced"
            /\ before[3] # NoLocal => before[2][before[3].name] = before[3].build
        BY SMTT(30), <1>a, <1>c, <2>3, <3>2 DEF PluginInv, RepairInv, TaskInv, Described
      <4>2. before[3] # NoLocal => before[3].name \in Names /\ before[3].build \in Builds
        BY <4>1 DEF AnyLocal, Locals
      <4>3. CASE task.kind = "create"
        <5>1. CreateInv
          BY <2>1, <3>2, <4>3 DEF PluginInv, UndoInv
        <5>2. CASE step \in {"documents", "undo-documents"}
          BY <1>c, <2>3, <4>1, <5>1, <5>2 DEF CreateInv
        <5>3. CASE step = "discard"
          <6>1. local = LocalOf(task) /\ skill[task.name] = task.build
            BY <1>b, <4>1, <5>1, <5>3 DEF CreateInv, CreateSteps, Skills
          <6> QED
            BY <1>b, <1>c, <4>3, <5>3, <6>1
        <5>4. CASE step \in {"local", "undo-skill"}
          <6>1. /\ local = before[3]
                /\ skill = [before[2] EXCEPT ![task.name] = task.build]
                /\ before[2][task.name] \in {"none", task.build}
                /\ step = "undo-skill" => before[2][task.name] = "none"
            BY <4>1, <5>1, <5>4 DEF CreateInv, CreateSteps
          <6>2. step = "undo-skill" => local.name # task.name
            BY <2>3, <4>1, <4>2, <6>1, PluginAssumption
          <6> QED
            BY <1>b, <1>c, <2>3, <4>1, <4>2, <5>4, <6>1, <6>2, PluginAssumption DEF Skills
        <5>5. CASE step = "replace"
          BY <2>3, <5>1, <5>5 DEF CreateInv
        <5> QED
          BY <3>2, <4>3, <5>2, <5>3, <5>4, <5>5 DEF PluginInv, TaskInv, PluginSteps, CreateSteps,
             UninstallSteps, Underway
      <4>4. CASE task.kind = "uninstall"
        <5>1. UninstallInv
          BY <2>1, <3>2, <4>4 DEF PluginInv, UndoInv
        <5>2. step # "undo-skill" /\ step \notin CreateSteps
          BY <4>4 DEF PluginInv, TaskInv, CreateSteps
        <5>3. CASE step \in {"stage-skill", "undo-documents"}
          BY <1>c, <2>3, <4>1, <5>1, <5>2, <5>3 DEF UninstallInv
        <5>4. CASE step = "stage-local"
          BY <1>b, <1>c, <2>3, <4>1, <5>1, <5>4 DEF UninstallInv, Skills
        <5>5. CASE step = "documents"
          BY <2>3, <5>1, <5>5 DEF UninstallInv
        <5> QED
          BY <3>2, <5>2, <5>3, <5>4, <5>5 DEF PluginInv, TaskInv, PluginSteps, UninstallSteps,
             Underway
      <4> QED
        BY <1>b, <4>3, <4>4
    <3> QED
      BY <3>1, <3>2
  <2>4. Described(skill, local)'
    BY SMTT(30), <1>c, <1>d, <2>3 DEF Described
  <2>5. aside'.skill # Edited /\ aside'.local = NoLocal
    BY <1>c DEF Ends, NoAside, Edited
  <2> QED
    BY <1>1, <1>c, <2>1, <2>2, <2>4, <2>5 DEF RepairInv
<1> QED
  BY <1>1, <1>2, <1>3 DEF PluginInv

LEMMA OwnerChangeInv ==
  ASSUME PluginInv, OwnerChange
  PROVE  PluginInv'
<1>a. /\ documents' = documents /\ task' = task /\ step' = step /\ todo' = todo
      /\ before' = before /\ aside' = aside /\ faults' = faults
      /\ (Underway' <=> Underway) /\ Updates' = Updates
      /\ late' = (task # NoTask /\ step # "check")
      /\ result' = IF task = NoTask THEN "none" ELSE result
  BY DEF OwnerChange, Underway, Updates, PluginIdle
<1>b. changes \in Nat /\ changes' = changes + 1 /\ changes' \in 0..MaxChanges
  BY SMTT(30), PluginAssumption DEF PluginInv, PluginTypeOK, OwnerChange
<1>c. /\ entry' \in [documents -> [Names -> {"none", "managed", "foreign"}]]
      /\ skill' \in Skills /\ local' \in AnyLocal
  <2>1. CASE \E n \in Names : /\ skill[n] \in Builds
                              /\ skill' = [skill EXCEPT ![n] = Edited]
                              /\ UNCHANGED <<entry, local>>
    BY <2>1 DEF PluginInv, PluginTypeOK, Skills, SkillStates, AnyLocal
  <2>2. CASE /\ local # NoLocal
             /\ local' = [local EXCEPT !.intact = FALSE]
             /\ UNCHANGED <<entry, skill>>
    BY <2>2 DEF PluginInv, PluginTypeOK, Skills, SkillStates, AnyLocal, Locals
  <2>3. CASE \E d \in documents, n \in Names :
               /\ entry' = [entry EXCEPT ![d][n] = "foreign"]
               /\ UNCHANGED <<skill, local>>
    <3>1. PICK d \in documents, n \in Names :
               /\ entry' = [entry EXCEPT ![d][n] = "foreign"]
               /\ UNCHANGED <<skill, local>>
      BY <2>3
    <3>2. [entry[d] EXCEPT ![n] = "foreign"] \in [Names -> {"none", "managed", "foreign"}]
      BY DEF PluginInv, PluginTypeOK
    <3> QED
      BY <3>1, <3>2 DEF PluginInv, PluginTypeOK, Skills, SkillStates, AnyLocal
  <2> QED
    BY <2>1, <2>2, <2>3 DEF OwnerChange
<1>1. PluginTypeOK'
  BY <1>a, <1>b, <1>c DEF PluginInv, PluginTypeOK, Skills, SkillStates, AnyLocal
<1>2. TaskInv'
  BY <1>a DEF PluginInv, TaskInv, EntryStates, Skills, AnyLocal
<1>3. UndoInv'
  BY <1>a DEF PluginInv, TaskInv, UndoInv, Underway, FailedCommandUndone, PluginIdle
<1>4. RepairInv'
  BY SMTT(30), <1>b DEF RepairInv
<1> QED
  BY <1>1, <1>2, <1>3, <1>4 DEF PluginInv

LEMMA PluginStutters ==
  ASSUME PluginInv, UNCHANGED pluginVars
  PROVE  PluginInv'
<1>a. (Underway' <=> Underway) /\ Updates' = Updates
  BY DEF pluginVars, Underway, Updates
<1>1. PluginTypeOK'
  BY DEF PluginInv, PluginTypeOK, pluginVars
<1>2. TaskInv'
  BY <1>a DEF PluginInv, TaskInv, pluginVars, EntryStates, Skills, AnyLocal
<1>3. UndoInv'
  <2>1. /\ task' = task /\ step' = step /\ todo' = todo /\ before' = before /\ aside' = aside
        /\ result' = result /\ late' = late /\ documents' = documents /\ entry' = entry
        /\ skill' = skill /\ local' = local
    BY DEF pluginVars
  <2>2. (CreateInv' <=> CreateInv) /\ (UninstallInv' <=> UninstallInv)
    BY <2>1 DEF CreateInv, UninstallInv, LocalOf
  <2>3. FailedCommandUndone' <=> FailedCommandUndone
    BY <2>1 DEF FailedCommandUndone, PluginIdle, Parts
  <2> QED
    BY <1>a, <2>1, <2>2, <2>3 DEF PluginInv, UndoInv
<1>4. RepairInv'
  BY ZenonT(30), <1>a DEF PluginInv, RepairInv, Unedited, Described, pluginVars
<1> QED
  BY <1>1, <1>2, <1>3, <1>4 DEF PluginInv

LEMMA PluginInvKept == PluginInv /\ [PluginNext]_pluginVars => PluginInv'
BY StartInv, CheckCreateInv, CheckUninstallInv, ApplyDocumentInv, WriteSkillInv, CreateFailsInv,
   WriteLocalInv, ReplaceLocalInv, DiscardPreviousInv, LocalFailsInv, UndoSkillInv,
   UndoDocumentsInv, StageSkillInv, StageLocalInv, CommitRemovalInv, UninstallFailsInv, KilledInv,
   OwnerChangeInv, PluginStutters DEF PluginNext

\* A command touches a skill only when its check has found the build that it renders or
\* that the receipt names.
LEMMA EditedSkillUntouched ==
  ASSUME PluginInv, [PluginNext]_pluginVars, NEW n \in Names, skill[n] = Edited, ~ late
  PROVE  skill'[n] = Edited
<1>1. CASE UNCHANGED skill
  BY <1>1
<1>2. CASE WriteSkill
  <2>1. task # NoTask /\ step = "documents" /\ task.kind = "create" /\ Underway
    BY <1>2 DEF WriteSkill, PluginInv, TaskInv, Underway
  <2>2. CreateInv
    BY <2>1 DEF PluginInv, UndoInv
  <2>3. skill = before[2] /\ skill \in Skills
    BY <2>1, <2>2 DEF CreateInv, PluginInv, PluginTypeOK, Skills, SkillStates
  <2>4. n = task.name => before[2][task.name] # "none"
    BY <2>3 DEF Edited
  <2> QED
    BY <1>2, <2>3, <2>4 DEF WriteSkill, Skills
<1>3. CASE step = "undo-skill" /\ (UndoSkill \/ Killed)
  <2>1. task # NoTask /\ task.kind = "create" /\ Underway
    BY <1>3 DEF PluginInv, TaskInv, Underway, CreateSteps
  <2>2. CreateInv /\ before[2] \in Skills /\ task.build \in Builds /\ task.name \in Names
    BY <2>1, TaskTyped DEF PluginInv, UndoInv, TaskInv
  <2>3. skill[task.name] = task.build
    BY <1>3, <2>2 DEF CreateInv, CreateSteps, Skills
  <2>4. n # task.name
    BY <2>2, <2>3, PluginAssumption
  <2> QED
    BY <1>3, <2>4 DEF UndoSkill, Killed, PluginInv, PluginTypeOK
<1>4. CASE StageSkill \/ (UninstallFails /\ step # "stage-skill")
  <2>1. /\ task # NoTask /\ task.kind = "uninstall" /\ Underway
        /\ step \in {"stage-skill", "stage-local", "documents"}
        /\ StageSkill => step = "stage-skill"
    BY <1>4 DEF PluginInv, TaskInv, Underway, UninstallSteps, StageSkill, UninstallFails
  <2>2. UninstallInv /\ before[2] \in Skills /\ before[3] \in Locals /\ task.name \in Names
    BY <2>1, TaskTyped DEF PluginInv, UndoInv, TaskInv
  <2>3. skill[task.name] # Edited
    <3>1. CASE step = "stage-skill"
      <4>1. skill[task.name] \in Builds
        BY <2>2, <3>1 DEF UninstallInv, Locals
      <4> QED
        BY <4>1, PluginAssumption
    <3>2. CASE step # "stage-skill"
      BY <2>1, <2>2, <3>2 DEF UninstallInv, Skills, Edited
    <3> QED
      BY <3>1, <3>2
  <2> QED
    BY <1>4, <2>2, <2>3 DEF StageSkill, UninstallFails, RestoreStaged, PluginInv, PluginTypeOK
<1>5. CASE OwnerChange
  BY <1>5 DEF OwnerChange, PluginInv, PluginTypeOK
<1> QED
  <2>1. (\E c \in Tasks : StartTask(c)) => UNCHANGED skill
    BY DEF StartTask
  <2>2. /\ ApplyDocument => UNCHANGED skill
        /\ UndoDocuments => UNCHANGED skill
        /\ CheckCreate => UNCHANGED skill
        /\ CheckUninstall => UNCHANGED skill
        /\ CreateFails => UNCHANGED skill
        /\ WriteLocal => UNCHANGED skill
        /\ ReplaceLocal => UNCHANGED skill
        /\ DiscardPrevious => UNCHANGED skill
        /\ LocalFails => UNCHANGED skill
        /\ StageLocal => UNCHANGED skill
        /\ CommitRemoval => UNCHANGED skill
    BY DEF ApplyDocument, UndoDocuments, CheckCreate, CheckUninstall, CreateFails, WriteLocal,
           ReplaceLocal, DiscardPrevious, LocalFails, StageLocal, CommitRemoval
  <2>3. /\ Killed /\ step # "undo-skill" => UNCHANGED skill
        /\ UndoSkill => step = "undo-skill"
        /\ UninstallFails /\ step = "stage-skill" => UNCHANGED skill
    BY DEF Killed, UndoSkill, UninstallFails, RestoreStaged
  <2>4. UNCHANGED pluginVars => UNCHANGED skill
    BY DEF pluginVars
  <2> QED
    BY <1>1, <1>2, <1>3, <1>4, <1>5, <2>1, <2>2, <2>3, <2>4 DEF PluginNext

\* For any names, builds and databases and any number of failing file operations, kills and
\* changes by the owner: a command that fails or is refused has put back everything it had
\* changed, and none overwrites a skill the owner has changed before it was verified
\* (install_composed_integration, uninstall_composed_integration).
THEOREM FailuresChangeNothing == PluginSpec => FailureChangesNothing
<1>1. PluginInv => PluginTypeOK /\ FailedCommandUndone
  BY DEF PluginInv, UndoInv
<1>2. PluginInv /\ [PluginNext]_pluginVars =>
        [\A n \in Names : (skill[n] = Edited /\ ~ late) => skill'[n] = Edited]_pluginVars
  BY EditedSkillUntouched
<1> QED
  BY PluginStarts, PluginInvKept, <1>1, <1>2, PTL
  DEF PluginSpec, FailureChangesNothing, EditedSkillKept

\* In an idle plugin that its owner has not changed, a create is accepted.
LEMMA RepairFollows == PluginInv => RepairAccepted
<1> SUFFICES ASSUME PluginInv, PluginIdle, changes = 0
             PROVE  /\ \A n \in Names : skill[n] # PartialSkill => Recreatable(n)
                    /\ local # NoLocal /\ faults <= 1 =>
                         \E c \in Creates : LocalOf(c) = local /\ ~ c.replace /\ CreateAccepts(c)
  BY DEF RepairAccepted
<1>1. Unedited(entry, skill, local) /\ Described(skill, local)
  BY DEF PluginInv, TaskInv, RepairInv, PluginIdle, Underway
<1>2. skill \in [Names -> Builds \cup {"none", Edited, PartialSkill}] /\ local \in AnyLocal
      /\ faults \in Nat
  BY SMTT(30) DEF PluginInv, PluginTypeOK, AnyLocal
<1>3. ASSUME NEW n \in Names, skill[n] # PartialSkill
      PROVE  Recreatable(n)
  <2>1. PICK b \in Builds : skill[n] \in {"none", b}
    BY <1>1, <1>2, <1>3, PluginAssumption DEF Unedited
  <2>2. PICK d \in Databases : TRUE
    BY PluginAssumption
  <2> DEFINE c == [kind |-> "create", name |-> n, build |-> b, database |-> d, replace |-> TRUE]
  <2>3. c \in Creates /\ c.name = n /\ c.build = b /\ c.replace
    BY DEF Creates
  <2> HIDE DEF c
  <2>4. CreateAccepts(c) /\ LocalAccepts(c)
    BY <1>1, <2>1, <2>3 DEF CreateAccepts, LocalAccepts, Unedited
  <2> QED
    BY <2>3, <2>4 DEF Recreatable
<1>4. ASSUME local # NoLocal, faults <= 1
      PROVE  \E c \in Creates : LocalOf(c) = local /\ ~ c.replace /\ CreateAccepts(c)
  <2> DEFINE c == [kind |-> "create", name |-> local.name, build |-> local.build,
                   database |-> local.database, replace |-> FALSE]
  <2>1. local \in Locals /\ local.intact /\ local.documents = documents
    BY <1>1, <1>2, <1>4 DEF AnyLocal, Unedited
  <2>2. /\ c \in Creates /\ c.name = local.name /\ c.build = local.build
        /\ c.database = local.database /\ ~ c.replace /\ local.name \in Names
    BY <2>1 DEF Creates, Locals
  <2> HIDE DEF c
  <2>3. LocalOf(c) = local
    BY <2>1, <2>2 DEF LocalOf, Locals
  <2>4. CreateAccepts(c)
    BY <1>1, <1>2, <1>4, <2>2 DEF CreateAccepts, Unedited, Described
  <2> QED
    BY <2>2, <2>3, <2>4
<1> QED
  BY <1>3, <1>4

\* For any names, builds and databases and any number of failures and kills: what they
\* leave in a plugin that its owner does not change never locks the owner out
\* (install_composed_integration, verify_existing, write_local_binding).
THEOREM RepairStaysAccepted == PluginSpec => []RepairAccepted
BY PluginStarts, PluginInvKept, RepairFollows, PTL DEF PluginSpec

=============================================================================
