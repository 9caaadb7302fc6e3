---------------------------- MODULE ManifestEdit ----------------------------
(***************************************************************************)
(* Editing a workspace manifest: preview, comparison, backup and atomic    *)
(* replacement, by command-line processes that take no lock, by            *)
(* administrative MCP calls that hold the writer lock, and by people with  *)
(* an editor.                                                              *)
(*                                                                         *)
(* The content of a manifest is the set of entries it declares; each       *)
(* editor adds or removes the entry of its own.  Two contents have the     *)
(* same hash iff they are equal.                                           *)
(***************************************************************************)
EXTENDS Naturals, FiniteSets

CONSTANTS
  Editors,       \* processes that edit
  Admins,        \* those that hold the writer lock
  Entries,
  EntryOf,       \* the repository or link each editor edits
  MaxBackups,    \* backup names: 10,000
  Unwritten      \* no file, no content

ASSUME ManifestEditAssumption ==
  /\ Admins \subseteq Editors
  /\ EntryOf \in [Editors -> Entries]
  /\ MaxBackups \in Nat
  /\ Unwritten \notin Editors

VARIABLES
  file,          \* the manifest
  backups,       \* the backup files, by sequence number
  editor,        \* what each editor is about to do, and its locals
  writerLock,    \* the admin that holds the writer lock
  applied,       \* history: entries added by edits that were reported applied
                 \* and that nobody has removed since
  raced          \* history: somebody wrote the manifest without the lock, or
                 \* past somebody without it, after the other's comparison

editVars == <<file, backups, editor, writerLock, applied, raced>>

NoEdit == [step |-> "start", base |-> Unwritten, updated |-> Unwritten,
           backup |-> 0]

Become(p, e) == editor' = [editor EXCEPT ![p] = e]

EditInit ==
  /\ file \in SUBSET Entries
  /\ backups = [n \in 1 .. MaxBackups |-> Unwritten]
  /\ editor = [p \in Editors |-> NoEdit]
  /\ writerLock = Unwritten
  /\ applied = {}
  /\ raced = FALSE

-----------------------------------------------------------------------------
LockIsFree(p) == writerLock = Unwritten

LockForEdit(p) ==
  /\ p \in Admins
  /\ editor[p].step = "start"
  /\ LockIsFree(p)
  /\ writerLock' = p
  /\ Become(p, [editor[p] EXCEPT !.step = "read"])
  /\ UNCHANGED <<file, backups, applied, raced>>

\* The command line edits without the lock.
StartEdit(p) ==
  /\ p \notin Admins
  /\ editor[p].step = "start"
  /\ Become(p, [editor[p] EXCEPT !.step = "read"])
  /\ UNCHANGED <<file, backups, writerLock, applied, raced>>

Finish(p, step) ==
  /\ Become(p, [NoEdit EXCEPT !.step = step])
  /\ writerLock' = IF writerLock = p THEN Unwritten ELSE writerLock

\* Mutant: the rest of the manifest is dropped.
OnlyEntry(p) == {EntryOf[p]}

\* The entry is inserted at the end of its section.
WithEntry(p) == file \cup {EntryOf[p]}

\* preview_add_repository and preview_add_manual_link refuse an entry that is
\* there, preview_remove_repository one that is not.  A removal that leaves no
\* repository makes the manifest invalid.
Preview(p) ==
  /\ editor[p].step = "read"
  /\ \/ /\ EntryOf[p] \notin file
        /\ Become(p, [editor[p] EXCEPT !.step = "compare", !.base = file,
                        !.updated = WithEntry(p)])
        /\ UNCHANGED writerLock
     \/ /\ EntryOf[p] \in file /\ file # {EntryOf[p]}
        /\ Become(p, [editor[p] EXCEPT !.step = "compare", !.base = file,
                        !.updated = file \ {EntryOf[p]}])
        /\ UNCHANGED writerLock
     \/ Finish(p, "refused")
  /\ UNCHANGED <<file, backups, applied, raced>>

\* The hash of what is there now against the hash of what was previewed.
Unchanged(p) == file = editor[p].base

Compare(p) ==
  /\ editor[p].step = "compare"
  /\ IF Unchanged(p)
     THEN Become(p, [editor[p] EXCEPT !.step = "name"]) /\ UNCHANGED writerLock
     ELSE Finish(p, "refused")
  /\ UNCHANGED <<file, backups, applied, raced>>

\* next_backup_path: the first name that is free.
NextBackup(n) ==
  /\ backups[n] = Unwritten
  /\ \A k \in 1 .. n - 1 : backups[k] # Unwritten

NameBackup(p) ==
  /\ editor[p].step = "name"
  /\ \/ \E n \in 1 .. MaxBackups :
          /\ NextBackup(n)
          /\ Become(p, [editor[p] EXCEPT !.step = "copy", !.backup = n])
          /\ UNCHANGED writerLock
     \/ /\ \A n \in 1 .. MaxBackups : backups[n] # Unwritten
        /\ Finish(p, "refused")
  /\ UNCHANGED <<file, backups, applied, raced>>

\* create_new: fails when somebody took the name meanwhile.
CreatesNew(p) == backups[editor[p].backup] = Unwritten

\* copy_new_file copies what the manifest holds by now.
CopyBackup(p) ==
  /\ editor[p].step = "copy"
  /\ IF CreatesNew(p)
     THEN /\ backups' = [backups EXCEPT ![editor[p].backup] = file]
          /\ Become(p, [editor[p] EXCEPT !.step = "replace"])
          /\ UNCHANGED writerLock
     ELSE /\ Finish(p, "refused")
          /\ UNCHANGED backups
  /\ UNCHANGED <<file, applied, raced>>

\* The editors other than p that have compared and not yet replaced.
Committing(p) ==
  {q \in Editors \ {p} : editor[q].step \in {"name", "copy", "replace"}}

\* AtomicWriteFile::commit renames the new content over the manifest.
Replace(p) ==
  /\ editor[p].step = "replace"
  /\ file' = editor[p].updated
  /\ applied' = IF EntryOf[p] \in editor[p].updated
                THEN applied \cup {EntryOf[p]} ELSE applied \ {EntryOf[p]}
  /\ raced' = (raced \/ \E q \in Committing(p) : {p, q} \ Admins # {})
  /\ Finish(p, "applied")
  /\ UNCHANGED backups

\* The process ends or an I/O operation fails: the manifest is as it was, a
\* backup stays.
Abandon(p) ==
  /\ editor[p].step \in {"read", "compare", "name", "copy", "replace"}
  /\ Finish(p, "refused")
  /\ UNCHANGED <<file, backups, applied, raced>>

\* The next edit of the same process or of a new one.
AgainEdit(p) ==
  /\ editor[p].step \in {"applied", "refused"}
  /\ Become(p, NoEdit)
  /\ UNCHANGED <<file, backups, writerLock, applied, raced>>

\* A person saves the manifest: their content counts, whatever was there.
PersonSaves ==
  /\ \E content \in (SUBSET Entries) \ {file} :
       /\ file' = content
       /\ applied' = applied \cap content
  /\ raced' = (raced \/ Committing(Unwritten) # {})
  /\ UNCHANGED <<backups, editor, writerLock>>

EditNext ==
  \/ \E p \in Editors :
       \/ LockForEdit(p) \/ StartEdit(p) \/ Preview(p) \/ Compare(p)
       \/ NameBackup(p) \/ CopyBackup(p) \/ Replace(p) \/ Abandon(p)
       \/ AgainEdit(p)
  \/ PersonSaves

EditSpec == EditInit /\ [][EditNext]_editVars

-----------------------------------------------------------------------------
Contents == SUBSET Entries

Edits ==
  [step : {"start", "read", "compare", "name", "copy", "replace", "applied",
           "refused"},
   base : Contents \cup {Unwritten}, updated : Contents \cup {Unwritten},
   backup : 0 .. MaxBackups]

EditTypeOK ==
  /\ file \in Contents
  /\ backups \in [1 .. MaxBackups -> Contents \cup {Unwritten}]
  /\ editor \in [Editors -> Edits]
  /\ \A p \in Editors :
       editor[p].step \in {"copy", "replace"} => editor[p].backup \in 1 .. MaxBackups
  /\ writerLock \in Admins \cup {Unwritten}
  /\ applied \subseteq Entries
  /\ raced \in BOOLEAN

\* An entry whose edit was reported applied stays in the manifest until
\* somebody takes it out, unless a writer without the lock came between the
\* comparison and the replacement of another (commit_manifest_edit, and the
\* writer lock in run_workspace_update and run_manual_link_write).
AppliedKeptUnlessRaced == ~raced => applied \subseteq file

\* "Non-overwriting backup of the previous manifest": a backup once written is
\* never written again, whoever picked the same free name.
BackupsKept ==
  [][\A n \in 1 .. MaxBackups :
       backups[n] # Unwritten => backups'[n] = backups[n]]_editVars

\* What a commit overwrites is what its preview was made from, and the backup
\* it took holds it, unless a writer without the lock came in between.
OverwrittenIsSaved ==
  ~raced => \A p \in Editors :
    editor[p].step = "replace" =>
      /\ file = editor[p].base
      /\ backups[editor[p].backup] = file

(* An edit reported as applied is in the manifest, the text that it replaced is
   in a backup, and no backup is ever overwritten. *)
EditsAreKept ==
  /\ [](EditTypeOK /\ AppliedKeptUnlessRaced /\ OverwrittenIsSaved)
  /\ BackupsKept

\* "Commits a preview with backup, concurrent-change detection, and atomic
\* replacement": an edit reported applied is there until somebody takes it out.
AppliedEditsKept == applied \subseteq file
=============================================================================
