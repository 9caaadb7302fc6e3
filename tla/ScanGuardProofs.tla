--------------------------- MODULE ScanGuardProofs ---------------------------
(***************************************************************************)
(* Proofs about the parts that decide whether a scan may write, which      *)
(* watcher is in charge, how long an extraction may go on, which file is   *)
(* extracted again, and what the manifest and the deployments decide.      *)
(*                                                                         *)
(* WorkSidecar, for any number of watchers: a call works in a file bound   *)
(* to the identity it read, because a process that claimed a file is the   *)
(* only one to bind it and finds it unbound (SidecarInv).  The theorem     *)
(* follows below, where the facts about finite sets come in.               *)
(*                                                                         *)
(* StoreLock, for any number of threads and processes: the writer lock is  *)
(* exclusive outside the two windows of recovery (IInv).                   *)
(*                                                                         *)
(* ExtractionBudget, for every value of the maxima and of the sampling     *)
(* block.  PromptRefusal is not inductive: whether the next unit is        *)
(* sampled depends on sampled_units, which it does not mention.  BudgetInv *)
(* adds that the sample is never ahead of the units nor a block behind     *)
(* them, that it is zero only while no unit was accepted, and that it was  *)
(* taken while the stage was in time.                                      *)
(*                                                                         *)
(* FileStats: the stat cache never serves a stale hash, for every          *)
(* resolution of the file system up to the window, when rows are recorded  *)
(* for files whose change time is older than the window as well.           *)
(*                                                                         *)
(* ManualLinks, for any nodes, declarations and automatic edges: accepted  *)
(* declarations have decided exactly the edges they mean.  LinkInv says    *)
(* what those applied so far have done; it needs that each is resolved to  *)
(* a relationship of its own, and that the order of application always has *)
(* a first declaration.  RouteLinks: the repository inferred for a host.   *)
(***************************************************************************)
EXTENDS WorkSidecar, StoreLock, ExtractionBudget, FileStats, ManualLinks, RouteLinks, TLAPS

\* Zenon finds the steps that name no other prover.
USE Zenon

-----------------------------------------------------------------------------
(***************************************************************************)
(* The sidecar                                                             *)
(***************************************************************************)
\* The steps of an open sidecar.
Opened == {"version", "claim", "bind", "check", "remove", "ready"}

\* What is known of the files the processes have open.
BindingInv ==
  \A p \in Watchers :
    /\ proc[p].state # "alive" => proc[p].file = 0 /\ proc[p].step = "idle"
    /\ proc[p].step \in Opened => proc[p].file # 0
    /\ proc[p].step # "idle" => proc[p].id \in Instances
    /\ proc[p].step = "bind" =>
         /\ files[proc[p].file].version
         /\ files[proc[p].file].bound = Unset
         /\ \A q \in Watchers : q # p /\ proc[q].step = "bind" =>
              proc[q].file # proc[p].file

\* A file is bound only after its version was written.
UnclaimedInv ==
  \A f \in SidecarFiles : ~files[f].version => files[f].bound = Unset

\* The inductive invariant of the sidecar.
SidecarInv == SidecarTypeOK /\ ReadyIsBound /\ BindingInv /\ UnclaimedInv

-----------------------------------------------------------------------------
ProcessRecords ==
  [state : {"new", "alive", "gone"}, watching : BOOLEAN,
   call : {"start", "heartbeat", "finish"},
   step : {"idle", "exists", "create", "connect", "version", "claim",
           "bind", "check", "remove", "ready"},
   id : Instances \cup {Unset}, file : SidecarFiles \cup {0},
   again : BOOLEAN]

FileRecords ==
  [version : BOOLEAN, bound : Instances \cup {Unset}, lease : Leases]

\* There are more files than processes, so AddFile finds one that no process
\* has open (proved as FilesSuffice).
MoreFiles ==
  \A open \in [Watchers -> SidecarFiles \cup {0}] :
    \E f \in SidecarFiles : \A p \in Watchers : open[p] # f

LEMMA FileIsFree ==
  ASSUME MoreFiles, SidecarTypeOK
  PROVE  \E f \in SidecarFiles : \A p \in Watchers : proc[p].file # f
<1> DEFINE open == [p \in Watchers |-> proc[p].file]
<1>1. open \in [Watchers -> SidecarFiles \cup {0}]
  BY DEF SidecarTypeOK
<1>2. PICK f \in SidecarFiles : \A p \in Watchers : open[p] # f
  BY <1>1 DEF MoreFiles
<1> QED
  BY <1>2

LEMMA FileIsAdded ==
  ASSUME MoreFiles, SidecarTypeOK, AddFile
  PROVE  \E new \in SidecarFiles :
           /\ \A p \in Watchers : proc[p].file # new
           /\ path' = new
           /\ files' = [files EXCEPT ![new] = NewFile]
BY FileIsFree DEF AddFile

\* What a process may become, given the files.
Sound(n, contents) ==
  /\ n \in ProcessRecords
  /\ n.state # "alive" => n.file = 0 /\ n.step = "idle"
  /\ n.step \in Opened => n.file # 0
  /\ n.step # "idle" => n.id \in Instances
  /\ n.step = "ready" => contents[n.file].bound = n.id

\* A step of one process: what it becomes is sound, and the files that others
\* bind or use keep their version and binding.
LEMMA ProcessKeeps ==
  ASSUME SidecarInv,
         NEW p \in Watchers, NEW n,
         Sound(n, files'),
         n.step = "bind" =>
           /\ files'[n.file].version
           /\ files'[n.file].bound = Unset
           /\ \A q \in Watchers : q # p /\ proc[q].step = "bind" =>
                proc[q].file # n.file,
         proc' = [proc EXCEPT ![p] = n],
         files' \in [SidecarFiles -> FileRecords],
         \A q \in Watchers : q # p /\ proc[q].step \in {"bind", "ready"} =>
           /\ files'[proc[q].file].version = files[proc[q].file].version
           /\ files'[proc[q].file].bound = files[proc[q].file].bound,
         UnclaimedInv',
         instance' \in Instances,
         path' \in SidecarFiles \cup {0}
  PROVE  SidecarInv'
<1>1. proc' \in [Watchers -> ProcessRecords] /\ proc \in [Watchers -> ProcessRecords]
  BY DEF SidecarInv, SidecarTypeOK, ProcessRecords, Sound
<1>2. proc'[p] = n /\ \A q \in Watchers : q # p => proc'[q] = proc[q]
  BY <1>1
<1>3. SidecarTypeOK'
  BY <1>1 DEF SidecarInv, SidecarTypeOK, ProcessRecords, FileRecords
<1>4. ReadyIsBound'
  BY SMTT(30), <1>1, <1>2 DEF SidecarInv, ReadyIsBound, ProcAt, Sound
<1>5. BindingInv'
  <2> SUFFICES ASSUME NEW q \in Watchers
               PROVE  BindingInv!(q)'
    BY DEF BindingInv
  <2>1. CASE q = p
    BY SMTT(30), <1>2, <2>1 DEF Sound
  <2>2. CASE q # p
    BY SMTT(30), <1>1, <1>2, <2>2 DEF SidecarInv, BindingInv, Sound
  <2> QED
    BY <2>1, <2>2
<1> QED
  BY <1>3, <1>4, <1>5 DEF SidecarInv

\* The step when no file changes its version or its binding.
LEMMA ProcessGoesOn ==
  ASSUME SidecarInv,
         NEW p \in Watchers, NEW n,
         Sound(n, files), n.step # "bind",
         proc' = [proc EXCEPT ![p] = n],
         files' \in [SidecarFiles -> FileRecords],
         \A f \in SidecarFiles :
           files'[f].version = files[f].version /\ files'[f].bound = files[f].bound,
         instance' \in Instances,
         path' \in SidecarFiles \cup {0}
  PROVE  SidecarInv'
<1>1. UnclaimedInv'
  BY DEF SidecarInv, UnclaimedInv
<1>2. n.step \in Opened => n.file \in SidecarFiles
  BY DEF Sound, ProcessRecords
<1>3. Sound(n, files')
  BY <1>2 DEF Sound, Opened
<1>4. \A q \in Watchers : proc[q].step \in {"bind", "ready"} =>
        proc[q].file \in SidecarFiles
  BY DEF SidecarInv, SidecarTypeOK, BindingInv, Opened
<1> QED
  BY <1>1, <1>3, <1>4, ProcessKeeps

\* The process after a failure, or at the end of a call.
LEMMA EndsAreSound ==
  /\ Sound(Exited, files)
  /\ \A call \in {"start", "heartbeat", "finish"}, watching \in BOOLEAN :
       Sound(Closed(call, watching), files)
  /\ \A p \in Watchers : Sound(Failed(p), files) /\ Failed(p).step = "idle"
BY SMTT(30), ZenonT(30) DEF Sound, Exited, Closed, Failed, NotStarted, ProcessRecords, Opened

\* One step of a process, by the part of WorkState::open it is in.
LEMMA OpeningKeeps ==
  ASSUME SidecarInv, NEW p \in Watchers,
         \/ Launch(p) \/ Crash(p) \/ BeginFinish(p) \/ BeginCall(p) \/ FileExists(p)
         \/ ReadVersion(p) \/ CheckInstance(p) \/ RemoveSidecarFiles(p)
  PROVE  SidecarInv'
<1>1. /\ proc \in [Watchers -> ProcessRecords] /\ proc[p] \in ProcessRecords
      /\ files \in [SidecarFiles -> FileRecords]
      /\ instance \in Instances /\ path \in SidecarFiles \cup {0}
  BY DEF SidecarInv, SidecarTypeOK, ProcessRecords, FileRecords
<1>2. BindingInv!(p) /\ (ProcAt(p, "ready") => files[proc[p].file].bound = proc[p].id)
  BY DEF SidecarInv, BindingInv, ReadyIsBound
<1>3. ASSUME NEW n, Sound(n, files), n.step # "bind",
             proc' = [proc EXCEPT ![p] = n],
             files' = files, instance' = instance, path' \in {path, 0}
      PROVE  SidecarInv'
  BY <1>1, <1>3, ProcessGoesOn
<1>4. CASE Launch(p)
  <2> DEFINE n == [proc[p] EXCEPT !.state = "alive"]
  <2>1. Sound(n, files) /\ n.step # "bind"
    BY <1>1, <1>2, <1>4 DEF Launch, Sound, ProcessRecords, Opened
  <2>2. proc' = [proc EXCEPT ![p] = n]
    BY <1>1, <1>4 DEF Launch
  <2> QED
    BY <1>3, <1>4, <2>1, <2>2 DEF Launch
<1>5. CASE Crash(p)
  <2>1. Exited.step # "bind"
    BY DEF Exited, NotStarted
  <2> QED
    BY <1>3, <1>5, <2>1, EndsAreSound DEF Crash
<1>6. CASE BeginFinish(p)
  <2> DEFINE n == [proc[p] EXCEPT !.watching = FALSE, !.call = "finish"]
  <2>1. Sound(n, files) /\ n.step # "bind"
    BY <1>1, <1>2, <1>6 DEF BeginFinish, ProcAt, Sound, ProcessRecords, Opened
  <2>2. proc' = [proc EXCEPT ![p] = n]
    BY <1>1, <1>6 DEF BeginFinish
  <2> QED
    BY <1>3, <1>6, <2>1, <2>2 DEF BeginFinish
<1>7. CASE BeginCall(p)
  <2> DEFINE n == [proc[p] EXCEPT !.step = "exists", !.id = instance, !.again = FALSE]
  <2>1. Sound(n, files) /\ n.step # "bind"
    BY <1>1, <1>2, <1>7 DEF BeginCall, ProcAt, Sound, ProcessRecords, Opened
  <2>2. proc' = [proc EXCEPT ![p] = n]
    BY <1>1, <1>7 DEF BeginCall
  <2> QED
    BY <1>3, <1>7, <2>1, <2>2 DEF BeginCall
<1>8. CASE FileExists(p)
  <2> DEFINE n == [proc[p] EXCEPT !.step = IF path # 0 THEN "connect" ELSE "create"]
  <2>1. Sound(n, files) /\ n.step # "bind"
    BY <1>1, <1>2, <1>8 DEF FileExists, ProcAt, Sound, ProcessRecords, Opened
  <2>2. proc' = [proc EXCEPT ![p] = n]
    BY <1>1, <1>8 DEF FileExists, ProcGoto
  <2> QED
    BY <1>3, <1>8, <2>1, <2>2 DEF FileExists
<1>9. CASE ReadVersion(p)
  <2> DEFINE n == [proc[p] EXCEPT
                     !.step = IF files[proc[p].file].version THEN "check" ELSE "claim"]
  <2>1. Sound(n, files) /\ n.step # "bind"
    BY <1>1, <1>2, <1>9 DEF ReadVersion, ProcAt, Sound, ProcessRecords, Opened
  <2>2. proc' = [proc EXCEPT ![p] = n]
    BY <1>1, <1>9 DEF ReadVersion, ProcGoto
  <2> QED
    BY <1>3, <1>9, <2>1, <2>2 DEF ReadVersion
<1>10. CASE CheckInstance(p)
  <2> DEFINE ready == [proc[p] EXCEPT !.step = "ready"]
             remove == [proc[p] EXCEPT !.step = "remove"]
  <2>1. files[proc[p].file].bound = proc[p].id => Sound(ready, files) /\ ready.step # "bind"
    BY <1>1, <1>2, <1>10 DEF CheckInstance, ProcAt, Sound, ProcessRecords, Opened
  <2>2. Sound(remove, files) /\ remove.step # "bind"
    BY <1>1, <1>2, <1>10 DEF CheckInstance, ProcAt, Sound, ProcessRecords, Opened
  <2>3. Sound(Failed(p), files) /\ Failed(p).step # "bind"
    BY EndsAreSound
  <2>4. \/ files[proc[p].file].bound = proc[p].id /\ proc' = [proc EXCEPT ![p] = ready]
        \/ proc' = [proc EXCEPT ![p] = remove]
        \/ proc' = [proc EXCEPT ![p] = Failed(p)]
    BY <1>1, <1>10 DEF CheckInstance, ProcGoto, Fail
  <2> HIDE DEF ready, remove
  <2> QED
    BY <1>3, <1>10, <2>1, <2>2, <2>3, <2>4 DEF CheckInstance
<1>11. CASE RemoveSidecarFiles(p)
  <2> DEFINE n == [proc[p] EXCEPT !.step = "exists", !.again = TRUE, !.file = 0]
  <2>1. Sound(n, files) /\ n.step # "bind"
    BY <1>1, <1>2, <1>11 DEF RemoveSidecarFiles, ProcAt, Sound, ProcessRecords, Opened
  <2>2. proc' = [proc EXCEPT ![p] = n]
    BY <1>1, <1>11 DEF RemoveSidecarFiles
  <2> QED
    BY <1>3, <1>11, <2>1, <2>2 DEF RemoveSidecarFiles
<1> QED
  BY <1>4, <1>5, <1>6, <1>7, <1>8, <1>9, <1>10, <1>11

\* A file that no process has open is put at the path.
LEMMA AddFileKeeps ==
  ASSUME MoreFiles, SidecarInv, NEW p \in Watchers, NEW n, AddFile,
         n.step \in {"connect", "version"},
         n \in ProcessRecords, n.state = "alive", n.id \in Instances,
         n.step = "version" => n.file # 0,
         proc' = [proc EXCEPT ![p] = n],
         instance' = instance
  PROVE  SidecarInv'
<1>1. PICK new \in SidecarFiles :
           /\ \A q \in Watchers : proc[q].file # new
           /\ path' = new
           /\ files' = [files EXCEPT ![new] = NewFile]
  BY FileIsAdded DEF SidecarInv
<1>2. files' \in [SidecarFiles -> FileRecords]
  <2>1. NewFile \in FileRecords
    BY DEF NewFile, NoLease, FileRecords, Leases
  <2> QED
    BY <1>1, <2>1 DEF SidecarInv, SidecarTypeOK, FileRecords
<1>3. UnclaimedInv'
  BY <1>1, <1>2 DEF SidecarInv, SidecarTypeOK, UnclaimedInv, NewFile
<1>4. \A q \in Watchers : proc[q].step \in {"bind", "ready"} =>
        proc[q].file \in SidecarFiles /\ files'[proc[q].file] = files[proc[q].file]
  BY <1>1 DEF SidecarInv, SidecarTypeOK, BindingInv, Opened
<1>5. Sound(n, files')
  BY DEF Sound, Opened
<1>6. instance' \in Instances /\ path' \in SidecarFiles \cup {0}
  BY <1>1 DEF SidecarInv, SidecarTypeOK
<1> QED
  BY <1>2, <1>3, <1>4, <1>5, <1>6, ProcessKeeps

\* The steps that create the file and open it.
LEMMA CreatingKeeps ==
  ASSUME MoreFiles, SidecarInv, NEW p \in Watchers, CreateFile(p) \/ Connect(p)
  PROVE  SidecarInv'
<1>1. /\ proc \in [Watchers -> ProcessRecords] /\ proc[p] \in ProcessRecords
      /\ files \in [SidecarFiles -> FileRecords]
      /\ instance \in Instances /\ path \in SidecarFiles \cup {0}
  BY DEF SidecarInv, SidecarTypeOK, ProcessRecords, FileRecords
<1>2. BindingInv!(p)
  BY DEF SidecarInv, BindingInv
<1>3. CASE CreateFile(p)
  <2> DEFINE n == [proc[p] EXCEPT !.step = "connect"]
  <2>1. /\ n.step = "connect" /\ n \in ProcessRecords /\ n.state = "alive" /\ n.id \in Instances
    BY <1>1, <1>2, <1>3 DEF CreateFile, ProcAt, ProcessRecords
  <2>2. CASE path = 0
    <3>1. AddFile /\ proc' = [proc EXCEPT ![p] = n] /\ instance' = instance
      BY <1>1, <1>3, <2>2 DEF CreateFile, ProcGoto
    <3> HIDE DEF n
    <3> QED
      BY <2>1, <3>1, AddFileKeeps
  <2>3. CASE path # 0
    BY <1>1, <1>3, <2>3, EndsAreSound, ProcessGoesOn DEF CreateFile, Fail
  <2> QED
    BY <2>2, <2>3
<1>4. CASE Connect(p)
  <2>1. path' \in SidecarFiles \cup {0} /\ path' # 0
    <3>1. CASE path = 0
      <4>1. \A f \in SidecarFiles : f # 0
        BY SMTT(30) DEF SidecarFiles
      <4> QED
        BY <1>4, <3>1, <4>1, FileIsAdded DEF Connect, SidecarInv
    <3>2. CASE path # 0
      BY <1>1, <1>4, <3>2 DEF Connect
    <3> QED
      BY <3>1, <3>2
  <2>2. PICK f \in SidecarFiles : f = path' /\ f # 0
    BY <2>1
  <2> DEFINE n == [proc[p] EXCEPT !.step = "version", !.file = f]
  <2>3. /\ n.step = "version" /\ n \in ProcessRecords /\ n.state = "alive" /\ n.id \in Instances
        /\ n.file # 0
    BY <1>1, <1>2, <1>4, <2>2 DEF Connect, ProcAt, ProcessRecords
  <2>4. proc' = [proc EXCEPT ![p] = n] /\ instance' = instance
    BY <1>1, <1>4, <2>2 DEF Connect
  <2>5. Sound(n, files)
    BY <2>3 DEF Sound, Opened
  <2> HIDE DEF n
  <2>6. CASE path = 0
    BY <1>4, <2>3, <2>4, <2>6, AddFileKeeps DEF Connect
  <2>7. CASE path # 0
    <3>1. path' = path /\ files' = files
      BY <1>4, <2>7 DEF Connect
    <3>2. path' \in SidecarFiles \cup {0} /\ instance' \in Instances
      BY <1>1, <2>4, <3>1
    <3>3. files' \in [SidecarFiles -> FileRecords] /\ n.step # "bind"
      BY <1>1, <2>3, <3>1
    <3> QED
      BY <2>4, <2>5, <3>1, <3>2, <3>3, ProcessGoesOn
  <2> QED
    BY <2>6, <2>7
<1> QED
  BY <1>3, <1>4

\* The two INSERTs: the process that writes the version is the only one to
\* bind the file, which nobody uses before.
LEMMA BindingKeeps ==
  ASSUME SidecarInv, NEW p \in Watchers, InsertVersion(p) \/ InsertInstance(p)
  PROVE  SidecarInv'
<1>1. /\ proc \in [Watchers -> ProcessRecords] /\ proc[p] \in ProcessRecords
      /\ files \in [SidecarFiles -> FileRecords]
      /\ instance \in Instances /\ path \in SidecarFiles \cup {0}
  BY DEF SidecarInv, SidecarTypeOK, ProcessRecords, FileRecords
<1>2. BindingInv!(p)
  BY DEF SidecarInv, BindingInv
<1>3. PICK f : f = proc[p].file
  OBVIOUS
<1>4. f \in SidecarFiles /\ f # 0 /\ proc[p].id \in Instances
  BY <1>1, <1>2, <1>3 DEF InsertVersion, InsertInstance, ProcAt, Opened, ProcessRecords
<1>5. ASSUME files[f].bound = Unset,
             \A q \in Watchers : q # p /\ proc[q].step = "bind" => proc[q].file # f,
             files' \in [SidecarFiles -> FileRecords],
             \A g \in SidecarFiles : g # f => files'[g] = files[g],
             NEW n, Sound(n, files'), n.file = f,
             n.step = "bind" => files'[f].version /\ files'[f].bound = Unset,
             ~files'[f].version => files'[f].bound = Unset,
             proc' = [proc EXCEPT ![p] = n],
             instance' = instance, path' = path
      PROVE  SidecarInv'
  <2>1. UnclaimedInv'
    BY <1>5 DEF SidecarInv, UnclaimedInv
  <2>2. ASSUME NEW q \in Watchers, q # p, proc[q].step \in {"bind", "ready"}
        PROVE  proc[q].file \in SidecarFiles /\ proc[q].file # f
    <3>1. proc[q].file \in SidecarFiles /\ proc[q].id \in Instances
      BY <2>2 DEF SidecarInv, SidecarTypeOK, BindingInv, Opened
    <3>2. proc[q].step = "ready" => files[proc[q].file].bound = proc[q].id
      BY <2>2 DEF SidecarInv, SidecarTypeOK, BindingInv, ReadyIsBound, ProcAt
    <3>3. Unset \notin Instances
      BY SMTT(30), WorkSidecarAssumption DEF Instances
    <3> QED
      BY <1>5, <2>2, <3>1, <3>2, <3>3
  <2> QED
    BY ZenonT(30), <1>1, <1>5, <2>1, <2>2, ProcessKeeps
<1>6. CASE InsertVersion(p) /\ files[f].version
  BY <1>1, <1>3, <1>6, EndsAreSound, ProcessGoesOn DEF InsertVersion, Fail
<1>7. CASE InsertVersion(p) /\ ~files[f].version
  <2> DEFINE n == [proc[p] EXCEPT !.step = "bind"]
             c == [files[f] EXCEPT !.version = TRUE]
  <2>1. proc' = [proc EXCEPT ![p] = n] /\ files' = [files EXCEPT ![f] = c]
    BY <1>1, <1>3, <1>4, <1>7 DEF InsertVersion, ProcGoto
  <2>2. files[f].bound = Unset
    BY <1>4, <1>7 DEF SidecarInv, UnclaimedInv
  <2>3. c \in FileRecords /\ c.version /\ c.bound = Unset
    BY <1>1, <1>4, <2>2 DEF FileRecords
  <2>4. n.step = "bind" /\ n.file = f /\ Sound(n, files')
    BY <1>1, <1>2, <1>3, <1>4, <1>7 DEF InsertVersion, ProcAt, Sound, ProcessRecords, Opened
  <2>5. \A q \in Watchers : proc[q].step = "bind" => proc[q].file # f
    BY <1>7 DEF SidecarInv, BindingInv
  <2> HIDE DEF n, c
  <2>6. /\ files' \in [SidecarFiles -> FileRecords] /\ files'[f] = c
        /\ \A g \in SidecarFiles : g # f => files'[g] = files[g]
    BY <1>1, <1>4, <2>1, <2>3
  <2> QED
    BY <1>5, <1>7, <2>1, <2>2, <2>3, <2>4, <2>5, <2>6 DEF InsertVersion
<1>8. CASE InsertInstance(p)
  <2> DEFINE n == [proc[p] EXCEPT !.step = "ready"]
             c == [files[f] EXCEPT !.bound = proc[p].id]
  <2>1. proc' = [proc EXCEPT ![p] = n] /\ files' = [files EXCEPT ![f] = c]
    BY <1>1, <1>3, <1>4, <1>8 DEF InsertInstance, ProcGoto
  <2>2. /\ files[f].bound = Unset /\ files[f].version
        /\ \A q \in Watchers : q # p /\ proc[q].step = "bind" => proc[q].file # f
    BY <1>2, <1>3, <1>8 DEF InsertInstance, ProcAt
  <2>3. c \in FileRecords /\ c.version /\ c.bound = proc[p].id
    BY <1>1, <1>4, <2>2 DEF FileRecords
  <2>4. /\ files' \in [SidecarFiles -> FileRecords] /\ files'[f] = c
        /\ \A g \in SidecarFiles : g # f => files'[g] = files[g]
    BY <1>1, <1>4, <2>1, <2>3
  <2>5. n.step = "ready" /\ n.file = f /\ Sound(n, files')
    BY ZenonT(30), <1>1, <1>2, <1>3, <1>4, <1>8, <2>3, <2>4
    DEF InsertInstance, ProcAt, Sound, ProcessRecords, Opened
  <2> HIDE DEF n, c
  <2> QED
    BY <1>5, <1>8, <2>1, <2>2, <2>3, <2>4, <2>5 DEF InsertInstance
<1> QED
  BY <1>6, <1>7, <1>8

\* A file whose lease changes is otherwise the same.
LEMMA LeaseOnly ==
  ASSUME SidecarInv, NEW f \in SidecarFiles, NEW l \in Leases,
         files' = [files EXCEPT ![f] = [files[f] EXCEPT !.lease = l]]
  PROVE  /\ files' \in [SidecarFiles -> FileRecords]
         /\ files'[f].lease = l
         /\ \A g \in SidecarFiles :
              /\ files'[g].version = files[g].version
              /\ files'[g].bound = files[g].bound
              /\ g # f => files'[g] = files[g]
BY SMTT(30) DEF SidecarInv, SidecarTypeOK, FileRecords

\* What each call on the lease does to it.
LEMMA LeaseCalls ==
  ASSUME SidecarInv, NEW p \in Watchers,
         \/ \E reused \in BOOLEAN : StartWatcher(p, reused)
         \/ HeartbeatWatcher(p) \/ FinishWatcher(p)
  PROVE  /\ proc[p].file \in SidecarFiles /\ Lease(p) \in Leases
         /\ path' = path /\ instance' = instance
         /\ \/ files' = files /\ proc' = [proc EXCEPT ![p] = Failed(p)]
            \/ files' = files /\ proc' = [proc EXCEPT ![p] = Exited]
            \/ /\ proc' = [proc EXCEPT ![p] = Closed("heartbeat", TRUE)]
               /\ \/ \E reused \in BOOLEAN : ~BlockedBy(Lease(p), reused)
                  \/ Lease(p).owner = p
               /\ \E l \in Leases :
                    /\ l.owner = p /\ l.state = "active"
                    /\ files' = [files EXCEPT ![proc[p].file] =
                                   [files[proc[p].file] EXCEPT !.lease = l]]
            \/ /\ proc' = [proc EXCEPT ![p] = Exited]
               /\ Lease(p).owner = p
               /\ \E l \in Leases :
                    files' = [files EXCEPT ![proc[p].file] =
                                [files[proc[p].file] EXCEPT !.lease = l]]
<1>1. ProcAt(p, "ready")
  BY  DEF StartWatcher, HeartbeatWatcher, FinishWatcher, Ready
<1>2. PICK f : f = proc[p].file
  OBVIOUS
<1>3. f \in SidecarFiles /\ files[f] \in FileRecords /\ Lease(p) = files[f].lease
  BY <1>1, <1>2
  DEF ProcAt, SidecarInv, SidecarTypeOK, BindingInv, Opened, FileRecords, Lease
<1>4. files[f].lease \in Leases /\ files \in [SidecarFiles -> FileRecords]
  BY <1>3 DEF FileRecords, SidecarInv, SidecarTypeOK
<1>5. CASE \E reused \in BOOLEAN : StartWatcher(p, reused)
  <2>1. PICK reused \in BOOLEAN : StartWatcher(p, reused)
    BY <1>5
  <2>2. CASE BlockedBy(Lease(p), reused)
    BY <1>2, <1>3, <1>4, <2>1, <2>2 DEF StartWatcher, Fail
  <2>3. CASE ~BlockedBy(Lease(p), reused)
    <3> DEFINE l == [owner |-> p, state |-> "active", fresh |-> TRUE]
    <3>1. l \in Leases /\ l.owner = p /\ l.state = "active"
      BY DEF Leases
    <3>2. files' = [files EXCEPT ![f] = [files[f] EXCEPT !.lease = l]]
      BY <1>2, <1>3, <1>4, <2>1, <2>3 DEF StartWatcher
    <3> HIDE DEF l
    <3> QED
      BY <1>2, <1>3, <1>4, <2>1, <2>3, <3>1, <3>2 DEF StartWatcher
  <2> QED
    BY <2>2, <2>3
<1>6. CASE HeartbeatWatcher(p)
  <2>1. CASE Lease(p).owner = p /\ Lease(p).state = "active"
    <3> DEFINE l == [files[f].lease EXCEPT !.fresh = TRUE]
    <3>1. l \in Leases /\ l.owner = p /\ l.state = "active"
      BY ZenonT(30), <1>3, <1>4, <2>1 DEF Leases
    <3>2. files' = [files EXCEPT ![f] = [files[f] EXCEPT !.lease = l]]
      BY <1>2, <1>3, <1>4, <1>6, <2>1 DEF HeartbeatWatcher
    <3> HIDE DEF l
    <3> QED
      BY <1>2, <1>3, <1>4, <1>6, <2>1, <3>1, <3>2 DEF HeartbeatWatcher
  <2>2. CASE ~(Lease(p).owner = p /\ Lease(p).state = "active")
    BY <1>2, <1>3, <1>4, <1>6, <2>2 DEF HeartbeatWatcher, Fail
  <2> QED
    BY <2>1, <2>2
<1>7. CASE FinishWatcher(p)
  <2>1. CASE Lease(p).owner = p
    <3> DEFINE l == [files[f].lease EXCEPT !.state = "ended", !.fresh = TRUE]
    <3>1. l \in Leases
      BY <1>3, <1>4, <2>1 DEF Leases
    <3>2. files' = [files EXCEPT ![f] = [files[f] EXCEPT !.lease = l]]
      BY ZenonT(30), <1>2, <1>3, <1>4, <1>7, <2>1 DEF FinishWatcher
    <3> HIDE DEF l
    <3> QED
      BY <1>2, <1>3, <1>4, <1>7, <2>1, <3>1, <3>2 DEF FinishWatcher
  <2>2. CASE Lease(p).owner # p
    BY <1>2, <1>3, <1>4, <1>7, <2>2 DEF FinishWatcher
  <2> QED
    BY <2>1, <2>2
<1> QED
  BY <1>5, <1>6, <1>7

LEMMA LeaseCallsKeep ==
  ASSUME SidecarInv, NEW p \in Watchers,
         \/ \E reused \in BOOLEAN : StartWatcher(p, reused)
         \/ HeartbeatWatcher(p) \/ FinishWatcher(p)
  PROVE  SidecarInv'
<1>1. PICK n : /\ Sound(n, files) /\ n.step # "bind"
               /\ proc' = [proc EXCEPT ![p] = n]
  <2>1. /\ Sound(Failed(p), files) /\ Failed(p).step # "bind"
        /\ Sound(Exited, files) /\ Exited.step # "bind"
        /\ Sound(Closed("heartbeat", TRUE), files) /\ Closed("heartbeat", TRUE).step # "bind"
    BY EndsAreSound DEF Exited, Closed, NotStarted
  <2> QED
    BY <2>1, LeaseCalls
<1>2. /\ files' \in [SidecarFiles -> FileRecords]
      /\ \A f \in SidecarFiles :
           files'[f].version = files[f].version /\ files'[f].bound = files[f].bound
  <2>1. CASE files' = files
    BY <2>1 DEF SidecarInv, SidecarTypeOK, FileRecords
  <2>2. CASE \E l \in Leases :
               files' = [files EXCEPT ![proc[p].file] =
                           [files[proc[p].file] EXCEPT !.lease = l]]
    <3>1. proc[p].file \in SidecarFiles
      BY LeaseCalls
    <3>2. PICK l \in Leases :
            files' = [files EXCEPT ![proc[p].file] =
                        [files[proc[p].file] EXCEPT !.lease = l]]
      BY <2>2
    <3> QED
      BY <3>1, <3>2, LeaseOnly
  <2> QED
    BY ZenonT(30), <2>1, <2>2, LeaseCalls
<1>3. instance' \in Instances /\ path' \in SidecarFiles \cup {0}
  BY LeaseCalls DEF SidecarInv, SidecarTypeOK
<1> QED
  BY <1>1, <1>2, <1>3, ProcessGoesOn

\* LeaseAges is an external step on the lease only.
LEMMA LeaseAgesOnly ==
  ASSUME SidecarInv, LeaseAges
  PROVE  /\ path \in SidecarFiles
         /\ \E l \in Leases :
              /\ l.owner = files[path].lease.owner /\ l.state = files[path].lease.state
              /\ files' = [files EXCEPT ![path] = [files[path] EXCEPT !.lease = l]]
<1>1. path \in SidecarFiles /\ files \in [SidecarFiles -> FileRecords]
  BY DEF SidecarInv, SidecarTypeOK, FileRecords, LeaseAges
<1>2. files[path].lease \in Leases
  BY <1>1 DEF FileRecords
<1> DEFINE l == [files[path].lease EXCEPT !.fresh = FALSE]
<1>3. l \in Leases /\ l.owner = files[path].lease.owner /\ l.state = files[path].lease.state
  BY <1>2 DEF Leases
<1>4. files' = [files EXCEPT ![path] = [files[path] EXCEPT !.lease = l]]
  BY <1>1 DEF LeaseAges
<1> QED
  BY <1>1, <1>3, <1>4

LEMMA SidecarKeeps ==
  ASSUME MoreFiles, SidecarInv, [SidecarNext]_sidecarVars
  PROVE  SidecarInv'
<1>1. CASE UNCHANGED sidecarVars
  BY SMTT(30), <1>1
  DEF sidecarVars, SidecarInv, SidecarTypeOK, ReadyIsBound, BindingInv, UnclaimedInv, ProcAt
<1>2. CASE ReplaceDatabase
  <2>1. instance' \in Instances
    BY SMTT(30), <1>2, WorkSidecarAssumption DEF ReplaceDatabase, Instances, SidecarInv, SidecarTypeOK
  <2> QED
    BY SMTT(30), <1>2, <2>1
    DEF ReplaceDatabase, SidecarInv, SidecarTypeOK, ReadyIsBound, BindingInv,
        UnclaimedInv, ProcAt
<1>3. CASE LeaseAges
  <2>1. /\ path \in SidecarFiles
        /\ files' \in [SidecarFiles -> FileRecords]
        /\ \A f \in SidecarFiles :
             files'[f].version = files[f].version /\ files'[f].bound = files[f].bound
    BY <1>3, LeaseAgesOnly, LeaseOnly
  <2>2. \A p \in Watchers : proc[p].step \in {"bind", "ready"} =>
          proc[p].file \in SidecarFiles
    BY DEF SidecarInv, SidecarTypeOK, BindingInv, Opened
  <2>3. proc' = proc /\ path' = path /\ instance' = instance
    BY <1>3 DEF LeaseAges
  <2>4. SidecarTypeOK'
    BY <2>1, <2>3 DEF SidecarInv, SidecarTypeOK, FileRecords
  <2>5. ReadyIsBound' /\ UnclaimedInv'
    BY <2>1, <2>2, <2>3 DEF SidecarInv, ReadyIsBound, UnclaimedInv, ProcAt
  <2>6. BindingInv'
    BY ZenonT(30), <2>1, <2>2, <2>3 DEF SidecarInv, BindingInv
  <2> QED
    BY <2>4, <2>5, <2>6 DEF SidecarInv
<1>4. ASSUME NEW p \in Watchers, Launch(p) \/ Crash(p) \/ BeginFinish(p) \/ Step(p)
      PROVE  SidecarInv'
  BY SMTT(30), <1>4, OpeningKeeps, CreatingKeeps, BindingKeeps, LeaseCallsKeep DEF Step
<1> QED
  BY <1>1, <1>2, <1>3, <1>4 DEF SidecarNext

\* No step of another process touches the lease of a watcher that lives.
LEMMA LeaseStays ==
  ASSUME MoreFiles, SidecarInv, [SidecarNext]_sidecarVars,
         NEW p \in Watchers, path # 0, path' = path, Holds(p, path),
         proc'[p].state = "alive"
  PROVE  files'[path].lease.owner = p /\ files'[path].lease.state = "active"
<1>1. /\ path \in SidecarFiles /\ files \in [SidecarFiles -> FileRecords]
      /\ proc \in [Watchers -> ProcessRecords]
  BY DEF SidecarInv, SidecarTypeOK, FileRecords, ProcessRecords
<1>2. CASE files' = files
  BY <1>2 DEF Holds
<1>3. CASE LeaseAges
  BY <1>1, <1>3, LeaseAgesOnly, LeaseOnly DEF Holds
<1>4. ASSUME NEW q \in Watchers, CreateFile(q) \/ Connect(q)
      PROVE  files' = files
  BY <1>4 DEF CreateFile, Connect
<1>5. ASSUME NEW q \in Watchers, InsertVersion(q) \/ InsertInstance(q)
      PROVE  files'[path].lease = files[path].lease
  BY SMTT(30), <1>1, <1>5 DEF InsertVersion, InsertInstance, FileRecords
<1>6. ASSUME NEW q \in Watchers,
             \/ \E reused \in BOOLEAN : StartWatcher(q, reused)
             \/ HeartbeatWatcher(q) \/ FinishWatcher(q)
      PROVE  files'[path].lease.owner = p /\ files'[path].lease.state = "active"
  <2>1. CASE files' = files
    BY <1>2, <2>1
  <2>2. CASE /\ \/ \E reused \in BOOLEAN : ~BlockedBy(Lease(q), reused)
                \/ Lease(q).owner = q
             /\ \E l \in Leases :
                  /\ l.owner = q /\ l.state = "active"
                  /\ files' = [files EXCEPT ![proc[q].file] =
                                 [files[proc[q].file] EXCEPT !.lease = l]]
    <3>1. PICK l \in Leases :
            /\ l.owner = q /\ l.state = "active"
            /\ files' = [files EXCEPT ![proc[q].file] =
                           [files[proc[q].file] EXCEPT !.lease = l]]
      BY <2>2
    <3>2. proc[q].file \in SidecarFiles
      BY <1>6, LeaseCalls
    <3>3. CASE proc[q].file # path
      BY <1>1, <3>1, <3>2, <3>3, LeaseOnly DEF Holds
    <3>4. CASE proc[q].file = path
      <4>1. q = p
        BY <2>2, <3>4 DEF BlockedBy, Lease, Holds
      <4> QED
        BY <3>1, <3>2, <3>4, <4>1, LeaseOnly
    <3> QED
      BY <3>3, <3>4
  <2>3. CASE /\ proc' = [proc EXCEPT ![q] = Exited]
             /\ Lease(q).owner = q
             /\ \E l \in Leases :
                  files' = [files EXCEPT ![proc[q].file] =
                              [files[proc[q].file] EXCEPT !.lease = l]]
    <3>1. q # p
      BY <1>1, <2>3 DEF Exited, NotStarted
    <3>2. proc[q].file # path /\ proc[q].file \in SidecarFiles
      BY <1>6, <2>3, <3>1, LeaseCalls DEF Lease, Holds
    <3> QED
      BY <1>1, <2>3, <3>2, LeaseOnly DEF Holds
  <2> QED
    BY <1>6, <2>1, <2>2, <2>3, LeaseCalls
<1>7. ASSUME NEW q \in Watchers,
             \/ Launch(q) \/ Crash(q) \/ BeginFinish(q) \/ BeginCall(q) \/ FileExists(q)
             \/ ReadVersion(q) \/ CheckInstance(q) \/ RemoveSidecarFiles(q)
      PROVE  files' = files
  BY <1>7 DEF Launch, Crash, BeginFinish, BeginCall, FileExists, ReadVersion,
              CheckInstance, RemoveSidecarFiles
<1>8. (UNCHANGED sidecarVars \/ ReplaceDatabase) => files' = files
  BY DEF sidecarVars, ReplaceDatabase
<1> QED
  BY <1>2, <1>3, <1>4, <1>5, <1>6, <1>7, <1>8 DEF SidecarNext, Step, Holds

-----------------------------------------------------------------------------
(***************************************************************************)
(* The writer lock                                                         *)
(***************************************************************************)
USE DEF Live, At, Goto, Forget, Busy, OwnerGone

\* Initially nobody holds, inspects or created a lock file.
LEMMA InitIInv == Init => IInv
BY ProcessOfAssumption, SentinelAssumption
   DEF Init, IInv, TypeOK, Steps, BusyOwnsFile, InspectionSound

\* Every step of acquire, drop and the environment preserves the typing.
LEMMA StepTypeOK == TypeOK /\ [Next]_vars => TypeOK'
<1> SUFFICES ASSUME TypeOK, [Next]_vars PROVE TypeOK'
    OBVIOUS
<1> USE ProcessOfAssumption, SentinelAssumption DEF TypeOK, Steps, Files
<1>1. ASSUME NEW t \in Threads, ThreadStep(t) PROVE TypeOK'
  <2>1. CASE AcquireStart(t)
    BY <2>1 DEF AcquireStart
  <2>6. CASE CreateNew(t)
    BY <2>6 DEF CreateNew
  <2>7. CASE CreateExists(t)
    BY ZenonT(30), <2>7 DEF CreateExists
  <2>2. CASE WriteContent(t)
    BY <2>2 DEF WriteContent
  <2>3. CASE AcquireFails(t) \/ StatAge(t) \/ ReadContent(t) \/ Judge(t)
    BY ZenonT(30), ZenonT(30), <2>3 DEF AcquireFails, StatAge, ReadContent, Judge
  <2>4. CASE UnlinkStale(t)
    <3>1. raced' \in SUBSET {"replaced", "unwritten"}
      BY <2>4, Zenon DEF UnlinkStale
    <3>2. file' = NoFile /\ pc' \in [Threads -> Steps]
      BY ZenonT(30), <2>4 DEF UnlinkStale
    <3>3. alive' = alive /\ seen' \in [Threads -> Threads \cup {Undecodable}]
      BY <2>4 DEF UnlinkStale
    <3>4. same' \in [Threads -> BOOLEAN]
      <4>1. CASE file = NoFile
        BY <2>4, <4>1 DEF UnlinkStale
      <4>2. CASE file # NoFile
        <5>1. same' = [u \in Threads |-> FALSE]
          BY <2>4, <4>2 DEF UnlinkStale
        <5>. QED  BY <5>1
      <4>. QED  BY <4>1, <4>2
    <3>. QED  BY <3>1, <3>2, <3>3, <3>4
  <2>5. CASE DropRead(t) \/ DropUnlink(t) \/ DropUnlinkFails(t)
    BY ZenonT(30), ZenonT(30), <2>5 DEF DropRead, DropUnlink, DropUnlinkFails
  <2>. QED  BY <1>1, <2>1, <2>2, <2>3, <2>4, <2>5, <2>6, <2>7 DEF ThreadStep
<1>2. ASSUME NEW p \in Processes, ProcessEnds(p) PROVE TypeOK'
  BY <1>2 DEF ProcessEnds
<1>3. CASE LockAges
  BY <1>3 DEF LockAges
<1>4. CASE UNCHANGED vars
  BY <1>4 DEF vars
<1>. QED  BY <1>1, <1>2, <1>3, <1>4 DEF Next

\* What a thread knows about the file it inspected stays true until that file
\* is unlinked, because the unlink clears `same` for everybody.
LEMMA StepInspection ==
  TypeOK /\ InspectionSound /\ [Next]_vars => InspectionSound'
<1> SUFFICES ASSUME TypeOK, InspectionSound, [Next]_vars
             PROVE  InspectionSound'
    BY SMTT(30), SMTT(30)
<1> USE ProcessOfAssumption, SentinelAssumption
    DEF TypeOK, Steps, Files, InspectionSound
<1>1. ASSUME NEW t \in Threads, ThreadStep(t) PROVE InspectionSound'
  <2>1. CASE AcquireStart(t)
    BY ZenonT(30), <2>1 DEF AcquireStart
  <2>6. CASE CreateNew(t)
    BY <2>6 DEF CreateNew
  <2>7. CASE CreateExists(t)
    BY SMTT(30), <2>7 DEF CreateExists
  <2>2. CASE WriteContent(t)
    BY ZenonT(30), <2>2 DEF WriteContent
  <2>3. CASE AcquireFails(t) \/ StatAge(t) \/ ReadContent(t) \/ Judge(t)
    BY SMTT(30), <2>3 DEF AcquireFails, StatAge, ReadContent, Judge
  <2>4. CASE UnlinkStale(t)
    BY SMTT(30), <2>4 DEF UnlinkStale
  <2>5. CASE DropRead(t) \/ DropUnlink(t) \/ DropUnlinkFails(t)
    BY SMTT(30), <2>5 DEF DropRead, DropUnlink, DropUnlinkFails
  <2>. QED  BY <1>1, <2>1, <2>2, <2>3, <2>4, <2>5, <2>6, <2>7 DEF ThreadStep
<1>2. ASSUME NEW p \in Processes, ProcessEnds(p) PROVE InspectionSound'
  BY ZenonT(30), <1>2 DEF ProcessEnds
<1>3. CASE LockAges
  BY <1>3 DEF LockAges
<1>4. CASE UNCHANGED vars
  BY <1>4 DEF vars
<1>. QED  BY <1>1, <1>2, <1>3, <1>4 DEF Next

\* Outside the windows no step takes the lock file away from a thread that
\* created it and still needs it.
LEMMA StepBusy ==
  IInv /\ [Next]_vars => (raced' = {} => BusyOwnsFile')
<1> SUFFICES ASSUME IInv, [Next]_vars, raced' = {}
             PROVE  BusyOwnsFile'
    BY SMTT(30), SMTT(30)
<1> USE ProcessOfAssumption, SentinelAssumption
    DEF IInv, TypeOK, Steps, Files, InspectionSound, BusyOwnsFile
<1>1. ASSUME NEW t \in Threads, ThreadStep(t) PROVE BusyOwnsFile'
  <2>1. CASE AcquireStart(t)
    BY <2>1 DEF AcquireStart
  <2>6. CASE CreateNew(t)
    <3>1. \A u \in Threads : ~Busy(u)
      BY <2>6 DEF CreateNew
    <3>2. file' # NoFile /\ file'.owner = t
      <4>1. file' = [owner |-> t, written |-> FALSE, old |-> FALSE]
        BY <2>6 DEF CreateNew
      <4>2. file' \in Files
        BY <4>1
      <4>. QED  BY <4>1, <4>2
    <3>3. \A u \in Threads : Busy(u)' => u = t
      BY <2>6, <3>1 DEF CreateNew
    <3>. QED  BY <3>2, <3>3
  <2>7. CASE CreateExists(t)
    BY SMTT(30), <2>7 DEF CreateExists
  <2>2. CASE WriteContent(t)
    BY ZenonT(30), ZenonT(30), <2>2 DEF WriteContent
  <2>3. CASE AcquireFails(t) \/ StatAge(t) \/ ReadContent(t) \/ Judge(t)
    BY SMTT(30), <2>3 DEF AcquireFails, StatAge, ReadContent, Judge
  <2>4. CASE UnlinkStale(t)
    <3>1. CASE file = NoFile
      BY ZenonT(30), <2>4, <3>1 DEF UnlinkStale
    <3>2. CASE file # NoFile
      <4>1. raced = {} /\ same[t]
        BY <2>4, <3>2 DEF UnlinkStale
      <4>2. ~Busy(file.owner)
        BY <2>4, <3>2, <4>1 DEF UnlinkStale
      <4>3. \A u \in Threads : ~Busy(u)
        BY <4>1, <4>2
      <4>. QED  BY SMTT(30), <2>4, <3>2, <4>3 DEF UnlinkStale
    <3>. QED  BY <3>1, <3>2
  <2>5. CASE DropRead(t) \/ DropUnlink(t) \/ DropUnlinkFails(t)
    BY SMTT(30), <2>5 DEF DropRead, DropUnlink, DropUnlinkFails
  <2>. QED  BY <1>1, <2>1, <2>2, <2>3, <2>4, <2>5, <2>6, <2>7 DEF ThreadStep
<1>2. ASSUME NEW p \in Processes, ProcessEnds(p) PROVE BusyOwnsFile'
  BY <1>2 DEF ProcessEnds
<1>3. CASE LockAges
  BY ZenonT(30), <1>3 DEF LockAges
<1>4. CASE UNCHANGED vars
  BY <1>4 DEF vars
<1>. QED  BY <1>1, <1>2, <1>3, <1>4 DEF Next

\* IInv is inductive: the three facts about a step, put together.
THEOREM Inductive == Spec => []IInv
<1>1. IInv /\ [Next]_vars => IInv'
  BY StepTypeOK, StepInspection, StepBusy DEF IInv
<1>. QED  BY InitIInv, <1>1, PTL DEF Spec

\* StoreLock::acquire keeps its state well typed for any set of callers.
THEOREM TypeCorrect == Spec => []TypeOK
<1>1. IInv => TypeOK
  BY DEF IInv
<1>. QED  BY Inductive, <1>1, PTL

\* At most one running thread holds the guard unless recovery unlinked a file
\* it had not inspected or a lock still being written, for any set of callers.
THEOREM ExclusiveOutsideWindows == Spec => []ExclusionOutsideWindows
<1>1. IInv => ExclusionOutsideWindows
  BY DEF IInv, BusyOwnsFile, ExclusionOutsideWindows, MutualExclusion, Holders
<1>. QED  BY Inductive, <1>1, PTL

HIDE DEF Live, At, Goto, Forget, Busy, OwnerGone

-----------------------------------------------------------------------------
(***************************************************************************)
(* The extraction budget                                                   *)
(***************************************************************************)
\* What sample_time keeps true between the sample and the units.
SampleInv ==
  Timed =>
    /\ sampled_units <= Units
    /\ sampled_units = 0 => Units = 0
    /\ Units \div Block <= sampled_units \div Block

\* What an extraction past its deadline still satisfies.
LateInv ==
  Timed /\ Late =>
    /\ sampled_units <= in_time
    /\ in_time = 0 => Units = 0

\* What the batch being written holds: its outputs have been charged.
WritingInv ==
  stage \in {"writing", "stored", "loaded"} => outputs <= observations

\* The inductive invariant.
BudgetInv == BudgetTypeOK /\ SampleInv /\ LateInv /\ WritingInv

\* A larger total is in the same block or in a later one.
LEMMA DivMonotone ==
  ASSUME NEW a \in Nat, NEW b \in Nat, a <= b, NEW k \in Nat \ {0}
  PROVE  a \div k <= b \div k
  BY SMTT(30), SMTT(30)

\* A block number is a natural number.
LEMMA DivNat ==
  ASSUME NEW a \in Nat, NEW k \in Nat \ {0}
  PROVE  a \div k \in Nat
  BY SMTT(30), SMTT(30)

\* The tracker of a new invocation satisfies the invariant.
LEMMA BudgetInvInit == BudgetInit => BudgetInv
  <1> SUFFICES ASSUME BudgetInit PROVE BudgetInv
    OBVIOUS
  <1>1. BudgetTypeOK
    BY SMTT(30), BudgetAssumption DEF BudgetInit, BudgetTypeOK
  <1>2. SampleInv /\ LateInv /\ WritingInv
    BY SMTT(30), BudgetAssumption, DivNat
    DEF BudgetInit, SampleInv, LateInv, WritingInv, Timed, Late,
        check_elapsed, Deadline, Units
  <1> QED BY <1>1, <1>2 DEF BudgetInv

\* sample_time keeps the sample within a block of the units, and refuses an
\* extraction that is late when it looks at the clock.
LEMMA SampleStep ==
  ASSUME BudgetInv, Timed, NEW u \in Nat, u >= Units, Units' = u,
         sample_time(u), elapsed' = elapsed, Record
  PROVE  /\ sampled_units' \in Nat
         /\ stage' \in {stage, "refused"}
         /\ in_time' \in Nat
         /\ SampleInv'
         /\ LateInv'
  <1> USE BudgetAssumption
  <1>0. /\ Units \in Nat /\ sampled_units \in Nat /\ in_time \in Nat
        /\ sampled_units <= Units
        /\ sampled_units = 0 => Units = 0
    BY SMTT(30) DEF BudgetInv, BudgetTypeOK, SampleInv, Units
  <1>1. CASE Samples(u)
    <2>1. sampled_units' = u /\ stage' = IF check_elapsed(stage)
                                         THEN stage ELSE "refused"
      BY <1>1 DEF sample_time
    <2>2. CASE check_elapsed(stage)
      BY SMTT(30), <1>0, <2>1, <2>2, DivNat
      DEF Record, Late, SampleInv, LateInv, Timed, check_elapsed, Deadline
    <2>3. CASE ~check_elapsed(stage)
      BY <1>0, <2>1, <2>3 DEF Record, Late, SampleInv, LateInv, Timed
    <2> QED BY <2>2, <2>3
  <1>2. CASE ~Samples(u)
    <2>1. sampled_units' = sampled_units /\ stage' = stage
      BY <1>2 DEF sample_time
    <2>2. /\ ~(sampled_units = 0 /\ u > 0)
          /\ ~(u \div Block > sampled_units \div Block)
      BY <1>2 DEF Samples
    <2>3. u \div Block \in Nat /\ sampled_units \div Block \in Nat
      BY <1>0, DivNat
    <2>4. SampleInv'
      BY SMTT(30), <1>0, <2>1, <2>2, <2>3 DEF SampleInv, Timed
    <2>5. in_time' = IF Late THEN in_time ELSE u
      BY <2>1 DEF Record
    <2>6. Late' <=> Late
      BY <2>1 DEF Late, check_elapsed, Deadline
    <2>7. LateInv'
      BY SMTT(30), <1>0, <2>1, <2>2, <2>5, <2>6 DEF LateInv, BudgetInv, Timed
    <2> QED BY <1>0, <2>1, <2>4, <2>5, <2>7
  <1> QED BY <1>1, <1>2

\* A step of the invocation that charges no unit.
LEMMA QuietStep ==
  ASSUME BudgetInv, Units' = Units, sampled_units' = sampled_units,
         elapsed' = elapsed, Record,
         \/ stage' = stage
         \/ stage = "syntax" /\ stage' = "structured"
         \/ stage' \in {"writing", "stored", "loaded", "refused"}
  PROVE  in_time' \in Nat /\ SampleInv' /\ LateInv'
  <1>0. Units \in Nat /\ in_time \in Nat
    BY SMTT(30) DEF BudgetInv, BudgetTypeOK, Units
  <1>1. CASE stage' = stage
    <2>1. (Late' <=> Late) /\ (Timed' <=> Timed)
      BY <1>1 DEF Late, check_elapsed, Deadline, Timed
    <2> QED BY <1>0, <1>1, <2>1
            DEF Record, BudgetInv, SampleInv, LateInv
  <1>2. CASE stage = "syntax" /\ stage' = "structured"
    BY <1>0, <1>2 DEF Record, BudgetInv, SampleInv, LateInv, Timed
  <1>3. CASE stage' \in {"writing", "stored", "loaded", "refused"} /\ stage' # stage
    BY <1>0, <1>3 DEF Record, SampleInv, LateInv, Timed
  <1> QED BY <1>1, <1>2, <1>3

\* Refusing keeps the invariant.
LEMMA RefuseStep ==
  ASSUME BudgetInv, Refuse, Record PROVE BudgetInv'
  <1>1. /\ stage' = "refused" /\ UNCHANGED <<work_units, tree_sitter_nodes,
             observations, strings, sampled_units, elapsed, outputs, payload>>
    BY DEF Refuse, counterVars
  <1>2. in_time' \in Nat /\ SampleInv' /\ LateInv'
    BY <1>1, QuietStep DEF Units
  <1> QED BY <1>1, <1>2 DEF BudgetInv, BudgetTypeOK, WritingInv

\* Every step of an extraction keeps the invariant.
LEMMA BudgetInvNext == BudgetInv /\ [BudgetNext]_budgetVars => BudgetInv'
  <1> SUFFICES ASSUME BudgetInv, [BudgetNext]_budgetVars PROVE BudgetInv'
    OBVIOUS
  <1> USE BudgetAssumption
  <1>0. BudgetTypeOK /\ WritingInv
    BY DEF BudgetInv
  <1>1. CASE Elapse
    <2>1. /\ Timed /\ elapsed' = elapsed + 1
          /\ UNCHANGED <<stage, work_units, tree_sitter_nodes, observations,
                         strings, sampled_units, outputs, payload>>
          /\ in_time' = IF Late THEN in_time ELSE Units
      BY <1>1 DEF Elapse, counterVars
    <2>2. BudgetTypeOK' /\ WritingInv'
      BY SMTT(30), <1>0, <2>1 DEF BudgetTypeOK, WritingInv, Units
    <2>3. SampleInv'
      BY <2>1 DEF BudgetInv, SampleInv, Timed, Units
    <2>4. LateInv'
      BY <1>0, <2>1 DEF BudgetInv, BudgetTypeOK, SampleInv, LateInv, Timed,
                        Units
    <2> QED BY <2>2, <2>3, <2>4 DEF BudgetInv
  <1>2. CASE charge_tree_sitter_node
    <2>1. CASE Fits(tree_sitter_nodes + 1, MaxNodes)
      <3> DEFINE u == work_units + tree_sitter_nodes + 1
      <3>1. /\ stage = "syntax" /\ tree_sitter_nodes' = tree_sitter_nodes + 1
            /\ sample_time(u) /\ Record
            /\ UNCHANGED <<work_units, observations, strings, elapsed,
                           outputs, payload>>
        BY <1>2, <2>1 DEF charge_tree_sitter_node
      <3>2. u \in Nat /\ u >= Units /\ Units' = u /\ Timed
        BY SMTT(30), <1>0, <3>1 DEF BudgetTypeOK, Units, Timed
      <3> HIDE DEF u
      <3>3. /\ sampled_units' \in Nat /\ stage' \in {stage, "refused"}
            /\ in_time' \in Nat /\ SampleInv' /\ LateInv'
        BY <3>1, <3>2, SampleStep
      <3> QED BY SMTT(30), <1>0, <2>1, <3>1, <3>3
              DEF BudgetInv, BudgetTypeOK, WritingInv, Fits
    <2>2. CASE ~Fits(tree_sitter_nodes + 1, MaxNodes)
      BY <1>2, <2>2, RefuseStep DEF charge_tree_sitter_node
    <2> QED BY <2>1, <2>2
  <1>3. CASE CheckTime
    BY <1>3, RefuseStep DEF CheckTime
  <1>4. CASE EndSyntax
    <2>1. /\ stage = "syntax" /\ stage' = "structured" /\ Record
          /\ UNCHANGED <<work_units, tree_sitter_nodes, observations, strings,
                         sampled_units, elapsed, outputs, payload>>
      BY <1>4 DEF EndSyntax, counterVars
    <2>2. in_time' \in Nat /\ SampleInv' /\ LateInv'
      BY <2>1, QuietStep DEF Units
    <2> QED BY <1>0, <2>1, <2>2 DEF BudgetInv, BudgetTypeOK, WritingInv
  <1>5. ASSUME NEW a \in Amounts, charge_work(a) PROVE BudgetInv'
    <2>0. a \in Nat
      OBVIOUS
    <2>1. CASE Fits(work_units + a, MaxWork)
      <3> DEFINE u == work_units + a + tree_sitter_nodes
      <3>1. /\ stage = "structured" /\ work_units' = work_units + a
            /\ sample_time(u) /\ Record
            /\ UNCHANGED <<tree_sitter_nodes, observations, strings, elapsed,
                           outputs, payload>>
        BY <1>5, <2>1 DEF charge_work
      <3>2. u \in Nat /\ u >= Units /\ Units' = u /\ Timed
        BY SMTT(30), <1>0, <2>0, <3>1 DEF BudgetTypeOK, Units, Timed
      <3> HIDE DEF u
      <3>3. /\ sampled_units' \in Nat /\ stage' \in {stage, "refused"}
            /\ in_time' \in Nat /\ SampleInv' /\ LateInv'
        BY <3>1, <3>2, SampleStep
      <3> QED BY SMTT(30), <1>0, <2>0, <2>1, <3>1, <3>3
              DEF BudgetInv, BudgetTypeOK, WritingInv, Fits
    <2>2. CASE ~Fits(work_units + a, MaxWork)
      BY <1>5, <2>2, RefuseStep DEF charge_work
    <2> QED BY <2>1, <2>2
  <1>6. ASSUME NEW a \in Amounts, charge_value(a) PROVE BudgetInv'
    <2>0. a \in Nat
      OBVIOUS
    <2>1. CASE a <= MaxString /\ Fits(strings + a, MaxStrings)
      <3>1. /\ stage = "structured" /\ strings' = strings + a /\ Record
            /\ UNCHANGED <<stage, work_units, tree_sitter_nodes, observations,
                           sampled_units, elapsed, outputs, payload>>
        BY <1>6, <2>1 DEF charge_value
      <3>2. in_time' \in Nat /\ SampleInv' /\ LateInv'
        BY <3>1, QuietStep DEF Units
      <3> QED BY SMTT(30), <1>0, <2>0, <2>1, <3>1, <3>2
              DEF BudgetInv, BudgetTypeOK, WritingInv, Fits
    <2>2. CASE ~(a <= MaxString /\ Fits(strings + a, MaxStrings))
      BY <1>6, <2>2, RefuseStep DEF charge_value
    <2> QED BY <2>1, <2>2
  <1>7. ASSUME NEW a \in Amounts, charge_observation(a) PROVE BudgetInv'
    <2>0. a \in Nat
      OBVIOUS
    <2>1. CASE Fits(observations + a, MaxObservations)
      <3>1. /\ stage = "structured" /\ observations' = observations + a
            /\ outputs' = outputs + a /\ Record
            /\ UNCHANGED <<stage, work_units, tree_sitter_nodes, strings,
                           sampled_units, elapsed, payload>>
        BY <1>7, <2>1 DEF charge_observation
      <3>2. in_time' \in Nat /\ SampleInv' /\ LateInv'
        BY <3>1, QuietStep DEF Units
      <3> QED BY SMTT(30), <1>0, <2>0, <2>1, <3>1, <3>2
              DEF BudgetInv, BudgetTypeOK, WritingInv, Fits
    <2>2. CASE ~Fits(observations + a, MaxObservations)
      BY <1>7, <2>2, RefuseStep DEF charge_observation
    <2> QED BY <2>1, <2>2
  <1>8. CASE PushUncharged
    <2>1. /\ stage = "structured" /\ outputs' = outputs + 1 /\ Record
          /\ UNCHANGED <<stage, work_units, tree_sitter_nodes, observations,
                         strings, sampled_units, elapsed, payload>>
      BY <1>8 DEF PushUncharged, counterVars
    <2>2. in_time' \in Nat /\ SampleInv' /\ LateInv'
      BY <2>1, QuietStep DEF Units
    <2> QED BY SMTT(30), <1>0, <2>1, <2>2 DEF BudgetInv, BudgetTypeOK, WritingInv
  <1>9. CASE ensure_observations
    <2>1. /\ stage = "structured" /\ Record
          /\ UNCHANGED <<work_units, tree_sitter_nodes, strings,
                         sampled_units, elapsed, outputs, payload>>
          /\ stage' \in {"writing", "refused"}
      BY <1>9 DEF ensure_observations
    <2>2. in_time' \in Nat /\ SampleInv' /\ LateInv'
      BY <2>1, QuietStep DEF Units
    <2>3. /\ observations' \in 0..MaxObservations
          /\ stage' = "writing" => outputs <= observations'
      BY SMTT(30), <1>0, <1>9 DEF ensure_observations, BudgetTypeOK, Fits
    <2> QED BY <1>0, <2>1, <2>2, <2>3 DEF BudgetInv, BudgetTypeOK, WritingInv
  <1>10. ASSUME NEW a \in Amounts, write(a) PROVE BudgetInv'
    <2>0. a \in Nat
      OBVIOUS
    <2>1. CASE Fits(payload + a, MaxOutput)
      <3>1. /\ stage = "writing" /\ payload' = payload + a /\ Record
            /\ UNCHANGED <<stage, work_units, tree_sitter_nodes, observations,
                           strings, sampled_units, elapsed, outputs>>
        BY <1>10, <2>1 DEF write, counterVars
      <3>2. in_time' \in Nat /\ SampleInv' /\ LateInv'
        BY <3>1, QuietStep DEF Units
      <3> QED BY SMTT(30), <1>0, <2>0, <2>1, <3>1, <3>2
              DEF BudgetInv, BudgetTypeOK, WritingInv, Fits
    <2>2. CASE ~Fits(payload + a, MaxOutput)
      BY <1>10, <2>2, RefuseStep DEF write
    <2> QED BY <2>1, <2>2
  <1>11. CASE store_extractor_batch
    <2>1. /\ stage = "writing" /\ stage' = "stored" /\ Record
          /\ UNCHANGED <<work_units, tree_sitter_nodes, observations, strings,
                         sampled_units, elapsed, outputs, payload>>
      BY <1>11 DEF store_extractor_batch, counterVars
    <2>2. in_time' \in Nat /\ SampleInv' /\ LateInv'
      BY <2>1, QuietStep DEF Units
    <2> QED BY <1>0, <2>1, <2>2 DEF BudgetInv, BudgetTypeOK, WritingInv
  <1>12. CASE load_extractor_batch
    <2>1. /\ stage = "stored" /\ stage' \in {"refused", "loaded"} /\ Record
          /\ UNCHANGED <<work_units, tree_sitter_nodes, observations, strings,
                         sampled_units, elapsed, outputs, payload>>
      BY <1>12 DEF load_extractor_batch, counterVars
    <2>2. in_time' \in Nat /\ SampleInv' /\ LateInv'
      BY <2>1, QuietStep DEF Units
    <2> QED BY <1>0, <2>1, <2>2 DEF BudgetInv, BudgetTypeOK, WritingInv
  <1>13. CASE UNCHANGED budgetVars
    BY <1>13 DEF budgetVars, counterVars, BudgetInv, BudgetTypeOK, SampleInv,
                 LateInv, WritingInv, Timed, Late, check_elapsed, Deadline,
                 Units
  <1> QED BY ZenonT(30), <1>1, <1>2, <1>3, <1>4, <1>5, <1>6, <1>7, <1>8, <1>9, <1>10,
             <1>11, <1>12, <1>13 DEF BudgetNext

\* The invariant gives the three properties.
LEMMA BudgetInvImplies ==
  BudgetInv => BudgetTypeOK /\ PromptRefusal /\ StoredBatchLoads
  <1> SUFFICES ASSUME BudgetInv
               PROVE  BudgetTypeOK /\ PromptRefusal /\ StoredBatchLoads
    OBVIOUS
  <1> USE BudgetAssumption
  <1>1. StoredBatchLoads
    BY SMTT(30) DEF BudgetInv, BudgetTypeOK, WritingInv, StoredBatchLoads
  <1>2. PromptRefusal
    <2> SUFFICES ASSUME Timed, Late, Units # in_time
                 PROVE  in_time > 0 /\ Units \div Block <= in_time \div Block
      BY DEF PromptRefusal
    <2>1. /\ Units \in Nat /\ in_time \in Nat /\ sampled_units \in Nat
          /\ Units \div Block <= sampled_units \div Block
          /\ sampled_units <= in_time
          /\ in_time = 0 => Units = 0
      BY SMTT(30) DEF BudgetInv, BudgetTypeOK, SampleInv, LateInv, Units
    <2>2. sampled_units \div Block <= in_time \div Block
      BY <2>1, DivMonotone
    <2>3. /\ Units \div Block \in Nat /\ sampled_units \div Block \in Nat
          /\ in_time \div Block \in Nat
      BY <2>1, DivNat
    <2> QED BY SMTT(30), <2>1, <2>2, <2>3
  <1> QED BY <1>1, <1>2 DEF BudgetInv

\* No sequence of charges takes a counter of the tracker past the maximum the
\* operator set for it.
THEOREM CountersBounded == BudgetSpec => []BudgetTypeOK
  BY BudgetInvInit, BudgetInvNext, BudgetInvImplies, PTL DEF BudgetSpec

\* For every sampling interval and every mixture of syntax nodes and work
\* units, an extraction past its deadline ends within the block it was in.
THEOREM DeadlineWithinBlock == BudgetSpec => []PromptRefusal
  BY BudgetInvInit, BudgetInvNext, BudgetInvImplies, PTL DEF BudgetSpec

\* For every budget, a batch that was stored loads again under that budget.
THEOREM StoredLoads == BudgetSpec => []StoredBatchLoads
  BY BudgetInvInit, BudgetInvNext, BudgetInvImplies, PTL DEF BudgetSpec

\* The tracker keeps every promise the run checks: counts within their limits,
\* the deadline noticed within a block, and stored batches that load again.
THEOREM BudgetsHold == BudgetSpec => []BudgetHolds
  BY CountersBounded, DeadlineWithinBlock, StoredLoads, PTL DEF BudgetHolds

-----------------------------------------------------------------------------
(***************************************************************************)
(* The stat cache                                                          *)
(***************************************************************************)
\* Sizes are those of contents.
LEMMA StatTyped ==
  ASSUME NEW f \in [content : Contents \cup {Missing}, modified : Times,
                    changed : Times],
         f.content # Missing
  PROVE  StatOf(f) \in Stats
BY DEF StatOf, Stats

\* The initial state satisfies the inductive invariant.
LEMMA StatsInvInit == StatsInit => StatsInv
BY SMTT(30), SMTT(30), FileStatsAssumption
   DEF StatsInit, StatsInv, StatsTypeOK, NoPass, NoStat, Stats, Times, HitIsCurrentIfSettled

\* A pass that ends without recording keeps the invariant.
LEMMA NoPassKeeps ==
  ASSUME StatsInv, UNCHANGED <<clock, source, cached>>, pass' = NoPass
  PROVE  StatsInv'
BY SMTT(30), FileStatsAssumption
   DEF StatsInv, StatsTypeOK, NoPass, NoStat, Stats, Times, HitIsCurrentIfSettled,
       HitIsCurrent, StatOf

\* Every step of the clock, of editors and of fingerprint_file keeps it.
LEMMA StatsInvNext == StatsInv /\ [StatsNext]_statVars => StatsInv'
<1> SUFFICES ASSUME StatsInv, [StatsNext]_statVars PROVE StatsInv'
  OBVIOUS
<1> USE FileStatsAssumption
<1>1. CASE ClockTicks
  BY SMTT(30), <1>1 DEF ClockTicks, StatsInv, StatsTypeOK, Times, Stats, HitIsCurrentIfSettled,
              HitIsCurrent, Unchanged, StatOf
<1>2. ASSUME NEW c \in Contents, NEW t \in Times,
             WriteFile(c, t) \/ WriteKeepingTime(c, t)
      PROVE  StatsInv'
  <2>1. UNCHANGED <<clock, cached, pass>>
    BY <1>2 DEF WriteFile, WriteKeepingTime
  <2>2. \E m \in Times :
          source' = [content |-> c, modified |-> m, changed |-> t]
    <3>1. CASE WriteFile(c, t)
      BY <3>1, <1>2 DEF WriteFile
    <3>2. CASE WriteKeepingTime(c, t)
      BY <3>2, <1>2 DEF WriteKeepingTime, StatsInv, StatsTypeOK
    <3> QED
      BY <1>2, <3>1, <3>2
  <2>3. StatsTypeOK'
    BY SMTT(30), <1>2, <2>2, <2>1 DEF StatsInv, StatsTypeOK
  <2>4. clock - Granularity < t
    BY <1>2 DEF WriteFile, WriteKeepingTime
  <2>5. /\ StatOf(source').changed = t
        /\ clock - Window < t
    BY SMTT(30), <2>2, <2>4 DEF StatsInv, StatsTypeOK, StatOf, Times
  <2>6. pass.step = "record" /\ pass.stat.changed < pass.before =>
          pass.stat # StatOf(source')
    BY SMTT(30), <2>5, <2>1 DEF StatsInv, StatsTypeOK, Stats, Times
  <2>7. cached # Missing /\ cached.stat.changed < cached.before =>
          cached.stat # StatOf(source')
    BY SMTT(30), <2>5, <2>1 DEF StatsInv, StatsTypeOK, Stats, Times
  <2> QED
    BY <2>3, <2>1, <2>6, <2>7
       DEF StatsInv, HitIsCurrentIfSettled, HitIsCurrent, Unchanged, StatOf
<1>3. CASE RemoveFile
  <2>1. /\ UNCHANGED <<clock, cached, pass>> /\ source'.content = Missing
        /\ source' \in [content : Contents \cup {Missing}, modified : Times, changed : Times]
    BY <1>3 DEF RemoveFile, StatsInv, StatsTypeOK
  <2>2. StatsTypeOK'
    BY <2>1 DEF StatsInv, StatsTypeOK
  <2> QED
    BY <2>1, <2>2 DEF StatsInv, HitIsCurrentIfSettled, HitIsCurrent, Unchanged
<1>4. ASSUME NEW force \in BOOLEAN, StartPass(force) PROVE StatsInv'
  <2>1. RecordedBefore \in Int /\ RecordedBefore <= clock - Window
    BY SMTT(30) DEF RecordedBefore, StatsInv, StatsTypeOK, Times
  <2>2. \/ pass' = pass
        \/ pass' = [step |-> "stat", force |-> force,
                    before |-> RecordedBefore, stat |-> NoStat,
                    hash |-> Missing]
    BY <1>4 DEF StartPass, NoPass
  <2>3. cached' = cached \/ (cached' = Missing /\ pass' = pass /\ ~force)
    BY <1>4 DEF StartPass
  <2>4. UNCHANGED <<clock, source>> /\ pass.step = "idle"
    BY <1>4 DEF StartPass
  <2>5. NoStat \in Stats
    BY SMTT(30) DEF NoStat, Stats, Times
  <2>6. StatsTypeOK'
    BY SMTT(30), <2>1, <2>2, <2>3, <2>4, <2>5 DEF StatsInv, StatsTypeOK
  <2>7. pass'.step # "record"
    BY SMTT(30), <2>2, <2>4
  <2> QED
    BY SMTT(30), <2>1, <2>2, <2>3, <2>4, <2>6, <2>7
       DEF StatsInv, HitIsCurrentIfSettled, HitIsCurrent, StatOf
<1>5. CASE StatFile
  <2>1. CASE source.content = Missing
    BY <1>5, <2>1, NoPassKeeps DEF StatFile
  <2>2. CASE source.content # Missing
    <3>1. StatOf(source) \in Stats
      BY <2>2, StatTyped DEF StatsInv, StatsTypeOK
    <3>2. StatsTypeOK'
      BY ZenonT(30), <1>5, <2>2, <3>1 DEF StatFile, StatsInv, StatsTypeOK
    <3>3. pass'.step = "record" => Unchanged'
      BY ZenonT(30), <1>5, <2>2, <3>1 DEF StatFile, StatsInv, StatsTypeOK, Unchanged
    <3> QED
      BY ZenonT(30), ZenonT(30), <1>5, <2>2, <3>2, <3>3 DEF StatFile, StatsInv, StatsTypeOK,
           HitIsCurrentIfSettled, HitIsCurrent
  <2> QED
    BY <2>1, <2>2
<1>6. CASE ReadFile
  <2>1. CASE source.content = Missing
    BY <1>6, <2>1, NoPassKeeps DEF ReadFile
  <2>2. CASE source.content # Missing
    <3>1. /\ UNCHANGED <<clock, source, cached>>
          /\ pass' = [pass EXCEPT !.step = "record", !.hash = source.content]
          /\ pass.step = "read"
      BY <1>6, <2>2 DEF ReadFile
    <3>2. StatsTypeOK'
      BY <2>2, <3>1 DEF StatsInv, StatsTypeOK
    <3>3. pass'.hash = source.content /\ pass'.before = pass.before
      BY <3>1 DEF StatsInv, StatsTypeOK
    <3> QED
      BY <3>1, <3>2, <3>3
         DEF StatsInv, HitIsCurrentIfSettled, HitIsCurrent, StatOf
  <2> QED
    BY <2>1, <2>2
<1>7. CASE RecordStat
  <2>1. StatsTypeOK'
    BY SMTT(30), <1>7 DEF RecordStat, StatsInv, StatsTypeOK, NoPass, NoStat, Stats, Times
  <2>2. pass'.step = "idle" /\ UNCHANGED <<clock, source>>
    BY <1>7 DEF RecordStat, NoPass
  <2>3. \/ cached' = cached \/ cached' = Missing
        \/ /\ ~Unchanged
           /\ cached' = [stat |-> pass.stat, hash |-> pass.hash,
                         before |-> pass.before]
    BY SMTT(30), <1>7 DEF RecordStat, Unchanged, StatsInv, StatsTypeOK, Stats, Times
  <2>4. pass.step = "record"
    BY <1>7 DEF RecordStat
  <2> QED
    BY SMTT(30), <2>1, <2>2, <2>3, <2>4
       DEF StatsInv, HitIsCurrentIfSettled, HitIsCurrent, StatOf
<1>8. CASE EndPass
  BY <1>8, NoPassKeeps DEF EndPass
<1>9. CASE UNCHANGED statVars
  BY <1>9 DEF statVars, StatsInv, StatsTypeOK, HitIsCurrentIfSettled, HitIsCurrent,
       Unchanged, StatOf
<1> QED
  BY <1>1, <1>2, <1>3, <1>4, <1>5, <1>6, <1>7, <1>8, <1>9 DEF StatsNext

\* The inductive invariant holds throughout.
THEOREM StatCacheInductive == StatsSpec => []StatsInv
BY StatsInvInit, StatsInvNext, PTL DEF StatsSpec

\* A hit of the stat cache of fingerprint_file is the hash of the content, if
\* the change time was old enough when the row was recorded.
THEOREM SettledHitIsCurrent == StatsSpec => []HitIsCurrentIfSettled
<1>1. StatsInv => HitIsCurrentIfSettled
  BY DEF StatsInv
<1> QED
  BY <1>1, StatCacheInductive, PTL
-----------------------------------------------------------------------------
(***************************************************************************)
(* The sidecar: enough files                                               *)
(***************************************************************************)
INSTANCE FiniteSetTheorems

LEMMA FilesSuffice == MoreFiles
<1> SUFFICES ASSUME NEW open \in [Watchers -> SidecarFiles \cup {0}]
             PROVE  \E f \in SidecarFiles : \A p \in Watchers : open[p] # f
  BY DEF MoreFiles
<1> DEFINE used == {open[p] : p \in Watchers}
<1>1. IsFiniteSet(Watchers) /\ Cardinality(Watchers) \in Nat
  BY WorkSidecarAssumption, FS_CardinalityType
<1>2. IsFiniteSet(used) /\ Cardinality(used) <= Cardinality(Watchers)
  <2>1. open \in Surjection(Watchers, used)
    BY DEF Surjection
  <2> QED
    BY ZenonT(30), <1>1, <2>1, FS_Surjection
<1>3. Cardinality(SidecarFiles) = Cardinality(Watchers) + 1
  BY SMTT(30), <1>1, FS_Interval DEF SidecarFiles
<1>4. Cardinality(used) \in Nat
  BY <1>2, FS_CardinalityType
<1>5. ~(SidecarFiles \subseteq used)
  <2> SUFFICES ASSUME SidecarFiles \subseteq used PROVE FALSE
    OBVIOUS
  <2>1. Cardinality(SidecarFiles) <= Cardinality(used)
    BY <1>2, FS_Subset
  <2> HIDE DEF used
  <2> QED
    BY SMTT(30), <1>1, <1>2, <1>3, <1>4, <2>1
<1> QED
  BY <1>5

LEMMA SidecarStarts == SidecarInit => SidecarInv
<1> SUFFICES ASSUME SidecarInit PROVE SidecarInv
  OBVIOUS
<1>1. Cardinality(Watchers) \in Nat
  BY WorkSidecarAssumption, FS_CardinalityType
<1>2. NewFile \in FileRecords
  BY DEF NewFile, NoLease, FileRecords, Leases
<1>3. 1 \in SidecarFiles /\ 1 \in Instances
  BY SMTT(30), <1>1, WorkSidecarAssumption DEF SidecarFiles, Instances
<1>4. SidecarTypeOK
  <2>1. files \in [SidecarFiles -> FileRecords]
    BY <1>2, <1>3 DEF SidecarInit, FileRecords
  <2>2. proc \in [Watchers -> ProcessRecords]
    BY DEF SidecarInit, NotStarted, ProcessRecords
  <2>3. path \in SidecarFiles \cup {0} /\ instance \in Instances
    BY <1>3, WorkSidecarAssumption DEF SidecarInit
  <2> QED
    BY <2>1, <2>2, <2>3 DEF SidecarTypeOK, FileRecords, ProcessRecords
<1>5. ReadyIsBound /\ BindingInv
  BY DEF SidecarInit, NotStarted, ReadyIsBound, BindingInv, ProcAt, Opened
<1>6. UnclaimedInv
  BY DEF SidecarInit, UnclaimedInv, NewFile
<1> QED
  BY <1>4, <1>5, <1>6 DEF SidecarInv

\* A call on the work sidecar reads and writes rows only in a file bound to
\* the identity it read (WorkState::open), and the row of a running watcher is
\* taken or ended by nobody else (start_watcher, finish_watcher), for every
\* number of watchers and however they interleave and crash.
THEOREM SidecarIsBoundAndLeaseKept ==
  SidecarSpec => [](SidecarTypeOK /\ ReadyIsBound) /\ LeaseKept
<1>1. SidecarInv /\ [SidecarNext]_sidecarVars => SidecarInv'
  BY SidecarKeeps, FilesSuffice
<1>2. SidecarInv => SidecarTypeOK /\ ReadyIsBound
  BY DEF SidecarInv
<1>3. SidecarInv /\ [SidecarNext]_sidecarVars =>
        [\A p \in Watchers :
           /\ path # 0 /\ path' = path /\ Holds(p, path)
           /\ proc'[p].state = "alive" /\ proc'[p].watching
           => Holds(p, path)']_sidecarVars
  <2> SUFFICES ASSUME SidecarInv, [SidecarNext]_sidecarVars, NEW p \in Watchers,
                      path # 0, path' = path, Holds(p, path),
                      proc'[p].state = "alive", proc'[p].watching
               PROVE  Holds(p, path)'
    OBVIOUS
  <2> QED
    BY LeaseStays, FilesSuffice DEF Holds
<1> QED
  BY <1>1, <1>2, <1>3, SidecarStarts, PTL DEF SidecarSpec, LeaseKept

-----------------------------------------------------------------------------
(***************************************************************************)
(* Manual links                                                            *)
(***************************************************************************)
\* A set of numbers has a smallest one.
LEMMA SmallestOf ==
  ASSUME NEW T, T \subseteq Nat, T # {}
  PROVE  \E x \in T : \A y \in T : x <= y
<1>1. \E x \in T : \A y \in T : ~ (<<y, x>> \in OpToRel(<, Nat))
  BY WFMin, NatLessThanWellFounded
<1>2. PICK x \in T : \A y \in T : ~ (<<y, x>> \in OpToRel(<, Nat))
  BY <1>1
<1>3. \A y \in T : ~ (y < x)
  BY <1>2 DEF OpToRel
<1> QED
  BY SMTT(30), <1>3

\* A resolved declaration is about the only nodes that its texts name.
ResolvedOf(r) ==
  /\ r.index \in DOMAIN links
  /\ Candidates(links[r.index].from) = {r.source}
  /\ Candidates(links[r.index].to) = {r.target}
  /\ r.kind = links[r.index].relation
  /\ r.suppress = links[r.index].suppress

\* The first declarations are resolved, each to a relationship of its own.
ResolvedInv ==
  /\ IsFiniteSet(resolved) /\ Cardinality(resolved) <= Len(links)
  /\ \A r \in resolved : ResolvedOf(r) /\ r.index <= Cardinality(resolved)
  /\ \A i \in 1..Cardinality(resolved) : \E r \in resolved : r.index = i
  /\ \A r, q \in resolved : Relationship(r) = Relationship(q) => r = q

\* The automatic edges that the declarations A leave, and the edges they create.
Untouched(A) == {e \in automatic : \A r \in A : Relationship(r) # Relationship(e)}
Created(A) == {manual_link_edge(r) : r \in {q \in A : ~ q.suppress}}

\* What the declarations applied so far have done.
AppliedInv ==
  /\ unapplied \subseteq resolved
  /\ linking = "resolve" => unapplied = {} /\ edges = automatic
  /\ linking \in {"apply", "done"} =>
       /\ Cardinality(resolved) = Len(links)
       /\ edges = Untouched(resolved \ unapplied) \cup Created(resolved \ unapplied)
       /\ \A r \in resolved \ unapplied :
            r.suppress => \E e \in automatic : Relationship(e) = Relationship(r)
  /\ linking = "done" => unapplied = {}

\* The inductive invariant of manual links.
LinkInv ==
  /\ links \in Declarations /\ automatic \in AutomaticEdges
  /\ ResolvedInv /\ AppliedInv

LEMMA LinksAreTyped ==
  ASSUME links \in Declarations
  PROVE  /\ DOMAIN links = 1..Len(links) /\ Len(links) \in Nat
         /\ \A i \in DOMAIN links : links[i].relation \in Nat /\ links[i].suppress \in BOOLEAN
<1> DEFINE S == {links[i] : i \in DOMAIN links}
<1>1. links \in Seq(S)
  BY LinkAssumption
<1>2. \A i \in DOMAIN links : links[i].relation \in Nat /\ links[i].suppress \in BOOLEAN
  BY LinkAssumption
<1> HIDE DEF S
<1> QED
  BY SMTT(30), <1>1, <1>2

LEMMA CandidatesFinite ==
  ASSUME NEW value
  PROVE  IsFiniteSet(Candidates(value)) /\ Candidates(value) \subseteq Nat
<1> DEFINE S == {m \in GraphNodes : m.id = value \/ m.key = value}
<1>1. IsFiniteSet(S)
  BY LinkAssumption, FS_Subset
<1>2. IsFiniteSet({n.id : n \in S})
  <2> DEFINE f == [n \in S |-> n.id]
             T == {n.id : n \in S}
  <2>1. f \in Surjection(S, T)
    BY DEF Surjection
  <2> HIDE DEF f, S, T
  <2>2. IsFiniteSet(T)
    BY ZenonT(30), <1>1, <2>1, FS_Surjection
  <2> QED
    BY <2>2 DEF T
<1>3. Candidates(value) = {n.id : n \in S}
  BY DEF Candidates
<1>4. \A n \in S : n.id \in Nat
  BY LinkAssumption
<1> QED
  BY <1>2, <1>3, <1>4

LEMMA LinkStarts == LinkInit => LinkInv
<1> SUFFICES ASSUME LinkInit PROVE LinkInv
  OBVIOUS
<1>1. Len(links) \in Nat
  BY LinksAreTyped DEF LinkInit
<1> QED
  BY SMTT(30), <1>1, FS_EmptySet DEF LinkInit, LinkStart, LinkInv, ResolvedInv, AppliedInv

\* An error leaves what was resolved and applied.
LEMMA LinkErrorInv ==
  ASSUME LinkInv, NEW error, error \notin {"resolve", "apply", "done"}, LinkError(error)
  PROVE  LinkInv'
BY ZenonT(60) DEF LinkInv, LinkError, ResolvedInv, ResolvedOf, AppliedInv, Candidates, Relationship

LEMMA ResolveLinkInv ==
  ASSUME LinkInv, ResolveLink
  PROVE  LinkInv'
<1> DEFINE k == Cardinality(resolved) + 1
           from == Candidates(links[k].from)
           into == Candidates(links[k].to)
           item == [source |-> CHOOSE n \in from : TRUE,
                    target |-> CHOOSE n \in into : TRUE,
                    kind |-> links[k].relation,
                    suppress |-> links[k].suppress,
                    index |-> k]
<1>1. CASE \E error \in {"missing", "ambiguous", "self", "duplicate"} : LinkError(error)
  BY <1>1, LinkErrorInv
<1>2. CASE /\ Cardinality(from) = 1 /\ Cardinality(into) = 1
           /\ ~ Repeated(item)
           /\ resolved' = resolved \cup {item}
           /\ UNCHANGED <<links, automatic, unapplied, edges, linking>>
  <2>1. linking = "resolve" /\ Cardinality(resolved) < Len(links)
    BY DEF ResolveLink
  <2>2. /\ Len(links) \in Nat /\ DOMAIN links = 1..Len(links)
        /\ IsFiniteSet(resolved) /\ Cardinality(resolved) \in Nat
    BY LinksAreTyped, FS_CardinalityType DEF LinkInv, ResolvedInv
  <2>3. PICK s : from = {s}
    BY <1>2, CandidatesFinite, FS_Singleton
  <2>4. PICK t : into = {t}
    BY ZenonT(30), <1>2, CandidatesFinite, FS_Singleton
  <2>5. item.source = s /\ item.target = t /\ item.kind = links[k].relation
        /\ item.suppress = links[k].suppress /\ item.index = k
    BY <2>3, <2>4
  <2>6. k \in DOMAIN links
    BY SMTT(30), <2>1, <2>2
  <2> HIDE DEF item
  <2>7. item \notin resolved
    BY <1>2 DEF Repeated
  <2>8. IsFiniteSet(resolved') /\ Cardinality(resolved') = k
    BY ZenonT(30), <1>2, <2>2, <2>7, FS_AddElement
  <2>9. ResolvedOf(item)
    BY ZenonT(30), <2>3, <2>4, <2>5, <2>6 DEF ResolvedOf
  <2>10. ResolvedInv'
    <3>1. \A r \in resolved' : ResolvedOf(r)' /\ r.index <= k
      <4> SUFFICES ASSUME NEW r \in resolved' PROVE ResolvedOf(r)' /\ r.index <= k
        OBVIOUS
      <4>1. ResolvedOf(r) /\ r.index <= k
        <5>1. CASE r = item
          BY SMTT(30), <2>2, <2>5, <2>9, <5>1
        <5>2. CASE r \in resolved
          <6>1. ResolvedOf(r) /\ r.index <= Cardinality(resolved)
            BY <5>2 DEF LinkInv, ResolvedInv
          <6>2. r.index \in Nat
            BY SMTT(30), <2>2, <6>1 DEF ResolvedOf
          <6> QED
            BY SMTT(30), <2>2, <6>1, <6>2
        <5> QED
          BY <1>2, <5>1, <5>2
      <4> QED
        BY <1>2, <4>1 DEF ResolvedOf, Candidates
    <3>2. \A i \in 1..k : \E r \in resolved' : r.index = i
      <4> SUFFICES ASSUME NEW i \in 1..k PROVE \E r \in resolved' : r.index = i
        OBVIOUS
      <4>1. CASE i = k
        BY <1>2, <2>5, <4>1
      <4>2. CASE i # k
        <5>1. i \in 1..Cardinality(resolved)
          BY SMTT(30), <2>2, <4>2
        <5> QED
          BY <1>2, <5>1 DEF LinkInv, ResolvedInv
      <4> QED
        BY <4>1, <4>2
    <3>3. \A r, q \in resolved' : Relationship(r) = Relationship(q) => r = q
      BY <1>2 DEF LinkInv, ResolvedInv, Repeated
    <3>4. k <= Len(links)'
      BY SMTT(30), <1>2, <2>1, <2>2
    <3> QED
      BY ZenonT(30), <2>8, <3>1, <3>2, <3>3, <3>4 DEF ResolvedInv, Relationship
  <2>11. AppliedInv'
    BY ZenonT(30), <1>2, <2>1 DEF LinkInv, AppliedInv
  <2> QED
    BY <1>2, <2>10, <2>11 DEF LinkInv
<1> QED
  BY <1>1, <1>2 DEF ResolveLink

LEMMA SortResolvedInv ==
  ASSUME LinkInv, SortResolved
  PROVE  LinkInv'
<1>1. ResolvedInv'
  BY ZenonT(30) DEF LinkInv, SortResolved, ResolvedInv, ResolvedOf, Candidates, Relationship
<1>2. Untouched({}) = automatic /\ Created({}) = {}
  BY DEF Untouched, Created
<1>3. AppliedInv'
  BY <1>2 DEF LinkInv, SortResolved, AppliedInv, Untouched, Created, Relationship,
              manual_link_edge
<1> QED
  BY <1>1, <1>3 DEF LinkInv, SortResolved

\* The order of application has a first declaration.
LEMMA NextLinkIsUnapplied ==
  ASSUME LinkInv, unapplied # {}
  PROVE  NextLink \in unapplied
<1>1. \A r \in unapplied : r.source \in Nat /\ r.target \in Nat /\ r.kind \in Nat
  <2> SUFFICES ASSUME NEW r \in unapplied
               PROVE  r.source \in Nat /\ r.target \in Nat /\ r.kind \in Nat
    OBVIOUS
  <2>1. ResolvedOf(r)
    BY DEF LinkInv, AppliedInv, ResolvedInv
  <2> QED
    BY <2>1, CandidatesFinite, LinksAreTyped DEF ResolvedOf, LinkInv
<1> DEFINE sources == {r.source : r \in unapplied}
<1>a. sources \subseteq Nat /\ sources # {}
  BY <1>1
<1>2. PICK s \in sources : \A y \in sources : s <= y
  BY <1>a, SmallestOf
<1> DEFINE targets == {r.target : r \in {q \in unapplied : q.source = s}}
<1>b. targets \subseteq Nat /\ targets # {}
  BY <1>1, <1>2
<1>3. PICK t \in targets : \A y \in targets : t <= y
  BY <1>b, SmallestOf
<1> DEFINE kinds == {r.kind : r \in {q \in unapplied : q.source = s /\ q.target = t}}
<1>c. kinds \subseteq Nat /\ kinds # {}
  BY <1>1, <1>3
<1>4. PICK k \in kinds : \A y \in kinds : k <= y
  BY <1>c, SmallestOf
<1>5. PICK a \in unapplied : a.source = s /\ a.target = t /\ a.kind = k
  BY <1>4
<1>6. ASSUME NEW b \in unapplied \ {a}
      PROVE  ~ Sooner(b, a)
  <2>1. Relationship(b) # Relationship(a)
    BY <1>6 DEF LinkInv, AppliedInv, ResolvedInv
  <2>2. s <= b.source
    BY <1>2, <1>6
  <2>3. b.source = s => t <= b.target
    BY <1>3, <1>6
  <2>4. b.source = s /\ b.target = t => k <= b.kind
    BY <1>4, <1>6
  <2> QED
    BY SMTT(30), <1>1, <1>5, <1>6, <2>1, <2>2, <2>3, <2>4 DEF Sooner
<1>7. \E x \in unapplied : \A b \in unapplied \ {x} : ~ Sooner(b, x)
  BY <1>5, <1>6
<1> QED
  BY <1>7 DEF NextLink

LEMMA ApplyLinkInv ==
  ASSUME LinkInv, ApplyLink
  PROVE  LinkInv'
<1> DEFINE item == NextLink
           applied == resolved \ unapplied
<1>1. item \in unapplied /\ item \in resolved /\ linking = "apply"
  BY NextLinkIsUnapplied DEF ApplyLink, LinkInv, AppliedInv
<1>2. CASE LinkError("nothing_to_suppress")
  BY <1>2, LinkErrorInv
<1>3. CASE /\ ~ (item.suppress /\ Matching(item) = {})
           /\ edges' = (edges \ Matching(item))
                         \cup (IF item.suppress THEN {} ELSE {manual_link_edge(item)})
           /\ unapplied' = unapplied \ {item}
           /\ UNCHANGED <<links, automatic, resolved, linking>>
  <2> HIDE DEF item
  <2>1. edges = Untouched(applied) \cup Created(applied)
    BY <1>1 DEF LinkInv, AppliedInv
  <2>2. \A e \in Created(applied) : Relationship(e) # Relationship(item)
    <3> SUFFICES ASSUME NEW r \in applied
                 PROVE  Relationship(manual_link_edge(r)) # Relationship(item)
      BY DEF Created
    <3>1. r # item /\ r \in resolved
      BY <1>1
    <3>2. Relationship(r) # Relationship(item)
      BY <1>1, <3>1 DEF LinkInv, ResolvedInv
    <3> QED
      BY <3>2 DEF Relationship, manual_link_edge
  <2>3. resolved' \ unapplied' = applied \cup {item}
    BY ZenonT(30), <1>1, <1>3
  <2>4. edges' = Untouched(applied \cup {item}) \cup Created(applied \cup {item})
    <3>1. Untouched(applied) \ Matching(item) = Untouched(applied \cup {item})
      BY <2>1 DEF Untouched, Matching
    <3>2. Created(applied) \ Matching(item) = Created(applied)
      BY <2>2 DEF Matching
    <3>3. Created(applied \cup {item}) =
            Created(applied) \cup (IF item.suppress THEN {} ELSE {manual_link_edge(item)})
      BY DEF Created
    <3> QED
      BY ZenonT(30), <1>3, <2>1, <3>1, <3>2, <3>3
  <2>5. item.suppress => \E e \in automatic : Relationship(e) = Relationship(item)
    BY ZenonT(30), <1>3, <2>1, <2>2 DEF Matching, Untouched
  <2>6. ResolvedInv'
    BY ZenonT(30), <1>3 DEF LinkInv, ResolvedInv, ResolvedOf, Candidates, Relationship
  <2>7. AppliedInv'
    <3>1. \A r \in applied \cup {item} :
            r.suppress => \E e \in automatic : Relationship(e) = Relationship(r)
      BY <1>1, <2>5 DEF LinkInv, AppliedInv
    <3>2. Untouched(resolved \ unapplied)' = Untouched(applied \cup {item})
      BY <1>3, <2>3 DEF Untouched, Relationship
    <3>3. Created(resolved \ unapplied)' = Created(applied \cup {item})
      BY <1>3, <2>3 DEF Created, manual_link_edge
    <3> QED
      BY <1>1, <1>3, <2>3, <2>4, <3>1, <3>2, <3>3 DEF LinkInv, AppliedInv, Relationship
  <2> QED
    BY ZenonT(30), <1>3, <2>6, <2>7 DEF LinkInv
<1> QED
  BY <1>2, <1>3 DEF ApplyLink

LEMMA LinkInvKept == LinkInv /\ [LinkNext]_linkVars => LinkInv'
<1> SUFFICES ASSUME LinkInv, [LinkNext]_linkVars PROVE LinkInv'
  OBVIOUS
<1>1. CASE InvalidManualLinks
  BY ZenonT(30), <1>1, LinkErrorInv DEF InvalidManualLinks
<1>2. CASE LinksApplied
  BY ZenonT(60), <1>2 DEF LinksApplied, LinkInv, ResolvedInv, ResolvedOf, AppliedInv, Candidates,
              Relationship, Untouched, Created, manual_link_edge
<1>3. CASE UNCHANGED linkVars
  BY ZenonT(60), <1>3 DEF linkVars, LinkInv, ResolvedInv, ResolvedOf, AppliedInv, Candidates,
              Relationship, Untouched, Created, manual_link_edge
<1> QED
  BY ZenonT(30), <1>1, <1>2, <1>3, ResolveLinkInv, SortResolvedInv, ApplyLinkInv DEF LinkNext

\* When all declarations are applied, each has decided the edges it means.
LEMMA DeclarationsFollow == LinkInv => DeclarationsHold
<1> SUFFICES ASSUME LinkInv, linking = "done" PROVE DeclarationsHold
  BY DEF DeclarationsHold, DeclarationsDecide, SuppressionsHadTargets
<1>1. /\ unapplied = {} /\ Cardinality(resolved) = Len(links)
      /\ edges = Untouched(resolved) \cup Created(resolved)
      /\ \A r \in resolved : r.suppress => \E e \in automatic : Relationship(e) = Relationship(r)
  BY DEF LinkInv, AppliedInv
<1>2. DOMAIN links = 1..Len(links)
  BY LinksAreTyped DEF LinkInv
<1>3. ASSUME NEW r \in resolved, NEW e
      PROVE  Means(links[r.index], e) <=> Relationship(r) = Relationship(e)
  <2>1. ResolvedOf(r)
    BY DEF LinkInv, ResolvedInv
  <2>2. (\E n \in GraphNodes : n.id = e.source /\ links[r.index].from \in {n.id, n.key})
          <=> e.source \in Candidates(links[r.index].from)
    BY DEF Candidates
  <2>3. (\E n \in GraphNodes : n.id = e.target /\ links[r.index].to \in {n.id, n.key})
          <=> e.target \in Candidates(links[r.index].to)
    BY DEF Candidates
  <2> QED
    BY <2>1, <2>2, <2>3 DEF Means, Relationship, ResolvedOf
<1>4. \A i \in DOMAIN links : \E r \in resolved : r.index = i
  BY <1>1, <1>2 DEF LinkInv, ResolvedInv
<1>5. \A r \in resolved : r.index \in DOMAIN links /\ r.suppress = links[r.index].suppress
  BY DEF LinkInv, ResolvedInv, ResolvedOf
<1>6. \A r \in resolved : Relationship(manual_link_edge(r)) = Relationship(r)
                          /\ manual_link_edge(r).origin = "manual"
  BY DEF Relationship, manual_link_edge
<1>7. ASSUME NEW e \in automatic
      PROVE  e \in edges <=> ~ \E i \in DOMAIN links : Means(links[i], e)
  <2>1. e \notin Created(resolved)
    BY <1>6, LinkAssumption DEF LinkInv, Created
  <2>2. e \in edges <=> \A r \in resolved : Relationship(r) # Relationship(e)
    BY <1>1, <2>1 DEF Untouched
  <2> QED
    BY <1>3, <1>4, <1>5, <2>2
<1>8. ASSUME NEW i \in DOMAIN links
      PROVE  /\ links[i].suppress => \E e \in automatic : Means(links[i], e)
             /\ LET about == {e \in edges : Means(links[i], e)}
                IN IF links[i].suppress THEN about = {}
                   ELSE /\ Cardinality(about) = 1
                        /\ \A e \in about : e.origin = "manual"
  <2>1. PICK r \in resolved : r.index = i /\ r.suppress = links[i].suppress
    BY SMTT(30), <1>4, <1>5
  <2> DEFINE about == {e \in edges : Means(links[i], e)}
  <2>2. about = {e \in Created(resolved) : Relationship(r) = Relationship(e)}
    BY <1>1, <1>3, <2>1 DEF Untouched
  <2>3. about = IF r.suppress THEN {} ELSE {manual_link_edge(r)}
    <3>1. \A q \in resolved : Relationship(r) = Relationship(manual_link_edge(q)) <=> q = r
      BY <1>6 DEF LinkInv, ResolvedInv
    <3> QED
      BY <2>2, <3>1 DEF Created
  <2>4. links[i].suppress => \E e \in automatic : Means(links[i], e)
    BY <1>1, <1>3, <2>1
  <2> HIDE DEF about
  <2>5. IF links[i].suppress THEN about = {}
        ELSE Cardinality(about) = 1 /\ \A e \in about : e.origin = "manual"
    BY <1>6, <2>1, <2>3, FS_Singleton
  <2> QED
    BY <2>4, <2>5 DEF about
<1> QED
  BY ZenonT(30), <1>7, <1>8 DEF DeclarationsHold, DeclarationsDecide, SuppressionsHadTargets

\* For any nodes, declarations and automatic edges: when the declarations are accepted, they
\* have decided exactly the edges they mean, whatever their order (resolve_manual_links).
THEOREM DeclarationsAlwaysHold == LinkSpec => []DeclarationsHold
BY LinkStarts, LinkInvKept, DeclarationsFollow, PTL DEF LinkSpec

-----------------------------------------------------------------------------
(***************************************************************************)
(* Inferred hosts                                                          *)
(***************************************************************************)
\* The map remembers the repository that alone declared a host, and only that
\* there were several otherwise.
InferredInv ==
  /\ read \subseteq Deployments
  /\ DOMAIN inferred = {d.host : d \in read}
  /\ \A h \in DOMAIN inferred :
       \/ Hosts(h) = {inferred[h]} /\ inferred[h] # Several
       \/ inferred[h] = Several /\ \E r, s \in Hosts(h) : r # s

LEMMA InferInv ==
  ASSUME InferredInv, NEW d \in Deployments, infer(d)
  PROVE  InferredInv'
<1>1. read' = read \cup {d} /\ d.repo # Several
  BY RouteAssumption DEF infer
<1>2. DOMAIN inferred' = DOMAIN inferred \cup {d.host}
  BY DEF infer
<1>3. DOMAIN inferred' = {e.host : e \in read'}
  BY <1>1, <1>2 DEF InferredInv
<1>4. ASSUME NEW h \in DOMAIN inferred'
      PROVE  \/ Hosts(h)' = {inferred'[h]} /\ inferred'[h] # Several
             \/ inferred'[h] = Several /\ \E r, s \in Hosts(h)' : r # s
  <2>1. CASE h # d.host
    <3>1. h \in DOMAIN inferred /\ inferred'[h] = inferred[h]
      BY <1>2, <2>1 DEF infer
    <3>2. Hosts(h)' = Hosts(h)
      BY <1>1, <2>1 DEF Hosts
    <3> QED
      BY SMTT(30), <3>1, <3>2 DEF InferredInv
  <2>2. CASE h = d.host
    <3>1. Hosts(h)' = Hosts(h) \cup {d.repo}
      BY <1>1, <2>2 DEF Hosts
    <3>2. inferred'[h] = IF h \in DOMAIN inferred /\ inferred[h] # d.repo THEN Several
                         ELSE d.repo
      BY <1>2, <2>2 DEF infer, Inferred
    <3>3. CASE h \notin DOMAIN inferred
      <4>1. Hosts(h) = {}
        BY <3>3 DEF InferredInv, Hosts
      <4> QED
        BY ZenonT(30), <1>1, <3>1, <3>2, <3>3, <4>1
    <3>4. CASE h \in DOMAIN inferred
      BY ZenonT(30), <1>1, <3>1, <3>2, <3>4 DEF InferredInv
    <3> QED
      BY <3>3, <3>4
  <2> QED
    BY <2>1, <2>2
<1> QED
  BY <1>1, <1>3, <1>4 DEF InferredInv

LEMMA InferredInvKept == InferredInv /\ [RouteNext]_routeVars => InferredInv'
<1> SUFFICES ASSUME InferredInv, [RouteNext]_routeVars PROVE InferredInv'
  OBVIOUS
<1>1. CASE UNCHANGED <<inferred, read>>
  BY <1>1 DEF InferredInv, Hosts
<1> QED
  BY <1>1, InferInv DEF RouteNext, insert, link_remote_call, routeVars

LEMMA InferredFollows == InferredInv => InferenceIgnoresOrder
<1> SUFFICES ASSUME InferredInv, NEW h \in DOMAIN inferred
             PROVE  IF Cardinality(Hosts(h)) > 1 THEN inferred[h] = Several
                    ELSE Hosts(h) = {inferred[h]}
  BY DEF InferenceIgnoresOrder, InferredInv
<1>1. IsFiniteSet(Hosts(h))
  <2> DEFINE S == {e \in read : e.host = h}
             T == {e.repo : e \in S}
             f == [e \in S |-> e.repo]
  <2>1. IsFiniteSet(S)
    BY RouteAssumption, FS_Subset DEF InferredInv
  <2>2. f \in Surjection(S, T)
    BY DEF Surjection
  <2>3. T = Hosts(h)
    BY DEF Hosts
  <2> HIDE DEF S, T, f
  <2> QED
    BY <2>1, <2>2, <2>3, FS_Surjection
<1>2. CASE Hosts(h) = {inferred[h]} /\ inferred[h] # Several
  <2>1. Cardinality(Hosts(h)) = 1
    BY <1>2, FS_Singleton
  <2> QED
    BY SMTT(30), <1>2, <2>1
<1>3. CASE inferred[h] = Several /\ \E r, s \in Hosts(h) : r # s
  <2>1. Cardinality(Hosts(h)) # 0 /\ Cardinality(Hosts(h)) # 1
    BY <1>1, <1>3, FS_EmptySet, FS_Singleton
  <2>2. Cardinality(Hosts(h)) \in Nat
    BY <1>1, FS_CardinalityType
  <2>3. Cardinality(Hosts(h)) > 1
    BY SMTT(30), <2>1, <2>2
  <2> QED
    BY <1>3, <2>3
<1> QED
  BY <1>2, <1>3 DEF InferredInv

\* For any finite set of deployment declarations: which repository a host is inferred for
\* does not depend on the order in which the declarations are read, and a host of several
\* repositories is inferred for none (AuthorityMap::infer).
THEOREM InferenceKeepsNoOrder == RouteSpec => []InferenceIgnoresOrder
<1>1. RouteInit => InferredInv
  BY SMTT(30) DEF RouteInit, InferredInv
<1> QED
  BY <1>1, InferredInvKept, InferredFollows, PTL DEF RouteSpec

=============================================================================
