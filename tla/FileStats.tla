------------------------------ MODULE FileStats ------------------------------
(***************************************************************************)
(* The stat cache of fingerprint_file: the content hash of a file is taken *)
(* from the cache, without reading the file, when size, modification time  *)
(* and identity (on Unix including the change time) equal those recorded.  *)
(*                                                                         *)
(* One file.  Time stamps lag behind the clock by less than Granularity,   *)
(* the resolution of the file system.  Files are edited at any moment of a *)
(* fingerprinting pass.                                                    *)
(***************************************************************************)
EXTENDS Integers

CONSTANTS
  Contents,
  SizeOf,         \* size of a file by content
  Granularity,    \* resolution of file time stamps
  Window,         \* RACY_WINDOW_NS
  MaxClock,       \* bound of the clock
  Missing

ASSUME FileStatsAssumption ==
  /\ Missing \notin Contents
  /\ Granularity \in Nat /\ Window \in Nat /\ MaxClock \in Nat
  /\ 0 < Granularity /\ Granularity <= Window

VARIABLES
  clock,
  source,         \* content (Missing: no file), modification and change time
  cached,         \* the row of file_stats, or Missing; `before` is not stored:
                  \* it remembers the limit the row was recorded under
  pass            \* the fingerprinting pass and its locals

statVars == <<clock, source, cached, pass>>

NoStat == [size |-> 0, modified |-> 0, changed |-> 0]

StatOf(f) == [size |-> SizeOf[f.content], modified |-> f.modified,
              changed |-> f.changed]

NoPass == [step |-> "idle", force |-> FALSE, before |-> 0, stat |-> NoStat,
           hash |-> Missing]

StatsInit ==
  /\ clock = 0
  /\ source = [content |-> Missing, modified |-> 0, changed |-> 0]
  /\ cached = Missing
  /\ pass = NoPass

ClockTicks ==
  /\ clock < MaxClock
  /\ clock' = clock + 1
  /\ UNCHANGED <<source, cached, pass>>

-----------------------------------------------------------------------------
\* A write stamps the file with a time in the last Granularity.
WriteFile(c, stamp) ==
  /\ clock - Granularity < stamp /\ stamp <= clock
  /\ source.changed <= stamp
  /\ source' = [content |-> c, modified |-> stamp, changed |-> stamp]
  /\ UNCHANGED <<clock, cached, pass>>

\* Unpacking or copying a file and restoring its modification time.
WriteKeepingTime(c, stamp) ==
  /\ clock - Granularity < stamp /\ stamp <= clock
  /\ source.changed <= stamp
  /\ source' = [source EXCEPT !.content = c, !.changed = stamp]
  /\ UNCHANGED <<clock, cached, pass>>

RemoveFile ==
  /\ source.content # Missing
  /\ source' = [source EXCEPT !.content = Missing]
  /\ UNCHANGED <<clock, cached, pass>>

-----------------------------------------------------------------------------
(***************************************************************************)
(* discover_artifact_fingerprints                                          *)
(***************************************************************************)
\* Mutant: no window; the resolution of the time stamps is not allowed for.
RecordedBeforeNow == clock

RecordedBefore == clock - Window

\* A file that is not there any more loses its row.
StartPass(force) ==
  /\ pass.step = "idle"
  /\ IF source.content = Missing
     THEN /\ cached' = IF force THEN cached ELSE Missing
          /\ UNCHANGED pass
     ELSE /\ pass' = [NoPass EXCEPT !.step = "stat", !.force = force,
                                    !.before = RecordedBefore]
          /\ UNCHANGED cached
  /\ UNCHANGED <<clock, source>>

\* metadata, then the lookup in the rows loaded when the pass began.
StatFile ==
  /\ pass.step = "stat"
  /\ IF source.content = Missing THEN pass' = NoPass
     ELSE LET observed == StatOf(source)
              hit == /\ ~pass.force /\ cached # Missing
                     /\ cached.stat = observed
          IN  pass' = [pass EXCEPT !.stat = observed,
                         !.step = IF hit THEN "record" ELSE "read",
                         !.hash = IF hit THEN cached.hash ELSE Missing]
  /\ UNCHANGED <<clock, source, cached>>

\* A file that disappeared is an error, which ends the scan.
ReadFile ==
  /\ pass.step = "read"
  /\ pass' = IF source.content = Missing THEN NoPass
             ELSE [pass EXCEPT !.step = "record", !.hash = source.content]
  /\ UNCHANGED <<clock, source, cached>>

\* apply_file_stat_delta: rows of files that were modified too recently are
\* not written, and removed if the pass had loaded them; a row the pass had
\* loaded and found equal is left alone.
RecordStat ==
  /\ pass.step = "record"
  /\ LET loaded == IF pass.force THEN Missing ELSE cached
         row == [stat |-> pass.stat, hash |-> pass.hash,
                 before |-> pass.before]
     IN  cached' = CASE pass.stat.modified >= pass.before ->
                          (IF loaded = Missing THEN cached ELSE Missing)
                     [] /\ pass.stat.modified < pass.before
                        /\ loaded # Missing
                        /\ loaded.stat = row.stat /\ loaded.hash = row.hash ->
                          cached
                     [] OTHER -> row
  /\ pass' = NoPass
  /\ UNCHANGED <<clock, source>>

EndPass ==
  /\ pass.step # "idle"
  /\ pass' = NoPass
  /\ UNCHANGED <<clock, source, cached>>

Times == 0 .. MaxClock

StatsNext ==
  \/ ClockTicks
  \/ \E c \in Contents, t \in Times :
       WriteFile(c, t) \/ WriteKeepingTime(c, t)
  \/ RemoveFile
  \/ \E force \in BOOLEAN : StartPass(force)
  \/ StatFile \/ ReadFile \/ RecordStat \/ EndPass

StatsSpec == StatsInit /\ [][StatsNext]_statVars

-----------------------------------------------------------------------------
(***************************************************************************)
(* Properties                                                              *)
(***************************************************************************)
Stats == [size : {SizeOf[c] : c \in Contents} \cup {0}, modified : Times,
          changed : Times]

StatsTypeOK ==
  /\ clock \in Times
  /\ source \in [content : Contents \cup {Missing}, modified : Times,
               changed : Times]
  /\ cached \in [stat : Stats, hash : Contents, before : Int] \cup {Missing}
  /\ pass \in [step : {"idle", "stat", "read", "record"}, force : BOOLEAN,
               before : Int, stat : Stats, hash : Contents \cup {Missing}]
  /\ pass.step = "record" => pass.hash \in Contents

\* "a same-timestamp rewrite after recording always changes the metadata": a
\* row that matches the metadata of the file holds the hash of what the file
\* contains, so a hit gives the hash that reading the file would give.
HitIsCurrent ==
  cached # Missing /\ source.content # Missing /\ cached.stat = StatOf(source) =>
    cached.hash = source.content

\* The same for rows whose change time, too, was older than the window when
\* they were recorded.  Files whose modification time nobody sets back are
\* such: fingerprint_file tests the modification time.
HitIsCurrentIfSettled ==
  cached # Missing /\ cached.stat.changed < cached.before => HitIsCurrent

\* The row the pass loaded and found equal to what it is about to record.
Unchanged ==
  /\ ~pass.force /\ cached # Missing
  /\ cached.stat = pass.stat /\ cached.hash = pass.hash

\* Inductive: limits lie a window in the past, and so does the change time of
\* whatever they let through; a later write is stamped after them.
StatsInv ==
  /\ StatsTypeOK
  /\ pass.step # "idle" => pass.before <= clock - Window
  /\ cached # Missing => cached.before <= clock - Window
  /\ /\ pass.step = "record" /\ ~Unchanged
     /\ pass.stat.changed < pass.before
     /\ source.content # Missing /\ pass.stat = StatOf(source)
     => pass.hash = source.content
  /\ HitIsCurrentIfSettled
=============================================================================
