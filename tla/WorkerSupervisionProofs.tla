----------------------- MODULE WorkerSupervisionProofs -----------------------
(***************************************************************************)
(* Proofs about the supervision of a scan worker, for every number of      *)
(* threads and units of work and all limits: what supervise returns is     *)
(* what happened, and a worker is stopped only by a limit that it passed.  *)
(*                                                                         *)
(* The invariant SupervisionInv relates where the threads are to what is   *)
(* published, every message under way to a fact about the worker that no   *)
(* later step can change, and the supervisor's clock to the last message   *)
(* that was written.                                                       *)
(***************************************************************************)
EXTENDS WorkerSupervision, TLAPS

\* Zenon finds the steps that name no other prover.
USE Zenon

\* What the variables of the supervision hold.
MainPlaces == {"boot", "started", "join", "publish", "commit", "flush", "result",
               "return", "limit", "exit"}

PoolPlaces == {"parked", "take", "helper", "joined", "limit", "exit"}

Exits == {None, "ok", "error", "limit", "signal"}

WorkerRecords ==
  [exit : Exits, limit : BOOLEAN, began : Nat \cup {None}, last : Nat, total : Nat,
   taken : 0 .. Units, wrote : Nat \cup {None}]

Messages ==
  [kind : {"policy", "progress", "result", "failure", "garbage"}, total : Nat]

Polling == {"top", "drain"}

Terminating == {"tree", "again", "term", "grace", "kill"}

SupervisorRecords ==
  [pc : Polling \cup Terminating \cup {"failing", "returned"},
   policy : {DefaultPolicy, Policy}, received : BOOLEAN, last : Nat, total : Nat,
   result : BOOLEAN, exited : Nat \cup {None}, since : Nat, rounds : 0 .. 3,
   why : Reasons \cup {None}]

RecordsInv ==
  /\ now \in 0 .. MaxTime
  /\ worker \in WorkerRecords
  /\ at \in [WorkerThreads -> MainPlaces \cup PoolPlaces]
  /\ at["main"] \in MainPlaces
  /\ \A t \in Pool : at[t] \in PoolPlaces
  /\ helpers \subseteq [thread : Pool, own : BOOLEAN]
  /\ wire \in Seq(Messages)
  /\ published \in BOOLEAN
  /\ cancelled \in BOOLEAN
  /\ sup \in SupervisorRecords

\* Reports are counted: one for every unit that a thread has finished, one at
\* the start and one before the publication.
Helping == {t \in Pool : at[t] = "helper"}

Extra ==
  IF at["main"] \in {"boot", "started"} THEN 0
  ELSE IF at["main"] = "join" THEN 1 ELSE 2

CountInv ==
  /\ worker.total + Cardinality(Helping) <= worker.taken + Extra
  /\ \A i \in DOMAIN wire : wire[i].total <= worker.total
  /\ sup.total <= worker.total

OnWire(kind) == \E i \in DOMAIN wire : wire[i].kind = kind

\* No step of the worker can publish any more.
Blocked ==
  \/ ~Alive
  \/ at["main"] \in {"return", "exit"}
  \/ \E t \in Pool : at[t] = "exit"

ThreadsInv ==
  /\ at["main"] \in {"publish", "commit", "flush", "result"} =>
       \A t \in Pool : at[t] = "joined"
  /\ published => /\ at["main"] \in {"flush", "result", "return"}
                  /\ \A t \in Pool : at[t] = "joined"
  /\ at["main"] \in {"flush", "result"} => published
  /\ worker.limit => Blocked

\* Before the policy was written the worker has done nothing else.
BeginInv ==
  /\ at["main"] = "boot" => worker.began = None
  /\ at["main"] = "boot" /\ Alive => wire = <<>>
  /\ worker.began = None =>
       /\ at["main"] \in {"boot", "return"}
       /\ \A t \in Pool : at[t] = "parked"
       /\ worker.wrote = None /\ worker.total = 0
       /\ ~OnWire("progress")

\* What a message or a reason of the supervisor means.
MessageInv ==
  /\ OnWire("result") \/ sup.result => published
  /\ OnWire("failure") \/ sup.pc = "failing" \/ sup.why = "failure" =>
       ~published /\ Blocked

VerdictInv ==
  /\ sup.pc \in Polling \cup {"failing"} <=> sup.why = None
  /\ sup.why = "ok" => sup.pc = "returned" /\ published /\ worker.exit = "ok"
  /\ sup.pc = "returned" => ~Alive /\ InGroup = {}

\* The last report is at most an interval later than the last message.
ClockInv ==
  /\ worker.last <= now
  /\ sup.last <= now
  /\ worker.wrote # None =>
       worker.wrote <= now /\ worker.last <= worker.wrote + Coalesce
  /\ worker.total # 0 => worker.wrote # None

\* The policy is the first message the supervisor applies.
PolicyInv ==
  sup.pc \in Polling /\ ~sup.received /\ worker.began # None =>
    wire # <<>> /\ wire[1].kind = "policy"

\* The supervisor has heard of the last message, or will when it gets to it.
HeardInv ==
  sup.pc \in Polling /\ worker.wrote # None /\ sup.total # 0 =>
    \/ sup.last >= worker.wrote
    \/ \E i \in DOMAIN wire : wire[i].kind = "progress" /\ wire[i].total > sup.total

\* The inductive invariant of the supervision.
SupervisionInv ==
  /\ RecordsInv
  /\ CountInv
  /\ ThreadsInv
  /\ BeginInv
  /\ MessageInv
  /\ VerdictInv
  /\ ClockInv
  /\ PolicyInv
  /\ HeardInv


-----------------------------------------------------------------------------
(***************************************************************************)
(* The supervision: steps of the worker                                    *)
(***************************************************************************)
LEMMA Supervising ==
  ASSUME SupervisionInv
  PROVE  /\ sup \in SupervisorRecords /\ worker \in WorkerRecords /\ wire \in Seq(Messages)
         /\ now \in Nat
<1>1. now \in 0 .. MaxTime /\ MaxTime \in Nat
  BY SupervisionAssumption DEF SupervisionInv, RecordsInv
<1>2. now \in Nat
  BY SMTT(30), <1>1
<1> QED
  BY <1>2 DEF SupervisionInv, RecordsInv

\* The messages of new are written after those that are on the wire.
Grows(new) ==
  /\ wire' \in Seq(Messages)
  /\ \A i \in DOMAIN wire : i \in DOMAIN wire' /\ wire'[i] = wire[i]
  /\ \A i \in DOMAIN wire' : i \in DOMAIN wire \/ wire'[i] \in new
  /\ wire # <<>> => wire' # <<>> /\ wire'[1] = wire[1]

LEMMA WireSame ==
  ASSUME wire \in Seq(Messages), wire' = wire
  PROVE  Grows({})
BY DEF Grows

LEMMA WireWritten ==
  ASSUME wire \in Seq(Messages), NEW kind, NEW total, Message(kind, total) \in Messages,
         wire' = Written(kind, total)
  PROVE  /\ Grows({Message(kind, total)})
         /\ sup.why = None =>
              /\ \E i \in DOMAIN wire' : wire'[i] = Message(kind, total)
              /\ wire = <<>> => wire' # <<>> /\ wire'[1] = Message(kind, total)
<1>1. PICK m \in Messages : m = Message(kind, total)
  OBVIOUS
<1>2. CASE sup.why = None
  <2>1. wire' = Append(wire, m)
    BY <1>1, <1>2 DEF Written
  <2>2. /\ wire' \in Seq(Messages) /\ Len(wire') = Len(wire) + 1 /\ Len(wire) \in Nat
        /\ \A i \in 1 .. Len(wire) : wire'[i] = wire[i]
        /\ wire'[Len(wire) + 1] = m
        /\ DOMAIN wire = 1 .. Len(wire) /\ DOMAIN wire' = 1 .. Len(wire')
    BY SMTT(30), <2>1
  <2>3. wire = <<>> => Len(wire) = 0
    BY SMTT(30)
  <2>4. wire # <<>> => Len(wire) > 0
    BY SMTT(30)
  <2>5. wire' # <<>>
    BY SMTT(30), <2>2
  <2> QED
    BY SMTT(30), <1>1, <1>2, <2>2, <2>3, <2>4, <2>5 DEF Grows
<1>3. CASE sup.why # None
  BY <1>3 DEF Grows, Written
<1> QED
  BY <1>2, <1>3

\* A step of a live worker keeps the invariant if it keeps what is said of the
\* worker alone and what it writes is true.
LEMMA WorkerStepKeeps ==
  ASSUME SupervisionInv, Alive,
         now' = now, cancelled' = cancelled, sup' = sup,
         worker' \in WorkerRecords,
         at' \in [WorkerThreads -> MainPlaces \cup PoolPlaces],
         at'["main"] \in MainPlaces,
         \A t \in Pool : at'[t] \in PoolPlaces,
         helpers' \subseteq [thread : Pool, own : BOOLEAN],
         published' \in BOOLEAN, published => published',
         NEW new \in SUBSET Messages, Grows(new),
         \A m \in new : m.total <= worker'.total,
         worker.total <= worker'.total,
         CountInv!1',
         ThreadsInv', BeginInv', ClockInv', PolicyInv', HeardInv',
         \A m \in new : m.kind = "result" => published',
         \A m \in new : m.kind = "failure" => ~published' /\ Blocked',
         ~published /\ Blocked => ~published' /\ Blocked'
  PROVE  SupervisionInv'
<1>1. RecordsInv'
  BY DEF SupervisionInv, RecordsInv, Grows
<1>2. CountInv'
  <2>1. \A i \in DOMAIN wire' : wire'[i] \in Messages
    BY SMTT(30) DEF Grows
  <2>2. \A i \in DOMAIN wire : wire[i] \in Messages /\ wire[i].total <= worker.total
    BY SMTT(30) DEF SupervisionInv, RecordsInv, CountInv
  <2>3. worker.total \in Nat /\ worker'.total \in Nat /\ sup.total \in Nat
    BY DEF SupervisionInv, RecordsInv, WorkerRecords, SupervisorRecords
  <2>4. ASSUME NEW i \in DOMAIN wire' PROVE wire'[i].total <= worker'.total
    <3>1. CASE i \in DOMAIN wire
      <4>1. wire'[i] = wire[i] /\ wire[i].total \in Nat
        BY <2>2, <3>1 DEF Grows, Messages
      <4> QED
        BY SMTT(30), <2>2, <2>3, <3>1, <4>1
    <3>2. CASE i \notin DOMAIN wire
      BY <3>2 DEF Grows
    <3> QED
      BY <3>1, <3>2
  <2>5. sup'.total <= worker'.total
    BY SMTT(30), <2>3 DEF SupervisionInv, CountInv
  <2> QED
    BY <2>4, <2>5 DEF CountInv
<1>3. MessageInv'
  <2>1. OnWire("result")' => OnWire("result") \/ published'
    BY DEF OnWire, Grows
  <2>2. OnWire("failure")' => OnWire("failure") \/ (~published' /\ Blocked')
    BY DEF OnWire, Grows
  <2> QED
    BY <2>1, <2>2 DEF SupervisionInv, MessageInv
<1>4. VerdictInv'
  BY SupervisionAssumption DEF SupervisionInv, VerdictInv, Alive
<1> QED
  BY <1>1, <1>2, <1>3, <1>4 DEF SupervisionInv

LEMMA PoolIsNotMain == \A t \in Pool : t # "main" /\ t \in WorkerThreads
BY SupervisionAssumption DEF WorkerThreads

\* How sets of threads of the pool are counted (proved as PoolIsCounted).
PoolCounts ==
  /\ Cardinality({}) = 0
  /\ \A S \in SUBSET Pool : Cardinality(S) \in Nat
  /\ \A S \in SUBSET Pool, t \in Pool :
       t \notin S => Cardinality(S \cup {t}) = Cardinality(S) + 1

\* The number of threads with a helper follows the thread that moves.
LEMMA HelpingCounted ==
  ASSUME PoolCounts, RecordsInv, NEW t \in WorkerThreads, NEW pc, ThreadGoto(t, pc)
  PROVE  /\ Cardinality(Helping) \in Nat /\ Cardinality(Helping)' \in Nat
         /\ t = "main" \/ (at[t] # "helper" /\ pc # "helper") => Helping' = Helping
         /\ t \in Pool /\ at[t] = "helper" /\ pc # "helper" =>
              Cardinality(Helping) = Cardinality(Helping)' + 1
         /\ t \in Pool /\ at[t] # "helper" /\ pc = "helper" =>
              Cardinality(Helping)' = Cardinality(Helping) + 1
<1>0. at \in [WorkerThreads -> MainPlaces \cup PoolPlaces]
  BY DEF RecordsInv
<1>1. at'[t] = pc /\ \A s \in WorkerThreads : s # t => at'[s] = at[s]
  BY <1>0 DEF ThreadGoto
<1>2. PICK before : before = Helping
  OBVIOUS
<1>3. PICK after : after = Helping'
  OBVIOUS
<1>4. before \in SUBSET Pool /\ after \in SUBSET Pool
  BY <1>2, <1>3 DEF Helping
<1>5. Cardinality(before) \in Nat /\ Cardinality(after) \in Nat
  BY <1>4 DEF PoolCounts
<1>6. t = "main" \/ (at[t] # "helper" /\ pc # "helper") => after = before
  BY <1>1, <1>2, <1>3, PoolIsNotMain DEF Helping
<1>7. ASSUME t \in Pool, at[t] = "helper", pc # "helper"
      PROVE  Cardinality(before) = Cardinality(after) + 1
  <2>1. before = after \cup {t} /\ t \notin after
    BY SMTT(30), <1>1, <1>2, <1>3, <1>7, PoolIsNotMain DEF Helping
  <2>2. Cardinality(before) = Cardinality(after) + 1
    BY <1>4, <1>7, <2>1 DEF PoolCounts
  <2> QED
    BY <1>5, <2>2
<1>8. ASSUME t \in Pool, at[t] # "helper", pc = "helper"
      PROVE  Cardinality(after) = Cardinality(before) + 1
  <2>1. after = before \cup {t} /\ t \notin before
    BY SMTT(30), <1>1, <1>2, <1>3, <1>8, PoolIsNotMain DEF Helping
  <2> QED
    BY <1>4, <1>8, <2>1 DEF PoolCounts
<1> QED
  BY <1>2, <1>3, <1>5, <1>6, <1>7, <1>8

\* One thread moves, after the policy was written.
LEMMA MoveKeeps ==
  ASSUME SupervisionInv, Alive,
         now' = now, cancelled' = cancelled, sup' = sup,
         worker.began # None,
         worker' \in WorkerRecords,
         worker'.exit = worker.exit, worker'.began = worker.began,
         worker.total <= worker'.total,
         NEW t \in WorkerThreads, NEW pc,
         ThreadGoto(t, pc),
         at[t] \notin {"return", "exit"}, pc # "boot",
         t = "main" => pc \in MainPlaces, t # "main" => pc \in PoolPlaces,
         helpers' \subseteq [thread : Pool, own : BOOLEAN],
         published' \in BOOLEAN, published => published',
         Blocked => published' = published,
         NEW new \in SUBSET Messages, Grows(new),
         \A m \in new : m.total <= worker'.total,
         CountInv!1',
         ThreadsInv', ClockInv', HeardInv',
         \A m \in new : m.kind = "result" => published',
         \A m \in new : m.kind = "failure" => ~published' /\ Blocked'
  PROVE  SupervisionInv'
<1>1. /\ at \in [WorkerThreads -> MainPlaces \cup PoolPlaces]
      /\ at["main"] \in MainPlaces
      /\ \A s \in Pool : at[s] \in PoolPlaces
  BY DEF SupervisionInv, RecordsInv
<1>2. at'[t] = pc /\ (\A s \in WorkerThreads : s # t => at'[s] = at[s])
      /\ at' = [at EXCEPT ![t] = pc]
  BY <1>1 DEF ThreadGoto
<1>3. "main" \in WorkerThreads /\ \A s \in Pool : s # "main" /\ s \in WorkerThreads
  BY PoolIsNotMain DEF WorkerThreads
<1>4. /\ at' \in [WorkerThreads -> MainPlaces \cup PoolPlaces]
      /\ at'["main"] \in MainPlaces
      /\ \A s \in Pool : at'[s] \in PoolPlaces
  BY <1>1, <1>2, <1>3
<1>5. at["main"] # "boot" /\ at'["main"] # "boot"
  BY <1>2, <1>3 DEF SupervisionInv, BeginInv
<1>6. BeginInv'
  BY <1>5 DEF BeginInv
<1>7. PolicyInv'
  BY DEF SupervisionInv, PolicyInv, Grows
<1>8. ~published /\ Blocked => ~published' /\ Blocked'
  BY <1>2, <1>3 DEF Blocked, Alive
<1> QED
  BY <1>4, <1>6, <1>7, <1>8, WorkerStepKeeps

\* A move that reports nothing.
LEMMA CalmMoveKeeps ==
  ASSUME SupervisionInv, Alive,
         now' = now, cancelled' = cancelled, sup' = sup,
         worker.began # None,
         worker' \in WorkerRecords,
         worker'.exit = worker.exit, worker'.began = worker.began,
         worker'.total = worker.total, worker'.last = worker.last,
         worker'.wrote = worker.wrote,
         NEW t \in WorkerThreads, NEW pc,
         ThreadGoto(t, pc),
         at[t] \notin {"return", "exit"}, pc # "boot",
         t = "main" => pc \in MainPlaces, t # "main" => pc \in PoolPlaces,
         helpers' \subseteq [thread : Pool, own : BOOLEAN],
         published' \in BOOLEAN, published => published',
         Blocked => published' = published,
         NEW new \in SUBSET Messages, Grows(new),
         \A m \in new : m.total <= worker.total,
         CountInv!1',
         ThreadsInv',
         \A m \in new : m.kind = "result" => published',
         \A m \in new : m.kind = "failure" => ~published' /\ Blocked'
  PROVE  SupervisionInv'
<1>1. ClockInv'
  BY SMTT(30) DEF SupervisionInv, ClockInv
<1>2. HeardInv'
  BY DEF SupervisionInv, HeardInv, Grows
<1>3. worker.total <= worker'.total
  BY SMTT(30) DEF SupervisionInv, RecordsInv, WorkerRecords
<1> QED
  BY <1>1, <1>2, <1>3, MoveKeeps

\* The process ends; a line may be cut off.
LEMMA EndKeeps ==
  ASSUME SupervisionInv, Alive,
         NEW exit \in Exits \ {None},
         worker' = [worker EXCEPT !.exit = exit],
         NEW new \in SUBSET {Message("garbage", 0)}, Grows(new),
         UNCHANGED <<now, at, helpers, published, cancelled, sup>>
  PROVE  SupervisionInv'
<1> DEFINE n == [worker EXCEPT !.exit = exit]
<1>1. worker \in WorkerRecords
  BY DEF SupervisionInv, RecordsInv
<1>2. /\ n \in WorkerRecords /\ n.exit = exit /\ n.limit = worker.limit
      /\ n.began = worker.began /\ n.last = worker.last /\ n.total = worker.total
      /\ n.taken = worker.taken /\ n.wrote = worker.wrote
  BY <1>1 DEF WorkerRecords, Exits
<1>3. worker' = n
  OBVIOUS
<1> HIDE DEF n
<1>4. worker.total \in Nat
  BY <1>1 DEF WorkerRecords
<1>5. /\ new \in SUBSET Messages
      /\ \A m \in new : m.kind = "garbage" /\ m.total = 0
      /\ \A m \in new : m.total <= worker'.total
  BY SMTT(30), <1>2, <1>3, <1>4 DEF Message, Messages
<1>6. ~Alive' /\ Blocked'
  BY <1>2, <1>3 DEF Alive, Blocked
<1>7. CountInv!1'
  BY <1>2, <1>3 DEF SupervisionInv, CountInv, Helping, Extra
<1>8. ThreadsInv'
  BY <1>6 DEF SupervisionInv, ThreadsInv
<1>9. BeginInv'
  <2>1. OnWire("progress")' => OnWire("progress")
    BY <1>5 DEF OnWire, Grows
  <2> QED
    BY <1>2, <1>3, <1>6, <2>1 DEF SupervisionInv, BeginInv
<1>10. ClockInv'
  BY <1>2, <1>3 DEF SupervisionInv, ClockInv
<1>11. PolicyInv'
  BY <1>2, <1>3 DEF SupervisionInv, PolicyInv, Grows
<1>12. HeardInv'
  BY <1>2, <1>3 DEF SupervisionInv, HeardInv, Grows
<1>13. /\ at' \in [WorkerThreads -> MainPlaces \cup PoolPlaces]
       /\ at'["main"] \in MainPlaces
       /\ \A t \in Pool : at'[t] \in PoolPlaces
       /\ helpers' \subseteq [thread : Pool, own : BOOLEAN]
       /\ published' \in BOOLEAN /\ (published => published')
  BY DEF SupervisionInv, RecordsInv
<1>14. /\ worker.total <= worker'.total
       /\ worker' \in WorkerRecords
  BY SMTT(30), <1>2, <1>3, <1>4
<1>15. now' = now /\ cancelled' = cancelled /\ sup' = sup /\ published' = published
  OBVIOUS
<1>16. \A m \in new : m.kind # "result" /\ m.kind # "failure"
  BY <1>5
<1> QED
  BY SMTT(30), <1>5, <1>6, <1>7, <1>8, <1>9, <1>10, <1>11, <1>12, <1>13, <1>14, <1>15, <1>16,
     WorkerStepKeeps

LEMMA LoadPolicyKeeps ==
  ASSUME PoolCounts, SupervisionInv, LoadPolicy
  PROVE  SupervisionInv'
<1>1. /\ worker \in WorkerRecords /\ wire \in Seq(Messages) /\ now \in Nat
      /\ worker.total \in Nat
  BY SMTT(30), SupervisionAssumption DEF SupervisionInv, RecordsInv, WorkerRecords
<1>2. /\ Alive /\ at["main"] = "boot" /\ worker.began = None /\ wire = <<>>
      /\ worker.wrote = None /\ worker.total = 0 /\ sup.total = 0
      /\ (\A t \in Pool : at[t] = "parked") /\ ~published
  <2>1. /\ Alive /\ at["main"] = "boot" /\ worker.began = None /\ wire = <<>>
        /\ worker.wrote = None /\ worker.total = 0 /\ ~published
        /\ \A t \in Pool : at[t] = "parked"
    BY DEF LoadPolicy, SupervisionInv, BeginInv, ThreadsInv
  <2>2. sup.total = 0
    BY SMTT(30), <2>1 DEF SupervisionInv, CountInv, RecordsInv, SupervisorRecords
  <2> QED
    BY <2>1, <2>2
<1>3. /\ now' = now /\ cancelled' = cancelled /\ sup' = sup /\ helpers' = helpers
      /\ published' = published /\ published \in BOOLEAN
      /\ helpers \subseteq [thread : Pool, own : BOOLEAN]
  BY DEF LoadPolicy, SupervisionInv, RecordsInv
<1>4. "main" \in WorkerThreads /\ \A t \in Pool : t # "main" /\ t \in WorkerThreads
  BY PoolIsNotMain DEF WorkerThreads
<1>5. Helping = {}
  BY <1>2 DEF Helping
<1>6. Cardinality({}) = 0
  BY DEF PoolCounts
<1>7. Message("policy", 0) \in Messages /\ Message("failure", 0) \in Messages
  BY SMTT(30) DEF Message, Messages
<1>8. CASE /\ wire' = Written("policy", 0)
           /\ worker' = [worker EXCEPT !.began = now, !.last = now]
           /\ at' = [t \in WorkerThreads |-> IF t = "main" THEN "started" ELSE "take"]
  <2> DEFINE n == [worker EXCEPT !.began = now, !.last = now]
  <2>1. /\ n \in WorkerRecords /\ n.exit = worker.exit /\ n.limit = worker.limit
        /\ n.began = now /\ n.last = now /\ n.total = worker.total
        /\ n.taken = worker.taken /\ n.wrote = worker.wrote
    BY <1>1 DEF WorkerRecords
  <2>2. worker' = n
    BY <1>8
  <2> HIDE DEF n
  <2>3. /\ at' \in [WorkerThreads -> MainPlaces \cup PoolPlaces]
        /\ at'["main"] = "started" /\ \A t \in Pool : at'[t] = "take"
    BY <1>4, <1>8 DEF MainPlaces, PoolPlaces
  <2>4. at'["main"] \in MainPlaces /\ \A t \in Pool : at'[t] \in PoolPlaces
    BY <2>3 DEF MainPlaces, PoolPlaces
  <2>5. /\ Grows({Message("policy", 0)})
        /\ sup.why = None => wire' # <<>> /\ wire'[1] = Message("policy", 0)
    BY <1>1, <1>2, <1>7, <1>8, WireWritten
  <2>6. CountInv!1'
    <3>1. Helping' = {} /\ Extra' = 0
      BY <2>3 DEF Helping, Extra
    <3>2. worker'.total = 0 /\ worker'.taken \in Nat
      BY SMTT(30), <1>2, <2>1, <2>2, SupervisionAssumption DEF WorkerRecords
    <3> QED
      BY SMTT(30), <1>6, <3>1, <3>2
  <2>7. ~Blocked
    BY <1>2 DEF Blocked
  <2>8. ThreadsInv'
    BY <1>2, <1>3, <2>1, <2>2, <2>3, <2>7 DEF ThreadsInv, SupervisionInv
  <2>9. BeginInv'
    BY <1>1, <2>1, <2>2, <2>3, SupervisionAssumption DEF BeginInv
  <2>10. ClockInv'
    BY SMTT(30), <1>1, <1>2, <1>3, <2>1, <2>2 DEF ClockInv, SupervisionInv
  <2>11. PolicyInv'
    BY SMTT(30), <1>3, <2>5 DEF PolicyInv, SupervisionInv, VerdictInv, Message
  <2>12. HeardInv'
    BY <1>2, <2>1, <2>2 DEF HeardInv
  <2>13. /\ \A m \in {Message("policy", 0)} : m.kind = "policy" /\ m.total <= worker'.total
         /\ worker.total <= worker'.total /\ worker' \in WorkerRecords
    BY SMTT(30), <1>1, <1>2, <2>1, <2>2 DEF Message
  <2>14. {Message("policy", 0)} \in SUBSET Messages
    BY <1>7
  <2> QED
    BY <1>2, <1>3, <2>3, <2>4, <2>5, <2>6, <2>7, <2>8, <2>9, <2>10, <2>11, <2>12,
       <2>13, <2>14, WorkerStepKeeps
<1>9. CASE wire' = Written("failure", 0) /\ ThreadGoto("main", "return") /\ UNCHANGED worker
  <2>1. /\ at' = [at EXCEPT !["main"] = "return"] /\ worker' = worker
        /\ at \in [WorkerThreads -> MainPlaces \cup PoolPlaces]
    BY <1>9 DEF ThreadGoto, SupervisionInv, RecordsInv
  <2>2. /\ at' \in [WorkerThreads -> MainPlaces \cup PoolPlaces]
        /\ at'["main"] = "return" /\ \A t \in Pool : at'[t] = "parked"
    BY <1>2, <1>4, <2>1 DEF MainPlaces, PoolPlaces
  <2>3. at'["main"] \in MainPlaces /\ \A t \in Pool : at'[t] \in PoolPlaces
    BY <2>2 DEF MainPlaces, PoolPlaces
  <2>4. Grows({Message("failure", 0)})
    BY <1>1, <1>7, <1>9, WireWritten
  <2>5. CountInv!1'
    <3>1. Helping' = {} /\ Extra' = 2
      BY <2>2 DEF Helping, Extra
    <3>2. worker'.total = 0 /\ worker'.taken \in Nat
      BY SMTT(30), <1>1, <1>2, <2>1, SupervisionAssumption DEF WorkerRecords
    <3> QED
      BY SMTT(30), <1>6, <3>1, <3>2
  <2>6. Blocked' /\ ~published'
    BY <1>2, <1>3, <2>2 DEF Blocked
  <2>7. ThreadsInv'
    BY <1>2, <1>3, <2>2, <2>6 DEF ThreadsInv
  <2>8. BeginInv'
    <3>1. ~OnWire("progress")'
      BY SMTT(30), <1>2, <2>4 DEF OnWire, Grows, Message
    <3> QED
      BY <1>2, <2>1, <2>2, <3>1 DEF BeginInv
  <2>9. ClockInv' /\ HeardInv' /\ PolicyInv'
    BY <1>2, <1>3, <2>1 DEF ClockInv, HeardInv, PolicyInv, SupervisionInv
  <2>10. /\ \A m \in {Message("failure", 0)} : m.kind = "failure" /\ m.total <= worker'.total
         /\ worker.total <= worker'.total /\ worker' \in WorkerRecords
    BY SMTT(30), <1>1, <1>2, <2>1 DEF Message
  <2>11. {Message("failure", 0)} \in SUBSET Messages
    BY <1>7
  <2> QED
    BY <1>2, <1>3, <2>2, <2>3, <2>4, <2>5, <2>6, <2>7, <2>8, <2>9, <2>10, <2>11,
       WorkerStepKeeps
<1> QED
  BY <1>8, <1>9 DEF LoadPolicy

\* What holds before and after one thread of a worker under way moves.
LEMMA Moving ==
  ASSUME SupervisionInv, Alive, NEW t \in WorkerThreads, NEW pc,
         ThreadGoto(t, pc),
         at[t] \notin {"boot", "return", "parked"}
  PROVE  /\ worker.began # None
         /\ worker \in WorkerRecords /\ wire \in Seq(Messages)
         /\ worker.total \in Nat /\ worker.taken \in Nat
         /\ helpers \subseteq [thread : Pool, own : BOOLEAN] /\ published \in BOOLEAN
         /\ "main" \in WorkerThreads /\ \A s \in Pool : s # "main" /\ s \in WorkerThreads
         /\ at'[t] = pc /\ \A s \in WorkerThreads : s # t => at'[s] = at[s]
         /\ at["main"] \in MainPlaces /\ \A s \in Pool : at[s] \in PoolPlaces
BY SMTT(30), SMTT(30), PoolIsNotMain, SupervisionAssumption
DEF SupervisionInv, RecordsInv, BeginInv, WorkerThreads, WorkerRecords, ThreadGoto

LEMMA CountKept ==
  ASSUME PoolCounts, SupervisionInv, Alive, NEW pc, pc \notin {"boot", "started", "join"},
         ThreadGoto("main", pc),
         at["main"] \notin {"boot", "return", "parked"},
         worker'.total = worker.total, worker'.taken = worker.taken
  PROVE  CountInv!1'
<1>0. "main" \in WorkerThreads
  BY DEF WorkerThreads
<1>1. Helping' = Helping /\ Cardinality(Helping) \in Nat
  BY <1>0, HelpingCounted DEF SupervisionInv
<1>2. Extra' = 2 /\ Extra \in {0, 1, 2}
  BY <1>0, Moving DEF Extra
<1>3. worker.total + Cardinality(Helping) <= worker.taken + Extra
  BY DEF SupervisionInv, CountInv
<1>4. worker.total \in Nat /\ worker.taken \in Nat
  BY <1>0, Moving
<1>5. PICK c \in Nat : c = Cardinality(Helping) /\ c = Cardinality(Helping)'
  BY <1>1
<1> QED
  BY SMTT(30), <1>2, <1>3, <1>4, <1>5

\* The steps of the main thread from the publication on.
LEMMA PublishRowsKeeps ==
  ASSUME PoolCounts, SupervisionInv, PublishRows
  PROVE  SupervisionInv'
<1>1. PICK pc \in {"limit", "commit"} : ThreadGoto("main", pc)
  BY DEF PublishRows, CheckTime
<1>2. /\ Alive /\ at["main"] = "publish" /\ "main" \in WorkerThreads
      /\ UNCHANGED <<worker, wire, now, helpers, published, cancelled, sup>>
  BY DEF PublishRows, CheckTime, WorkerThreads
<1>3. CountInv!1'
  BY <1>1, <1>2, CountKept
<1>4. Grows({})
  BY <1>2, WireSame DEF SupervisionInv, RecordsInv
<1>5. ThreadsInv'
  <2>1. ~Blocked
    BY <1>2 DEF Blocked, SupervisionInv, ThreadsInv
  <2> QED
    BY <1>1, <1>2, <2>1, Moving DEF SupervisionInv, ThreadsInv
<1> QED
  BY <1>1, <1>2, <1>3, <1>4, <1>5, Moving, CalmMoveKeeps DEF MainPlaces

LEMMA CommitKeeps ==
  ASSUME PoolCounts, SupervisionInv, Commit
  PROVE  SupervisionInv'
<1>1. /\ Alive /\ at["main"] = "commit" /\ "main" \in WorkerThreads
      /\ ThreadGoto("main", "flush") /\ published' = TRUE
      /\ UNCHANGED <<worker, wire, now, helpers, cancelled, sup>>
  BY DEF Commit, WorkerThreads
<1>2. CountInv!1'
  BY <1>1, CountKept
<1>3. Grows({})
  BY <1>1, WireSame DEF SupervisionInv, RecordsInv
<1>4. ~Blocked
  BY <1>1 DEF Blocked, SupervisionInv, ThreadsInv
<1>5. ThreadsInv'
  BY <1>1, <1>4, Moving DEF SupervisionInv, ThreadsInv
<1> QED
  BY <1>1, <1>2, <1>3, <1>4, <1>5, Moving, CalmMoveKeeps DEF MainPlaces

LEMMA ScanFailsKeeps ==
  ASSUME PoolCounts, SupervisionInv, ScanFails
  PROVE  SupervisionInv'
<1>1. /\ Alive /\ at["main"] \in {"publish", "commit"} /\ "main" \in WorkerThreads
      /\ ThreadGoto("main", "return")
      /\ UNCHANGED <<worker, now, helpers, published, cancelled, sup>>
  BY DEF ScanFails, WorkerThreads
<1>2. CountInv!1'
  BY <1>1, CountKept
<1>3. PICK a, b : a = Message("progress", worker.total) /\ b = Message("failure", 0)
  OBVIOUS
<1>4. /\ a \in Messages /\ b \in Messages /\ a.kind = "progress" /\ b.kind = "failure"
      /\ a.total <= worker.total /\ b.total <= worker.total
  <2>1. worker.total \in Nat
    BY <1>1, Moving
  <2> QED
    BY SMTT(30), <1>3, <2>1 DEF Message, Messages
<1>5. Grows({a, b})
  <2>1. wire \in Seq(Messages)
    BY DEF SupervisionInv, RecordsInv
  <2>2. CASE sup.why = None
    <3>1. wire' = wire \o <<a, b>>
      BY <1>3, <2>2 DEF ScanFails
    <3>2. /\ wire' \in Seq(Messages) /\ Len(wire') = Len(wire) + 2 /\ Len(wire) \in Nat
          /\ \A i \in 1 .. Len(wire) : wire'[i] = wire[i]
          /\ wire'[Len(wire) + 1] = a /\ wire'[Len(wire) + 2] = b
          /\ DOMAIN wire = 1 .. Len(wire) /\ DOMAIN wire' = 1 .. Len(wire')
      BY SMTT(30), <1>4, <2>1, <3>1
    <3>3. wire # <<>> => Len(wire) > 0
      BY SMTT(30), <2>1
    <3>4. wire' # <<>>
      BY SMTT(30), <3>2
    <3> QED
      BY SMTT(30), <3>2, <3>3, <3>4 DEF Grows
  <2>3. CASE sup.why # None
    BY <2>1, <2>3 DEF ScanFails, Grows
  <2> QED
    BY <2>2, <2>3
<1>6. ~published /\ ~published' /\ Blocked'
  BY <1>1, Moving DEF Blocked, SupervisionInv, ThreadsInv
<1>7. ThreadsInv'
  BY SMTT(30), <1>1, <1>6, Moving DEF ThreadsInv
<1> QED
  BY <1>1, <1>2, <1>4, <1>5, <1>6, <1>7, Moving, CalmMoveKeeps DEF MainPlaces

LEMMA FlushProgressKeeps ==
  ASSUME PoolCounts, SupervisionInv, FlushProgress
  PROVE  SupervisionInv'
<1>1. /\ Alive /\ at["main"] = "flush" /\ "main" \in WorkerThreads
      /\ ThreadGoto("main", "result")
      /\ UNCHANGED <<worker, now, helpers, published, cancelled, sup>>
  BY DEF FlushProgress, WorkerThreads
<1>2. CountInv!1'
  BY <1>1, CountKept
<1>3. PICK m : m = Message("progress", worker.total)
  OBVIOUS
<1>4. m \in Messages /\ m.kind = "progress" /\ m.total <= worker.total
  <2>1. worker.total \in Nat
    BY <1>1, Moving
  <2> QED
    BY SMTT(30), <1>3, <2>1 DEF Message, Messages
<1>5. Grows({m})
  BY <1>1, <1>3, <1>4, Moving, WireWritten DEF FlushProgress
<1>6. published /\ published' /\ ~Blocked
  BY <1>1 DEF Blocked, SupervisionInv, ThreadsInv
<1>7. ThreadsInv'
  BY <1>1, <1>6, Moving DEF SupervisionInv, ThreadsInv
<1> QED
  BY <1>1, <1>2, <1>4, <1>5, <1>6, <1>7, Moving, CalmMoveKeeps DEF MainPlaces

LEMMA WriteResultKeeps ==
  ASSUME PoolCounts, SupervisionInv, WriteResult
  PROVE  SupervisionInv'
<1>1. /\ Alive /\ at["main"] = "result" /\ "main" \in WorkerThreads
      /\ UNCHANGED <<now, helpers, published, cancelled, sup>>
  BY DEF WriteResult, WorkerThreads
<1>2. CASE wire' = Written("result", 0) /\ ThreadGoto("main", "return") /\ UNCHANGED worker
  <2>1. ThreadGoto("main", "return")
    BY <1>2
  <2>2. CountInv!1'
    BY <1>1, <1>2, <2>1, CountKept
  <2>3. PICK m : m = Message("result", 0)
    OBVIOUS
  <2>4. m \in Messages /\ m.kind = "result" /\ m.total <= worker.total
    <3>1. worker.total \in Nat
      BY <1>1, <2>1, Moving
    <3> QED
      BY SMTT(30), <2>3, <3>1 DEF Message, Messages
  <2>5. Grows({m})
    BY <1>1, <1>2, <2>1, <2>3, <2>4, Moving, WireWritten
  <2>6. published /\ published' /\ ~Blocked
    BY <1>1 DEF Blocked, SupervisionInv, ThreadsInv
  <2>7. ThreadsInv'
    BY <1>1, <1>2, <2>1, <2>6, Moving DEF SupervisionInv, ThreadsInv
  <2> QED
    BY <1>1, <1>2, <2>1, <2>2, <2>4, <2>5, <2>6, <2>7, Moving, CalmMoveKeeps DEF MainPlaces
<1>3. CASE worker' = [worker EXCEPT !.exit = "error"] /\ UNCHANGED <<wire, at>>
  <2>1. "error" \in Exits \ {None}
    BY SupervisionAssumption DEF Exits, Reasons
  <2>2. Grows({})
    BY <1>3, WireSame DEF SupervisionInv, RecordsInv
  <2> QED
    BY <1>1, <1>3, <2>1, <2>2, EndKeeps
<1> QED
  BY <1>2, <1>3 DEF WriteResult

\* The steps of one thread of the pool, and the report of a limit.
LEMMA TakeUnitKeeps ==
  ASSUME PoolCounts, SupervisionInv, NEW t \in Pool, NEW own \in BOOLEAN, TakeUnit(t, own)
  PROVE  SupervisionInv'
<1> DEFINE n == [worker EXCEPT !.taken = worker.taken + 1]
<1>1. /\ Alive /\ at[t] = "take" /\ at["main"] = "join" /\ t \in WorkerThreads
      /\ ThreadGoto(t, "helper") /\ worker' = n /\ worker.taken < Units
      /\ helpers' = helpers \cup {[thread |-> t, own |-> own]}
      /\ UNCHANGED <<now, wire, published, cancelled, sup>>
  BY PoolIsNotMain DEF TakeUnit
<1>2. worker \in WorkerRecords /\ Units \in Nat
  BY SupervisionAssumption DEF SupervisionInv, RecordsInv
<1>3. /\ n \in WorkerRecords /\ n.exit = worker.exit /\ n.limit = worker.limit
      /\ n.began = worker.began /\ n.last = worker.last /\ n.total = worker.total
      /\ n.wrote = worker.wrote /\ n.taken = worker.taken + 1
  <2>1. worker.taken + 1 \in 0 .. Units
    BY SMTT(30), <1>1, <1>2 DEF WorkerRecords
  <2> QED
    BY <1>2, <2>1 DEF WorkerRecords
<1> HIDE DEF n
<1>4. CountInv!1'
  <2>1. PICK c \in Nat, d \in Nat : c = Cardinality(Helping) /\ d = Cardinality(Helping)'
                                    /\ d = c + 1
    BY <1>1, HelpingCounted DEF SupervisionInv
  <2>2. Extra = 1 /\ Extra' = 1
    BY <1>1, Moving DEF Extra
  <2>3. worker.total + c <= worker.taken + 1 /\ worker.total \in Nat /\ worker.taken \in Nat
    BY <1>1, <2>1, <2>2, Moving DEF SupervisionInv, CountInv
  <2>4. n.total + d <= n.taken + 1
    BY SMTT(30), <1>3, <2>1, <2>3
  <2> QED
    BY <1>1, <2>1, <2>2, <2>4
<1>5. Grows({})
  BY <1>1, WireSame DEF SupervisionInv, RecordsInv
<1>6. ThreadsInv'
  BY <1>1, <1>3, Moving DEF SupervisionInv, ThreadsInv, Blocked, Alive
<1>7. helpers' \subseteq [thread : Pool, own : BOOLEAN]
  <2>1. helpers \subseteq [thread : Pool, own : BOOLEAN]
    BY DEF SupervisionInv, RecordsInv
  <2> QED
    BY SMTT(30), <1>1, <2>1
<1>8. published' \in BOOLEAN /\ published' = published
  BY <1>1, Moving
<1>9. /\ worker.began # None /\ at[t] \notin {"return", "exit"}
      /\ t # "main" /\ "helper" \in PoolPlaces
  BY <1>1, Moving DEF PoolPlaces
<1>10. /\ now' = now /\ cancelled' = cancelled /\ sup' = sup /\ worker' \in WorkerRecords
       /\ worker'.exit = worker.exit /\ worker'.began = worker.began
       /\ worker'.total = worker.total /\ worker'.last = worker.last
       /\ worker'.wrote = worker.wrote
  BY <1>1, <1>3
<1> QED
  BY SMTT(30), <1>1, <1>4, <1>5, <1>6, <1>7, <1>8, <1>9, <1>10, CalmMoveKeeps

LEMMA NoUnitLeftKeeps ==
  ASSUME PoolCounts, SupervisionInv, NEW t \in Pool, NoUnitLeft(t)
  PROVE  SupervisionInv'
<1>1. /\ Alive /\ at[t] = "take" /\ at["main"] = "join" /\ t \in WorkerThreads
      /\ ThreadGoto(t, "joined")
      /\ UNCHANGED <<now, worker, helpers, wire, published, cancelled, sup>>
  BY PoolIsNotMain DEF NoUnitLeft
<1>2. CountInv!1'
  <2>0. RecordsInv /\ at[t] # "helper"
    BY <1>1 DEF SupervisionInv
  <2>1. Helping' = Helping
    BY SMTT(30), <1>1, <2>0, HelpingCounted
  <2>2. Extra' = Extra
    BY <1>1, Moving DEF Extra
  <2> QED
    BY <1>1, <2>1, <2>2 DEF SupervisionInv, CountInv
<1>3. Grows({})
  BY <1>1, WireSame DEF SupervisionInv, RecordsInv
<1>4. ThreadsInv'
  BY <1>1, Moving DEF SupervisionInv, ThreadsInv, Blocked, Alive
<1> QED
  BY <1>1, <1>2, <1>3, <1>4, Moving, CalmMoveKeeps DEF PoolPlaces

\* The thread that reports a limit stays where it is until the process ends.
LEMMA ExitForExecutionLimitKeeps ==
  ASSUME PoolCounts, SupervisionInv, NEW t \in WorkerThreads, ExitForExecutionLimit(t)
  PROVE  SupervisionInv'
<1>1. Alive /\ UNCHANGED <<now, helpers, published, cancelled, sup>>
  BY SMTT(30) DEF ExitForExecutionLimit
<1>2. CASE /\ at[t] = "limit"
           /\ worker' = [worker EXCEPT !.limit = TRUE]
           /\ wire' = Written("failure", 0)
           /\ ThreadGoto(t, "exit")
  <2> DEFINE n == [worker EXCEPT !.limit = TRUE]
  <2>1. ThreadGoto(t, "exit") /\ worker' = n
    BY <1>2
  <2>2. /\ n \in WorkerRecords /\ n.exit = worker.exit /\ n.limit
        /\ n.began = worker.began /\ n.last = worker.last /\ n.total = worker.total
        /\ n.wrote = worker.wrote /\ n.taken = worker.taken
    BY  DEF SupervisionInv, RecordsInv, WorkerRecords
  <2> HIDE DEF n
  <2>3. CountInv!1'
    <3>1. Helping' = Helping
      BY ZenonT(30), <1>2, <2>1, HelpingCounted DEF SupervisionInv
    <3>2. Extra' = Extra
      BY ZenonT(30), <1>1, <1>2, <2>1, Moving DEF Extra
    <3> QED
      BY <2>1, <2>2, <3>1, <3>2 DEF SupervisionInv, CountInv
  <2>4. Blocked' /\ ~published /\ at[t] # "joined"
    <3>1. t = "main" \/ t \in Pool
      BY DEF WorkerThreads
    <3> QED
      BY <1>1, <1>2, <2>1, <3>1, Moving DEF Blocked, SupervisionInv, ThreadsInv
  <2>5. ThreadsInv'
    <3>1. t = "main" \/ (t \in Pool /\ at["main"] \notin {"publish", "commit", "flush", "result"})
      BY <2>4 DEF WorkerThreads, SupervisionInv, ThreadsInv
    <3> QED
      BY ZenonT(30), <1>1, <1>2, <2>1, <2>4, <3>1, Moving DEF SupervisionInv, ThreadsInv
  <2>6. PICK m : m = Message("failure", 0)
    OBVIOUS
  <2>7. worker.total \in Nat /\ wire \in Seq(Messages) /\ worker.began # None
    BY <1>1, <1>2, <2>1, Moving
  <2>8. m \in Messages /\ m.kind = "failure" /\ m.total <= worker.total
    BY SMTT(30), <2>6, <2>7 DEF Message, Messages
  <2>9. Grows({m})
    BY <1>2, <2>6, <2>7, <2>8, WireWritten
  <2>10. /\ published' = published /\ published \in BOOLEAN
         /\ helpers' \subseteq [thread : Pool, own : BOOLEAN]
    BY <1>1 DEF SupervisionInv, RecordsInv
  <2> QED
    <3>1. /\ at[t] \notin {"return", "exit"} /\ {m} \in SUBSET Messages
          /\ "exit" \in MainPlaces /\ "exit" \in PoolPlaces
          /\ \A x \in {m} : x.kind # "result" /\ x.total <= worker.total
      BY <1>2, <2>8 DEF MainPlaces, PoolPlaces
    <3>2. /\ now' = now /\ cancelled' = cancelled /\ sup' = sup /\ worker' \in WorkerRecords
          /\ worker'.exit = worker.exit /\ worker'.began = worker.began
          /\ worker'.total = worker.total /\ worker'.last = worker.last
          /\ worker'.wrote = worker.wrote
      BY <1>1, <2>1, <2>2
    <3> QED
      BY SMTT(30), SMTT(30), <1>1, <2>1, <2>3, <2>4, <2>5, <2>7, <2>9, <2>10, <3>1, <3>2,
         CalmMoveKeeps
<1>3. CASE worker' = [worker EXCEPT !.exit = "limit"] /\ UNCHANGED <<wire, at>>
  <2>1. "limit" \in Exits \ {None}
    BY SupervisionAssumption DEF Exits, Reasons
  <2>2. Grows({})
    BY <1>3, WireSame DEF SupervisionInv, RecordsInv
  <2> QED
    BY <1>1, <1>3, <2>1, <2>2, EndKeeps
<1> QED
  BY <1>2, <1>3 DEF ExitForExecutionLimit

LEMMA ProcessEndsKeep ==
  ASSUME SupervisionInv, ReturnMain \/ CrashWorker
  PROVE  SupervisionInv'
<1>1. {"ok", "signal"} \subseteq Exits \ {None}
  BY SupervisionAssumption DEF Exits, Reasons
<1>2. wire \in Seq(Messages)
  BY DEF SupervisionInv, RecordsInv
<1>3. CASE wire' = wire
  <2>1. Grows({})
    BY <1>2, <1>3, WireSame
  <2> QED
    BY <1>1, <1>3, <2>1, EndKeeps DEF ReturnMain, CrashWorker
<1>4. CASE wire' = Written("garbage", 0)
  <2>1. Message("garbage", 0) \in Messages
    BY DEF Message, Messages
  <2>2. Grows({Message("garbage", 0)})
    BY <1>2, <1>4, <2>1, WireWritten
  <2> QED
    BY <1>1, <1>4, <2>2, EndKeeps DEF ReturnMain, CrashWorker
<1> QED
  BY <1>3, <1>4 DEF ReturnMain, CrashWorker

\* Where a thread that reports comes from and goes to.
Reports(t, pc) ==
  \/ t = "main" /\ at[t] = "started" /\ pc \in {"join", "limit"}
  \/ /\ t = "main" /\ at[t] = "join" /\ pc \in {"publish", "limit"}
     /\ \A s \in Pool : at[s] = "joined"
  \/ t \in Pool /\ at[t] = "helper" /\ pc \in {"take", "limit"}

\* It leaves room for one more report.
LEMMA RoomForReport ==
  ASSUME PoolCounts, SupervisionInv, Alive, NEW t \in WorkerThreads, NEW pc,
         Reports(t, pc), ThreadGoto(t, pc), worker'.taken = worker.taken,
         worker'.limit = worker.limit, worker'.exit = worker.exit, published' = published
  PROVE  /\ worker.total + 1 + Cardinality(Helping)' <= worker.taken + Extra'
         /\ worker.total \in Nat /\ worker.taken \in Nat /\ Extra' \in Nat
         /\ Cardinality(Helping)' \in Nat
         /\ ThreadsInv'
<1>1. at[t] \notin {"boot", "return", "parked", "exit"} /\ pc # "helper"
  BY SMTT(30) DEF Reports
<1>2. /\ worker.total \in Nat /\ worker.taken \in Nat
      /\ "main" \in WorkerThreads /\ \A s \in Pool : s # "main" /\ s \in WorkerThreads
  BY <1>1, Moving
<1>3. at'[t] = pc /\ \A s \in WorkerThreads : s # t => at'[s] = at[s]
  BY <1>1, Moving
<1>4. PICK c \in Nat, d \in Nat : c = Cardinality(Helping) /\ d = Cardinality(Helping)'
  BY HelpingCounted DEF SupervisionInv
<1>5. PICK e \in {0, 1, 2}, x \in {0, 1, 2} : e = Extra /\ x = Extra'
  BY DEF Extra
<1>6. worker.total + c <= worker.taken + e
  BY <1>4, <1>5 DEF SupervisionInv, CountInv
<1>7. CASE t = "main"
  <2>1. d = c
    BY <1>4, <1>7, HelpingCounted DEF SupervisionInv
  <2>2. e + 1 <= x
    BY SMTT(30), <1>2, <1>3, <1>5, <1>7 DEF Extra, Reports
  <2>3. worker.total + 1 + d <= worker.taken + x
    BY SMTT(30), <1>2, <1>6, <2>1, <2>2
  <2>4. ThreadsInv'
    BY ZenonT(30), <1>2, <1>3, <1>7 DEF SupervisionInv, ThreadsInv, Reports, Blocked, Alive
  <2> QED
    BY SMTT(30), <1>2, <1>4, <1>5, <2>3, <2>4
<1>8. CASE t # "main"
  <2>1. t \in Pool /\ at[t] = "helper"
    BY <1>8 DEF Reports
  <2>2. c = d + 1
    BY <1>1, <1>4, <2>1, HelpingCounted DEF SupervisionInv
  <2>3. e = x
    BY <1>2, <1>3, <1>5, <1>8 DEF Extra
  <2>4. worker.total + 1 + d <= worker.taken + x
    BY SMTT(30), <1>2, <1>6, <2>2, <2>3
  <2>5. ThreadsInv'
    <3>1. ~published /\ at["main"] \notin {"publish", "commit", "flush", "result"}
      BY <2>1 DEF SupervisionInv, ThreadsInv
    <3> QED
      BY <1>1, <1>2, <1>3, <1>8, <3>1 DEF SupervisionInv, ThreadsInv, Blocked, Alive
  <2> QED
    BY SMTT(30), <1>2, <1>4, <1>5, <2>4, <2>5
<1> QED
  BY <1>7, <1>8

\* The thread goes on, or stops at a limit, without a report.
LEMMA SilentReportKeeps ==
  ASSUME PoolCounts, SupervisionInv, Alive, NEW t \in WorkerThreads, NEW pc,
         Reports(t, pc), ThreadGoto(t, pc),
         UNCHANGED <<worker, wire, now, helpers, published, cancelled, sup>>
  PROVE  SupervisionInv'
<1>1. /\ at[t] \notin {"boot", "return", "parked", "exit"} /\ pc # "boot"
      /\ t = "main" => pc \in MainPlaces
      /\ t # "main" => pc \in PoolPlaces
  BY PoolIsNotMain DEF Reports, MainPlaces, PoolPlaces
<1>2. CountInv!1' /\ ThreadsInv'
  <2>1. /\ worker.total + 1 + Cardinality(Helping)' <= worker.taken + Extra'
        /\ worker.total \in Nat /\ worker.taken \in Nat /\ Extra' \in Nat
        /\ Cardinality(Helping)' \in Nat
        /\ ThreadsInv'
    BY RoomForReport
  <2>2. PICK d \in Nat, x \in Nat : d = Cardinality(Helping)' /\ x = Extra'
    BY <2>1
  <2>3. worker.total + d <= worker.taken + x
    BY SMTT(30), <2>1, <2>2
  <2> QED
    BY <2>1, <2>2, <2>3
<1>3. Grows({})
  BY WireSame DEF SupervisionInv, RecordsInv
<1>4. /\ worker.began # None /\ worker' \in WorkerRecords
      /\ helpers' \subseteq [thread : Pool, own : BOOLEAN] /\ published' \in BOOLEAN
  BY <1>1, Moving
<1> QED
  BY <1>1, <1>2, <1>3, <1>4, CalmMoveKeeps

\* The worker's record after a report.
Reported(w, last, total, wrote) ==
  [w EXCEPT !.last = last, !.total = total, !.wrote = wrote]

ReportedIs(n, w, last, total, wrote) ==
  /\ n \in WorkerRecords /\ n.exit = w.exit /\ n.limit = w.limit
  /\ n.began = w.began /\ n.last = last /\ n.total = total
  /\ n.wrote = wrote /\ n.taken = w.taken

LEMMA ReportedFields ==
  ASSUME NEW w, NEW last, NEW total, NEW wrote,
         w \in WorkerRecords, {last, total, wrote} \subseteq Nat
  PROVE  ReportedIs(Reported(w, last, total, wrote), w, last, total, wrote)
<1>1. PICK n : n = Reported(w, last, total, wrote)
  OBVIOUS
<1>2. /\ n.exit = w.exit /\ n.limit = w.limit
      /\ n.began = w.began /\ n.last = last /\ n.total = total
      /\ n.wrote = wrote /\ n.taken = w.taken
  BY <1>1 DEF WorkerRecords, Reported
<1>3. n \in WorkerRecords
  <2> DEFINE a == [w EXCEPT !.last = last]
             b == [a EXCEPT !.total = total]
             c == [b EXCEPT !.wrote = wrote]
  <2>1. n = c
    BY <1>1 DEF Reported
  <2>2. a \in WorkerRecords
    BY DEF WorkerRecords
  <2> HIDE DEF a
  <2>3. b \in WorkerRecords
    BY <2>2 DEF WorkerRecords
  <2> HIDE DEF b
  <2>4. c \in WorkerRecords
    BY SMTT(30), <2>3 DEF WorkerRecords
  <2> QED
    BY <2>1, <2>4
<1> QED
  BY <1>1, <1>2, <1>3 DEF ReportedIs

\* A report counts, and is written when the interval has passed: the
\* supervisor cannot have heard of its number yet.
LEMMA LoudReportKeeps ==
  ASSUME PoolCounts, SupervisionInv, Alive, NEW t \in WorkerThreads, NEW pc,
         Reports(t, pc), ThreadGoto(t, pc),
         NEW wrote, wrote = IF worker.wrote = None \/ WriteDue THEN now ELSE worker.wrote,
         worker' = Reported(worker, now, worker.total + 1, wrote),
         wire' = IF WriteDue THEN Written("progress", worker.total + 1) ELSE wire,
         UNCHANGED <<now, helpers, published, cancelled, sup>>
  PROVE  SupervisionInv'
<1>n. PICK n, total : total = worker.total + 1 /\ n = Reported(worker, now, total, wrote)
  OBVIOUS
<1>1. /\ at[t] \notin {"boot", "return", "parked", "exit"} /\ pc # "boot"
      /\ t = "main" => pc \in MainPlaces
      /\ t # "main" => pc \in PoolPlaces
  BY PoolIsNotMain DEF Reports, MainPlaces, PoolPlaces
<1>2. /\ worker.began # None /\ worker \in WorkerRecords /\ wire \in Seq(Messages)
      /\ helpers' \subseteq [thread : Pool, own : BOOLEAN] /\ published' \in BOOLEAN
      /\ worker.total \in Nat
  BY <1>1, Moving
<1>3. now \in Nat /\ sup \in SupervisorRecords /\ Coalesce \in Nat
  <2>1. Coalesce \in Nat
    BY SupervisionAssumption
  <2> QED
    BY <2>1, Supervising
<1>4. wrote \in Nat
  BY <1>2, <1>3 DEF WorkerRecords
<1>5. worker' = n
  BY SMTT(30), <1>n
<1>6. /\ n \in WorkerRecords /\ n.exit = worker.exit /\ n.limit = worker.limit
      /\ n.began = worker.began /\ n.last = now /\ n.total = worker.total + 1
      /\ n.wrote = wrote /\ n.taken = worker.taken
  <2>1. total \in Nat
    BY SMTT(30), SMTT(30), <1>2, <1>n
  <2>2. ReportedIs(n, worker, now, total, wrote)
    BY <1>2, <1>3, <1>4, <1>n, <2>1, ReportedFields
  <2> QED
    BY <1>n, <2>2 DEF ReportedIs
<1>7. CountInv!1' /\ ThreadsInv'
  <2>1. /\ worker.total + 1 + Cardinality(Helping)' <= worker.taken + Extra'
        /\ ThreadsInv'
    BY <1>5, <1>6, RoomForReport
  <2> QED
    BY SMTT(30), <1>5, <1>6, <2>1
<1>8. ClockInv'
  <2>1. worker.wrote # None /\ ~WriteDue => worker.wrote \in Nat /\ now < worker.wrote + Coalesce
    BY SMTT(30), <1>2, <1>3 DEF WriteDue, WorkerRecords
  <2>2. wrote <= now /\ now <= wrote + Coalesce
    BY SMTT(30), <1>3, <2>1 DEF SupervisionInv, ClockInv
  <2>3. wrote # None
    BY <1>4, SupervisionAssumption
  <2>4. sup'.last <= now'
    BY DEF SupervisionInv, ClockInv
  <2>5. /\ worker'.last = now' /\ worker'.wrote = wrote /\ now' = now
    BY <1>5, <1>6
  <2> QED
    BY SMTT(30), <1>3, <2>2, <2>3, <2>4, <2>5 DEF ClockInv
<1>9. PICK m : m = Message("progress", worker.total + 1)
  BY SMTT(30), SMTT(30)
<1>10. m \in Messages /\ m.kind = "progress" /\ m.total = worker.total + 1
  BY SMTT(30), <1>2, <1>9 DEF Message, Messages
<1>11. PICK new \in SUBSET {m} : Grows(new)
  <2>1. CASE WriteDue
    BY <1>2, <1>9, <1>10, <2>1, WireWritten
  <2>2. CASE ~WriteDue
    BY <1>2, <2>2, WireSame
  <2> QED
    BY <2>1, <2>2
<1>12. HeardInv'
  <2>1. sup.total \in Nat /\ sup.total <= worker.total
    BY SMTT(30), <1>3 DEF SupervisionInv, CountInv, SupervisorRecords
  <2>2. CASE worker.wrote = None
    <3>1. worker.total = 0
      BY <2>2 DEF SupervisionInv, ClockInv
    <3> QED
      BY SMTT(30), <2>1, <3>1 DEF HeardInv
  <2>3. CASE WriteDue
    <3>1. sup.pc \in Polling => \E i \in DOMAIN wire' : wire'[i] = m
      BY ZenonT(30), ZenonT(30), <1>2, <1>9, <1>10, <2>3, WireWritten DEF SupervisionInv, VerdictInv
    <3>2. m.total > sup.total
      BY SMTT(30), <1>2, <1>10, <2>1
    <3> QED
      BY ZenonT(30), <1>10, <3>1, <3>2 DEF HeardInv
  <2>4. CASE worker.wrote # None /\ ~WriteDue
    <3>1. worker'.wrote = worker.wrote /\ wire' = wire
      BY <1>5, <1>6, <2>4
    <3> QED
      BY <3>1 DEF SupervisionInv, HeardInv
  <2> QED
    BY SMTT(30), <2>2, <2>3, <2>4
<1>13. /\ now' = now /\ cancelled' = cancelled /\ sup' = sup /\ worker' \in WorkerRecords
       /\ worker'.exit = worker.exit /\ worker'.began = worker.began
       /\ worker.total <= worker'.total /\ published' = published
  BY SMTT(30), <1>2, <1>5, <1>6
<1>14. new \in SUBSET Messages /\ \A x \in new : x.kind = "progress" /\ x.total <= worker'.total
  BY SMTT(30), <1>2, <1>5, <1>6, <1>10
<1>15. \A x \in new : x.kind # "result" /\ x.kind # "failure"
  BY <1>14
<1> QED
  BY SMTT(30), SMTT(30), <1>1, <1>2, <1>7, <1>8, <1>11, <1>12, <1>13, <1>14, <1>15, MoveKeeps

LEMMA ReportKeeps ==
  ASSUME PoolCounts, SupervisionInv, Alive, NEW t \in WorkerThreads, NEW pc,
         Reports(t, pc), Reports(t, "limit"), ReportProgress(t, pc),
         UNCHANGED <<now, helpers, published, cancelled, sup>>
  PROVE  SupervisionInv'
<1>1. CASE worker.limit
  BY <1>1, SilentReportKeeps DEF ReportProgress
<1>2. CASE ~worker.limit /\ Expired
  BY <1>2, SilentReportKeeps DEF ReportProgress
<1>3. CASE ~worker.limit /\ ~Expired
  <2>1. PICK wrote : wrote = IF worker.wrote = None \/ WriteDue THEN now ELSE worker.wrote
    OBVIOUS
  <2>2. worker' = Reported(worker, now, worker.total + 1, wrote)
    BY <1>3, <2>1 DEF ReportProgress, Reported
  <2>3. /\ wire' = IF WriteDue THEN Written("progress", worker.total + 1) ELSE wire
        /\ ThreadGoto(t, pc)
    BY <1>3 DEF ReportProgress
  <2> QED
    BY <2>1, <2>2, <2>3, LoudReportKeeps
<1> QED
  BY <1>1, <1>2, <1>3

LEMMA ReportingStepsKeep ==
  ASSUME PoolCounts, SupervisionInv, Started \/ Join \/ \E t \in Pool : UnitDone(t)
  PROVE  SupervisionInv'
<1>1. "main" \in WorkerThreads
  BY DEF WorkerThreads
<1>2. CASE Started
  <2>1. Reports("main", "join") /\ Reports("main", "limit")
    BY <1>2 DEF Started, Reports
  <2> QED
    BY <1>1, <1>2, <2>1, ReportKeeps DEF Started
<1>3. CASE Join
  <2>1. Reports("main", "publish") /\ Reports("main", "limit")
    BY SMTT(30), <1>3 DEF Join, Reports
  <2> QED
    BY <1>1, <1>3, <2>1, ReportKeeps DEF Join
<1>4. CASE \E t \in Pool : UnitDone(t)
  <2>1. PICK t \in Pool : UnitDone(t)
    BY <1>4
  <2>2. Reports(t, "take") /\ Reports(t, "limit") /\ t \in WorkerThreads
    BY <2>1, PoolIsNotMain DEF UnitDone, Reports
  <2> QED
    BY <2>1, <2>2, ReportKeeps DEF UnitDone
<1> QED
  BY <1>2, <1>3, <1>4

LEMMA WorkerKeeps ==
  ASSUME PoolCounts, SupervisionInv, WorkerStep \/ CrashWorker
  PROVE  SupervisionInv'
BY SMTT(30), LoadPolicyKeeps, ReportingStepsKeep, PublishRowsKeeps, CommitKeeps, ScanFailsKeeps,
   FlushProgressKeeps, WriteResultKeeps, ProcessEndsKeep, TakeUnitKeeps,
   NoUnitLeftKeeps, ExitForExecutionLimitKeeps
DEF WorkerStep

-----------------------------------------------------------------------------
(***************************************************************************)
(* The supervision: steps of the supervisor                                *)
(***************************************************************************)
\* The worker as a step of the supervisor leaves it.
Spared == worker' = worker \/ (Alive /\ worker' = [worker EXCEPT !.exit = "signal"])

Shrinks ==
  /\ wire' \in Seq(Messages)
  /\ \A i \in DOMAIN wire' : \E j \in DOMAIN wire : wire'[i] = wire[j]
  /\ wire = <<>> => wire' = <<>>

LEMMA SparedFields ==
  ASSUME SupervisionInv, Spared
  PROVE  /\ worker' \in WorkerRecords /\ worker'.limit = worker.limit
         /\ worker'.began = worker.began /\ worker'.last = worker.last
         /\ worker'.total = worker.total /\ worker'.taken = worker.taken
         /\ worker'.wrote = worker.wrote
         /\ Alive' => Alive
         /\ ~Alive => worker' = worker
<1>1. worker \in WorkerRecords
  BY DEF SupervisionInv, RecordsInv
<1>2. CASE worker' = worker
  BY <1>1, <1>2 DEF Alive
<1>3. CASE Alive /\ worker' = [worker EXCEPT !.exit = "signal"]
  <2> DEFINE n == [worker EXCEPT !.exit = "signal"]
  <2>1. /\ n \in WorkerRecords /\ n.exit = "signal" /\ n.limit = worker.limit
        /\ n.began = worker.began /\ n.last = worker.last
        /\ n.total = worker.total /\ n.taken = worker.taken /\ n.wrote = worker.wrote
    BY <1>1 DEF WorkerRecords, Exits
  <2> QED
    BY <1>3, <2>1
<1> QED
  BY <1>2, <1>3 DEF Spared

\* A step of the supervisor keeps what is said of the worker.
LEMMA SupervisorStepKeeps ==
  ASSUME SupervisionInv, Spared, Shrinks,
         UNCHANGED <<now, at, published, cancelled>>,
         helpers' \subseteq helpers,
         sup' \in SupervisorRecords,
         sup'.total <= worker.total, sup'.last <= now,
         sup'.result => sup.result \/ OnWire("result"),
         sup'.pc = "failing" \/ sup'.why = "failure" =>
           OnWire("failure") \/ sup.pc = "failing" \/ sup.why = "failure",
         VerdictInv', PolicyInv', HeardInv'
  PROVE  SupervisionInv'
<1>1. /\ worker' \in WorkerRecords /\ worker'.limit = worker.limit
      /\ worker'.began = worker.began /\ worker'.last = worker.last
      /\ worker'.total = worker.total /\ worker'.taken = worker.taken
      /\ worker'.wrote = worker.wrote
      /\ Alive' => Alive
  BY SparedFields
<1>2. Blocked => Blocked'
  BY <1>1 DEF Blocked
<1>3. \A kind : OnWire(kind)' => OnWire(kind)
  BY DEF OnWire, Shrinks
<1>4. RecordsInv'
  BY <1>1 DEF SupervisionInv, RecordsInv, Shrinks
<1>5. CountInv'
  <2>1. Helping' = Helping /\ Extra' = Extra
    BY SMTT(30) DEF Helping, Extra
  <2>2. CountInv!1'
    BY <1>1, <2>1 DEF SupervisionInv, CountInv
  <2>3. \A i \in DOMAIN wire' : wire'[i].total <= worker'.total
    BY ZenonT(30), <1>1 DEF SupervisionInv, CountInv, Shrinks
  <2> QED
    BY <1>1, <2>2, <2>3 DEF CountInv
<1>6. ThreadsInv'
  BY SMTT(30), <1>1, <1>2 DEF SupervisionInv, ThreadsInv
<1>7. BeginInv'
  BY <1>1, <1>3 DEF SupervisionInv, BeginInv, Shrinks
<1>8. MessageInv'
  BY SMTT(30), <1>2, <1>3 DEF SupervisionInv, MessageInv
<1>9. ClockInv'
  BY <1>1 DEF SupervisionInv, ClockInv
<1> QED
  BY <1>4, <1>5, <1>6, <1>7, <1>8, <1>9 DEF SupervisionInv

LEMMA WireKeptOrDropped ==
  ASSUME SupervisionInv, wire' = wire \/ wire' = <<>>
  PROVE  Shrinks
<1>1. wire \in Seq(Messages)
  BY DEF SupervisionInv, RecordsInv
<1>2. CASE wire' = wire
  BY <1>1, <1>2 DEF Shrinks
<1>3. CASE wire' = <<>>
  <2>1. wire' \in Seq(Messages) /\ DOMAIN wire' = {}
    BY SMTT(30), <1>3
  <2> QED
    BY <1>3, <2>1 DEF Shrinks
<1> QED
  BY <1>2, <1>3

LEMMA WireTail ==
  ASSUME wire \in Seq(Messages), wire # <<>>, wire' = Tail(wire)
  PROVE  /\ Shrinks
         /\ \A i \in DOMAIN wire : i = 1 \/ \E j \in DOMAIN wire' : wire'[j] = wire[i]
         /\ Head(wire) = wire[1] /\ 1 \in DOMAIN wire /\ Head(wire) \in Messages
<1>1. /\ wire' \in Seq(Messages) /\ Len(wire') = Len(wire) - 1 /\ Len(wire) \in Nat
      /\ Len(wire) > 0
      /\ DOMAIN wire = 1 .. Len(wire) /\ DOMAIN wire' = 1 .. Len(wire')
  BY SMTT(30)
<1>2. \A i \in 1 .. Len(wire) - 1 : wire'[i] = wire[i + 1]
  BY SMTT(30)
<1>3. Head(wire) = wire[1] /\ 1 \in DOMAIN wire /\ Head(wire) \in Messages
  BY SMTT(30), <1>1
<1>4. Shrinks
  <2>1. ASSUME NEW i \in DOMAIN wire' PROVE \E j \in DOMAIN wire : wire'[i] = wire[j]
    <3>1. i + 1 \in DOMAIN wire /\ wire'[i] = wire[i + 1]
      BY SMTT(30), <1>1, <1>2
    <3> QED
      BY <3>1
  <2> QED
    BY <1>1, <2>1 DEF Shrinks
<1>5. ASSUME NEW i \in DOMAIN wire, i # 1
      PROVE  \E j \in DOMAIN wire' : wire'[j] = wire[i]
  <2>1. i - 1 \in DOMAIN wire' /\ wire'[i - 1] = wire[i]
    BY SMTT(30), <1>1, <1>2, <1>5
  <2> QED
    BY <2>1
<1> QED
  BY <1>3, <1>4, <1>5

\* The record of the supervisor after it left the loop.
Left(n, pc, why) ==
  /\ n \in SupervisorRecords /\ n.pc = pc /\ n.why = why /\ n.last = 0
  /\ n.total = sup.total /\ n.result = sup.result

LEMMA LeftFields ==
  ASSUME sup \in SupervisorRecords, NEW pc \in {"tree", "returned"}, NEW why \in Reasons,
         NEW n, n = [sup EXCEPT !.pc = pc, !.why = why, !.last = 0, !.since = 0]
  PROVE  Left(n, pc, why)
<1> DEFINE a == [sup EXCEPT !.pc = pc]
           b == [a EXCEPT !.why = why]
           c == [b EXCEPT !.last = 0]
           d == [c EXCEPT !.since = 0]
<1>1. n = d
  OBVIOUS
<1>2. /\ a \in SupervisorRecords /\ a.pc = pc /\ a.total = sup.total
      /\ a.result = sup.result
  BY DEF SupervisorRecords, Terminating
<1> HIDE DEF a
<1>3. /\ b \in SupervisorRecords /\ b.pc = pc /\ b.why = why /\ b.total = sup.total
      /\ b.result = sup.result
  BY <1>2 DEF SupervisorRecords
<1> HIDE DEF b
<1>4. /\ c \in SupervisorRecords /\ c.pc = pc /\ c.why = why /\ c.total = sup.total
      /\ c.result = sup.result /\ c.last = 0
  BY <1>3 DEF SupervisorRecords
<1> HIDE DEF c
<1>5. /\ d \in SupervisorRecords /\ d.pc = pc /\ d.why = why /\ d.total = sup.total
      /\ d.result = sup.result /\ d.last = 0
  BY ZenonT(30), <1>4 DEF SupervisorRecords
<1> QED
  BY ZenonT(30), <1>1, <1>5 DEF Left

LEMMA TerminateLeaves ==
  ASSUME sup \in SupervisorRecords, NEW why \in Reasons, Terminate(why)
  PROVE  Left(sup', "tree", why)
BY LeftFields DEF Terminate

LEMMA ReturnLeaves ==
  ASSUME sup \in SupervisorRecords, NEW why \in Reasons, Return(why)
  PROVE  /\ Left(sup', "returned", why)
         /\ helpers' \subseteq helpers /\ InGroup' = {}
<1>1. Left(sup', "returned", why)
  <2>1. sup' = [sup EXCEPT !.pc = "returned", !.why = why, !.last = 0, !.since = 0]
    BY ZenonT(30) DEF Return, SupervisorRecords
  <2> QED
    BY <2>1, LeftFields
<1>2. helpers' \subseteq helpers /\ InGroup' = {}
  BY DEF Return, InGroup
<1> QED
  BY <1>1, <1>2

\* The loop ends: with an error, or because the worker is gone.
LEMMA LeavingKeeps ==
  ASSUME SupervisionInv, Spared, Shrinks,
         UNCHANGED <<now, at, published, cancelled>>, helpers' \subseteq helpers,
         NEW pc \in {"tree", "returned"}, NEW why \in Reasons, Left(sup', pc, why),
         pc = "returned" => ~Alive' /\ InGroup' = {},
         why = "ok" => pc = "returned" /\ published /\ worker'.exit = "ok",
         why = "failure" => OnWire("failure") \/ sup.pc = "failing" \/ sup.why = "failure"
  PROVE  SupervisionInv'
<1>1. /\ sup' \in SupervisorRecords /\ sup'.pc = pc /\ sup'.why = why /\ sup'.last = 0
      /\ sup'.total = sup.total /\ sup'.result = sup.result
  BY DEF Left
<1>2. sup'.total <= worker.total /\ sup'.last <= now
  <2>1. 0 <= now
    BY SMTT(30), Supervising
  <2>2. sup.total <= worker.total
    BY DEF SupervisionInv, CountInv
  <2> QED
    BY <1>1, <2>1, <2>2
<1>3. pc \notin Polling \cup {"failing"} /\ why # None
  BY SupervisionAssumption DEF Polling
<1>4. VerdictInv'
  BY SMTT(30), <1>1, <1>3 DEF VerdictInv
<1>5. PolicyInv' /\ HeardInv'
  BY <1>1, <1>3 DEF PolicyInv, HeardInv
<1> QED
  BY <1>1, <1>2, <1>4, <1>5, SupervisorStepKeeps

\* The loop, or the termination, goes on with the same reason.
Same(n, pcs) ==
  /\ n \in SupervisorRecords /\ n.pc \in pcs /\ n.why = sup.why /\ n.last = sup.last
  /\ n.total = sup.total /\ n.result = sup.result /\ n.received = sup.received

LEMMA LoopKeeps ==
  ASSUME SupervisionInv, sup.pc \in Polling, Same(sup', Polling),
         UNCHANGED <<now, worker, at, wire, published, cancelled>>,
         helpers' \subseteq helpers
  PROVE  SupervisionInv'
<1>1. /\ sup' \in SupervisorRecords /\ sup'.pc \in Polling /\ sup'.why = sup.why
      /\ sup'.last = sup.last /\ sup'.total = sup.total /\ sup'.result = sup.result
      /\ sup'.received = sup.received
  BY SMTT(30) DEF Same
<1>2. sup'.total <= worker.total /\ sup'.last <= now
  BY <1>1 DEF SupervisionInv, CountInv, ClockInv
<1>3. sup.why = None /\ sup'.pc # "failing" /\ sup'.pc # "returned"
  BY SMTT(30), <1>1 DEF SupervisionInv, VerdictInv, Polling
<1>4. VerdictInv'
  BY SMTT(30), <1>1, <1>3, SupervisionAssumption DEF VerdictInv, Reasons
<1>5. PolicyInv' /\ HeardInv'
  BY <1>1 DEF SupervisionInv, PolicyInv, HeardInv
<1>6. Spared /\ Shrinks
  BY WireKeptOrDropped DEF Spared
<1> QED
  BY ZenonT(30), <1>1, <1>2, <1>3, <1>4, <1>5, <1>6, SupervisorStepKeeps

LEMMA TerminationKeeps ==
  ASSUME SupervisionInv, sup.pc \in Terminating, Same(sup', Terminating),
         Spared, wire' = wire \/ wire' = <<>>,
         UNCHANGED <<now, at, published, cancelled>>,
         helpers' \subseteq helpers
  PROVE  SupervisionInv'
<1>1. /\ sup' \in SupervisorRecords /\ sup'.pc \in Terminating /\ sup'.why = sup.why
      /\ sup'.last = sup.last /\ sup'.total = sup.total /\ sup'.result = sup.result
  BY SMTT(30) DEF Same
<1>2. sup'.total <= worker.total /\ sup'.last <= now
  BY <1>1 DEF SupervisionInv, CountInv, ClockInv
<1>3. sup'.pc \notin Polling \cup {"failing", "returned"}
  BY <1>1 DEF Polling, Terminating
<1>4. sup.why # None /\ sup.why # "ok"
  BY DEF SupervisionInv, VerdictInv, Polling, Terminating
<1>5. VerdictInv'
  BY <1>1, <1>3, <1>4 DEF VerdictInv
<1>6. PolicyInv' /\ HeardInv'
  BY <1>3 DEF PolicyInv, HeardInv
<1>7. Shrinks
  BY WireKeptOrDropped
<1> QED
  BY SMTT(30), <1>1, <1>2, <1>3, <1>5, <1>6, <1>7, SupervisorStepKeeps

LEMMA CancellationKeeps ==
  ASSUME SupervisionInv, Cancellation
  PROVE  SupervisionInv'
<1>1. /\ UNCHANGED <<now, worker, at, helpers, wire, published, cancelled>>
      /\ sup.pc = "top" /\ sup \in SupervisorRecords
  BY Supervising DEF Cancellation, World
<1>2. Spared /\ Shrinks
  BY <1>1, WireKeptOrDropped DEF Spared
<1>3. CASE cancelled
  <2>1. Left(sup', "tree", "cancelled") /\ "cancelled" \in Reasons
    BY <1>1, <1>3, TerminateLeaves DEF Cancellation, Reasons
  <2> QED
    BY <1>1, <1>2, <2>1, LeavingKeeps
<1>4. CASE ~cancelled
  <2>1. Same([sup EXCEPT !.pc = "drain"], Polling)
    BY <1>1 DEF Same, SupervisorRecords, Polling
  <2> QED
    BY <1>1, <1>4, <2>1, LoopKeeps DEF Cancellation, Polling
<1> QED
  BY <1>3, <1>4

LEMMA AwaitFailureKeeps ==
  ASSUME SupervisionInv, AwaitFailure
  PROVE  SupervisionInv'
<1>1. /\ UNCHANGED <<now, worker, at, wire, published, cancelled>>
      /\ sup.pc = "failing" /\ sup \in SupervisorRecords /\ "failure" \in Reasons
  BY Supervising DEF AwaitFailure, Reasons
<1>2. Spared /\ Shrinks
  BY <1>1, WireKeptOrDropped DEF Spared
<1>3. CASE Alive
  <2>1. Left(sup', "tree", "failure") /\ helpers' = helpers
    BY <1>1, <1>3, TerminateLeaves DEF AwaitFailure
  <2> QED
    BY <1>1, <1>2, <2>1, LeavingKeeps
<1>4. CASE ~Alive
  <2>1. Left(sup', "returned", "failure") /\ helpers' \subseteq helpers /\ InGroup' = {}
    BY <1>1, <1>4, ReturnLeaves DEF AwaitFailure
  <2>2. ~Alive'
    BY SMTT(30), <1>1, <1>4 DEF Alive
  <2> QED
    BY <1>1, <1>2, <2>1, <2>2, LeavingKeeps
<1> QED
  BY <1>3, <1>4

LEMMA PollKeeps ==
  ASSUME SupervisionInv, Poll
  PROVE  SupervisionInv'
<1>1. /\ UNCHANGED <<now, worker, at, wire, published, cancelled>>
      /\ sup.pc = "drain" /\ sup \in SupervisorRecords /\ now \in Nat
      /\ {"wall", "idle", "memory", "process", "ok"} \subseteq Reasons
  BY Supervising DEF Poll, Reasons
<1>2. Spared /\ Shrinks /\ Alive' = Alive
  BY <1>1, WireKeptOrDropped DEF Spared, Alive
<1>3. ASSUME NEW why \in {"wall", "idle", "memory"}, Terminate(why), helpers' = helpers
      PROVE  SupervisionInv'
  <2>1. Left(sup', "tree", why)
    BY <1>1, <1>3, TerminateLeaves
  <2>2. why \in Reasons /\ why # "ok" /\ why # "failure"
    BY <1>1, <1>3
  <2> QED
    BY <1>1, <1>2, <1>3, <2>1, <2>2, LeavingKeeps
<1>4. CASE TryWait
  <2>1. CASE Alive
    <3>1. Same([sup EXCEPT !.pc = "top"], Polling)
      BY <1>1 DEF Same, SupervisorRecords, Polling
    <3> QED
      BY <1>1, <1>4, <2>1, <3>1, LoopKeeps DEF TryWait, Polling
  <2>2. ASSUME ~Alive, NEW why \in {"ok", "process"}, Return(why),
               why = "ok" => worker.exit = "ok" /\ sup.result
        PROVE  SupervisionInv'
    <3>1. Left(sup', "returned", why) /\ helpers' \subseteq helpers /\ InGroup' = {}
      BY <1>1, <2>2, ReturnLeaves
    <3>2. why = "ok" => published /\ worker'.exit = "ok"
      BY <1>1, <2>2 DEF SupervisionInv, MessageInv
    <3>3. why \in Reasons /\ why # "failure" /\ ~Alive'
      BY <1>1, <1>2, <2>2
    <3> QED
      BY <1>1, <1>2, <3>1, <3>2, <3>3, LeavingKeeps
  <2>3. ASSUME sup' = [sup EXCEPT !.pc = "top", !.exited = IF @ = None THEN now ELSE @],
               helpers' = helpers \ InGroup
        PROVE  SupervisionInv'
    <3>1. PICK e \in Nat \cup {None} : e = IF sup.exited = None THEN now ELSE sup.exited
      BY <1>1 DEF SupervisorRecords
    <3> DEFINE a == [sup EXCEPT !.pc = "top"]
               b == [a EXCEPT !.exited = e]
    <3>2. Same(a, Polling)
      BY <1>1 DEF Same, SupervisorRecords, Polling
    <3>3. sup' = b
      BY <2>3, <3>1
    <3> HIDE DEF a
    <3>4. Same(b, Polling)
      BY <3>2 DEF Same, SupervisorRecords
    <3> QED
      BY <1>1, <2>3, <3>3, <3>4, LoopKeeps DEF Polling
  <2> QED
    BY <1>4, <2>1, <2>2, <2>3 DEF TryWait
<1> QED
  BY <1>3, <1>4 DEF Poll, Exceeded

\* The steps of a termination.
LEMMA KillTreeKeeps ==
  ASSUME SupervisionInv, KillTree
  PROVE  SupervisionInv'
<1>1. /\ UNCHANGED <<now, worker, at, published, cancelled>> /\ wire' = <<>>
      /\ sup.pc \in {"tree", "again"} /\ sup \in SupervisorRecords /\ now \in Nat
      /\ Spared /\ sup.pc \in Terminating
  BY Supervising DEF KillTree, Spared, Terminating
<1>2. ASSUME NEW pc \in Terminating,
             sup' = [sup EXCEPT !.since = now, !.rounds = 0, !.pc = pc],
             helpers' = helpers
      PROVE  SupervisionInv'
  <2> DEFINE a == [sup EXCEPT !.since = now]
             b == [a EXCEPT !.rounds = 0]
             c == [b EXCEPT !.pc = pc]
  <2>1. Same(a, Terminating)
    BY <1>1 DEF Same, SupervisorRecords
  <2>2. sup' = c
    BY <1>2
  <2> HIDE DEF a
  <2>3. Same(b, Terminating)
    BY SMTT(30), <2>1 DEF Same, SupervisorRecords
  <2> HIDE DEF b
  <2>4. Same(c, Terminating)
    BY <1>2, <2>3 DEF Same, SupervisorRecords
  <2> QED
    BY <1>1, <1>2, <2>2, <2>4, TerminationKeeps
<1>3. ASSUME sup.rounds # 3, sup' = [sup EXCEPT !.rounds = @ + 1], helpers' = {}
      PROVE  SupervisionInv'
  <2>1. PICK r : r = sup.rounds + 1
    OBVIOUS
  <2>2. r \in 0 .. 3 /\ sup' = [sup EXCEPT !.rounds = r]
    BY SMTT(30), <1>1, <1>3, <2>1 DEF SupervisorRecords
  <2>3. Same([sup EXCEPT !.rounds = r], Terminating)
    BY <1>1, <2>2 DEF Same, SupervisorRecords
  <2> QED
    BY <1>1, <1>3, <2>2, <2>3, TerminationKeeps
<1>4. {"term", "kill"} \subseteq Terminating
  BY SMTT(30) DEF Terminating
<1>5. CASE sup.rounds = 3 \/ ~Alive \/ helpers = {}
  <2>1. PICK pc \in {"term", "kill"} : pc = IF sup.pc = "tree" THEN "term" ELSE "kill"
    OBVIOUS
  <2>2. sup' = [sup EXCEPT !.since = now, !.rounds = 0, !.pc = pc] /\ helpers' = helpers
    BY <1>5, <2>1 DEF KillTree
  <2> QED
    BY <1>2, <1>4, <2>2
<1>6. CASE ~(sup.rounds = 3 \/ ~Alive \/ helpers = {})
  BY <1>3, <1>6 DEF KillTree
<1> QED
  BY <1>5, <1>6

LEMMA RequestTerminationKeeps ==
  ASSUME SupervisionInv, RequestTermination
  PROVE  SupervisionInv'
<1>1. /\ UNCHANGED <<now, at, wire, published, cancelled>>
      /\ sup.pc = "term" /\ sup \in SupervisorRecords /\ sup.pc \in Terminating
      /\ helpers' \subseteq helpers
  BY Supervising DEF RequestTermination, Terminating, InGroup
<1>2. Spared
  BY DEF RequestTermination, Spared
<1>3. Same([sup EXCEPT !.pc = "grace"], Terminating)
  BY <1>1 DEF Same, SupervisorRecords, Terminating
<1>4. sup' = [sup EXCEPT !.pc = "grace"]
  BY DEF RequestTermination
<1> QED
  BY <1>1, <1>2, <1>3, <1>4, TerminationKeeps

\* Why a termination began.
LEMMA TerminationHasReason ==
  ASSUME SupervisionInv, sup.pc \in Terminating
  PROVE  sup.why \in Reasons /\ sup.why # "ok"
BY Supervising DEF SupervisionInv, VerdictInv, SupervisorRecords, Polling, Terminating

LEMMA AwaitGraceKeeps ==
  ASSUME SupervisionInv, AwaitGrace
  PROVE  SupervisionInv'
<1>1. /\ UNCHANGED <<now, worker, at, wire, published, cancelled>>
      /\ sup.pc = "grace" /\ sup \in SupervisorRecords /\ sup.pc \in Terminating
  BY Supervising DEF AwaitGrace, Terminating
<1>2. Spared /\ Shrinks
  BY <1>1, WireKeptOrDropped DEF Spared
<1>3. CASE ~Alive
  <2>1. PICK why \in Reasons : why = sup.why /\ why # "ok"
    BY <1>1, TerminationHasReason
  <2>2. Left(sup', "returned", why) /\ helpers' \subseteq helpers /\ InGroup' = {}
    BY <1>1, <1>3, <2>1, ReturnLeaves DEF AwaitGrace
  <2>3. ~Alive'
    BY <1>1, <1>3 DEF Alive
  <2> QED
    BY SMTT(30), <1>1, <1>2, <2>1, <2>2, <2>3, LeavingKeeps
<1>4. CASE Alive
  <2>1. Same([sup EXCEPT !.pc = "again"], Terminating)
    BY <1>1 DEF Same, SupervisorRecords, Terminating
  <2>2. sup' = [sup EXCEPT !.pc = "again"] /\ helpers' = helpers
    BY <1>4 DEF AwaitGrace
  <2> QED
    BY <1>1, <1>2, <2>1, <2>2, TerminationKeeps
<1> QED
  BY <1>3, <1>4

LEMMA ForceTerminationKeeps ==
  ASSUME SupervisionInv, ForceTermination
  PROVE  SupervisionInv'
<1>1. /\ UNCHANGED <<now, at, wire, published, cancelled>>
      /\ sup.pc = "kill" /\ sup \in SupervisorRecords /\ sup.pc \in Terminating
      /\ worker \in WorkerRecords
  BY Supervising DEF ForceTermination, Terminating
<1>2. Spared /\ Shrinks
  BY <1>1, WireKeptOrDropped DEF Spared, ForceTermination
<1>3. PICK why \in Reasons : why = sup.why /\ why # "ok"
  BY <1>1, TerminationHasReason
<1>4. Left(sup', "returned", why) /\ helpers' \subseteq helpers /\ InGroup' = {}
  BY <1>1, <1>3, ReturnLeaves DEF ForceTermination
<1>5. ~Alive'
  <2>1. CASE Alive
    <3>1. worker' = [worker EXCEPT !.exit = "signal"]
      BY <2>1 DEF ForceTermination
    <3>2. worker'.exit = "signal"
      BY <1>1, <3>1 DEF WorkerRecords
    <3> QED
      BY <3>2, SupervisionAssumption DEF Alive
  <2>2. CASE ~Alive
    BY <2>2 DEF ForceTermination, Alive
  <2> QED
    BY <2>1, <2>2
<1> QED
  BY <1>1, <1>2, <1>3, <1>4, <1>5, LeavingKeeps

\* The match on one message.
LEMMA DrainKeeps ==
  ASSUME SupervisionInv, Drain
  PROVE  SupervisionInv'
<1>1. /\ UNCHANGED <<now, worker, at, helpers, published, cancelled>>
      /\ sup.pc = "drain" /\ sup \in SupervisorRecords /\ worker \in WorkerRecords
      /\ wire \in Seq(Messages) /\ wire # <<>> /\ wire' = Tail(wire) /\ now \in Nat
  BY Supervising DEF Drain
<1>2. PICK m \in Messages : m = Head(wire) /\ m = wire[1] /\ 1 \in DOMAIN wire
  BY <1>1, WireTail
<1>3. Shrinks /\ Spared /\ helpers' \subseteq helpers
  BY <1>1, WireTail DEF Spared
<1>4. \A i \in DOMAIN wire : i = 1 \/ \E j \in DOMAIN wire' : wire'[j] = wire[i]
  BY <1>1, WireTail
<1>5. Apply(m)
  BY <1>2 DEF Drain
<1>6. /\ sup.why = None /\ sup.total <= worker.total /\ sup.last <= now
      /\ sup.total \in Nat /\ worker.total \in Nat
      /\ m.total \in Nat /\ m.total <= worker.total
  BY SMTT(30), <1>1, <1>2 DEF SupervisionInv, VerdictInv, CountInv, ClockInv, Polling,
                    SupervisorRecords, WorkerRecords, Messages
\* What is left to show of a step that stays in the loop.
<1>7. ASSUME sup' \in SupervisorRecords, sup'.pc = "drain", sup'.why = sup.why,
             sup'.received, sup'.total <= worker.total, sup'.last <= now,
             sup'.result => sup.result \/ OnWire("result"), HeardInv'
      PROVE  SupervisionInv'
  <2>1. VerdictInv'
    BY <1>6, <1>7, SupervisionAssumption DEF VerdictInv, Reasons, Polling
  <2>2. PolicyInv'
    BY <1>7 DEF PolicyInv
  <2>3. sup'.pc # "failing" /\ sup'.why # "failure"
    BY <1>6, <1>7, SupervisionAssumption DEF Reasons
  <2> QED
    BY <1>1, <1>3, <1>7, <2>1, <2>2, <2>3, SupervisorStepKeeps
\* A message that does not raise the total leaves the one that will.
<1>8. ASSUME sup'.total = sup.total, sup'.last = sup.last,
             m.kind # "progress" \/ ~(m.total > sup.total)
      PROVE  HeardInv'
  <2> SUFFICES ASSUME worker.wrote # None, sup.total # 0
               PROVE  \/ sup.last >= worker.wrote
                      \/ \E i \in DOMAIN wire' :
                           wire'[i].kind = "progress" /\ wire'[i].total > sup.total
    BY <1>1, <1>8 DEF HeardInv
  <2>1. \/ sup.last >= worker.wrote
        \/ \E i \in DOMAIN wire : wire[i].kind = "progress" /\ wire[i].total > sup.total
    BY <1>1 DEF SupervisionInv, HeardInv, Polling
  <2>2. ASSUME NEW i \in DOMAIN wire, wire[i].kind = "progress", wire[i].total > sup.total
        PROVE  \E j \in DOMAIN wire' :
                 wire'[j].kind = "progress" /\ wire'[j].total > sup.total
    <3>1. i # 1
      BY SMTT(30), <1>2, <1>8, <2>2
    <3> QED
      BY <1>4, <2>2, <3>1
  <2> QED
    BY <2>1, <2>2
<1>9. CASE m.kind = "policy" /\ ~sup.received
  <2> DEFINE a == [sup EXCEPT !.policy = Policy]
             b == [a EXCEPT !.received = TRUE]
  <2>1. sup' = b
    BY <1>5, <1>9 DEF Apply
  <2>2. Same(a, {"drain"})
    BY <1>1 DEF Same, SupervisorRecords
  <2> HIDE DEF a
  <2>3. /\ b \in SupervisorRecords /\ b.pc = "drain" /\ b.why = sup.why /\ b.received
        /\ b.total = sup.total /\ b.last = sup.last /\ b.result = sup.result
    BY <2>2 DEF Same, SupervisorRecords
  <2> HIDE DEF b
  <2>4. HeardInv'
    BY <1>8, <1>9, <2>1, <2>3
  <2> QED
    BY <1>6, <1>7, <2>1, <2>3, <2>4
<1>10. CASE m.kind = "progress"
  <2>1. sup.received
    <3>1. OnWire("progress")
      BY <1>2, <1>10 DEF OnWire
    <3>2. worker.began # None
      BY <3>1 DEF SupervisionInv, BeginInv
    <3>3. m.kind # "policy"
      BY <1>10
    <3> QED
      BY SMTT(30), <1>1, <1>2, <3>2, <3>3 DEF SupervisionInv, PolicyInv, Polling
  <2>2. CASE m.total > sup.total
    <3>1. PICK c \in Nat : c = m.total
      BY <1>6
    <3> DEFINE a == [sup EXCEPT !.total = c]
               b == [a EXCEPT !.last = now]
    <3>2. sup' = b
      BY <1>5, <1>10, <2>1, <2>2, <3>1 DEF Apply
    <3>3. /\ a \in SupervisorRecords /\ a.pc = "drain" /\ a.why = sup.why /\ a.received
          /\ a.total = c /\ a.result = sup.result
      BY <1>1, <2>1, <3>1 DEF SupervisorRecords
    <3> HIDE DEF a
    <3>4. /\ b \in SupervisorRecords /\ b.pc = "drain" /\ b.why = sup.why /\ b.received
          /\ b.total = c /\ b.last = now /\ b.result = sup.result
      BY <1>1, <3>3 DEF SupervisorRecords
    <3> HIDE DEF b
    <3>5. HeardInv'
      <4>1. worker.wrote # None => worker.wrote \in Nat /\ worker.wrote <= now
        BY <1>1 DEF SupervisionInv, ClockInv, WorkerRecords
      <4>2. worker.wrote # None => now >= worker.wrote
        BY <1>1, <4>1
      <4>3. sup'.last = now /\ worker' = worker
        BY <1>1, <3>2, <3>4
      <4> QED
        BY <4>2, <4>3 DEF HeardInv
    <3> QED
      BY SMTT(30), SMTT(30), <1>1, <1>6, <1>7, <3>1, <3>2, <3>4, <3>5
  <2>3. CASE ~(m.total > sup.total)
    <3>1. sup' = sup
      BY <1>5, <1>10, <2>3 DEF Apply
    <3>2. HeardInv'
      BY <1>8, <2>3, <3>1
    <3> QED
      BY <1>1, <1>6, <1>7, <2>1, <3>1, <3>2
  <2> QED
    BY <2>2, <2>3
<1>11. CASE m.kind = "result" /\ sup.received
  <2> DEFINE b == [sup EXCEPT !.result = TRUE]
  <2>1. sup' = b
    BY <1>5, <1>11 DEF Apply
  <2>2. /\ b \in SupervisorRecords /\ b.pc = "drain" /\ b.why = sup.why /\ b.received
        /\ b.total = sup.total /\ b.last = sup.last
    BY ZenonT(30), <1>1, <1>11 DEF SupervisorRecords
  <2> HIDE DEF b
  <2>3. HeardInv'
    BY <1>8, <1>11, <2>1, <2>2
  <2>4. OnWire("result")
    BY <1>2, <1>11 DEF OnWire
  <2> QED
    BY <1>6, <1>7, <2>1, <2>2, <2>3, <2>4
<1>12. CASE m.kind = "failure"
  <2> DEFINE a == [sup EXCEPT !.pc = "failing"]
             b == [a EXCEPT !.since = now]
  <2>1. sup' = b
    BY <1>5, <1>12 DEF Apply
  <2>2. Same(a, {"failing"})
    BY <1>1 DEF Same, SupervisorRecords
  <2> HIDE DEF a
  <2>3. Same(b, {"failing"})
    BY <1>1, <2>2 DEF Same, SupervisorRecords
  <2> HIDE DEF b
  <2>4. /\ sup' \in SupervisorRecords /\ sup'.pc = "failing" /\ sup'.why = None
        /\ sup'.total = sup.total /\ sup'.last = sup.last /\ sup'.result = sup.result
    BY <1>6, <2>1, <2>3 DEF Same
  <2>5. OnWire("failure")
    BY <1>2, <1>12 DEF OnWire
  <2>6. VerdictInv'
    BY <2>4, SupervisionAssumption DEF VerdictInv, Reasons
  <2>7. PolicyInv' /\ HeardInv'
    BY <2>4 DEF PolicyInv, HeardInv, Polling
  <2> QED
    BY <1>1, <1>3, <1>6, <2>4, <2>5, <2>6, <2>7, SupervisorStepKeeps
<1>13. CASE Terminate("protocol")
  <2>1. Left(sup', "tree", "protocol") /\ "protocol" \in Reasons
    BY <1>1, <1>13, TerminateLeaves DEF Reasons
  <2> QED
    BY <1>1, <1>3, <2>1, LeavingKeeps
<1> QED
  BY SMTT(30), <1>5, <1>9, <1>10, <1>11, <1>12, <1>13 DEF Apply

-----------------------------------------------------------------------------
(***************************************************************************)
(* The supervision: theorems                                               *)
(***************************************************************************)
LEMMA SupervisionStarts ==
  ASSUME PoolCounts, SupervisionInit
  PROVE  SupervisionInv
<1>1. "main" \in WorkerThreads /\ \A t \in Pool : t # "main" /\ t \in WorkerThreads
  BY SMTT(30), PoolIsNotMain DEF WorkerThreads
<1>2. at["main"] = "boot" /\ \A t \in Pool : at[t] = "parked"
  BY SMTT(30), <1>1 DEF SupervisionInit
<1>3. /\ worker.exit = None /\ worker.limit = FALSE /\ worker.began = None
      /\ worker.last = 0 /\ worker.total = 0 /\ worker.taken = 0 /\ worker.wrote = None
  BY SMTT(30) DEF SupervisionInit
<1>4. /\ sup.pc = "top" /\ sup.received = FALSE /\ sup.last = 0 /\ sup.total = 0
      /\ sup.result = FALSE /\ sup.why = None
  BY ZenonT(30) DEF SupervisionInit
<1>5. wire = <<>> /\ DOMAIN wire = {} /\ published = FALSE /\ now = 0
  <2>1. wire = <<>> /\ published = FALSE /\ now = 0
    BY  DEF SupervisionInit
  <2>2. DOMAIN <<>> = {}
    BY SMTT(30)
  <2> QED
    BY <2>1, <2>2
<1>6. RecordsInv
  <2>1. worker \in WorkerRecords
    <3>1. None \in Exits /\ 0 \in 0 .. Units
      BY SMTT(30), SupervisionAssumption DEF Exits
    <3> QED
      BY <3>1 DEF SupervisionInit, WorkerRecords
  <2>2. sup \in SupervisorRecords
    <3>1. "top" \in Polling /\ 0 \in 0 .. 3
      BY SMTT(30), SMTT(30) DEF Polling
    <3> QED
      BY <3>1 DEF SupervisionInit, SupervisorRecords
  <2>3. at \in [WorkerThreads -> MainPlaces \cup PoolPlaces]
    BY DEF SupervisionInit, MainPlaces, PoolPlaces
  <2>4. now \in 0 .. MaxTime
    BY SMTT(30), <1>5, SupervisionAssumption
  <2>5. /\ helpers \subseteq [thread : Pool, own : BOOLEAN] /\ wire \in Seq(Messages)
        /\ published \in BOOLEAN /\ cancelled \in BOOLEAN
    <3>1. helpers = {} /\ wire = <<>> /\ published = FALSE /\ cancelled = FALSE
      BY DEF SupervisionInit
    <3>2. wire \in Seq(Messages)
      BY SMTT(30), <3>1
    <3> QED
      BY <3>1, <3>2, Zenon
  <2> QED
    BY SMTT(30), <1>2, <2>1, <2>2, <2>3, <2>4, <2>5 DEF RecordsInv, MainPlaces, PoolPlaces
<1>7. CountInv
  <2>1. Helping = {} /\ Extra = 0
    BY <1>2 DEF Helping, Extra
  <2>2. Cardinality(Helping) = 0
    BY <2>1 DEF PoolCounts
  <2> QED
    BY SMTT(30), <1>3, <1>4, <1>5, <2>1, <2>2 DEF CountInv
<1>8. ThreadsInv /\ BeginInv /\ MessageInv
  BY SMTT(30), <1>2, <1>3, <1>4, <1>5, SupervisionAssumption
  DEF ThreadsInv, BeginInv, MessageInv, OnWire, Reasons
<1>9. VerdictInv
  BY <1>4, SupervisionAssumption DEF VerdictInv, Polling, Reasons
<1>10. ClockInv /\ PolicyInv /\ HeardInv
  BY SMTT(30), <1>3, <1>4, <1>5 DEF ClockInv, PolicyInv, HeardInv
<1> QED
  BY <1>6, <1>7, <1>8, <1>9, <1>10 DEF SupervisionInv

\* A step that is neither the worker's nor the supervisor's.
LEMMA OtherStepsKeep ==
  ASSUME SupervisionInv,
         UNCHANGED <<worker, at, wire, published, sup>>,
         now' \in 0 .. MaxTime, now <= now',
         helpers' \subseteq helpers,
         cancelled' \in BOOLEAN
  PROVE  SupervisionInv'
<1>1. RecordsInv'
  BY SMTT(30) DEF SupervisionInv, RecordsInv
<1>2. CountInv'
  BY SMTT(30) DEF SupervisionInv, CountInv, Helping, Extra
<1>3. ThreadsInv' /\ BeginInv' /\ MessageInv'
  BY  DEF SupervisionInv, ThreadsInv, BeginInv, MessageInv, Blocked, OnWire, Alive
<1>4. VerdictInv'
  BY DEF SupervisionInv, VerdictInv, Alive, InGroup
<1>5. ClockInv'
  <2>1. PICK t \in Nat, u \in Nat : t = now /\ u = now' /\ t <= u
    BY SMTT(30), SupervisionAssumption DEF SupervisionInv, RecordsInv
  <2>2. /\ worker.last \in Nat /\ sup.last \in Nat
        /\ worker.wrote # None => worker.wrote \in Nat
    BY DEF SupervisionInv, RecordsInv, WorkerRecords, SupervisorRecords
  <2>3. /\ worker.last <= t /\ sup.last <= t
        /\ worker.wrote # None =>
             worker.wrote <= t /\ worker.last <= worker.wrote + Coalesce
        /\ worker.total # 0 => worker.wrote # None
    BY <2>1 DEF SupervisionInv, ClockInv
  <2>4. /\ worker.last <= u /\ sup.last <= u
        /\ worker.wrote # None => worker.wrote <= u
    BY SMTT(30), <2>1, <2>2, <2>3
  <2> QED
    BY <2>1, <2>3, <2>4 DEF ClockInv
<1>6. PolicyInv' /\ HeardInv'
  BY DEF SupervisionInv, PolicyInv, HeardInv
<1> QED
  BY <1>1, <1>2, <1>3, <1>4, <1>5, <1>6 DEF SupervisionInv

LEMMA SupervisionKeeps ==
  ASSUME PoolCounts, SupervisionInv, [SupervisionNext]_supervisionVars
  PROVE  SupervisionInv'
<1>1. now \in 0 .. MaxTime /\ cancelled \in BOOLEAN /\ MaxTime \in Nat
  BY SupervisionAssumption DEF SupervisionInv, RecordsInv
<1>2. CASE UNCHANGED supervisionVars
  BY SMTT(30), <1>1, <1>2, OtherStepsKeep DEF supervisionVars
<1>3. CASE \E h \in helpers : HelperEnds(h)
  <2>1. /\ UNCHANGED <<now, worker, at, wire, published, cancelled, sup>>
        /\ helpers' \subseteq helpers
    BY <1>3 DEF HelperEnds
  <2> QED
    BY SMTT(30), <1>1, <2>1, OtherStepsKeep
<1>4. CASE TimePasses
  <2>1. now' \in 0 .. MaxTime /\ now <= now'
    BY SMTT(30), <1>1, <1>4 DEF TimePasses
  <2> QED
    BY <1>1, <1>4, <2>1, OtherStepsKeep DEF TimePasses
<1>5. CASE Signal
  BY SMTT(30), <1>1, <1>5, OtherStepsKeep DEF Signal
<1>6. CASE SupervisorStep
  BY SMTT(30), <1>6, CancellationKeeps, DrainKeeps, AwaitFailureKeeps, PollKeeps, KillTreeKeeps,
     RequestTerminationKeeps, AwaitGraceKeeps, ForceTerminationKeeps DEF SupervisorStep
<1>7. CASE WorkerStep \/ CrashWorker
  BY <1>7, WorkerKeeps
<1> QED
  BY SMTT(30), <1>2, <1>3, <1>4, <1>5, <1>6, <1>7 DEF SupervisionNext

LEMMA InvariantTellsVerdict ==
  ASSUME PoolCounts, SupervisionInv
  PROVE  VerdictIsTrue
<1>1. worker \in WorkerRecords /\ sup \in SupervisorRecords /\ RecordsInv
  BY DEF SupervisionInv, RecordsInv
<1>2. /\ worker.total \in Nat /\ worker.taken \in 0 .. Units /\ Units \in Nat
      /\ sup.total \in Nat
  BY <1>1, SupervisionAssumption DEF WorkerRecords, SupervisorRecords
<1>3. worker.total \in 0 .. Units + 2
  <2>1. Helping \in SUBSET Pool
    BY DEF Helping
  <2>2. PICK c \in Nat : c = Cardinality(Helping)
    BY <2>1 DEF PoolCounts
  <2>3. Extra \in {0, 1, 2}
    BY DEF Extra
  <2>4. worker.total + c <= worker.taken + Extra
    BY <2>2 DEF SupervisionInv, CountInv
  <2> QED
    BY SMTT(30), <1>2, <2>3, <2>4
<1>4. \A i \in DOMAIN wire : wire[i].total \in 0 .. worker.total
  <2> SUFFICES ASSUME NEW i \in DOMAIN wire PROVE wire[i].total \in 0 .. worker.total
    OBVIOUS
  <2>1. wire[i] \in Messages
    BY SMTT(30), <1>1 DEF RecordsInv
  <2>2. wire[i].total \in Nat /\ wire[i].total <= worker.total
    BY <2>1 DEF Messages, SupervisionInv, CountInv
  <2> QED
    BY SMTT(30), <1>2, <2>2
<1>5. sup.total \in 0 .. worker.total
  BY SMTT(30), SMTT(30), <1>2 DEF SupervisionInv, CountInv
<1>6. SupervisionTypeOK
  BY <1>1, <1>2, <1>3, <1>4, <1>5
  DEF SupervisionTypeOK, RecordsInv, WorkerRecords, SupervisorRecords, Exits
<1>7. OkIsPublished /\ FailureIsUnpublished /\ GroupIsReaped
  BY DEF SupervisionInv, VerdictInv, MessageInv, OkIsPublished, FailureIsUnpublished,
         GroupIsReaped, Returned
<1> QED
  BY <1>6, <1>7 DEF VerdictIsTrue

\* After a thread reported its limit, no thread commits: the one that reported
\* is never joined.
LEMMA LimitStops ==
  ASSUME SupervisionInv, [SupervisionNext]_supervisionVars, worker.limit, ~published
  PROVE  ~published'
<1>1. ~Commit
  BY SMTT(30) DEF Commit, SupervisionInv, ThreadsInv, Blocked
<1>2. published' = published \/ Commit
  BY DEF SupervisionNext, WorkerStep, SupervisorStep, supervisionVars, LoadPolicy, Started,
         Join, PublishRows, ScanFails, FlushProgress, WriteResult, ReturnMain, TakeUnit,
         NoUnitLeft, UnitDone, ExitForExecutionLimit, CrashWorker, HelperEnds, TimePasses,
         Signal, Cancellation, World, Drain, AwaitFailure, Poll, KillTree,
         RequestTermination, AwaitGrace, ForceTermination
<1> QED
  BY <1>1, <1>2

\* Only a poll reports that the worker is idle.
LEMMA IdleIsPolled ==
  ASSUME SupervisionInv, [SupervisionNext]_supervisionVars,
         sup.why = None, sup'.why = "idle"
  PROVE  sup.pc = "drain" /\ now - sup.last > sup.policy.idle
<1>1. /\ sup \in SupervisorRecords /\ sup.pc \in Polling \cup {"failing"}
      /\ sup'.why # sup.why
  BY Supervising, SupervisionAssumption DEF SupervisionInv, VerdictInv, Reasons
<1>2. ~(WorkerStep \/ CrashWorker \/ TimePasses \/ Signal \/ UNCHANGED supervisionVars
        \/ \E h \in helpers : HelperEnds(h))
  BY <1>1 DEF WorkerStep, supervisionVars, LoadPolicy, Started,
         Join, PublishRows, Commit, ScanFails, FlushProgress, WriteResult, ReturnMain,
         TakeUnit, NoUnitLeft, UnitDone, ExitForExecutionLimit, CrashWorker, HelperEnds,
         TimePasses, Signal
<1>3. Cancellation \/ Drain \/ AwaitFailure \/ Poll
  BY <1>1, <1>2
  DEF SupervisionNext, SupervisorStep, KillTree, RequestTermination, AwaitGrace,
      ForceTermination, Polling
<1>4. \A why \in Reasons : Terminate(why) \/ Return(why) => why = "idle"
  BY <1>1, TerminateLeaves, ReturnLeaves DEF Left
<1>5. ~Cancellation
  <2>1. SUFFICES ASSUME Cancellation PROVE FALSE
    OBVIOUS
  <2>2. CASE cancelled
    BY <1>4, <2>1, <2>2 DEF Cancellation, Reasons
  <2>3. CASE ~cancelled
    BY <1>1, <2>1, <2>3 DEF Cancellation, SupervisorRecords
  <2> QED
    BY <2>2, <2>3
<1>6. ~AwaitFailure
  BY <1>4 DEF AwaitFailure, Reasons
<1>7. ~Drain
  <2>1. SUFFICES ASSUME Drain PROVE FALSE
    OBVIOUS
  <2>2. PICK m : m = Head(wire)
    OBVIOUS
  <2>3. Apply(m)
    BY <2>1, <2>2 DEF Drain
  <2>4. sup'.why = sup.why \/ Terminate("protocol")
    BY <1>1, <2>3 DEF Apply, SupervisorRecords
  <2> QED
    BY <1>1, <1>4, <2>4 DEF Reasons
<1>8. CASE Poll
  <2>1. sup.pc = "drain"
    BY <1>8 DEF Poll
  <2>2. CASE TryWait
    <3>1. sup'.why = sup.why \/ Return("ok") \/ Return("process")
      BY <1>1, <2>2 DEF TryWait, SupervisorRecords
    <3> QED
      BY <1>1, <1>4, <3>1 DEF Reasons
  <2>3. ~Terminate("memory")
    BY <1>4 DEF Reasons
  <2>4. CASE \E why \in Exceeded : Terminate(why)
    <3>1. PICK why \in Exceeded : Terminate(why)
      BY <2>4
    <3>2. why = "idle"
      BY SMTT(30), <1>4, <3>1 DEF Exceeded, Reasons
    <3> QED
      BY <2>1, <3>1, <3>2 DEF Exceeded
  <2> QED
    BY <1>8, <2>2, <2>3, <2>4 DEF Poll
<1> QED
  BY SMTT(30), <1>3, <1>5, <1>6, <1>7, <1>8

\* Then the worker's last report is at most an interval younger than what the
\* supervisor heard, unless a message is under way or none was written yet.
LEMMA IdleIsIdle ==
  ASSUME SupervisionInv, [SupervisionNext]_supervisionVars,
         sup.why = None, sup'.why = "idle"
  PROVE  \/ now - worker.last + Coalesce > sup.policy.idle
         \/ \E i \in DOMAIN wire : wire[i].kind = "progress"
         \/ sup.total = 0
<1> SUFFICES ASSUME ~\E i \in DOMAIN wire : wire[i].kind = "progress", sup.total # 0
             PROVE  now - worker.last + Coalesce > sup.policy.idle
  OBVIOUS
<1>1. sup.pc = "drain" /\ now - sup.last > sup.policy.idle
  BY IdleIsPolled
<1>2. /\ sup \in SupervisorRecords /\ worker \in WorkerRecords /\ now \in Nat
      /\ Coalesce \in Nat
  BY Supervising, SupervisionAssumption
<1>3. /\ sup.total \in Nat /\ worker.total \in Nat /\ sup.last \in Nat /\ worker.last \in Nat
      /\ worker.wrote \in Nat \cup {None}
      /\ sup.policy \in {DefaultPolicy, Policy}
  BY <1>2 DEF SupervisorRecords, WorkerRecords
<1>4. sup.policy.idle \in Nat
  BY SMTT(30), <1>3, SupervisionAssumption
<1>5. worker.wrote # None
  BY SMTT(30), SMTT(30), <1>3 DEF SupervisionInv, CountInv, ClockInv
<1>6. sup.last >= worker.wrote /\ worker.last <= worker.wrote + Coalesce
  BY <1>1, <1>5 DEF SupervisionInv, HeardInv, ClockInv, Polling
<1> QED
  BY SMTT(30), SMTT(30), <1>1, <1>2, <1>3, <1>4, <1>5, <1>6

-----------------------------------------------------------------------------
(***************************************************************************)
(* The theorems                                                            *)
(***************************************************************************)
INSTANCE FiniteSetTheorems

LEMMA PoolIsCounted == PoolCounts
<1>1. Cardinality({}) = 0
  BY FS_EmptySet
<1>2. ASSUME NEW S \in SUBSET Pool
      PROVE  IsFiniteSet(S) /\ Cardinality(S) \in Nat
  <2>1. IsFiniteSet(S)
    BY SupervisionAssumption, FS_Subset
  <2> QED
    BY <2>1, FS_CardinalityType
<1>3. ASSUME NEW S \in SUBSET Pool, NEW t \in Pool, t \notin S
      PROVE  Cardinality(S \cup {t}) = Cardinality(S) + 1
  BY <1>2, <1>3, FS_AddElement
<1> QED
  BY <1>1, <1>2, <1>3 DEF PoolCounts

\* What supervise returns is what happened (monitor_worker and the worker it
\* supervises): success only for a committed snapshot, a reported failure only
\* when nothing was published, and no process of the group left, for every
\* number of threads and repositories, whatever the limits and the timing.
THEOREM VerdictsAreTrue == SupervisionSpec => []VerdictIsTrue
<1>1. SupervisionInit => SupervisionInv
  BY PoolIsCounted, SupervisionStarts
<1>2. SupervisionInv /\ [SupervisionNext]_supervisionVars => SupervisionInv'
  BY PoolIsCounted, SupervisionKeeps
<1>3. SupervisionInv => VerdictIsTrue
  BY PoolIsCounted, InvariantTellsVerdict
<1> QED
  BY <1>1, <1>2, <1>3, PTL DEF SupervisionSpec

\* Once a thread has reported a limit nothing is published
\* (exit_for_execution_limit), and the idle deadline of monitor_worker ends
\* only workers that were idle up to the coalescing interval, for every number
\* of threads, all limits and all intervals.
THEOREM LimitsHold == SupervisionSpec => LimitsAreHonest
<1>1. SupervisionInv /\ [SupervisionNext]_supervisionVars => SupervisionInv'
  BY PoolIsCounted, SupervisionKeeps
<1>2. SupervisionInv /\ [SupervisionNext]_supervisionVars =>
        [worker.limit /\ ~published => ~published']_supervisionVars
  BY LimitStops
<1>3. SupervisionInv /\ [SupervisionNext]_supervisionVars =>
        [sup.why = None /\ sup'.why = "idle" =>
           \/ now - worker.last + Coalesce > sup.policy.idle
           \/ \E i \in DOMAIN wire : wire[i].kind = "progress"
           \/ sup.total = 0]_supervisionVars
  BY IdleIsIdle
<1>4. SupervisionInit => SupervisionInv
  BY PoolIsCounted, SupervisionStarts
<1> QED
  BY <1>1, <1>2, <1>3, <1>4, PTL
  DEF SupervisionSpec, LimitsAreHonest, LimitStopsPublication, IdleMeansIdle

=============================================================================
