------------------------- MODULE WatchPipelineProofs -------------------------
(***************************************************************************)
(* No change a worker was told about is lost, and no request to rebuild    *)
(* the watch scope, for any repositories, any number of edits, any pipe    *)
(* capacity and any number of attempts, in every interleaving of callback, *)
(* worker, reader and supervisor.                                          *)
(***************************************************************************)
EXTENDS WatchPipeline, TLAPS

\* Zenon finds the steps that name no other prover.
USE Zenon

\* The versions on disk are counted by the edits.
CountInv == rules <= edits /\ manifest <= edits

\* Which workers the supervisor has, by what it is doing.
SupervisorInv ==
  /\ sup \in {"initial", "stopped"} => cur = None
  /\ sup \notin {"initial", "spawn", "stopped"} => cur \in Slots /\ Ready(cur)
  /\ sup \notin {"respawn", "replace"} => rep = None
  /\ sup = "replace" => rep \in Slots /\ Ready(rep) /\ rep # cur
  /\ \A s \in Slots : slots[s].phase = "installing" =>
       (sup = "spawn" /\ cur = s) \/ (sup = "respawn" /\ rep = s)
  /\ held => sup \in {"taketouched", "pass", "load"}
  /\ pass.taken \subseteq pass.scope /\ pass.unread \subseteq pass.scope
  /\ sup \notin {"initial", "catchup", "pass", "replace"}
       => pass.step = "none" /\ pass.unread = {}

\* Events name something; the callback holds the one it works on; what the worker
\* swapped out of the flag it is about to write.
WorkerInv ==
  \A s \in Slots :
    /\ \A e \in slots[s].osq : e.touch # {}
    /\ slots[s].cbStep # "idle" => slots[s].cb \in Events
    /\ slots[s].swapped => slots[s].step = "emit"

WatchInv ==
  /\ TypeOK /\ CountInv /\ SupervisorInv /\ WorkerInv
  /\ NoObservedChangeLost /\ IgnoreRulesFollowed

-----------------------------------------------------------------------------
\* What a touched set asks the next pass to read.
LEMMA WidenedFacts ==
  /\ Widened({}) = Items
  /\ \A T \in SUBSET Items :
       /\ Widened(T) \subseteq Items
       /\ Workspace \in T => Widened(T) = Items /\ Take(T) = {}
       /\ Workspace \notin T => Take(T) = T
       /\ Take(T) \in SUBSET Repos
       /\ Widened(T) \subseteq Widened(Take(T))
BY WatchAssumption DEF Widened, Take, Items

\* A larger set asks for more, unless the smaller one is empty.
LEMMA WidenedGrows ==
  ASSUME NEW S \in SUBSET Items, NEW T \in SUBSET Items, S \subseteq T, S # {}
  PROVE  Widened(S) \subseteq Widened(T)
BY WatchAssumption DEF Widened, Take, Items

\* The fields of a slot.
LEMMA SlotFields ==
  ASSUME TypeOK, NEW s \in Slots
  PROVE  /\ slots[s] \in SlotStates
         /\ slots[s].osq \subseteq Events /\ slots[s].cb \in Events \cup {None}
         /\ slots[s].pend \subseteq Items /\ slots[s].touched \subseteq Items
         /\ slots[s].pipe \in Seq(Messages)
         /\ slots[s].pendRefresh \in BOOLEAN /\ slots[s].pendDirs \in BOOLEAN
         /\ slots[s].swapped \in BOOLEAN /\ slots[s].refresh \in BOOLEAN
         /\ slots[s].wake \in BOOLEAN /\ slots[s].uncovered \subseteq Repos
BY ZenonT(30) DEF TypeOK, SlotStates

LEMMA FreeType == FreeSlot \in SlotStates /\ Len(FreeSlot.pipe) = 0
<1>1. <<>> \in Seq(Messages) /\ Len(<<>>) = 0
  BY SMTT(30)
<1>2. 0 \in 0..MaxEdits
  BY SMTT(30), WatchAssumption
<1>. QED  BY <1>1, <1>2 DEF FreeSlot, SlotStates

LEMMA BeginType ==
  ASSUME NEW items \in SUBSET Items
  PROVE  /\ BeginPass(items) \in [step : {"none", "begin", "reading"},
                scope : SUBSET Items, unread : SUBSET Items, taken : SUBSET Items,
                attempt : 0..MaxAttempts]
         /\ BeginPass(items).scope = items /\ BeginPass(items).unread = items
         /\ BeginPass(items).taken = {}
BY SMTT(30), WatchAssumption DEF BeginPass

LEMMA InitWatchInv == Init => WatchInv
<1> SUFFICES ASSUME Init PROVE WatchInv
    OBVIOUS
<1>1. TypeOK
  <2>1. slots \in [Slots -> SlotStates] /\ \A s \in Slots : Len(slots[s].pipe) <= PipeCapacity
    BY SMTT(30), FreeType, WatchAssumption DEF Init
  <2>2. 0 \in 0..MaxEdits
    BY SMTT(30), WatchAssumption
  <2>3. Items \in SUBSET Items
    OBVIOUS
  <2>. QED  BY <2>1, <2>2, <2>3, BeginType DEF Init, TypeOK
<1>2. CountInv
  BY SMTT(30) DEF Init, CountInv
<1>3. SupervisorInv /\ WorkerInv
  <2>1. pass.taken \subseteq pass.scope /\ pass.unread \subseteq pass.scope
    BY BeginType DEF Init
  <2>. QED  BY <2>1 DEF Init, SupervisorInv, WorkerInv, FreeSlot
<1>4. NoObservedChangeLost /\ IgnoreRulesFollowed
  BY DEF Init, NoObservedChangeLost, Covered, IgnoreRulesFollowed, Active
<1>. QED  BY <1>1, <1>2, <1>3, <1>4 DEF WatchInv

-----------------------------------------------------------------------------
(***************************************************************************)
(* The event worker and the reader thread                                  *)
(***************************************************************************)
\* A step of one slot that keeps what is on its way in it.
LEMMA SlotKeeps ==
  ASSUME WatchInv, NEW s \in Slots, NEW STATE n, n \in SlotStates,
         SlotStep(s, n), Len(n.pipe) <= PipeCapacity,
         n.phase = slots[s].phase, n.rules = slots[s].rules,
         \A e \in n.osq : e.touch # {},
         n.cbStep # "idle" => n.cb \in Events,
         n.swapped => n.step = "emit",
         \A x \in Items : InPipeline(s, x) => InPipeline(s, x)',
         RefreshInPipeline(s) => RefreshInPipeline(s)'
  PROVE  WatchInv'
<1>0. /\ TypeOK /\ slots' = [slots EXCEPT ![s] = n] /\ slots'[s] = n
      /\ \A t \in Slots : t # s => slots'[t] = slots[t]
      /\ UNCHANGED <<stale, rules, manifest, edits, sup, cur, rep, held, scope,
                     persisted, pass, unseen, lost>>
  BY DEF WatchInv, TypeOK, SlotStep, disk, history
<1>1. TypeOK'
  BY ZenonT(30), <1>0 DEF TypeOK
<1>2. CountInv'
  BY <1>0 DEF WatchInv, CountInv
<1>3. SupervisorInv' /\ WorkerInv'
  BY SMTT(30), <1>0 DEF WatchInv, SupervisorInv, WorkerInv, Ready
<1>4. \A t \in Slots, x \in Items : InPipeline(t, x) => InPipeline(t, x)'
  <2> SUFFICES ASSUME NEW t \in Slots, NEW x \in Items, t # s, InPipeline(t, x)
               PROVE  InPipeline(t, x)'
      OBVIOUS
  <2>. QED  BY SMTT(30), <1>0 DEF InPipeline, WorkerWillEmit, SupervisorWillTake, Widened, Take,
            Items
<1>5. \A t \in Slots : RefreshInPipeline(t) => RefreshInPipeline(t)'
  <2> SUFFICES ASSUME NEW t \in Slots, t # s, RefreshInPipeline(t)
               PROVE  RefreshInPipeline(t)'
      OBVIOUS
  <2>. QED  BY <1>0 DEF RefreshInPipeline
<1>6. Active' = Active /\ (Active # None => Active \in Slots)
  BY <1>0 DEF Active, TypeOK
<1>7. NoObservedChangeLost'
  BY <1>0, <1>4, <1>6 DEF WatchInv, NoObservedChangeLost, Covered, TypeOK
<1>8. IgnoreRulesFollowed'
  BY <1>0, <1>5, <1>6 DEF WatchInv, IgnoreRulesFollowed, Ready
<1>. QED  BY <1>1, <1>2, <1>3, <1>7, <1>8 DEF WatchInv

LEMMA RecordKeeps ==
  ASSUME WatchInv, NEW s \in Slots, RecordTouched(s)
  PROVE  WatchInv'
<1>1. PICK e \in slots[s].osq :
        SlotStep(s, [slots[s] EXCEPT !.osq = @ \ {e}, !.cb = e,
                                     !.pend = @ \cup e.touch, !.cbStep = "flag"])
  BY DEF RecordTouched
<1> DEFINE n == [slots[s] EXCEPT !.osq = @ \ {e}, !.cb = e,
                                 !.pend = @ \cup e.touch, !.cbStep = "flag"]
<1>2. TypeOK /\ slots[s].cbStep = "idle" /\ e.touch # {} /\ e \in Events
      /\ e.touch \subseteq Items /\ slots[s].pend \subseteq Items
  BY SlotFields DEF WatchInv, RecordTouched, WorkerInv, Events
<1>3. /\ n \in SlotStates
      /\ n.osq = slots[s].osq \ {e} /\ n.cb = e /\ n.cbStep = "flag"
      /\ n.pend = slots[s].pend \cup e.touch
      /\ n.phase = slots[s].phase /\ n.rules = slots[s].rules
      /\ n.swapped = slots[s].swapped /\ n.step = slots[s].step
      /\ n.pipe = slots[s].pipe /\ n.touched = slots[s].touched
      /\ n.refresh = slots[s].refresh /\ n.wake = slots[s].wake
      /\ n.rstep = slots[s].rstep /\ n.tok = slots[s].tok
      /\ n.pendRefresh = slots[s].pendRefresh
  <2>1. slots[s] \in SlotStates
    BY <1>2, SlotFields
  <2>2. e \in Events /\ e.touch \subseteq Items
    BY <1>2
  <2>. QED  BY ZenonT(30), <2>1, <2>2 DEF SlotStates
<1> HIDE DEF n
<1>4. slots'[s] = n /\ cur' = cur /\ sup' = sup
  BY <1>1, <1>2 DEF SlotStep, TypeOK, n
<1>5. ASSUME NEW x \in Items, InPipeline(s, x) PROVE InPipeline(s, x)'
  <2>1. CASE \E f \in slots[s].osq : f # e /\ x \in Widened(f.touch)
    BY <1>3, <1>4, <2>1 DEF InPipeline, Widened, Take, Items
  <2>2. CASE x \in Widened(e.touch)
    <3>1. x \in Widened(n.pend) /\ n.pend # {}
      BY <1>2, <1>3, <2>2, WidenedGrows
    <3>. QED  BY <1>3, <1>4, <3>1 DEF InPipeline, WorkerWillEmit
  <2>3. CASE slots[s].pend # {} /\ x \in Widened(slots[s].pend)
    <3>1. x \in Widened(n.pend) /\ n.pend # {}
      BY <1>2, <1>3, <2>3, WidenedGrows
    <3>. QED  BY <1>3, <1>4, <3>1 DEF InPipeline, WorkerWillEmit
  <2>4. CASE \E i \in DOMAIN slots[s].pipe : x \in Widened(slots[s].pipe[i].repositories)
    BY <1>3, <1>4, <2>4 DEF InPipeline
  <2>5. CASE /\ slots[s].touched # {} /\ x \in Widened(slots[s].touched)
             /\ SupervisorWillTake(s)
    BY <1>3, <1>4, <2>5 DEF InPipeline, SupervisorWillTake
  <2>. QED  BY <1>5, <2>1, <2>2, <2>3, <2>4, <2>5 DEF InPipeline
<1>6. RefreshInPipeline(s) => RefreshInPipeline(s)'
  BY ZenonT(30), <1>2, <1>3, <1>4 DEF RefreshInPipeline
<1>7. Len(n.pipe) <= PipeCapacity /\ SlotStep(s, n)
  BY <1>1, <1>2, <1>3 DEF TypeOK, n
<1>8. \A f \in n.osq : f.touch # {}
  BY <1>3 DEF WatchInv, WorkerInv
<1>9. n.swapped => n.step = "emit"
  BY <1>3 DEF WatchInv, WorkerInv
<1>. QED  BY <1>2, <1>3, <1>5, <1>6, <1>7, <1>8, <1>9, SlotKeeps

LEMMA FlagsKeep ==
  ASSUME WatchInv, NEW s \in Slots, StoreFlags(s)
  PROVE  WatchInv'
<1> DEFINE n == [slots[s] EXCEPT
                   !.pendRefresh = @ \/ slots[s].cb.ignore,
                   !.pendDirs = @ \/ slots[s].cb.dir, !.cbStep = "send"]
<1>1. SlotStep(s, n) /\ TypeOK /\ slots[s].cbStep = "flag" /\ slots[s].cb \in Events
  BY DEF WatchInv, StoreFlags, WorkerInv
<1>2. /\ (slots[s].pendRefresh \/ slots[s].cb.ignore) \in BOOLEAN
      /\ (slots[s].pendDirs \/ slots[s].cb.dir) \in BOOLEAN
  BY <1>1, SlotFields DEF Events
<1>3. /\ n \in SlotStates
      /\ n.osq = slots[s].osq /\ n.cb = slots[s].cb /\ n.cbStep = "send"
      /\ n.pend = slots[s].pend
      /\ n.phase = slots[s].phase /\ n.rules = slots[s].rules
      /\ n.swapped = slots[s].swapped /\ n.step = slots[s].step
      /\ n.pipe = slots[s].pipe /\ n.touched = slots[s].touched
      /\ n.refresh = slots[s].refresh /\ n.wake = slots[s].wake
      /\ n.rstep = slots[s].rstep /\ n.tok = slots[s].tok
      /\ n.pendRefresh = (slots[s].pendRefresh \/ slots[s].cb.ignore)
  <2>1. slots[s] \in SlotStates
    BY <1>1, SlotFields
  <2>. QED  BY ZenonT(60), <1>2, <2>1 DEF SlotStates
<1>4. slots'[s] = n /\ cur' = cur /\ sup' = sup
  BY <1>1 DEF SlotStep, TypeOK
<1> HIDE DEF n
<1>5. ASSUME NEW x \in Items, InPipeline(s, x) PROVE InPipeline(s, x)'
  BY <1>3, <1>4, <1>5 DEF InPipeline, WorkerWillEmit, SupervisorWillTake, Widened, Take,
       Items
<1>6. RefreshInPipeline(s) => RefreshInPipeline(s)'
  BY <1>1, <1>3, <1>4 DEF RefreshInPipeline
<1>7. /\ Len(n.pipe) <= PipeCapacity /\ \A f \in n.osq : f.touch # {}
      /\ n.swapped => n.step = "emit"
  BY ZenonT(30), <1>1, <1>3 DEF TypeOK, WatchInv, WorkerInv
<1>. QED  BY <1>1, <1>3, <1>5, <1>6, <1>7, SlotKeeps

LEMMA SignalKeeps ==
  ASSUME WatchInv, NEW s \in Slots, SendSignal(s)
  PROVE  WatchInv'
<1> DEFINE k == IF slots[s].tok # "none" THEN slots[s].tok
                ELSE IF slots[s].cb.dir THEN "dirs" ELSE "dirty"
           n == [slots[s] EXCEPT !.tok = k, !.cb = None, !.cbStep = "idle"]
<1>1. SlotStep(s, n) /\ TypeOK /\ slots[s].cbStep = "send"
  BY DEF WatchInv, SendSignal
<1>2. k \in {"dirty", "dirs"}
  BY <1>1, SlotFields DEF SlotStates
<1> HIDE DEF k
<1>3. /\ n \in SlotStates
      /\ n.osq = slots[s].osq /\ n.cbStep = "idle"
      /\ n.pend = slots[s].pend
      /\ n.phase = slots[s].phase /\ n.rules = slots[s].rules
      /\ n.swapped = slots[s].swapped /\ n.step = slots[s].step
      /\ n.pipe = slots[s].pipe /\ n.touched = slots[s].touched
      /\ n.refresh = slots[s].refresh /\ n.wake = slots[s].wake
      /\ n.rstep = slots[s].rstep /\ n.tok = k
      /\ n.pendRefresh = slots[s].pendRefresh
  <2>1. slots[s] \in SlotStates
    BY <1>1, SlotFields
  <2>. QED  BY ZenonT(30), <1>2, <2>1 DEF SlotStates
<1>4. slots'[s] = n /\ cur' = cur /\ sup' = sup
  BY <1>1 DEF SlotStep, TypeOK
<1> HIDE DEF n
<1>5. ASSUME NEW x \in Items, InPipeline(s, x) PROVE InPipeline(s, x)'
  BY <1>2, <1>3, <1>4, <1>5 DEF InPipeline, WorkerWillEmit, SupervisorWillTake, Widened,
       Take, Items
<1>6. RefreshInPipeline(s) => RefreshInPipeline(s)'
  BY <1>1, <1>2, <1>3, <1>4 DEF RefreshInPipeline
<1>7. /\ Len(n.pipe) <= PipeCapacity /\ \A f \in n.osq : f.touch # {}
      /\ n.swapped => n.step = "emit"
  BY ZenonT(30), <1>1, <1>3 DEF TypeOK, WatchInv, WorkerInv
<1>. QED  BY <1>1, <1>3, <1>5, <1>6, <1>7, SlotKeeps

LEMMA ReceiveSignalKeeps ==
  ASSUME WatchInv, NEW s \in Slots, ReceiveSignal(s)
  PROVE  WatchInv'
<1> DEFINE n == [slots[s] EXCEPT !.sig = slots[s].tok, !.tok = "none", !.step = "swap"]
<1>1. SlotStep(s, n) /\ TypeOK /\ slots[s].step = "recv"
  BY DEF WatchInv, ReceiveSignal
<1>2. /\ n \in SlotStates
      /\ n.osq = slots[s].osq /\ n.cbStep = slots[s].cbStep /\ n.cb = slots[s].cb
      /\ n.pend = slots[s].pend
      /\ n.phase = slots[s].phase /\ n.rules = slots[s].rules
      /\ n.swapped = slots[s].swapped /\ n.step = "swap"
      /\ n.pipe = slots[s].pipe /\ n.touched = slots[s].touched
      /\ n.refresh = slots[s].refresh /\ n.wake = slots[s].wake
      /\ n.rstep = slots[s].rstep
      /\ n.pendRefresh = slots[s].pendRefresh
  <2>1. slots[s] \in SlotStates
    BY <1>1, SlotFields
  <2>. QED  BY ZenonT(60), <2>1 DEF SlotStates
<1>3. slots'[s] = n /\ cur' = cur /\ sup' = sup
  BY <1>1 DEF SlotStep, TypeOK
<1> HIDE DEF n
<1>4. ASSUME NEW x \in Items, InPipeline(s, x) PROVE InPipeline(s, x)'
  BY <1>2, <1>3, <1>4 DEF InPipeline, WorkerWillEmit, SupervisorWillTake, Widened,
       Take, Items
<1>5. RefreshInPipeline(s) => RefreshInPipeline(s)'
  BY <1>1, <1>2, <1>3 DEF RefreshInPipeline
<1>6. /\ Len(n.pipe) <= PipeCapacity /\ \A f \in n.osq : f.touch # {}
      /\ ~n.swapped /\ (n.cbStep # "idle" => n.cb \in Events)
  BY ZenonT(30), <1>1, <1>2 DEF TypeOK, WatchInv, WorkerInv
<1>. QED  BY <1>1, <1>2, <1>4, <1>5, <1>6, SlotKeeps

LEMMA SwapKeeps ==
  ASSUME WatchInv, NEW s \in Slots, SwapRefreshScope(s)
  PROVE  WatchInv'
<1> DEFINE n == [slots[s] EXCEPT !.swapped = slots[s].pendRefresh,
                                 !.pendRefresh = FALSE, !.step = "emit"]
<1>1. SlotStep(s, n) /\ TypeOK /\ slots[s].step = "swap" /\ ~slots[s].swapped
  BY DEF WatchInv, SwapRefreshScope, WorkerInv
<1>2. /\ n \in SlotStates
      /\ n.osq = slots[s].osq /\ n.cbStep = slots[s].cbStep /\ n.cb = slots[s].cb
      /\ n.pend = slots[s].pend
      /\ n.phase = slots[s].phase /\ n.rules = slots[s].rules
      /\ n.swapped = slots[s].pendRefresh /\ n.step = "emit"
      /\ n.pipe = slots[s].pipe /\ n.touched = slots[s].touched
      /\ n.refresh = slots[s].refresh /\ n.wake = slots[s].wake
      /\ n.rstep = slots[s].rstep
  <2>1. slots[s] \in SlotStates
    BY <1>1, SlotFields
  <2>. QED  BY ZenonT(30), <2>1 DEF SlotStates
<1>3. slots'[s] = n /\ cur' = cur /\ sup' = sup
  BY <1>1 DEF SlotStep, TypeOK
<1> HIDE DEF n
<1>4. ASSUME NEW x \in Items, InPipeline(s, x) PROVE InPipeline(s, x)'
  BY <1>2, <1>3, <1>4 DEF InPipeline, WorkerWillEmit, SupervisorWillTake, Widened,
       Take, Items
<1>5. RefreshInPipeline(s) => RefreshInPipeline(s)'
  BY <1>1, <1>2, <1>3 DEF RefreshInPipeline
<1>6. /\ Len(n.pipe) <= PipeCapacity /\ \A f \in n.osq : f.touch # {}
      /\ n.cbStep # "idle" => n.cb \in Events
  BY ZenonT(30), <1>1, <1>2 DEF TypeOK, WatchInv, WorkerInv
<1>. QED  BY <1>1, <1>2, <1>4, <1>5, <1>6, SlotKeeps

LEMMA EmitKeeps ==
  ASSUME WatchInv, NEW s \in Slots, EmitDirty(s)
  PROVE  WatchInv'
<1> DEFINE m == [refresh |-> slots[s].swapped, repositories |-> Take(slots[s].pend)]
           p == Append(slots[s].pipe, m)
           n == [slots[s] EXCEPT !.pipe = p, !.pend = {}, !.swapped = FALSE,
                                 !.step = "dirs"]
<1>1. /\ SlotStep(s, n) /\ TypeOK /\ slots[s].step = "emit"
      /\ Len(slots[s].pipe) < PipeCapacity
  BY DEF WatchInv, EmitDirty
<1>2. m \in Messages /\ m.refresh = slots[s].swapped /\ m.repositories = Take(slots[s].pend)
  BY <1>1, SlotFields, WidenedFacts DEF Messages
<1> HIDE DEF m
<1>3. /\ p \in Seq(Messages) /\ Len(p) = Len(slots[s].pipe) + 1
      /\ p[Len(p)] = m /\ Len(p) \in DOMAIN p
      /\ \A i \in DOMAIN slots[s].pipe : i \in DOMAIN p /\ p[i] = slots[s].pipe[i]
  BY SMTT(30), <1>1, <1>2, SlotFields
<1> HIDE DEF p
<1>4. /\ n \in SlotStates
      /\ n.osq = slots[s].osq /\ n.cbStep = slots[s].cbStep /\ n.cb = slots[s].cb
      /\ n.pend = {} /\ n.phase = slots[s].phase /\ n.rules = slots[s].rules
      /\ n.swapped = FALSE /\ n.step = "dirs" /\ n.tok = slots[s].tok
      /\ n.pipe = p /\ n.touched = slots[s].touched
      /\ n.refresh = slots[s].refresh /\ n.wake = slots[s].wake
      /\ n.rstep = slots[s].rstep /\ n.pendRefresh = slots[s].pendRefresh
  <2>1. slots[s] \in SlotStates
    BY <1>1, SlotFields
  <2>. QED  BY <1>3, <2>1 DEF SlotStates
<1>5. slots'[s] = n /\ cur' = cur /\ sup' = sup
  BY <1>1 DEF SlotStep, TypeOK
<1> HIDE DEF n
<1>6. ASSUME NEW x \in Items, InPipeline(s, x) PROVE InPipeline(s, x)'
  <2>1. CASE \E f \in slots[s].osq : x \in Widened(f.touch)
    BY <1>4, <1>5, <2>1 DEF InPipeline
  <2>2. CASE x \in Widened(slots[s].pend)
    <3>1. x \in Widened(m.repositories)
      BY <1>1, <1>2, <2>2, SlotFields, WidenedFacts
    <3>. QED  BY <1>3, <1>4, <1>5, <3>1 DEF InPipeline
  <2>3. CASE \E i \in DOMAIN slots[s].pipe : x \in Widened(slots[s].pipe[i].repositories)
    BY <1>3, <1>4, <1>5, <2>3 DEF InPipeline
  <2>4. CASE /\ slots[s].touched # {} /\ x \in Widened(slots[s].touched)
             /\ SupervisorWillTake(s)
    BY <1>4, <1>5, <2>4 DEF InPipeline, SupervisorWillTake
  <2>. QED  BY <1>6, <2>1, <2>2, <2>3, <2>4 DEF InPipeline
<1>7. RefreshInPipeline(s) => RefreshInPipeline(s)'
  BY ZenonT(30), <1>1, <1>2, <1>3, <1>4, <1>5 DEF RefreshInPipeline
<1>8. /\ \A f \in n.osq : f.touch # {}
      /\ n.cbStep # "idle" => n.cb \in Events
  BY <1>4 DEF WatchInv, WorkerInv
<1>9. Len(n.pipe) <= PipeCapacity
  BY SMTT(30), <1>1, <1>3, <1>4, SlotFields, WatchAssumption
<1>. QED  BY <1>1, <1>4, <1>6, <1>7, <1>8, <1>9, SlotKeeps

LEMMA DirectoriesKeep ==
  ASSUME WatchInv, NEW s \in Slots, RefreshDirectories(s)
  PROVE  WatchInv'
<1> DEFINE u == IF slots[s].pendDirs \/ slots[s].sig = "dirs" THEN {} ELSE slots[s].uncovered
           n == [slots[s] EXCEPT !.uncovered = u, !.pendDirs = FALSE, !.sig = "none",
                                 !.step = "recv"]
<1>1. /\ SlotStep(s, n) /\ TypeOK /\ slots[s].step = "dirs"
  BY DEF WatchInv, RefreshDirectories
<1>2. u \subseteq Repos
  BY <1>1, SlotFields
<1> HIDE DEF u
<1>3. /\ n \in SlotStates
      /\ n.osq = slots[s].osq /\ n.cbStep = slots[s].cbStep /\ n.cb = slots[s].cb
      /\ n.pend = slots[s].pend /\ n.phase = slots[s].phase /\ n.rules = slots[s].rules
      /\ n.swapped = slots[s].swapped /\ n.step = "recv" /\ n.tok = slots[s].tok
      /\ n.pipe = slots[s].pipe /\ n.touched = slots[s].touched
      /\ n.refresh = slots[s].refresh /\ n.wake = slots[s].wake
      /\ n.rstep = slots[s].rstep /\ n.pendRefresh = slots[s].pendRefresh
  <2>1. slots[s] \in SlotStates
    BY <1>1, SlotFields
  <2>. QED  BY ZenonT(30), <1>2, <2>1 DEF SlotStates
<1>4. slots'[s] = n /\ cur' = cur /\ sup' = sup
  BY <1>1 DEF SlotStep, TypeOK
<1> HIDE DEF n
<1>5. ASSUME NEW x \in Items, InPipeline(s, x) PROVE InPipeline(s, x)'
  BY ZenonT(30), <1>1, <1>3, <1>4, <1>5 DEF InPipeline, WorkerWillEmit, SupervisorWillTake, Widened,
       Take, Items
<1>6. RefreshInPipeline(s) => RefreshInPipeline(s)'
  BY <1>1, <1>3, <1>4 DEF RefreshInPipeline
<1>7. /\ \A f \in n.osq : f.touch # {}
      /\ n.cbStep # "idle" => n.cb \in Events
      /\ ~n.swapped /\ Len(n.pipe) <= PipeCapacity
  BY SMTT(30), <1>1, <1>3 DEF WatchInv, WorkerInv, TypeOK
<1>. QED  BY <1>1, <1>3, <1>5, <1>6, <1>7, SlotKeeps

LEMMA ReadKeeps ==
  ASSUME WatchInv, NEW s \in Slots, ReadDirty(s)
  PROVE  WatchInv'
<1> DEFINE m == Head(slots[s].pipe)
           q == Tail(slots[s].pipe)
           a == IF m.repositories = {} THEN {Workspace} ELSE m.repositories
           t == slots[s].touched \cup a
           f == slots[s].refresh \/ m.refresh
           n == [slots[s] EXCEPT !.pipe = q, !.refresh = f, !.touched = t,
                                 !.rstep = "send"]
<1>1. /\ SlotStep(s, n) /\ TypeOK /\ slots[s].rstep = "read" /\ slots[s].pipe # <<>>
  BY DEF WatchInv, ReadDirty
<1>2. /\ m \in Messages /\ q \in Seq(Messages) /\ Len(q) = Len(slots[s].pipe) - 1
      /\ m = slots[s].pipe[1]
      /\ \A i \in DOMAIN slots[s].pipe : i # 1 =>
           i - 1 \in DOMAIN q /\ q[i - 1] = slots[s].pipe[i]
  BY SMTT(30), <1>1, SlotFields
<1>3. m.repositories \in SUBSET Items /\ m.refresh \in BOOLEAN
  BY <1>2 DEF Messages, Items
<1>4. a \in SUBSET Items /\ a # {} /\ t \in SUBSET Items /\ t # {}
  BY <1>1, <1>3, SlotFields DEF Items
<1>5. Widened(m.repositories) \subseteq Widened(t) /\ f \in BOOLEAN
  <2>1. Widened(m.repositories) \subseteq Widened(a)
    BY <1>3, <1>4, WidenedFacts
  <2>. QED  BY SMTT(30), <1>1, <1>3, <1>4, <2>1, SlotFields, WidenedGrows
<1>6. slots[s].touched # {} => Widened(slots[s].touched) \subseteq Widened(t)
  BY ZenonT(30), <1>1, <1>4, SlotFields, WidenedGrows
<1>7. (slots[s].refresh \/ m.refresh) => f
  OBVIOUS
<1> HIDE DEF m, q, a, t, f
<1>8. /\ n \in SlotStates
      /\ n.osq = slots[s].osq /\ n.cbStep = slots[s].cbStep /\ n.cb = slots[s].cb
      /\ n.pend = slots[s].pend /\ n.phase = slots[s].phase /\ n.rules = slots[s].rules
      /\ n.swapped = slots[s].swapped /\ n.step = slots[s].step /\ n.tok = slots[s].tok
      /\ n.pipe = q /\ n.touched = t /\ n.refresh = f
      /\ n.wake = slots[s].wake /\ n.rstep = "send"
      /\ n.pendRefresh = slots[s].pendRefresh
  <2>1. slots[s] \in SlotStates
    BY <1>1, SlotFields
  <2>. QED  BY ZenonT(30), <1>2, <1>4, <1>5, <2>1 DEF SlotStates
<1>9. slots'[s] = n /\ cur' = cur /\ sup' = sup
  BY <1>1 DEF SlotStep, TypeOK
<1> HIDE DEF n
<1>10. ASSUME NEW x \in Items, InPipeline(s, x) PROVE InPipeline(s, x)'
  <2>1. CASE \E e \in slots[s].osq : x \in Widened(e.touch)
    BY <1>8, <1>9, <2>1 DEF InPipeline
  <2>2. CASE slots[s].pend # {} /\ x \in Widened(slots[s].pend) /\ WorkerWillEmit(s)
    BY <1>8, <1>9, <2>2 DEF InPipeline, WorkerWillEmit
  <2>3. CASE \E i \in DOMAIN slots[s].pipe : x \in Widened(slots[s].pipe[i].repositories)
    <3>1. PICK i \in DOMAIN slots[s].pipe : x \in Widened(slots[s].pipe[i].repositories)
      BY <2>3
    <3>2. CASE i = 1
      <4>1. x \in Widened(t)
        BY <1>2, <1>5, <3>1, <3>2
      <4>. QED  BY <1>4, <1>8, <1>9, <4>1 DEF InPipeline, SupervisorWillTake
    <3>3. CASE i # 1
      <4>1. i - 1 \in DOMAIN q /\ x \in Widened(q[i - 1].repositories)
        BY <1>2, <3>1, <3>3
      <4>. QED  BY <1>8, <1>9, <4>1 DEF InPipeline
    <3>. QED  BY <3>2, <3>3
  <2>4. CASE /\ slots[s].touched # {} /\ x \in Widened(slots[s].touched)
             /\ SupervisorWillTake(s)
    <3>1. x \in Widened(t)
      BY <1>6, <2>4
    <3>. QED  BY <1>4, <1>8, <1>9, <3>1 DEF InPipeline, SupervisorWillTake
  <2>. QED  BY <1>10, <2>1, <2>2, <2>3, <2>4 DEF InPipeline
<1>11. RefreshInPipeline(s) => RefreshInPipeline(s)'
  <2> SUFFICES ASSUME RefreshInPipeline(s) PROVE RefreshInPipeline(s)'
      OBVIOUS
  <2>1. CASE \E i \in DOMAIN slots[s].pipe : slots[s].pipe[i].refresh
    <3>1. PICK i \in DOMAIN slots[s].pipe : slots[s].pipe[i].refresh
      BY <2>1
    <3>2. CASE i = 1
      BY <1>2, <1>7, <1>8, <1>9, <3>1, <3>2 DEF RefreshInPipeline
    <3>3. CASE i # 1
      <4>1. i - 1 \in DOMAIN q /\ q[i - 1].refresh
        BY <1>2, <3>1, <3>3
      <4>. QED  BY <1>8, <1>9, <4>1 DEF RefreshInPipeline
    <3>. QED  BY <3>2, <3>3
  <2>2. CASE ~ \E i \in DOMAIN slots[s].pipe : slots[s].pipe[i].refresh
    BY <1>7, <1>8, <1>9, <2>2 DEF RefreshInPipeline
  <2>. QED  BY <2>1, <2>2
<1>12. /\ \A e \in n.osq : e.touch # {}
       /\ n.cbStep # "idle" => n.cb \in Events
       /\ n.swapped => n.step = "emit"
  BY <1>8 DEF WatchInv, WorkerInv
<1>13. Len(n.pipe) <= PipeCapacity
  <2>1. Len(slots[s].pipe) <= PipeCapacity /\ Len(slots[s].pipe) \in Nat
    BY SMTT(30), <1>1, SlotFields DEF TypeOK
  <2>. QED  BY SMTT(30), <1>2, <1>8, <2>1, WatchAssumption
<1>. QED  BY <1>1, <1>8, <1>10, <1>11, <1>12, <1>13, SlotKeeps

LEMMA WakeKeeps ==
  ASSUME WatchInv, NEW s \in Slots, WakeSupervisor(s)
  PROVE  WatchInv'
<1> DEFINE n == [slots[s] EXCEPT !.wake = TRUE, !.rstep = "read"]
<1>1. /\ SlotStep(s, n) /\ TypeOK
  BY DEF WatchInv, WakeSupervisor
<1>2. /\ n \in SlotStates
      /\ n.osq = slots[s].osq /\ n.cbStep = slots[s].cbStep /\ n.cb = slots[s].cb
      /\ n.pend = slots[s].pend /\ n.phase = slots[s].phase /\ n.rules = slots[s].rules
      /\ n.swapped = slots[s].swapped /\ n.step = slots[s].step /\ n.tok = slots[s].tok
      /\ n.pipe = slots[s].pipe /\ n.touched = slots[s].touched
      /\ n.refresh = slots[s].refresh /\ n.wake = TRUE
      /\ n.pendRefresh = slots[s].pendRefresh
  <2>1. slots[s] \in SlotStates
    BY <1>1, SlotFields
  <2>. QED  BY ZenonT(30), <2>1 DEF SlotStates
<1>3. slots'[s] = n /\ cur' = cur /\ sup' = sup
  BY <1>1 DEF SlotStep, TypeOK
<1> HIDE DEF n
<1>4. ASSUME NEW x \in Items, InPipeline(s, x) PROVE InPipeline(s, x)'
  BY ZenonT(30), <1>2, <1>3, <1>4 DEF InPipeline, WorkerWillEmit, SupervisorWillTake, Widened,
       Take, Items
<1>5. RefreshInPipeline(s) => RefreshInPipeline(s)'
  BY <1>2, <1>3 DEF RefreshInPipeline
<1>6. /\ \A f \in n.osq : f.touch # {}
      /\ n.cbStep # "idle" => n.cb \in Events
      /\ (n.swapped => n.step = "emit") /\ Len(n.pipe) <= PipeCapacity
  BY ZenonT(30), <1>1, <1>2 DEF WatchInv, WorkerInv, TypeOK
<1>. QED  BY <1>1, <1>2, <1>4, <1>5, <1>6, SlotKeeps

-----------------------------------------------------------------------------
(***************************************************************************)
(* The disk                                                                *)
(***************************************************************************)
\* A slot apart from its event queue and from what its watches cover.
SameWork(m, n) ==
  /\ n.phase = m.phase /\ n.cb = m.cb /\ n.cbStep = m.cbStep /\ n.pend = m.pend
  /\ n.pendRefresh = m.pendRefresh /\ n.tok = m.tok /\ n.step = m.step
  /\ n.swapped = m.swapped /\ n.pipe = m.pipe /\ n.rstep = m.rstep
  /\ n.touched = m.touched /\ n.refresh = m.refresh /\ n.wake = m.wake
  /\ n.rules = m.rules

\* An event delivered to some workers.
LEMMA DeliverFacts ==
  ASSUME TypeOK, NEW e \in Events, NEW seers, Deliver(e, seers)
  PROVE  /\ slots' \in [Slots -> SlotStates]
         /\ \A s \in Slots :
              /\ SameWork(slots[s], slots'[s])
              /\ slots'[s].osq = IF Ready(s) /\ s \in seers
                                 THEN slots[s].osq \cup {e} ELSE slots[s].osq
<1>1. ASSUME NEW s \in Slots
      PROVE  LET n == [slots[s] EXCEPT !.osq = @ \cup {e}]
             IN  /\ n \in SlotStates /\ SameWork(slots[s], n)
                 /\ n.osq = slots[s].osq \cup {e}
  <2>1. slots[s] \in SlotStates
    BY SlotFields
  <2>. QED  BY ZenonT(30), <2>1 DEF SlotStates, SameWork
<1>2. ASSUME NEW s \in Slots
      PROVE  slots[s] \in SlotStates /\ SameWork(slots[s], slots[s])
  BY SlotFields DEF SameWork
<1>3. ASSUME NEW s \in Slots
      PROVE  slots'[s] = IF Ready(s) /\ s \in seers
                         THEN [slots[s] EXCEPT !.osq = @ \cup {e}] ELSE slots[s]
  BY DEF Deliver
<1>4. slots' = [s \in Slots |-> slots'[s]]
  BY DEF Deliver
<1>5. \A s \in Slots : slots'[s] \in SlotStates
  BY <1>1, <1>2, <1>3
<1>. QED  BY <1>1, <1>2, <1>3, <1>4, <1>5

\* Slots whose queues only grow keep what is on its way in them.
LEMMA QueuesGrow ==
  ASSUME TypeOK, UNCHANGED <<sup, cur>>,
         \A s \in Slots : SameWork(slots[s], slots'[s]) /\ slots[s].osq \subseteq slots'[s].osq
  PROVE  /\ \A s \in Slots, x \in Items : InPipeline(s, x) => InPipeline(s, x)'
         /\ \A s \in Slots : RefreshInPipeline(s) => RefreshInPipeline(s)'
<1>1. ASSUME NEW s \in Slots, NEW x \in Items, InPipeline(s, x) PROVE InPipeline(s, x)'
  <2>1. SameWork(slots[s], slots'[s]) /\ slots[s].osq \subseteq slots'[s].osq
    OBVIOUS
  <2>. QED  BY <1>1, <2>1 DEF InPipeline, WorkerWillEmit, SupervisorWillTake, SameWork
<1>2. ASSUME NEW s \in Slots, RefreshInPipeline(s) PROVE RefreshInPipeline(s)'
  <2>1. SameWork(slots[s], slots'[s]) /\ slots[s].osq \subseteq slots'[s].osq
    OBVIOUS
  <2>. QED  BY <1>2, <2>1 DEF RefreshInPipeline, SameWork
<1>. QED  BY <1>1, <1>2

\* While the supervisor listens it has an active worker that is ready.
LEMMA ActiveReady ==
  ASSUME WatchInv, sup \notin {"initial", "spawn", "stopped"}
  PROVE  Active \in Slots /\ Ready(Active)
BY DEF WatchInv, SupervisorInv, Active

\* Whatever changes on disk, the active worker is told of it or the change is unseen.
LEMMA DiskKeeps ==
  ASSUME WatchInv, NEW items \in SUBSET Items, items # {}, NEW e \in Events,
         e.touch = items, NEW seers,
         sup # "stopped", edits < MaxEdits, edits' = edits + 1,
         stale' = stale \cup items,
         slots' \in [Slots -> SlotStates],
         \A s \in Slots :
           /\ SameWork(slots[s], slots'[s])
           /\ slots'[s].osq = IF Ready(s) /\ s \in seers
                              THEN slots[s].osq \cup {e} ELSE slots[s].osq,
         unseen' = IF \A s \in Slots : Ready(s) => s \in seers
                   THEN unseen ELSE unseen \cup items,
         UNCHANGED <<sup, cur, rep, held, scope, persisted, pass, lost>>,
         rules' = rules \/ (rules' = rules + 1 /\ e.ignore /\ seers = Slots),
         manifest' = manifest \/ manifest' = manifest + 1
  PROVE  WatchInv'
<1>0. TypeOK /\ CountInv /\ SupervisorInv /\ WorkerInv
  BY DEF WatchInv
<1>1. \A s \in Slots : slots'[s].phase = slots[s].phase /\ slots'[s].rules = slots[s].rules
                       /\ slots'[s].pipe = slots[s].pipe
  BY DEF SameWork
<1>2. CountInv' /\ edits' \in 0..MaxEdits /\ rules' \in 0..MaxEdits
      /\ manifest' \in 0..MaxEdits
  BY SMTT(30), <1>0, WatchAssumption DEF CountInv, TypeOK
<1>3. TypeOK'
  BY <1>0, <1>1, <1>2 DEF TypeOK
<1>4. SupervisorInv'
  BY SMTT(30), <1>0, <1>1 DEF SupervisorInv, Ready
<1>5. WorkerInv'
  <2> SUFFICES ASSUME NEW s \in Slots
               PROVE  /\ \A f \in slots'[s].osq : f.touch # {}
                      /\ slots'[s].cbStep # "idle" => slots'[s].cb \in Events
                      /\ slots'[s].swapped => slots'[s].step = "emit"
      BY DEF WorkerInv
  <2>1. SameWork(slots[s], slots'[s]) /\ slots'[s].osq \subseteq slots[s].osq \cup {e}
    OBVIOUS
  <2>. QED  BY SMTT(30), <1>0, <2>1 DEF WorkerInv, SameWork
<1>6. Active' = Active /\ (Active # None => Active \in Slots)
  BY <1>0 DEF Active, TypeOK
<1>7. /\ \A s \in Slots, x \in Items : InPipeline(s, x) => InPipeline(s, x)'
      /\ \A s \in Slots : RefreshInPipeline(s) => RefreshInPipeline(s)'
  <2>1. \A s \in Slots : SameWork(slots[s], slots'[s]) /\ slots[s].osq \subseteq slots'[s].osq
    OBVIOUS
  <2>. QED  BY <1>0, <2>1, QueuesGrow
<1>8. NoObservedChangeLost'
  <2> SUFFICES ASSUME NEW x \in stale', x \notin unseen'
               PROVE  Covered(x)'
      BY DEF NoObservedChangeLost
  <2>1. x \in Items
    BY <1>0 DEF TypeOK
  <2>2. CASE x \in stale /\ x \notin unseen
    BY <1>6, <1>7, <2>1, <2>2 DEF WatchInv, NoObservedChangeLost, Covered
  <2>3. CASE x \in items
    <3>1. \A s \in Slots : Ready(s) => s \in seers
      BY <2>3
    <3>2. CASE sup \in {"initial", "spawn"}
      BY <3>2 DEF Covered
    <3>3. CASE sup \notin {"initial", "spawn"}
      <4>1. Active \in Slots /\ e \in slots'[Active].osq
        BY <3>1, <3>3, ActiveReady
      <4>2. x \in Widened(e.touch)
        BY <2>1, <2>3 DEF Widened
      <4>3. InPipeline(Active, x)'
        BY <1>6, <4>1, <4>2 DEF InPipeline
      <4>. QED  BY <1>6, <4>1, <4>3, WatchAssumption DEF Covered
    <3>. QED  BY <3>2, <3>3
  <2>. QED  BY <2>2, <2>3
<1>9. IgnoreRulesFollowed'
  <2> SUFFICES ASSUME lost = {}, Active # None, Ready(Active),
                      slots[Active].rules # rules'
               PROVE  RefreshInPipeline(Active)' \/ held \/ sup = "respawn"
      BY <1>1, <1>6 DEF IgnoreRulesFollowed, Ready
  <2>1. CASE rules' = rules
    BY <1>6, <1>7, <2>1 DEF WatchInv, IgnoreRulesFollowed
  <2>2. CASE e.ignore /\ seers = Slots
    BY <1>6, <2>2 DEF RefreshInPipeline
  <2>. QED  BY <2>1, <2>2
<1>. QED  BY <1>2, <1>3, <1>4, <1>5, <1>8, <1>9 DEF WatchInv

\* Change with its event.
LEMMA ChangeKeeps ==
  ASSUME WatchInv, NEW items \in SUBSET Items, items # {}, NEW ignore \in BOOLEAN,
         NEW seers, Change(items, Event(items, ignore, FALSE), seers),
         rules' = rules \/ (rules' = rules + 1 /\ ignore /\ seers = Slots),
         manifest' = manifest \/ manifest' = manifest + 1
  PROVE  WatchInv'
<1> DEFINE e == Event(items, ignore, FALSE)
<1>1. e \in Events /\ e.touch = items /\ e.ignore = ignore
  BY DEF Event, Events
<1>2. Deliver(e, seers) /\ TypeOK
  BY DEF Change, WatchInv
<1>3. /\ sup # "stopped" /\ edits < MaxEdits /\ edits' = edits + 1
      /\ stale' = stale \cup items
      /\ unseen' = IF \A s \in Slots : Ready(s) => s \in seers
                   THEN unseen ELSE unseen \cup items
      /\ UNCHANGED <<sup, cur, rep, held, scope, persisted, pass, lost>>
  BY DEF Change
<1> HIDE DEF e
<1>4. /\ slots' \in [Slots -> SlotStates]
      /\ \A s \in Slots :
           /\ SameWork(slots[s], slots'[s])
           /\ slots'[s].osq = IF Ready(s) /\ s \in seers
                              THEN slots[s].osq \cup {e} ELSE slots[s].osq
  BY <1>1, <1>2, DeliverFacts
<1>5. /\ rules' = rules \/ (rules' = rules + 1 /\ e.ignore /\ seers = Slots)
      /\ manifest' = manifest \/ manifest' = manifest + 1
  BY <1>1
<1>6. e \in Events /\ e.touch = items
  BY <1>1
<1>. QED  BY ZenonT(30), <1>3, <1>4, <1>5, <1>6, DiskKeeps

LEMMA EditsKeep ==
  ASSUME WatchInv, NEW r \in Repos,
         Edit(r) \/ EditInNewDirectory(r) \/ EditInNewScope(r) \/ EditIgnoreFile(r)
           \/ EditManifest
  PROVE  WatchInv'
<1>0. {r} \in SUBSET Items /\ {Workspace} \in SUBSET Items
  BY DEF Items
<1>1. CASE Edit(r)
  BY <1>0, <1>1, ChangeKeeps DEF Edit
<1>2. CASE EditInNewDirectory(r)
  BY <1>0, <1>2, ChangeKeeps DEF EditInNewDirectory
<1>3. CASE EditInNewScope(r)
  BY <1>0, <1>3, ChangeKeeps DEF EditInNewScope
<1>4. CASE EditIgnoreFile(r)
  BY <1>0, <1>4, ChangeKeeps DEF EditIgnoreFile
<1>5. CASE EditManifest
  BY <1>0, <1>5, ChangeKeeps DEF EditManifest
<1>. QED  BY <1>1, <1>2, <1>3, <1>4, <1>5

LEMMA CreateKeeps ==
  ASSUME WatchInv, NEW r \in Repos, CreateDirectory(r)
  PROVE  WatchInv'
<1> DEFINE e == Event({r}, FALSE, TRUE)
<1>1. e \in Events /\ e.touch = {r} /\ {r} \in SUBSET Items
  BY DEF Event, Events, Items
<1>2. /\ slots' = [s \in Slots |->
            IF Ready(s) THEN [slots[s] EXCEPT !.osq = @ \cup {e}, !.uncovered = @ \cup {r}]
            ELSE slots[s]]
      /\ TypeOK /\ sup # "stopped" /\ edits < MaxEdits /\ edits' = edits + 1
      /\ stale' = stale \cup {r}
      /\ UNCHANGED <<rules, manifest, sup, cur, rep, held, scope, persisted, pass,
                     unseen, lost>>
  BY DEF CreateDirectory, WatchInv, history
<1> HIDE DEF e
<1>3. ASSUME NEW s \in Slots
      PROVE  /\ slots'[s] \in SlotStates /\ SameWork(slots[s], slots'[s])
             /\ slots'[s].osq = IF Ready(s) /\ s \in Slots
                                THEN slots[s].osq \cup {e} ELSE slots[s].osq
  <2>1. slots[s] \in SlotStates
    BY <1>2, SlotFields
  <2>2. CASE Ready(s)
    <3>1. slots'[s] = [slots[s] EXCEPT !.osq = @ \cup {e}, !.uncovered = @ \cup {r}]
      BY <1>2, <2>2
    <3>2. [slots[s] EXCEPT !.osq = @ \cup {e}, !.uncovered = @ \cup {r}] \in SlotStates
      BY ZenonT(30), <1>1, <2>1 DEF SlotStates
    <3>3. /\ SameWork(slots[s], slots'[s])
          /\ slots'[s].osq = slots[s].osq \cup {e}
      BY ZenonT(30), <2>1, <3>1 DEF SlotStates, SameWork
    <3>. QED  BY <2>2, <3>1, <3>2, <3>3
  <2>3. CASE ~Ready(s)
    BY <1>2, <2>1, <2>3 DEF SameWork
  <2>. QED  BY <2>2, <2>3
<1>4. slots' \in [Slots -> SlotStates]
  BY <1>2, <1>3
<1>5. unseen' = IF \A s \in Slots : Ready(s) => s \in Slots
                THEN unseen ELSE unseen \cup {r}
  BY <1>2
<1>. QED  BY ZenonT(60), <1>1, <1>2, <1>3, <1>4, <1>5, DiskKeeps


LEMMA OverflowKeeps ==
  ASSUME WatchInv, NEW s \in Slots, Overflow(s)
  PROVE  WatchInv'
<1> DEFINE e == Event({Workspace}, FALSE, FALSE)
           n == [slots[s] EXCEPT !.osq = {e}]
<1>1. e \in Events /\ e.touch = {Workspace} /\ e.ignore = FALSE
  BY DEF Event, Events, Items
<1>2. /\ TypeOK /\ slots' = [slots EXCEPT ![s] = n] /\ slots'[s] = n
      /\ \A t \in Slots : t # s => slots'[t] = slots[t]
      /\ lost' = (IF \E f \in slots[s].osq : f.ignore
                  THEN lost \cup {"overflow"} ELSE lost)
      /\ UNCHANGED <<stale, rules, manifest, edits, sup, cur, rep, held, scope,
                     persisted, pass, unseen>>
  BY DEF WatchInv, TypeOK, Overflow, disk
<1> HIDE DEF e
<1>3. /\ n \in SlotStates /\ SameWork(slots[s], n) /\ n.osq = {e}
  <2>1. slots[s] \in SlotStates
    BY <1>2, SlotFields
  <2>. QED  BY ZenonT(30), <1>1, <2>1 DEF SlotStates, SameWork
<1> HIDE DEF n
<1>4. TypeOK'
  BY ZenonT(30), <1>2, <1>3 DEF TypeOK, SameWork
<1>5. CountInv'
  BY <1>2 DEF WatchInv, CountInv
<1>6. SupervisorInv' /\ WorkerInv'
  BY SMTT(30), <1>1, <1>2, <1>3 DEF WatchInv, SupervisorInv, WorkerInv, Ready, SameWork
<1>7. Active' = Active /\ (Active # None => Active \in Slots)
  BY <1>2 DEF Active, TypeOK
<1>8. \A x \in Items : InPipeline(s, x)'
  BY SMTT(30), <1>1, <1>2, <1>3, WidenedFacts DEF InPipeline, Items
<1>9. NoObservedChangeLost'
  <2> SUFFICES ASSUME NEW x \in stale, x \notin unseen PROVE Covered(x)'
      BY <1>2 DEF NoObservedChangeLost
  <2>1. Covered(x) /\ x \in Items
    BY <1>2 DEF WatchInv, NoObservedChangeLost, TypeOK
  <2>2. CASE Active = s
    BY <1>2, <1>7, <1>8, <2>1, <2>2, WatchAssumption DEF Covered
  <2>3. CASE Active # s /\ Active # None /\ InPipeline(Active, x)
    <3>1. slots'[Active] = slots[Active]
      BY <1>2, <1>7, <2>3
    <3>2. InPipeline(Active, x)'
      BY <1>2, <1>7, <2>3, <3>1 DEF InPipeline, WorkerWillEmit, SupervisorWillTake
    <3>. QED  BY <1>7, <2>3, <3>2 DEF Covered
  <2>. QED  BY <1>2, <2>1, <2>2, <2>3 DEF Covered
<1>10. IgnoreRulesFollowed'
  <2> SUFFICES ASSUME lost' = {}, Active # None, slots'[Active].phase = "ready",
                      slots'[Active].rules # rules
               PROVE  RefreshInPipeline(Active)' \/ held \/ sup = "respawn"
      BY <1>2, <1>7 DEF IgnoreRulesFollowed, Ready
  <2>1. lost = {} /\ ~ \E f \in slots[s].osq : f.ignore
    BY <1>2
  <2>2. slots[Active].phase = "ready" /\ slots[Active].rules # rules
    BY ZenonT(30), <1>2, <1>3, <1>7 DEF SameWork
  <2>3. RefreshInPipeline(Active) \/ held \/ sup = "respawn"
    BY <2>1, <2>2 DEF WatchInv, IgnoreRulesFollowed, Ready
  <2>4. ASSUME RefreshInPipeline(Active), Active = s PROVE RefreshInPipeline(Active)'
    BY SMTT(30), <1>2, <1>3, <1>7, <2>1, <2>4 DEF RefreshInPipeline, SameWork
  <2>5. ASSUME RefreshInPipeline(Active), Active # s PROVE RefreshInPipeline(Active)'
    <3>1. slots'[Active] = slots[Active]
      BY <1>2, <1>7, <2>5
    <3>. QED  BY ZenonT(30), <1>2, <1>7, <2>5, <3>1 DEF RefreshInPipeline
  <2>. QED  BY <2>3, <2>4, <2>5
<1>. QED  BY <1>4, <1>5, <1>6, <1>9, <1>10 DEF WatchInv


-----------------------------------------------------------------------------
(***************************************************************************)
(* The supervisor                                                          *)
(***************************************************************************)
\* A step that changes the supervisor and its own slot, and leaves everybody's
\* events where they are.
LEMMA TakeKeeps ==
  ASSUME WatchInv, NEW STATE n, n \in SlotStates, cur \in Slots,
         slots' = [slots EXCEPT ![cur] = n],
         n.phase = slots[cur].phase, n.rules = slots[cur].rules,
         n.osq = slots[cur].osq, n.cb = slots[cur].cb, n.cbStep = slots[cur].cbStep,
         n.swapped = slots[cur].swapped, n.step = slots[cur].step,
         n.pipe = slots[cur].pipe,
         UNCHANGED <<stale, rules, manifest, edits, cur, rep, scope, persisted,
                     unseen, lost>>,
         sup \in {"wait", "debounce", "takescope", "taketouched"},
         sup' \in {"debounce", "takescope", "taketouched", "pass"},
         held' \in BOOLEAN, held' => sup' \in {"taketouched", "pass"},
         pass' \in [step : {"none", "begin", "reading"}, scope : SUBSET Items,
                    unread : SUBSET Items, taken : SUBSET Items,
                    attempt : 0..MaxAttempts],
         pass'.taken \subseteq pass'.scope, pass'.unread \subseteq pass'.scope,
         sup' # "pass" => pass' = pass,
         \A x \in Items :
           x \in pass.unread \/ InPipeline(cur, x)
             => x \in pass'.unread \/ InPipeline(cur, x)',
         RefreshInPipeline(cur) \/ held => RefreshInPipeline(cur)' \/ held'
  PROVE  WatchInv'
<1>0. /\ TypeOK /\ slots'[cur] = n
      /\ \A t \in Slots : t # cur => slots'[t] = slots[t]
  BY DEF WatchInv, TypeOK
<1>1. TypeOK'
  BY <1>0 DEF TypeOK
<1>2. CountInv'
  BY DEF WatchInv, CountInv
<1>3. SupervisorInv' /\ WorkerInv'
  BY SMTT(30), <1>0 DEF WatchInv, SupervisorInv, WorkerInv, Ready
<1>4. Active = cur /\ Active' = cur /\ cur # None /\ cur' = cur
  BY WatchAssumption DEF Active
<1>5. NoObservedChangeLost'
  <2> SUFFICES ASSUME NEW x \in stale, x \notin unseen PROVE Covered(x)'
      BY DEF NoObservedChangeLost
  <2>1. x \in Items /\ (x \in pass.unread \/ InPipeline(cur, x))
    BY <1>0, <1>4 DEF WatchInv, NoObservedChangeLost, Covered, TypeOK
  <2>2. x \in pass'.unread \/ InPipeline(cur, x)'
    BY <2>1
  <2>. QED  BY <1>4, <2>2 DEF Covered
<1>6. IgnoreRulesFollowed'
  BY <1>0, <1>4 DEF WatchInv, IgnoreRulesFollowed, Ready
<1>. QED  BY <1>1, <1>2, <1>3, <1>5, <1>6 DEF WatchInv

\* The supervisor is in the loop: it has a worker, and a refresh it took is in hand.
LEMMA InTheLoop ==
  ASSUME WatchInv, sup \in {"wait", "debounce", "takescope", "taketouched"}
  PROVE  /\ cur \in Slots /\ held \in BOOLEAN
         /\ held => sup = "taketouched"
         /\ slots[cur] \in SlotStates /\ TypeOK
         /\ pass.taken \subseteq pass.scope /\ pass.unread = {}
         /\ pass.unread \subseteq pass.scope
<1>1. cur \in Slots
  BY DEF WatchInv, SupervisorInv
<1>. QED  BY <1>1 DEF WatchInv, SupervisorInv, TypeOK

LEMMA ReceiveKeeps ==
  ASSUME WatchInv, ReceiveChange
  PROVE  WatchInv'
<1> DEFINE n == [slots[cur] EXCEPT !.wake = FALSE]
<1>0. sup \in {"wait", "debounce"}
  BY DEF ReceiveChange
<1>1. /\ cur \in Slots /\ held = FALSE /\ slots[cur] \in SlotStates /\ TypeOK
      /\ pass.taken \subseteq pass.scope /\ pass.unread \subseteq pass.scope
  BY <1>0, InTheLoop
<1>2. /\ slots' = [slots EXCEPT ![cur] = n] /\ sup' = "debounce" /\ slots'[cur] = n
      /\ UNCHANGED <<stale, rules, manifest, edits, cur, rep, held, scope, persisted,
                     pass, unseen, lost>>
  BY <1>1 DEF ReceiveChange, disk, history, TypeOK
<1>3. n \in SlotStates
  BY <1>1 DEF SlotStates
<1>4. /\ n.phase = slots[cur].phase /\ n.rules = slots[cur].rules
      /\ n.osq = slots[cur].osq /\ n.cb = slots[cur].cb /\ n.cbStep = slots[cur].cbStep
      /\ n.swapped = slots[cur].swapped /\ n.step = slots[cur].step
      /\ n.pipe = slots[cur].pipe /\ n.pend = slots[cur].pend /\ n.tok = slots[cur].tok
      /\ n.pendRefresh = slots[cur].pendRefresh /\ n.touched = slots[cur].touched
      /\ n.refresh = slots[cur].refresh
  BY <1>1 DEF SlotStates
<1> HIDE DEF n
<1>5. ASSUME NEW x \in Items, InPipeline(cur, x) PROVE InPipeline(cur, x)'
  BY SMTT(30), <1>2, <1>4, <1>5 DEF InPipeline, WorkerWillEmit, SupervisorWillTake
<1>6. RefreshInPipeline(cur) => RefreshInPipeline(cur)'
  BY ZenonT(30), <1>2, <1>4 DEF RefreshInPipeline
<1>7. pass \in [step : {"none", "begin", "reading"}, scope : SUBSET Items,
                unread : SUBSET Items, taken : SUBSET Items, attempt : 0..MaxAttempts]
  BY <1>1 DEF TypeOK
<1>. QED  BY <1>0, <1>1, <1>2, <1>3, <1>4, <1>5, <1>6, <1>7, TakeKeeps

LEMMA DebounceKeeps ==
  ASSUME WatchInv, DebounceElapsed
  PROVE  WatchInv'
<1>0. sup = "debounce"
  BY DEF DebounceElapsed
<1>1. /\ cur \in Slots /\ held = FALSE /\ slots[cur] \in SlotStates /\ TypeOK
      /\ pass.taken \subseteq pass.scope /\ pass.unread \subseteq pass.scope
  BY <1>0, InTheLoop
<1>2. /\ slots' = slots /\ slots' = [slots EXCEPT ![cur] = slots[cur]] /\ sup' = "takescope"
      /\ UNCHANGED <<stale, rules, manifest, edits, cur, rep, held, scope, persisted,
                     pass, unseen, lost>>
  BY <1>1 DEF DebounceElapsed, disk, history, TypeOK
<1>3. ASSUME NEW x \in Items, InPipeline(cur, x) PROVE InPipeline(cur, x)'
  BY <1>2, <1>3 DEF InPipeline, WorkerWillEmit, SupervisorWillTake
<1>4. RefreshInPipeline(cur) => RefreshInPipeline(cur)'
  BY <1>2 DEF RefreshInPipeline
<1>5. pass \in [step : {"none", "begin", "reading"}, scope : SUBSET Items,
                unread : SUBSET Items, taken : SUBSET Items, attempt : 0..MaxAttempts]
  BY <1>1 DEF TypeOK
<1>. QED  BY <1>0, <1>1, <1>2, <1>3, <1>4, <1>5, TakeKeeps

LEMMA TakeScopeKeeps ==
  ASSUME WatchInv, TakeScopeRefresh
  PROVE  WatchInv'
<1> DEFINE n == [slots[cur] EXCEPT !.refresh = FALSE]
<1>0. sup = "takescope"
  BY DEF TakeScopeRefresh
<1>1. /\ cur \in Slots /\ held = FALSE /\ slots[cur] \in SlotStates /\ TypeOK
      /\ pass.taken \subseteq pass.scope /\ pass.unread \subseteq pass.scope
  BY <1>0, InTheLoop
<1>2. /\ slots' = [slots EXCEPT ![cur] = n] /\ sup' = "taketouched" /\ slots'[cur] = n
      /\ held' = slots[cur].refresh
      /\ UNCHANGED <<stale, rules, manifest, edits, cur, rep, scope, persisted,
                     pass, unseen, lost>>
  BY <1>1 DEF TakeScopeRefresh, disk, history, TypeOK
<1>3. n \in SlotStates
  BY <1>1 DEF SlotStates
<1>4. /\ n.phase = slots[cur].phase /\ n.rules = slots[cur].rules
      /\ n.osq = slots[cur].osq /\ n.cb = slots[cur].cb /\ n.cbStep = slots[cur].cbStep
      /\ n.swapped = slots[cur].swapped /\ n.step = slots[cur].step
      /\ n.pipe = slots[cur].pipe /\ n.pend = slots[cur].pend /\ n.tok = slots[cur].tok
      /\ n.pendRefresh = slots[cur].pendRefresh /\ n.touched = slots[cur].touched
      /\ n.wake = slots[cur].wake /\ slots[cur].refresh \in BOOLEAN
  BY <1>1 DEF SlotStates
<1> HIDE DEF n
<1>5. ASSUME NEW x \in Items, InPipeline(cur, x) PROVE InPipeline(cur, x)'
  BY SMTT(30), <1>0, <1>2, <1>4, <1>5 DEF InPipeline, WorkerWillEmit, SupervisorWillTake
<1>6. RefreshInPipeline(cur) => RefreshInPipeline(cur)' \/ held'
  BY ZenonT(30), <1>2, <1>4 DEF RefreshInPipeline
<1>7. pass \in [step : {"none", "begin", "reading"}, scope : SUBSET Items,
                unread : SUBSET Items, taken : SUBSET Items, attempt : 0..MaxAttempts]
  BY <1>1 DEF TypeOK
<1>. QED  BY <1>0, <1>1, <1>2, <1>3, <1>4, <1>5, <1>6, <1>7, TakeKeeps

\* What the supervisor takes from the touched set the pass will read.
LEMMA TakeTouchedKeeps ==
  ASSUME WatchInv, TakeTouched
  PROVE  WatchInv'
<1> DEFINE n == [slots[cur] EXCEPT !.touched = {}]
           items == IF held \/ Take(slots[cur].touched) = {} THEN Items
                    ELSE Take(slots[cur].touched)
<1>0. sup = "taketouched"
  BY DEF TakeTouched
<1>1. /\ cur \in Slots /\ held \in BOOLEAN /\ slots[cur] \in SlotStates /\ TypeOK
      /\ pass.unread = {}
  BY <1>0, InTheLoop
<1>2. /\ slots' = [slots EXCEPT ![cur] = n] /\ sup' = "pass" /\ slots'[cur] = n
      /\ pass' = BeginPass(items)
      /\ UNCHANGED <<stale, rules, manifest, edits, cur, rep, held, scope, persisted,
                     unseen, lost>>
  BY <1>1 DEF TakeTouched, disk, history, TypeOK
<1>3. n \in SlotStates
  BY <1>1 DEF SlotStates
<1>4. /\ n.phase = slots[cur].phase /\ n.rules = slots[cur].rules
      /\ n.osq = slots[cur].osq /\ n.cb = slots[cur].cb /\ n.cbStep = slots[cur].cbStep
      /\ n.swapped = slots[cur].swapped /\ n.step = slots[cur].step
      /\ n.pipe = slots[cur].pipe /\ n.pend = slots[cur].pend /\ n.tok = slots[cur].tok
      /\ n.pendRefresh = slots[cur].pendRefresh /\ n.refresh = slots[cur].refresh
      /\ n.wake = slots[cur].wake /\ n.rstep = slots[cur].rstep
      /\ slots[cur].touched \in SUBSET Items
  BY <1>1 DEF SlotStates
<1>5. items \in SUBSET Items /\ Widened(slots[cur].touched) \subseteq items
  BY <1>4, WatchAssumption DEF Widened, Take, Items
<1>6. Widened(slots[cur].touched) \subseteq items
  BY <1>5
<1> HIDE DEF n, items
<1>7. pass'.unread = items /\ pass'.scope = items /\ pass'.taken = {}
      /\ pass' \in [step : {"none", "begin", "reading"}, scope : SUBSET Items,
                unread : SUBSET Items, taken : SUBSET Items, attempt : 0..MaxAttempts]
  BY <1>2, <1>5, BeginType
<1>8. ASSUME NEW x \in Items, x \in pass.unread \/ InPipeline(cur, x)
      PROVE  x \in pass'.unread \/ InPipeline(cur, x)'
  BY SMTT(30), <1>0, <1>1, <1>2, <1>4, <1>5, <1>7, <1>8
  DEF InPipeline, WorkerWillEmit, SupervisorWillTake
<1>9. RefreshInPipeline(cur) => RefreshInPipeline(cur)'
  BY ZenonT(30), <1>0, <1>2, <1>4 DEF RefreshInPipeline
<1>. QED  BY <1>0, <1>1, <1>2, <1>3, <1>4, <1>7, <1>8, <1>9, TakeKeeps


LEMMA BeginsKeeps ==
  ASSUME WatchInv, PassBegins
  PROVE  WatchInv'
<1> DEFINE p == [pass EXCEPT !.step = "reading"]
           e == Event({LockRepo}, FALSE, FALSE)
<1>0. TypeOK /\ CountInv /\ SupervisorInv /\ WorkerInv
  BY DEF WatchInv
<1>1. /\ pass' = p /\ pass.step = "begin"
      /\ Deliver(e, {s \in Slots : LockRepo # None})
      /\ persisted' = (IF Workspace \in pass.scope THEN manifest ELSE persisted)
      /\ UNCHANGED <<stale, rules, manifest, edits, sup, cur, rep, held, scope,
                     unseen, lost>>
  BY DEF PassBegins, disk, history
<1>2. /\ p \in [step : {"none", "begin", "reading"}, scope : SUBSET Items,
                unread : SUBSET Items, taken : SUBSET Items, attempt : 0..MaxAttempts]
      /\ p.scope = pass.scope /\ p.unread = pass.unread /\ p.taken = pass.taken
  BY <1>0 DEF TypeOK
<1> HIDE DEF p
<1>3. /\ slots' \in [Slots -> SlotStates]
      /\ \A s \in Slots : /\ SameWork(slots[s], slots'[s])
                          /\ slots[s].osq \subseteq slots'[s].osq
                          /\ \A f \in slots'[s].osq : f.touch # {}
  <2>1. CASE LockRepo = None
    <3>1. slots' = [s \in Slots |-> slots[s]]
      BY <1>1, <2>1 DEF Deliver
    <3>2. slots' = slots
      BY <1>0, <3>1 DEF TypeOK
    <3>. QED  BY <1>0, <3>2 DEF TypeOK, SameWork, WorkerInv
  <2>2. CASE LockRepo # None
    <3>1. e \in Events /\ e.touch = {LockRepo}
      BY <2>2, WatchAssumption DEF Event, Events, Items
    <3> HIDE DEF e
    <3>2. /\ slots' \in [Slots -> SlotStates]
          /\ \A s \in Slots :
               /\ SameWork(slots[s], slots'[s])
               /\ slots'[s].osq = IF Ready(s) /\ s \in {t \in Slots : LockRepo # None}
                                  THEN slots[s].osq \cup {e} ELSE slots[s].osq
      BY <1>0, <1>1, <3>1, DeliverFacts
    <3>. QED  BY <1>0, <3>1, <3>2 DEF WorkerInv
  <2>. QED  BY <2>1, <2>2
<1>4. \A s \in Slots : slots'[s].phase = slots[s].phase /\ slots'[s].rules = slots[s].rules
                       /\ slots'[s].pipe = slots[s].pipe
  BY <1>3 DEF SameWork
<1>5. TypeOK'
  BY ZenonT(30), <1>0, <1>1, <1>2, <1>3, <1>4 DEF TypeOK
<1>6. CountInv'
  BY <1>0, <1>1 DEF CountInv
<1>7. SupervisorInv'
  BY ZenonT(30), <1>0, <1>1, <1>2, <1>4 DEF SupervisorInv, Ready
<1>8. WorkerInv'
  BY ZenonT(30), <1>0, <1>3 DEF WorkerInv, SameWork
<1>9. /\ \A s \in Slots, x \in Items : InPipeline(s, x) => InPipeline(s, x)'
      /\ \A s \in Slots : RefreshInPipeline(s) => RefreshInPipeline(s)'
  BY <1>0, <1>1, <1>3, QueuesGrow
<1>10. Active' = Active /\ (Active # None => Active \in Slots)
  BY <1>0, <1>1 DEF Active, TypeOK
<1>11. NoObservedChangeLost'
  <2> SUFFICES ASSUME NEW x \in stale, x \notin unseen PROVE Covered(x)'
      BY <1>1 DEF NoObservedChangeLost
  <2>1. Covered(x) /\ x \in Items
    BY <1>0 DEF WatchInv, NoObservedChangeLost, TypeOK
  <2>. QED  BY <1>1, <1>2, <1>9, <1>10, <2>1 DEF Covered
<1>12. IgnoreRulesFollowed'
  BY <1>1, <1>4, <1>9, <1>10 DEF WatchInv, IgnoreRulesFollowed, Ready
<1>. QED  BY <1>5, <1>6, <1>7, <1>8, <1>11, <1>12 DEF WatchInv

\* A step of the pass or of the supervisor alone: no slot changes.
LEMMA SupervisorKeeps ==
  ASSUME WatchInv, UNCHANGED <<slots, rules, manifest, edits, cur, rep, lost>>,
         TypeOK', SupervisorInv', Active' = Active,
         \A x \in stale' \ unseen' : Covered(x)',
         sup \in {"debounce", "takescope", "taketouched"} => sup' = sup,
         held /\ lost = {} => held' \/ sup' = "respawn",
         sup = "respawn" => sup' = "respawn"
  PROVE  WatchInv'
<1>1. CountInv' /\ WorkerInv'
  BY DEF WatchInv, CountInv, WorkerInv
<1>2. NoObservedChangeLost'
  BY DEF NoObservedChangeLost
<1>3. ASSUME NEW s \in Slots, RefreshInPipeline(s) PROVE RefreshInPipeline(s)'
  BY <1>3 DEF RefreshInPipeline
<1>4. IgnoreRulesFollowed'
  <2>1. Active # None => Active \in Slots
    BY DEF WatchInv, TypeOK, Active
  <2>. QED  BY <1>3, <2>1 DEF WatchInv, IgnoreRulesFollowed, Ready
<1>. QED  BY <1>1, <1>2, <1>4 DEF WatchInv

\* What is on its way stays so when only the pass changes.
LEMMA PassFrame ==
  ASSUME WatchInv, UNCHANGED <<slots, sup, cur, rep>>, NEW x \in stale, x \notin unseen,
         x \in pass.unread => x \in pass'.unread
  PROVE  Covered(x)'
<1>1. Covered(x) /\ Active' = Active
  BY DEF WatchInv, NoObservedChangeLost, Active
<1>2. ASSUME Active # None, InPipeline(Active, x) PROVE InPipeline(Active, x)'
  BY <1>1, <1>2 DEF InPipeline, WorkerWillEmit, SupervisorWillTake
<1>. QED  BY <1>1, <1>2 DEF Covered

LEMMA ReadsKeep ==
  ASSUME WatchInv, NEW x \in Items, PassReads(x)
  PROVE  WatchInv'
<1> DEFINE p == [pass EXCEPT !.unread = @ \ {x}, !.taken = @ \cup ({x} \cap stale)]
<1>0. TypeOK /\ SupervisorInv
  BY DEF WatchInv
<1>1. /\ pass' = p /\ x \in pass.unread /\ pass.step = "reading"
      /\ stale' = stale \ {x} /\ unseen' = unseen \ {x}
      /\ UNCHANGED <<rules, manifest, edits, slots, sup, cur, rep, held, scope,
                     persisted, lost>>
  BY DEF PassReads
<1>2. /\ p \in [step : {"none", "begin", "reading"}, scope : SUBSET Items,
                unread : SUBSET Items, taken : SUBSET Items, attempt : 0..MaxAttempts]
      /\ p.scope = pass.scope /\ p.unread = pass.unread \ {x}
      /\ p.taken = pass.taken \cup ({x} \cap stale)
  BY <1>0 DEF TypeOK
<1> HIDE DEF p
<1>3. TypeOK'
  BY ZenonT(30), <1>0, <1>1, <1>2 DEF TypeOK
<1>4. SupervisorInv'
  BY <1>0, <1>1, <1>2 DEF SupervisorInv, Ready
<1>5. Active' = Active
  BY <1>1 DEF Active
<1>6. ASSUME NEW y \in stale' \ unseen' PROVE Covered(y)'
  <2>1. y \in stale /\ y \notin unseen /\ y # x
    BY <1>1
  <2>2. y \in pass.unread => y \in pass'.unread
    BY <1>1, <1>2, <2>1
  <2>. QED  BY <1>1, <2>1, <2>2, PassFrame
<1>. QED  BY <1>1, <1>3, <1>4, <1>5, <1>6, SupervisorKeeps

\* An attempt that fails reads its whole scope again, what it had taken included.
LEMMA RetriesKeep ==
  ASSUME WatchInv, PassRetries
  PROVE  WatchInv'
<1> DEFINE p == [BeginPass(pass.scope) EXCEPT !.attempt = pass.attempt + 1]
<1>0. TypeOK /\ SupervisorInv
  BY DEF WatchInv
<1>1. /\ pass' = p /\ pass.step = "reading" /\ pass.attempt < MaxAttempts
      /\ stale' = stale \cup pass.taken
      /\ UNCHANGED <<rules, manifest, edits, slots, sup, cur, rep, held, scope,
                     persisted, unseen, lost>>
  BY DEF PassRetries, history
<1>2. /\ p \in [step : {"none", "begin", "reading"}, scope : SUBSET Items,
                unread : SUBSET Items, taken : SUBSET Items, attempt : 0..MaxAttempts]
      /\ p.scope = pass.scope /\ p.unread = pass.scope /\ p.taken = {}
  <2>1. pass.scope \in SUBSET Items /\ pass.attempt + 1 \in 0..MaxAttempts
    BY SMTT(30), <1>0, <1>1, WatchAssumption DEF TypeOK
  <2>. QED  BY <2>1 DEF BeginPass
<1> HIDE DEF p
<1>3. TypeOK'
  BY ZenonT(30), <1>0, <1>1, <1>2 DEF TypeOK
<1>4. SupervisorInv'
  BY <1>0, <1>1, <1>2 DEF SupervisorInv, Ready
<1>5. Active' = Active
  BY <1>1 DEF Active
<1>6. ASSUME NEW y \in stale' \ unseen' PROVE Covered(y)'
  <2>1. CASE y \in stale
    <3>1. y \in pass.unread => y \in pass'.unread
      BY <1>0, <1>1, <1>2 DEF SupervisorInv
    <3>. QED  BY <1>1, <2>1, <3>1, PassFrame
  <2>2. CASE y \in pass.taken
    BY <1>0, <1>1, <1>2, <2>2 DEF SupervisorInv, Covered
  <2>. QED  BY <1>1, <2>1, <2>2
<1>. QED  BY <1>1, <1>3, <1>4, <1>5, <1>6, SupervisorKeeps

\* Reloading the scope, with its error.
LEMMA LoadKeeps ==
  ASSUME WatchInv, LoadScope
  PROVE  WatchInv'
<1>0. TypeOK /\ SupervisorInv
  BY DEF WatchInv
<1>1. /\ sup = "load" /\ sup' = (IF held \/ persisted # scope THEN "respawn" ELSE "wait")
      /\ held' = FALSE
      /\ UNCHANGED <<stale, rules, manifest, edits, slots, cur, rep, scope, persisted,
                     pass, unseen, lost>>
  BY DEF LoadScope, disk, history
<1>2. TypeOK'
  BY <1>0, <1>1 DEF TypeOK
<1>3. SupervisorInv'
  BY <1>0, <1>1 DEF SupervisorInv, Ready
<1>4. Active' = Active
  BY <1>1 DEF Active
<1>5. ASSUME NEW x \in stale' \ unseen' PROVE Covered(x)'
  <2>1. Covered(x)
    BY <1>1 DEF WatchInv, NoObservedChangeLost
  <2>2. ASSUME Active # None, InPipeline(Active, x) PROVE InPipeline(Active, x)'
    BY <1>1, <1>4, <2>2 DEF InPipeline, WorkerWillEmit, SupervisorWillTake
  <2>. QED  BY <1>1, <1>4, <2>1, <2>2 DEF Covered
<1>. QED  BY <1>1, <1>2, <1>3, <1>4, <1>5, SupervisorKeeps

LEMMA LoadFailsKeeps ==
  ASSUME WatchInv, LoadScopeFails
  PROVE  WatchInv'
<1>0. TypeOK /\ SupervisorInv /\ CountInv /\ WorkerInv
  BY DEF WatchInv
<1>1. /\ sup = "load" /\ sup' = "wait" /\ held' = FALSE
      /\ lost' = (IF held \/ persisted # scope THEN lost \cup {"load"} ELSE lost)
      /\ UNCHANGED <<stale, rules, manifest, edits, slots, cur, rep, scope, persisted,
                     pass, unseen>>
  BY DEF LoadScopeFails, disk
<1>2. TypeOK' /\ CountInv' /\ WorkerInv'
  BY <1>0, <1>1 DEF TypeOK, CountInv, WorkerInv
<1>3. SupervisorInv'
  BY <1>0, <1>1 DEF SupervisorInv, Ready
<1>4. Active' = Active
  BY <1>1 DEF Active
<1>5. NoObservedChangeLost'
  <2> SUFFICES ASSUME NEW x \in stale \ unseen PROVE Covered(x)'
    BY <1>1 DEF NoObservedChangeLost
  <2>1. Covered(x)
    BY DEF WatchInv, NoObservedChangeLost
  <2>2. ASSUME Active # None, InPipeline(Active, x) PROVE InPipeline(Active, x)'
    BY <1>1, <1>4, <2>2 DEF InPipeline, WorkerWillEmit, SupervisorWillTake
  <2>. QED  BY <1>1, <1>4, <2>1, <2>2 DEF Covered
<1>6. IgnoreRulesFollowed'
  <2> SUFFICES ASSUME lost' = {}, Active # None, Ready(Active), slots[Active].rules # rules
               PROVE  RefreshInPipeline(Active)'
    BY <1>1, <1>4 DEF IgnoreRulesFollowed, Ready
  <2>1. lost = {} /\ ~held
    BY <1>1
  <2>2. RefreshInPipeline(Active)
    BY <1>1, <2>1 DEF WatchInv, IgnoreRulesFollowed
  <2>. QED  BY <1>1, <1>4, <2>2 DEF RefreshInPipeline
<1>. QED  BY <1>2, <1>3, <1>5, <1>6 DEF WatchInv

LEMMA StopKeeps ==
  ASSUME WatchInv, Stop
  PROVE  WatchInv'
<1>0. TypeOK /\ CountInv
  BY DEF WatchInv
<1>1. /\ sup' = "stopped" /\ slots' = [s \in Slots |-> FreeSlot]
      /\ cur' = None /\ rep' = None /\ held' = FALSE /\ pass' = NoPass
      /\ UNCHANGED <<stale, rules, manifest, edits, scope, persisted, unseen, lost>>
  BY DEF Stop, disk, history
<1>2. /\ slots' \in [Slots -> SlotStates]
      /\ \A s \in Slots : Len(slots'[s].pipe) <= PipeCapacity
  BY SMTT(30), <1>1, FreeType, WatchAssumption
<1>3. pass' \in [step : {"none", "begin", "reading"}, scope : SUBSET Items,
                 unread : SUBSET Items, taken : SUBSET Items, attempt : 0..MaxAttempts]
  BY SMTT(30), <1>1, WatchAssumption DEF NoPass
<1>4. TypeOK'
  BY <1>0, <1>1, <1>2, <1>3 DEF TypeOK
<1>5. CountInv'
  BY <1>0, <1>1 DEF CountInv
<1>6. SupervisorInv' /\ WorkerInv'
  BY <1>1 DEF SupervisorInv, WorkerInv, FreeSlot, NoPass
<1>7. NoObservedChangeLost' /\ IgnoreRulesFollowed'
  BY <1>1 DEF NoObservedChangeLost, Covered, IgnoreRulesFollowed, Active
<1>. QED  BY <1>4, <1>5, <1>6, <1>7 DEF WatchInv


\* A pass is published: everything it was to read is read, and the worker that
\* is listened to from then on has kept what it was told.
LEMMA PublishesKeep ==
  ASSUME WatchInv, PassPublishes
  PROVE  WatchInv'
<1>0. TypeOK /\ CountInv /\ SupervisorInv /\ WorkerInv
  BY DEF WatchInv
<1>1. /\ pass.step = "reading" /\ pass.unread = {} /\ pass' = NoPass
      /\ UNCHANGED <<stale, rules, manifest, edits, held, persisted, unseen, lost>>
  BY DEF PassPublishes, disk, history
<1>2. /\ pass' \in [step : {"none", "begin", "reading"}, scope : SUBSET Items,
                    unread : SUBSET Items, taken : SUBSET Items, attempt : 0..MaxAttempts]
      /\ pass'.step = "none" /\ pass'.unread = {} /\ pass'.taken = {} /\ pass'.scope = {}
  BY SMTT(30), <1>1, WatchAssumption DEF NoPass
<1>3. CASE UNCHANGED <<slots, cur, rep>> /\ scope' \in {persisted, scope}
           /\ \/ sup = "initial" /\ sup' = "spawn"
              \/ sup = "catchup" /\ sup' = "wait"
              \/ sup = "pass" /\ sup' = "load"
  <2>1. TypeOK'
    BY <1>0, <1>1, <1>2, <1>3 DEF TypeOK
  <2>2. SupervisorInv'
    BY <1>0, <1>1, <1>2, <1>3 DEF SupervisorInv, Ready
  <2>3. Active' = Active
    BY <1>3 DEF Active
  <2>4. ASSUME NEW x \in stale' \ unseen' PROVE Covered(x)'
    <3>1. Covered(x)
      BY <1>1 DEF WatchInv, NoObservedChangeLost
    <3>2. ASSUME Active # None, InPipeline(Active, x) PROVE InPipeline(Active, x)'
      BY <1>3, <2>3, <3>2 DEF InPipeline, WorkerWillEmit, SupervisorWillTake
    <3>. QED  BY <1>1, <1>3, <2>3, <3>1, <3>2 DEF Covered
  <2>. QED  BY <1>1, <1>3, <2>1, <2>2, <2>3, <2>4, SupervisorKeeps
<1>4. CASE /\ sup = "replace" /\ sup' = "wait"
           /\ slots' = [slots EXCEPT ![cur] = FreeSlot]
           /\ cur' = rep /\ rep' = None /\ scope' = slots[rep].manifest
  <2>1. /\ cur \in Slots /\ rep \in Slots /\ rep # cur /\ held = FALSE
        /\ Ready(rep) /\ rep # None
    BY <1>0, <1>4, WatchAssumption DEF SupervisorInv, TypeOK
  <2>2. /\ slots'[cur] = FreeSlot /\ slots' \in [Slots -> SlotStates]
        /\ \A t \in Slots : t # cur => slots'[t] = slots[t]
        /\ slots'[rep] = slots[rep]
    BY <1>0, <1>4, <2>1, FreeType DEF TypeOK
  <2>3. slots[rep].manifest \in 0..MaxEdits
    <3>1. slots[rep] \in SlotStates
      BY <1>0, <2>1, SlotFields
    <3>. QED  BY <3>1 DEF SlotStates
  <2>4. \A s \in Slots : Len(slots'[s].pipe) <= PipeCapacity
    BY SMTT(30), <1>0, <2>2, FreeType, WatchAssumption DEF TypeOK
  <2>5. TypeOK'
    BY <1>0, <1>1, <1>2, <1>4, <2>1, <2>2, <2>3, <2>4 DEF TypeOK
  <2>6. /\ FreeSlot.phase = "free" /\ FreeSlot.osq = {} /\ FreeSlot.cbStep = "idle"
        /\ FreeSlot.swapped = FALSE
    BY DEF FreeSlot
  <2>7. SupervisorInv'
    BY <1>0, <1>1, <1>2, <1>4, <2>1, <2>2, <2>6 DEF SupervisorInv, Ready
  <2>8. CountInv'
    BY <1>0, <1>1 DEF CountInv
  <2>9. WorkerInv'
    BY <1>0, <2>2, <2>6 DEF WorkerInv
  <2>10. PICK r \in Slots : r = rep
    BY <2>1
  <2>11. Active = r /\ Active' = r /\ cur' = r /\ r # None /\ slots'[r] = slots[r]
    BY <1>4, <2>1, <2>2, <2>10 DEF Active
  <2>12. NoObservedChangeLost'
    <3> SUFFICES ASSUME NEW x \in stale \ unseen PROVE Covered(x)'
      BY <1>1 DEF NoObservedChangeLost
    <3>1. InPipeline(r, x)
      BY <1>1, <1>4, <2>11 DEF WatchInv, NoObservedChangeLost, Covered
    <3>2. InPipeline(r, x)'
      BY <1>4, <2>11, <3>1 DEF InPipeline, WorkerWillEmit, SupervisorWillTake
    <3>. QED  BY <2>11, <3>2 DEF Covered
  <2>13. IgnoreRulesFollowed'
    <3> SUFFICES ASSUME lost = {}, slots[r].rules # rules, Ready(r)
                 PROVE  RefreshInPipeline(r)'
      BY <1>1, <2>11 DEF IgnoreRulesFollowed, Ready
    <3>1. RefreshInPipeline(r)
      BY <1>4, <2>1, <2>11 DEF WatchInv, IgnoreRulesFollowed
    <3>. QED  BY <1>4, <2>11, <3>1 DEF RefreshInPipeline
  <2>. QED  BY <2>5, <2>7, <2>8, <2>9, <2>12, <2>13 DEF WatchInv
<1>. QED  BY <1>3, <1>4 DEF PassPublishes

\* A new worker has nothing and covers nothing until it is ready.
LEMMA SpawnKeeps ==
  ASSUME WatchInv, NEW s \in Slots, SpawnWorker(s)
  PROVE  WatchInv'
<1> DEFINE n == [FreeSlot EXCEPT !.phase = "installing", !.manifest = persisted]
<1>0. TypeOK /\ CountInv /\ SupervisorInv /\ WorkerInv
  BY DEF WatchInv
<1>1. /\ slots[s].phase = "free" /\ slots' = [slots EXCEPT ![s] = n]
      /\ \/ sup = "spawn" /\ cur = None /\ cur' = s /\ rep' = rep
         \/ sup = "respawn" /\ rep = None /\ rep' = s /\ cur' = cur
      /\ UNCHANGED <<stale, rules, manifest, edits, sup, held, scope, persisted, pass,
                     unseen, lost>>
  BY DEF SpawnWorker, disk, history
<1>2. /\ n \in SlotStates
      /\ n.phase = "installing" /\ n.osq = {} /\ n.cbStep = "idle" /\ n.swapped = FALSE
      /\ Len(n.pipe) = 0
  <2>1. persisted \in 0..MaxEdits
    BY <1>0 DEF TypeOK
  <2>2. FreeSlot \in SlotStates
    BY FreeType
  <2>3. n \in SlotStates
    BY <2>1, <2>2 DEF SlotStates
  <2>. QED  BY <2>3 DEF FreeSlot
<1> HIDE DEF n
<1>3. slots'[s] = n /\ \A t \in Slots : t # s => slots'[t] = slots[t]
  BY <1>0, <1>1 DEF TypeOK
<1>4. TypeOK'
  BY SMTT(30), <1>0, <1>1, <1>2, <1>3, WatchAssumption DEF TypeOK
<1>5. SupervisorInv'
  BY ZenonT(30), <1>0, <1>1, <1>2, <1>3, WatchAssumption DEF SupervisorInv, Ready
<1>6. CountInv' /\ WorkerInv'
  BY <1>0, <1>1, <1>2, <1>3 DEF CountInv, WorkerInv
<1>7. NoObservedChangeLost'
  BY <1>1 DEF NoObservedChangeLost, Covered
<1>8. IgnoreRulesFollowed'
  BY <1>1, <1>2, <1>3 DEF IgnoreRulesFollowed, Active, Ready
<1>. QED  BY <1>4, <1>5, <1>6, <1>7, <1>8 DEF WatchInv

\* A worker that is ready has the rules of that moment, and the pass that
\* follows reads everything from then on.
LEMMA ReadyKeeps ==
  ASSUME WatchInv, NEW s \in Slots, WorkerReady(s)
  PROVE  WatchInv'
<1> DEFINE n == [slots[s] EXCEPT !.phase = "ready", !.rules = rules]
<1>0. TypeOK /\ CountInv /\ SupervisorInv /\ WorkerInv
  BY DEF WatchInv
<1>1. /\ slots[s].phase = "installing" /\ slots' = [slots EXCEPT ![s] = n]
      /\ sup' = (IF sup = "spawn" THEN "catchup" ELSE "replace")
      /\ pass' = BeginPass(Items)
      /\ UNCHANGED <<stale, rules, manifest, edits, cur, rep, held, scope, persisted,
                     unseen, lost>>
  BY <1>0 DEF WorkerReady, disk, history, TypeOK
<1>2. rules \in 0..MaxEdits /\ slots[s] \in SlotStates
  BY <1>0, SlotFields DEF TypeOK
<1>3. n \in SlotStates
  BY <1>2 DEF SlotStates
<1>4. /\ n.phase = "ready" /\ n.rules = rules /\ n.osq = slots[s].osq
      /\ n.cbStep = slots[s].cbStep /\ n.cb = slots[s].cb
      /\ n.swapped = slots[s].swapped /\ n.step = slots[s].step /\ n.pipe = slots[s].pipe
  BY <1>2 DEF SlotStates
<1> HIDE DEF n
<1>5. slots'[s] = n /\ \A t \in Slots : t # s => slots'[t] = slots[t]
  BY <1>0, <1>1 DEF TypeOK
<1>6. /\ pass' \in [step : {"none", "begin", "reading"}, scope : SUBSET Items,
                    unread : SUBSET Items, taken : SUBSET Items, attempt : 0..MaxAttempts]
      /\ pass'.unread = Items /\ pass'.scope = Items /\ pass'.taken = {}
  BY <1>1, BeginType
<1>7. (sup = "spawn" /\ cur = s) \/ (sup = "respawn" /\ rep = s)
  BY <1>0, <1>1 DEF SupervisorInv
<1>8. TypeOK'
  BY ZenonT(30), <1>0, <1>1, <1>3, <1>4, <1>5, <1>6 DEF TypeOK
<1>9. SupervisorInv'
  <2>1. CASE sup = "spawn" /\ cur = s
    BY ZenonT(30), <1>0, <1>1, <1>4, <1>5, <1>6, <2>1 DEF SupervisorInv, Ready
  <2>2. CASE sup = "respawn" /\ rep = s
    BY SMTT(30), <1>0, <1>1, <1>4, <1>5, <1>6, <2>2 DEF SupervisorInv, Ready
  <2>. QED  BY <1>7, <2>1, <2>2
<1>10. CountInv' /\ WorkerInv'
  BY SMTT(30), <1>0, <1>1, <1>4, <1>5 DEF CountInv, WorkerInv
<1>11. NoObservedChangeLost'
  BY <1>0, <1>1, <1>6 DEF NoObservedChangeLost, Covered, TypeOK
<1>12. Active' = s
  BY <1>1, <1>7 DEF Active
<1>13. IgnoreRulesFollowed'
  BY <1>1, <1>4, <1>5, <1>12 DEF IgnoreRulesFollowed
<1>. QED  BY <1>8, <1>9, <1>10, <1>11, <1>13 DEF WatchInv

-----------------------------------------------------------------------------
\* Every step of the disk, of the workers and of the supervisor.
LEMMA NextWatchInv == WatchInv /\ [Next]_vars => WatchInv'
<1> SUFFICES ASSUME WatchInv, [Next]_vars PROVE WatchInv'
    OBVIOUS
<1>1. CASE DiskStep
  <2>1. CASE \E r \in Repos : CreateDirectory(r)
    BY <2>1, CreateKeeps
  <2>2. ASSUME NEW r \in Repos,
               Edit(r) \/ EditInNewDirectory(r) \/ EditInNewScope(r) \/ EditIgnoreFile(r)
        PROVE  WatchInv'
    BY <2>2, EditsKeep
  <2>3. CASE EditManifest
    <3>1. {Workspace} \in SUBSET Items
      BY DEF Items
    <3>. QED  BY <2>3, <3>1, ChangeKeeps DEF EditManifest
  <2>4. CASE \E s \in Slots : Overflow(s)
    BY <2>4, OverflowKeeps
  <2>. QED  BY <1>1, <2>1, <2>2, <2>3, <2>4 DEF DiskStep
<1>2. CASE \E s \in Slots : WorkerStep(s)
  BY <1>2, RecordKeeps, FlagsKeep, SignalKeeps, ReceiveSignalKeeps, SwapKeeps, EmitKeeps,
     DirectoriesKeep, ReadKeeps, WakeKeeps DEF WorkerStep
<1>3. CASE SupervisorStep
  BY <1>3, ReceiveKeeps, DebounceKeeps, TakeScopeKeeps, TakeTouchedKeeps, BeginsKeeps,
     ReadsKeep, PublishesKeep, SpawnKeeps, ReadyKeeps, LoadKeeps DEF SupervisorStep
<1>4. CASE PassRetries \/ LoadScopeFails \/ Stop
  BY <1>4, RetriesKeep, LoadFailsKeeps, StopKeeps
<1>5. CASE UNCHANGED vars
  <2>1. UNCHANGED <<stale, rules, manifest, edits, slots, sup, cur, rep, held, scope,
                    persisted, pass, unseen, lost>>
    BY <1>5 DEF vars
  <2>2. TypeOK' /\ CountInv' /\ WorkerInv'
    BY ZenonT(30), <2>1 DEF WatchInv, TypeOK, CountInv, WorkerInv
  <2>3. SupervisorInv'
    BY <2>1 DEF WatchInv, SupervisorInv, Ready
  <2>4. ASSUME NEW x \in stale' \ unseen' PROVE Covered(x)'
    BY <2>1, PassFrame
  <2>. QED  BY <2>1, <2>2, <2>3, <2>4, SupervisorKeeps DEF Active
<1>. QED  BY <1>1, <1>2, <1>3, <1>4, <1>5 DEF Next

\* In every interleaving of callback, worker, reader thread and supervisor, and
\* through every replacement of the worker, a change a worker was told about is in
\* a pending set with a signal for it or in a pass that will read it.
THEOREM ObservedChangesCovered == Spec => []PipelineCovers
<1>1. WatchInv => PipelineCovers
  BY DEF WatchInv, PipelineCovers
<1>. QED  BY <1>1, InitWatchInv, NextWatchInv, PTL DEF Spec

\* The flag refresh_scope is never lost between the callback and the replacement of
\* the worker: the worker that is listened to filters with the ignore rules on disk,
\* or the request to replace it is on its way, unless the kernel queue overflowed or
\* reloading the scope failed.
THEOREM IgnoreRulesAreFollowed == Spec => []IgnoreRulesFollowed
<1>1. WatchInv => IgnoreRulesFollowed
  BY DEF WatchInv
<1>. QED  BY <1>1, InitWatchInv, NextWatchInv, PTL DEF Spec

=============================================================================
