----------------------------- MODULE GraphStore -----------------------------
(***************************************************************************)
(* What the SQLite store promises: a workspace has one current graph, a    *)
(* publication replaces it as a whole, and a reader sees the graph that    *)
(* was current at one moment of its read.                                  *)
(***************************************************************************)
CONSTANTS
  Candidates,   \* graphs that may be published
  Readers,
  None          \* no graph

VARIABLES
  current,      \* the current graph
  candidate,    \* the graph a publisher asked to publish
  reading,      \* the graph each reader looks at
  answer        \* the graph each reader returned, until it reads again

vars == <<current, candidate, reading, answer>>

Init ==
  /\ current = None /\ candidate = None
  /\ reading = [r \in Readers |-> None]
  /\ answer = [r \in Readers |-> None]

Request(g) ==
  /\ candidate = None
  /\ candidate' = g
  /\ UNCHANGED <<current, reading, answer>>

Publish ==
  /\ candidate # None
  /\ current' = candidate
  /\ candidate' = None
  /\ UNCHANGED <<reading, answer>>

\* An error, a cancellation or a crash: the current graph stays.
Abandon ==
  /\ candidate # None
  /\ candidate' = None
  /\ UNCHANGED <<current, reading, answer>>

StartRead(r) ==
  /\ reading[r] = None
  /\ current # None
  /\ reading' = [reading EXCEPT ![r] = current]
  /\ answer' = [answer EXCEPT ![r] = None]
  /\ UNCHANGED <<current, candidate>>

FinishRead(r) ==
  /\ reading[r] # None
  /\ answer' = [answer EXCEPT ![r] = reading[r]]
  /\ reading' = [reading EXCEPT ![r] = None]
  /\ UNCHANGED <<current, candidate>>

Next ==
  \/ \E g \in Candidates : Request(g)
  \/ Publish
  \/ Abandon
  \/ \E r \in Readers : StartRead(r) \/ FinishRead(r)

Spec == Init /\ [][Next]_vars
=============================================================================
