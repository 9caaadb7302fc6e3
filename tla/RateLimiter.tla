---------------------------- MODULE RateLimiter ----------------------------
(***************************************************************************)
(* The per-client limiter of the HTTP server: a bounded table of fixed     *)
(* windows, cleaned on every call, evicting the oldest window when a new   *)
(* client finds the table full.  Instants are kept as ages, so a window    *)
(* says how long ago it started, up to Window.  What the limiter really    *)
(* let through is remembered beside the table, per client and per tick of  *)
(* the last Window ticks.                                                  *)
(***************************************************************************)
EXTENDS Integers, FiniteSets, FiniteSetsExt, Functions

CONSTANTS
  Clients,      \* client addresses
  Window,       \* RATE_LIMIT_WINDOW, in ticks
  Limit,        \* RATE_LIMIT_REQUESTS
  MaxClients,   \* MAX_RATE_LIMIT_CLIENTS
  MaxAdmitted   \* bound: requests of one client within Window ticks

ASSUME RateAssumption == /\ Window \in Nat \ {0}
                         /\ Limit \in Nat \ {0}
                         /\ MaxClients \in Nat \ {0}

VARIABLES
  windows,   \* the table: client -> [age, requests], for some of the clients
  recent,    \* history: requests let through in each of the last ticks
  evicted,   \* history: ticks since the client's window was evicted
  verdict    \* the last call and its result

rateVars == <<windows, recent, evicted, verdict>>

Ticks == 0 .. Window - 1

\* Requests of the client let through during the last Window ticks.
Admitted(c) == SumFunction(recent[c])

RateTypeOK ==
  /\ DOMAIN windows \subseteq Clients
  /\ Cardinality(DOMAIN windows) <= MaxClients
  /\ \A c \in DOMAIN windows :
       windows[c] \in [age : 0 .. Window, requests : Nat]
  /\ recent \in [Clients -> [Ticks -> Nat]]
  /\ evicted \in [Clients -> 0 .. Window]
  /\ verdict \in [client : Clients, result : {"none", "allowed", "limited"}]

RateInit ==
  /\ windows = [c \in {} |-> 0]
  /\ recent = [c \in Clients |-> [t \in Ticks |-> 0]]
  /\ evicted = [c \in Clients |-> Window]
  /\ verdict \in [client : Clients, result : {"none"}]

----------------------------------------------------------------------------
\* The clients whose window a call retains.
Retained == {c \in DOMAIN windows : windows[c].age < Window}


Exhausted(w) == w.requests >= Limit

\* The sets of clients an insertion may push out: the table's order decides
\* between windows of the same age.
Evictions(table) ==
  IF Cardinality(table) < MaxClients THEN {{}}
  ELSE {{c} : c \in {o \in table :
                       \A d \in table : windows[d].age <= windows[o].age}}

Allow(c) ==
  /\ recent' = [recent EXCEPT ![c][0] = @ + 1]
  /\ verdict' = [client |-> c, result |-> "allowed"]

\* RateLimiter::check by a client with a window: refused at the limit,
\* counted below it.
CheckKnown(c) ==
  /\ c \in Retained
  /\ IF Exhausted(windows[c])
     THEN /\ windows' = Restrict(windows, Retained)
          /\ verdict' = [client |-> c, result |-> "limited"]
          /\ UNCHANGED <<recent, evicted>>
     ELSE /\ windows' = [Restrict(windows, Retained) EXCEPT ![c].requests = @ + 1]
          /\ Allow(c)
          /\ UNCHANGED evicted

\* RateLimiter::check by a client without a window: a new one, in the place
\* of the oldest when the table is full.
CheckNew(c) ==
  /\ c \notin Retained
  /\ \E out \in Evictions(Retained) :
       /\ windows' = [d \in (Retained \ out) \cup {c} |->
                        IF d = c THEN [age |-> 0, requests |-> 1] ELSE windows[d]]
       /\ evicted' = [d \in Clients |-> IF d \in out THEN 0 ELSE evicted[d]]
  /\ Allow(c)

\* A tick passes: windows and history age.
RateTick ==
  /\ windows' = [c \in DOMAIN windows |->
                   [windows[c] EXCEPT !.age = IF @ < Window THEN @ + 1 ELSE @]]
  /\ recent' = [c \in Clients |->
                  [t \in Ticks |-> IF t = 0 THEN 0 ELSE recent[c][t - 1]]]
  /\ evicted' = [c \in Clients |->
                   IF evicted[c] < Window THEN evicted[c] + 1 ELSE Window]
  /\ UNCHANGED verdict

RateNext ==
  \/ \E c \in Clients : Admitted(c) < MaxAdmitted /\ (CheckKnown(c) \/ CheckNew(c))
  \/ RateTick

----------------------------------------------------------------------------
(* Properties                                                              *)

\* A client whose window was not evicted gets at most twice the limit
\* through in any span as long as the window: fixed windows allow a burst at
\* the end of one and at the start of the next, and no more.
AdmissionBounded ==
  \A c \in Clients : evicted[c] = Window => Admitted(c) <= 2 * Limit

\* Only a client that used up its limit within the last Window ticks is
\* refused: an old window, another client or an eviction never costs anyone
\* a request.
RefusalIsEarned ==
  [][\A c \in Clients :
       (verdict'.client = c /\ verdict'.result = "limited" /\ verdict' # verdict)
         => Admitted(c) >= Limit]_rateVars


\* What a per-client bound would say without the table's size: never more
\* than twice the limit.  An evicted client starts afresh.
AdmissionAlwaysBounded ==
  \A c \in Clients : Admitted(c) <= 2 * Limit
============================================================================
