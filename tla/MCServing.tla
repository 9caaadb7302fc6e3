----------------------------- MODULE MCServing -----------------------------
(***************************************************************************)
(* The server's request handling, its rate limiter and the CodeGraph       *)
(* provider side by side: a behaviour is one of the three, as the initial  *)
(* state says.  They share no state: the limiter decides before a request  *)
(* is admitted, every explore request builds a provider of its own, and    *)
(* Serving keeps of it that it ends by the deadline.                       *)
(***************************************************************************)
EXTENDS Serving, RateLimiter, CodeGraphProvider, TLC

CONSTANTS
  r1, r2,           \* Serving
  a1, a2, a3,       \* RateLimiter
  c1, c2, p1, p2    \* CodeGraphProvider

VARIABLE part

\* Two requests under a limit of two meet at the explore permit; under a
\* limit of one the second finds the server busy, or the first one's task
\* still running.  The two tasks of the provider take turns at one process
\* permit, on the same repository or on two.
Instance ==
  /\ part \in {"serving", "limiter", "provider"}
  /\ part # "serving" => limit = 1 /\ wall = 1
  /\ limit = 2 => wall = 1
  /\ part # "limiter" => verdict.client = a1
  /\ part # "provider" => permits = 1
  /\ repo \in {c1 :> p1 @@ c2 :> p1, c1 :> p1 @@ c2 :> p2}
  /\ part # "provider" => repo[c2] = p1

Init == ServingInit /\ RateInit /\ ProviderInit /\ Instance

ServingStep ==
  /\ part = "serving"
  /\ ServingNext
  /\ UNCHANGED <<part, rateVars, providerVars>>

LimiterStep ==
  /\ part = "limiter"
  /\ RateNext
  /\ UNCHANGED <<part, servingVars, providerVars>>

ProviderStep ==
  /\ part = "provider"
  /\ ProviderNext
  /\ UNCHANGED <<part, servingVars, rateVars>>

Next == ServingStep \/ LimiterStep \/ ProviderStep

vars == <<part, servingVars, rateVars, providerVars>>

\* The fair actions of a part that is not running are disabled.
Spec == Init /\ [][Next]_vars /\ ServingFairness /\ ProviderFairness
============================================================================
