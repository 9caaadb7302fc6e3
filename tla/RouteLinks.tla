------------------------------ MODULE RouteLinks ------------------------------
(***************************************************************************)
(* How an HTTP call is linked to the route that serves it                  *)
(* (core/src/routes.rs).  Deployment documents are read first and say      *)
(* which repository serves a host; the provider routes are inserted into a *)
(* trie of path segments; and each consumer or test call is resolved       *)
(* against the trie, restricted to the repositories its scope allows.      *)
(*                                                                         *)
(* A path is a sequence of segments.  A segment is "param", "rest" (a      *)
(* catch-all), a literal of Statics, or a literal with parameters of       *)
(* Mixeds; MixedMatches says which literals a mixed segment matches.  The  *)
(* method is left out (there is one trie per method), and a node of the    *)
(* trie is the sequence of segments that leads to it.                      *)
(***************************************************************************)
EXTENDS Integers, Sequences, FiniteSets

CONSTANTS
  Statics,       \* literal segments
  Mixeds,        \* segments such as "{name}.json"
  MixedMatches,  \* pairs <<mixed segment, literal>> that match
  Routes,        \* provider routes [repo, shape]
  Deployments,   \* host declarations [document, host, repo]
  Loopbacks,     \* hosts of locally started services
  DeclaredHosts, \* function: host |-> the repository the manifest names
  Calls,         \* calls [repo, shape, scope, host]
  MaxRoutes      \* bound on the routes of the workspace

NoHost == "none"
Several == "several"

ASSUME RouteAssumption ==
  IsFiniteSet(Deployments) /\ \A d \in Deployments : d.repo # Several

VARIABLES
  inferred,      \* AuthorityMap::inferred: host |-> repository or Several
  index,         \* RouteIndex: the routes inserted
  rcall,         \* the call being linked, or NoCall
  answer,    \* what became of it
  read           \* history: the deployment declarations read

NoCall == [repo |-> "none"]
routeVars == <<inferred, index, rcall, answer, read>>

-----------------------------------------------------------------------------
\* infer: a host declared by a second repository is used by neither, and stays
\* so.
Inferred(host, repo) ==
  IF host \in DOMAIN inferred /\ inferred[host] # repo THEN Several ELSE repo

\* lookup: where a call to `host` may be served.
lookup(host) ==
  IF host \in Loopbacks
  THEN [kind |-> "workspace", repo |-> NoHost]
  ELSE IF host \in DOMAIN DeclaredHosts
  THEN [kind |-> "strict", repo |-> DeclaredHosts[host]]
  ELSE IF host \notin DOMAIN inferred
  THEN [kind |-> "external", repo |-> NoHost]
  ELSE IF inferred[host] = Several
  THEN [kind |-> "workspace", repo |-> NoHost]
  ELSE [kind |-> "preferred", repo |-> inferred[host]]

scope_restriction(call) ==
  CASE call.scope = "workspace" -> [kind |-> "workspace", repo |-> NoHost]
    [] call.scope = "in_process" -> [kind |-> "strict", repo |-> call.repo]
    [] call.scope = "authority" -> lookup(call.host)
    [] call.scope = "external" -> [kind |-> "external", repo |-> NoHost]

\* Whether a mixed segment of a route accepts a segment of a call.
mixed_segment_matches(literals, segment) ==
  \/ segment = literals
  \/ <<literals, segment>> \in MixedMatches

\* The nodes of a trie that holds `routes`.
Nodes(routes) ==
  UNION {{SubSeq(r.shape, 1, n) : n \in 0..Len(r.shape)} : r \in routes}

\* The routes that end at a node of the trie.
Terminal(routes, node) == {r \in routes : r.shape = node}

\* Mutant: a literal segment is followed without looking back.
FindNoBacktrack(routes, query) ==
  LET Child(node, s) == Append(node, s)
      f[node \in Nodes(routes)] ==
        LET first == query[Len(node) + 1]
            At(s) == IF Child(node, s) \in Nodes(routes)
                     THEN f[Child(node, s)] ELSE {}
            mixed == UNION {At(m) : m \in {x \in Mixeds :
                                             mixed_segment_matches(x, first)}}
            whole == IF first = "rest" THEN {} ELSE At("param")
        IN IF Len(node) = Len(query) THEN Terminal(routes, node)
           ELSE IF first \in Statics /\ Child(node, first) \in Nodes(routes)
           THEN At(first)
           ELSE IF mixed # {} THEN mixed
           ELSE IF whole # {} THEN whole
           ELSE Terminal(routes, Child(node, "rest"))
  IN IF routes = {} THEN {} ELSE f[<<>>]

\* RouteNode::find on the trie of `routes`: at every node the literal child
\* first, then every mixed child that matches, then the parameter, then the
\* catch-all; an empty answer is looked for further.
find(routes, query) ==
  LET Child(node, s) == Append(node, s)
      f[node \in Nodes(routes)] ==
        LET first == query[Len(node) + 1]
            At(s) == IF Child(node, s) \in Nodes(routes)
                     THEN f[Child(node, s)] ELSE {}
            literal == IF first \in Statics THEN At(first) ELSE {}
            mixed == UNION {At(m) : m \in {x \in Mixeds :
                                             mixed_segment_matches(x, first)}}
            whole == IF first = "rest" THEN {} ELSE At("param")
        IN IF Len(node) = Len(query) THEN Terminal(routes, node)
           ELSE IF literal # {} THEN literal
           ELSE IF mixed # {} THEN mixed
           ELSE IF whole # {} THEN whole
           ELSE Terminal(routes, Child(node, "rest"))
  IN IF routes = {} THEN {} ELSE f[<<>>]

\* A tie is settled by the only route of the caller's own repository.
Narrowed(found, repo) ==
  LET local == {r \in found : r.repo = repo}
  IN IF Cardinality(found) > 1 /\ Cardinality(local) = 1 THEN local ELSE found

\* RouteIndex::resolve among the routes `accepted` by the restriction.
resolve(accepted, call) == Narrowed(find(accepted, call.shape), call.repo)

\* resolve_call: a repository a deployment hints at is tried first, one the
\* scope requires is the only one tried.
resolve_call(call) ==
  LET restriction == scope_restriction(call)
      within == {r \in index : r.repo = restriction.repo}
      found == CASE restriction.kind = "workspace" -> resolve(index, call)
                 [] restriction.kind = "strict" -> resolve(within, call)
                 [] restriction.kind = "preferred" ->
                      IF resolve(within, call) # {} THEN resolve(within, call)
                      ELSE resolve(index, call)
                 [] restriction.kind = "external" -> {}
  IN [outcome |-> IF restriction.kind = "external" THEN "external"
                  ELSE IF found = {} THEN "no_provider"
                  ELSE IF Cardinality(found) = 1 THEN "linked"
                  ELSE "ambiguous",
      routes |-> found]

-----------------------------------------------------------------------------
RouteInit ==
  /\ inferred = <<>>
  /\ index = {}
  /\ rcall = NoCall
  /\ answer = [outcome |-> "none", routes |-> {}]
  /\ read = {}

\* infer_from_infrastructure reads one more host declaration.
infer(d) ==
  /\ rcall = NoCall
  /\ index = {}
  /\ d \notin read
  /\ read' = read \cup {d}
  /\ inferred' = [h \in DOMAIN inferred \cup {d.host} |->
                    IF h = d.host THEN Inferred(h, d.repo) ELSE inferred[h]]
  /\ UNCHANGED <<index, rcall, answer>>

\* RouteIndex::new inserts one more provider route.
insert(r) ==
  /\ rcall = NoCall
  /\ r \notin index
  /\ Cardinality(index) < MaxRoutes
  /\ index' = index \cup {r}
  /\ UNCHANGED <<inferred, rcall, answer, read>>

\* A consumer or a test of the workspace is linked.
link_remote_call(call) ==
  /\ rcall = NoCall
  /\ rcall' = call
  /\ answer' = resolve_call(call)
  /\ UNCHANGED <<inferred, index, read>>

RouteNext ==
  \/ \E d \in Deployments : infer(d)
  \/ \E r \in Routes : insert(r)
  \/ \E c \in Calls : link_remote_call(c)

RouteSpec == RouteInit /\ [][RouteNext]_routeVars

-----------------------------------------------------------------------------
Rank(s) == CASE s \in Statics -> 1
             [] s \in Mixeds -> 2
             [] s = "param" -> 3
             [] s = "rest" -> 4

Accepts(s, q) ==
  \/ s = q
  \/ s = "param" /\ q # "rest"
  \/ s \in Mixeds /\ <<s, q>> \in MixedMatches

\* Whether a route template serves a path: segment by segment, the catch-all
\* taking one or more segments.
Serves(shape, query) ==
  LET n == Len(shape)
  IN \/ /\ n = Len(query)
        /\ \A i \in 1..n : Accepts(shape[i], query[i])
     \/ /\ n > 0 /\ shape[n] = "rest" /\ n <= Len(query)
        /\ \A i \in 1..n - 1 : Accepts(shape[i], query[i])

\* A template is more specific than another at the first segment where they
\* differ.
MoreSpecific(s, t) ==
  \E i \in 1..Len(s) :
    /\ i <= Len(t)
    /\ SubSeq(s, 1, i - 1) = SubSeq(t, 1, i - 1)
    /\ Rank(s[i]) < Rank(t[i])

\* The routes among `routes` that serve the path and to which no other that
\* serves it is preferred.
BestRoutes(routes, query) ==
  LET serving == {r \in routes : Serves(r.shape, query)}
  IN {r \in serving : \A o \in serving : ~MoreSpecific(o.shape, r.shape)}

\* The repositories whose deployments have declared the host.
Hosts(host) == {d.repo : d \in {e \in read : e.host = host}}

\* The routes the scope of a call allows, from the declarations themselves.
Allowed(call) ==
  LET required == IF call.scope = "in_process" THEN {call.repo}
                  ELSE IF /\ call.scope = "authority"
                          /\ call.host \in DOMAIN DeclaredHosts \ Loopbacks
                  THEN {DeclaredHosts[call.host]} ELSE {}
      hinted == {r \in index : /\ call.scope = "authority"
                               /\ call.host \notin Loopbacks
                               /\ Hosts(call.host) = {r.repo}
                               /\ Serves(r.shape, call.shape)}
      outside == \/ call.scope = "external"
                 \/ /\ call.scope = "authority"
                    /\ call.host \notin DOMAIN DeclaredHosts \cup Loopbacks
                    /\ Hosts(call.host) = {}
  IN IF outside THEN {}
     ELSE IF required # {} THEN {r \in index : r.repo \in required}
     ELSE IF hinted # {} THEN {r \in index : \E h \in hinted : r.repo = h.repo}
     ELSE index

\* A call is linked to, or reported ambiguous between, routes that serve its
\* path and that no other allowed route is preferred to, whatever the trie
\* had to back out of to find them; and a route that serves it is never
\* missed (routes.rs, RouteNode::find: "at every segment a static match is
\* preferred over a mixed segment, then a whole-segment parameter, then a
\* catch-all").
MostSpecificRoutes ==
  rcall # NoCall =>
    LET best == BestRoutes(Allowed(rcall), rcall.shape)
    IN /\ answer.routes \subseteq best
       /\ best # {} => answer.routes # {}

\* A call is linked only when one route can be meant: a single best route
\* among those its scope allows, or the only best one of its own repository
\* (routes.rs, RouteIndex::resolve: "Anything else is ambiguous").
LinksAreUnambiguous ==
  rcall # NoCall /\ answer.outcome = "linked" =>
    LET best == BestRoutes(Allowed(rcall), rcall.shape)
    IN \/ answer.routes = best
       \/ answer.routes = {r \in best : r.repo = rcall.repo}

\* A link never leaves the repositories its scope allows: an in-process call
\* stays in its repository, a host of the manifest is served by the repository
\* that declares it, and a call to a host nobody declared is not linked
\* (routes.rs, scope_restriction and resolve_call).
LinksStayInScope ==
  rcall # NoCall => answer.routes \subseteq Allowed(rcall)

\* Which repository a host is inferred for does not depend on the order in
\* which deployments are read, and a host several repositories declare is
\* used for none of them (routes.rs, AuthorityMap: "A host inferred for
\* several repositories is not used").
InferenceIgnoresOrder ==
  /\ DOMAIN inferred = {d.host : d \in read}
  /\ \A h \in DOMAIN inferred :
       IF Cardinality(Hosts(h)) > 1 THEN inferred[h] = Several
       ELSE Hosts(h) = {inferred[h]}

(* A call is linked to the most specific routes in its scope, only when they
   are unambiguous, whatever the order in which the hosts were declared. *)
CallsFindTheirRoutes ==
  /\ LinksStayInScope
  /\ MostSpecificRoutes
  /\ LinksAreUnambiguous
  /\ InferenceIgnoresOrder

\* Each template is ranked as a whole, mixed segments being equally specific:
\* "the most specific template wins" (routes.rs, link_http_routes).
MostSpecificWins ==
  rcall # NoCall =>
    LET Ranks(r) == [i \in 1..Len(r.shape) |-> Rank(r.shape[i])]
        Above(r, o) == \E i \in 1..Len(r.shape) :
                         /\ i <= Len(o.shape)
                         /\ SubSeq(Ranks(r), 1, i - 1) = SubSeq(Ranks(o), 1, i - 1)
                         /\ Rank(r.shape[i]) < Rank(o.shape[i])
    IN \A r, o \in answer.routes : ~Above(r, o)
=============================================================================
