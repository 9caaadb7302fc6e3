----------------------------- MODULE RouterMounts -----------------------------
(***************************************************************************)
(* How the prefixes of mounted routers are composed into route paths       *)
(* (core/src/router_mounts.rs).  A mount puts one router under a prefix on *)
(* another router, or on the application when its parent is not resolved.  *)
(* The files of a repository are rewritten one after the other; the        *)
(* prefixes of a router are walked once and cached.                        *)
(*                                                                         *)
(* A prefix is a sequence of path segments and the root prefix is the      *)
(* empty one, so joining prefixes is concatenation.  Routers are the       *)
(* symbols references resolve to; resolving a reference through imports is *)
(* left out.                                                               *)
(***************************************************************************)
EXTENDS Integers, Sequences, FiniteSets

CONSTANTS
  Routers,             \* routers of the repository
  MountSets,           \* sets of mounts [child, parent, prefix] to start from
  MaxMountDepth,       \* MAX_MOUNT_DEPTH
  MaxComposedPrefixes  \* MAX_COMPOSED_PREFIXES

NoParent == "none"

VARIABLES
  mounts,    \* RepositoryRouters::mounts
  prefixes   \* the cache: router |-> the prefixes composed for its routes

mountVars == <<mounts, prefixes>>

-----------------------------------------------------------------------------
Mounted(r) == \E m \in mounts : m.child = r

\* The order of path strings: segments are numbers here.
Precedes(s, t) ==
  \/ Len(s) < Len(t) /\ SubSeq(t, 1, Len(s)) = s
  \/ \E i \in 1..Len(s) : /\ i <= Len(t)
                          /\ SubSeq(s, 1, i - 1) = SubSeq(t, 1, i - 1)
                          /\ s[i] < t[i]

\* The first paths of a BTreeSet.
Take(set) ==
  {s \in set : Cardinality({t \in set : Precedes(t, s)}) < MaxComposedPrefixes}

\* The stacks of routers being visited: no router occurs twice.
Stacks ==
  {s \in UNION {[1..n -> Routers] : n \in 1..Cardinality(Routers)} :
     \A i, j \in DOMAIN s : i # j => s[i] # s[j]}

\* Mutant: one mount too many is followed.
DeeperByOne(visiting, router) ==
  \/ Len(visiting) > MaxMountDepth
  \/ \E i \in DOMAIN visiting : visiting[i] = router

\* A chain through a cycle or deeper than the maximum is dropped.
Dropped(visiting, router) ==
  \/ Len(visiting) >= MaxMountDepth
  \/ \E i \in DOMAIN visiting : visiting[i] = router

\* walk(key, visiting): every prefix chain from the router on top of the stack
\* to a root, outermost prefix first.
walk ==
  LET w[stack \in Stacks] ==
        LET Outer(parent) ==
              IF parent = NoParent \/ ~Mounted(parent) THEN {<<>>}
              ELSE IF Dropped(stack, parent) THEN {}
              ELSE w[Append(stack, parent)]
        IN Take(UNION {{o \o m.prefix : o \in Outer(m.parent)} :
                         m \in {x \in mounts : x.child = stack[Len(stack)]}})
  IN w

\* prefixes(key): a router that reaches no root keeps its paths.
Composed(router) ==
  LET chains == IF Mounted(router) THEN walk[<<router>>] ELSE {<<>>}
  IN IF chains = {} THEN {<<>>} ELSE chains

-----------------------------------------------------------------------------
MountInit ==
  /\ mounts \in MountSets
  /\ prefixes = <<>>

\* rewrite reaches the first route of a router.
rewrite(router) ==
  /\ router \notin DOMAIN prefixes
  /\ prefixes' = [r \in DOMAIN prefixes \cup {router} |->
                    IF r = router THEN Composed(router) ELSE prefixes[r]]
  /\ UNCHANGED mounts

MountNext == \E r \in Routers : rewrite(r)
MountSpec == MountInit /\ [][MountNext]_mountVars

-----------------------------------------------------------------------------
\* The chains of mounts from a router to a root, innermost mount first: no
\* router twice and at most MaxMountDepth mounts.
Chains(router) ==
  {c \in UNION {[1..n -> mounts] : n \in 1..MaxMountDepth} :
     /\ c[1].child = router
     /\ \A i \in 1..Len(c) - 1 : c[i].parent = c[i + 1].child
     /\ \A i, j \in DOMAIN c : i # j => c[i].child # c[j].child
     /\ LET last == c[Len(c)].parent IN last = NoParent \/ ~Mounted(last)}

\* The path a chain puts in front of a route.
PathOf(c) ==
  LET p[n \in 0..Len(c)] == IF n = 0 THEN <<>> ELSE c[n].prefix \o p[n - 1]
  IN p[Len(c)]

\* The prefixes of a route's router are those of the mount chains that reach
\* the application, whichever file was rewritten first and however mounts form
\* cycles or diamonds: no chain is invented, and none is missed unless a
\* router has more than MAX_COMPOSED_PREFIXES of them (router_mounts.rs, walk
\* and its cache).
PrefixesAreChains ==
  LET Paths(r) == {PathOf(c) : c \in Chains(r)}
      few == \A r \in Routers : Cardinality(Paths(r)) <= MaxComposedPrefixes
  IN \A r \in DOMAIN prefixes :
       /\ prefixes[r] \subseteq (IF Paths(r) = {} THEN {<<>>} ELSE Paths(r))
       /\ few => Paths(r) \subseteq prefixes[r]

\* Composition never loses a route: a router in a cycle, or mounted too deep,
\* still gives its routes one path (compose_router_mounts rewrites a route
\* once per prefix).
NoRouteLost == \A r \in DOMAIN prefixes : prefixes[r] # {}

(* The prefixes computed for a router are the composed paths of its mount
   chains, and no router is left without one. *)
MountsCompose ==
  /\ NoRouteLost
  /\ PrefixesAreChains

=============================================================================
