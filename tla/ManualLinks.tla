----------------------------- MODULE ManualLinks -----------------------------
(***************************************************************************)
(* How the manual links of a manifest are applied to the automatic edges   *)
(* of a scan (core/src/linker.rs).  The declarations are resolved in the   *)
(* order of the manifest, each end to the one node whose identity or       *)
(* stable key it names; they are then applied in the order of the resolved *)
(* relationship.  An error publishes nothing.                              *)
(*                                                                         *)
(* An edge is [source, target, kind, origin]: automatic edges of the same  *)
(* relationship differ in their origin (the extractor that found them),    *)
(* and a declared one has the origin "manual".                             *)
(***************************************************************************)
EXTENDS Integers, Sequences, FiniteSets

CONSTANTS
  GraphNodes,    \* nodes [id, key] of the assembled graph
  Declarations,  \* sequences of links [from, to, relation, suppress]
  AutomaticEdges \* sets of automatic edges

\* Identities and relations are numbers in the order of the texts they stand for.
ASSUME LinkAssumption ==
  /\ IsFiniteSet(GraphNodes) /\ \A n \in GraphNodes : n.id \in Nat
  /\ \A d \in Declarations :
       /\ d \in Seq({d[i] : i \in DOMAIN d})
       /\ \A i \in DOMAIN d : d[i].relation \in Nat /\ d[i].suppress \in BOOLEAN
  /\ \A found \in AutomaticEdges : \A e \in found : e.origin # "manual"

VARIABLES
  links,       \* the declarations of the manifest
  automatic,   \* the edges the extractors produced
  resolved,    \* the declarations resolved so far
  unapplied,   \* resolved declarations not yet applied
  edges,       \* the edges after the declarations applied so far
  linking      \* "resolve", "apply", "done" or the error

linkVars == <<links, automatic, resolved, unapplied, edges, linking>>

-----------------------------------------------------------------------------
\* validate_manual_links: no declaration repeats another's text or names one
\* end twice.
validate_manual_links ==
  /\ \A i \in DOMAIN links : links[i].from # links[i].to
  /\ \A i, j \in DOMAIN links :
       i # j => \/ links[i].from # links[j].from
                \/ links[i].to # links[j].to
                \/ links[i].relation # links[j].relation

\* resolve_manual_endpoint: the nodes a text names.
Candidates(value) ==
  {n.id : n \in {m \in GraphNodes : m.id = value \/ m.key = value}}

\* The relationship a resolved declaration or an edge is about.
Relationship(x) == <<x.source, x.target, x.kind>>

\* A second declaration of the same resolved relationship.
Repeated(link) == \E r \in resolved : Relationship(r) = Relationship(link)

LinkStart ==
  /\ resolved = {}
  /\ unapplied = {}
  /\ edges = automatic
  /\ linking = "resolve"

LinkInit == links \in Declarations /\ automatic \in AutomaticEdges /\ LinkStart

LinkError(error) ==
  /\ linking' = error
  /\ UNCHANGED <<links, automatic, resolved, unapplied, edges>>

InvalidManualLinks ==
  /\ linking = "resolve"
  /\ resolved = {}
  /\ ~validate_manual_links
  /\ LinkError("invalid")

\* The next declaration is resolved, source before target.
ResolveLink ==
  /\ linking = "resolve"
  /\ validate_manual_links
  /\ Cardinality(resolved) < Len(links)
  /\ LET link == links[Cardinality(resolved) + 1]
         source == Candidates(link.from)
         target == Candidates(link.to)
     IN IF Cardinality(source) # 1
        THEN LinkError(IF source = {} THEN "missing" ELSE "ambiguous")
        ELSE IF Cardinality(target) # 1
        THEN LinkError(IF target = {} THEN "missing" ELSE "ambiguous")
        ELSE IF source = target
        THEN LinkError("self")
        ELSE LET item == [source |-> CHOOSE n \in source : TRUE,
                          target |-> CHOOSE n \in target : TRUE,
                          kind |-> link.relation,
                          suppress |-> link.suppress,
                          index |-> Cardinality(resolved) + 1]
             IN IF Repeated(item)
                THEN LinkError("duplicate")
                ELSE /\ resolved' = resolved \cup {item}
                     /\ UNCHANGED <<links, automatic, unapplied, edges, linking>>

\* All declarations are resolved; they are sorted for application.
SortResolved ==
  /\ linking = "resolve"
  /\ validate_manual_links
  /\ Cardinality(resolved) = Len(links)
  /\ linking' = "apply"
  /\ unapplied' = resolved
  /\ UNCHANGED <<links, automatic, resolved, edges>>

\* The order of application: source, target, relation, then creations before
\* suppressions.
Sooner(a, b) ==
  \/ a.source < b.source
  \/ a.source = b.source /\ a.target < b.target
  \/ /\ a.source = b.source /\ a.target = b.target
     /\ a.kind < b.kind
  \/ /\ Relationship(a) = Relationship(b)
     /\ ~a.suppress /\ b.suppress

\* Mutant: only the edge of one extractor is replaced or suppressed.
FirstMatch(item) ==
  LET matching == {e \in edges : Relationship(e) = Relationship(item)}
  IN IF matching = {} THEN {} ELSE {CHOOSE e \in matching : TRUE}

\* edge_matches.
Matching(item) == {e \in edges : Relationship(e) = Relationship(item)}

\* The declaration that the order puts first.
NextLink == CHOOSE a \in unapplied : \A b \in unapplied \ {a} : ~Sooner(b, a)

manual_link_edge(item) ==
  [source |-> item.source, target |-> item.target, kind |-> item.kind, origin |-> "manual"]

\* The next resolved declaration is applied.
ApplyLink ==
  /\ linking = "apply"
  /\ unapplied # {}
  /\ LET item == NextLink
     IN IF item.suppress /\ Matching(item) = {}
        THEN LinkError("nothing_to_suppress")
        ELSE /\ edges' = (edges \ Matching(item))
                         \cup (IF item.suppress THEN {} ELSE {manual_link_edge(item)})
             /\ unapplied' = unapplied \ {item}
             /\ UNCHANGED <<links, automatic, resolved, linking>>

LinksApplied ==
  /\ linking = "apply"
  /\ unapplied = {}
  /\ linking' = "done"
  /\ UNCHANGED <<links, automatic, resolved, unapplied, edges>>

LinkNext ==
  \/ InvalidManualLinks
  \/ ResolveLink
  \/ SortResolved
  \/ ApplyLink
  \/ LinksApplied

LinkSpec == LinkInit /\ [][LinkNext]_linkVars

-----------------------------------------------------------------------------
\* What a declaration means by itself: the ends whose identity or key it names.
Means(link, e) ==
  /\ \E n \in GraphNodes : n.id = e.source /\ link.from \in {n.id, n.key}
  /\ \E n \in GraphNodes : n.id = e.target /\ link.to \in {n.id, n.key}
  /\ e.kind = link.relation

\* When the declarations are accepted, every automatic edge of a declared
\* relationship is gone, each declared relationship has exactly one edge and
\* it is the manual one, and no other edge has changed, whatever the order of
\* the declarations (linker.rs, resolve_manual_links: "the resulting edge is
\* backed only by explicit manual evidence"; "A suppression removes every
\* automatic edge with that exact triple").
DeclarationsDecide ==
  linking = "done" =>
    /\ \A e \in automatic :
         e \in edges <=> ~\E i \in DOMAIN links : Means(links[i], e)
    /\ \A i \in DOMAIN links :
         LET about == {e \in edges : Means(links[i], e)}
         IN IF links[i].suppress THEN about = {}
            ELSE /\ Cardinality(about) = 1
                 /\ \A e \in about : e.origin = "manual"

\* A suppression that is accepted removed something an extractor had found,
\* never an edge another declaration had just created (linker.rs:
\* "suppressions that match no automatic edge" are an error).
SuppressionsHadTargets ==
  linking = "done" =>
    \A i \in DOMAIN links :
      links[i].suppress => \E e \in automatic : Means(links[i], e)

(* After assembly the manifest's links have decided every edge they mean, and
   every suppression suppressed something. *)
DeclarationsHold ==
  /\ SuppressionsHadTargets
  /\ DeclarationsDecide

=============================================================================
