----------------------- MODULE WorkspaceServiceProofs -----------------------
(***************************************************************************)
(* What commands and requests on one workspace share, for any workspaces,  *)
(* working trees, editors, queries, requests and calls and all limits.     *)
(*                                                                         *)
(* Registry, ManifestEdit, QueryCache: what removing a workspace leaves of *)
(* the others, what becomes of an edit of the manifest that was reported   *)
(* applied, and what the query cache holds.                                *)
(*                                                                         *)
(* Serving: explore runs within its permits, leaves work behind only after *)
(* an early answer and calls a report complete only when every stage       *)
(* answered, because what a stage missed stays visible as a gap until the  *)
(* answer (ServingInv).                                                    *)
(*                                                                         *)
(* CodeGraphProvider: the counters tell what ran and a circuit is open for *)
(* exactly the cooldown, because the counter is the number of calls        *)
(* between enter and Drop and a circuit runs down as the calm grows        *)
(* (ProviderInv).                                                          *)
(***************************************************************************)
EXTENDS Registry, ManifestEdit, QueryCache, Serving, CodeGraphProvider, TLAPS

\* Zenon finds the steps that name no other prover.
USE Zenon

-----------------------------------------------------------------------------
(***************************************************************************)
(* The registry                                                            *)
(***************************************************************************)
\* What a workspace has published names only what it has: freshness and
\* capabilities always, artifacts after a scan of all its repositories.
RegistryRowsInv ==
  \A w \in Workspaces :
    /\ freshness[w] \subseteq members[w]
    /\ capabilities[w] \subseteq ReposOf(members[w])
    /\ complete[w] => artifacts[w] \subseteq members[w]

RegistryInv ==
  /\ RegistryTypeOK /\ RegistryRowsInv
  /\ scanner \in [Scanners -> ScanRecords \cup {NoScan}]
  /\ members \in [Workspaces -> SUBSET Checkouts]
  /\ artifacts \in [Workspaces -> SUBSET Checkouts]
  /\ freshness \in [Workspaces -> SUBSET Checkouts]
  /\ capabilities \in [Workspaces -> SUBSET Repos]

\* The repositories of working trees.
LEMMA ReposOfFacts ==
  ASSUME NEW A \in SUBSET Checkouts
  PROVE  /\ ReposOf(A) \subseteq Repos
         /\ \A c \in A : RepoOf[c] \in ReposOf(A)
         /\ \A r \in ReposOf(A) : \E c \in A : r = RepoOf[c]
         /\ A # {} => ReposOf(A) # {}
BY RegistryAssumption DEF ReposOf

LEMMA InitRegistry == RegistryInit => RegistryInv
BY SMTT(30) DEF RegistryInit, RegistryInv, RegistryTypeOK, RegistryRowsInv, ReposOf, NoRemoval

\* Registering the manifest of a workspace.
LEMMA UpsertFacts ==
  ASSUME RegistryInv, NEW w \in Workspaces, NEW record \in Manifests,
         UpsertRegistry(w, record)
  PROVE  /\ workspaces' = workspaces \cup {w} /\ workspaces' \subseteq Workspaces
         /\ checkouts' = checkouts \cup record /\ checkouts' \subseteq Checkouts
         /\ repositories' = repositories \cup ReposOf(record)
         /\ repositories' \subseteq Repos
         /\ ReposOf(checkouts') \subseteq repositories'
         /\ members' \in [Workspaces -> SUBSET Checkouts] /\ members'[w] = record
         /\ \A v \in Workspaces : v # w => members'[v] = members[v]
<1>1. record \in SUBSET Checkouts
  BY DEF Manifests
<1>2. ReposOf(record) \subseteq Repos
  BY <1>1, ReposOfFacts
<1>3. ReposOf(checkouts \cup record) \subseteq repositories \cup ReposOf(record)
  BY ZenonT(30) DEF RegistryInv, RegistryTypeOK, ReposOf
<1>. QED  BY <1>1, <1>2, <1>3 DEF RegistryInv, RegistryTypeOK, UpsertRegistry

LEMMA LoadKeepsRegistry ==
  ASSUME RegistryInv, NEW p \in Scanners, NEW w \in Workspaces, LoadContext(p, w)
  PROVE  RegistryInv'
<1>1. PICK record \in Manifests :
        \E selected \in (SUBSET Repos) \ {{}}, partial \in BOOLEAN :
          scanner' = [scanner EXCEPT ![p] =
            [workspace |-> w, record |-> record, selected |-> selected,
             partial |-> partial]]
  <2>1. PICK record \in Manifests :
          \/ scanner' = [scanner EXCEPT ![p] =
               [workspace |-> w, record |-> record,
                selected |-> ReposOf(record), partial |-> FALSE]]
          \/ \E r \in ReposOf(record) :
               scanner' = [scanner EXCEPT ![p] =
                 [workspace |-> w, record |-> record,
                  selected |-> {r}, partial |-> TRUE]]
    BY DEF LoadContext
  <2>2. ReposOf(record) \in (SUBSET Repos) \ {{}} /\ \A r \in ReposOf(record) : {r} \in (SUBSET Repos) \ {{}}
    BY SMTT(30), ReposOfFacts DEF Manifests
  <2>. QED  BY <2>1, <2>2
<1>2. scanner' \in [Scanners -> ScanRecords \cup {NoScan}]
  BY SMTT(30), <1>1 DEF RegistryInv, ScanRecords
<1>3. /\ UNCHANGED <<workspaces, members, checkouts, repositories, artifacts,
                     freshness, capabilities, complete, lastRemoval>>
  BY DEF LoadContext, registryRows
<1>. QED  BY <1>2, <1>3 DEF RegistryInv, RegistryTypeOK, RegistryRowsInv, ReposOf

LEMMA EndKeepsRegistry ==
  ASSUME RegistryInv, NEW p \in Scanners, EndScan(p)
  PROVE  RegistryInv'
<1>1. scanner' \in [Scanners -> ScanRecords \cup {NoScan}]
  BY DEF EndScan, RegistryInv
<1>2. /\ UNCHANGED <<workspaces, members, checkouts, repositories, artifacts,
                     freshness, capabilities, complete, lastRemoval>>
  BY DEF EndScan, registryRows
<1>. QED  BY <1>1, <1>2 DEF RegistryInv, RegistryTypeOK, RegistryRowsInv, ReposOf

LEMMA PublishKeepsRegistry ==
  ASSUME RegistryInv, NEW p \in Scanners, PublishScan(p)
  PROVE  RegistryInv' /\ UNCHANGED lastRemoval
<1> DEFINE s == scanner[p]
           w == s.workspace
<1>1. s \in ScanRecords /\ w \in Workspaces /\ s.record \in Manifests
  BY DEF RegistryInv, PublishScan, ScanRecords
<1>2. /\ UpsertRegistry(w, s.record)
      /\ artifacts' = [artifacts EXCEPT ![w] =
           {c \in s.record : RepoOf[c] \in s.selected} \cup RetainedArtifacts(s)]
      /\ freshness' = [freshness EXCEPT ![w] = s.record]
      /\ complete' = [complete EXCEPT ![w] = ~s.partial]
      /\ scanner' = [scanner EXCEPT ![p] = NoScan]
      /\ lastRemoval' = lastRemoval
  BY DEF PublishScan
<1>3. PICK probed \in SUBSET (ReposOf(s.record) \cap s.selected) :
        capabilities' = [capabilities EXCEPT ![w] =
                           RetainedCapabilities(w, s.record) \cup probed]
  BY DEF PublishScan
<1>4. s.partial \in BOOLEAN /\ s.record \in SUBSET Checkouts
  BY <1>1 DEF ScanRecords, Manifests
<1>5. /\ artifacts'[w] \subseteq checkouts \cup s.record
      /\ ~s.partial => artifacts'[w] \subseteq s.record
      /\ capabilities'[w] \subseteq ReposOf(s.record)
  BY ZenonT(30), <1>1, <1>2, <1>3, <1>4 DEF RegistryInv, RegistryTypeOK, RetainedArtifacts, RetainedCapabilities
<1> HIDE DEF s, w
<1>6. /\ workspaces' = workspaces \cup {w} /\ workspaces' \subseteq Workspaces
      /\ checkouts' = checkouts \cup s.record /\ checkouts' \subseteq Checkouts
      /\ repositories' = repositories \cup ReposOf(s.record)
      /\ repositories' \subseteq Repos
      /\ ReposOf(checkouts') \subseteq repositories'
      /\ members' \in [Workspaces -> SUBSET Checkouts] /\ members'[w] = s.record
      /\ \A v \in Workspaces : v # w => members'[v] = members[v]
  BY <1>1, <1>2, UpsertFacts
<1>7. /\ \A v \in Workspaces : v # w => artifacts'[v] = artifacts[v] /\ freshness'[v] = freshness[v]
                                        /\ capabilities'[v] = capabilities[v] /\ complete'[v] = complete[v]
      /\ freshness'[w] = s.record /\ complete'[w] = ~s.partial
  BY ZenonT(30), <1>1, <1>2, <1>3 DEF RegistryInv, RegistryTypeOK
<1>8. /\ artifacts' \in [Workspaces -> SUBSET Checkouts]
      /\ freshness' \in [Workspaces -> SUBSET Checkouts]
      /\ capabilities' \in [Workspaces -> SUBSET Repos]
      /\ complete' \in [Workspaces -> BOOLEAN]
      /\ scanner' \in [Scanners -> ScanRecords \cup {NoScan}]
  BY ZenonT(30), <1>1, <1>2, <1>3, <1>4, <1>5, <1>6, <1>7 DEF RegistryInv, RegistryTypeOK
<1>9. RegistryTypeOK'
  BY ZenonT(60), <1>1, <1>2, <1>4, <1>5, <1>6, <1>7, <1>8 DEF RegistryInv, RegistryTypeOK
<1>10. RegistryRowsInv'
  BY <1>1, <1>4, <1>5, <1>6, <1>7 DEF RegistryInv, RegistryRowsInv, ReposOf
<1>. QED  BY <1>2, <1>6, <1>8, <1>9, <1>10 DEF RegistryInv


LEMMA AddKeepsRegistry ==
  ASSUME RegistryInv, NEW w \in Workspaces, AddWorkspace(w)
  PROVE  RegistryInv' /\ UNCHANGED lastRemoval
<1>1. PICK record \in Manifests : UpsertRegistry(w, record)
  BY DEF AddWorkspace
<1>2. /\ w \notin workspaces
      /\ UNCHANGED <<scanner, artifacts, freshness, capabilities, complete, lastRemoval>>
  BY DEF AddWorkspace
<1>3. /\ workspaces' = workspaces \cup {w} /\ workspaces' \subseteq Workspaces
      /\ checkouts' = checkouts \cup record /\ checkouts' \subseteq Checkouts
      /\ repositories' = repositories \cup ReposOf(record)
      /\ repositories' \subseteq Repos
      /\ ReposOf(checkouts') \subseteq repositories'
      /\ members' \in [Workspaces -> SUBSET Checkouts] /\ members'[w] = record
      /\ \A v \in Workspaces : v # w => members'[v] = members[v]
  BY <1>1, UpsertFacts
<1>4. /\ artifacts[w] = {} /\ freshness[w] = {} /\ capabilities[w] = {}
  BY <1>2 DEF RegistryInv, RegistryTypeOK
<1>5. RegistryTypeOK'
  BY ZenonT(30), <1>2, <1>3, <1>4 DEF RegistryInv, RegistryTypeOK
<1>6. RegistryRowsInv'
  BY <1>2, <1>3, <1>4 DEF RegistryInv, RegistryRowsInv, ReposOf
<1>. QED  BY <1>2, <1>3, <1>5, <1>6 DEF RegistryInv

\* A removal that the foreign keys allow.
RemovalDone(w) ==
  /\ workspaces' = Others(w)
  /\ members' = [members EXCEPT ![w] = {}]
  /\ artifacts' = [artifacts EXCEPT ![w] = {}]
  /\ freshness' = [freshness EXCEPT ![w] = {}]
  /\ checkouts' = checkouts \ UnusedCheckouts(w)
  /\ repositories' = repositories \ UnusedRepositories(w)
  /\ capabilities' = [v \in Workspaces |->
       IF v = w THEN {} ELSE capabilities[v] \ UnusedRepositories(w)]
  /\ complete' = [complete EXCEPT ![w] = TRUE]

\* What a removal leaves: the rows of the others as they were, and of the shared
\* rows exactly those the others have.
LEMMA RemovalFacts ==
  ASSUME RegistryInv, NEW w \in Workspaces, RemovalDone(w)
  PROVE  /\ \A v \in Workspaces : v # w =>
              /\ members'[v] = members[v] /\ artifacts'[v] = artifacts[v]
              /\ freshness'[v] = freshness[v] /\ capabilities'[v] = capabilities[v]
              /\ complete'[v] = complete[v]
         /\ members'[w] = {} /\ artifacts'[w] = {} /\ freshness'[w] = {}
         /\ capabilities'[w] = {} /\ complete'[w] = TRUE
         /\ workspaces' = workspaces \ {w}
         /\ \A v \in Workspaces : members'[v] \subseteq checkouts'
         /\ \A c \in checkouts' : \E v \in workspaces' : c \in members'[v]
         /\ repositories' = ReposOf(checkouts')
<1>0. /\ RegistryTypeOK /\ RegistryRowsInv
      /\ members \in [Workspaces -> SUBSET Checkouts]
      /\ artifacts \in [Workspaces -> SUBSET Checkouts]
      /\ freshness \in [Workspaces -> SUBSET Checkouts]
      /\ capabilities \in [Workspaces -> SUBSET Repos]
  BY DEF RegistryInv
<1>1. /\ members'[w] = {} /\ artifacts'[w] = {} /\ freshness'[w] = {}
      /\ capabilities'[w] = {} /\ complete'[w] = TRUE /\ workspaces' = workspaces \ {w}
  BY <1>0 DEF RemovalDone, RegistryTypeOK, Others
<1>2. ASSUME NEW v \in Workspaces, v # w
      PROVE  /\ members'[v] = members[v] /\ artifacts'[v] = artifacts[v]
             /\ freshness'[v] = freshness[v] /\ complete'[v] = complete[v]
             /\ capabilities'[v] = capabilities[v] \ UnusedRepositories(w)
  BY <1>0, <1>2 DEF RemovalDone, RegistryTypeOK
<1>3. ASSUME NEW v \in Workspaces, v # w
      PROVE  /\ capabilities[v] \cap UnusedRepositories(w) = {}
             /\ members[v] \subseteq checkouts \ UnusedCheckouts(w)
  <2>1. CASE v \notin workspaces
    BY <1>0, <2>1 DEF RegistryTypeOK
  <2>2. CASE v \in workspaces
    <3>1. v \in Others(w)
      BY <1>3, <2>2 DEF Others
    <3>2. members[v] \subseteq UNION {members[u] : u \in Others(w)}
      BY <3>1
    <3>3. ReposOf(members[v]) \subseteq ReposOf(UNION {members[u] : u \in Others(w)})
      BY <3>2 DEF ReposOf
    <3>4. members[v] \subseteq checkouts /\ capabilities[v] \subseteq ReposOf(members[v])
      BY <1>0 DEF RegistryTypeOK, RegistryRowsInv
    <3>. QED  BY <3>2, <3>3, <3>4 DEF UnusedCheckouts, UnusedRepositories
  <2>. QED  BY <2>1, <2>2
<1>4. \A v \in Workspaces : members'[v] \subseteq checkouts'
  BY <1>1, <1>2, <1>3 DEF RemovalDone
<1>5. ASSUME NEW c \in checkouts'
      PROVE  \E v \in workspaces' : c \in members'[v]
  <2>1. c \in UNION {members[u] : u \in Others(w)}
    BY <1>5 DEF RemovalDone, UnusedCheckouts
  <2>2. PICK v \in Others(w) : c \in members[v]
    BY <2>1
  <2>3. v \in Workspaces /\ v # w
    BY <1>0 DEF Others, RegistryTypeOK
  <2>. QED  BY <1>2, <2>2, <2>3 DEF RemovalDone
<1>6. repositories' = ReposOf(checkouts')
  <2>1. checkouts' = checkouts \cap UNION {members[u] : u \in Others(w)}
    BY DEF RemovalDone, UnusedCheckouts
  <2>2. UNION {members[u] : u \in Others(w)} \subseteq checkouts
    BY SMTT(30), <1>0 DEF Others, RegistryTypeOK
  <2>3. checkouts' = UNION {members[u] : u \in Others(w)}
    BY <2>1, <2>2
  <2>4. ReposOf(checkouts') \subseteq repositories
    BY ZenonT(30), <1>0, <2>1 DEF RegistryTypeOK, ReposOf
  <2>5. repositories' = repositories \cap ReposOf(checkouts')
    BY <2>3 DEF RemovalDone, UnusedRepositories
  <2>. QED  BY <2>4, <2>5
<1>. QED  BY ZenonT(60), <1>1, <1>2, <1>3, <1>4, <1>5, <1>6

LEMMA RemoveKeepsRegistry ==
  ASSUME RegistryInv, NEW w \in Workspaces, RemoveWorkspace(w)
  PROVE  RegistryInv'
<1>0. RegistryTypeOK /\ RegistryRowsInv
  BY DEF RegistryInv
<1>1. CASE UnusedCheckouts(w) \cap Referenced(w) # {}
  <2>1. /\ lastRemoval' = [workspace |-> w, ok |-> FALSE]
        /\ UNCHANGED <<scanner, workspaces, members, checkouts, repositories, artifacts,
                       freshness, capabilities, complete>>
    BY <1>1 DEF RemoveWorkspace, registryRows
  <2>. QED  BY <2>1 DEF RegistryInv, RegistryTypeOK, RegistryRowsInv, ReposOf
<1>2. CASE UnusedCheckouts(w) \cap Referenced(w) = {}
  <2>1. /\ RemovalDone(w) /\ lastRemoval' = [workspace |-> w, ok |-> TRUE]
        /\ scanner' = scanner
    BY <1>2 DEF RemoveWorkspace, RemovalDone
  <2>2. /\ \A v \in Workspaces : v # w =>
             /\ members'[v] = members[v] /\ artifacts'[v] = artifacts[v]
             /\ freshness'[v] = freshness[v] /\ capabilities'[v] = capabilities[v]
             /\ complete'[v] = complete[v]
        /\ members'[w] = {} /\ artifacts'[w] = {} /\ freshness'[w] = {}
        /\ capabilities'[w] = {} /\ complete'[w] = TRUE
        /\ workspaces' = workspaces \ {w}
        /\ \A v \in Workspaces : members'[v] \subseteq checkouts'
        /\ repositories' = ReposOf(checkouts')
    BY <2>1, RemovalFacts
  <2>3. /\ members' \in [Workspaces -> SUBSET Checkouts]
        /\ artifacts' \in [Workspaces -> SUBSET Checkouts]
        /\ freshness' \in [Workspaces -> SUBSET Checkouts]
        /\ capabilities' \in [Workspaces -> SUBSET Repos]
        /\ complete' \in [Workspaces -> BOOLEAN]
    BY <1>0, <2>1 DEF RegistryInv, RegistryTypeOK, RemovalDone
  <2>4. ASSUME NEW v \in Workspaces
        PROVE  artifacts'[v] \cup freshness'[v] \subseteq checkouts'
    <3>1. CASE v = w
      BY <2>2, <3>1
    <3>2. CASE v # w /\ v \in workspaces
      <4>1. artifacts[v] \cup freshness[v] \subseteq Referenced(w)
        BY <3>2 DEF Referenced, Others
      <4>2. artifacts[v] \cup freshness[v] \subseteq checkouts
        BY <1>0 DEF RegistryTypeOK
      <4>. QED  BY ZenonT(30), <1>2, <2>1, <2>2, <3>2, <4>1, <4>2 DEF RemovalDone
    <3>3. CASE v # w /\ v \notin workspaces
      <4>1. artifacts[v] = {} /\ freshness[v] = {}
        BY <1>0, <3>3 DEF RegistryTypeOK
      <4>2. artifacts'[v] = {} /\ freshness'[v] = {}
        BY <2>2, <3>3, <4>1
      <4>. QED  BY <4>2
    <3>. QED  BY <3>1, <3>2, <3>3
  <2>5. ASSUME NEW v \in Workspaces PROVE capabilities'[v] \subseteq repositories'
    BY <1>0, <2>1 DEF RemovalDone, RegistryTypeOK
  <2>6. RegistryTypeOK'
    <3>1. checkouts' \subseteq Checkouts /\ repositories' \subseteq Repos
          /\ workspaces' \subseteq Workspaces
      BY <1>0, <2>1, <2>2 DEF RegistryTypeOK, RemovalDone
    <3>2. ASSUME NEW v \in Workspaces, v \notin workspaces'
          PROVE  members'[v] \cup artifacts'[v] \cup freshness'[v] \cup capabilities'[v] = {}
      <4>1. CASE v = w
        BY <2>2, <4>1
      <4>2. CASE v # w
        <5>1. v \notin workspaces
          BY <2>2, <3>2, <4>2
        <5>. QED  BY <1>0, <2>2, <4>2, <5>1 DEF RegistryTypeOK
      <4>. QED  BY <4>1, <4>2
    <3>3. \A p \in Scanners : scanner'[p] \in ScanRecords \cup {NoScan}
      BY <1>0, <2>1 DEF RegistryTypeOK
    <3>4. lastRemoval' \in [workspace : Workspaces \cup {NoScan}, ok : BOOLEAN]
      BY <2>1
    <3>. QED  BY <2>2, <2>3, <2>4, <2>5, <3>1, <3>2, <3>3, <3>4 DEF RegistryTypeOK
  <2>7. RegistryRowsInv'
    <3> SUFFICES ASSUME NEW v \in Workspaces
                 PROVE  /\ freshness'[v] \subseteq members'[v]
                        /\ capabilities'[v] \subseteq ReposOf(members'[v])
                        /\ complete'[v] => artifacts'[v] \subseteq members'[v]
        BY DEF RegistryRowsInv, ReposOf
    <3>1. CASE v = w
      BY <2>2, <3>1
    <3>2. CASE v # w
      BY <1>0, <2>2, <3>2 DEF RegistryRowsInv
    <3>. QED  BY <3>1, <3>2
  <2>. QED  BY <2>1, <2>3, <2>6, <2>7 DEF RegistryInv
<1>. QED  BY <1>1, <1>2

LEMMA NextRegistry == RegistryInv /\ [RegistryNext]_registryVars => RegistryInv'
<1> SUFFICES ASSUME RegistryInv, [RegistryNext]_registryVars PROVE RegistryInv'
    OBVIOUS
<1>1. CASE UNCHANGED registryVars
  BY <1>1 DEF registryVars, registryRows, RegistryInv, RegistryTypeOK, RegistryRowsInv,
       ReposOf
<1>2. CASE RegistryNext
  BY <1>2, AddKeepsRegistry, RemoveKeepsRegistry, LoadKeepsRegistry, EndKeepsRegistry,
     PublishKeepsRegistry DEF RegistryNext
<1>. QED  BY <1>1, <1>2

\* Only removals are recorded as the last removal, and only they forget workspaces.
LEMMA RemovalsOnly ==
  ASSUME RegistryInv, RegistryNext,
         \/ lastRemoval' # lastRemoval
         \/ workspaces' \subseteq workspaces /\ workspaces' # workspaces
  PROVE  \E w \in Workspaces : RemoveWorkspace(w)
<1>1. ASSUME NEW w \in Workspaces, AddWorkspace(w)
      PROVE  lastRemoval' = lastRemoval /\ workspaces \subseteq workspaces'
  BY <1>1 DEF AddWorkspace, UpsertRegistry
<1>2. ASSUME NEW p \in Scanners, PublishScan(p)
      PROVE  lastRemoval' = lastRemoval /\ workspaces \subseteq workspaces'
  BY <1>2 DEF PublishScan, UpsertRegistry
<1>3. ASSUME NEW p \in Scanners, EndScan(p) \/ \E w \in Workspaces : LoadContext(p, w)
      PROVE  lastRemoval' = lastRemoval /\ workspaces' = workspaces
  BY <1>3 DEF EndScan, LoadContext, registryRows
<1>. QED  BY <1>1, <1>2, <1>3 DEF RegistryNext

\* remove_workspace leaves every other workspace's rows alone, the cascade to the
\* provider capabilities included; it is refused only while some other workspace's
\* last scan was partial; and it collects every row no workspace has any more.
THEOREM RemovalsAreClean == RegistrySpec => RemovalIsClean
<1>1. RegistryInv => RegistryTypeOK
  BY DEF RegistryInv
<1>2. RegistryInv /\ [RegistryNext]_registryVars =>
        [lastRemoval' # lastRemoval =>
           \A w \in Workspaces \ {lastRemoval'.workspace} :
             RowsOf(w)' = RowsOf(w)]_registryVars
  <2> SUFFICES ASSUME RegistryInv, RegistryNext, lastRemoval' # lastRemoval,
                      NEW v \in Workspaces \ {lastRemoval'.workspace}
               PROVE  RowsOf(v)' = RowsOf(v)
      BY DEF registryVars
  <2>1. PICK w \in Workspaces : RemoveWorkspace(w)
    BY RemovalsOnly
  <2>2. CASE UnusedCheckouts(w) \cap Referenced(w) # {}
    BY <2>1, <2>2 DEF RemoveWorkspace, registryRows, RowsOf
  <2>3. CASE UnusedCheckouts(w) \cap Referenced(w) = {}
    <3>1. RemovalDone(w) /\ lastRemoval'.workspace = w
      BY SMTT(30), <2>1, <2>3 DEF RemoveWorkspace, RemovalDone
    <3>2. /\ members'[v] = members[v] /\ artifacts'[v] = artifacts[v]
          /\ freshness'[v] = freshness[v] /\ capabilities'[v] = capabilities[v]
          /\ workspaces' = workspaces \ {w} /\ v # w
      BY ZenonT(60), <3>1, RemovalFacts
    <3>3. (v \in workspaces') = (v \in workspaces)
      BY SMTT(30), <3>2
    <3>. QED  BY <3>2, <3>3 DEF RowsOf
  <2>. QED  BY <2>2, <2>3
<1>3. RegistryInv /\ [RegistryNext]_registryVars =>
        [lastRemoval' # lastRemoval /\ ~lastRemoval'.ok =>
           \E w \in workspaces \ {lastRemoval'.workspace} : ~complete[w]]_registryVars
  <2> SUFFICES ASSUME RegistryInv, RegistryNext, lastRemoval' # lastRemoval,
                      ~lastRemoval'.ok
               PROVE  \E w \in workspaces \ {lastRemoval'.workspace} : ~complete[w]
      BY DEF registryVars
  <2>1. PICK w \in Workspaces : RemoveWorkspace(w)
    BY RemovalsOnly
  <2>2. UnusedCheckouts(w) \cap Referenced(w) # {} /\ lastRemoval'.workspace = w
    BY SMTT(30), <2>1 DEF RemoveWorkspace
  <2>3. PICK c \in UnusedCheckouts(w) : c \in Referenced(w)
    BY <2>2
  <2>4. PICK v \in Others(w) : c \in artifacts[v] \cup freshness[v]
    BY <2>3 DEF Referenced
  <2>5. v \in workspaces /\ v # w /\ v \in Workspaces /\ c \notin members[v]
    BY <2>3, <2>4 DEF RegistryInv, RegistryTypeOK, UnusedCheckouts, Others
  <2>6. ~complete[v]
    BY <2>4, <2>5 DEF RegistryInv, RegistryRowsInv
  <2>. QED  BY <2>2, <2>5, <2>6
<1>4. RegistryInv /\ [RegistryNext]_registryVars =>
        [workspaces' \subseteq workspaces /\ workspaces' # workspaces =>
           /\ checkouts' = UNION {members'[w] : w \in Workspaces}
           /\ repositories' = ReposOf(checkouts')]_registryVars
  <2> SUFFICES ASSUME RegistryInv, RegistryNext, workspaces' \subseteq workspaces,
                      workspaces' # workspaces
               PROVE  /\ checkouts' = UNION {members'[w] : w \in Workspaces}
                      /\ repositories' = ReposOf(checkouts')
      BY DEF registryVars
  <2>1. PICK w \in Workspaces : RemoveWorkspace(w)
    BY RemovalsOnly
  <2>2. RemovalDone(w)
    BY <2>1 DEF RemoveWorkspace, RemovalDone, registryRows
  <2>3. /\ workspaces' = workspaces \ {w}
        /\ \A v \in Workspaces : members'[v] \subseteq checkouts'
        /\ \A c \in checkouts' : \E v \in workspaces' : c \in members'[v]
        /\ repositories' = ReposOf(checkouts')
    BY <2>2, RemovalFacts
  <2>4. workspaces \subseteq Workspaces
    BY DEF RegistryInv, RegistryTypeOK
  <2>. QED  BY <2>3, <2>4
<1>. QED  BY <1>1, <1>2, <1>3, <1>4, InitRegistry, NextRegistry, PTL
          DEF RegistrySpec, RemovalIsClean, RemovalIsLocal, RemovalIsPossible, RemovalCollects


-----------------------------------------------------------------------------
(***************************************************************************)
(* Edits of the manifest                                                   *)
(***************************************************************************)
Comparing == {"compare", "name", "copy", "replace"}

\* An administrative edit holds the writer lock from its preview to its end.
LockInv ==
  \A p \in Admins :
    editor[p].step \in Comparing \cup {"read"} => writerLock = p

\* What an edit will write is what it previewed with its entry in or out.
PreviewInv ==
  \A p \in Editors : editor[p].step \in Comparing =>
    /\ editor[p].base \in Contents
    /\ editor[p].updated \in {editor[p].base \cup {EntryOf[p]},
                              editor[p].base \ {EntryOf[p]}}

\* Unless raced, what was compared is still there.
ComparedInv ==
  ~raced => \A p \in Editors :
    editor[p].step \in {"name", "copy", "replace"} => file = editor[p].base

EditInv ==
  /\ EditTypeOK /\ LockInv /\ PreviewInv /\ ComparedInv
  /\ AppliedKeptUnlessRaced /\ OverwrittenIsSaved

LEMMA InitEdit == EditInit => EditInv
<1> SUFFICES ASSUME EditInit PROVE EditInv
    OBVIOUS
<1>1. NoEdit \in Edits /\ NoEdit.step = "start"
  BY SMTT(30), ManifestEditAssumption DEF NoEdit, Edits
<1>2. \A p \in Editors : editor[p] = NoEdit
  BY DEF EditInit
<1>3. EditTypeOK
  BY <1>1, <1>2 DEF EditInit, EditTypeOK, Contents
<1>. QED  BY <1>1, <1>2, <1>3, ManifestEditAssumption
          DEF EditInit, EditInv, LockInv, PreviewInv, ComparedInv, Comparing,
              AppliedKeptUnlessRaced, OverwrittenIsSaved

LEMMA EditorType ==
  ASSUME EditInv, NEW p \in Editors
  PROVE  /\ editor[p] \in Edits /\ editor \in [Editors -> Edits]
         /\ editor[p].backup \in 0 .. MaxBackups
         /\ editor[p].step \in {"copy", "replace"} => editor[p].backup \in 1 .. MaxBackups
         /\ editor[p].step \in Comparing => editor[p].base \in Contents
                                            /\ editor[p].updated \in Contents
<1>1. editor[p] \in Edits /\ editor \in [Editors -> Edits]
  BY DEF EditInv, EditTypeOK
<1>2. editor[p].step \in Comparing => editor[p].base \in Contents
                                      /\ editor[p].updated \in Contents
  BY SMTT(30), ManifestEditAssumption DEF EditInv, PreviewInv, Contents
<1>. QED  BY <1>1, <1>2 DEF EditInv, EditTypeOK, Edits

\* A step of one editor that leaves the manifest and the backups alone.
LEMMA EditorKeeps ==
  ASSUME EditInv, NEW p \in Editors, NEW STATE e, e \in Edits, Become(p, e),
         UNCHANGED <<file, backups, applied, raced>>,
         e.step \in {"copy", "replace"} => e.backup \in 1 .. MaxBackups,
         writerLock' \in Admins \cup {Unwritten},
         \A q \in Admins \ {p} : writerLock = q => writerLock' = q,
         p \in Admins /\ e.step \in Comparing \cup {"read"} => writerLock' = p,
         e.step \in Comparing =>
           /\ e.base \in Contents
           /\ e.updated \in {e.base \cup {EntryOf[p]}, e.base \ {EntryOf[p]}},
         ~raced /\ e.step \in {"name", "copy", "replace"} => file = e.base,
         ~raced /\ e.step = "replace" => backups[e.backup] = file
  PROVE  EditInv'
<1>1. /\ editor' \in [Editors -> Edits] /\ editor'[p] = e
      /\ \A q \in Editors : q # p => editor'[q] = editor[q]
  BY DEF EditInv, EditTypeOK, Become
<1>2. EditTypeOK'
  BY <1>1 DEF EditInv, EditTypeOK
<1>3. LockInv'
  <2> SUFFICES ASSUME NEW q \in Admins, editor'[q].step \in Comparing \cup {"read"}
               PROVE  writerLock' = q
      BY DEF LockInv
  <2>1. q \in Editors
    BY ManifestEditAssumption
  <2>2. CASE q = p
    BY <1>1, <2>2
  <2>3. CASE q # p
    BY <1>1, <2>1, <2>3 DEF EditInv, LockInv
  <2>. QED  BY <2>2, <2>3
<1>4. PreviewInv'
  BY <1>1 DEF EditInv, PreviewInv
<1>5. ComparedInv'
  BY <1>1 DEF EditInv, ComparedInv
<1>6. AppliedKeptUnlessRaced'
  BY DEF EditInv, AppliedKeptUnlessRaced
<1>7. OverwrittenIsSaved'
  <2> SUFFICES ASSUME ~raced, NEW q \in Editors, editor'[q].step = "replace"
               PROVE  file = editor'[q].base /\ backups[editor'[q].backup] = file
      BY DEF OverwrittenIsSaved
  <2>1. CASE q = p
    BY <1>1, <2>1
  <2>2. CASE q # p
    BY ZenonT(30), <1>1, <2>2 DEF EditInv, OverwrittenIsSaved
  <2>. QED  BY <2>1, <2>2
<1>. QED  BY <1>2, <1>3, <1>4, <1>5, <1>6, <1>7 DEF EditInv

\* The end of an edit.
LEMMA FinishFacts ==
  ASSUME EditInv, NEW p \in Editors, NEW step \in {"refused", "applied"}, Finish(p, step)
  PROVE  LET e == [NoEdit EXCEPT !.step = step]
         IN  /\ e \in Edits /\ e.step = step /\ Become(p, e)
             /\ writerLock' \in Admins \cup {Unwritten}
             /\ \A q \in Admins \ {p} : writerLock = q => writerLock' = q
<1>1. [NoEdit EXCEPT !.step = step] \in Edits /\ [NoEdit EXCEPT !.step = step].step = step
  BY SMTT(30), ManifestEditAssumption DEF NoEdit, Edits
<1>. QED  BY <1>1 DEF Finish, EditInv, EditTypeOK

LEMMA RefusedKeeps ==
  ASSUME EditInv, NEW p \in Editors, Finish(p, "refused"),
         UNCHANGED <<file, backups, applied, raced>>
  PROVE  EditInv'
<1> DEFINE e == [NoEdit EXCEPT !.step = "refused"]
<1>1. /\ e \in Edits /\ e.step = "refused" /\ Become(p, e)
      /\ writerLock' \in Admins \cup {Unwritten}
      /\ \A q \in Admins \ {p} : writerLock = q => writerLock' = q
  BY FinishFacts
<1> HIDE DEF e
<1>. QED  BY <1>1, EditorKeeps DEF Comparing

LEMMA StartsKeep ==
  ASSUME EditInv, NEW p \in Editors, LockForEdit(p) \/ StartEdit(p)
  PROVE  EditInv'
<1> DEFINE e == [editor[p] EXCEPT !.step = "read"]
<1>1. e \in Edits /\ e.step = "read"
  BY EditorType DEF Edits
<1>2. Become(p, e) /\ UNCHANGED <<file, backups, applied, raced>>
  BY DEF LockForEdit, StartEdit
<1>3. /\ writerLock' \in Admins \cup {Unwritten}
      /\ \A q \in Admins \ {p} : writerLock = q => writerLock' = q
      /\ p \in Admins => writerLock' = p
  BY ManifestEditAssumption DEF LockForEdit, StartEdit, LockIsFree, EditInv, EditTypeOK
<1> HIDE DEF e
<1>. QED  BY <1>1, <1>2, <1>3, EditorKeeps DEF Comparing

LEMMA PreviewKeeps ==
  ASSUME EditInv, NEW p \in Editors, Preview(p)
  PROVE  EditInv'
<1>0. UNCHANGED <<file, backups, applied, raced>> /\ editor[p].step = "read"
  BY DEF Preview
<1>1. ASSUME NEW u, u \in {WithEntry(p), file \ {EntryOf[p]}}, writerLock' = writerLock,
             Become(p, [editor[p] EXCEPT !.step = "compare", !.base = file, !.updated = u])
      PROVE  EditInv'
  <2> DEFINE e == [editor[p] EXCEPT !.step = "compare", !.base = file, !.updated = u]
  <2>1. u \in Contents /\ file \in Contents
        /\ u \in {file \cup {EntryOf[p]}, file \ {EntryOf[p]}}
    BY <1>1, ManifestEditAssumption DEF EditInv, EditTypeOK, Contents, WithEntry
  <2>2. editor[p] \in Edits
    BY EditorType
  <2>3. e \in Edits
    BY <2>1, <2>2 DEF Edits
  <2>4. e.step = "compare" /\ e.base = file /\ e.updated = u
    BY <2>2 DEF Edits
  <2>5. Become(p, e)
    BY <1>1
  <2>6. /\ writerLock' \in Admins \cup {Unwritten}
        /\ p \in Admins => writerLock' = p
    BY <1>0, <1>1 DEF EditInv, EditTypeOK, LockInv
  <2> HIDE DEF e
  <2>. QED  BY <1>0, <1>1, <2>1, <2>3, <2>4, <2>5, <2>6, EditorKeeps
<1>2. CASE Finish(p, "refused")
  BY <1>0, <1>2, RefusedKeeps
<1>. QED  BY <1>1, <1>2 DEF Preview

LEMMA CompareKeeps ==
  ASSUME EditInv, NEW p \in Editors, Compare(p)
  PROVE  EditInv'
<1> DEFINE e == [editor[p] EXCEPT !.step = "name"]
<1>0. UNCHANGED <<file, backups, applied, raced>> /\ editor[p].step = "compare"
  BY DEF Compare
<1>1. CASE Unchanged(p)
  <2>1. editor[p] \in Edits
    BY EditorType
  <2>2. e \in Edits
    BY <2>1 DEF Edits
  <2>3. e.step = "name" /\ e.base = editor[p].base /\ e.updated = editor[p].updated
    BY <2>1 DEF Edits
  <2>4. Become(p, e) /\ writerLock' = writerLock /\ file = editor[p].base
    BY <1>1 DEF Compare, Unchanged
  <2>5. /\ writerLock' \in Admins \cup {Unwritten}
        /\ p \in Admins => writerLock' = p
        /\ e.base \in Contents
        /\ e.updated \in {e.base \cup {EntryOf[p]}, e.base \ {EntryOf[p]}}
    BY <1>0, <2>3, <2>4 DEF EditInv, EditTypeOK, LockInv, PreviewInv, Comparing
  <2> HIDE DEF e
  <2>. QED  BY <1>0, <2>2, <2>3, <2>4, <2>5, EditorKeeps
<1>2. CASE ~Unchanged(p)
  BY <1>0, <1>2, RefusedKeeps DEF Compare
<1>. QED  BY <1>1, <1>2

LEMMA NameKeeps ==
  ASSUME EditInv, NEW p \in Editors, NameBackup(p)
  PROVE  EditInv'
<1>0. UNCHANGED <<file, backups, applied, raced>> /\ editor[p].step = "name"
  BY DEF NameBackup
<1>1. ASSUME NEW n \in 1 .. MaxBackups, writerLock' = writerLock,
             Become(p, [editor[p] EXCEPT !.step = "copy", !.backup = n])
      PROVE  EditInv'
  <2> DEFINE e == [editor[p] EXCEPT !.step = "copy", !.backup = n]
  <2>1. editor[p] \in Edits /\ n \in 0 .. MaxBackups
    BY SMTT(30), EditorType, ManifestEditAssumption
  <2>2. e \in Edits
    BY <2>1 DEF Edits
  <2>3. e.step = "copy" /\ e.base = editor[p].base /\ e.updated = editor[p].updated
        /\ e.backup = n
    BY <2>1 DEF Edits
  <2>4. Become(p, e)
    BY <1>1
  <2>5. /\ writerLock' \in Admins \cup {Unwritten}
        /\ p \in Admins => writerLock' = p
        /\ e.base \in Contents
        /\ e.updated \in {e.base \cup {EntryOf[p]}, e.base \ {EntryOf[p]}}
        /\ ~raced => file = e.base
    BY <1>0, <1>1, <2>3 DEF EditInv, EditTypeOK, LockInv, PreviewInv, ComparedInv, Comparing
  <2> HIDE DEF e
  <2>. QED  BY <1>0, <1>1, <2>2, <2>3, <2>4, <2>5, EditorKeeps
<1>2. CASE Finish(p, "refused")
  BY <1>0, <1>2, RefusedKeeps
<1>. QED  BY <1>1, <1>2 DEF NameBackup


LEMMA CopyKeeps ==
  ASSUME EditInv, NEW p \in Editors, CopyBackup(p)
  PROVE  EditInv'
<1>0. UNCHANGED <<file, applied, raced>> /\ editor[p].step = "copy"
  BY DEF CopyBackup
<1>1. CASE CreatesNew(p)
  <2> DEFINE e == [editor[p] EXCEPT !.step = "replace"]
             n == editor[p].backup
  <2>1. editor[p] \in Edits /\ n \in 1 .. MaxBackups
    BY <1>0, EditorType
  <2>2. e \in Edits
    BY <2>1 DEF Edits
  <2>3. e.step = "replace" /\ e.base = editor[p].base /\ e.updated = editor[p].updated
        /\ e.backup = n
    BY <2>1 DEF Edits
  <2>4. Become(p, e) /\ writerLock' = writerLock /\ backups' = [backups EXCEPT ![n] = file]
    BY <1>1 DEF CopyBackup
  <2> HIDE DEF e, n
  <2>5. /\ editor' \in [Editors -> Edits] /\ editor'[p] = e
        /\ \A q \in Editors : q # p => editor'[q] = editor[q]
    BY <2>2, <2>4 DEF EditInv, EditTypeOK, Become
  <2>6. /\ backups' \in [1 .. MaxBackups -> Contents \cup {Unwritten}]
        /\ backups'[n] = file
        /\ \A k \in 1 .. MaxBackups : k # n => backups'[k] = backups[k]
    BY <2>1, <2>4 DEF EditInv, EditTypeOK
  <2>7. EditTypeOK'
    BY <1>0, <2>1, <2>3, <2>4, <2>5, <2>6 DEF EditInv, EditTypeOK
  <2>8. LockInv' /\ PreviewInv' /\ ComparedInv' /\ AppliedKeptUnlessRaced'
    <3>1. LockInv'
      BY <1>0, <2>3, <2>4, <2>5, ManifestEditAssumption DEF EditInv, LockInv, Comparing
    <3>2. PreviewInv'
      BY <1>0, <2>3, <2>5 DEF EditInv, PreviewInv, Comparing
    <3>3. ComparedInv'
      BY <1>0, <2>3, <2>5 DEF EditInv, ComparedInv
    <3>4. AppliedKeptUnlessRaced'
      BY <1>0 DEF EditInv, AppliedKeptUnlessRaced
    <3>. QED  BY <3>1, <3>2, <3>3, <3>4
  <2>9. OverwrittenIsSaved'
    <3> SUFFICES ASSUME ~raced, NEW q \in Editors, editor'[q].step = "replace"
                 PROVE  file = editor'[q].base /\ backups'[editor'[q].backup] = file
        BY <1>0 DEF OverwrittenIsSaved
    <3>1. CASE q = p
      BY <1>0, <2>3, <2>5, <2>6, <3>1 DEF EditInv, ComparedInv
    <3>2. CASE q # p
      <4>1. editor[q].step = "replace" /\ editor'[q] = editor[q]
        BY <2>5, <3>2
      <4>2. /\ file = editor[q].base /\ backups[editor[q].backup] = file
            /\ editor[q].backup \in 1 .. MaxBackups
        BY <4>1, EditorType DEF EditInv, OverwrittenIsSaved
      <4>. QED  BY <2>6, <4>1, <4>2
    <3>. QED  BY <3>1, <3>2
  <2>. QED  BY <2>7, <2>8, <2>9 DEF EditInv
<1>2. CASE ~CreatesNew(p)
  BY <1>0, <1>2, RefusedKeeps DEF CopyBackup
<1>. QED  BY <1>1, <1>2

\* An edit that is not raced replaces what it previewed, alone.
LEMMA ReplaceKeeps ==
  ASSUME EditInv, NEW p \in Editors, Replace(p)
  PROVE  EditInv'
<1> DEFINE e == [NoEdit EXCEPT !.step = "applied"]
<1>1. /\ e \in Edits /\ e.step = "applied" /\ Become(p, e)
      /\ writerLock' \in Admins \cup {Unwritten}
      /\ \A q \in Admins \ {p} : writerLock = q => writerLock' = q
  BY FinishFacts DEF Replace
<1> HIDE DEF e
<1>2. /\ editor[p].step = "replace" /\ file' = editor[p].updated /\ backups' = backups
      /\ applied' = (IF EntryOf[p] \in editor[p].updated
                     THEN applied \cup {EntryOf[p]} ELSE applied \ {EntryOf[p]})
      /\ raced' = (raced \/ \E q \in Committing(p) : {p, q} \ Admins # {})
  BY DEF Replace
<1>3. /\ editor' \in [Editors -> Edits] /\ editor'[p] = e
      /\ \A q \in Editors : q # p => editor'[q] = editor[q]
  BY <1>1 DEF EditInv, EditTypeOK, Become
<1>4. editor[p].updated \in Contents /\ editor[p].base \in Contents
  BY <1>2, EditorType DEF Comparing
<1>5. EditTypeOK'
  <2>1. applied' \subseteq Entries /\ raced' \in BOOLEAN
    BY <1>2, ManifestEditAssumption DEF EditInv, EditTypeOK
  <2>. QED  BY <1>1, <1>2, <1>3, <1>4, <2>1 DEF EditInv, EditTypeOK
<1>6. LockInv'
  BY <1>1, <1>3, ManifestEditAssumption DEF EditInv, LockInv, Comparing
<1>7. PreviewInv'
  BY <1>1, <1>3 DEF EditInv, PreviewInv, Comparing
<1>8. ASSUME ~raced', NEW q \in Editors PROVE editor'[q].step \notin {"name", "copy", "replace"}
  <2>1. CASE q = p
    BY <1>1, <1>3, <2>1
  <2>2. CASE q # p /\ editor[q].step \in {"name", "copy", "replace"}
    <3>1. q \in Committing(p)
      BY <2>2 DEF Committing
    <3>2. p \in Admins /\ q \in Admins
      BY <1>2, <1>8, <3>1
    <3>3. writerLock = p /\ writerLock = q
      BY <1>2, <2>2, <3>2 DEF EditInv, LockInv, Comparing
    <3>. QED  BY <2>2, <3>3
  <2>. QED  BY <1>3, <2>1, <2>2
<1>9. ComparedInv' /\ OverwrittenIsSaved'
  BY <1>8 DEF ComparedInv, OverwrittenIsSaved
<1>10. AppliedKeptUnlessRaced'
  <2> SUFFICES ASSUME ~raced' PROVE applied' \subseteq file'
      BY DEF AppliedKeptUnlessRaced
  <2>1. ~raced /\ applied \subseteq file /\ file = editor[p].base
    BY <1>2 DEF EditInv, AppliedKeptUnlessRaced, ComparedInv
  <2>2. editor[p].updated \in {editor[p].base \cup {EntryOf[p]},
                               editor[p].base \ {EntryOf[p]}}
    BY <1>2 DEF EditInv, PreviewInv, Comparing
  <2>. QED  BY <1>2, <2>1, <2>2
<1>. QED  BY <1>5, <1>6, <1>7, <1>9, <1>10 DEF EditInv

LEMMA AgainKeeps ==
  ASSUME EditInv, NEW p \in Editors, AgainEdit(p)
  PROVE  EditInv'
<1>1. NoEdit \in Edits /\ NoEdit.step = "start"
  BY SMTT(30), ManifestEditAssumption DEF NoEdit, Edits
<1>2. /\ Become(p, NoEdit) /\ UNCHANGED <<file, backups, applied, raced, writerLock>>
      /\ writerLock \in Admins \cup {Unwritten}
  BY DEF AgainEdit, EditInv, EditTypeOK
<1>. QED  BY <1>1, <1>2, EditorKeeps DEF Comparing

LEMMA PersonKeeps ==
  ASSUME EditInv, PersonSaves
  PROVE  EditInv'
<1>1. PICK content \in (SUBSET Entries) \ {file} : file' = content /\ applied' = applied \cap content
  BY DEF PersonSaves
<1>2. /\ raced' = (raced \/ Committing(Unwritten) # {})
      /\ UNCHANGED <<backups, editor, writerLock>>
  BY DEF PersonSaves
<1>3. EditTypeOK' /\ LockInv' /\ PreviewInv' /\ AppliedKeptUnlessRaced'
  <2>1. EditTypeOK'
    BY <1>1, <1>2 DEF EditInv, EditTypeOK, Contents
  <2>2. LockInv' /\ PreviewInv' /\ AppliedKeptUnlessRaced'
    BY <1>1, <1>2 DEF EditInv, LockInv, PreviewInv, AppliedKeptUnlessRaced
  <2>. QED  BY <2>1, <2>2
<1>4. ASSUME ~raced', NEW q \in Editors PROVE editor[q].step \notin {"name", "copy", "replace"}
  BY <1>2, <1>4, ManifestEditAssumption DEF Committing
<1>5. ComparedInv' /\ OverwrittenIsSaved'
  BY <1>2, <1>4 DEF ComparedInv, OverwrittenIsSaved
<1>. QED  BY <1>3, <1>5 DEF EditInv

LEMMA NextEdit == EditInv /\ [EditNext]_editVars => EditInv'
<1> SUFFICES ASSUME EditInv, [EditNext]_editVars PROVE EditInv'
    OBVIOUS
<1>1. CASE UNCHANGED editVars
  BY <1>1 DEF editVars, EditInv, EditTypeOK, LockInv, PreviewInv, ComparedInv,
       AppliedKeptUnlessRaced, OverwrittenIsSaved
<1>2. ASSUME NEW p \in Editors, Abandon(p) PROVE EditInv'
  BY <1>2, RefusedKeeps DEF Abandon
<1>3. CASE EditNext
  BY <1>2, <1>3, StartsKeep, PreviewKeeps, CompareKeeps, NameKeeps, CopyKeeps,
     ReplaceKeeps, AgainKeeps, PersonKeeps DEF EditNext
<1>. QED  BY <1>1, <1>3

\* commit_manifest_edit: an edit that was reported applied stays until somebody takes
\* it out, and what a commit overwrites is what was previewed and is in its backup,
\* unless a writer without the lock came between the comparison and the replacement of
\* another; and no backup is ever overwritten, race or not.
THEOREM EditsStay == EditSpec => EditsAreKept
<1>1. EditInv => EditTypeOK /\ AppliedKeptUnlessRaced /\ OverwrittenIsSaved
  BY DEF EditInv
<1>2. EditInv /\ [EditNext]_editVars =>
        [\A n \in 1 .. MaxBackups :
           backups[n] # Unwritten => backups'[n] = backups[n]]_editVars
  <2> SUFFICES ASSUME EditInv, EditNext, NEW n \in 1 .. MaxBackups,
                      backups[n] # Unwritten
               PROVE  backups'[n] = backups[n]
      BY DEF editVars
  <2>1. ASSUME NEW p \in Editors, CopyBackup(p) PROVE backups'[n] = backups[n]
    BY <2>1 DEF CopyBackup, CreatesNew, EditInv, EditTypeOK
  <2>2. ASSUME NEW p \in Editors,
               \/ LockForEdit(p) \/ StartEdit(p) \/ Preview(p) \/ Compare(p)
               \/ NameBackup(p) \/ Replace(p) \/ Abandon(p) \/ AgainEdit(p)
        PROVE  backups' = backups
    BY <2>2 DEF LockForEdit, StartEdit, Preview, Compare, NameBackup, Replace, Abandon,
         AgainEdit
  <2>3. CASE PersonSaves
    BY <2>3 DEF PersonSaves
  <2>. QED  BY <2>1, <2>2, <2>3 DEF EditNext
<1>. QED  BY <1>1, <1>2, InitEdit, NextEdit, PTL DEF EditSpec, EditsAreKept, BackupsKept

-----------------------------------------------------------------------------
(***************************************************************************)
(* The query cache                                                         *)
(***************************************************************************)
INSTANCE FiniteSetTheorems

CacheInv ==
  /\ CacheTypeOK /\ CacheFollowsSnapshot
  /\ querier \in [Queriers -> RowSet \cup {Nobody}]

LEMMA InitCache == CacheInit => CacheInv
<1> SUFFICES ASSUME CacheInit PROVE CacheInv
    OBVIOUS
<1>1. rows = {} /\ Cardinality(rows) <= MaxEntries
  BY SMTT(30), FS_EmptySet, QueryCacheAssumption DEF CacheInit
<1>. QED  BY SMTT(30), <1>1, QueryCacheAssumption
          DEF CacheInit, CacheInv, CacheTypeOK, CacheFollowsSnapshot

\* Rows that go leave a cache that is well formed.
LEMMA EmptiedCache ==
  ASSUME CacheInv, rows' = {}, snapshot' \in Snapshots \cup {Nobody},
         UNCHANGED <<querier, time>>
  PROVE  CacheInv'
<1>1. Cardinality(rows') <= MaxEntries
  BY SMTT(30), FS_EmptySet, QueryCacheAssumption
<1>. QED  BY <1>1 DEF CacheInv, CacheTypeOK, CacheFollowsSnapshot

\* An answer is stored under an identity that is still published.
LEMMA PutKeepsCache ==
  ASSUME CacheInv, NEW q \in Queriers, PutQueryCache(q)
  PROVE  CacheInv'
<1> DEFINE row == querier[q]
<1>1. /\ row \in RowSet /\ snapshot # Nobody /\ snapshot.id = row.key[1]
      /\ rows' \in Bounded(Upsert(row))
      /\ querier' = [querier EXCEPT ![q] = Nobody]
      /\ UNCHANGED <<snapshot, time>>
  BY DEF PutQueryCache, SnapshotExists, CacheInv
<1> HIDE DEF row
<1>2. rows' \subseteq {r \in rows : r.key # row.key} \cup {row}
  BY <1>1 DEF Bounded, Upsert
<1>3. Cardinality(rows') <= MaxEntries
  <2>1. Cardinality(rows') = IF Cardinality(Upsert(row)) <= MaxEntries
                             THEN Cardinality(Upsert(row)) ELSE MaxEntries
    BY <1>1 DEF Bounded
  <2>2. MaxEntries <= MaxEntries
    BY SMTT(30), QueryCacheAssumption
  <2>. QED  BY <2>1, <2>2
<1>4. \A r1, r2 \in rows' : r1.key = r2.key => r1 = r2
  BY <1>2 DEF CacheInv, CacheTypeOK
<1>5. \A r \in rows' : snapshot' # Nobody /\ r.key[1] = snapshot'.id
  BY <1>1, <1>2 DEF CacheInv, CacheFollowsSnapshot
<1>. QED  BY <1>1, <1>2, <1>3, <1>4, <1>5 DEF CacheInv, CacheTypeOK, CacheFollowsSnapshot

LEMMA NextCache == CacheInv /\ [CacheNext]_cacheVars => CacheInv'
<1> SUFFICES ASSUME CacheInv, [CacheNext]_cacheVars PROVE CacheInv'
    OBVIOUS
<1>1. ASSUME NEW s \in Snapshots, Publish(s) PROVE CacheInv'
  BY <1>1, EmptiedCache DEF Publish, RowsAfterPublication
<1>2. CASE RemoveCachedWorkspace
  BY <1>2, EmptiedCache DEF RemoveCachedWorkspace
<1>3. CASE CleanCache
  BY <1>3, EmptiedCache DEF CleanCache, CacheInv, CacheTypeOK
<1>4. ASSUME NEW q \in Queriers, NEW input \in Inputs, CacheMiss(q, input) PROVE CacheInv'
  <2>1. Row(snapshot, input, time) \in RowSet
    BY SMTT(30), <1>4 DEF CacheMiss, CacheInv, CacheTypeOK, RowSet
  <2>. QED  BY <1>4, <2>1 DEF CacheMiss, CacheInv, CacheTypeOK, CacheFollowsSnapshot
<1>5. ASSUME NEW q \in Queriers, NEW input \in Inputs, CacheHit(q, input) PROVE CacheInv'
  BY <1>5 DEF CacheHit, CacheInv, CacheTypeOK, CacheFollowsSnapshot
<1>6. ASSUME NEW q \in Queriers, SkipStore(q) PROVE CacheInv'
  BY <1>6 DEF SkipStore, CacheInv, CacheTypeOK, CacheFollowsSnapshot
<1>7. CASE CacheTick
  <2>1. time' \in 0 .. MaxTime
    BY SMTT(30), <1>7, QueryCacheAssumption DEF CacheTick, CacheInv, CacheTypeOK
  <2>2. UNCHANGED <<snapshot, rows, querier>>
    BY <1>7 DEF CacheTick
  <2>. QED  BY <2>1, <2>2 DEF CacheInv, CacheTypeOK, CacheFollowsSnapshot
<1>8. CASE UNCHANGED cacheVars
  BY <1>8 DEF cacheVars, CacheInv, CacheTypeOK, CacheFollowsSnapshot
<1>. QED  BY <1>1, <1>2, <1>3, <1>4, <1>5, <1>6, <1>7, <1>8, PutKeepsCache DEF CacheNext

\* However late an answer is stored, every row of the cache is about the snapshot
\* that is published (put_query_cache's test under the writer lock, and the first
\* statement of the publication).
THEOREM CacheIsOfSnapshot == CacheSpec => []CacheFollowsSnapshot
<1>1. CacheInv => CacheFollowsSnapshot
  BY DEF CacheInv
<1>. QED  BY <1>1, InitCache, NextCache, PTL DEF CacheSpec

\* The primary key and the trigger of the schema: one row for an identity and an
\* input, and never more rows than the bound.
THEOREM CacheIsBounded == CacheSpec => []CacheTypeOK
<1>1. CacheInv => CacheTypeOK
  BY DEF CacheInv
<1>. QED  BY <1>1, InitCache, NextCache, PTL DEF CacheSpec

-----------------------------------------------------------------------------
(***************************************************************************)
(* Requests                                                                *)
(***************************************************************************)
\* What is known of one request: a new one has no work, only explore loads
\* stages, nothing is answered before the end, and what a stage missed shows
\* as a gap until then.
RequestInv(r) ==
  /\ stage[r] = "new" => task[r] = "none" /\ ~missed[r]
  /\ stage[r] = "tool" => kind[r] = "tool"
  /\ stage[r] \in Blocking \cup {"provider"} => kind[r] # "tool"
  /\ stage[r] # "done" => answer[r] = "none"
  /\ stage[r] # "done" /\ missed[r] => gap[r]
  /\ task[r] = "working" /\ stage[r] = "done" =>
       answer[r] = "timeout" \/ (kind[r] # "tool" /\ answer[r] \in {"degraded", "error"})
  /\ answer[r] = "ok" /\ kind[r] # "tool" => ~missed[r]

\* The inductive invariant of the requests.
ServingInv ==
  /\ ServingTypeOK
  /\ ExploreWorkBounded
  /\ \A r \in Requests : RequestInv(r)

\* A step of the other requests.
OthersRest(r) ==
  \A q \in Requests \ {r} :
    /\ stage'[q] = stage[q] /\ task'[q] = task[q] /\ kind'[q] = kind[q]
    /\ gap'[q] = gap[q] /\ missed'[q] = missed[q] /\ answer'[q] = answer[q]

\* A step of one request that starts no explore task, or starts one while a
\* permit is free.
LEMMA RequestKeeps ==
  ASSUME ServingInv, NEW r \in Requests, ServingTypeOK', OthersRest(r), RequestInv(r)',
         \/ task'[r] = "working" /\ kind'[r] # "tool" =>
              task[r] = "working" /\ kind[r] # "tool"
         \/ Cardinality(HoldsExplorePermit) < ExplorePermits
  PROVE  ServingInv'
<1>1. \A q \in Requests : RequestInv(q)'
  BY SMTT(30) DEF ServingInv, RequestInv, OthersRest
<1>2. ExploreWorkBounded'
  <2>1. PICK before : before = HoldsExplorePermit
    OBVIOUS
  <2>2. PICK after : after = HoldsExplorePermit'
    OBVIOUS
  <2>3. IsFiniteSet(before) /\ IsFiniteSet(after)
    BY <2>1, <2>2, ServingAssumption, FS_Subset DEF HoldsExplorePermit
  <2>4. Cardinality(before) \in Nat /\ Cardinality(after) \in Nat /\ ExplorePermits \in Nat
    BY <2>3, FS_CardinalityType, ServingAssumption
  <2>5. after \subseteq before \cup {r}
    BY <2>1, <2>2 DEF HoldsExplorePermit, OthersRest
  <2>6. Cardinality(before) <= ExplorePermits
    BY <2>1 DEF ServingInv, ExploreWorkBounded, HoldsExplorePermit
  <2>7. Cardinality(after) <= ExplorePermits
    <3>1. CASE after \subseteq before
      <4>1. Cardinality(after) <= Cardinality(before)
        BY <2>3, <3>1, FS_Subset
      <4> QED
        BY SMTT(30), <2>4, <2>6, <4>1
    <3>2. CASE Cardinality(before) < ExplorePermits
      <4>1. /\ IsFiniteSet(before \cup {r})
            /\ Cardinality(before \cup {r}) <= Cardinality(before) + 1
            /\ Cardinality(before \cup {r}) \in Nat
        <5>1. /\ IsFiniteSet(before \cup {r})
              /\ Cardinality(before \cup {r}) =
                   IF r \in before THEN Cardinality(before) ELSE Cardinality(before) + 1
          BY <2>3, FS_AddElement
        <5> QED
          BY SMTT(30), <2>4, <5>1
      <4>2. Cardinality(after) <= Cardinality(before \cup {r})
        BY <2>5, <4>1, FS_Subset
      <4> QED
        BY SMTT(30), <2>4, <3>2, <4>1, <4>2
    <3> QED
      BY <2>1, <2>2, <2>5, <3>1, <3>2 DEF HoldsExplorePermit
  <2> QED
    BY <2>2, <2>7 DEF ExploreWorkBounded, HoldsExplorePermit
<1> QED
  BY <1>1, <1>2 DEF ServingInv

\* The end of a request.
LEMMA RespondFields ==
  ASSUME ServingTypeOK, NEW r \in Requests, NEW what \in Answers, Respond(r, what)
  PROVE  /\ stage' \in [Requests -> Stages] /\ stage'[r] = "done"
         /\ awaiting' \in [Requests -> {"nothing", "permit", "task"}]
         /\ answer' \in [Requests -> Answers] /\ answer'[r] = what
         /\ cancelled' \in [Requests -> BOOLEAN]
         /\ timeLeft' \in [Requests -> 0 .. RequestTimeout]
         /\ wallLeft' \in [Requests -> 0 .. wall]
         /\ gap' \in [Requests -> BOOLEAN]
         /\ \A q \in Requests \ {r} :
              stage'[q] = stage[q] /\ answer'[q] = answer[q] /\ gap'[q] = gap[q]
<1>1. RequestTimeout \in Nat /\ wall \in Nat
  BY ServingAssumption DEF ServingTypeOK
<1> QED
  BY SMTT(30), <1>1 DEF ServingTypeOK, Respond, Stages

\* The next stage of a request.
LEMMA MoveOnFields ==
  ASSUME ServingTypeOK, NEW r \in Requests, MoveOn(r),
         stage[r] \in {"registry", "freshness", "graph", "evidence", "provider"}
  PROVE  /\ stage' \in [Requests -> Stages]
         /\ stage'[r] \in Blocking \cup {"provider"} /\ stage'[r] # "new" /\ stage'[r] # "tool"
         /\ stage'[r] # "done"
         /\ awaiting' \in [Requests -> {"nothing", "permit", "task"}]
         /\ \A q \in Requests \ {r} : stage'[q] = stage[q]
<1>1. After(stage[r]) \in {"freshness", "graph", "evidence", "provider", "correlation"}
  BY DEF After
<1> QED
  BY <1>1 DEF ServingTypeOK, MoveOn, Stages, Blocking, Snapshot

\* request_guard turns a request away or admits it.
LEMMA AdmissionKeeps ==
  ASSUME ServingInv, NEW r \in Requests, TurnAway(r) \/ Admit(r)
  PROVE  ServingInv'
<1>1. ServingTypeOK /\ RequestInv(r) /\ stage[r] = "new"
  BY DEF ServingInv, TurnAway, Admit
<1>2. task[r] = "none" /\ ~missed[r] /\ answer[r] = "none" /\ RequestTimeout \in Nat
      /\ wall \in Nat
  BY <1>1, ServingAssumption DEF RequestInv, ServingTypeOK
<1>3. CASE TurnAway(r)
  <2>1. ServingTypeOK' /\ OthersRest(r)
    BY ZenonT(30), <1>1, <1>3 DEF TurnAway, ServingTypeOK, OthersRest, Stages, Answers
  <2>2. stage'[r] = "done" /\ task'[r] = "none" /\ answer'[r] \in {"refused", "busy"}
    BY <1>1, <1>2, <1>3 DEF TurnAway, ServingTypeOK
  <2>3. RequestInv(r)'
    BY <2>2 DEF RequestInv, Blocking, Snapshot
  <2> QED
    BY <2>1, <2>2, <2>3, RequestKeeps
<1>4. CASE Admit(r)
  <2>1. PICK k \in Kinds :
          /\ kind' = [kind EXCEPT ![r] = k]
          /\ stage' = [stage EXCEPT ![r] = IF k = "tool" THEN "tool" ELSE "registry"]
          /\ awaiting' = [awaiting EXCEPT ![r] = IF k = "tool" THEN "task" ELSE "permit"]
          /\ task' = [task EXCEPT ![r] = IF k = "tool" THEN "working" ELSE "none"]
          /\ wallLeft' = [wallLeft EXCEPT ![r] = IF k = "tool" THEN 0 ELSE wall]
    BY <1>4 DEF Admit
  <2>2. /\ timeLeft' = [timeLeft EXCEPT ![r] = RequestTimeout]
        /\ UNCHANGED <<limit, wall, server, cancelled, gap, missed, answer>>
    BY <1>4 DEF Admit
  <2>3. ServingTypeOK'
    BY SMTT(30), <1>1, <1>2, <2>1, <2>2 DEF ServingTypeOK, Stages, Blocking, Snapshot
  <2>4. OthersRest(r)
    BY <1>1, <2>1, <2>2 DEF ServingTypeOK, OthersRest
  <2>5. /\ kind'[r] = k /\ task'[r] = IF k = "tool" THEN "working" ELSE "none"
        /\ stage'[r] = IF k = "tool" THEN "tool" ELSE "registry"
        /\ ~missed'[r] /\ answer'[r] = "none"
    BY <1>1, <1>2, <2>1, <2>2 DEF ServingTypeOK
  <2>6. RequestInv(r)'
    BY <2>5 DEF RequestInv, Blocking, Snapshot
  <2> QED
    BY <2>3, <2>4, <2>5, <2>6, RequestKeeps
<1> QED
  BY <1>3, <1>4

\* A step that answers: what it may answer, and what it may leave running.
LEMMA AnswerKeeps ==
  ASSUME ServingInv, NEW r \in Requests, NEW what \in Answers, Respond(r, what),
         NEW t \in {"none", "working", "ok", "failed"}, task' = [task EXCEPT ![r] = t],
         NEW m \in BOOLEAN, missed' = [missed EXCEPT ![r] = m],
         UNCHANGED <<limit, wall, server, kind>>,
         t = "working" => /\ task[r] = "working"
                          /\ \/ what = "timeout"
                             \/ kind[r] # "tool" /\ what \in {"degraded", "error"},
         what = "ok" /\ kind[r] # "tool" => ~m
  PROVE  ServingInv'
<1>1. ServingTypeOK
  BY DEF ServingInv
<1>2. /\ stage' \in [Requests -> Stages] /\ stage'[r] = "done"
      /\ awaiting' \in [Requests -> {"nothing", "permit", "task"}]
      /\ answer' \in [Requests -> Answers] /\ answer'[r] = what
      /\ cancelled' \in [Requests -> BOOLEAN]
      /\ timeLeft' \in [Requests -> 0 .. RequestTimeout]
      /\ wallLeft' \in [Requests -> 0 .. wall]
      /\ gap' \in [Requests -> BOOLEAN]
      /\ \A q \in Requests \ {r} :
           stage'[q] = stage[q] /\ answer'[q] = answer[q] /\ gap'[q] = gap[q]
  BY <1>1, RespondFields
<1>3. task'[r] = t /\ missed'[r] = m /\ kind'[r] = kind[r]
  BY <1>1 DEF ServingTypeOK
<1>4. ServingTypeOK'
  BY <1>1, <1>2 DEF ServingTypeOK
<1>5. OthersRest(r)
  BY <1>1, <1>2 DEF ServingTypeOK, OthersRest
<1>6. RequestInv(r)'
  BY <1>2, <1>3 DEF RequestInv, Blocking, Snapshot
<1> QED
  BY <1>3, <1>4, <1>5, <1>6, RequestKeeps

\* A history that stays is one that is written again.
LEMMA MissedStays ==
  ASSUME ServingTypeOK, NEW r \in Requests, missed' = missed
  PROVE  missed[r] \in BOOLEAN /\ missed' = [missed EXCEPT ![r] = missed[r]]
BY DEF ServingTypeOK

\* The steps that answer: a tool's result, the two deadlines, and a registry
\* that did not load.
LEMMA AnswersKeep ==
  ASSUME ServingInv, NEW r \in Requests,
         AnswerTool(r) \/ GatewayTimeout(r) \/ StageDeadline(r) \/ RegistryFails(r)
  PROVE  ServingInv'
<1>1. ServingTypeOK /\ RequestInv(r) /\ task[r] \in {"none", "working", "ok", "failed"}
  BY DEF ServingInv, ServingTypeOK
<1>2. CASE AnswerTool(r)
  <2> DEFINE what == IF task[r] = "ok" THEN "ok" ELSE "error"
  <2>1. what \in Answers /\ kind[r] = "tool"
    BY <1>1, <1>2 DEF AnswerTool, Answers, RequestInv
  <2>2. /\ Respond(r, what) /\ task' = [task EXCEPT ![r] = "none"]
        /\ UNCHANGED <<limit, wall, server, kind>> /\ missed' = missed
    BY <1>2 DEF AnswerTool
  <2> HIDE DEF what
  <2> QED
    BY <1>1, <2>1, <2>2, MissedStays, AnswerKeeps
<1>3. CASE GatewayTimeout(r)
  <2>1. PICK t \in {"none", "working", "ok", "failed"} :
          t = IF task[r] = "working" THEN task[r] ELSE "none"
    BY <1>1
  <2>2. /\ Respond(r, "timeout") /\ task' = [task EXCEPT ![r] = t]
        /\ UNCHANGED <<limit, wall, server, kind>> /\ missed' = missed
    BY <1>3, <2>1 DEF GatewayTimeout
  <2>3. t = "working" => task[r] = "working"
    BY <2>1
  <2>4. "timeout" \in Answers
    BY DEF Answers
  <2> QED
    <3>1. PICK m \in BOOLEAN : missed' = [missed EXCEPT ![r] = m]
      BY <1>1, <2>2, MissedStays
    <3>2. PICK what \in Answers : what = "timeout"
      BY <2>4
    <3> QED
      BY <2>2, <2>3, <3>1, <3>2, AnswerKeeps
<1>4. CASE StageDeadline(r)
  <2>1. PICK t \in {"none", "working", "ok", "failed"} :
          t = IF task[r] = "working" THEN task[r] ELSE "none"
    BY <1>1
  <2>2. PICK what \in {"error", "degraded"} :
          what = IF kind[r] = "unknown" /\ stage[r] # "registry" THEN "error" ELSE "degraded"
    OBVIOUS
  <2>3. PICK m \in BOOLEAN : m = (missed[r] \/ stage[r] \in Snapshot)
    OBVIOUS
  <2>4. /\ Respond(r, what) /\ task' = [task EXCEPT ![r] = t]
        /\ UNCHANGED <<limit, wall, server, kind>>
        /\ missed' = [missed EXCEPT ![r] = m]
    BY <1>4, <2>1, <2>2, <2>3 DEF StageDeadline
  <2>5. kind[r] # "tool"
    BY <1>1, <1>4 DEF StageDeadline, AtDeadline, RequestInv
  <2>6. what \in Answers /\ what # "ok"
    BY <2>2 DEF Answers
  <2>7. t = "working" => task[r] = "working"
    BY <2>1
  <2> QED
    BY <2>2, <2>4, <2>5, <2>6, <2>7, AnswerKeeps
<1>5. CASE RegistryFails(r)
  <2>1. /\ Respond(r, "error") /\ task' = [task EXCEPT ![r] = "none"]
        /\ UNCHANGED <<limit, wall, server, kind>> /\ missed' = missed
    BY <1>5 DEF RegistryFails
  <2>2. "error" \in Answers
    BY DEF Answers
  <2> QED
    BY ZenonT(30), <1>1, <2>1, <2>2, MissedStays, AnswerKeeps
<1> QED
  BY <1>2, <1>3, <1>4, <1>5

\* A step that goes on to the next stage: what it missed it records as a gap.
LEMMA MovingOnKeeps ==
  ASSUME ServingInv, NEW r \in Requests, MoveOn(r),
         stage[r] \in {"registry", "freshness", "graph", "evidence", "provider"},
         task' = [task EXCEPT ![r] = "none"],
         NEW g \in BOOLEAN, gap' = [gap EXCEPT ![r] = g],
         NEW m \in BOOLEAN, missed' = [missed EXCEPT ![r] = m], m => g,
         UNCHANGED <<limit, wall, server, kind, cancelled, timeLeft, wallLeft, answer>>
  PROVE  ServingInv'
<1>1. ServingTypeOK /\ RequestInv(r)
  BY DEF ServingInv
<1>2. kind[r] # "tool" /\ answer[r] = "none"
  BY <1>1 DEF RequestInv, Blocking, Snapshot
<1>3. /\ stage' \in [Requests -> Stages]
      /\ stage'[r] # "new" /\ stage'[r] # "tool" /\ stage'[r] # "done"
      /\ awaiting' \in [Requests -> {"nothing", "permit", "task"}]
      /\ \A q \in Requests \ {r} : stage'[q] = stage[q]
  BY <1>1, MoveOnFields
<1>4. /\ task'[r] = "none" /\ gap'[r] = g /\ missed'[r] = m /\ answer'[r] = "none"
      /\ kind'[r] # "tool"
  BY <1>1, <1>2 DEF ServingTypeOK
<1>5. ServingTypeOK' /\ OthersRest(r)
  BY <1>1, <1>3 DEF ServingTypeOK, OthersRest
<1>6. RequestInv(r)'
  BY <1>3, <1>4 DEF RequestInv
<1> QED
  BY <1>4, <1>5, <1>6, RequestKeeps

\* The steps of run_bounded_explore_blocking and of the provider, and the
\* report.
LEMMA StagesKeep ==
  ASSUME ServingInv, NEW r \in Requests,
         NextStage(r) \/ SnapshotDone(r) \/ ProviderDone(r) \/ Correlated(r)
  PROVE  ServingInv'
<1>1. /\ ServingTypeOK /\ RequestInv(r) /\ task[r] \in {"none", "working", "ok", "failed"}
      /\ gap[r] \in BOOLEAN /\ missed[r] \in BOOLEAN
  BY DEF ServingInv, ServingTypeOK
<1>2. PICK m \in BOOLEAN : m = (missed[r] \/ task[r] = "failed")
  OBVIOUS
<1>3. PICK g \in BOOLEAN : g = (gap[r] \/ task[r] = "failed")
  OBVIOUS
<1>4. stage[r] # "done" => (m => g)
  BY <1>1, <1>2, <1>3 DEF RequestInv
<1>5. CASE NextStage(r)
  <2>1. /\ MoveOn(r) /\ stage[r] \in {"registry", "freshness", "graph"}
        /\ task' = [task EXCEPT ![r] = "none"]
        /\ gap' = [gap EXCEPT ![r] = g] /\ missed' = [missed EXCEPT ![r] = m]
        /\ UNCHANGED <<limit, wall, server, kind, cancelled, timeLeft, wallLeft, answer>>
    BY <1>2, <1>3, <1>5 DEF NextStage
  <2> QED
    BY <1>4, <2>1, MovingOnKeeps
<1>6. CASE SnapshotDone(r)
  <2>1. /\ task' = [task EXCEPT ![r] = "none"] /\ missed' = [missed EXCEPT ![r] = m]
        /\ stage[r] = "evidence" /\ UNCHANGED <<limit, wall, server, kind>>
    BY <1>2, <1>6 DEF SnapshotDone
  <2>2. CASE \E what \in {"error", "degraded"} : Respond(r, what)
    <3>1. PICK what \in {"error", "degraded"} : Respond(r, what)
      BY <2>2
    <3>2. what \in Answers /\ what # "ok"
      BY DEF Answers
    <3> QED
      BY <2>1, <3>1, <3>2, AnswerKeeps
  <2>3. CASE /\ MoveOn(r) /\ gap' = [gap EXCEPT ![r] = g]
             /\ UNCHANGED <<cancelled, timeLeft, wallLeft, answer>>
    BY <1>4, <2>1, <2>3, MovingOnKeeps
  <2> QED
    BY <1>3, <1>6, <2>2, <2>3 DEF SnapshotDone
<1>7. CASE ProviderDone(r)
  <2>1. PICK missing \in BOOLEAN : gap' = [gap EXCEPT ![r] = @ \/ missing \/ Expired(r)]
    BY <1>7 DEF ProviderDone
  <2>2. PICK h \in BOOLEAN : h = (gap[r] \/ missing \/ Expired(r))
    OBVIOUS
  <2>3. /\ MoveOn(r) /\ stage[r] = "provider" /\ missed' = missed /\ task' = task
        /\ UNCHANGED <<limit, wall, server, kind, cancelled, timeLeft, wallLeft, answer>>
        /\ gap' = [gap EXCEPT ![r] = h]
    BY <1>7, <2>1, <2>2 DEF ProviderDone
  <2>4. missed[r] => h
    BY <1>1, <2>2, <2>3 DEF RequestInv
  <2>5. kind[r] # "tool" /\ answer[r] = "none"
    BY <1>1, <2>3 DEF RequestInv
  <2>6. /\ stage' \in [Requests -> Stages]
        /\ stage'[r] # "new" /\ stage'[r] # "tool" /\ stage'[r] # "done"
        /\ awaiting' \in [Requests -> {"nothing", "permit", "task"}]
        /\ \A q \in Requests \ {r} : stage'[q] = stage[q]
    BY <1>1, <2>3, MoveOnFields
  <2>7. gap'[r] = h /\ missed'[r] = missed[r] /\ answer'[r] = "none" /\ kind'[r] = kind[r]
        /\ task'[r] = task[r]
    BY <1>1, <2>3, <2>5 DEF ServingTypeOK
  <2>8. ServingTypeOK' /\ OthersRest(r)
    BY <1>1, <2>3, <2>6 DEF ServingTypeOK, OthersRest
  <2>9. RequestInv(r)'
    BY <2>4, <2>5, <2>6, <2>7 DEF RequestInv
  <2> QED
    BY <2>7, <2>8, <2>9, RequestKeeps
<1>8. CASE Correlated(r)
  <2>1. PICK a \in IF task[r] = "ok" THEN Report(r) ELSE {"degraded"} : Respond(r, a)
    BY <1>8 DEF Correlated
  <2>2. /\ task' = [task EXCEPT ![r] = "none"] /\ stage[r] = "correlation"
        /\ UNCHANGED <<limit, wall, server, kind>> /\ missed' = missed
    BY <1>8 DEF Correlated
  <2>3. a \in Answers /\ (a = "ok" => ~gap[r])
    BY <2>1 DEF Report, Answers
  <2>4. a = "ok" => ~missed[r]
    BY <1>1, <2>2, <2>3 DEF RequestInv
  <2> QED
    BY <1>1, <2>1, <2>2, <2>3, <2>4, MissedStays, AnswerKeeps
<1> QED
  BY <1>5, <1>6, <1>7, <1>8

\* A task starts under a permit, or ends.
LEMMA TasksKeep ==
  ASSUME ServingInv, NEW r \in Requests, StartTask(r) \/ TaskEnds(r)
  PROVE  ServingInv'
<1>1. ServingTypeOK /\ RequestInv(r)
  BY DEF ServingInv
<1>2. CASE StartTask(r)
  <2>1. /\ UNCHANGED <<limit, wall, server, stage, kind, cancelled, timeLeft, wallLeft, gap,
                       missed, answer>>
        /\ task' = [task EXCEPT ![r] = "working"]
        /\ awaiting' = [awaiting EXCEPT ![r] = "task"]
        /\ Cardinality(HoldsExplorePermit) < ExplorePermits
        /\ stage[r] \in Blocking
    BY <1>2 DEF StartTask
  <2>2. ServingTypeOK' /\ OthersRest(r)
    BY <1>1, <2>1 DEF ServingTypeOK, OthersRest
  <2>3. RequestInv(r)'
    BY <1>1, <2>1 DEF RequestInv, Blocking, Snapshot
  <2> QED
    BY <2>1, <2>2, <2>3, RequestKeeps
<1>3. CASE TaskEnds(r)
  <2>1. PICK t \in {"none", "ok", "failed"} : task' = [task EXCEPT ![r] = t]
    BY <1>3 DEF TaskEnds
  <2>2. /\ UNCHANGED <<limit, wall, server, stage, awaiting, kind, cancelled, timeLeft,
                       wallLeft, gap, missed, answer>>
        /\ task[r] = "working"
    BY <1>3 DEF TaskEnds
  <2>3. ServingTypeOK' /\ OthersRest(r) /\ task'[r] = t
    BY <1>1, <2>1, <2>2 DEF ServingTypeOK, OthersRest
  <2>4. RequestInv(r)'
    BY <1>1, <2>2, <2>3 DEF RequestInv
  <2> QED
    BY <2>3, <2>4, RequestKeeps
<1> QED
  BY <1>2, <1>3

\* The clock and the shutdown touch no request.
LEMMA ServerKeeps ==
  ASSUME ServingInv, ServingTick \/ Drain \/ Exit \/ UNCHANGED servingVars
  PROVE  ServingInv'
<1>1. UNCHANGED <<limit, wall, stage, awaiting, task, kind, cancelled, gap, missed, answer>>
  BY DEF ServingTick, Drain, Exit, servingVars
<1>2. server' \in {"serving", "draining", "exited"}
  BY DEF ServingInv, ServingTypeOK, ServingTick, Drain, Exit, servingVars
<1>3. timeLeft' \in [Requests -> 0 .. RequestTimeout] /\ wallLeft' \in [Requests -> 0 .. wall]
  <2>1. RequestTimeout \in Nat /\ wall \in Nat
    BY ServingAssumption DEF ServingInv, ServingTypeOK
  <2>2. CASE ServingTick
    BY SMTT(30), <2>1, <2>2 DEF ServingTick, RunsDown, ServingInv, ServingTypeOK
  <2>3. CASE UNCHANGED <<timeLeft, wallLeft>>
    BY <2>3 DEF ServingInv, ServingTypeOK
  <2> QED
    BY <2>2, <2>3 DEF Drain, Exit, servingVars
<1>4. ServingTypeOK'
  BY <1>1, <1>2, <1>3 DEF ServingInv, ServingTypeOK
<1>5. \A r \in Requests : RequestInv(r)'
  BY <1>1 DEF ServingInv, RequestInv
<1>6. ExploreWorkBounded'
  BY <1>1 DEF ServingInv, ExploreWorkBounded
<1> QED
  BY <1>4, <1>5, <1>6 DEF ServingInv

LEMMA ServingStarts == ServingInit => ServingInv
<1> SUFFICES ASSUME ServingInit PROVE ServingInv
  OBVIOUS
<1>1. ServingTypeOK
  BY SMTT(30), ServingAssumption DEF ServingInit, ServingTypeOK, Stages, Kinds, Answers
<1>2. \A r \in Requests : RequestInv(r)
  BY DEF ServingInit, RequestInv, Blocking, Snapshot
<1>3. ExploreWorkBounded
  <2>1. {r \in Requests : task[r] = "working" /\ kind[r] # "tool"} = {}
    BY DEF ServingInit
  <2>2. Cardinality({r \in Requests : task[r] = "working" /\ kind[r] # "tool"}) = 0
    BY <2>1, FS_EmptySet
  <2> QED
    BY SMTT(30), <2>2, ServingAssumption DEF ExploreWorkBounded
<1> QED
  BY <1>1, <1>2, <1>3 DEF ServingInv

\* Explore never runs more blocking tasks than it has permits, whatever the
\* deadlines have done to the requests that started them; work goes on after
\* an answer only when the answer was early; and a complete report rests on
\* all four stages (run_bounded_explore_blocking, assemble_explore_snapshot,
\* request_guard), for any number of requests and all limits.
THEOREM ExploreStaysSound == ServingSpec => []ExploreIsSound
<1>1. ServingInv /\ [ServingNext]_servingVars => ServingInv'
  <2> SUFFICES ASSUME ServingInv, [ServingNext]_servingVars PROVE ServingInv'
    OBVIOUS
  <2>1. ASSUME NEW r \in Requests,
               \/ TurnAway(r) \/ Admit(r)
               \/ RequestStep(r) \/ ProviderDone(r) \/ TaskEnds(r)
        PROVE  ServingInv'
    BY <2>1, AdmissionKeeps, AnswersKeep, StagesKeep, TasksKeep DEF RequestStep
  <2> QED
    BY <2>1, ServerKeeps DEF ServingNext
<1>2. ServingInv => ExploreIsSound
  BY DEF ServingInv, RequestInv, ExploreIsSound, OnlyLateWorkIsOrphaned, OkReportIsWhole
<1> QED
  BY <1>1, <1>2, ServingStarts, PTL DEF ServingSpec

-----------------------------------------------------------------------------
(***************************************************************************)
(* The provider                                                            *)
(***************************************************************************)
\* Where a call is counted, and where it holds a permit: Drop gives back the
\* counter first.
CountedPlaces == {"entered", "checked", "mcp", "fallback", "version", "run"}
HeldPlaces == CountedPlaces \cup {"leaving"}
Places == HeldPlaces \cup {"idle", "waiting"}
ChildPlaces == {"mcp", "version", "run"}

Counted == {c \in Calls : pc[c] \in CountedPlaces}

\* The counter counts, the largest count was reported, and the permits bound
\* both; a child runs only where its call waits for it.
CountInv ==
  /\ permits \in Permits
  /\ pc \in [Calls -> Places]
  /\ process \in [Calls -> {"none", "running", "ok", "failed", "cancelled", "timeout"}]
  /\ active = Cardinality(Counted)
  /\ observed \in Nat
  /\ active <= observed
  /\ observed <= permits
  /\ observed <= Cardinality(Calls)
  /\ Cardinality(Holding) <= permits
  /\ \A c \in Calls : process[c] = "running" => pc[c] \in ChildPlaces

RestInv ==
  /\ op \in [Calls -> Ops]
  /\ repo \in [Calls -> Repositories]
  /\ left \in [Calls -> 0 .. Budget]
  /\ helper \in [Calls -> BOOLEAN]
  /\ revoked \in [Calls -> BOOLEAN]
  /\ version \in {"unknown", "supported", "unsupported"}
  /\ closed \in BOOLEAN

\* A circuit is open for what is left of the cooldown.
CircuitInv ==
  /\ circuit \in [Repositories -> 0 .. Cooldown]
  /\ calm \in [Repositories -> 0 .. Cooldown]
  /\ \A r \in Repositories : circuit[r] + calm[r] = Cooldown

\* The inductive invariant of the provider.
ProviderInv == CountInv /\ RestInv /\ CircuitInv

\* The counted calls and the permits in use.
LEMMA Counts ==
  ASSUME pc \in [Calls -> Places]
  PROVE  /\ IsFiniteSet(Counted) /\ Cardinality(Counted) \in Nat
         /\ IsFiniteSet(Holding) /\ Cardinality(Holding) \in Nat
         /\ Cardinality(Calls) \in Nat /\ Cardinality(Counted) <= Cardinality(Calls)
         /\ Cardinality(Counted) <= Cardinality(Holding)
<1>1. IsFiniteSet(Calls) /\ Cardinality(Calls) \in Nat
  BY ProviderAssumption, FS_CardinalityType
<1>2. Counted \in SUBSET Calls /\ Holding \in SUBSET Calls /\ Counted \in SUBSET Holding
  BY DEF Counted, Holding, CountedPlaces
<1>3. IsFiniteSet(Counted) /\ Cardinality(Counted) <= Cardinality(Calls) /\ IsFiniteSet(Holding)
  BY <1>1, <1>2, FS_Subset
<1>4. Cardinality(Counted) <= Cardinality(Holding)
  BY <1>2, <1>3, FS_Subset
<1> QED
  BY <1>1, <1>3, <1>4, FS_CardinalityType

\* One call goes somewhere else: into the count, out of it, or neither.
LEMMA CallMoves ==
  ASSUME pc \in [Calls -> Places], NEW c \in Calls, NEW w \in Places, Goes(c, w)
  PROVE  /\ pc' \in [Calls -> Places] /\ pc'[c] = w
         /\ \A d \in Calls : d # c => pc'[d] = pc[d]
         /\ (pc[c] \in CountedPlaces <=> w \in CountedPlaces) => Counted' = Counted
         /\ pc[c] \in CountedPlaces /\ w \notin CountedPlaces =>
              Cardinality(Counted') = Cardinality(Counted) - 1
         /\ pc[c] \notin CountedPlaces /\ w \in CountedPlaces =>
              Cardinality(Counted') = Cardinality(Counted) + 1
         /\ (w \in HeldPlaces => pc[c] \in HeldPlaces) =>
              Cardinality(Holding') <= Cardinality(Holding)
         /\ pc[c] \notin HeldPlaces /\ w \in HeldPlaces =>
              Cardinality(Holding') = Cardinality(Holding) + 1
         /\ Cardinality(Counted') \in Nat /\ Cardinality(Holding') \in Nat
         /\ Cardinality(Counted') <= Cardinality(Calls)
         /\ Cardinality(Counted') <= Cardinality(Holding')
<1>1. /\ pc' \in [Calls -> Places] /\ pc'[c] = w
      /\ \A d \in Calls : d # c => pc'[d] = pc[d]
  BY DEF Goes
<1>2. PICK a, b, h, k : a = Counted /\ b = Counted' /\ h = Holding /\ k = Holding'
  OBVIOUS
<1>3. IsFiniteSet(a) /\ Cardinality(a) \in Nat /\ IsFiniteSet(h) /\ Cardinality(h) \in Nat
  BY <1>2, Counts
<1>4. (pc[c] \in CountedPlaces <=> w \in CountedPlaces) => b = a
  BY <1>1, <1>2 DEF Counted
<1>5. ASSUME pc[c] \in CountedPlaces, w \notin CountedPlaces
      PROVE  Cardinality(b) = Cardinality(a) - 1
  <2>1. b = a \ {c} /\ c \in a
    BY <1>1, <1>2, <1>5 DEF Counted
  <2> QED
    BY <1>3, <2>1, FS_RemoveElement
<1>6. ASSUME pc[c] \notin CountedPlaces, w \in CountedPlaces
      PROVE  Cardinality(b) = Cardinality(a) + 1
  <2>1. b = a \cup {c} /\ c \notin a
    BY <1>1, <1>2, <1>6 DEF Counted
  <2> QED
    BY <1>3, <2>1, FS_AddElement
<1>7. ASSUME w \in HeldPlaces => pc[c] \in HeldPlaces
      PROVE  Cardinality(k) <= Cardinality(h)
  <2>1. k \in SUBSET h
    BY <1>1, <1>2, <1>7 DEF Holding, HeldPlaces, CountedPlaces
  <2> QED
    BY <1>3, <2>1, FS_Subset
<1>8. ASSUME pc[c] \notin HeldPlaces, w \in HeldPlaces
      PROVE  Cardinality(k) = Cardinality(h) + 1
  <2>1. k = h \cup {c} /\ c \notin h
    BY <1>1, <1>2, <1>8 DEF Holding, HeldPlaces, CountedPlaces
  <2> QED
    BY <1>3, <2>1, FS_AddElement
<1>9. /\ Cardinality(b) \in Nat /\ Cardinality(k) \in Nat
      /\ Cardinality(b) <= Cardinality(Calls) /\ Cardinality(b) <= Cardinality(k)
  <2>1. b \in SUBSET Calls /\ k \in SUBSET Calls /\ b \in SUBSET k
    BY <1>2 DEF Counted, Holding, CountedPlaces
  <2>2. IsFiniteSet(b) /\ IsFiniteSet(k) /\ Cardinality(b) <= Cardinality(Calls)
    BY <2>1, ProviderAssumption, FS_Subset
  <2>3. Cardinality(b) <= Cardinality(k)
    BY <2>1, <2>2, FS_Subset
  <2> QED
    BY <2>2, <2>3, FS_CardinalityType
<1> QED
  BY <1>1, <1>2, <1>4, <1>5, <1>6, <1>7, <1>8, <1>9

\* A step of a call that takes no permit: it stays counted, or Return counts
\* it out.
LEMMA MoveKeeps ==
  ASSUME ProviderInv, NEW c \in Calls, NEW w \in Places, Goes(c, w),
         \/ active' = active /\ (pc[c] \in CountedPlaces <=> w \in CountedPlaces)
         \/ active' = active - 1 /\ pc[c] \in CountedPlaces /\ w = "leaving",
         w \in HeldPlaces => pc[c] \in HeldPlaces,
         NEW p \in {"none", "running", "ok", "failed", "cancelled", "timeout"},
         process' = [process EXCEPT ![c] = p], p = "running" => w \in ChildPlaces,
         UNCHANGED <<permits, observed>>, RestInv', CircuitInv'
  PROVE  ProviderInv'
<1>1. /\ pc' \in [Calls -> Places] /\ pc'[c] = w
      /\ \A d \in Calls : d # c => pc'[d] = pc[d]
  BY CallMoves DEF ProviderInv, CountInv
<1>2. "leaving" \notin CountedPlaces
  BY DEF CountedPlaces
<1>3. active' = Cardinality(Counted')
  BY <1>2, CallMoves DEF ProviderInv, CountInv
<1>4. Cardinality(Holding') <= Cardinality(Holding)
  BY CallMoves DEF ProviderInv, CountInv
<1>5. /\ Cardinality(Counted) \in Nat /\ Cardinality(Holding) \in Nat /\ permits \in Nat
      /\ Cardinality(Calls) \in Nat
  BY Counts, ProviderAssumption DEF ProviderInv, CountInv
<1>6. Cardinality(Counted') \in Nat /\ Cardinality(Holding') \in Nat
  BY CallMoves DEF ProviderInv, CountInv
<1>7. active' <= observed' /\ Cardinality(Holding)' <= permits'
  BY SMTT(30), <1>3, <1>4, <1>5, <1>6 DEF ProviderInv, CountInv
<1>8. /\ process' \in [Calls -> {"none", "running", "ok", "failed", "cancelled", "timeout"}]
      /\ \A d \in Calls : process'[d] = "running" => pc'[d] \in ChildPlaces
  BY <1>1 DEF ProviderInv, CountInv
<1> QED
  BY <1>1, <1>3, <1>7, <1>8 DEF ProviderInv, CountInv

\* enter takes a permit that is free, and counts.
LEMMA AcquireKeeps ==
  ASSUME ProviderInv, NEW c \in Calls, Acquire(c)
  PROVE  ProviderInv'
<1>1. /\ pc[c] = "waiting" /\ Cardinality(Holding) < permits /\ Goes(c, "entered")
      /\ active' = active + 1 /\ observed' = Larger(observed, active + 1)
      /\ UNCHANGED <<permits, op, repo, left, process, helper, revoked, version, circuit,
                     closed, calm>>
  BY DEF Acquire
<1>2. /\ "entered" \in Places /\ "entered" \in CountedPlaces /\ "entered" \in HeldPlaces
      /\ "waiting" \notin CountedPlaces /\ "waiting" \notin HeldPlaces
  BY DEF Places, HeldPlaces, CountedPlaces
<1>3. /\ pc' \in [Calls -> Places] /\ pc'[c] = "entered"
      /\ \A d \in Calls : d # c => pc'[d] = pc[d]
      /\ Cardinality(Counted') = Cardinality(Counted) + 1
      /\ Cardinality(Holding') = Cardinality(Holding) + 1
      /\ Cardinality(Counted') <= Cardinality(Calls)
      /\ Cardinality(Counted') <= Cardinality(Holding')
  BY <1>1, <1>2, CallMoves DEF ProviderInv, CountInv
<1>4. /\ Cardinality(Counted) \in Nat /\ Cardinality(Holding) \in Nat /\ permits \in Nat
      /\ Cardinality(Calls) \in Nat
  BY Counts, ProviderAssumption DEF ProviderInv, CountInv
<1>5. active' = Cardinality(Counted') /\ Cardinality(Holding') <= permits'
  BY SMTT(30), <1>1, <1>3, <1>4 DEF ProviderInv, CountInv
<1>6. /\ observed' \in Nat /\ active' <= observed' /\ observed' <= permits'
      /\ observed' <= Cardinality(Calls)
  BY SMTT(30), <1>1, <1>3, <1>4, <1>5 DEF ProviderInv, CountInv, Larger
<1>7. \A d \in Calls : process'[d] = "running" => pc'[d] \in ChildPlaces
  BY <1>1, <1>3 DEF ProviderInv, CountInv, ChildPlaces
<1>8. RestInv' /\ CircuitInv'
  BY <1>1 DEF ProviderInv, RestInv, CircuitInv
<1> QED
  BY SMTT(30), <1>1, <1>3, <1>5, <1>6, <1>7, <1>8 DEF ProviderInv, CountInv

\* A call that stays where it is, or whose process stays as it is.
LEMMA Stays ==
  ASSUME ProviderInv, NEW c \in Calls
  PROVE  /\ pc[c] \in Places /\ pc = [pc EXCEPT ![c] = pc[c]]
         /\ process[c] \in {"none", "running", "ok", "failed", "cancelled", "timeout"}
         /\ process = [process EXCEPT ![c] = process[c]]
         /\ process[c] = "running" => pc[c] \in ChildPlaces
BY DEF ProviderInv, CountInv

\* The steps outside the permit.
LEMMA WaitingKeeps ==
  ASSUME ProviderInv, NEW c \in Calls, Call(c) \/ GiveUp(c) \/ Leave(c)
  PROVE  ProviderInv'
<1>1. PICK w \in {"idle", "waiting"} : Goes(c, w)
  BY SMTT(30) DEF Call, GiveUp, Leave, Over, Goes
<1>2. /\ pc[c] \in {"idle", "waiting", "leaving"}
      /\ UNCHANGED <<permits, repo, process, helper, active, observed, version, circuit,
                     closed, calm>>
  BY  DEF Call, GiveUp, Leave
<1>3. RestInv'
  <2>1. op' \in [Calls -> Ops]
    <3>1. PICK o \in Ops : op' = [op EXCEPT ![c] = o]
      BY SMTT(30) DEF Call, GiveUp, Leave, Over, Ops
    <3> QED
      BY <3>1 DEF ProviderInv, RestInv
  <2>2. left' \in [Calls -> 0 .. Budget] /\ revoked' \in [Calls -> BOOLEAN]
    <3>1. Budget \in Nat
      BY ProviderAssumption
    <3>2. CASE Call(c)
      BY SMTT(30), <3>1, <3>2 DEF Call, ProviderInv, RestInv
    <3>3. CASE Over(c)
      BY SMTT(30), <3>1, <3>3 DEF Over, ProviderInv, RestInv
    <3> QED
      BY <3>2, <3>3 DEF GiveUp, Leave
  <2> QED
    BY <1>2, <2>1, <2>2 DEF ProviderInv, RestInv, Call, GiveUp, Leave
<1>4. CircuitInv'
  BY <1>2 DEF ProviderInv, CircuitInv
<1>5. /\ w \in Places /\ w \notin CountedPlaces /\ w \notin HeldPlaces
      /\ pc[c] \notin CountedPlaces /\ process[c] # "running"
  BY <1>2, Stays DEF Places, HeldPlaces, CountedPlaces, ChildPlaces
<1> QED
  BY <1>1, <1>2, <1>3, <1>4, <1>5, Stays, MoveKeeps

\* The steps that leave a call where it is.
LEMMA ChildKeeps ==
  ASSUME ProviderInv, NEW c \in Calls,
         ChildExits(c) \/ HelperExits(c) \/ Terminate(c) \/ Revoke(c)
  PROVE  ProviderInv'
<1>1. UNCHANGED <<permits, pc, op, repo, left, active, observed, version, circuit, closed,
                  calm>>
  BY DEF ChildExits, HelperExits, Terminate, Revoke
<1>2. RestInv' /\ CircuitInv'
  <2>1. helper' \in [Calls -> BOOLEAN] /\ revoked' \in [Calls -> BOOLEAN]
    BY  DEF ChildExits, HelperExits, Terminate, Revoke, ProviderInv, RestInv
  <2> QED
    BY <1>1, <2>1 DEF ProviderInv, RestInv, CircuitInv
<1>3. PICK p \in {"none", "running", "ok", "failed", "cancelled", "timeout"} :
        process' = [process EXCEPT ![c] = p] /\ (p = "running" => process[c] = "running")
  <2>1. CASE HelperExits(c) \/ Revoke(c)
    BY <2>1, Stays DEF HelperExits, Revoke
  <2>2. CASE ChildExits(c)
    BY <2>2 DEF ChildExits
  <2>3. CASE Terminate(c)
    BY <2>3 DEF Terminate
  <2> QED
    BY <2>1, <2>2, <2>3
<1>4. PICK w \in Places : w = pc[c] /\ Goes(c, w)
  BY <1>1, Stays DEF Goes
<1>5. p = "running" => w \in ChildPlaces
  BY <1>3, <1>4, Stays
<1> QED
  BY <1>1, <1>2, <1>3, <1>4, <1>5, MoveKeeps

\* The steps under the permit return, start a process, or look on.
LEMMA WorkKeeps ==
  ASSUME ProviderInv, NEW c \in Calls, pc[c] \in CountedPlaces,
         UNCHANGED <<permits, observed>>, RestInv', CircuitInv',
         \/ Return(c)
         \/ \E w \in ChildPlaces : Start(c, w)
         \/ \E w \in {"checked", "fallback"} :
              /\ Goes(c, w) /\ active' = active
              /\ \/ process' = [process EXCEPT ![c] = "none"]
                 \/ process' = process /\ process[c] # "running"
  PROVE  ProviderInv'
<1>1. pc[c] \in HeldPlaces /\ "leaving" \in Places
  BY DEF HeldPlaces, Places
<1>2. CASE Return(c)
  <2>1. /\ Goes(c, "leaving") /\ process' = [process EXCEPT ![c] = "none"]
        /\ active' = active - 1
    BY <1>2 DEF Return
  <2> QED
    BY <1>1, <2>1, MoveKeeps
<1>3. ASSUME NEW w \in ChildPlaces, Start(c, w) PROVE ProviderInv'
  <2>1. /\ Goes(c, w) /\ process' = [process EXCEPT ![c] = "running"]
        /\ active' = active
    BY <1>3 DEF Start
  <2>2. w \in Places /\ w \in CountedPlaces
    BY DEF ChildPlaces, Places, HeldPlaces, CountedPlaces
  <2> QED
    BY <1>1, <2>1, <2>2, MoveKeeps
<1>4. ASSUME NEW w \in {"checked", "fallback"}, Goes(c, w), active' = active,
             \/ process' = [process EXCEPT ![c] = "none"]
             \/ process' = process /\ process[c] # "running"
      PROVE  ProviderInv'
  <2>1. w \in Places /\ w \in CountedPlaces
    BY DEF Places, HeldPlaces, CountedPlaces
  <2>2. PICK p \in {"none", "ok", "failed", "cancelled", "timeout"} :
          process' = [process EXCEPT ![c] = p]
    BY <1>4, Stays
  <2> QED
    BY ZenonT(30), <1>1, <1>4, <2>1, <2>2, MoveKeeps
<1> QED
  BY <1>2, <1>3, <1>4

\* The steps that do not see an MCP session end leave the circuits alone.
LEMMA TransportKeeps ==
  ASSUME ProviderInv, NEW c \in Calls,
         ChooseTransport(c) \/ ConnectMcp(c) \/ NeedVersion(c) \/ VersionEnds(c) \/ RunEnds(c)
  PROVE  ProviderInv'
<1>1. UNCHANGED <<permits, op, repo, left, helper, revoked, observed, circuit, closed, calm>>
  BY DEF ChooseTransport, ConnectMcp, NeedVersion, VersionEnds, RunEnds
<1>2. version' \in {"unknown", "supported", "unsupported"}
  BY  DEF ChooseTransport, ConnectMcp, NeedVersion, VersionEnds, RunEnds, ProviderInv, RestInv
<1>3. RestInv' /\ CircuitInv'
  BY SMTT(30), <1>1, <1>2 DEF ProviderInv, RestInv, CircuitInv
<1>4. pc[c] \in CountedPlaces
  BY  DEF ChooseTransport, ConnectMcp, NeedVersion, VersionEnds, RunEnds, CountedPlaces
<1>5. "mcp" \in ChildPlaces /\ "version" \in ChildPlaces /\ "run" \in ChildPlaces
      /\ "entered" \notin ChildPlaces
  BY DEF ChildPlaces
<1>6. \/ Return(c)
      \/ \E w \in ChildPlaces : Start(c, w)
      \/ \E w \in {"checked", "fallback"} :
           /\ Goes(c, w) /\ active' = active
           /\ \/ process' = [process EXCEPT ![c] = "none"]
              \/ process' = process /\ process[c] # "running"
  <2>1. CASE ChooseTransport(c)
    <3>1. process[c] # "running"
      BY <1>5, <2>1, Stays DEF ChooseTransport
    <3> QED
      BY <1>5, <2>1, <3>1 DEF ChooseTransport
  <2>2. CASE ConnectMcp(c)
    BY <1>5, <2>2 DEF ConnectMcp
  <2>3. CASE NeedVersion(c)
    BY SMTT(30), <1>5, <2>3 DEF NeedVersion
  <2>4. CASE VersionEnds(c)
    BY ZenonT(30), <1>5, <2>4 DEF VersionEnds, ProbeMcp
  <2>5. CASE RunEnds(c)
    BY <1>5, <2>5 DEF RunEnds, ProbeMcp
  <2> QED
    BY SMTT(30), <2>1, <2>2, <2>3, <2>4, <2>5
<1> QED
  BY <1>1, <1>3, <1>4, <1>6, WorkKeeps

\* An MCP session that timed out opens the circuit for the cooldown.
LEMMA McpEndsKeeps ==
  ASSUME ProviderInv, NEW c \in Calls, McpEnds(c)
  PROVE  ProviderInv'
<1>1. /\ UNCHANGED <<permits, op, repo, left, helper, revoked, observed, version, closed>>
      /\ pc[c] = "mcp"
      /\ circuit' = Circuit(c)
      /\ calm' = IF process[c] = "timeout" THEN [calm EXCEPT ![repo[c]] = 0] ELSE calm
  BY ZenonT(30) DEF McpEnds
<1>2. RestInv'
  BY <1>1 DEF ProviderInv, RestInv
<1>3. CircuitInv'
  <2>1. repo[c] \in Repositories /\ Cooldown \in Nat
    BY ProviderAssumption DEF ProviderInv, RestInv
  <2>2. CASE process[c] = "timeout"
    <3>1. /\ circuit' = [circuit EXCEPT ![repo[c]] = Cooldown]
          /\ calm' = [calm EXCEPT ![repo[c]] = 0]
      BY <1>1, <2>2 DEF Circuit
    <3> QED
      BY SMTT(30), SMTT(30), <2>1, <3>1 DEF ProviderInv, CircuitInv
  <2>3. CASE process[c] # "timeout"
    BY <1>1, <2>3 DEF ProviderInv, CircuitInv, Circuit
  <2> QED
    BY <2>2, <2>3
<1>4. pc[c] \in CountedPlaces
  BY SMTT(30), <1>1 DEF CountedPlaces
<1>5. \/ Return(c)
      \/ \E w \in {"checked", "fallback"} :
           /\ Goes(c, w) /\ active' = active
           /\ process' = [process EXCEPT ![c] = "none"]
  BY DEF McpEnds
<1> QED
  BY SMTT(30), <1>1, <1>2, <1>3, <1>4, <1>5, WorkKeeps

\* Shutdown and the clock.
LEMMA ProviderRestKeeps ==
  ASSUME ProviderInv, Shutdown \/ ProviderTick \/ UNCHANGED providerVars
  PROVE  ProviderInv'
<1>1. UNCHANGED <<permits, pc, op, repo, process, helper, revoked, active, observed, version>>
  BY DEF Shutdown, ProviderTick, providerVars
<1>2. CountInv'
  BY <1>1 DEF ProviderInv, CountInv, Counted, Holding
<1>3. left' \in [Calls -> 0 .. Budget] /\ closed' \in BOOLEAN /\ CircuitInv'
  <2>1. CASE ProviderTick
    BY SMTT(30), <2>1, ProviderAssumption DEF ProviderTick, ProviderInv, RestInv, CircuitInv
  <2>2. CASE Shutdown \/ UNCHANGED providerVars
    BY <2>2 DEF Shutdown, providerVars, ProviderInv, RestInv, CircuitInv
  <2> QED
    BY <2>1, <2>2
<1>4. RestInv'
  BY <1>1, <1>3 DEF ProviderInv, RestInv
<1> QED
  BY <1>2, <1>3, <1>4 DEF ProviderInv

LEMMA ProviderStarts == ProviderInit => ProviderInv
<1> SUFFICES ASSUME ProviderInit PROVE ProviderInv
  OBVIOUS
<1>1. Counted = {} /\ Holding = {}
  BY DEF ProviderInit, Counted, Holding, CountedPlaces
<1>2. Cardinality(Counted) = 0 /\ Cardinality(Holding) = 0
  BY <1>1, FS_EmptySet
<1>3. /\ permits \in Permits /\ permits \in Nat /\ active = 0 /\ observed = 0
      /\ Cardinality(Calls) \in Nat
  BY ProviderAssumption, FS_CardinalityType DEF ProviderInit
<1>4. CountInv
  BY SMTT(30), <1>2, <1>3 DEF ProviderInit, CountInv, Places, HeldPlaces
<1>5. Budget \in Nat /\ Cooldown \in Nat
  BY ProviderAssumption
<1>6. RestInv
  <2>1. left = [c \in Calls |-> 0]
    BY DEF ProviderInit
  <2>2. left \in [Calls -> 0 .. Budget]
    BY SMTT(30), <1>5, <2>1
  <2> QED
    BY <2>2 DEF ProviderInit, RestInv, Ops
<1>7. CircuitInv
  <2>1. circuit = [r \in Repositories |-> 0] /\ calm = [r \in Repositories |-> Cooldown]
    BY DEF ProviderInit
  <2>2. circuit \in [Repositories -> 0 .. Cooldown] /\ calm \in [Repositories -> 0 .. Cooldown]
    BY SMTT(30), <1>5, <2>1
  <2>3. \A r \in Repositories : circuit[r] = 0 /\ calm[r] = Cooldown
    BY <2>1
  <2> QED
    BY SMTT(30), <1>5, <2>2, <2>3 DEF CircuitInv
<1> QED
  BY <1>4, <1>6, <1>7 DEF ProviderInv

LEMMA ProviderKeeps == ProviderInv /\ [ProviderNext]_providerVars => ProviderInv'
<1> SUFFICES ASSUME ProviderInv, [ProviderNext]_providerVars PROVE ProviderInv'
  OBVIOUS
<1>1. ASSUME NEW c \in Calls,
             \/ Call(c) \/ Revoke(c) \/ CallStep(c) \/ ChildExits(c) \/ HelperExits(c)
      PROVE  ProviderInv'
  BY <1>1, AcquireKeeps, WaitingKeeps, ChildKeeps, TransportKeeps, McpEndsKeeps DEF CallStep
<1> QED
  BY <1>1, ProviderRestKeeps DEF ProviderNext

\* What the invariant says of the counters.
LEMMA CountersAreHonest ==
  ProviderInv => ProviderTypeOK /\ ObservedConcurrencyHonest
<1> SUFFICES ASSUME ProviderInv PROVE ProviderTypeOK /\ ObservedConcurrencyHonest
  OBVIOUS
<1>1. /\ IsFiniteSet(Counted) /\ Cardinality(Counted) \in Nat /\ Cardinality(Calls) \in Nat
      /\ Cardinality(Counted) <= Cardinality(Calls)
  BY Counts DEF ProviderInv, CountInv
<1>2. Running \in SUBSET Counted
  BY DEF Running, Counted, ProviderInv, CountInv, ChildPlaces, CountedPlaces
<1>3. Cardinality(Running) <= Cardinality(Counted) /\ IsFiniteSet(Running)
  BY <1>1, <1>2, FS_Subset
<1>4. Cardinality(Running) \in Nat /\ permits \in Nat
  BY <1>3, FS_CardinalityType, ProviderAssumption DEF ProviderInv, CountInv
<1>5. ObservedConcurrencyHonest
  BY SMTT(30), <1>1, <1>3, <1>4 DEF ProviderInv, CountInv, ObservedConcurrencyHonest
<1>6. active \in 0 .. Cardinality(Calls) /\ observed \in 0 .. Cardinality(Calls)
  BY SMTT(30), <1>1 DEF ProviderInv, CountInv
<1>7. Places = {"idle", "waiting", "entered", "checked", "mcp", "fallback", "version", "run",
                "leaving"}
  BY DEF Places, HeldPlaces, CountedPlaces
<1>8. ProviderTypeOK
  BY SMTT(30), <1>6, <1>7 DEF ProviderInv, CountInv, RestInv, CircuitInv, ProviderTypeOK
<1> QED
  BY <1>5, <1>8

\* MCP is looked at, or passed over, as the circuit says.
LEMMA CircuitIsObeyed ==
  ASSUME ProviderInv, ProviderNext, NEW c \in Calls
  PROVE  /\ pc'[c] = "checked" /\ pc[c] # "checked" => calm[repo[c]] = Cooldown
         /\ pc[c] = "entered" /\ pc'[c] = "fallback" /\ op[c] = "context" =>
              calm[repo[c]] < Cooldown
<1>1. /\ repo[c] \in Repositories /\ circuit[repo[c]] \in Nat /\ calm[repo[c]] \in Nat
      /\ circuit[repo[c]] + calm[repo[c]] = Cooldown /\ Cooldown \in Nat
      /\ pc \in [Calls -> Places]
  BY SMTT(30), ProviderAssumption DEF ProviderInv, CountInv, RestInv, CircuitInv
<1>2. /\ Available(c) => calm[repo[c]] = Cooldown
      /\ ~Available(c) => calm[repo[c]] < Cooldown
  BY SMTT(30), <1>1 DEF Available
<1>3. SUFFICES \/ pc'[c] = pc[c]
               \/ /\ pc'[c] = "checked" => Available(c) /\ pc[c] # "checked"
                  /\ pc[c] = "entered" /\ pc'[c] = "fallback" /\ op[c] = "context" =>
                       ~Available(c)
  BY <1>2
<1>4. CASE UNCHANGED pc
  BY <1>4
<1>5. ASSUME NEW d \in Calls, NEW w, Goes(d, w),
             d = c => /\ w = "checked" => Available(c) /\ pc[c] # "checked"
                      /\ pc[c] = "entered" /\ w = "fallback" /\ op[c] = "context" =>
                           ~Available(c)
      PROVE  \/ pc'[c] = pc[c]
             \/ /\ pc'[c] = "checked" => Available(c) /\ pc[c] # "checked"
                /\ pc[c] = "entered" /\ pc'[c] = "fallback" /\ op[c] = "context" =>
                     ~Available(c)
  BY <1>1, <1>5 DEF Goes
<1>6. ASSUME NEW d \in Calls, Over(d) PROVE Goes(d, "idle")
  BY <1>6 DEF Over, Goes
<1>7. ASSUME NEW d \in Calls, Return(d) PROVE Goes(d, "leaving")
  BY <1>7 DEF Return
<1>8. ASSUME NEW d \in Calls, NEW w, Start(d, w) PROVE Goes(d, w)
  BY SMTT(30), <1>8 DEF Start
<1>9. ASSUME NEW d \in Calls, Call(d) \/ CallStep(d)
      PROVE  \/ pc'[c] = pc[c]
             \/ /\ pc'[c] = "checked" => Available(c) /\ pc[c] # "checked"
                /\ pc[c] = "entered" /\ pc'[c] = "fallback" /\ op[c] = "context" =>
                     ~Available(c)
  <2>1. CASE Call(d) \/ GiveUp(d) \/ Leave(d) \/ Acquire(d)
    BY ZenonT(30), <1>5, <1>6, <2>1 DEF Call, GiveUp, Leave, Acquire
  <2>2. CASE Terminate(d)
    BY ZenonT(30), <1>4, <2>2 DEF Terminate
  <2>3. CASE ChooseTransport(d)
    BY ZenonT(30), <1>5, <1>7, <1>8, <2>3 DEF ChooseTransport
  <2>4. CASE ConnectMcp(d) \/ NeedVersion(d)
    BY ZenonT(30), <1>5, <1>7, <1>8, <2>4 DEF ConnectMcp, NeedVersion
  <2>5. CASE McpEnds(d)
    BY ZenonT(30), <1>5, <1>7, <2>5 DEF McpEnds
  <2>6. CASE VersionEnds(d)
    BY ZenonT(30), <1>5, <1>7, <1>8, <2>6 DEF VersionEnds, ProbeMcp
  <2>7. CASE RunEnds(d)
    BY <1>5, <1>7, <2>7 DEF RunEnds, ProbeMcp
  <2> QED
    BY ZenonT(30), <1>9, <2>1, <2>2, <2>3, <2>4, <2>5, <2>6, <2>7 DEF CallStep
<1> QED
  BY <1>4, <1>9 DEF ProviderNext, Revoke, ChildExits, HelperExits, Shutdown, ProviderTick

\* The provider runs at most max_concurrent_processes children, reports at
\* least what ran at once and never more than the permits, and passes MCP
\* over for a repository exactly during the cooldown after that repository's
\* own last timeout (ProviderPermit, mcp_is_available, open_mcp_circuit), for
\* any number of calls and repositories.
THEOREM ProviderStaysHonest == ProviderSpec => ProviderIsHonest
<1>1. ProviderInv /\ [ProviderNext]_providerVars =>
        [\A c \in Calls :
           /\ pc'[c] = "checked" /\ pc[c] # "checked" => calm[repo[c]] = Cooldown
           /\ pc[c] = "entered" /\ pc'[c] = "fallback" /\ op[c] = "context"
                => calm[repo[c]] < Cooldown]_providerVars
  BY CircuitIsObeyed
<1> QED
  BY <1>1, ProviderStarts, ProviderKeeps, CountersAreHonest, PTL
     DEF ProviderSpec, ProviderIsHonest, CircuitFollowsTimeouts
=============================================================================
