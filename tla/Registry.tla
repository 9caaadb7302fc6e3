------------------------------ MODULE Registry ------------------------------
(***************************************************************************)
(* The registry of workspaces: which checkouts a workspace has, and the    *)
(* rows of checkouts, repositories, artifacts, freshness and provider      *)
(* capabilities that several workspaces of one database share or refer to. *)
(*                                                                         *)
(* Every mutation holds the writer lock and is one transaction, so each is *)
(* one step here; a manifest however is loaded before the lock is taken,   *)
(* so an older manifest can be published after a newer one, and a          *)
(* workspace that was removed meanwhile comes back.                        *)
(***************************************************************************)
EXTENDS Naturals, FiniteSets

CONSTANTS
  Workspaces,
  Checkouts,
  Repos,
  RepoOf,        \* the repository each checkout is a working tree of
  Scanners,      \* processes that scan
  NoScan

ASSUME RegistryAssumption == RepoOf \in [Checkouts -> Repos]

VARIABLES
  scanner,       \* the manifest a scanner loaded, and its --repo selection
  workspaces,    \* rows of workspaces
  members,       \* rows of workspace_repositories
  checkouts,     \* rows of repository_checkouts
  repositories,  \* rows of repositories
  artifacts,     \* the checkouts that fingerprints, batches and runs name
  freshness,     \* the checkouts of repository_snapshot_freshness
  capabilities,  \* the repositories of provider_capabilities
  complete,      \* history: whether the last publication covered every repository
  lastRemoval    \* history: the workspace last removed, and the outcome

registryRows == <<workspaces, members, checkouts, repositories, artifacts,
                  freshness, capabilities>>

registryVars == <<scanner, registryRows, complete, lastRemoval>>

NoRemoval == [workspace |-> NoScan, ok |-> TRUE]

ReposOf(cs) == {RepoOf[c] : c \in cs}

RegistryInit ==
  /\ scanner = [p \in Scanners |-> NoScan]
  /\ workspaces = {}
  /\ members = [w \in Workspaces |-> {}]
  /\ checkouts = {}
  /\ repositories = {}
  /\ artifacts = [w \in Workspaces |-> {}]
  /\ freshness = [w \in Workspaces |-> {}]
  /\ capabilities = [w \in Workspaces |-> {}]
  /\ complete = [w \in Workspaces |-> TRUE]
  /\ lastRemoval = NoRemoval

-----------------------------------------------------------------------------
\* Manifests name at least one checkout, and are edited at any time
\* (ManifestEdit).
Manifests == (SUBSET Checkouts) \ {{}}

\* load_workspace_context: before the writer lock.  --repo selects the
\* repositories of one alias.
LoadContext(p, w) ==
  /\ scanner[p] = NoScan
  /\ \E record \in Manifests :
       \/ scanner' = [scanner EXCEPT ![p] =
            [workspace |-> w, record |-> record,
             selected |-> ReposOf(record), partial |-> FALSE]]
       \/ \E r \in ReposOf(record) :
            scanner' = [scanner EXCEPT ![p] =
              [workspace |-> w, record |-> record,
               selected |-> {r}, partial |-> TRUE]]
  /\ UNCHANGED <<registryRows, complete, lastRemoval>>

\* An error, a cancellation, or a snapshot that is reused as it is.
EndScan(p) ==
  /\ scanner[p] # NoScan
  /\ scanner' = [scanner EXCEPT ![p] = NoScan]
  /\ UNCHANGED <<registryRows, complete, lastRemoval>>

UpsertRegistry(w, record) ==
  /\ workspaces' = workspaces \cup {w}
  /\ members' = [members EXCEPT ![w] = record]
  /\ checkouts' = checkouts \cup record
  /\ repositories' = repositories \cup ReposOf(record)

\* A partial scan keeps the published artifacts of repositories it was not
\* asked to scan, whether the manifest still names them or not.
RetainedArtifacts(s) ==
  IF s.partial
  THEN {c \in artifacts[s.workspace] : RepoOf[c] \notin s.selected}
  ELSE {}

\* Mutant: capabilities of repositories the workspace dropped are kept.
KeepsCapabilities(w, record) == capabilities[w]

\* The end of replace_freshness.
RetainedCapabilities(w, record) == capabilities[w] \cap ReposOf(record)

\* The publication, and after it the capabilities of the repositories that
\* CodeGraph answered for.
PublishScan(p) ==
  LET s == scanner[p]
      w == s.workspace
  IN
  /\ s # NoScan
  /\ UpsertRegistry(w, s.record)
  /\ artifacts' = [artifacts EXCEPT ![w] =
       {c \in s.record : RepoOf[c] \in s.selected} \cup RetainedArtifacts(s)]
  /\ freshness' = [freshness EXCEPT ![w] = s.record]
  /\ \E probed \in SUBSET (ReposOf(s.record) \cap s.selected) :
       capabilities' = [capabilities EXCEPT ![w] =
                          RetainedCapabilities(w, s.record) \cup probed]
  /\ complete' = [complete EXCEPT ![w] = ~s.partial]
  /\ scanner' = [scanner EXCEPT ![p] = NoScan]
  /\ UNCHANGED lastRemoval

\* add_workspace_to_registry with save_workspace_registry.
AddWorkspace(w) ==
  /\ w \notin workspaces
  /\ \E record \in Manifests : UpsertRegistry(w, record)
  /\ UNCHANGED <<scanner, artifacts, freshness, capabilities,
                 complete, lastRemoval>>

-----------------------------------------------------------------------------
Others(w) == workspaces \ {w}

\* The checkouts and repositories that no remaining workspace has.
UnusedCheckouts(w) == checkouts \ UNION {members[v] : v \in Others(w)}

UnusedRepositories(w) ==
  repositories \ ReposOf(UNION {members[v] : v \in Others(w)})

\* Foreign keys without an action refuse the deletion of a checkout.
Referenced(w) == UNION {artifacts[v] \cup freshness[v] : v \in Others(w)}

RemoveWorkspace(w) ==
  /\ w \in workspaces
  /\ IF UnusedCheckouts(w) \cap Referenced(w) # {}
     THEN /\ lastRemoval' = [workspace |-> w, ok |-> FALSE]
          /\ UNCHANGED <<registryRows, complete>>
     ELSE /\ workspaces' = Others(w)
          /\ members' = [members EXCEPT ![w] = {}]
          /\ artifacts' = [artifacts EXCEPT ![w] = {}]
          /\ freshness' = [freshness EXCEPT ![w] = {}]
          /\ checkouts' = checkouts \ UnusedCheckouts(w)
          /\ repositories' = repositories \ UnusedRepositories(w)
          /\ capabilities' = [v \in Workspaces |->
               IF v = w THEN {} ELSE capabilities[v] \ UnusedRepositories(w)]
          /\ complete' = [complete EXCEPT ![w] = TRUE]
          /\ lastRemoval' = [workspace |-> w, ok |-> TRUE]
  /\ UNCHANGED scanner

RegistryNext ==
  \/ \E w \in Workspaces :
       AddWorkspace(w) \/ RemoveWorkspace(w)
  \/ \E p \in Scanners :
       \/ \E w \in Workspaces : LoadContext(p, w)
       \/ EndScan(p)
       \/ PublishScan(p)

RegistrySpec == RegistryInit /\ [][RegistryNext]_registryVars

-----------------------------------------------------------------------------
ScanRecords ==
  [workspace : Workspaces, record : Manifests,
   selected : (SUBSET Repos) \ {{}}, partial : BOOLEAN]

\* Every row refers to rows that exist, and the artifacts of an unregistered
\* workspace are gone: what the foreign keys of the schema demand.
RegistryTypeOK ==
  /\ \A p \in Scanners : scanner[p] \in ScanRecords \cup {NoScan}
  /\ workspaces \subseteq Workspaces
  /\ checkouts \subseteq Checkouts
  /\ repositories \subseteq Repos
  /\ ReposOf(checkouts) \subseteq repositories
  /\ \A w \in Workspaces :
       /\ members[w] \cup artifacts[w] \cup freshness[w] \subseteq checkouts
       /\ capabilities[w] \subseteq repositories
       /\ w \notin workspaces =>
            members[w] \cup artifacts[w] \cup freshness[w]
              \cup capabilities[w] = {}
  /\ complete \in [Workspaces -> BOOLEAN]
  /\ lastRemoval \in [workspace : Workspaces \cup {NoScan}, ok : BOOLEAN]

RowsOf(w) ==
  <<w \in workspaces, members[w], artifacts[w], freshness[w], capabilities[w]>>

\* Removing a workspace changes no row of another one: the cascade from
\* repositories to provider capabilities included (remove_workspace, the
\* schema's ON DELETE CASCADE, and the end of replace_freshness).
RemovalIsLocal ==
  [][lastRemoval' # lastRemoval =>
       \A w \in Workspaces \ {lastRemoval'.workspace} :
         RowsOf(w)' = RowsOf(w)]_registryVars

\* Nothing stands in the way of removing a workspace as long as the last scan
\* of every other workspace covered all its repositories: a dropped
\* repository's artifacts are gone with the publication that dropped it.
RemovalIsPossible ==
  [][lastRemoval' # lastRemoval /\ ~lastRemoval'.ok =>
       \E w \in workspaces \ {lastRemoval'.workspace} : ~complete[w]]_registryVars

\* After a removal every checkout and repository row belongs to a workspace,
\* also those that other workspaces dropped earlier ("garbage-collects
\* unreferenced repository records").
RemovalCollects ==
  [][workspaces' \subseteq workspaces /\ workspaces' # workspaces =>
       /\ checkouts' = UNION {members'[w] : w \in Workspaces}
       /\ repositories' = ReposOf(checkouts')]_registryVars

(* Removing a workspace leaves every other one's rows alone, is refused only for
   the reason the code gives, and collects what nobody refers to any more. *)
RemovalIsClean ==
  /\ []RegistryTypeOK
  /\ RemovalIsLocal
  /\ RemovalIsPossible
  /\ RemovalCollects

\* What remove_workspace promises: a registered workspace can be removed.
RemovalSucceeds == lastRemoval.ok
=============================================================================
