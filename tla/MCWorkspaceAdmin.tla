-------------------------- MODULE MCWorkspaceAdmin --------------------------
(***************************************************************************)
(* The commands that administer a workspace, side by side: the registry,   *)
(* the manifest editors, the query cache and restores of the database.  A  *)
(* behaviour is one of the four, as the initial state says.  They share no *)
(* state: the manifest a scan loads is any manifest, and publications are  *)
(* steps of the parts they concern.                                        *)
(***************************************************************************)
EXTENDS Registry, ManifestEdit, QueryCache, Restore, TLC

CONSTANTS
  w1, w2, c1, c2, c3, r1, r2, p1,   \* Registry
  e1, e2, e3, x1, x2,               \* ManifestEdit
  i1, i2, q1, q2, s1, s2,           \* QueryCache
  b1, b2, o1                        \* Restore

VARIABLE part

\* Two working trees of one repository and one of another.
RepoOfDef == c1 :> r1 @@ c2 :> r1 @@ c3 :> r2

\* An administrative and a command-line editor of the same entry.
EntryOfDef == e1 :> x1 @@ e2 :> x2 @@ e3 :> x2

\* All processes have the same temporary directory, or the second restore
\* runs with another TMPDIR.
OneDirectory == [p \in Processes |-> "tmp"]

TwoDirectories == [p \in Processes |-> IF p = b2 THEN "other" ELSE "tmp"]

\* Workspaces, working trees of one repository, and restores with the same
\* directory.
Interchangeable ==
  Permutations({w1, w2}) \cup Permutations({c1, c2}) \cup Permutations({b1, b2})

Init ==
  /\ part \in {"registry", "edit", "cache", "restore"}
  /\ RegistryInit
  /\ EditInit
  /\ part # "edit" => file = {}
  /\ CacheInit
  /\ RestoreInit
  /\ part # "restore" => dest = NoFile

RegistryStep ==
  /\ part = "registry"
  /\ RegistryNext
  /\ UNCHANGED <<part, editVars, cacheVars, restoreVars>>

EditStep ==
  /\ part = "edit"
  /\ EditNext
  /\ UNCHANGED <<part, registryVars, cacheVars, restoreVars>>

CacheStep ==
  /\ part = "cache"
  /\ CacheNext
  /\ UNCHANGED <<part, registryVars, editVars, restoreVars>>

StoreRestoreStep ==
  /\ part = "restore"
  /\ RestoreNext
  /\ UNCHANGED <<part, registryVars, editVars, cacheVars>>

Next ==
  RegistryStep \/ EditStep \/ CacheStep \/ StoreRestoreStep

vars == <<part, registryVars, editVars, cacheVars, restoreVars>>

Spec == Init /\ [][Next]_vars
=============================================================================
