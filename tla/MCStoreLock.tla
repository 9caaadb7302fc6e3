----------------------------- MODULE MCStoreLock -----------------------------
(***************************************************************************)
(* Three callers in three processes: one can die holding the lock while    *)
(* two others recover it concurrently.                                     *)
(***************************************************************************)
EXTENDS StoreLock, TLC

CONSTANTS t1, t2, t3, p1, p2, p3

MCThreads == {t1, t2, t3}
MCProcesses == {p1, p2, p3}
MCProcessOf == t1 :> p1 @@ t2 :> p2 @@ t3 :> p3

\* Renaming the threads and their processes together changes nothing.
MCSymmetry ==
  {f @@ [p \in MCProcesses |->
           MCProcessOf[f[CHOOSE t \in MCThreads : MCProcessOf[t] = p]]] :
     f \in Permutations(MCThreads)}

\* Two callers, each in its own process, for the temporal property.
MCTwoThreads == {t1, t2}
MCTwoProcesses == {p1, p2}
MCTwoProcessOf == t1 :> p1 @@ t2 :> p2
=============================================================================
