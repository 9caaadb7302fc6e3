---------------------------- MODULE MCPublication ----------------------------
(***************************************************************************)
(* Small instances of publication.                                         *)
(***************************************************************************)
EXTENDS Publication, TLC

CONSTANTS n1, n2, v1, v2, i1, i2, i3

\* A self-loop and an edge between two nodes.
MCEndpoints == {<<n1, n2>>, <<n2, n2>>}

MCLoop == {<<n1, n1>>}

MCValueSymmetry == Permutations({v1, v2})
=============================================================================
