------------------------------- MODULE MCScan -------------------------------
(***************************************************************************)
(* Small instances of the scan: two repositories, the second with an       *)
(* OpenAPI document.                                                       *)
(***************************************************************************)
EXTENDS Scan

CONSTANTS r1, r2, a1, a2

MCRepoOf == [a \in Artifacts |-> IF a = a1 THEN r1 ELSE r2]

\* 0 and 3 are "no file"; the sizes of 1 and 2 differ or not.
MCSizes == [c \in Contents |-> c]

MCSameSize == [c \in Contents |-> 7]

\* Every content is new: files never return to an earlier one.
MCForward == {<<0, 1>>, <<1, 2>>, <<2, 3>>}

\* Files return to earlier contents, as with version control.
MCBackAndForth == {<<0, 1>>, <<1, 2>>, <<2, 1>>, <<1, 0>>}

MCOneConfig == {[manifest |-> "m", budget |-> "b"]}

MCConfigs == MCOneConfig \cup {[manifest |-> "m", budget |-> "c"]}

\* An OpenAPI document; edits run into the scan; nothing returns.
MCForwardEdits ==
  [declared |-> {a2}, sizes |-> MCSameSize, edits |-> MCForward,
   configs |-> MCConfigs, concurrent |-> TRUE]

\* Files return to earlier contents between the scans.
MCEditsBetween ==
  [declared |-> {}, sizes |-> MCSizes, edits |-> MCBackAndForth,
   configs |-> MCOneConfig, concurrent |-> FALSE]

MCSettings == {MCForwardEdits, MCEditsBetween}

\* Both are workspaces the theorems of ScanProofs speak of.
ASSUME MCWithinTheorems ==
  \A w \in MCSettings : /\ NeverReturns(w) \/ (~w.concurrent /\ w.declared = {})
                        /\ SizesKeptIn(w)

\* The two together: an OpenAPI document that returns to an earlier content.
MCDeclaredReturns ==
  {[MCEditsBetween EXCEPT !.declared = {a2}, !.sizes = MCSameSize]}

\* Files return to earlier contents while a scan runs.
MCReturnsMeanwhile ==
  {[MCEditsBetween EXCEPT !.concurrent = TRUE, !.sizes = MCSameSize]}

\* The same with contents of different sizes.
MCResizedMeanwhile == {[MCEditsBetween EXCEPT !.concurrent = TRUE]}
=============================================================================
