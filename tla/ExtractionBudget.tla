-------------------------- MODULE ExtractionBudget --------------------------
(***************************************************************************)
(* The resource accounting of one artifact-extractor invocation            *)
(* (core/src/extraction_budget.rs) as the source extractors use it: one    *)
(* tracker counts the syntax nodes of the Tree-sitter walk                 *)
(* (core/src/source_syntax.rs), then the work, strings and observations of *)
(* the structured stage, and the outputs are serialized into a batch that  *)
(* a later scan loads instead of extracting again (core/src/batch.rs).     *)
(*                                                                         *)
(* The two stages share the clock and the sampling counter.  A unit is     *)
(* accepted first and time is looked at only at the first unit and when a  *)
(* block of Block units (1,024 in the code) is completed, so what bounds   *)
(* the work done past a deadline is the arithmetic of sample_time.         *)
(* Counters are unbounded here: every maximum fits in 64 bits, so a        *)
(* checked addition that would overflow exceeds its maximum as well.       *)
(***************************************************************************)
EXTENDS Integers

CONSTANTS
  Block,            \* units between two looks at the clock
  MaxWork,          \* max_work_units_per_artifact
  MaxNodes,         \* max_tree_sitter_nodes_per_artifact
  MaxObservations,  \* max_observations_per_artifact
  MaxStrings,       \* max_accumulated_string_bytes_per_artifact
  MaxString,        \* max_string_bytes_per_value
  MaxOutput,        \* max_serialized_output_bytes_per_artifact
  TreeTime,         \* max_tree_sitter_wall_time_ms_per_artifact
  StructuredTime,   \* max_structured_wall_time_ms_per_artifact
  Amounts,          \* amounts charged and bytes written at once
  MaxElapsed,       \* bound on the clock
  MaxOutputs        \* bound on the outputs an extractor returns

\* ExtractionBudgets::validate refuses a zero.
ASSUME BudgetAssumption ==
  /\ {Block, MaxWork, MaxNodes, MaxObservations, MaxStrings, MaxString,
      MaxOutput, TreeTime, StructuredTime} \subseteq Nat \ {0}
  /\ Amounts \subseteq Nat
  /\ MaxElapsed \in Nat
  /\ MaxOutputs \in Nat

VARIABLES
  stage,             \* "syntax", "structured", "writing", "stored", "loaded"
                     \* or "refused"
  work_units,
  tree_sitter_nodes,
  observations,
  strings,           \* accumulated_string_bytes
  sampled_units,
  elapsed,           \* milliseconds since the tracker was made
  outputs,           \* length of the extractor's output vector
  payload,           \* bytes the JSON writer retains
  in_time            \* history: units accepted while the stage was in time

counterVars == <<work_units, tree_sitter_nodes, observations, strings>>
budgetVars == <<stage, counterVars, sampled_units, elapsed, outputs, payload,
                in_time>>

-----------------------------------------------------------------------------
Units == work_units + tree_sitter_nodes

\* The deadline of a stage: check_elapsed picks it by the kind of the unit.
Deadline(s) == IF s = "syntax" THEN TreeTime ELSE StructuredTime
check_elapsed(s) == elapsed <= Deadline(s)

Timed == stage \in {"syntax", "structured"}
Late == ~check_elapsed(stage)

\* The history follows the units until the stage's deadline has passed.
Record == in_time' = IF Late /\ stage' = stage THEN in_time ELSE Units'

\* Mutant: the first unit is not sampled.
SamplesBlocksOnly(units) == units \div Block > sampled_units \div Block

\* Whether sample_time looks at the clock when `units` have been accepted.
Samples(units) ==
  \/ sampled_units = 0 /\ units > 0
  \/ units \div Block > sampled_units \div Block

\* sample_time: the sample is recorded before the clock is checked.
sample_time(units) ==
  IF Samples(units)
  THEN /\ sampled_units' = units
       /\ stage' = IF check_elapsed(stage) THEN stage ELSE "refused"
  ELSE UNCHANGED <<sampled_units, stage>>

\* charge_counter accepts a total up to the maximum.
Fits(observed, maximum) == observed <= maximum

Refuse ==
  /\ stage' = "refused"
  /\ UNCHANGED <<counterVars, sampled_units, elapsed, outputs, payload>>

BudgetInit ==
  /\ stage \in {"syntax", "structured"}
  /\ work_units = 0 /\ tree_sitter_nodes = 0
  /\ observations = 0 /\ strings = 0
  /\ sampled_units = 0
  /\ elapsed = 0
  /\ outputs = 0 /\ payload = 0
  /\ in_time = 0

-----------------------------------------------------------------------------
\* Time passes; charges and writes take none.
Elapse ==
  /\ Timed
  /\ elapsed < MaxElapsed
  /\ elapsed' = elapsed + 1
  /\ UNCHANGED <<stage, counterVars, sampled_units, outputs, payload>>
  /\ in_time' = IF Late THEN in_time ELSE Units

\* count_candidates visits one more syntax node.
charge_tree_sitter_node ==
  /\ stage = "syntax"
  /\ IF Fits(tree_sitter_nodes + 1, MaxNodes)
     THEN /\ tree_sitter_nodes' = tree_sitter_nodes + 1
          /\ sample_time(work_units + tree_sitter_nodes + 1)
          /\ UNCHANGED <<work_units, observations, strings, elapsed, outputs,
                         payload>>
     ELSE Refuse
  /\ Record

\* check_tree_sitter_time and check_structured_time, called from parser
\* callbacks and between steps; in time, the call changes nothing.
CheckTime ==
  /\ Timed
  /\ ~check_elapsed(stage)
  /\ Refuse
  /\ Record

\* inspect_source_syntax returns, and the structured stage begins on the same
\* tracker.
EndSyntax ==
  /\ stage = "syntax"
  /\ check_elapsed(stage)
  /\ stage' = "structured"
  /\ UNCHANGED <<counterVars, sampled_units, elapsed, outputs, payload>>
  /\ Record

charge_work(amount) ==
  /\ stage = "structured"
  /\ IF Fits(work_units + amount, MaxWork)
     THEN /\ work_units' = work_units + amount
          /\ sample_time(work_units + amount + tree_sitter_nodes)
          /\ UNCHANGED <<tree_sitter_nodes, observations, strings, elapsed,
                         outputs, payload>>
     ELSE Refuse
  /\ Record

\* charge_string, charge_portable_path and charge_identifier.
charge_value(bytes) ==
  /\ stage = "structured"
  /\ IF bytes <= MaxString /\ Fits(strings + bytes, MaxStrings)
     THEN /\ strings' = strings + bytes
          /\ UNCHANGED <<stage, work_units, tree_sitter_nodes, observations,
                         sampled_units, elapsed, outputs, payload>>
     ELSE Refuse
  /\ Record

\* An extractor charges observations and then pushes them.
charge_observation(amount) ==
  /\ stage = "structured"
  /\ outputs + amount <= MaxOutputs
  /\ IF Fits(observations + amount, MaxObservations)
     THEN /\ observations' = observations + amount
          /\ outputs' = outputs + amount
          /\ UNCHANGED <<stage, work_units, tree_sitter_nodes, strings,
                         sampled_units, elapsed, payload>>
     ELSE Refuse
  /\ Record

\* An extractor without the tracker pushes an output it has not charged.
PushUncharged ==
  /\ stage = "structured"
  /\ outputs < MaxOutputs
  /\ outputs' = outputs + 1
  /\ UNCHANGED <<stage, counterVars, sampled_units, elapsed, payload>>
  /\ Record

\* store_extractor_batch begins: ensure_observations charges what is missing.
ensure_observations ==
  /\ stage = "structured"
  /\ IF observations >= outputs
     THEN stage' = "writing" /\ UNCHANGED observations
     ELSE IF Fits(outputs, MaxObservations)
          THEN stage' = "writing" /\ observations' = outputs
          ELSE stage' = "refused" /\ UNCHANGED observations
  /\ UNCHANGED <<work_units, tree_sitter_nodes, strings, sampled_units,
                 elapsed, outputs, payload>>
  /\ Record

\* BoundedJsonWriter::write keeps a buffer whole or refuses it.
write(bytes) ==
  /\ stage = "writing"
  /\ bytes > 0
  /\ IF Fits(payload + bytes, MaxOutput)
     THEN /\ payload' = payload + bytes
          /\ UNCHANGED <<stage, counterVars, sampled_units, elapsed, outputs>>
     ELSE Refuse
  /\ Record

\* The serializer has written the outputs.
store_extractor_batch ==
  /\ stage = "writing"
  /\ payload > 0
  /\ stage' = "stored"
  /\ UNCHANGED <<counterVars, sampled_units, elapsed, outputs, payload>>
  /\ Record

\* load_extractor_batch_with_budgets under the budgets the batch was stored
\* with (another fingerprint is never reused).
load_extractor_batch ==
  /\ stage = "stored"
  /\ stage' = IF outputs > MaxObservations \/ payload > MaxOutput
              THEN "refused" ELSE "loaded"
  /\ UNCHANGED <<counterVars, sampled_units, elapsed, outputs, payload>>
  /\ Record

BudgetNext ==
  \/ Elapse
  \/ charge_tree_sitter_node
  \/ CheckTime
  \/ EndSyntax
  \/ \E a \in Amounts : charge_work(a)
  \/ \E a \in Amounts : charge_value(a)
  \/ \E a \in Amounts : charge_observation(a)
  \/ PushUncharged
  \/ ensure_observations
  \/ \E a \in Amounts : write(a)
  \/ store_extractor_batch
  \/ load_extractor_batch

BudgetSpec == BudgetInit /\ [][BudgetNext]_budgetVars

-----------------------------------------------------------------------------
\* Every counter of the tracker stays within the maximum the operator set,
\* whichever sequence of charges the extractors make
\* (extraction_budget.rs, charge_counter).
BudgetTypeOK ==
  /\ stage \in {"syntax", "structured", "writing", "stored", "loaded",
                "refused"}
  /\ work_units \in 0..MaxWork
  /\ tree_sitter_nodes \in 0..MaxNodes
  /\ observations \in 0..MaxObservations
  /\ strings \in 0..MaxStrings
  /\ payload \in 0..MaxOutput
  /\ sampled_units \in Nat /\ elapsed \in Nat
  /\ outputs \in Nat /\ in_time \in Nat

\* Once the deadline of its stage has passed, an extraction that has not been
\* refused has accepted no unit of another block than the one it was in, and
\* none at all if it had accepted none (sample_time looks at the clock on the
\* first unit and whenever a block of 1,024 is completed, and both kinds of
\* units advance the same sample).
PromptRefusal ==
  Timed /\ Late =>
    \/ Units = in_time
    \/ in_time > 0 /\ Units \div Block <= in_time \div Block

\* A batch that was stored can be loaded again under the same budgets, also
\* when its extractor charged fewer observations than it returned: reuse never
\* fails where extraction succeeded (batch.rs, store_extractor_batch and
\* load_extractor_batch_with_budgets).
StoredBatchLoads ==
  stage \in {"stored", "loaded"} =>
    outputs <= MaxObservations /\ payload <= MaxOutput

(* The tracker keeps every count within its limit, notices the deadline within
   one block of work, and stores only what the next scan can load. *)
BudgetHolds ==
  /\ BudgetTypeOK
  /\ PromptRefusal
  /\ StoredBatchLoads

=============================================================================
