----------------------------- MODULE Evaluation -----------------------------
(***************************************************************************)
(* The parts of the offline evaluation side by side, which share no state:  *)
(* the result-contract controller (this module extends it), the processes   *)
(* of a run, the loop inside one of them, and the stage-1 baselines.        *)
(***************************************************************************)
EXTENDS ValidatedSubmit

CONSTANTS
  DriftTypes, Gpus, MaxAttempts, MaxDeaths,
  Tasks, Chunks, Turns, MaxStops,
  max_model_calls, max_tool_calls, max_sql_executions,
  max_new_tokens, max_new_tokens_per_call, max_prompt_tokens, max_total_tokens

VARIABLES
  baseOnly, main, pc, index, attempt, completed, child, partial, tmp, result, published, deaths,
  chunk, fallback, process, rows, checkpoint, episodes, turn, instances, report, stops,
  mode, reason, reactTurn, usage, final_sql, scored

Run == INSTANCE EvaluationRun
Loop == INSTANCE EvaluationLoop
Baseline == INSTANCE BaselineEvaluation WITH turn <- reactTurn

ASSUME RunSound == Run!RunAssumption
ASSUME LoopSound == Loop!LoopAssumption
ASSUME BudgetSound == Baseline!BudgetAssumption

\* See EvaluationRun, EvaluationLoop and BaselineEvaluation.
EvaluatedOnce == Run!EvaluatedOnce
ResumeKeepsOrder == Loop!ResumeKeepsOrder
ScoredWithinBudget == Baseline!ScoredWithinBudget
=============================================================================
