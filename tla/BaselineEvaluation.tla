-------------------------- MODULE BaselineEvaluation --------------------------
(***************************************************************************)
(* The stage-1 baselines (scripts/run_stage1_baseline.py) and their scoring   *)
(* (scripts/evaluate_stage1_predictions.py, evaluation/bird.py): one task     *)
(* under the call, execution and token budgets, direct or ReAct.  The budgets *)
(* are scaled down; tasks of one batch do not affect each other.              *)
(***************************************************************************)
EXTENDS Integers

CONSTANTS
  max_model_calls, max_tool_calls, max_sql_executions,
  max_new_tokens, max_new_tokens_per_call, max_prompt_tokens, max_total_tokens

\* BirdEvalBudget: every limit is a positive number.
BudgetAssumption ==
  {max_model_calls, max_tool_calls, max_sql_executions, max_new_tokens, max_new_tokens_per_call,
   max_prompt_tokens, max_total_tokens} \subseteq Nat \ {0}

VARIABLES
  mode,         \* "direct" or "react"
  reason,       \* termination_reason
  turn, usage,
  final_sql,    \* the submitted query: none, or whether it runs
  scored        \* the evaluator's record, or None when not scored yet

baselineVars == <<mode, reason, turn, usage, final_sql, scored>>

NotScored == [executable |-> FALSE, within_budget |-> TRUE, done |-> FALSE]

Init ==
  /\ mode \in {"direct", "react"}
  /\ reason = "running" /\ turn = 0
  /\ usage = [model_calls |-> 0, tool_calls |-> 0, sql_executions |-> 0, prompt_tokens |-> 0, new_tokens |-> 0]
  /\ final_sql = "none"
  /\ scored = NotScored

total_tokens == usage.prompt_tokens + usage.new_tokens
Smallest(S) == CHOOSE x \in S : \A y \in S : x <= y
AtLeast0(n) == IF n < 0 THEN 0 ELSE n

\* generate_batch: admission, and the tokens of the answer that are kept.
Refused(prompt) ==
  IF prompt > max_prompt_tokens THEN "prompt_too_long"
  ELSE IF total_tokens + prompt >= max_total_tokens THEN "total_token_budget"
  ELSE "admitted"

AllowedOfNew(prompt, produced) == Smallest({produced, AtLeast0(max_new_tokens - usage.new_tokens)})
Allowed(prompt, produced) ==
  Smallest({produced, AtLeast0(max_new_tokens - usage.new_tokens),
            AtLeast0(max_total_tokens - total_tokens - prompt)})

Generated(prompt, produced) ==
  [usage EXCEPT !.model_calls = @ + 1, !.prompt_tokens = @ + prompt, !.new_tokens = @ + Allowed(prompt, produced)]

Predictions == {"ran", "error"}

\* run_direct: one call; an answer that was cut to nothing holds no query.
PlayDirect ==
  /\ mode = "direct" /\ reason = "running"
  /\ \E prompt \in 1..(max_prompt_tokens + 1) :
       IF Refused(prompt) # "admitted"
       THEN /\ reason' = Refused(prompt)
            /\ UNCHANGED <<usage, final_sql>>
       ELSE \E produced \in 1..max_new_tokens_per_call :
              /\ usage' = Generated(prompt, produced)
              /\ \/ final_sql' \in Predictions /\ reason' = "submitted"
                 \/ UNCHANGED final_sql /\ reason' = "invalid_output"
  /\ UNCHANGED <<mode, turn, scored>>

\* What a ReAct response comes to.
Actions == {"none", "execute_sql", "submit_solution", "other tool"}

\* The checks of run_react on one parsed action, in their order.
React(action, generated) ==
  IF action = "none"
  THEN reason' = "invalid_action" /\ usage' = generated /\ UNCHANGED final_sql
  ELSE IF generated.tool_calls >= max_tool_calls
  THEN reason' = "tool_budget" /\ usage' = generated /\ UNCHANGED final_sql
  ELSE LET counted == [generated EXCEPT !.tool_calls = @ + 1]
       IN CASE action = "submit_solution" ->
                 /\ final_sql' \in Predictions
                 /\ reason' = "submitted" /\ usage' = counted
            [] action = "other tool" -> reason' = "unknown_tool" /\ usage' = counted /\ UNCHANGED final_sql
            [] action = "execute_sql" ->
                 /\ UNCHANGED final_sql
                 /\ IF counted.sql_executions >= max_sql_executions
                    THEN reason' = "sql_execution_budget" /\ usage' = counted
                    ELSE usage' = [counted EXCEPT !.sql_executions = @ + 1] /\ UNCHANGED reason

PlayReact ==
  /\ mode = "react" /\ reason = "running" /\ turn < max_model_calls
  /\ turn' = turn + 1
  /\ \E prompt \in 1..(max_prompt_tokens + 1) :
       IF Refused(prompt) # "admitted"
       THEN /\ reason' = Refused(prompt)
            /\ UNCHANGED <<usage, final_sql>>
       ELSE \E produced \in 1..max_new_tokens_per_call, action \in Actions :
              React(action, Generated(prompt, produced))
  /\ UNCHANGED <<mode, scored>>

\* Under BirdEvalBudget (5 calls, 3 executions) this end and "tool_budget" never
\* come about: a turn that goes on has executed a query.
TurnLimit ==
  /\ mode = "react" /\ reason = "running" /\ turn = max_model_calls
  /\ reason' = "turn_limit"
  /\ UNCHANGED <<mode, turn, usage, final_sql, scored>>

\* score_prediction: the evaluator's own budget check.
WithinBudget ==
  /\ usage.model_calls <= max_model_calls /\ usage.tool_calls <= max_tool_calls
  /\ usage.sql_executions <= max_sql_executions
  /\ usage.new_tokens <= max_new_tokens /\ total_tokens <= max_total_tokens

\* evaluate_prediction; whether the rows are those of the gold query is left out.
Executable == final_sql = "ran"

Score ==
  /\ reason # "running" /\ ~scored.done
  /\ scored' = [executable |-> Executable, within_budget |-> WithinBudget, done |-> TRUE]
  /\ UNCHANGED <<mode, reason, turn, usage, final_sql>>

Next == PlayDirect \/ PlayReact \/ TurnLimit \/ Score

Spec == Init /\ [][Next]_baselineVars

-----------------------------------------------------------------------------
\* The runner charges what the evaluator checks: no prediction it writes is
\* scored as a budget violation, whatever prompts and answers cost, and only a
\* submitted query is scored as executable.
ScoredWithinBudget ==
  scored.done => scored.within_budget /\ (scored.executable => reason = "submitted")
=============================================================================
