SPECIFICATION MCSpec
CONSTANTS
  DriftTypes <- MCDriftTypes
  Gpus = 2
  MaxAttempts = 2
  MaxDeaths = 0
  Tasks = 3
  Chunks = {1, 2}
  Turns = 2
  MaxStops = 2
  MaxEvents = 4
  max_model_calls = 3
  max_tool_calls = 3
  max_sql_executions = 1
  max_new_tokens = 3
  max_new_tokens_per_call = 2
  max_prompt_tokens = 3
  max_total_tokens = 8
INVARIANTS
  EvaluatedOnce
  ResumeKeepsOrder
  ScoredWithinBudget
PROPERTIES
  EvaluationEnds
  DecisionStands
CHECK_DEADLOCK FALSE
