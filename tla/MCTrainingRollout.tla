-------------------------- MODULE MCTrainingRollout --------------------------
(* Values for the runs of TrainingRollout and AgenticReward.  Of the queries,    *)
(* "stale" and "wide" run but answer something else, "wide" at length, "fixed"  *)
(* is right and "broken" does not run.                                          *)
EXTENDS AgenticReward

FiveTools == {"ask_user", "get_schema_version", "inspect_schema_diff",
              "execute_sql", "submit_solution"}
\* The guards only take calls away: without them, blocking calls are enough.
ThreeModes == [guarded : {TRUE}, sync : BOOLEAN] \cup [guarded : {FALSE}, sync : {TRUE}]
TwoModes == {m \in ThreeModes : m.guarded # m.sync}

AllProfiles ==
  [ drift : DriftTypes, mustAsk : BOOLEAN, target : {"execute_sql"} ]

\* scripts/train_7b_p6_first_action_grpo.sh:66-94.
FirstActionWeights ==
  [ version |-> "v3", success |-> 100, clarify |-> 0, required |-> 20,
    attempt |-> 0, postClarification |-> 10, terminal |-> 15, addColumn |-> 15,
    addColumnInspect |-> 30, candidate |-> 35, decision |-> 30, wrongDecision |-> 0,
    premature |-> 50, valid |-> 0, efficient |-> 5, call |-> 1, duplicate |-> 8,
    repeated |-> 8, invalid |-> 10, timeout |-> 25, turnLimit |-> 50,
    missingSubmit |-> 30, unsafe |-> 100, missingQuestion |-> 20,
    unmatchedQuestion |-> 10, notFollowedUp |-> 10, addColumnMissing |-> 5,
    efficientCalls |-> 7 ]

ASSUME FirstActionDeterrent == Deterrent
=============================================================================
