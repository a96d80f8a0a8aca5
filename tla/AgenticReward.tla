---------------------------- MODULE AgenticReward ----------------------------
(***************************************************************************)
(* rewards/agentic.py: what compute_score gives a finished trajectory of    *)
(* TrainingRollout, as operators over its state.  A profile is what the     *)
(* training record says of the episode.  Weights and scores are hundredths; *)
(* tokens are known only by the penalty they cause.  The environment is     *)
(* ready and its own executions do not run into their deadline.             *)
(***************************************************************************)
EXTENDS TrainingRollout

CONSTANTS
  ReadOnly,   \* SQL texts that _is_read_query accepts
  Stale,      \* the cached query of the episode
  Profiles,   \* drift type, whether a question is required, first action wanted
  Weights,    \* the keyword arguments of compute_score
  TokenCosts  \* values of the token penalty, at most 10

DriftTypes == {"clean", "rename_column", "add_column"}

\* version is reward_version; efficientCalls is a number of calls, not a weight.
WeightRecords ==
  [ version : {"v1", "v2", "v3"}, success : Nat, clarify : Nat, required : Nat,
    attempt : Nat, postClarification : Nat, terminal : Nat, addColumn : Nat,
    addColumnInspect : Nat, candidate : Nat, decision : Nat, wrongDecision : Nat,
    premature : Nat, valid : Nat, efficient : Nat, call : Nat, duplicate : Nat,
    repeated : Nat, invalid : Nat, timeout : Nat, turnLimit : Nat,
    missingSubmit : Nat, unsafe : Nat, missingQuestion : Nat,
    unmatchedQuestion : Nat, notFollowedUp : Nat, addColumnMissing : Nat,
    efficientCalls : Nat ]

ASSUME RewardAssumption ==
  /\ Runnable \subseteq ReadOnly /\ ReadOnly \subseteq Sqls /\ Stale \in Sqls
  /\ Profiles \subseteq [drift : DriftTypes, mustAsk : BOOLEAN, target : ToolNames \cup {""}]
  /\ TokenCosts \subseteq 0..10 /\ Weights \in WeightRecords

-----------------------------------------------------------------------------
\* The calls as the response text has them: none when the trajectory timed out.
Written == IF status = "timeout" THEN << >> ELSE events
WrittenOf(name) == {i \in DOMAIN Written : Written[i].tool = name}

\* The list of unmasked events, by the positions it takes from the event list.
Unmasked == Valid(events)
UnmaskedOf(name) == ValidOf(events, name)
FirstOf(name) == IF UnmaskedOf(name) = {} THEN 0 ELSE Min(UnmaskedOf(name))

\* Position of the first diff if the first version came before it, otherwise 0.
InspectionEnd ==
  IF 0 < FirstOf("get_schema_version")
     /\ FirstOf("get_schema_version") < FirstOf("inspect_schema_diff")
  THEN FirstOf("inspect_schema_diff") ELSE 0
OrderedInspection == InspectionEnd > 0

\* As if the inspection does not make a stale query legitimate.
BeforeInspectionIgnored(i) == i \in Unmasked

BeforeInspection(i) == ~OrderedInspection \/ i < InspectionEnd

SubmittedSql ==
  IF WrittenOf("submit_solution") = {} THEN NoArguments
  ELSE Written[Max(WrittenOf("submit_solution"))].raw
FormatValid == SubmittedSql \in ReadOnly
TaskSuccess == SubmittedSql \in ReadOnly \cap Matching
TestedSolution ==
  \E i \in WrittenOf("execute_sql") : Written[i].raw = SubmittedSql
TerminalValidated == FormatValid /\ TestedSolution

\* Executions that reproduced the contract; the search stops at the first, and a
\* correct submission is looked for before the others.
Candidates == {i \in UnmaskedOf("execute_sql") : events[i].args \in ReadOnly \cap Matching}
CorrectCandidate ==
  IF Weights.version = "v1" \/ Candidates = {} THEN {}
  ELSE IF \E i \in Candidates : events[i].args = SubmittedSql THEN {SubmittedSql}
       ELSE {events[Min(Candidates)].args}

Unsafe ==
  \/ \E i \in WrittenOf("execute_sql") : Written[i].raw \notin ReadOnly
  \/ SubmittedSql \in Sqls \ ReadOnly
  \/ \E i \in UnmaskedOf("execute_sql") :
       events[i].answered /\ events[i].args \notin ReadOnly
InvalidSql ==
  Cardinality({i \in WrittenOf("execute_sql") : Written[i].raw \notin ReadOnly})
    + (IF SubmittedSql \in Sqls \ ReadOnly THEN 1 ELSE 0)

\* A query that runs fails by its deadline alone.
TimedOut ==
  \/ status = "timeout"
  \/ \E i \in UnmaskedOf("execute_sql") :
       events[i].success = "false" /\ events[i].args \in Runnable
TurnLimit ==
  /\ status = "completed" /\ Len(events) >= MaxTurns
  /\ \A i \in DOMAIN events : events[i].tool # "submit_solution"

-----------------------------------------------------------------------------
\* Clarification.  The text of a question counts when no metric tells of it.
Matched ==
  \/ \E i \in DOMAIN events : events[i].clarified = "yes"
  \/ \E i \in WrittenOf("ask_user") : Written[i].raw \in Answerable
Attempted == UnmaskedOf("ask_user") # {}
FollowedUp ==
  LET later == {i \in Unmasked : i > FirstOf("ask_user")}
  IN  /\ Attempted /\ later # {}
      /\ events[Min(later)].tool \in POST_CLARIFICATION_TOOLS
DuplicateQuestions == Cardinality({i \in DOMAIN events : events[i].clarified = "again"})

Excess(name) == Cardinality(WrittenOf(name)) - 1
AtLeast0(n) == IF n < 0 THEN 0 ELSE n
DuplicateExecutions ==
  LET runs == WrittenOf("execute_sql")
  IN  Cardinality(runs) - Cardinality({Written[i].raw : i \in runs})
Repeated == AtLeast0(Excess("ask_user")) + AtLeast0(Excess("get_schema"))
              + AtLeast0(Excess("get_knowledge_definition"))

\* The stale query of an add-column episode, repeated or submitted uninspected.
StaleAt(name) == {i \in UnmaskedOf(name) : events[i].args = Stale /\ BeforeInspection(i)}

\* As if only repetition is punished, not the submission.
PrematureStaleRepeated(p) ==
  p.drift = "add_column" /\ Cardinality(StaleAt("execute_sql")) > 1

PrematureStale(p) ==
  p.drift = "add_column"
    /\ (StaleAt("submit_solution") # {} \/ Cardinality(StaleAt("execute_sql")) > 1)

-----------------------------------------------------------------------------
Grounded == Weights.version # "v1"

AddColumnInspected(p) ==
  p.drift = "add_column"
    /\ IF Grounded THEN OrderedInspection
       ELSE FirstOf("get_schema_version") > 0 /\ FirstOf("inspect_schema_diff") > 0
AddColumnValidated(p) ==
  p.drift = "add_column" /\ OrderedInspection
    /\ \E i \in Candidates : i > InspectionEnd /\ events[i].args \in CorrectCandidate
AddColumnComplete(p) ==
  AddColumnInspected(p) /\ TerminalValidated
    /\ (Grounded => AddColumnValidated(p) /\ TaskSuccess)

ProtocolSuccess(p) ==
  TaskSuccess /\ TerminalValidated
    /\ (p.drift # "clean" => OrderedInspection)
    /\ (p.mustAsk => Matched /\ FollowedUp)
    /\ (p.drift = "add_column" => AddColumnComplete(p))

RewardedSuccess(p) == IF Weights.version = "v3" THEN ProtocolSuccess(p) ELSE TaskSuccess
Efficient ==
  TaskSuccess /\ Len(Written) <= Weights.efficientCalls
    /\ DuplicateQuestions = 0 /\ DuplicateExecutions = 0
DecisionCorrect(p) == 
  p.target # "" /\ Unmasked # {} /\ events[Min(Unmasked)].tool = p.target
EventSucceeded ==
  \E i \in UnmaskedOf("execute_sql") : events[i].answered /\ events[i].success # "false"

\* Half a weight when only an execution of the trajectory succeeded.
ValidReward ==
  IF Grounded THEN 0
  ELSE IF SubmittedSql \in Runnable THEN Weights.valid
       ELSE IF EventSucceeded THEN Weights.valid \div 2 ELSE 0

If(condition, weight) == IF condition THEN weight ELSE 0

SuccessReward(p) == If(RewardedSuccess(p), Weights.success)

ClarificationReward(p) ==
  If(p.mustAsk /\ Matched, Weights.required)
    + If(~Grounded /\ p.mustAsk /\ Attempted, Weights.attempt)
    + If(p.mustAsk /\ FollowedUp /\ (Grounded => Matched), Weights.postClarification)

Rewards(p) ==
  SuccessReward(p) + ClarificationReward(p) + ValidReward
    + If(Matched /\ FormatValid, Weights.clarify)
    + If(Efficient /\ (Weights.version = "v3" => ProtocolSuccess(p)), Weights.efficient)
    + If(TerminalValidated /\ (Grounded => TaskSuccess), Weights.terminal)
    + If(AddColumnInspected(p), Weights.addColumnInspect)
    + If(Grounded /\ CorrectCandidate # {}, Weights.candidate)
    + If(AddColumnComplete(p), Weights.addColumn)
    + If(DecisionCorrect(p), Weights.decision)

Penalties(p, tokens) ==
  Weights.call * Len(Written) + tokens
    + Weights.duplicate * (DuplicateQuestions + DuplicateExecutions)
    + Weights.repeated * Repeated + Weights.invalid * InvalidSql
    + If(TimedOut, Weights.timeout) + If(TurnLimit, Weights.turnLimit)
    + If(~FormatValid, Weights.missingSubmit) + If(Unsafe, Weights.unsafe)
    + If(p.mustAsk /\ ~Attempted, Weights.missingQuestion)
    + If(p.mustAsk /\ Attempted /\ ~Matched, Weights.unmatchedQuestion)
    + If(p.mustAsk /\ Matched /\ ~FollowedUp, Weights.notFollowedUp)
    + If(p.drift = "add_column" /\ ~AddColumnComplete(p), Weights.addColumnMissing)
    + If(p.target # "" /\ ~DecisionCorrect(p), Weights.wrongDecision)
    + If(PrematureStale(p), Weights.premature)

Score(p, tokens) == Rewards(p) - Penalties(p, tokens)

-----------------------------------------------------------------------------
\* Properties.  A trajectory is graded when it has ended without an error.
Graded == stage = "done" /\ status # "error"
BothInspections == {"get_schema_version", "inspect_schema_diff"} \subseteq Tools
DiffFirst == UnmaskedOf("inspect_schema_diff") # {} /\ ~OrderedInspection

\* The guards keep a rollout off the shortcut that the reward punishes: a stale
\* query whose failure or mismatch the policy could read is not run or submitted
\* again before the inspection.  What the reward calls an inspection may be the
\* notice of an earlier call that was masked; and where the diff came before the
\* first version, the policy's recovery is not what it calls one.
GuardsPreventShortcut ==
  Graded /\ mode.guarded /\ BothInspections /\ ~DiffFirst =>
    \A p \in Profiles : PrematureStale(p) =>
      \A i \in StaleAt("execute_sql"),
         j \in StaleAt("execute_sql") \cup StaleAt("submit_solution") :
        i < j => events[i].match # "false" /\ events[i].success # "false"

\* With the guards on, no rollout submits past a failure it could read, except on
\* retrievals called for too early, and none takes the shortcut that the reward was
\* tuned to punish.
GuardsKeepProtocol == NoSubmitBeforeRecovery /\ GuardsPreventShortcut

\* What ShortcutIsNegative needs of the weights: the shaping is grounded in
\* executions, the cached query misses the contract, and the two rewards left to an
\* uninspected submission weigh less than the two penalties it is sure of.
Deterrent ==
  /\ Weights.version \in {"v2", "v3"} /\ Stale \notin Matching
  /\ Weights.clarify + Weights.decision < Weights.premature + Weights.addColumnMissing

\* tests/test_reward_v2.py:87: submitting the stale query of an add-column episode
\* uninspected is worth less than nothing, whatever was earned before.  For
\* records that need no question, and unless the answer was found on the way.
ShortcutIsNegative ==
  Graded => \A p \in Profiles, tokens \in TokenCosts :
    p.drift = "add_column" /\ ~p.mustAsk /\ StaleAt("submit_solution") # {}
      /\ CorrectCandidate = {}
        => Score(p, tokens) < 0

=============================================================================
