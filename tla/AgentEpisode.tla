---------------------------- MODULE AgentEpisode ----------------------------
(***************************************************************************)
(* One agent episode: the loop of the orchestrator over turns, the dispatch *)
(* of ToolRuntime.execute under the state policy, and the tools' answers.   *)
(* The model is free to call any tool with any argument on every turn.      *)
(* ExecutionOnly episodes are free queries, the others recover a cached     *)
(* query whose result contract is known.  The evaluation loop (run_variant  *)
(* under run_stage6_eval's guards) makes the same dispatch with              *)
(* KnowledgeFirst and ends sooner: with any submission, and with a turn      *)
(* without a call.                                                          *)
(***************************************************************************)
EXTENDS StatePolicy

CONSTANTS
  Profiles,    \* the kinds of session: tools, loop, verification mode, SQL, budget
  Sqls,        \* SQL texts the model writes
  NormalForm,  \* their form after strip, trailing ";" and casefold
  Runnable,    \* those that execute on the active schema
  Matching,    \* those that also reproduce the result contract
  Writing,     \* those that start with a write keyword
  Blank,       \* those with no text
  Topics       \* argument values of the retrieval tools

ASSUME EpisodeAssumption ==
  /\ \A p \in Profiles :
       /\ p.tools \subseteq ToolNames
       /\ {"execute_sql", "submit_solution"} \subseteq p.tools
       /\ p.executionOnly \in BOOLEAN /\ p.knowledgeFirst \in BOOLEAN
       /\ p.evaluation \in BOOLEAN
       /\ p.sqls \subseteq Sqls /\ p.sqls # {}
       /\ p.topics \subseteq Topics /\ p.topics # {}
       /\ p.maxTurns \in Nat \ {0} /\ p.maxToolCalls \in Nat \ {0}
  /\ Runnable \subseteq Sqls /\ Matching \subseteq Runnable
  /\ Writing \subseteq Sqls /\ Writing \cap Runnable = {}
  /\ Blank \subseteq Sqls /\ Blank \cap Runnable = {}
  /\ DOMAIN NormalForm = Sqls
  /\ Sqls \cap Topics = {}

VARIABLES
  profile,   \* what the session was created with
  events,    \* active.tool_events
  turn,      \* turns taken
  outcome    \* termination reason, or "running"

vars == <<profile, events, turn, outcome>>

Init ==
  /\ profile \in Profiles
  /\ events = << >> /\ turn = 0 /\ outcome = "running"

Configured == profile.tools
ExecutionOnly == profile.executionOnly     \* verification_mode = "execution_only"
KnowledgeFirst == profile.knowledgeFirst   \* knowledge_first_after_ask
Evaluation == profile.evaluation           \* run by the evaluation loop

Available ==
  SelectDynamicToolNames(events, Configured, KnowledgeFirst, ExecutionOnly)

Arguments(name) ==
  IF name \in {"execute_sql", "submit_solution"} THEN profile.sqls
  ELSE IF name \in {"get_schema", "get_knowledge_definition"} THEN profile.topics
  ELSE {CHOOSE topic \in profile.topics : TRUE}

\* An event with nothing in its observation, and the guards' refusals.
Plain(name, args) ==
  [ tool |-> name, args |-> args, masked |-> FALSE, duplicate |-> FALSE,
    success |-> "absent", match |-> "absent", validated |-> FALSE,
    schema |-> FALSE, submitted |-> FALSE ]
Masked(name, args) ==
  [Plain(name, args) EXCEPT
     !.masked = TRUE,
     !.success = IF name = "execute_sql" /\ ~Evaluation THEN "false" ELSE "absent"]

\* The free-query guard looks at the last execute_sql event of any kind.
Attempts == {i \in DOMAIN events : events[i].tool = "execute_sql"}
\* As if the guard took any statement.
SubmitGuardAnySql(sql) ==
  sql \in Sqls /\ Attempts # {} /\ events[Max(Attempts)].success = "true"

SubmitGuard(sql) ==
  /\ Attempts # {}
  /\ NormalForm[events[Max(Attempts)].args] = NormalForm[sql]
  /\ events[Max(Attempts)].success = "true"

\* SQL that can run may still hit the deadline, and so may its contract check.  A
\* call that raises aborts the orchestrator's run, and leaves the evaluation an event
\* whose text is no JSON.
Executions(sql) ==
  LET event(success, match, validated) ==
        [Plain("execute_sql", sql) EXCEPT
           !.success = success, !.match = match, !.validated = validated]
      contract == IF sql \in Matching THEN "true" ELSE "false"
  IN  {event("false", "absent", FALSE)}
      \cup (IF Evaluation THEN {event("absent", "absent", FALSE)} ELSE {})
      \cup (IF sql \notin Runnable THEN {}
            ELSE IF ExecutionOnly THEN {event("true", "absent", TRUE)}
            ELSE {event("true", contract, sql \in Matching),
                  event("true", "absent", FALSE)})

\* What the tool itself answers.
ToolAnswers(name, args) ==
  CASE name = "execute_sql"     -> Executions(args)
    [] name = "submit_solution" -> {[Plain(name, args) EXCEPT !.submitted = args \notin Blank]}
    [] name = "get_schema"      -> {[Plain(name, args) EXCEPT !.schema = TRUE]}
    [] OTHER                    -> {Plain(name, args)}

\* ToolRuntime.execute: mask, duplicate notice, free-query guard, tool.
Dispatch(name, args) ==
  IF name \notin Available THEN {Masked(name, args)}
  ELSE IF IsExactDuplicateRetrieval(events, name, args)
       THEN {[Plain(name, args) EXCEPT !.duplicate = TRUE]}
  ELSE IF name = "submit_solution" /\ ExecutionOnly /\ ~SubmitGuard(args)
       THEN {Masked(name, args)}
  ELSE ToolAnswers(name, args)

\* The reason the loop ends with after a tool event, or "running".
ReasonAfter(event) ==
  IF event.submitted THEN "submitted"
  ELSE IF Evaluation /\ event.tool = "submit_solution" THEN "invalid_submit"
  ELSE IF ~Evaluation /\ Len(events) + 1 >= profile.maxToolCalls
            /\ event.tool # "submit_solution"
       THEN "max_tool_calls"
  ELSE IF turn + 1 = profile.maxTurns THEN "max_turns" ELSE "running"

CallTool(name, args) ==
  /\ outcome = "running"
  /\ \E event \in Dispatch(name, args) :
       /\ events' = Append(events, event)
       /\ outcome' = ReasonAfter(event)
  /\ turn' = turn + 1
  /\ UNCHANGED profile

MissingCall ==
  /\ outcome = "running"
  /\ turn' = turn + 1
  /\ outcome' = IF Evaluation THEN "invalid_output"
                ELSE IF turn + 1 = profile.maxTurns THEN "max_turns" ELSE "running"
  /\ UNCHANGED <<profile, events>>

Next ==
  \/ \E name \in ToolNames : \E args \in Arguments(name) : CallTool(name, args)
  \/ MissingCall

Spec == Init /\ [][Next]_vars

-----------------------------------------------------------------------------
\* _query_reward and _latest_query_execution_result at the end of an episode.
Submissions == {i \in DOMAIN events : events[i].tool = "submit_solution"}
Unsafe == \E i \in Attempts : events[i].args \in Writing

QueryCompleted ==
  /\ Attempts # {} /\ Submissions # {}
  /\ events[Max(Attempts)].success = "true"
  /\ events[Max(Submissions)].submitted
  /\ NormalForm[events[Max(Attempts)].args]
       = NormalForm[events[Max(Submissions)].args]
  /\ ~Unsafe

Successes == {i \in Attempts : events[i].success = "true"}
ShownResult == events[Max(Successes)].args

-----------------------------------------------------------------------------
\* Properties.

\* The attempts at what retrieval i asked for, itself among them, that were no
\* duplicate notice: the answers, and the attempts that the policy masked.
Attempted(i) ==
  {j \in DOMAIN events :
     /\ j <= i /\ ~events[j].duplicate
     /\ events[j].tool = events[i].tool /\ events[j].args = events[i].args}

\* The agent has seen what retrieval i returns: now or at an earlier attempt.
Seen(i) == \E j \in Attempted(i) : ~events[j].masked

\* is_exact_duplicate_retrieval means an attempt that "already has an observation"
\* (state_policy.py:172), but a masked attempt counts, and the retrieval forced
\* later is answered by the notice that its result is already present.
MaskedEarlier(i) == events[i].duplicate /\ \E j \in Attempted(i) : events[j].masked

\* A recovery episode does not end in a submission while a failed execution or a
\* contract mismatch is unexplained: the schema version and then the diff were
\* retrieved in that order, both before it or both after it, and the agent has seen
\* what they return.  The one exception is a retrieval that the agent attempted
\* while it was masked: it may never be shown.
NoSubmitBeforeRecovery ==
  outcome = "submitted" /\ ~ExecutionOnly
    /\ {"get_schema_version", "inspect_schema_diff"} \subseteq Configured =>
    \A m \in RecoveryTriggers(events) :
      \E v \in ValidOf(events, "get_schema_version"),
         d \in ValidOf(events, "inspect_schema_diff") :
        /\ v < d /\ (d < m \/ v > m)
        /\ \A i \in {v, d} : Seen(i) \/ MaskedEarlier(i)

\* Nor does it run other SQL once a candidate reproduced the contract.
NothingAfterValidated ==
  \A i, j \in ValidOf(events, "execute_sql") :
    events[i].validated => j <= i

\* What a recovery episode that ends in a submission went through, whatever the
\* model called in between: failures, masked attempts and forced retrievals.
RecoveryContract == NoSubmitBeforeRecovery /\ NothingAfterValidated

\* The evaluator refuses calls by the events and renders the prompt's tools by the
\* messages it made of them: after every call that leaves the episode running, the
\* policy's two programs must offer the same tools, or the model would be shown
\* tools that are refused.
PoliciesAgree ==
  outcome = "running" /\ ~ExecutionOnly =>
    RecoveryToolNames(events, Configured, KnowledgeFirst)
      = SelectDynamicToolSchemas(Conversation(events), Configured, KnowledgeFirst)

\* Whatever the agent calls next is refused, and the episode stays as it is.
Stuck ==
  \A name \in ToolNames : \A args \in Arguments(name) :
    \A event \in Dispatch(name, args) : event.masked

\* A free query whose execution succeeded, after which the agent called execute_sql
\* once more: the policy offers the submission alone, and the submission guard
\* compares with that masked attempt, though its message speaks of the "latest
\* successful execution" (tools.py:168).
MaskedRerun ==
  /\ ExecutionOnly /\ HasValidatedExecution(events)
  /\ events[Max(Attempts)].masked

\* Policy, duplicate guard and submission guard together leave the agent a call that
\* gets through, in every state but that one; and there no call ever does.
StuckOnlyByRerun == outcome = "running" => (Stuck <=> MaskedRerun)

\* A free query has read the schema before it runs SQL, and asks no one-shot tool
\* twice, whatever the arguments.
RetrievedOnceAndFirst ==
  /\ ExecutionOnly /\ "get_schema" \in Configured =>
       \A i \in ValidOf(events, "execute_sql") :
         \E j \in ValidOf(events, "get_schema") : j < i /\ events[j].schema
  /\ \A name \in {"get_schema", "get_knowledge_definition", "ask_user"} :
       \A i, j \in ValidOf(events, name) : i = j

\* What a free query promises its user: the protocol was kept; the reward agrees
\* with the guard that accepted the submission, completed unless a write was
\* attempted; and the rows shown, taken from the newest success, are those of the
\* statement that was submitted, which the guard compared with the last attempt.
QueryContract ==
  /\ RetrievedOnceAndFirst
  /\ ExecutionOnly /\ outcome = "submitted" =>
       /\ QueryCompleted <=> ~Unsafe
       /\ NormalForm[ShownResult] = NormalForm[events[Len(events)].args]
=============================================================================
