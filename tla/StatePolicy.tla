----------------------------- MODULE StatePolicy -----------------------------
(***************************************************************************)
(* The pure functions of integrations/state_policy.py: which tools a        *)
(* trajectory allows next, computed from its event list by the live loops   *)
(* (select_dynamic_tool_names) and from the chat messages by the evaluator  *)
(* that renders the prompt (select_dynamic_tool_schemas).                   *)
(*                                                                         *)
(* An event keeps what these functions read of it: the tool, the arguments, *)
(* whether the guard masked it, and the fields of the observation.          *)
(***************************************************************************)
EXTENDS Integers, Sequences, FiniteSetsExt

RETRIEVAL_TOOLS ==
  {"get_schema_version", "inspect_schema_diff", "get_schema",
   "get_knowledge_definition"}
ONE_SHOT_TOOLS == RETRIEVAL_TOOLS \cup {"ask_user"}
POST_CLARIFICATION_TOOLS == {"get_knowledge_definition", "execute_sql"}
ToolNames == ONE_SHOT_TOOLS \cup {"execute_sql", "submit_solution"}

\* An event is a record: tool and args; masked (action_masked, which every guard
\* writes into the metrics and into the observation's text); duplicate
\* (duplicate_retrieval); success and match (result_contract_match), each JSON's
\* true, false or absent; validated (validated_for_submit is True); schema (the
\* observation carries one); submitted.
-----------------------------------------------------------------------------
\* Positions of the events that were not masked, all or those of one tool.
Valid(events) == {i \in DOMAIN events : ~events[i].masked}
ValidOf(events, name) == {i \in Valid(events) : events[i].tool = name}

\* An execution that failed or missed the result contract triggers recovery.
RecoveryTriggers(events) ==
  {i \in ValidOf(events, "execute_sql") :
     events[i].success = "false" \/ events[i].match = "false"}

\* As if the retrievals count in either order.
AlreadyRecoveredAnyOrder(events, mismatch) ==
  \E v \in ValidOf(events, "get_schema_version"),
     d \in ValidOf(events, "inspect_schema_diff") : v < mismatch /\ d < mismatch

AlreadyRecovered(events, mismatch) ==
  \E v \in ValidOf(events, "get_schema_version"),
     d \in ValidOf(events, "inspect_schema_diff") : v < d /\ d < mismatch

VersionsAfter(events, mismatch) ==
  {v \in ValidOf(events, "get_schema_version") : v > mismatch}

OrderedDiff(events, mismatch) ==
  \E d \in ValidOf(events, "inspect_schema_diff") :
    d > Min(VersionsAfter(events, mismatch))

\* The newest trigger that was neither preceded nor followed by the version and
\* diff retrievals in that order decides; "" when there is none.
RequiredRecovery(events) ==
  LET unresolved ==
        {m \in RecoveryTriggers(events) :
           /\ ~AlreadyRecovered(events, m)
           /\ VersionsAfter(events, m) = {} \/ ~OrderedDiff(events, m)}
  IN  IF unresolved = {} THEN ""
      ELSE IF VersionsAfter(events, Max(unresolved)) = {}
           THEN "get_schema_version" ELSE "inspect_schema_diff"

\* Only the newest execution that was not masked counts.
HasValidatedExecution(events) ==
  LET executions == ValidOf(events, "execute_sql")
  IN  executions # {} /\ events[Max(executions)].validated

CalledOneShot(events) ==
  {events[i].tool : i \in Valid(events)} \cap ONE_SHOT_TOOLS

\* As if knowledge comes first even when it was already retrieved.
KnowledgeOnly(available, knowledgeFirst) ==
  IF knowledgeFirst THEN available \cap {"get_knowledge_definition"}
  ELSE available \cap POST_CLARIFICATION_TOOLS

PostClarificationTools(available, knowledgeFirst) ==
  LET allowed == available \cap POST_CLARIFICATION_TOOLS
  IN  IF ~knowledgeFirst THEN allowed
      ELSE IF "get_knowledge_definition" \in allowed
           THEN {"get_knowledge_definition"} ELSE allowed \cap {"execute_sql"}

\* The last answered question that no retrieval or execution has followed up.
AwaitsFollowUp(events) ==
  LET asked == ValidOf(events, "ask_user")
  IN  /\ asked # {}
      /\ \A i \in Valid(events) :
           i > Max(asked) => events[i].tool \notin POST_CLARIFICATION_TOOLS

AfterClarification(events, available, knowledgeFirst) ==
  IF AwaitsFollowUp(events)
  THEN available \cap PostClarificationTools(available, knowledgeFirst)
  ELSE available

-----------------------------------------------------------------------------
\* select_dynamic_tool_names(..., execution_only=True): free-query sessions.
QueryToolNames(events, toolNames) ==
  LET schemaRetrieved == \E i \in ValidOf(events, "get_schema") : events[i].schema
      remaining == toolNames \ CalledOneShot(events)
  IN  IF ~schemaRetrieved /\ "get_schema" \in toolNames THEN {"get_schema"}
      ELSE IF HasValidatedExecution(events)
           THEN remaining \cap {"submit_solution"}
           ELSE remaining \ {"submit_solution"}

\* select_dynamic_tool_names otherwise: recovery sessions and training loops.
RecoveryToolNames(events, toolNames, knowledgeFirst) ==
  LET required == RequiredRecovery(events)
      available == toolNames \ CalledOneShot(events)
  IN  IF required \in toolNames THEN {required}
      ELSE IF HasValidatedExecution(events) /\ "submit_solution" \in available
           THEN {"submit_solution"}
           ELSE AfterClarification(events, available, knowledgeFirst)

SelectDynamicToolNames(events, toolNames, knowledgeFirst, executionOnly) ==
  IF executionOnly THEN QueryToolNames(events, toolNames)
  ELSE RecoveryToolNames(events, toolNames, knowledgeFirst)

-----------------------------------------------------------------------------
\* The conversation that a loop makes of its events: the prompt, and for each event
\* the assistant's call and the tool's message (the evaluation's execute_turn, the
\* corpus builders' event_messages).
\* As if a guard told its masking to the metrics only.
ObservationUnmarked(event) ==
  [ masked |-> FALSE, success |-> event.success, match |-> event.match,
    validated |-> event.validated ]

\* What the JSON of a tool message says.
Observation(event) ==
  [ masked |-> event.masked, success |-> event.success, match |-> event.match,
    validated |-> event.validated ]

PromptMessage == [role |-> "user"]
CallMessage(event) == [role |-> "assistant", call |-> event.tool]
ToolMessage(event) == [role |-> "tool", observation |-> Observation(event)]

Conversation(events) ==
  [i \in 1..(2 * Len(events) + 1) |->
     IF i = 1 THEN PromptMessage
     ELSE IF i % 2 = 0 THEN CallMessage(events[i \div 2])
     ELSE ToolMessage(events[(i - 1) \div 2])]

\* pending_tool at message i: the call of the last assistant message, "" once a tool
\* message has answered it.
PendingTool(messages, i) ==
  LET spoken == {j \in 1..(i - 1) : messages[j].role \in {"assistant", "tool"}}
  IN  IF spoken = {} \/ messages[Max(spoken)].role = "tool" THEN ""
      ELSE messages[Max(spoken)].call

\* completed_events: the tool messages that answer a call, at their positions.
CompletedEvents(messages) ==
  [i \in {j \in DOMAIN messages : messages[j].role = "tool" /\ PendingTool(messages, j) # ""} |->
     [ tool |-> PendingTool(messages, i),
       masked |-> messages[i].observation.masked,
       success |-> messages[i].observation.success,
       match |-> messages[i].observation.match,
       validated |-> messages[i].observation.validated ]]

\* select_dynamic_tool_schemas: the policy a second time, over the tool messages.
SelectDynamicToolSchemas(messages, names, knowledgeFirst) ==
  LET completed == CompletedEvents(messages)
      unmasked == {i \in DOMAIN completed : ~completed[i].masked}
      available == names \ (ONE_SHOT_TOOLS \cap {completed[i].tool : i \in unmasked})
      required == RequiredRecovery(completed)
      asks == {i \in unmasked : completed[i].tool = "ask_user"}
      followedUp == \E i \in unmasked :
        i > Max(asks) /\ completed[i].tool \in POST_CLARIFICATION_TOOLS
  IN  IF required \in names THEN {required}
      ELSE IF HasValidatedExecution(completed) /\ "submit_solution" \in names
           THEN {"submit_solution"}
      ELSE IF asks = {} \/ followedUp THEN available
      ELSE available \cap PostClarificationTools(available, knowledgeFirst)

-----------------------------------------------------------------------------
\* A retrieval whose tool and arguments were already tried, masked or not.
IsExactDuplicateRetrieval(events, name, args) ==
  /\ name \in RETRIEVAL_TOOLS
  /\ \E i \in DOMAIN events : events[i].tool = name /\ events[i].args = args
=============================================================================
