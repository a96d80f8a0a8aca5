------------------------- MODULE RecoverySupervision -------------------------
(***************************************************************************)
(* How supervised examples of recovery are made.  The oracle's trajectory of *)
(* a verified task is cut into one example per action                        *)
(* (prepare_p6_generalized_protocol.py).  Rollouts of the current policy are *)
(* labelled when they fail (mine_p6_scaleup_failures.py) and joined with the *)
(* oracle's next action at the state they reached                            *)
(* (build_p6_on_policy_recovery_sft.py).  Both builders keep an example only *)
(* if the state policy offers its action after its history.                  *)
(*                                                                         *)
(* Rollouts are collected with --knowledge-first-after-ask, and the builders *)
(* call the policy without it.  The limit on an example's length is not modelled. *)
(***************************************************************************)
EXTENDS StatePolicy, SequencesExt

CONSTANTS
  Tasks,     \* records: profile, failure
  MaxEvents  \* turns of a rollout

VARIABLES
  task,      \* the task of the rollout
  events,    \* its trajectory
  reason     \* termination_reason, "" while it runs

vars == <<task, events, reason>>

\* A drifted task has one of three profiles, a clean one its own.
TasksAssumption ==
  Tasks \subseteq
    [profile : {"must_ask", "knowledge_only", "schema_only"}, failure : {"explicit", "silent"}]
    \cup {[profile |-> "direct_clean", failure |-> "clean"]}

NoIndex == 0  \* no index; Python counts from 0, these sequences from 1

Clean == task.failure = "clean"

\* An answer with nothing the policy reads, an action the mask refused, and an
\* execution; a call that is none is recorded without a name.
Answered(name, args) ==
  [ tool |-> name, args |-> args, masked |-> FALSE, duplicate |-> FALSE, success |-> "absent",
    match |-> "absent", validated |-> FALSE, schema |-> FALSE, submitted |-> FALSE ]
Refused(name, args) == [Answered(name, args) EXCEPT !.masked = TRUE]
Executed(sql, success, match) ==
  [Answered("execute_sql", sql) EXCEPT !.success = success, !.match = match, !.validated = match = "true"]

-----------------------------------------------------------------------------
\* The oracle's trajectory.  A clean task's cached query is the repaired one.
CanonicalSequence ==
  IF Clean THEN <<"execute_sql", "submit_solution">>
  ELSE <<"execute_sql", "get_schema_version", "inspect_schema_diff">>
       \o (IF task.profile = "must_ask" THEN <<"ask_user">> ELSE <<>>)
       \o (IF task.profile \in {"must_ask", "knowledge_only"} THEN <<"get_knowledge_definition">> ELSE <<>>)
       \o <<"execute_sql", "submit_solution">>

Stale == IF Clean THEN "repaired" ELSE "stale"
Repair == Len(CanonicalSequence) - 1     \* the repaired execution, then the submission
Submit == Len(CanonicalSequence)
CanonicalIndex(name) == Min({i \in 1..Submit : CanonicalSequence[i] = name})

\* The recorded audits carry no contract verdict, so none of them is validated.
StaleObservation ==
  Executed(Stale, IF task.failure = "explicit" THEN "false" ELSE "true", "absent")

CanonicalEvents ==
  [i \in 1..Submit |->
     CASE CanonicalSequence[i] = "execute_sql" /\ i < Repair -> StaleObservation
       [] CanonicalSequence[i] = "execute_sql" /\ i = Repair -> Executed("repaired", "true", "absent")
       [] CanonicalSequence[i] = "submit_solution" -> [Answered("submit_solution", "repaired") EXCEPT !.submitted = TRUE]
       [] OTHER -> Answered(CanonicalSequence[i], "all")]

\* A successful execution after the diff that gives the contract's rows.
ContractAccepted(trajectory) ==
  \E d, x \in DOMAIN trajectory :
    /\ trajectory[d].tool = "inspect_schema_diff" /\ d < x
    /\ trajectory[x].tool = "execute_sql" /\ trajectory[x].args = "repaired" /\ trajectory[x].success = "true"

\* As if every tool were offered to the examples.
OfferedAll(history) == ToolNames

\* What the builders let an example's action be after a history, which they hand to
\* the policy as a conversation.
Offered(history) == SelectDynamicToolSchemas(Conversation(history), ToolNames, FALSE)

-----------------------------------------------------------------------------
\* The rollout: any call, refused by the mask, answered, or repeated in vain.
Init ==
  /\ task \in Tasks
  /\ events = <<>> /\ reason = ""

\* The repaired query may fail as well: an execution has a deadline.
Executions(sql) ==
  {Executed(sql, "false", "absent")}
  \cup (IF sql = "repaired" THEN {Executed(sql, "true", "true")}
        ELSE IF sql = "stale" /\ task.failure = "explicit" THEN {}
        ELSE {Executed(sql, "true", "false")})

Responses(name, sql) ==
  CASE name \notin RecoveryToolNames(events, ToolNames, TRUE) -> {Refused(name, sql)}
    [] OTHER -> IF name = "execute_sql" THEN Executions(sql)
                ELSE {[Answered(name, sql) EXCEPT !.submitted = name = "submit_solution",
                         !.duplicate = IsExactDuplicateRetrieval(events, name, sql)]}

Arguments(name) ==
  CASE name = "execute_sql" -> {Stale, "repaired", "other"}
    [] name = "submit_solution" -> {"repaired", "other"}
    [] OTHER -> {"all"}

\* A name outside ToolNames, such as a misspelt one, is refused like the others.
CallTool(name, args) ==
  /\ reason = "" /\ Len(events) < MaxEvents
  /\ \E event \in Responses(name, args) :
       /\ events' = Append(events, event)
       /\ reason' = CASE name = "submit_solution" -> IF event.submitted THEN "submitted" ELSE "invalid_submit"
                      [] Len(events) + 1 = MaxEvents /\ name # "submit_solution" -> "turn_limit"
                      [] OTHER -> ""
  /\ UNCHANGED task

NoToolCall ==
  /\ reason = "" /\ Len(events) < MaxEvents
  /\ events' = Append(events, Answered("", ""))
  /\ reason' = "invalid_output"
  /\ UNCHANGED task

Next ==
  \/ \E name \in ToolNames \cup {"alias"} : \E args \in Arguments(name) : CallTool(name, args)
  \/ NoToolCall

Spec == Init /\ [][Next]_vars

\* The submission is scored by its rows, the refused one too.
Failed ==
  /\ reason # ""
  /\ ~(Last(events).tool = "submit_solution" /\ Last(events).args = "repaired")

-----------------------------------------------------------------------------
\* Executions that succeeded, and the miner's label that the next step reads.
Succeeded == {i \in DOMAIN events : events[i].tool = "execute_sql" /\ events[i].success = "true"}
NoSubmitAfter(i) == \A j \in DOMAIN events : j > i => events[j].tool # "submit_solution"
DiffEvents == {i \in DOMAIN events : events[i].tool = "inspect_schema_diff"}

\* As if only the last event told how a rollout ended.
LabelsOfLastEvent ==
  IF Len(events) \in Succeeded THEN {"successful_execute_no_submit"} ELSE {}

Labels ==
  IF \E i \in Succeeded : NoSubmitAfter(i) THEN {"successful_execute_no_submit"} ELSE {}

-----------------------------------------------------------------------------
\* The first position whose tool is not the oracle's; the arguments and the
\* answers are not compared.
FirstErrorIndex ==
  LET divergences == {i \in 1..Min({Len(events), Submit}) : events[i].tool # CanonicalSequence[i]}
  IN  IF divergences # {} THEN Min(divergences)
      ELSE IF Len(events) < Submit THEN Len(events) + 1 ELSE Submit

\* Executions of the oracle's query that succeeded, after the audit if there is one.
VerifiedExecutions(history, diff) ==
  {i \in ValidOf(history, "execute_sql") :
     i > diff /\ history[i].success = "true" /\ history[i].args = "repaired"}

StateAwareTarget(history) ==
  LET diffs == ValidOf(history, "inspect_schema_diff")
      diff == IF diffs = {} THEN NoIndex ELSE Min(diffs)
      asks == {i \in ValidOf(history, "ask_user") : i > diff}
      prerequisite == IF asks = {} THEN diff ELSE Min(asks)
      known == \E i \in ValidOf(history, "get_knowledge_definition") : i > prerequisite
  IN  IF (Clean \/ diff # NoIndex) /\ VerifiedExecutions(history, diff) # {} THEN Submit
      ELSE IF Clean THEN Repair
      ELSE IF diff = NoIndex
           THEN CanonicalIndex(IF ValidOf(history, "get_schema_version") = {}
                               THEN "get_schema_version" ELSE "inspect_schema_diff")
      ELSE IF task.profile = "must_ask" /\ asks = {} THEN CanonicalIndex("ask_user")
      ELSE IF task.profile \in {"must_ask", "knowledge_only"} /\ ~known
           THEN CanonicalIndex("get_knowledge_definition")
      ELSE Repair

\* The last execution of the oracle's query after the first diff, refused diffs
\* counted, that no submission follows.
VerifiedTerminal ==
  LET candidates ==
        {i \in Succeeded : /\ DiffEvents # {} /\ i > Min(DiffEvents)
                           /\ events[i].args = "repaired" /\ NoSubmitAfter(i)}
  IN  IF candidates = {} THEN NoIndex ELSE Max(candidates)

\* The candidates for examples of a failed rollout.
Candidates ==
  LET first == FirstErrorIndex
      example(context, history, target) == [context |-> context, history |-> history, target |-> target]
      reached == first <= Len(events) /\ events[first].tool \notin {"", "submit_solution"}
  IN  {example("pre_error", SubSeq(events, 1, first - 1), first)}
      \cup (IF reached
            THEN LET history == SubSeq(events, 1, first)
                 IN {example("post_error", history, StateAwareTarget(history))} ELSE {})
      \cup (IF "successful_execute_no_submit" \in Labels /\ VerifiedTerminal # NoIndex
            THEN {example("terminal_missing", SubSeq(events, 1, VerifiedTerminal), Submit)} ELSE {})

Action(example) == CanonicalSequence[example.target]
IsOffered(example) == Action(example) \in Offered(example.history)
Examples == {example \in Candidates : IsOffered(example)}

-----------------------------------------------------------------------------
\* Properties.

\* First part of TaughtIsOffered: build_trajectory and expand_supervision raise for
\* no task, since the policy allows the oracle's actions although the recorded
\* observations lack the verdicts that live tools add; and the contract audit
\* accepts the drifted tasks only. Their token budget is left out.
OracleIsOffered ==
  /\ \A k \in 1..Submit : CanonicalSequence[k] \in Offered(SubSeq(CanonicalEvents, 1, k - 1))
  /\ ContractAccepted(CanonicalEvents) <=> ~Clean
  /\ Submit <= 7

\* Second part: no example teaches an action that the loops that run the policy, with
\* knowledge first, refuse after the same history; except while a question is
\* open, where a task with no definition is taught an execution they refuse.
TaughtIsAllowed ==
  Failed => \A example \in Examples :
    \/ AwaitsFollowUp(example.history) /\ task.profile \in {"schema_only", "direct_clean"}
    \/ Action(example) \in RecoveryToolNames(example.history, ToolNames, TRUE)

\* Everything the examples teach, the cut trajectory of the oracle and the answers
\* to failed rollouts alike, is something the policy lets the model do.  The first
\* depends on the task alone and is looked at before the rollout begins.
TaughtIsOffered == (events = <<>> => OracleIsOffered) /\ TaughtIsAllowed

\* A rollout that stopped at a verified repair is turned into the example that
\* submits it, unless that is longer than the token limit of
\* build_p6_on_policy_recovery_sft.py:355, which is left out: the miner labels it,
\* though it knows no oracle, and the policy, though it reads other fields, offers
\* the submission.
TerminalStateTaught ==
  Failed /\ VerifiedTerminal # NoIndex =>
    \E example \in Examples : example.context = "terminal_missing"
=============================================================================
