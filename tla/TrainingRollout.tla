--------------------------- MODULE TrainingRollout ---------------------------
(***************************************************************************)
(* One training trajectory: DriftToolAgentLoop around VERL's agent loop,    *)
(* with the tool instances it creates call by call, the database copy of    *)
(* the SQL executor, the worker threads that make, query and outlive it,    *)
(* and the trajectory's timeout.  VERL takes one call per turn.             *)
(* A tool response longer than max_tool_response_length is cut, and what    *)
(* is cut is JSON no longer: the policy then reads nothing from it.         *)
(***************************************************************************)
EXTENDS StatePolicy, FiniteSets

CONSTANTS
  Tools,     \* tools of the trajectory
  Sqls,      \* SQL texts the model writes
  Runnable,  \* those that execute on the active schema
  Matching,  \* those that also reproduce the result contract
  Long,      \* those whose response is longer than max_tool_response_length
  Questions, \* questions the model may put to the user
  Answerable,\* those that name the ambiguous term of the request
  MaxQuestions, \* questions the simulated user takes
  Modes,     \* guarded: the state guards and the dynamic mask are on;
             \* sync: database work runs on the event loop (sync_io)
  MaxTurns   \* assistant turns VERL allows

ASSUME RolloutAssumption ==
  /\ {"execute_sql", "submit_solution"} \subseteq Tools /\ Tools \subseteq ToolNames
  /\ Matching \subseteq Runnable /\ Runnable \subseteq Sqls /\ Long \subseteq Runnable
  /\ Answerable \subseteq Questions /\ MaxQuestions \in Nat
  /\ Modes \subseteq [guarded : BOOLEAN, sync : BOOLEAN]
  /\ MaxTurns \in Nat \ {0}

VARIABLES
  mode,     \* guarded and sync of this run
  stage,    \* where the trajectory is suspended
  call,     \* the call in progress
  events,   \* context["events"]
  turn,     \* calls made
  held,     \* tools whose _instances hold the trajectory
  listed,   \* context["tools"]: what the loop will release
  copy,     \* the executor's temporary database copy; "orphan": nobody's
  worker,   \* the thread that works for the trajectory
  status    \* context["status"]

vars == <<mode, stage, call, events, turn, held, listed, copy, worker, status>>

\* The retrievals of a recovery take no arguments, and a call that was masked
\* leaves none in its event.
NoArguments == "none"

Arguments(name) ==
  CASE name \in {"execute_sql", "submit_solution"} -> Sqls
    [] name = "ask_user" -> Questions
    [] OTHER -> {NoArguments}

NoCall == [tool |-> "submit_solution", args |-> NoArguments]

Init ==
  /\ mode \in Modes
  /\ stage = "generating" /\ call = NoCall /\ events = << >> /\ turn = 0
  /\ held = {} /\ listed = {} /\ copy = "none" /\ worker = "idle"
  /\ status = "running"

-----------------------------------------------------------------------------
\* An event as _call_tool records it, without an answer yet.  Next to what the
\* policy reads it keeps the call as written (raw), whether the tool answered, and
\* two of its metrics: the execution missed, the question clarified something.
Event(name, args) ==
  [ tool |-> name, args |-> args, masked |-> FALSE, duplicate |-> FALSE,
    success |-> "absent", match |-> "absent", validated |-> FALSE,
    schema |-> FALSE, submitted |-> FALSE,
    raw |-> args, answered |-> FALSE, missed |-> FALSE, clarified |-> "no" ]

\* The mask answers before the arguments are read.
MaskedEvent(name, args) ==
  [Event(name, args) EXCEPT !.args = NoArguments, !.masked = TRUE]

\* The duplicate guard answers that the retrieval was made before.
DuplicateEvent(name, args) == [Event(name, args) EXCEPT !.duplicate = TRUE]

\* The simulated user knows the term once and takes MaxQuestions questions.
AskedBefore == {i \in ValidOf(events, "ask_user") : events[i].answered}
Clarified(question) ==
  IF question \notin Answerable \/ Cardinality(AskedBefore) >= MaxQuestions THEN "no"
  ELSE IF \E i \in AskedBefore : events[i].clarified # "no" THEN "again" ELSE "yes"

PlainAnswer(name, args) ==
  [Event(name, args) EXCEPT
     !.answered = TRUE,
     !.schema = (name = "get_schema"),
     !.submitted = (name = "submit_solution"),
     !.clarified = IF name = "ask_user" THEN Clarified(args) ELSE "no"]

\* The executor's answer; a contract check cut off by its deadline tells nothing,
\* and execute itself may raise.
Executions(sql) ==
  LET raised   == Event("execute_sql", sql)
      failed   == [raised EXCEPT !.answered = TRUE, !.success = "false", !.missed = TRUE]
      executed == [failed EXCEPT !.success = "true", !.missed = FALSE]
      match    == sql \in Matching
      checked  == [executed EXCEPT !.match = IF match THEN "true" ELSE "false",
                                   !.validated = match, !.missed = ~match]
  IN  IF sql \notin Runnable THEN {raised, failed}
      ELSE {raised, failed, executed, checked}

\* What is left of an answer after the cut.
Truncated(event) ==
  IF event.args \in Long /\ event.success = "true"
  THEN [event EXCEPT !.success = "absent", !.match = "absent", !.validated = FALSE]
  ELSE event

Allowed == SelectDynamicToolNames(events, Tools, FALSE, FALSE)
MaskedCall(name) == mode.guarded /\ name \notin Allowed
DuplicateCall(name, args) ==
  mode.guarded /\ IsExactDuplicateRetrieval(events, name, args)

\* _call_tool's finally appends the event; a submit_solution of any outcome
\* ends the trajectory.
Records(event) ==
  /\ events' = Append(events, event)
  /\ call' = NoCall
  /\ IF event.tool = "submit_solution"
     THEN stage' = "releasing" /\ status' = "completed"
     ELSE stage' = "generating" /\ UNCHANGED status

\* As if the event is appended after the answer, not in the finally block.
CutShortUnlogged(pending) == pending \in {call} /\ UNCHANGED events

CutShort(pending) == events' = Append(events, Event(pending.tool, pending.args))

-----------------------------------------------------------------------------
Calls(name, args) ==
  /\ stage = "generating" /\ turn < MaxTurns
  /\ name \in Tools /\ args \in Arguments(name)
  /\ turn' = turn + 1
  /\ UNCHANGED mode

\* The mask or the duplicate guard answers in the tool's place.
RefusedCall(name, args) ==
  /\ Calls(name, args)
  /\ \/ MaskedCall(name) /\ Records(MaskedEvent(name, args))
     \/ /\ ~MaskedCall(name) /\ DuplicateCall(name, args)
        /\ Records(DuplicateEvent(name, args))
  /\ UNCHANGED <<held, listed, copy, worker>>

Dispatched(name, args) ==
  Calls(name, args) /\ ~MaskedCall(name) /\ ~DuplicateCall(name, args)

\* Tools other than the executor create and answer without suspending.
PlainCall(name, args) ==
  /\ Dispatched(name, args) /\ name # "execute_sql"
  /\ held' = held \cup {name} /\ listed' = listed \cup {name}
  /\ Records(PlainAnswer(name, args))
  /\ UNCHANGED <<copy, worker>>

\* The first execution registers the trajectory and has its copy made.
SqlCallCopies(sql) ==
  /\ Dispatched("execute_sql", sql) /\ ~mode.sync /\ "execute_sql" \notin held
  /\ stage' = "copying" /\ call' = [tool |-> "execute_sql", args |-> sql]
  /\ held' = held \cup {"execute_sql"} /\ copy' = "making" /\ worker' = "copying"
  /\ UNCHANGED <<events, listed, status>>

CopyMade ==
  /\ stage = "copying"
  /\ copy' = "ready" /\ worker' = "querying" /\ stage' = "querying"
  /\ listed' = listed \cup {"execute_sql"}
  /\ UNCHANGED <<mode, call, events, turn, held, status>>

\* The copy fails: create removes it and the state, and the error is recorded.
CopyFails ==
  /\ stage = "copying"
  /\ copy' = "none" /\ worker' = "idle" /\ held' = held \ {"execute_sql"}
  /\ Records(Event("execute_sql", call.args))
  /\ UNCHANGED <<mode, turn, listed>>

\* Later ones find the state of the first.
SqlCallReuses(sql) ==
  /\ Dispatched("execute_sql", sql) /\ ~mode.sync /\ "execute_sql" \in held
  /\ stage' = "querying" /\ call' = [tool |-> "execute_sql", args |-> sql]
  /\ worker' = "querying"
  /\ UNCHANGED <<events, held, listed, copy, status>>

QueryAnswers ==
  /\ stage = "querying"
  /\ worker' = "idle"
  /\ \E event \in Executions(call.args) : Records(Truncated(event))
  /\ UNCHANGED <<mode, turn, held, listed, copy>>

\* With sync_io the copy and the query block the event loop.
SqlCallBlocks(sql) ==
  /\ Dispatched("execute_sql", sql) /\ mode.sync
  /\ \/ /\ held' = held \cup {"execute_sql"} /\ listed' = listed \cup {"execute_sql"}
        /\ copy' = "ready"
        /\ \E event \in Executions(sql) : Records(Truncated(event))
     \/ /\ "execute_sql" \notin held
        /\ Records(Event("execute_sql", sql))
        /\ UNCHANGED <<held, listed, copy>>
  /\ UNCHANGED worker

-----------------------------------------------------------------------------
\* VERL's loop returns (no call, turn or length limit) or generation raises.
LoopEnds ==
  /\ stage = "generating"
  /\ stage' = "releasing" /\ status' \in {"completed", "error"}
  /\ UNCHANGED <<mode, call, events, turn, held, listed, copy, worker>>

\* As if a timeout that falls into database work is not noticed.
Interruptible == {"generating"}

Suspended == {"generating", "copying", "querying"}

\* wait_for cancels the loop: the call in progress leaves an event without an
\* answer; its thread goes on, unless it had not begun.  A copy that was being
\* made was only known to the cancelled frame, whose end removes its directory;
\* the executor's state stays registered.
TimesOut ==
  /\ stage \in Suspended
  /\ stage' = "releasing" /\ status' = "timeout" /\ call' = NoCall
  /\ IF stage = "generating" THEN UNCHANGED events ELSE CutShort(call)
  /\ copy' = IF copy = "making" THEN "none" ELSE copy
  /\ worker' \in {worker, "idle"}
  /\ UNCHANGED <<mode, turn, held, listed>>

\* As if only a completed trajectory releases its tools.
ReleasesCompleted(name) ==
  /\ stage = "releasing" /\ name \in listed
  /\ listed' = listed \ {name}
  /\ held' = IF status = "completed" THEN held \ {name} ELSE held
  /\ copy' = IF status = "completed" /\ name = "execute_sql" THEN "none" ELSE copy
  /\ UNCHANGED <<mode, stage, call, events, turn, worker, status>>

\* The finally block of run releases the listed tools one after the other.
Releases(name) ==
  /\ stage = "releasing" /\ name \in listed
  /\ listed' = listed \ {name} /\ held' = held \ {name}
  /\ copy' = IF name = "execute_sql" THEN "none" ELSE copy
  /\ UNCHANGED <<mode, stage, call, events, turn, worker, status>>

Finishes ==
  /\ stage = "releasing" /\ listed = {}
  /\ stage' = "done"
  /\ UNCHANGED <<mode, call, events, turn, held, listed, copy, worker, status>>

\* A thread whose caller was cancelled comes to its end on its own.  One that
\* copies makes the directory it needs, and may do so after its removal.
WorkerEnds ==
  /\ stage \in {"releasing", "done"} /\ worker # "idle"
  /\ worker' = "idle"
  /\ IF worker = "copying" THEN copy' \in {copy, "orphan"} ELSE UNCHANGED copy
  /\ UNCHANGED <<mode, stage, call, events, turn, held, listed, status>>

Call ==
  \/ \E name \in Tools : \E args \in Arguments(name) :
       RefusedCall(name, args) \/ PlainCall(name, args)
  \/ \E sql \in Sqls : SqlCallCopies(sql) \/ SqlCallReuses(sql) \/ SqlCallBlocks(sql)

Release == Finishes \/ \E name \in Tools : Releases(name)

Next ==
  \/ Call \/ CopyMade \/ CopyFails \/ QueryAnswers
  \/ LoopEnds \/ TimesOut \/ Release \/ WorkerEnds

\* The event loop serves the timeout and the finally block.  How long the model
\* or a database thread takes is nobody's promise.
Spec == Init /\ [][Next]_vars /\ WF_vars(TimesOut) /\ WF_vars(Release)

-----------------------------------------------------------------------------
\* Properties.

\* Wherever the trajectory ends, its database copy is gone and no tool holds it.
\* The one exception is a timeout within the executor's create: the last event is
\* then its unanswered call, its bare state stays and its copy may be left over.
ReleasedAtEnd ==
  stage = "done" =>
    \/ held = {} /\ copy = "none"
    \/ /\ held = {"execute_sql"} /\ copy \in {"none", "orphan"}
       /\ status = "timeout" /\ ~mode.sync
       /\ events[Len(events)] = Event("execute_sql", events[Len(events)].args)

\* The environment events that the reward reads hold every call the model made,
\* the one a timeout cut off included.
EveryCallLogged ==
  Len(events) = turn - (IF stage \in {"copying", "querying"} THEN 1 ELSE 0)

\* Version and diff were retrieved in that order, both before event m or both
\* between it and event i.
RecoveredBy(v, d, m, i) == v < d /\ (d < m \/ (m < v /\ d < i))
Recovered(m, i) ==
  \E v \in ValidOf(events, "get_schema_version"),
     d \in ValidOf(events, "inspect_schema_diff") : RecoveredBy(v, d, m, i)

\* The calls for what retrieval i asked for, up to itself, duplicate notices left out:
\* the tool's answers, and the calls that the mask refused.
CallsFor(i) ==
  {j \in DOMAIN events :
     /\ j <= i /\ ~events[j].duplicate
     /\ events[j].tool = events[i].tool /\ events[j].args = events[i].args}

\* The model has seen what retrieval i returns, now or at an earlier call.
Seen(i) == \E j \in CallsFor(i) : events[j].answered

\* A refused call counts as a retrieval that was made; the one that is forced later
\* is then answered by the notice that its result is already there.
RefusedEarlier(i) == events[i].duplicate /\ \E j \in CallsFor(i) : events[j].masked

\* Part of GuardsKeepProtocol: with the guards on, no submission is accepted while a
\* failure or a mismatch that the policy can read is unexplained, by a version and
\* a diff that the model has seen.  The one exception is a retrieval that it called
\* for while it was masked: that one it may never be shown.
NoSubmitBeforeRecovery ==
  mode.guarded /\ {"get_schema_version", "inspect_schema_diff"} \subseteq Tools =>
    \A i \in ValidOf(events, "submit_solution") :
      \A m \in RecoveryTriggers(events) : m < i =>
        \E v \in ValidOf(events, "get_schema_version"),
           d \in ValidOf(events, "inspect_schema_diff") :
          /\ RecoveredBy(v, d, m, i)
          /\ \A r \in {v, d} : Seen(r) \/ RefusedEarlier(r)

\* What the docstring of _required_contract_recovery_action says: a mismatch
\* before a completed recovery must be followed by it, here before a submission.
MismatchForcesRecovery ==
  mode.guarded /\ {"get_schema_version", "inspect_schema_diff"} \subseteq Tools =>
    \A i \in ValidOf(events, "submit_solution") :
      \A m \in ValidOf(events, "execute_sql") :
        events[m].missed /\ m < i => Recovered(m, i)

\* Every trajectory comes to an end and gives back what it will give back.
RolloutEnds == <>(stage = "done")
=============================================================================
