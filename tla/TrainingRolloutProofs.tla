------------------------- MODULE TrainingRolloutProofs -------------------------
(***************************************************************************)
(* Theorems about training trajectories, for every set of tools, queries    *)
(* and questions and any number of turns: what is logged, what is released, *)
(* what the guards let through, and what the reward makes of it.            *)
(***************************************************************************)
EXTENDS AgenticReward, StatePolicyProofs, FiniteSetTheorems

-----------------------------------------------------------------------------
\* The inductive invariant.

Texts == Sqls \cup Questions \cup {NoArguments}

EventRecords ==
  [ tool : Tools, args : Texts, masked : BOOLEAN, duplicate : BOOLEAN,
    success : {"true", "false", "absent"}, match : {"true", "false", "absent"},
    validated : BOOLEAN, schema : BOOLEAN, submitted : BOOLEAN,
    raw : Texts, answered : BOOLEAN, missed : BOOLEAN,
    clarified : {"no", "yes", "again"} ]

\* Only the executor suspends a call.
RolloutTyped ==
  /\ mode \in Modes /\ turn \in Nat /\ events \in Seq(EventRecords)
  /\ stage \in {"generating", "copying", "querying", "releasing", "done"}
  /\ listed \subseteq Tools
  /\ stage \in {"copying", "querying"} =>
       call.tool = "execute_sql" /\ call.args \in Sqls

\* The executor has its copy for as long as it holds the trajectory.
Kept ==
  /\ held = listed
  /\ copy = IF "execute_sql" \in held THEN "ready" ELSE "none"

\* Create was cut short: the executor holds a trajectory that was never listed.
Abandoned ==
  /\ held = listed \cup {"execute_sql"} /\ "execute_sql" \notin listed
  /\ copy \in {"none", "orphan"}
  /\ status = "timeout" /\ ~mode.sync
  /\ events # << >>
  /\ events[Len(events)] = Event("execute_sql", events[Len(events)].args)

\* Who holds the trajectory, what has become of the copy, and which thread works.
CopyAccounted ==
  /\ stage = "generating" => Kept /\ worker = "idle"
  /\ stage = "querying" => Kept /\ worker = "querying"
  /\ stage = "copying" =>
       /\ held = listed \cup {"execute_sql"} /\ "execute_sql" \notin listed
       /\ copy = "making" /\ worker = "copying" /\ ~mode.sync
  /\ stage \in {"releasing", "done"} =>
       \/ Kept /\ worker \in {"idle", "querying"}
       \/ Abandoned /\ worker \in {"idle", "copying"}
  /\ stage = "done" => listed = {}

Inspections == {"get_schema_version", "inspect_schema_diff"}

\* With the guards on, not only a submission but every call of a tool that is none
\* of the two retrievals comes after the recovery of each trigger before it.
RecoveredFirst ==
  mode.guarded /\ BothInspections =>
    \A i \in Valid(events) : events[i].tool \notin Inspections =>
      \A m \in RecoveryTriggers(events) : m < i => Recovered(m, i)

\* A suspended execution was offered, and nothing was logged since.
SuspendedWasOffered ==
  stage \in {"copying", "querying"} /\ mode.guarded => "execute_sql" \in Allowed

\* A submission of any outcome is the last event of a completed trajectory.
SubmissionEnds ==
  \A i \in DOMAIN events : events[i].tool = "submit_solution" =>
    i = Len(events) /\ stage \in {"releasing", "done"} /\ status = "completed"

\* The arguments of an event that was not masked are those of the call as written.
AsWritten == \A i \in Valid(events) : events[i].raw = events[i].args

\* A duplicate notice refers to an earlier call, and what is no notice is an answer.
RetrievalsAccounted ==
  /\ \A i \in DOMAIN events : events[i].duplicate =>
       \E j \in DOMAIN events :
         /\ j < i /\ ~events[j].duplicate
         /\ events[j].tool = events[i].tool /\ events[j].args = events[i].args
  /\ \A i \in DOMAIN events : events[i].tool \in Inspections =>
       events[i].masked \/ events[i].duplicate \/ events[i].answered

RolloutInv ==
  /\ RolloutTyped /\ CopyAccounted /\ EveryCallLogged
  /\ RecoveredFirst /\ SuspendedWasOffered /\ SubmissionEnds /\ AsWritten
  /\ RetrievalsAccounted

-----------------------------------------------------------------------------
\* What a step adds to the events.

\* A notice of an earlier call, an answer, or a call that the mask refused.
Accounted(event) ==
  /\ event.duplicate => IsExactDuplicateRetrieval(events, event.tool, event.args)
  /\ event.tool \in Inspections => event.masked \/ event.duplicate \/ event.answered

\* The step appends one event; a call that the guards let through is one that the
\* policy offered, and leaves its arguments.
Logs(event) ==
  /\ event \in EventRecords /\ events' = Append(events, event)
  /\ ~event.masked => event.raw = event.args
  /\ ~event.masked /\ mode.guarded => event.tool \in Allowed
  /\ Accounted(event)

\* The event of a call, as _call_tool begins it.
LEMMA EventTyped ==
  ASSUME NEW name \in Tools, NEW args \in Texts
  PROVE  /\ Event(name, args) \in EventRecords
         /\ MaskedEvent(name, args) \in EventRecords
         /\ DuplicateEvent(name, args) \in EventRecords
         /\ PlainAnswer(name, args) \in EventRecords
         /\ MaskedEvent(name, args).masked /\ ~MaskedEvent(name, args).duplicate
         /\ ~Event(name, args).duplicate /\ ~PlainAnswer(name, args).duplicate
         /\ PlainAnswer(name, args).answered /\ DuplicateEvent(name, args).duplicate
         /\ /\ Event(name, args).tool = name
            /\ Event(name, args).raw = args /\ Event(name, args).args = args
         /\ /\ PlainAnswer(name, args).tool = name
            /\ PlainAnswer(name, args).raw = args /\ PlainAnswer(name, args).args = args
         /\ /\ DuplicateEvent(name, args).tool = name
            /\ DuplicateEvent(name, args).raw = args
            /\ DuplicateEvent(name, args).args = args
<1>1. /\ Event(name, args) \in EventRecords
      /\ MaskedEvent(name, args) \in EventRecords
      /\ DuplicateEvent(name, args) \in EventRecords
  BY DEF Event, MaskedEvent, DuplicateEvent, EventRecords, Texts
<1>2. Clarified(args) \in {"no", "yes", "again"}
  BY DEF Clarified
<1>3. PlainAnswer(name, args) \in EventRecords
  <2>1. ASSUME NEW asked \in {"no", "yes", "again"}, NEW schema \in BOOLEAN,
               NEW submitted \in BOOLEAN
        PROVE  [Event(name, args) EXCEPT !.answered = TRUE, !.schema = schema,
                  !.submitted = submitted, !.clarified = asked] \in EventRecords
    BY DEF Event, EventRecords, Texts
  <2>2. (IF name = "ask_user" THEN Clarified(args) ELSE "no") \in {"no", "yes", "again"}
    BY <1>2
  <2>. QED
    BY <2>1, <2>2 DEF PlainAnswer
<1>4. MaskedEvent(name, args).masked
  BY DEF MaskedEvent, Event
<1>5. /\ Event(name, args).tool = name
      /\ Event(name, args).raw = args /\ Event(name, args).args = args
  BY DEF Event
<1>6. PlainAnswer(name, args).tool = name /\ PlainAnswer(name, args).raw = args
      /\ PlainAnswer(name, args).args = args
  BY DEF PlainAnswer, Event
<1>7. /\ DuplicateEvent(name, args).tool = name
      /\ DuplicateEvent(name, args).raw = args
      /\ DuplicateEvent(name, args).args = args
  BY DEF DuplicateEvent, Event
<1>8. /\ ~MaskedEvent(name, args).duplicate
      /\ ~Event(name, args).duplicate /\ ~PlainAnswer(name, args).duplicate
      /\ PlainAnswer(name, args).answered /\ DuplicateEvent(name, args).duplicate
  BY DEF MaskedEvent, PlainAnswer, DuplicateEvent, Event
<1>. QED
  BY <1>1, <1>3, <1>4, <1>5, <1>6, <1>7, <1>8

\* What a call may be given.
LEMMA ArgumentsTyped ==
  ASSUME NEW name \in Tools, NEW args \in Arguments(name)
  PROVE  args \in Texts
BY DEF Arguments, Texts

\* An execution is neither an inspection nor a notice.
LEMMA ExecutionAccounted ==
  ASSUME NEW event, event.tool = "execute_sql", ~event.duplicate
  PROVE  Accounted(event)
BY DEF Accounted, Inspections

\* The executor's answer, cut or not, is an event of the executor.
LEMMA ExecutionTyped ==
  ASSUME NEW sql \in Sqls, NEW event \in Executions(sql)
  PROVE  /\ Truncated(event) \in EventRecords /\ Truncated(event).tool = "execute_sql"
         /\ Truncated(event).raw = sql /\ Truncated(event).args = sql
         /\ ~Truncated(event).duplicate
<1>1. "execute_sql" \in Tools /\ sql \in Texts
  BY RolloutAssumption DEF Texts
<1>. DEFINE raised == Event("execute_sql", sql)
            failed == [raised EXCEPT !.answered = TRUE, !.success = "false", !.missed = TRUE]
            executed == [failed EXCEPT !.success = "true", !.missed = FALSE]
            matched == [executed EXCEPT !.match = "true", !.validated = TRUE,
                                        !.missed = FALSE]
            missed == [executed EXCEPT !.match = "false", !.validated = FALSE,
                                       !.missed = TRUE]
<1>2. event \in {raised, failed, executed, matched, missed}
  <2>. DEFINE checked(truth, miss) ==
                [executed EXCEPT !.match = IF sql \in Matching THEN "true" ELSE "false",
                                 !.validated = truth, !.missed = miss]
  <2>1. event \in {raised, failed, executed, checked(sql \in Matching, ~(sql \in Matching))}
    BY Zenon DEF Executions
  <2>2. CASE sql \in Matching
    <3>1. (sql \in Matching) = TRUE /\ (~(sql \in Matching)) = FALSE
      BY <2>2
    <3>2. checked(sql \in Matching, ~(sql \in Matching)) = checked(TRUE, FALSE)
      BY <3>1, Zenon
    <3>3. checked(TRUE, FALSE) = matched
      BY <2>2
    <3>. QED
      BY <2>1, <3>2, <3>3, Zenon
  <2>3. CASE sql \notin Matching
    <3>1. (sql \in Matching) = FALSE /\ (~(sql \in Matching)) = TRUE
      BY <2>3
    <3>2. checked(sql \in Matching, ~(sql \in Matching)) = checked(FALSE, TRUE)
      BY <3>1, Zenon
    <3>3. checked(FALSE, TRUE) = missed
      BY <2>3
    <3>. QED
      BY <2>1, <3>2, <3>3, Zenon
  <2>. QED
    BY <2>2, <2>3
<1>3. \A e \in {raised, failed, executed, matched, missed} :
        e \in EventRecords /\ e.tool = "execute_sql" /\ e.raw = sql /\ e.args = sql /\ ~e.duplicate
  <2>1. raised \in EventRecords /\ raised.tool = "execute_sql" /\ raised.raw = sql /\ raised.args = sql /\ ~raised.duplicate
    BY <1>1 DEF Event, EventRecords
  <2>. HIDE DEF raised
  <2>2. failed \in EventRecords /\ failed.tool = "execute_sql" /\ failed.raw = sql /\ failed.args = sql /\ ~failed.duplicate
    BY <2>1 DEF EventRecords
  <2>. HIDE DEF failed
  <2>3. executed \in EventRecords /\ executed.tool = "execute_sql" /\ executed.raw = sql /\ executed.args = sql /\ ~executed.duplicate
    BY <2>2 DEF EventRecords
  <2>. HIDE DEF executed
  <2>4. matched \in EventRecords /\ matched.tool = "execute_sql" /\ matched.raw = sql /\ matched.args = sql /\ ~matched.duplicate
    BY <2>3 DEF EventRecords
  <2>5. missed \in EventRecords /\ missed.tool = "execute_sql" /\ missed.raw = sql /\ missed.args = sql /\ ~missed.duplicate
    BY <2>3 DEF EventRecords
  <2>. HIDE DEF matched, missed
  <2>. QED
    BY <2>1, <2>2, <2>3, <2>4, <2>5
<1>4. ASSUME NEW e \in EventRecords, e.tool = "execute_sql", e.raw = sql, e.args = sql, ~e.duplicate
      PROVE  /\ Truncated(e) \in EventRecords /\ Truncated(e).tool = "execute_sql"
             /\ Truncated(e).raw = sql /\ Truncated(e).args = sql /\ ~Truncated(e).duplicate
  <2>. DEFINE cut == [e EXCEPT !.success = "absent", !.match = "absent", !.validated = FALSE]
  <2>1. cut \in EventRecords
    BY DEF EventRecords
  <2>2. cut.tool = e.tool /\ cut.raw = e.raw /\ cut.args = e.args /\ cut.duplicate = e.duplicate
    BY DEF EventRecords
  <2>. QED
    BY <1>4, <2>1, <2>2 DEF Truncated
<1>. HIDE DEF raised, failed, executed, matched, missed
<1>. QED
  BY <1>2, <1>3, <1>4

\* One more event: the list is longer by one, and ends in it.
LEMMA Logged ==
  ASSUME RolloutTyped, NEW event, Logs(event)
  PROVE  /\ events' \in Seq(EventRecords) /\ events' # << >>
         /\ Len(events) \in Nat /\ Len(events') = Len(events) + 1
         /\ events'[Len(events')] = event
<1>1. events \in Seq(EventRecords) /\ event \in EventRecords /\ events' = Append(events, event)
  BY DEF RolloutTyped, Logs
<1>. QED
  BY <1>1, LenProperties, AppendProperties

\* What is explained at one event stays so: the events before it stay.
LEMMA LoggedKeepsProtocol ==
  ASSUME RolloutTyped, RecoveredFirst, UNCHANGED mode, NEW event, Logs(event)
  PROVE  RecoveredFirst'
<1>. SUFFICES ASSUME mode.guarded, Inspections \subseteq Tools,
                     NEW tool, tool \notin Inspections,
                     NEW i \in ValidOf(events', tool),
                     NEW m \in RecoveryTriggers(events'), m < i
              PROVE  Recovered(m, i)'
  BY DEF RecoveredFirst, BothInspections, Inspections, ValidOf
<1>. PICK n : n = Len(events) + 1
  OBVIOUS
<1>1. event \in EventRecords /\ events' = Append(events, event) /\ events \in Seq(EventRecords)
  BY DEF Logs, RolloutTyped
<1>2. /\ n \in Nat /\ n \notin DOMAIN events /\ DOMAIN events \subseteq Nat
      /\ \A j \in DOMAIN events : j < n
      /\ \A name : ValidOf(events', name) = ValidOf(events, name)
           \cup (IF ~event.masked /\ event.tool = name THEN {n} ELSE {})
      /\ RecoveryTriggers(events') = RecoveryTriggers(events)
           \cup (IF /\ ~event.masked /\ event.tool = "execute_sql"
                    /\ event.success = "false" \/ event.match = "false"
                 THEN {n} ELSE {})
  BY <1>1, Extended
<1>3. /\ \A name : ValidOf(events, name) \subseteq DOMAIN events
      /\ RecoveryTriggers(events) \subseteq DOMAIN events
  BY DEF RecoveryTriggers, ValidOf, Valid
<1>4. m \in RecoveryTriggers(events)
  <2>1. i \in DOMAIN events \cup {n}
    BY <1>2, <1>3
  <2>2. i \in Nat /\ i <= n
    BY <1>2, <2>1
  <2>3. m # n
    BY <1>2, <2>2
  <2>. QED
    BY <1>2, <2>3
<1>5. CASE i \in ValidOf(events, tool)
  <2>1. Recovered(m, i)
    BY <1>4, <1>5 DEF RecoveredFirst, BothInspections, Inspections, ValidOf
  <2>. QED
    BY <1>2, <2>1 DEF Recovered, RecoveredBy
<1>6. CASE i \notin ValidOf(events, tool)
  <2>1. i = n /\ ~event.masked /\ event.tool = tool
    BY <1>2, <1>6
  <2>2. tool \in RecoveryToolNames(events, Tools, FALSE)
    BY <2>1 DEF Logs, Allowed, SelectDynamicToolNames
  <2>3. Explained(events, m)
    BY <1>1, <1>4, <2>2, OfferedWhenExplained DEF Inspections
  <2>4. PICK v \in ValidOf(events, "get_schema_version"),
             d \in ValidOf(events, "inspect_schema_diff") : v < d /\ (d < m \/ m < v)
    BY <2>3 DEF Explained
  <2>5. d < n
    BY <1>2, <1>3
  <2>. QED
    BY <1>2, <2>1, <2>4, <2>5 DEF Recovered, RecoveredBy
<1>. QED
  BY <1>5, <1>6

\* The event that ends a trajectory is its last.
LEMMA LoggedKeepsEnd ==
  ASSUME RolloutTyped, SubmissionEnds, AsWritten, stage \in Suspended,
         NEW event, Logs(event),
         event.tool = "submit_solution" => stage' = "releasing" /\ status' = "completed"
  PROVE  SubmissionEnds' /\ AsWritten'
<1>1. /\ events \in Seq(EventRecords) /\ events' = Append(events, event)
      /\ ~event.masked => event.raw = event.args
  BY DEF Logs, RolloutTyped
<1>2. \A i \in DOMAIN events' :
        \/ i \in DOMAIN events /\ events'[i] = events[i]
        \/ i = Len(events') /\ events'[i] = event
  BY <1>1, AppendProperties, LenProperties
<1>3. \A i \in DOMAIN events : events[i].tool # "submit_solution"
  BY DEF SubmissionEnds, Suspended
<1>4. SubmissionEnds'
  BY <1>2, <1>3 DEF SubmissionEnds
<1>5. AsWritten'
  BY <1>1, <1>2 DEF AsWritten, Valid
<1>. QED
  BY <1>4, <1>5

\* One more event that is accounted for.
LEMMA LoggedKeepsAccount ==
  ASSUME RolloutTyped, RetrievalsAccounted, NEW event, Logs(event)
  PROVE  RetrievalsAccounted'
<1>. PICK n : n = Len(events) + 1
  OBVIOUS
<1>1. /\ events \in Seq(EventRecords) /\ events' = Append(events, event)
      /\ Accounted(event)
  BY DEF Logs, RolloutTyped
<1>2. /\ DOMAIN events' = DOMAIN events \cup {n} /\ events'[n] = event
      /\ \A i \in DOMAIN events : i < n /\ i # n /\ events'[i] = events[i]
  BY <1>1, AppendProperties, LenProperties
<1>3. ASSUME event.duplicate
      PROVE  \E j \in DOMAIN events :
               /\ ~events[j].duplicate
               /\ events[j].tool = event.tool /\ events[j].args = event.args
  <2>1. PICK j \in DOMAIN events : events[j].tool = event.tool /\ events[j].args = event.args
    BY <1>1, <1>3 DEF Accounted, IsExactDuplicateRetrieval
  <2>. QED
    BY <2>1 DEF RetrievalsAccounted
<1>4. ASSUME NEW i \in DOMAIN events', events'[i].duplicate
      PROVE  \E j \in DOMAIN events' :
               /\ j < i /\ ~events'[j].duplicate
               /\ events'[j].tool = events'[i].tool /\ events'[j].args = events'[i].args
  <2>1. CASE i = n
    BY <1>2, <1>3, <1>4, <2>1
  <2>2. CASE i # n
    <3>1. i \in DOMAIN events /\ events[i].duplicate
      BY <1>2, <1>4, <2>2
    <3>2. PICK j \in DOMAIN events :
            /\ j < i /\ ~events[j].duplicate
            /\ events[j].tool = events[i].tool /\ events[j].args = events[i].args
      BY <3>1 DEF RetrievalsAccounted
    <3>. QED
      BY <1>2, <3>1, <3>2
  <2>. QED
    BY <2>1, <2>2
<1>5. ASSUME NEW i \in DOMAIN events', events'[i].tool \in Inspections
      PROVE  events'[i].masked \/ events'[i].duplicate \/ events'[i].answered
  <2>1. CASE i = n
    BY <1>1, <1>2, <1>5, <2>1 DEF Accounted
  <2>2. CASE i # n
    BY <1>2, <1>5, <2>2 DEF RetrievalsAccounted
  <2>. QED
    BY <2>1, <2>2
<1>. QED
  BY <1>4, <1>5 DEF RetrievalsAccounted

-----------------------------------------------------------------------------
\* The steps.

\* What is left to show of a step that logs an event: the types of the rest, the
\* copy's account, and that the call was counted before or is counted now.
LEMMA LoggedStep ==
  ASSUME RolloutInv, UNCHANGED mode, NEW event, Logs(event),
         stage \in Suspended, turn' \in Nat, listed' \subseteq Tools,
         stage' \in {"generating", "releasing"},
         event.tool = "submit_solution" => stage' = "releasing" /\ status' = "completed",
         turn' = turn + (IF stage \in {"copying", "querying"} THEN 0 ELSE 1),
         CopyAccounted'
  PROVE  RolloutInv'
<1>1. /\ events' \in Seq(EventRecords) /\ Len(events) \in Nat
      /\ Len(events') = Len(events) + 1
  BY Logged DEF RolloutInv
<1>2. RecoveredFirst'
  BY LoggedKeepsProtocol DEF RolloutInv
<1>3. RolloutTyped'
  BY <1>1 DEF RolloutInv, RolloutTyped
<1>4. EveryCallLogged'
  BY <1>1 DEF RolloutInv, RolloutTyped, EveryCallLogged
<1>5. SubmissionEnds' /\ AsWritten'
  BY LoggedKeepsEnd DEF RolloutInv
<1>6. SuspendedWasOffered'
  BY DEF SuspendedWasOffered
<1>7. RetrievalsAccounted'
  BY LoggedKeepsAccount DEF RolloutInv
<1>. QED
  BY <1>2, <1>3, <1>4, <1>5, <1>6, <1>7 DEF RolloutInv

\* ... and of one that logs none.
LEMMA SilentStep ==
  ASSUME RolloutInv, UNCHANGED <<mode, events>>, RolloutTyped',
         turn' - (IF stage' \in {"copying", "querying"} THEN 1 ELSE 0)
           = turn - (IF stage \in {"copying", "querying"} THEN 1 ELSE 0),
         \/ stage \in Suspended
         \/ stage' \in {"releasing", "done"} /\ UNCHANGED status,
         stage' \in {"copying", "querying"} /\ mode.guarded => "execute_sql" \in Allowed,
         CopyAccounted'
  PROVE  RolloutInv'
<1>1. RecoveredFirst' /\ AsWritten' /\ RetrievalsAccounted'
  BY DEF RolloutInv, RecoveredFirst, Recovered, RecoveredBy, AsWritten, RetrievalsAccounted
<1>2. EveryCallLogged'
  BY DEF RolloutInv, EveryCallLogged
<1>3. SuspendedWasOffered'
  BY DEF SuspendedWasOffered, Allowed
<1>4. SubmissionEnds'
  BY DEF RolloutInv, SubmissionEnds, Suspended
<1>. QED
  BY <1>1, <1>2, <1>3, <1>4 DEF RolloutInv

\* Recording an event logs it, and ends the trajectory if it is a submission.
LEMMA RecordedIsLogged ==
  ASSUME NEW event \in EventRecords, Records(event),
         ~event.masked => event.raw = event.args,
         ~event.masked /\ mode.guarded => event.tool \in Allowed, Accounted(event)
  PROVE  /\ Logs(event) /\ stage' \in {"generating", "releasing"}
         /\ event.tool = "submit_solution" => stage' = "releasing" /\ status' = "completed"
         /\ event.tool # "submit_solution" => stage' = "generating"
BY DEF Records, Logs

\* A refused call is logged and touches nothing else.
LEMMA RefusedCallKeeps ==
  ASSUME RolloutInv, NEW name \in Tools, NEW args \in Arguments(name),
         RefusedCall(name, args)
  PROVE  RolloutInv'
<1>1. /\ stage = "generating" /\ turn' = turn + 1
      /\ UNCHANGED <<mode, held, listed, copy, worker>>
  BY DEF RefusedCall, Calls
<1>2. PICK event \in {MaskedEvent(name, args), DuplicateEvent(name, args)} :
        /\ Records(event) /\ event \in EventRecords
        /\ ~event.masked => event.raw = event.args
        /\ ~event.masked /\ mode.guarded => event.tool \in Allowed
        /\ Accounted(event)
  <2>1. CASE MaskedCall(name) /\ Records(MaskedEvent(name, args))
    BY <2>1, ArgumentsTyped, EventTyped DEF Accounted
  <2>2. CASE ~MaskedCall(name) /\ DuplicateCall(name, args) /\ Records(DuplicateEvent(name, args))
    BY <2>2, ArgumentsTyped, EventTyped DEF MaskedCall, DuplicateCall, Accounted
  <2>. QED
    BY <2>1, <2>2 DEF RefusedCall
<1>3. /\ Logs(event) /\ stage' \in {"generating", "releasing"}
      /\ event.tool = "submit_solution" => stage' = "releasing" /\ status' = "completed"
  BY <1>2, RecordedIsLogged
<1>4. CopyAccounted'
  BY <1>1, <1>3 DEF RolloutInv, CopyAccounted, Kept
<1>5. stage \in Suspended /\ listed' \subseteq Tools /\ turn' \in Nat
  BY <1>1 DEF RolloutInv, RolloutTyped, Suspended
<1>. QED
  BY <1>1, <1>3, <1>4, <1>5, LoggedStep

\* So is a plain call, whose tool now holds the trajectory and is listed.
LEMMA PlainCallKeeps ==
  ASSUME RolloutInv, NEW name \in Tools, NEW args \in Arguments(name),
         PlainCall(name, args)
  PROVE  RolloutInv'
<1>1. /\ stage = "generating" /\ turn' = turn + 1 /\ name # "execute_sql"
      /\ held' = held \cup {name} /\ listed' = listed \cup {name}
      /\ UNCHANGED <<mode, copy, worker>>
      /\ mode.guarded => name \in Allowed
      /\ Records(PlainAnswer(name, args))
  BY DEF PlainCall, Dispatched, Calls, MaskedCall
<1>2. PICK event \in EventRecords : /\ Records(event) /\ event.tool = name
                                    /\ event.raw = event.args /\ Accounted(event)
  BY <1>1, ArgumentsTyped, EventTyped DEF Accounted
<1>3. /\ Logs(event) /\ stage' \in {"generating", "releasing"}
      /\ event.tool = "submit_solution" => stage' = "releasing" /\ status' = "completed"
  BY <1>1, <1>2, RecordedIsLogged
<1>4. CopyAccounted'
  BY <1>1, <1>3 DEF RolloutInv, CopyAccounted, Kept
<1>5. stage \in Suspended /\ listed' \subseteq Tools /\ turn' \in Nat
  BY <1>1 DEF RolloutInv, RolloutTyped, Suspended
<1>. QED
  BY <1>1, <1>3, <1>4, <1>5, LoggedStep

\* The executor's calls suspend: nothing is logged until they end.
LEMMA SqlCallKeeps ==
  ASSUME RolloutInv, NEW sql \in Sqls, SqlCallCopies(sql) \/ SqlCallReuses(sql)
  PROVE  RolloutInv'
<1>1. /\ stage = "generating" /\ turn' = turn + 1 /\ ~mode.sync
      /\ UNCHANGED <<mode, events, listed>>
      /\ call' = [tool |-> "execute_sql", args |-> sql]
      /\ mode.guarded => "execute_sql" \in Allowed
  BY DEF SqlCallCopies, SqlCallReuses, Dispatched, Calls, MaskedCall
<1>2. stage' \in {"copying", "querying"} /\ CopyAccounted'
  <2>1. CASE SqlCallCopies(sql)
    BY <1>1, <2>1 DEF SqlCallCopies, RolloutInv, CopyAccounted, Kept
  <2>2. CASE SqlCallReuses(sql)
    BY <1>1, <2>2 DEF SqlCallReuses, RolloutInv, CopyAccounted, Kept
  <2>. QED
    BY <2>1, <2>2
<1>3. RolloutTyped'
  BY <1>1, <1>2 DEF RolloutInv, RolloutTyped
<1>4. turn \in Nat /\ stage \in Suspended
  BY <1>1 DEF RolloutInv, RolloutTyped, Suspended
<1>. QED
  BY <1>1, <1>2, <1>3, <1>4, SilentStep

\* The copy is made and the query sent.
LEMMA CopyMadeKeeps ==
  ASSUME RolloutInv, CopyMade
  PROVE  RolloutInv'
<1>1. /\ stage = "copying" /\ stage' = "querying"
      /\ listed' = listed \cup {"execute_sql"} /\ copy' = "ready" /\ worker' = "querying"
      /\ UNCHANGED <<mode, call, events, turn, held>>
  BY DEF CopyMade
<1>2. CopyAccounted' /\ RolloutTyped'
  BY <1>1, RolloutAssumption DEF RolloutInv, RolloutTyped, CopyAccounted, Kept
<1>3. mode.guarded => "execute_sql" \in Allowed
  BY <1>1 DEF RolloutInv, SuspendedWasOffered
<1>. QED
  BY <1>1, <1>2, <1>3, SilentStep DEF Suspended

\* A copy that fails leaves neither the state nor the directory behind.
LEMMA CopyFailsKeeps ==
  ASSUME RolloutInv, CopyFails
  PROVE  RolloutInv'
<1>1. /\ stage = "copying" /\ call.args \in Sqls
      /\ held' = held \ {"execute_sql"} /\ copy' = "none" /\ worker' = "idle"
      /\ UNCHANGED <<mode, turn, listed>>
      /\ Records(Event("execute_sql", call.args))
  BY DEF CopyFails, RolloutInv, RolloutTyped
<1>2. PICK event \in EventRecords : /\ Records(event) /\ event.tool = "execute_sql"
                                    /\ event.raw = event.args /\ Accounted(event)
  <2>1. "execute_sql" \in Tools /\ call.args \in Texts
    BY <1>1, RolloutAssumption DEF Texts
  <2>. QED
    BY <1>1, <2>1, EventTyped, ExecutionAccounted
<1>3. Logs(event) /\ stage' = "generating"
  BY <1>1, <1>2, RecordedIsLogged DEF RolloutInv, SuspendedWasOffered
<1>4. CopyAccounted'
  BY <1>1, <1>3 DEF RolloutInv, CopyAccounted, Kept
<1>5. stage \in Suspended /\ listed' \subseteq Tools /\ turn' \in Nat
  BY <1>1 DEF RolloutInv, RolloutTyped, Suspended
<1>. QED
  BY <1>1, <1>2, <1>3, <1>4, <1>5, LoggedStep

\* The query answers, whole or cut.
LEMMA QueryAnswersKeeps ==
  ASSUME RolloutInv, QueryAnswers
  PROVE  RolloutInv'
<1>1. /\ stage = "querying" /\ call.args \in Sqls /\ worker' = "idle"
      /\ UNCHANGED <<mode, turn, held, listed, copy>>
  BY DEF QueryAnswers, RolloutInv, RolloutTyped
<1>2. PICK event \in EventRecords : /\ Records(event) /\ event.tool = "execute_sql"
                                    /\ event.raw = event.args /\ Accounted(event)
  <2>1. PICK answer \in Executions(call.args) : Records(Truncated(answer))
    BY DEF QueryAnswers
  <2>. QED
    BY <1>1, <2>1, ExecutionTyped, ExecutionAccounted
<1>3. Logs(event) /\ stage' = "generating"
  BY <1>1, <1>2, RecordedIsLogged DEF RolloutInv, SuspendedWasOffered
<1>4. CopyAccounted'
  BY <1>1, <1>3 DEF RolloutInv, CopyAccounted, Kept
<1>5. stage \in Suspended /\ listed' \subseteq Tools /\ turn' \in Nat
  BY <1>1 DEF RolloutInv, RolloutTyped, Suspended
<1>. QED
  BY <1>1, <1>2, <1>3, <1>4, <1>5, LoggedStep

\* With sync_io the call is over within one step.
LEMMA SqlCallBlocksKeeps ==
  ASSUME RolloutInv, NEW sql \in Sqls, SqlCallBlocks(sql)
  PROVE  RolloutInv'
<1>1. /\ stage = "generating" /\ turn' = turn + 1 /\ UNCHANGED <<mode, worker>>
      /\ mode.guarded => "execute_sql" \in Allowed
  BY DEF SqlCallBlocks, Dispatched, Calls, MaskedCall
<1>2. PICK event \in EventRecords :
        /\ Records(event) /\ event.tool = "execute_sql" /\ event.raw = event.args
        /\ Accounted(event)
        /\ \/ /\ held' = held \cup {"execute_sql"} /\ listed' = listed \cup {"execute_sql"}
              /\ copy' = "ready"
           \/ "execute_sql" \notin held /\ UNCHANGED <<held, listed, copy>>
  <2>1. CASE /\ held' = held \cup {"execute_sql"} /\ listed' = listed \cup {"execute_sql"}
             /\ copy' = "ready"
             /\ \E answer \in Executions(sql) : Records(Truncated(answer))
    BY <2>1, ExecutionTyped, ExecutionAccounted
  <2>2. CASE /\ "execute_sql" \notin held /\ Records(Event("execute_sql", sql))
             /\ UNCHANGED <<held, listed, copy>>
    <3>1. "execute_sql" \in Tools /\ sql \in Texts
      BY RolloutAssumption DEF Texts
    <3>. QED
      BY <2>2, <3>1, EventTyped, ExecutionAccounted
  <2>. QED
    BY <2>1, <2>2 DEF SqlCallBlocks
<1>3. Logs(event) /\ stage' = "generating"
  BY <1>1, <1>2, RecordedIsLogged
<1>4. CopyAccounted'
  BY <1>1, <1>2, <1>3 DEF RolloutInv, CopyAccounted, Kept
<1>5. stage \in Suspended /\ listed' \subseteq Tools /\ turn' \in Nat
  BY <1>1, <1>2, RolloutAssumption DEF RolloutInv, RolloutTyped, Suspended
<1>. QED
  BY <1>1, <1>2, <1>3, <1>4, <1>5, LoggedStep

\* A timeout logs the call it cuts short; if that call was making the copy, the
\* executor is left with a trajectory that will not be released.
LEMMA TimesOutKeeps ==
  ASSUME RolloutInv, TimesOut
  PROVE  RolloutInv'
<1>1. /\ stage \in Suspended /\ stage' = "releasing" /\ status' = "timeout"
      /\ copy' = (IF copy = "making" THEN "none" ELSE copy)
      /\ worker' \in {worker, "idle"}
      /\ UNCHANGED <<mode, turn, held, listed>>
  BY DEF TimesOut
<1>2. CASE stage = "generating"
  <2>1. UNCHANGED events
    BY <1>2 DEF TimesOut
  <2>2. CopyAccounted' /\ RolloutTyped'
    BY <1>1, <1>2, <2>1 DEF RolloutInv, RolloutTyped, CopyAccounted, Kept
  <2>. QED
    BY <1>1, <1>2, <2>1, <2>2, SilentStep
<1>3. CASE stage \in {"copying", "querying"}
  <2>. DEFINE event == Event("execute_sql", call.args)
  <2>1. /\ event \in EventRecords /\ event.tool = "execute_sql"
        /\ event.args = call.args /\ event.raw = event.args /\ Accounted(event)
    <3>1. "execute_sql" \in Tools /\ call.args \in Texts
      BY <1>3, RolloutAssumption DEF RolloutInv, RolloutTyped, Texts
    <3>. QED
      BY <3>1, EventTyped, ExecutionAccounted
  <2>2. Logs(event)
    <3>1. events' = Append(events, event)
      BY <1>3 DEF TimesOut, CutShort, RolloutInv, RolloutTyped
    <3>. QED
      BY <1>3, <2>1, <3>1 DEF Logs, RolloutInv, SuspendedWasOffered
  <2>3. /\ events' # << >>
        /\ events'[Len(events')] = Event("execute_sql", events'[Len(events')].args)
    BY <2>1, <2>2, Logged DEF RolloutInv
  <2>4. CopyAccounted'
    <3>1. CASE stage = "copying"
      <4>1. Abandoned' /\ worker' \in {"idle", "copying"}
        BY <1>1, <2>3, <3>1 DEF RolloutInv, CopyAccounted, Abandoned
      <4>. QED
        BY <1>1, <4>1 DEF CopyAccounted
    <3>2. CASE stage = "querying"
      BY <1>1, <3>2 DEF RolloutInv, CopyAccounted, Kept
    <3>. QED
      BY <1>3, <3>1, <3>2
  <2>5. listed' \subseteq Tools /\ turn' \in Nat
    BY <1>1 DEF RolloutInv, RolloutTyped
  <2>. QED
    BY <1>1, <1>3, <2>1, <2>2, <2>4, <2>5, LoggedStep
<1>. QED
  BY <1>1, <1>2, <1>3 DEF Suspended

\* The end of the loop, the releases, and a thread that comes to its end log nothing.
LEMMA ReleaseKeeps ==
  ASSUME RolloutInv,
         LoopEnds \/ WorkerEnds \/ Finishes \/ \E name \in Tools : Releases(name)
  PROVE  RolloutInv'
<1>1. CASE LoopEnds
  <2>1. CopyAccounted' /\ RolloutTyped'
    BY <1>1 DEF LoopEnds, RolloutInv, RolloutTyped, CopyAccounted, Kept
  <2>. QED
    BY <1>1, <2>1, SilentStep DEF LoopEnds, Suspended
<1>2. CASE WorkerEnds
  <2>1. RolloutTyped'
    BY <1>2 DEF WorkerEnds, RolloutInv, RolloutTyped
  <2>2. /\ stage \in {"releasing", "done"} /\ worker # "idle" /\ worker' = "idle"
        /\ worker # "copying" => UNCHANGED copy
        /\ worker = "copying" => copy' \in {copy, "orphan"}
        /\ UNCHANGED <<mode, stage, events, held, listed, status>>
    BY <1>2 DEF WorkerEnds
  <2>3. CopyAccounted'
    <3>1. CASE Kept /\ worker \in {"idle", "querying"}
      BY <2>2, <3>1 DEF RolloutInv, CopyAccounted, Kept
    <3>2. CASE Abandoned /\ worker \in {"idle", "copying"}
      <4>1. Abandoned'
        BY <2>2, <3>2 DEF Abandoned
      <4>. QED
        BY <2>2, <4>1 DEF RolloutInv, CopyAccounted
    <3>. QED
      BY <2>2, <3>1, <3>2 DEF RolloutInv, CopyAccounted
  <2>. QED
    BY <1>2, <2>1, <2>3, SilentStep DEF WorkerEnds
<1>3. CASE Finishes
  <2>1. CopyAccounted' /\ RolloutTyped'
    BY <1>3 DEF Finishes, RolloutInv, RolloutTyped, CopyAccounted, Kept, Abandoned
  <2>. QED
    BY <1>3, <2>1, SilentStep DEF Finishes
<1>4. ASSUME NEW name \in Tools, Releases(name)
      PROVE  RolloutInv'
  <2>1. /\ stage = "releasing" /\ stage' = "releasing" /\ name \in listed
        /\ listed' = listed \ {name} /\ held' = held \ {name}
        /\ copy' = IF name = "execute_sql" THEN "none" ELSE copy
        /\ UNCHANGED <<mode, call, events, turn, worker, status>>
    BY <1>4 DEF Releases
  <2>2. RolloutTyped'
    BY <2>1 DEF RolloutInv, RolloutTyped
  <2>3. CopyAccounted'
    <3>1. CASE Kept /\ worker \in {"idle", "querying"}
      BY <2>1, <3>1 DEF CopyAccounted, Kept
    <3>2. CASE Abandoned /\ worker \in {"idle", "copying"}
      <4>1. Abandoned'
        BY <2>1, <3>2 DEF Abandoned
      <4>. QED
        BY <2>1, <3>2, <4>1 DEF CopyAccounted
    <3>. QED
      BY <2>1, <3>1, <3>2 DEF RolloutInv, CopyAccounted
  <2>. QED
    BY <2>1, <2>2, <2>3, SilentStep
<1>. QED
  BY <1>1, <1>2, <1>3, <1>4

-----------------------------------------------------------------------------
\* The theorems.

\* The inductive invariant of a trajectory (integrations/agent_loop.py,
\* verl_tools.py): the log, the account of the copy and the guards' protocol.
THEOREM RolloutKept == Spec => []RolloutInv
<1>1. Init => RolloutInv
  <2>. SUFFICES ASSUME Init PROVE RolloutInv
    OBVIOUS
  <2>1. events \in Seq(EventRecords) /\ Len(events) = 0 /\ DOMAIN events = {}
    BY EmptySeq DEF Init
  <2>2. RolloutTyped /\ CopyAccounted
    <3>1. RolloutTyped
      BY <2>1 DEF Init, RolloutTyped
    <3>2. CopyAccounted
      BY DEF Init, CopyAccounted, Kept
    <3>. QED
      BY <3>1, <3>2
  <2>3. EveryCallLogged
    <3>1. turn = 0 /\ stage = "generating"
      BY DEF Init
    <3>2. (IF stage \in {"copying", "querying"} THEN 1 ELSE 0) = 0
      BY <3>1
    <3>3. Len(events) = turn - 0
      BY <2>1, <3>1
    <3>. QED
      BY <3>2, <3>3 DEF EveryCallLogged
  <2>4. RecoveredFirst /\ SubmissionEnds /\ AsWritten /\ RetrievalsAccounted
    BY <2>1 DEF RecoveredFirst, SubmissionEnds, AsWritten, RetrievalsAccounted, Valid
  <2>5. SuspendedWasOffered
    BY DEF Init, SuspendedWasOffered
  <2>. QED
    BY <2>2, <2>3, <2>4, <2>5 DEF RolloutInv
<1>2. RolloutInv /\ [Next]_vars => RolloutInv'
  <2>. SUFFICES ASSUME RolloutInv, [Next]_vars PROVE RolloutInv'
    OBVIOUS
  <2>1. CASE Call
    BY <2>1, RefusedCallKeeps, PlainCallKeeps, SqlCallKeeps, SqlCallBlocksKeeps DEF Call
  <2>2. CASE CopyMade \/ CopyFails \/ QueryAnswers \/ TimesOut
    BY <2>2, CopyMadeKeeps, CopyFailsKeeps, QueryAnswersKeeps, TimesOutKeeps
  <2>3. CASE LoopEnds \/ Release \/ WorkerEnds
    BY <2>3, ReleaseKeeps DEF Release
  <2>4. CASE UNCHANGED vars
    <3>1. RolloutTyped' /\ CopyAccounted'
      BY <2>4 DEF vars, RolloutInv, RolloutTyped, CopyAccounted, Kept, Abandoned
    <3>2. stage \in Suspended \/ stage \in {"releasing", "done"}
      BY DEF RolloutInv, RolloutTyped, Suspended
    <3>. QED
      BY <2>4, <3>1, <3>2, SilentStep DEF vars, RolloutInv, SuspendedWasOffered
  <2>. QED
    BY <2>1, <2>2, <2>3, <2>4 DEF Next
<1>. QED
  BY <1>1, <1>2, PTL DEF Spec

\* However a trajectory ends, its copy is gone and no tool holds it, unless the
\* timeout fell into the executor's create (agent_loop.py run's finally).
THEOREM CopyReleasedAtEnd == Spec => []ReleasedAtEnd
<1>1. RolloutInv => ReleasedAtEnd
  BY DEF RolloutInv, CopyAccounted, Kept, Abandoned, ReleasedAtEnd
<1>. QED
  BY <1>1, RolloutKept, PTL

\* Each call the model made is in the log once, the one a timeout cut off too
\* (agent_loop.py _call_tool's finally).
THEOREM CallsAreLogged == Spec => []EveryCallLogged
<1>1. RolloutInv => EveryCallLogged
  BY DEF RolloutInv
<1>. QED
  BY <1>1, RolloutKept, PTL

\* A recovery before an event that the reward finds uninspected is none: what the
\* policy accepts as recovered, the reward accepts as inspected, if the diff was
\* not retrieved before the first version.
LEMMA RecoveredIsInspected ==
  ASSUME events \in Seq(EventRecords), NEW m \in Nat, NEW i \in Nat, m < i,
         Recovered(m, i), ~DiffFirst
  PROVE  ~BeforeInspection(i)
<1>1. PICK d \in ValidOf(events, "inspect_schema_diff") : d < i
  <2>1. PICK v \in ValidOf(events, "get_schema_version"),
             d \in ValidOf(events, "inspect_schema_diff") :
               v < d /\ (d < m \/ (m < v /\ d < i))
    BY DEF Recovered, RecoveredBy
  <2>2. d \in Nat
    BY LenProperties DEF ValidOf, Valid
  <2>. QED
    BY <2>1, <2>2
<1>2. ValidOf(events, "inspect_schema_diff") \subseteq Nat
  BY LenProperties DEF ValidOf, Valid
<1>3. /\ Min(ValidOf(events, "inspect_schema_diff")) \in Nat
      /\ Min(ValidOf(events, "inspect_schema_diff")) <= d
  BY <1>1, <1>2, OldestOf
<1>4. FirstOf("inspect_schema_diff") = Min(ValidOf(events, "inspect_schema_diff"))
  BY <1>1 DEF FirstOf, UnmaskedOf
<1>5. OrderedInspection
  BY <1>1 DEF DiffFirst, UnmaskedOf
<1>6. InspectionEnd = FirstOf("inspect_schema_diff")
  BY <1>5 DEF OrderedInspection, InspectionEnd
<1>. QED
  BY <1>1, <1>2, <1>3, <1>4, <1>5, <1>6 DEF BeforeInspection

\* A retrieval that was not masked was shown, or was called for while it was masked.
LEMMA RetrievalsSeen ==
  ASSUME RolloutInv, NEW i \in Valid(events), events[i].tool \in Inspections
  PROVE  Seen(i) \/ RefusedEarlier(i)
<1>1. i \in DOMAIN events /\ DOMAIN events \subseteq Nat /\ ~events[i].masked
  BY LenProperties DEF RolloutInv, RolloutTyped, Valid
<1>2. CASE ~events[i].duplicate
  <2>1. i \in CallsFor(i) /\ events[i].answered
    BY <1>1, <1>2 DEF CallsFor, RolloutInv, RetrievalsAccounted
  <2>. QED
    BY <2>1 DEF Seen
<1>3. CASE events[i].duplicate
  <2>1. PICK j \in DOMAIN events :
          /\ j < i /\ ~events[j].duplicate
          /\ events[j].tool = events[i].tool /\ events[j].args = events[i].args
    BY <1>1, <1>3 DEF RolloutInv, RetrievalsAccounted
  <2>2. j \in CallsFor(i)
    BY <1>1, <2>1 DEF CallsFor
  <2>3. events[j].masked \/ events[j].answered
    BY <2>1 DEF RolloutInv, RetrievalsAccounted
  <2>. QED
    BY <1>3, <2>2, <2>3 DEF Seen, RefusedEarlier
<1>. QED
  BY <1>2, <1>3

\* With the guards on, no submission gets past an unexplained failure, by retrievals
\* that the model has seen unless it called for them too early, and no stale query that the policy saw fail is run or submitted again in what the reward
\* (rewards/agentic.py) calls the time before the inspection.
THEOREM GuardsKeepTheProtocol == Spec => []GuardsKeepProtocol
<1>1. RolloutInv => GuardsPreventShortcut
  <2>. SUFFICES ASSUME RolloutInv, mode.guarded, BothInspections, ~DiffFirst,
                       NEW i \in StaleAt("execute_sql"),
                       NEW j \in StaleAt("execute_sql") \cup StaleAt("submit_solution"),
                       i < j, ~(events[i].match # "false" /\ events[i].success # "false")
                PROVE  FALSE
    BY DEF GuardsPreventShortcut
  <2>1. events \in Seq(EventRecords) /\ RecoveredFirst
    BY DEF RolloutInv, RolloutTyped
  <2>2. /\ i \in ValidOf(events, "execute_sql") /\ i \in Nat /\ j \in Nat
        /\ j \in Valid(events) /\ BeforeInspection(j)
        /\ events[j].tool \in {"execute_sql", "submit_solution"}
    BY <2>1, LenProperties DEF StaleAt, UnmaskedOf, ValidOf, Valid
  <2>3. i \in RecoveryTriggers(events)
    BY <2>2 DEF RecoveryTriggers
  <2>4. Recovered(i, j)
    BY <2>1, <2>2, <2>3 DEF RecoveredFirst, Inspections
  <2>. QED
    BY <2>1, <2>2, <2>4, RecoveredIsInspected
<1>2. RolloutInv => NoSubmitBeforeRecovery
  <2>. SUFFICES ASSUME RolloutInv, mode.guarded, Inspections \subseteq Tools,
                       NEW i \in ValidOf(events, "submit_solution"),
                       NEW m \in RecoveryTriggers(events), m < i
                PROVE  \E v \in ValidOf(events, "get_schema_version"),
                          d \in ValidOf(events, "inspect_schema_diff") :
                         /\ RecoveredBy(v, d, m, i)
                         /\ \A r \in {v, d} : Seen(r) \/ RefusedEarlier(r)
    BY DEF NoSubmitBeforeRecovery, Inspections
  <2>1. Recovered(m, i)
    BY DEF RolloutInv, RecoveredFirst, BothInspections, Inspections, ValidOf
  <2>2. PICK v \in ValidOf(events, "get_schema_version"),
             d \in ValidOf(events, "inspect_schema_diff") : RecoveredBy(v, d, m, i)
    BY <2>1 DEF Recovered
  <2>3. \A r \in {v, d} : r \in Valid(events) /\ events[r].tool \in Inspections
    BY DEF ValidOf, Inspections
  <2>. QED
    BY <2>2, <2>3, RetrievalsSeen
<1>. QED
  BY <1>1, <1>2, RolloutKept, PTL DEF GuardsKeepProtocol
-----------------------------------------------------------------------------
\* The reward.

\* A weight under a condition is not negative.
LEMMA Weighed ==
  ASSUME NEW condition \in BOOLEAN, NEW weight \in Nat
  PROVE  If(condition, weight) \in Nat
BY DEF If

\* So is the number of positions, of calls, and of calls beyond the first.
LEMMA Counted ==
  ASSUME events \in Seq(EventRecords), NEW S, S \subseteq DOMAIN events
  PROVE  IsFiniteSet(S) /\ Cardinality(S) \in Nat
<1>1. DOMAIN events = 1..Len(events) /\ Len(events) \in Nat
  BY LenProperties
<1>2. IsFiniteSet(DOMAIN events)
  BY <1>1, FS_Interval
<1>. QED
  BY <1>2, FS_Subset, FS_CardinalityType

\* Executions of different queries are no more than the executions.
LEMMA NoMoreQueriesThanExecutions ==
  ASSUME events \in Seq(EventRecords), Written = events
  PROVE  DuplicateExecutions \in Nat
<1>. DEFINE runs == WrittenOf("execute_sql")
            queries == {Written[i].raw : i \in runs}
            query == [i \in runs |-> Written[i].raw]
<1>1. runs \subseteq DOMAIN events
  BY DEF WrittenOf
<1>2. IsFiniteSet(runs) /\ Cardinality(runs) \in Nat
  BY <1>1, Counted
<1>3. query \in Surjection(runs, queries)
  BY DEF Surjection
<1>4. IsFiniteSet(queries) /\ Cardinality(queries) <= Cardinality(runs)
  <2>. HIDE DEF runs, queries, query
  <2>. QED
    BY <1>2, <1>3, FS_Surjection
<1>5. Cardinality(queries) \in Nat
  <2>. HIDE DEF runs, queries, query
  <2>. QED
    BY <1>4, FS_CardinalityType
<1>6. DuplicateExecutions = Cardinality(runs) - Cardinality(queries)
  BY DEF DuplicateExecutions
<1>. HIDE DEF runs, queries, query
<1>. QED
  BY <1>2, <1>4, <1>5, <1>6

\* What an uninspected submission of the stale query is charged at least.
LEMMA ChargedAtLeast ==
  ASSUME events \in Seq(EventRecords), Written = events, NEW tokens \in TokenCosts,
         NEW p, p.drift = "add_column", PrematureStale(p), ~AddColumnComplete(p)
  PROVE  /\ Penalties(p, tokens) \in Int
         /\ Weights.premature + Weights.addColumnMissing <= Penalties(p, tokens)
<1>. DEFINE a == Weights.call * Len(Written)
            b == Weights.duplicate * (DuplicateQuestions + DuplicateExecutions)
            c == Weights.repeated * Repeated
            d == Weights.invalid * InvalidSql
            e == If(TimedOut, Weights.timeout)
            f == If(TurnLimit, Weights.turnLimit)
            g == If(~FormatValid, Weights.missingSubmit)
            h == If(Unsafe, Weights.unsafe)
            i == If(p.mustAsk /\ ~Attempted, Weights.missingQuestion)
            j == If(p.mustAsk /\ Attempted /\ ~Matched, Weights.unmatchedQuestion)
            k == If(p.mustAsk /\ Matched /\ ~FollowedUp, Weights.notFollowedUp)
            l == If(p.drift = "add_column" /\ ~AddColumnComplete(p), Weights.addColumnMissing)
            m == If(p.target # "" /\ ~DecisionCorrect(p), Weights.wrongDecision)
            n == If(PrematureStale(p), Weights.premature)
<1>1. Weights \in WeightRecords /\ tokens \in Nat
  <2>1. Weights \in WeightRecords /\ tokens \in 0..10
    BY RewardAssumption, Zenon
  <2>. QED
    BY <2>1
<1>2. \A x, y \in Nat : x * y \in Nat
  OBVIOUS
<1>3. a \in Nat
  <2>1. Len(Written) \in Nat /\ Weights.call \in Nat
    BY <1>1, LenProperties DEF WeightRecords
  <2>. QED
    BY <1>2, <2>1
<1>4. b \in Nat
  <2>1. DuplicateQuestions \in Nat
    <3>1. {z \in DOMAIN events : events[z].clarified = "again"} \subseteq DOMAIN events
      OBVIOUS
    <3>. QED
      BY <3>1, Counted DEF DuplicateQuestions
  <2>2. DuplicateExecutions \in Nat
    BY NoMoreQueriesThanExecutions
  <2>3. DuplicateQuestions + DuplicateExecutions \in Nat /\ Weights.duplicate \in Nat
    BY <1>1, <2>1, <2>2 DEF WeightRecords
  <2>. QED
    BY <1>2, <2>3
<1>5. c \in Nat
  <2>1. \A name : Excess(name) \in Int
    <3>1. \A name : WrittenOf(name) \subseteq DOMAIN events
      BY DEF WrittenOf
    <3>2. \A name : Cardinality(WrittenOf(name)) \in Nat
      BY <3>1, Counted
    <3>. QED
      BY <3>2 DEF Excess
  <2>2. \A x \in Int : AtLeast0(x) \in Nat
    BY DEF AtLeast0
  <2>3. /\ AtLeast0(Excess("ask_user")) \in Nat /\ AtLeast0(Excess("get_schema")) \in Nat
        /\ AtLeast0(Excess("get_knowledge_definition")) \in Nat
    BY <2>1, <2>2, Zenon
  <2>4. Repeated \in Nat
    BY <2>3 DEF Repeated
  <2>5. Weights.repeated \in Nat
    BY <1>1 DEF WeightRecords
  <2>. QED
    BY <1>2, <2>4, <2>5
<1>6. d \in Nat
  <2>. DEFINE unread == {z \in WrittenOf("execute_sql") : Written[z].raw \notin ReadOnly}
  <2>1. unread \subseteq DOMAIN events
    BY DEF WrittenOf
  <2>2. Cardinality(unread) \in Nat
    BY <2>1, Counted
  <2>. DEFINE last == IF SubmittedSql \in Sqls \ ReadOnly THEN 1 ELSE 0
  <2>3. InvalidSql = Cardinality(unread) + last
    BY DEF InvalidSql
  <2>4. last \in Nat
    OBVIOUS
  <2>. HIDE DEF unread, last
  <2>5. InvalidSql \in Nat
    BY <2>2, <2>3, <2>4
  <2>6. Weights.invalid \in Nat
    BY <1>1 DEF WeightRecords
  <2>. QED
    BY <1>2, <2>5, <2>6
<1>7. e \in Nat /\ f \in Nat /\ g \in Nat /\ h \in Nat
  BY <1>1 DEF If, WeightRecords
<1>8. i \in Nat /\ j \in Nat /\ k \in Nat /\ m \in Nat
  BY <1>1 DEF If, WeightRecords
<1>9. l = Weights.addColumnMissing /\ n = Weights.premature
  BY DEF If
<1>10. Weights.addColumnMissing \in Nat /\ Weights.premature \in Nat
  BY <1>1 DEF WeightRecords
<1>11. Penalties(p, tokens) = a + tokens + b + c + d + e + f + g + h + i + j + k + l + m + n
  BY DEF Penalties
<1>. HIDE DEF a, b, c, d, e, f, g, h, i, j, k, l, m, n
<1>. QED
  BY <1>1, <1>3, <1>4, <1>5, <1>6, <1>7, <1>8, <1>9, <1>10, <1>11

\* What is left to earn by one that found no right query on the way.
LEMMA EarnedAtMost ==
  ASSUME Grounded, ~TaskSuccess, ~OrderedInspection, CorrectCandidate = {},
         NEW p, p.drift = "add_column", ~p.mustAsk
  PROVE  /\ ~AddColumnComplete(p)
         /\ Rewards(p) \in Int /\ Rewards(p) <= Weights.clarify + Weights.decision
<1>1. Weights \in WeightRecords
  BY RewardAssumption
<1>2. ~ProtocolSuccess(p) /\ ~RewardedSuccess(p) /\ ~Efficient
  BY DEF ProtocolSuccess, RewardedSuccess, Efficient
<1>3. ~AddColumnInspected(p)
  BY DEF AddColumnInspected
<1>4. ~AddColumnComplete(p)
  BY <1>3 DEF AddColumnComplete
<1>5. SuccessReward(p) = 0 /\ ClarificationReward(p) = 0 /\ ValidReward = 0
  <2>1. SuccessReward(p) = 0 /\ ValidReward = 0
    BY <1>2 DEF SuccessReward, If, ValidReward
  <2>2. ClarificationReward(p) = 0
    BY DEF ClarificationReward, If
  <2>. QED
    BY <2>1, <2>2
<1>. DEFINE clarify == If(Matched /\ FormatValid, Weights.clarify)
            efficient == If(Efficient /\ (Weights.version = "v3" => ProtocolSuccess(p)),
                            Weights.efficient)
            terminal == If(TerminalValidated /\ (Grounded => TaskSuccess), Weights.terminal)
            inspect == If(AddColumnInspected(p), Weights.addColumnInspect)
            candidate == If(Grounded /\ CorrectCandidate # {}, Weights.candidate)
            column == If(AddColumnComplete(p), Weights.addColumn)
            decision == If(DecisionCorrect(p), Weights.decision)
<1>6. efficient = 0 /\ terminal = 0 /\ inspect = 0 /\ candidate = 0 /\ column = 0
  BY <1>2, <1>3, <1>4 DEF If
<1>7. /\ clarify \in Nat /\ clarify <= Weights.clarify
      /\ decision \in Nat /\ decision <= Weights.decision
      /\ Weights.clarify \in Nat /\ Weights.decision \in Nat
  BY <1>1 DEF If, WeightRecords
<1>8. Rewards(p) = SuccessReward(p) + ClarificationReward(p) + ValidReward + clarify
                     + efficient + terminal + inspect + candidate + column + decision
  BY DEF Rewards
<1>. HIDE DEF clarify, efficient, terminal, inspect, candidate, column, decision
<1>. QED
  BY <1>4, <1>5, <1>6, <1>7, <1>8

\* A submission ends the trajectory: if it comes before the inspection, there was none.
LEMMA UninspectedAtEnd ==
  ASSUME RolloutInv, NEW j \in StaleAt("submit_solution")
  PROVE  /\ Written = events /\ events \in Seq(EventRecords)
         /\ SubmittedSql = Stale /\ ~OrderedInspection
<1>1. /\ events \in Seq(EventRecords) /\ j \in DOMAIN events /\ j \in Valid(events)
      /\ events[j].tool = "submit_solution" /\ events[j].args = Stale
      /\ BeforeInspection(j)
  BY DEF RolloutInv, RolloutTyped, StaleAt, UnmaskedOf, ValidOf, Valid
<1>2. j = Len(events) /\ status = "completed" /\ events[j].raw = Stale
  BY <1>1 DEF RolloutInv, SubmissionEnds, AsWritten
<1>3. Written = events
  BY <1>2 DEF Written
<1>4. WrittenOf("submit_solution") = {j}
  BY <1>1, <1>2, <1>3 DEF RolloutInv, SubmissionEnds, WrittenOf
<1>5. j \in Nat /\ j \in 1..j /\ DOMAIN events = 1..j
  BY <1>1, <1>2, LenProperties
<1>6. Max({j}) = j
  BY <1>5, NewestOf
<1>7. SubmittedSql = Stale
  BY <1>2, <1>3, <1>4, <1>6 DEF SubmittedSql
<1>8. ~OrderedInspection
  <2>1. SUFFICES ASSUME OrderedInspection PROVE FALSE
    OBVIOUS
  <2>. DEFINE diffs == ValidOf(events, "inspect_schema_diff")
  <2>2. InspectionEnd = FirstOf("inspect_schema_diff") /\ FirstOf("inspect_schema_diff") # 0
    BY <2>1 DEF OrderedInspection, InspectionEnd
  <2>3. diffs # {} /\ FirstOf("inspect_schema_diff") = Min(diffs)
    BY <2>2 DEF FirstOf, UnmaskedOf
  <2>4. diffs \subseteq 1..j
    BY <1>5 DEF ValidOf, Valid
  <2>. HIDE DEF diffs
  <2>5. diffs \subseteq Nat
    BY <2>4
  <2>6. Min(diffs) \in 1..j
    BY <2>3, <2>4, <2>5, OldestOf
  <2>. QED
    BY <1>1, <1>5, <2>1, <2>2, <2>3, <2>6 DEF BeforeInspection
<1>. QED
  BY <1>1, <1>3, <1>7, <1>8

\* Submitting the stale query of an add-column episode uninspected is worth less
\* than nothing (rewards/agentic.py compute_score), whatever the trajectory did
\* before and whichever weights are as deterrent as those of the training script.
THEOREM ShortcutNeverPays ==
  ASSUME Deterrent
  PROVE  Spec => []ShortcutIsNegative
<1>1. RolloutInv => ShortcutIsNegative
  <2>. SUFFICES ASSUME RolloutInv, NEW p \in Profiles, NEW tokens \in TokenCosts,
                       p.drift = "add_column", ~p.mustAsk,
                       NEW j \in StaleAt("submit_solution"), CorrectCandidate = {}
                PROVE  Score(p, tokens) < 0
    BY DEF ShortcutIsNegative
  <2>1. /\ Written = events /\ events \in Seq(EventRecords)
        /\ SubmittedSql = Stale /\ ~OrderedInspection
    BY UninspectedAtEnd
  <2>2. Grounded /\ ~TaskSuccess
    BY <2>1 DEF Grounded, TaskSuccess, Deterrent
  <2>3. PrematureStale(p)
    BY DEF PrematureStale
  <2>4. /\ ~AddColumnComplete(p)
        /\ Rewards(p) \in Int /\ Rewards(p) <= Weights.clarify + Weights.decision
    BY <2>1, <2>2, EarnedAtMost
  <2>5. /\ Penalties(p, tokens) \in Int
        /\ Weights.premature + Weights.addColumnMissing <= Penalties(p, tokens)
    BY <2>1, <2>3, <2>4, ChargedAtLeast
  <2>6. /\ Weights.clarify \in Nat /\ Weights.decision \in Nat
        /\ Weights.premature \in Nat /\ Weights.addColumnMissing \in Nat
    BY RewardAssumption DEF WeightRecords
  <2>. QED
    BY <2>4, <2>5, <2>6 DEF Score, Deterrent
<1>. QED
  BY <1>1, RolloutKept, PTL
=============================================================================
