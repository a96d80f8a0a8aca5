-------------------------- MODULE AgentEpisodeProofs --------------------------
(***************************************************************************)
(* Theorems about agent episodes: what the state policy makes of every       *)
(* history of calls, whatever the model asks for.                           *)
(***************************************************************************)
EXTENDS AgentEpisode, StatePolicyProofs

-----------------------------------------------------------------------------
\* The inductive invariant.

EventRecords ==
  [tool : ToolNames, args : Sqls \cup Topics, masked : BOOLEAN, duplicate : BOOLEAN,
   success : {"true", "false", "absent"}, match : {"true", "false", "absent"},
   validated : BOOLEAN, schema : BOOLEAN, submitted : BOOLEAN]

EpisodeTyped == profile \in Profiles /\ events \in Seq(EventRecords)

\* Where the schema is to be read first, no event of get_schema precedes the one
\* that read it: a duplicate or a masked call comes later.
SchemaRetrieved == \E i \in ValidOf(events, "get_schema") : events[i].schema

SchemaReadFirst ==
  ExecutionOnly /\ "get_schema" \in Configured =>
    \A i \in DOMAIN events : events[i].tool = "get_schema" => SchemaRetrieved

\* Version and diff were retrieved around every trigger, answered or not.
ExplainedAtSubmission ==
  outcome = "submitted" /\ ~ExecutionOnly
    /\ {"get_schema_version", "inspect_schema_diff"} \subseteq Configured =>
    \A m \in RecoveryTriggers(events) :
      \E v \in ValidOf(events, "get_schema_version"),
         d \in ValidOf(events, "inspect_schema_diff") :
        v < d /\ (d < m \/ v > m)

\* A duplicate notice refers to an attempt that was none.
NoticesReferBack ==
  \A i \in DOMAIN events : events[i].duplicate =>
    \E j \in DOMAIN events :
      /\ j < i /\ ~events[j].duplicate
      /\ events[j].tool = events[i].tool /\ events[j].args = events[i].args

\* What the attempts to run SQL tell.
AttemptsTold ==
  \A i \in Attempts :
    /\ events[i].args \in profile.sqls
    /\ events[i].masked => events[i].success # "true" /\ ~events[i].validated
    /\ events[i].validated => events[i].success = "true"

\* What an accepted submission says of the events before it.
AcceptedSubmission ==
  outcome = "submitted" /\ ExecutionOnly =>
    /\ QueryCompleted <=> ~Unsafe
    /\ NormalForm[ShownResult] = NormalForm[events[Len(events)].args]

EpisodeInv ==
  /\ EpisodeTyped /\ NothingAfterValidated /\ ExplainedAtSubmission
  /\ SchemaReadFirst /\ RetrievedOnceAndFirst /\ AcceptedSubmission
  /\ NoticesReferBack /\ AttemptsTold

-----------------------------------------------------------------------------
\* What one call adds to the events.

\* The event of a call, as the guards and the tools make it.
LEMMA DispatchEffects ==
  ASSUME EpisodeTyped, NEW name \in ToolNames, NEW args \in Arguments(name),
         NEW event \in Dispatch(name, args)
  PROVE  /\ event \in EventRecords /\ event.tool = name /\ event.args = args
         /\ ~event.masked => name \in Available
         /\ event.masked => name \notin Available \/ name = "submit_solution"
         /\ event.submitted =>
              /\ name = "submit_solution" /\ ~event.masked
              /\ ExecutionOnly => SubmitGuard(args)
         /\ event.validated =>
              name = "execute_sql" /\ ~event.masked /\ event.success = "true"
         /\ name = "execute_sql" /\ event.masked => event.success # "true"
         /\ event.duplicate => IsExactDuplicateRetrieval(events, name, args)
         /\ name = "get_schema" /\ ~event.masked /\ ~event.schema =>
              \E i \in DOMAIN events : events[i].tool = "get_schema"
<1>1. args \in Sqls \cup Topics
  BY EpisodeAssumption DEF Arguments, EpisodeTyped
<1>. DEFINE plain == Plain(name, args)
<1>2. plain \in EventRecords
  BY <1>1 DEF Plain, EventRecords
<1>3. CASE name \notin Available
  BY <1>1, <1>3 DEF Dispatch, Masked, Plain, EventRecords
<1>4. CASE name \in Available /\ IsExactDuplicateRetrieval(events, name, args)
  BY <1>1, <1>4 DEF Dispatch, Plain, EventRecords, IsExactDuplicateRetrieval
<1>5. CASE /\ name \in Available /\ ~IsExactDuplicateRetrieval(events, name, args)
           /\ name = "submit_solution" /\ ExecutionOnly /\ ~SubmitGuard(args)
  BY <1>1, <1>5 DEF Dispatch, Masked, Plain, EventRecords
<1>6. CASE /\ name \in Available /\ ~IsExactDuplicateRetrieval(events, name, args)
           /\ ~(name = "submit_solution" /\ ExecutionOnly /\ ~SubmitGuard(args))
  <2>1. event \in ToolAnswers(name, args)
    BY <1>6 DEF Dispatch
  <2>2. CASE name = "execute_sql"
    <3>1. event \in Executions(args)
      BY <2>1, <2>2 DEF ToolAnswers
    <3>2. PICK success \in {"true", "false", "absent"}, match \in {"true", "false", "absent"},
               validated \in BOOLEAN :
            /\ event = [Plain("execute_sql", args) EXCEPT
                          !.success = success, !.match = match, !.validated = validated]
            /\ validated => success = "true"
      <4>. DEFINE made(s, m, v) == [Plain("execute_sql", args) EXCEPT
                                      !.success = s, !.match = m, !.validated = v]
      <4>1. \/ event = made("false", "absent", FALSE)
            \/ event = made("absent", "absent", FALSE)
            \/ event = made("true", "absent", TRUE)
            \/ event = made("true", "true", TRUE)
            \/ event = made("true", "false", FALSE)
            \/ event = made("true", "absent", FALSE)
        <5>1. \/ event = made("false", "absent", FALSE)
              \/ event = made("absent", "absent", FALSE)
              \/ event = made("true", "absent", TRUE)
              \/ event = made("true", IF args \in Matching THEN "true" ELSE "false",
                              args \in Matching)
              \/ event = made("true", "absent", FALSE)
          <6>1. CASE args \notin Runnable
            BY <3>1, <6>1, Zenon DEF Executions
          <6>2. CASE args \in Runnable /\ ExecutionOnly
            BY <3>1, <6>2, Zenon DEF Executions
          <6>3. CASE args \in Runnable /\ ~ExecutionOnly
            BY <3>1, <6>3, Zenon DEF Executions
          <6>. QED
            BY <6>1, <6>2, <6>3
        <5>2. CASE args \in Matching
          <6>1. (args \in Matching) = TRUE
            BY <5>2
          <6>. QED
            BY <5>1, <6>1, Zenon
        <5>3. CASE args \notin Matching
          <6>1. (args \in Matching) = FALSE
            BY <5>3
          <6>. QED
            BY <5>1, <6>1, Zenon
        <5>. QED
          BY <5>2, <5>3
      <4>. HIDE DEF made
      <4>2. \E s \in {"true", "false", "absent"}, m \in {"true", "false", "absent"}, v \in BOOLEAN :
              event = made(s, m, v) /\ (v => s = "true")
        BY <4>1
      <4>. QED
        BY <4>2 DEF made
    <3>. QED
      BY <1>1, <1>6, <2>2, <3>2 DEF Plain, EventRecords
  <2>3. CASE name = "submit_solution"
    BY <1>1, <1>6, <2>1, <2>3 DEF ToolAnswers, Plain, EventRecords
  <2>4. CASE name = "get_schema"
    BY <1>1, <1>6, <2>1, <2>4 DEF ToolAnswers, Plain, EventRecords
  <2>5. CASE name \notin {"execute_sql", "submit_solution", "get_schema"}
    <3>1. event = plain
      BY <2>1, <2>5 DEF ToolAnswers
    <3>. QED
      BY <1>1, <1>2, <1>6, <2>5, <3>1 DEF Plain
  <2>. QED
    BY <2>2, <2>3, <2>4, <2>5
<1>. QED
  BY <1>3, <1>4, <1>5, <1>6

\* A call appends its event to the others.
LEMMA EventAppended ==
  ASSUME EpisodeTyped, NEW event \in EventRecords, events' = Append(events, event),
         NEW n, n = Len(events) + 1
  PROVE  /\ n \in Nat /\ n \notin DOMAIN events /\ DOMAIN events \subseteq Nat
         /\ \A i \in DOMAIN events : i < n
         /\ DOMAIN events' = DOMAIN events \cup {n}
         /\ \A i \in DOMAIN events : events'[i] = events[i]
         /\ events'[n] = event
         /\ \A tool : ValidOf(events', tool) = ValidOf(events, tool)
              \cup (IF ~event.masked /\ event.tool = tool THEN {n} ELSE {})
         /\ RecoveryTriggers(events') = RecoveryTriggers(events)
              \cup (IF /\ ~event.masked /\ event.tool = "execute_sql"
                       /\ event.success = "false" \/ event.match = "false"
                    THEN {n} ELSE {})
BY Extended DEF EpisodeTyped

\* The newest execution is the one that counts: none follows a validated one.
LEMMA ValidatedIsNewest ==
  ASSUME EpisodeInv, NEW i \in ValidOf(events, "execute_sql"), events[i].validated
  PROVE  HasValidatedExecution(events)
<1>. DEFINE executions == ValidOf(events, "execute_sql")
<1>1. Len(events) \in Nat /\ executions \subseteq 1..Len(events)
  BY LenProperties DEF EpisodeInv, EpisodeTyped, ValidOf, Valid
<1>2. Max(executions) \in executions /\ i <= Max(executions)
  BY <1>1, NewestOf
<1>3. Max(executions) <= i
  BY <1>2 DEF EpisodeInv, NothingAfterValidated
<1>4. Max(executions) = i
  BY <1>1, <1>2, <1>3
<1>. QED
  BY <1>4 DEF HasValidatedExecution

\* The tools that a session offers are those of the policy.
LEMMA AvailableTools ==
  ASSUME EpisodeTyped
  PROVE  /\ {"execute_sql", "submit_solution"} \subseteq Configured
         /\ ExecutionOnly \in BOOLEAN /\ KnowledgeFirst \in BOOLEAN
         /\ ExecutionOnly => Available = QueryToolNames(events, Configured)
         /\ ~ExecutionOnly =>
              Available = RecoveryToolNames(events, Configured, KnowledgeFirst)
BY EpisodeAssumption
   DEF EpisodeTyped, Configured, ExecutionOnly, KnowledgeFirst, Available,
       SelectDynamicToolNames

\* No SQL runs once a candidate is validated: the submission alone is offered.
LEMMA NothingAfterValidatedStep ==
  ASSUME EpisodeInv, NEW name \in ToolNames, NEW args \in Arguments(name),
         NEW event \in Dispatch(name, args), events' = Append(events, event)
  PROVE  NothingAfterValidated'
<1>. PICK n : n = Len(events) + 1
  OBVIOUS
<1>1. /\ event \in EventRecords /\ event.tool = name
      /\ ~event.masked => name \in Available
  BY DispatchEffects DEF EpisodeInv
<1>2. /\ n \in Nat /\ n \notin DOMAIN events /\ DOMAIN events \subseteq Nat
      /\ \A i \in DOMAIN events : i < n /\ events'[i] = events[i]
      /\ events'[n] = event
      /\ ValidOf(events', "execute_sql") = ValidOf(events, "execute_sql")
           \cup (IF ~event.masked /\ event.tool = "execute_sql" THEN {n} ELSE {})
  BY <1>1, EventAppended DEF EpisodeInv
<1>3. ValidOf(events, "execute_sql") \subseteq DOMAIN events
  BY DEF ValidOf, Valid
<1>4. ASSUME n \in ValidOf(events', "execute_sql"), NEW i \in ValidOf(events, "execute_sql"),
             events[i].validated
      PROVE  FALSE
  <2>1. "execute_sql" \in Available
    BY <1>1, <1>2, <1>3, <1>4
  <2>2. HasValidatedExecution(events)
    BY <1>4, ValidatedIsNewest
  <2>. QED
    BY <2>1, <2>2, ValidatedEndsExecution, AvailableTools
       DEF Available, EpisodeInv, EpisodeTyped
<1>. QED
  BY <1>2, <1>3, <1>4 DEF EpisodeInv, NothingAfterValidated

\* A submission is offered to a recovery once every failure is explained.
LEMMA ExplainedAtSubmissionStep ==
  ASSUME EpisodeInv, NEW name \in ToolNames, NEW args \in Arguments(name),
         NEW event \in Dispatch(name, args), events' = Append(events, event),
         outcome' = ReasonAfter(event), UNCHANGED profile
  PROVE  ExplainedAtSubmission'
<1>. PICK n : n = Len(events) + 1
  OBVIOUS
<1>. SUFFICES ASSUME outcome' = "submitted", ~ExecutionOnly,
                     {"get_schema_version", "inspect_schema_diff"} \subseteq Configured,
                     NEW m \in RecoveryTriggers(events')
              PROVE  \E v \in ValidOf(events', "get_schema_version"),
                        d \in ValidOf(events', "inspect_schema_diff") :
                       v < d /\ (d < m \/ v > m)
  BY DEF ExplainedAtSubmission, ExecutionOnly, Configured
<1>1. /\ event \in EventRecords /\ event.tool = name
      /\ ~event.masked => name \in Available
      /\ event.submitted => name = "submit_solution" /\ ~event.masked
  BY DispatchEffects DEF EpisodeInv
<1>2. name = "submit_solution" /\ "submit_solution" \in Available
  BY <1>1 DEF ReasonAfter
<1>3. /\ RecoveryTriggers(events') = RecoveryTriggers(events)
      /\ \A tool : ValidOf(events, tool) \subseteq ValidOf(events', tool)
      /\ DOMAIN events \subseteq Nat
  <2>1. /\ \A tool : ValidOf(events', tool) = ValidOf(events, tool)
             \cup (IF ~event.masked /\ event.tool = tool THEN {n} ELSE {})
        /\ RecoveryTriggers(events') = RecoveryTriggers(events)
             \cup (IF /\ ~event.masked /\ event.tool = "execute_sql"
                      /\ event.success = "false" \/ event.match = "false"
                   THEN {n} ELSE {})
        /\ DOMAIN events \subseteq Nat
    BY <1>1, EventAppended DEF EpisodeInv
  <2>2. event.tool # "execute_sql"
    BY <1>1, <1>2
  <2>. QED
    BY <2>1, <2>2
<1>4. Explained(events, m)
  BY <1>2, <1>3, OfferedWhenExplained, AvailableTools
     DEF EpisodeInv, EpisodeTyped
<1>5. PICK v \in ValidOf(events, "get_schema_version"),
           d \in ValidOf(events, "inspect_schema_diff") : v < d /\ (d < m \/ m < v)
  BY <1>4 DEF Explained
<1>6. v \in Nat /\ m \in Nat
  BY <1>3, <1>5 DEF RecoveryTriggers, ValidOf, Valid
<1>. QED
  BY <1>3, <1>5, <1>6

\* Free queries: the schema is read before anything else is offered.
LEMMA SchemaReadFirstStep ==
  ASSUME EpisodeInv, NEW name \in ToolNames, NEW args \in Arguments(name),
         NEW event \in Dispatch(name, args), events' = Append(events, event),
         UNCHANGED profile
  PROVE  SchemaReadFirst'
<1>. PICK n : n = Len(events) + 1
  OBVIOUS
<1>. SUFFICES ASSUME ExecutionOnly, "get_schema" \in Configured,
                     NEW i \in DOMAIN events', events'[i].tool = "get_schema"
              PROVE  SchemaRetrieved'
  BY DEF SchemaReadFirst, ExecutionOnly, Configured
<1>1. /\ event \in EventRecords /\ event.tool = name
      /\ event.masked => name \notin Available \/ name = "submit_solution"
      /\ name = "get_schema" /\ ~event.masked /\ ~event.schema =>
           \E j \in DOMAIN events : events[j].tool = "get_schema"
  BY DispatchEffects DEF EpisodeInv
<1>2. /\ n \notin DOMAIN events /\ DOMAIN events' = DOMAIN events \cup {n}
      /\ \A j \in DOMAIN events : events'[j] = events[j]
      /\ events'[n] = event
      /\ ValidOf(events', "get_schema") = ValidOf(events, "get_schema")
           \cup (IF ~event.masked /\ event.tool = "get_schema" THEN {n} ELSE {})
  BY <1>1, EventAppended DEF EpisodeInv
<1>3. SchemaRetrieved => SchemaRetrieved'
  <2>1. ValidOf(events, "get_schema") \subseteq DOMAIN events
    BY DEF ValidOf, Valid
  <2>. QED
    BY <1>2, <2>1 DEF SchemaRetrieved
<1>4. (\E j \in DOMAIN events : events[j].tool = "get_schema") => SchemaRetrieved
  BY DEF EpisodeInv, SchemaReadFirst
<1>5. CASE event.tool = "get_schema" /\ event.masked
  <2>1. "get_schema" \notin Available
    BY <1>1, <1>5
  <2>2. SchemaRetrieved
    BY <2>1, AvailableTools DEF EpisodeInv, QueryToolNames, SchemaRetrieved
  <2>. QED
    BY <1>3, <2>2
<1>6. CASE event.tool = "get_schema" /\ ~event.masked /\ event.schema
  BY <1>2, <1>6 DEF SchemaRetrieved
<1>. QED
  BY <1>1, <1>2, <1>3, <1>4, <1>5, <1>6

\* ... and no one-shot tool is offered twice.
LEMMA RetrievedOnceStep ==
  ASSUME EpisodeInv, NEW name \in ToolNames, NEW args \in Arguments(name),
         NEW event \in Dispatch(name, args), events' = Append(events, event),
         UNCHANGED profile
  PROVE  RetrievedOnceAndFirst'
<1>. PICK n : n = Len(events) + 1
  OBVIOUS
<1>1. /\ event \in EventRecords /\ event.tool = name
      /\ ~event.masked => name \in Available
  BY DispatchEffects DEF EpisodeInv
<1>2. /\ n \in Nat /\ n \notin DOMAIN events /\ DOMAIN events \subseteq Nat
      /\ \A j \in DOMAIN events : j < n /\ events'[j] = events[j]
      /\ events'[n] = event
      /\ \A tool : ValidOf(events', tool) = ValidOf(events, tool)
           \cup (IF ~event.masked /\ event.tool = tool THEN {n} ELSE {})
  BY <1>1, EventAppended DEF EpisodeInv
<1>3. \A tool : ValidOf(events, tool) \subseteq DOMAIN events
  BY DEF ValidOf, Valid
<1>4. ASSUME ExecutionOnly, "get_schema" \in Configured,
             NEW i \in ValidOf(events', "execute_sql")
      PROVE  \E j \in ValidOf(events', "get_schema") : j < i /\ events'[j].schema
  <2>1. CASE i \in ValidOf(events, "execute_sql")
    <3>1. PICK j \in ValidOf(events, "get_schema") : j < i /\ events[j].schema
      BY <1>4, <2>1 DEF EpisodeInv, RetrievedOnceAndFirst
    <3>. QED
      BY <1>2, <1>3, <3>1
  <2>2. CASE i \notin ValidOf(events, "execute_sql")
    <3>1. i = n /\ "execute_sql" \in Available
      BY <1>1, <1>2, <1>4, <2>2
    <3>2. PICK j \in ValidOf(events, "get_schema") : events[j].schema
      BY <1>4, <3>1, AvailableTools DEF EpisodeInv, QueryToolNames
    <3>. QED
      BY <1>2, <1>3, <3>1, <3>2
  <2>. QED
    BY <2>1, <2>2
<1>5. ASSUME NEW tool \in {"get_schema", "get_knowledge_definition", "ask_user"},
             ~event.masked, event.tool = tool, NEW i \in ValidOf(events, tool)
      PROVE  FALSE
  <2>1. tool \in Available /\ tool \in CalledOneShot(events)
    BY <1>1, <1>5 DEF CalledOneShot, ValidOf, ONE_SHOT_TOOLS, RETRIEVAL_TOOLS
  <2>2. /\ tool \in Configured /\ tool = "get_schema" /\ ExecutionOnly
        /\ ~SchemaRetrieved
    BY <2>1, OfferedIsConfigured DEF Available, SchemaRetrieved
  <2>3. SchemaRetrieved
    BY <1>5, <2>2 DEF EpisodeInv, SchemaReadFirst, ValidOf, Valid
  <2>. QED
    BY <2>2, <2>3
<1>6. ASSUME NEW tool \in {"get_schema", "get_knowledge_definition", "ask_user"},
             NEW i \in ValidOf(events', tool), NEW j \in ValidOf(events', tool)
      PROVE  i = j
  BY <1>2, <1>5, <1>6 DEF EpisodeInv, RetrievedOnceAndFirst
<1>. QED
  BY <1>4, <1>6 DEF RetrievedOnceAndFirst, ExecutionOnly, Configured

\* A free query's submission is accepted when its SQL is that of the newest attempt,
\* which succeeded; the reward and the shown result look at the same attempt.
LEMMA AcceptedSubmissionStep ==
  ASSUME EpisodeInv, NEW name \in ToolNames, NEW args \in Arguments(name),
         NEW event \in Dispatch(name, args), events' = Append(events, event),
         outcome' = ReasonAfter(event), UNCHANGED profile
  PROVE  AcceptedSubmission'
<1>. PICK n : n = Len(events) + 1
  OBVIOUS
<1>. SUFFICES ASSUME outcome' = "submitted", ExecutionOnly
              PROVE  /\ (QueryCompleted <=> ~Unsafe)'
                     /\ (NormalForm[ShownResult] = NormalForm[events[Len(events)].args])'
  BY DEF AcceptedSubmission, ExecutionOnly
<1>. DEFINE newest == Max(Attempts)
<1>1. /\ event \in EventRecords /\ event.tool = name /\ event.args = args
      /\ event.submitted => name = "submit_solution" /\ SubmitGuard(args)
  BY DispatchEffects DEF EpisodeInv
<1>2. event.submitted /\ name = "submit_solution" /\ SubmitGuard(args)
  BY <1>1 DEF ReasonAfter
<1>3. /\ n \in Nat /\ n \notin DOMAIN events /\ DOMAIN events \subseteq Nat
      /\ \A i \in DOMAIN events : i < n /\ events'[i] = events[i]
      /\ DOMAIN events' = DOMAIN events \cup {n}
      /\ events'[n] = event
  BY <1>1, EventAppended DEF EpisodeInv
<1>4. /\ Len(events) \in Nat /\ DOMAIN events = 1..Len(events)
      /\ Len(events') = n /\ DOMAIN events' = 1..n
  <2>1. events \in Seq(EventRecords)
    BY DEF EpisodeInv, EpisodeTyped
  <2>. QED
    BY <1>1, <2>1, LenProperties, AppendProperties
<1>5. /\ newest \in Attempts /\ \A i \in Attempts : i <= newest
      /\ events[newest].success = "true"
      /\ NormalForm[events[newest].args] = NormalForm[args]
  <2>1. Attempts # {} /\ Attempts \subseteq 1..Len(events)
    BY <1>2, <1>4 DEF SubmitGuard, Attempts
  <2>. QED
    BY <1>2, <1>4, <2>1, NewestOf DEF SubmitGuard
<1>6. Attempts' = Attempts
  BY <1>1, <1>2, <1>3 DEF Attempts
<1>7. newest \in DOMAIN events /\ newest \in Nat /\ newest < n
      /\ events'[newest] = events[newest]
  BY <1>3, <1>5 DEF Attempts
<1>8. Max(Attempts') = newest
  BY <1>6
<1>9. Max(Submissions') = n
  <2>1. n \in Submissions' /\ Submissions' \subseteq 1..n
    BY <1>1, <1>2, <1>3, <1>4 DEF Submissions
  <2>2. ASSUME NEW S, n \in S, S \subseteq 1..n
        PROVE  Max(S) = n
    <3>1. PICK top : top = Max(S)
      OBVIOUS
    <3>2. top \in S /\ \A x \in S : x <= top
      BY <1>3, <2>2, <3>1, NewestOf
    <3>3. top \in 1..n /\ n <= top
      BY <2>2, <3>2
    <3>. QED
      BY <1>3, <3>1, <3>3
  <2>. QED
    BY <2>1, <2>2
<1>10. Max(Successes') = newest
  <2>1. Successes' \subseteq Attempts /\ newest \in Successes' /\ Successes' \subseteq 1..n
    BY <1>3, <1>4, <1>5, <1>6, <1>7 DEF Successes, Attempts
  <2>2. ASSUME NEW S, S \subseteq Attempts, newest \in S, S \subseteq 1..n
        PROVE  Max(S) = newest
    <3>1. PICK top : top = Max(S)
      OBVIOUS
    <3>2. top \in S /\ \A x \in S : x <= top
      BY <1>3, <2>2, <3>1, NewestOf
    <3>3. top \in 1..n /\ newest <= top /\ top <= newest
      BY <1>5, <2>2, <3>2
    <3>. QED
      BY <1>3, <1>7, <3>1, <3>3
  <2>. QED
    BY <2>1, <2>2
<1>. HIDE DEF newest
<1>11. QueryCompleted' <=> ~Unsafe'
  <2>1. n \in Submissions'
    BY <1>1, <1>2, <1>3 DEF Submissions
  <2>2. Attempts' # {} /\ Submissions' # {}
    BY <1>5, <1>6, <2>1
  <2>. QED
    BY <1>1, <1>2, <1>3, <1>5, <1>7, <1>8, <1>9, <2>2 DEF QueryCompleted
<1>12. (NormalForm[ShownResult] = NormalForm[events[Len(events)].args])'
  BY <1>1, <1>3, <1>4, <1>5, <1>7, <1>10 DEF ShownResult
<1>. QED
  BY <1>11, <1>12

\* A duplicate notice refers back to an attempt, and each attempt to run SQL is one
\* of the session's statements.
LEMMA AttemptsStep ==
  ASSUME EpisodeInv, NEW name \in ToolNames, NEW args \in Arguments(name),
         NEW event \in Dispatch(name, args), events' = Append(events, event),
         UNCHANGED profile
  PROVE  NoticesReferBack' /\ AttemptsTold'
<1>. PICK n : n = Len(events) + 1
  OBVIOUS
<1>1. /\ event \in EventRecords /\ event.tool = name /\ event.args = args
      /\ event.validated => ~event.masked /\ event.success = "true"
      /\ name = "execute_sql" /\ event.masked => event.success # "true"
      /\ event.duplicate => IsExactDuplicateRetrieval(events, name, args)
  BY DispatchEffects DEF EpisodeInv
<1>2. /\ n \notin DOMAIN events /\ DOMAIN events \subseteq Nat
      /\ \A i \in DOMAIN events : i < n /\ events'[i] = events[i]
      /\ DOMAIN events' = DOMAIN events \cup {n}
      /\ events'[n] = event
  BY <1>1, EventAppended DEF EpisodeInv
<1>3. NoticesReferBack'
  <2>1. ASSUME event.duplicate
        PROVE  \E j \in DOMAIN events :
                 ~events[j].duplicate /\ events[j].tool = name /\ events[j].args = args
    <3>1. PICK j \in DOMAIN events : events[j].tool = name /\ events[j].args = args
      BY <1>1, <2>1 DEF IsExactDuplicateRetrieval
    <3>. QED
      BY <3>1 DEF EpisodeInv, NoticesReferBack
  <2>2. ASSUME NEW i \in DOMAIN events', events'[i].duplicate
        PROVE  \E j \in DOMAIN events' :
                 /\ j < i /\ ~events'[j].duplicate
                 /\ events'[j].tool = events'[i].tool /\ events'[j].args = events'[i].args
    <3>1. CASE i = n
      BY <1>1, <1>2, <2>1, <2>2, <3>1
    <3>2. CASE i # n
      <4>1. i \in DOMAIN events /\ events[i].duplicate
        BY <1>2, <2>2, <3>2
      <4>2. PICK j \in DOMAIN events :
              /\ j < i /\ ~events[j].duplicate
              /\ events[j].tool = events[i].tool /\ events[j].args = events[i].args
        BY <4>1 DEF EpisodeInv, NoticesReferBack
      <4>. QED
        BY <1>2, <4>1, <4>2
    <3>. QED
      BY <3>1, <3>2
  <2>. QED
    BY <2>2 DEF NoticesReferBack
<1>4. AttemptsTold'
  <2>1. ASSUME NEW i \in Attempts'
        PROVE  /\ events'[i].args \in profile.sqls
               /\ events'[i].masked => events'[i].success # "true" /\ ~events'[i].validated
               /\ events'[i].validated => events'[i].success = "true"
    <3>1. CASE i = n
      <4>1. name = "execute_sql"
        BY <1>1, <1>2, <2>1, <3>1 DEF Attempts
      <4>2. args \in profile.sqls
        BY <4>1 DEF Arguments
      <4>. QED
        BY <1>1, <1>2, <3>1, <4>1, <4>2
    <3>2. CASE i # n
      <4>1. i \in Attempts /\ events'[i] = events[i]
        BY <1>2, <2>1, <3>2 DEF Attempts
      <4>. QED
        BY <4>1 DEF EpisodeInv, AttemptsTold
    <3>. QED
      BY <3>1, <3>2
  <2>. QED
    BY <2>1 DEF AttemptsTold
<1>. QED
  BY <1>3, <1>4

-----------------------------------------------------------------------------
\* The theorems.

\* Every call keeps the invariant.
LEMMA CallKeepsEpisode ==
  ASSUME EpisodeInv, NEW name \in ToolNames, NEW args \in Arguments(name),
         CallTool(name, args)
  PROVE  EpisodeInv'
<1>1. PICK event \in Dispatch(name, args) :
        events' = Append(events, event) /\ outcome' = ReasonAfter(event)
  BY DEF CallTool
<1>2. UNCHANGED profile
  BY DEF CallTool
<1>3. EpisodeTyped'
  <2>1. event \in EventRecords
    BY DispatchEffects DEF EpisodeInv
  <2>2. events \in Seq(EventRecords)
    BY DEF EpisodeInv, EpisodeTyped
  <2>3. events' \in Seq(EventRecords)
    BY <1>1, <2>1, <2>2, AppendProperties
  <2>. QED
    BY <1>2, <2>3 DEF EpisodeInv, EpisodeTyped
<1>. QED
  BY <1>1, <1>2, <1>3, NothingAfterValidatedStep, ExplainedAtSubmissionStep,
     SchemaReadFirstStep, RetrievedOnceStep, AcceptedSubmissionStep, AttemptsStep
     DEF EpisodeInv

\* A turn without a call keeps it: nothing is recorded and nothing submitted.
LEMMA SilenceKeepsEpisode ==
  ASSUME EpisodeInv, UNCHANGED <<profile, events>>,
         outcome' = outcome \/ outcome' # "submitted"
  PROVE  EpisodeInv'
<1>1. EpisodeTyped' /\ NothingAfterValidated' /\ SchemaReadFirst' /\ RetrievedOnceAndFirst'
  BY DEF EpisodeInv, EpisodeTyped, NothingAfterValidated, SchemaReadFirst,
         SchemaRetrieved, RetrievedOnceAndFirst, ExecutionOnly, Configured
<1>2. ExplainedAtSubmission'
  BY DEF EpisodeInv, ExplainedAtSubmission, ExecutionOnly, Configured
<1>3. AcceptedSubmission'
  BY DEF EpisodeInv, AcceptedSubmission, QueryCompleted, Unsafe, ShownResult,
         Successes, Attempts, Submissions, ExecutionOnly
<1>4. NoticesReferBack' /\ AttemptsTold'
  BY DEF EpisodeInv, NoticesReferBack, AttemptsTold, Attempts
<1>. QED
  BY <1>1, <1>2, <1>3, <1>4 DEF EpisodeInv

\* The inductive invariant of an episode (state_policy.py, tools.py execute): what
\* a recovery and a free query went through, and what an accepted submission says.
THEOREM EpisodeKept == Spec => []EpisodeInv
<1>1. Init => EpisodeInv
  <2>. SUFFICES ASSUME Init PROVE EpisodeInv
    OBVIOUS
  <2>1. profile \in Profiles /\ events = << >> /\ outcome = "running"
    BY DEF Init
  <2>2. events \in Seq(EventRecords) /\ DOMAIN events = {}
    BY <2>1, EmptySeq
  <2>. QED
    BY <2>1, <2>2
       DEF EpisodeInv, EpisodeTyped, NothingAfterValidated, ExplainedAtSubmission,
           SchemaReadFirst, RetrievedOnceAndFirst, AcceptedSubmission, ValidOf, Valid,
           NoticesReferBack, AttemptsTold, Attempts
<1>2. EpisodeInv /\ [Next]_vars => EpisodeInv'
  <2>. SUFFICES ASSUME EpisodeInv, [Next]_vars PROVE EpisodeInv'
    OBVIOUS
  <2>1. ASSUME NEW name \in ToolNames, NEW args \in Arguments(name), CallTool(name, args)
        PROVE  EpisodeInv'
    BY <2>1, CallKeepsEpisode
  <2>2. CASE MissingCall
    BY <2>2, SilenceKeepsEpisode DEF MissingCall
  <2>3. CASE UNCHANGED vars
    BY <2>3, SilenceKeepsEpisode DEF vars
  <2>. QED
    BY <2>1, <2>2, <2>3 DEF Next
<1>. QED
  BY <1>1, <1>2, PTL DEF Spec

\* A retrieval that counts has shown its result, or stands for a masked attempt.
LEMMA RetrievalsAccounted ==
  ASSUME EpisodeInv, NEW i \in Valid(events)
  PROVE  Seen(i) \/ MaskedEarlier(i)
<1>1. i \in DOMAIN events /\ DOMAIN events \subseteq Nat /\ ~events[i].masked
  BY LenProperties DEF EpisodeInv, EpisodeTyped, Valid
<1>2. CASE ~events[i].duplicate
  <2>1. i \in Attempted(i)
    BY <1>1, <1>2 DEF Attempted
  <2>. QED
    BY <1>1, <2>1 DEF Seen
<1>3. CASE events[i].duplicate
  <2>1. PICK j \in DOMAIN events :
          /\ j < i /\ ~events[j].duplicate
          /\ events[j].tool = events[i].tool /\ events[j].args = events[i].args
    BY <1>1, <1>3 DEF EpisodeInv, NoticesReferBack
  <2>2. j \in Attempted(i)
    BY <1>1, <2>1 DEF Attempted
  <2>. QED
    BY <1>3, <2>2 DEF Seen, MaskedEarlier
<1>. QED
  BY <1>2, <1>3

\* A recovery never ends in a submission while a failure is unexplained, by results
\* that the agent has seen unless it asked for them too early; and no SQL runs after
\* the one that reproduced the contract (state_policy.py, tools.py execute).
THEOREM RecoveriesKeepTheContract == Spec => []RecoveryContract
<1>1. EpisodeInv => NoSubmitBeforeRecovery
  <2>. SUFFICES ASSUME EpisodeInv, outcome = "submitted", ~ExecutionOnly,
                       {"get_schema_version", "inspect_schema_diff"} \subseteq Configured,
                       NEW m \in RecoveryTriggers(events)
                PROVE  \E v \in ValidOf(events, "get_schema_version"),
                          d \in ValidOf(events, "inspect_schema_diff") :
                         /\ v < d /\ (d < m \/ v > m)
                         /\ \A i \in {v, d} : Seen(i) \/ MaskedEarlier(i)
    BY DEF NoSubmitBeforeRecovery
  <2>1. PICK v \in ValidOf(events, "get_schema_version"),
             d \in ValidOf(events, "inspect_schema_diff") : v < d /\ (d < m \/ v > m)
    BY DEF EpisodeInv, ExplainedAtSubmission
  <2>2. v \in Valid(events) /\ d \in Valid(events)
    BY DEF ValidOf
  <2>3. \A i \in {v, d} : Seen(i) \/ MaskedEarlier(i)
    BY <2>2, RetrievalsAccounted
  <2>. QED
    BY <2>1, <2>3
<1>2. EpisodeInv => RecoveryContract
  BY <1>1 DEF EpisodeInv, RecoveryContract
<1>. QED
  BY <1>2, EpisodeKept, PTL

\* A free query reads the schema before it runs SQL, asks nothing twice, and when
\* its submission is accepted, the reward and the result shown are those of the
\* statement submitted (tools.py execute, orchestrator.py _query_reward).
THEOREM QueriesKeepTheContract == Spec => []QueryContract
<1>1. EpisodeInv => QueryContract
  BY DEF EpisodeInv, AcceptedSubmission, QueryContract
<1>. QED
  BY <1>1, EpisodeKept, PTL

\* A call that the policy offers is let through, but for a submission.
LEMMA OfferedIsLetThrough ==
  ASSUME EpisodeTyped, NEW name \in Available, name \in ToolNames,
         name = "submit_solution" => ~ExecutionOnly,
         NEW args \in Arguments(name)
  PROVE  \E event \in Dispatch(name, args) : ~event.masked
<1>1. CASE IsExactDuplicateRetrieval(events, name, args)
  BY <1>1 DEF Dispatch, Plain
<1>2. CASE ~IsExactDuplicateRetrieval(events, name, args)
  <2>1. Dispatch(name, args) = ToolAnswers(name, args)
    BY <1>2 DEF Dispatch
  <2>2. CASE name = "execute_sql"
    <3>. DEFINE failed == [Plain("execute_sql", args) EXCEPT
                             !.success = "false", !.match = "absent", !.validated = FALSE]
    <3>1. failed \in Executions(args)
      BY Zenon DEF Executions
    <3>2. ToolAnswers(name, args) = Executions(args)
      BY <2>2 DEF ToolAnswers
    <3>3. ~failed.masked
      BY DEF Plain
    <3>. QED
      BY <2>1, <3>1, <3>2, <3>3, Zenon
  <2>3. CASE name # "execute_sql"
    <3>1. CASE name = "submit_solution"
      BY <2>1, <3>1 DEF ToolAnswers, Plain
    <3>2. CASE name = "get_schema"
      BY <2>1, <3>2 DEF ToolAnswers, Plain
    <3>3. CASE name \notin {"execute_sql", "submit_solution", "get_schema"}
      <4>1. Dispatch(name, args) = {Plain(name, args)}
        BY <2>1, <3>3 DEF ToolAnswers
      <4>. QED
        BY <4>1 DEF Plain
    <3>. QED
      BY <2>3, <3>1, <3>2, <3>3
  <2>. QED
    BY <2>2, <2>3
<1>. QED
  BY <1>1, <1>2

\* In a free query the newest execution that counts is validated when the policy
\* offers the submission.
LEMMA NewestExecution ==
  ASSUME EpisodeInv, HasValidatedExecution(events)
  PROVE  /\ Attempts # {} /\ Max(Attempts) \in Attempts
         /\ ~events[Max(Attempts)].masked => events[Max(Attempts)].validated
<1>. DEFINE runs == ValidOf(events, "execute_sql")
<1>1. /\ Len(events) \in Nat /\ runs \subseteq 1..Len(events) /\ runs # {}
      /\ Attempts \subseteq 1..Len(events) /\ runs \subseteq Attempts
      /\ events[Max(runs)].validated
  BY LenProperties DEF EpisodeInv, EpisodeTyped, ValidOf, Valid, Attempts,
                       HasValidatedExecution
<1>2. Attempts # {}
  BY <1>1
<1>. HIDE DEF runs
<1>3. PICK newest \in Attempts : newest = Max(Attempts) /\ \A i \in Attempts : i <= newest
  BY <1>1, <1>2, NewestOf
<1>4. PICK run \in runs : run = Max(runs) /\ \A i \in runs : i <= run
  BY <1>1, NewestOf
<1>5. ASSUME ~events[newest].masked
      PROVE  events[newest].validated
  <2>1. newest \in runs
    BY <1>3, <1>5 DEF Attempts, ValidOf, Valid, runs
  <2>2. newest <= run /\ run <= newest /\ run \in Nat /\ newest \in Nat
    BY <1>1, <1>3, <1>4, <2>1
  <2>3. run = newest
    BY <2>2
  <2>. QED
    BY <1>1, <1>4, <2>3
<1>. QED
  BY <1>2, <1>3, <1>5

\* An agent that may call nothing any more is one whose free query called execute_sql
\* again after the execution that succeeded, and no other (state_policy.py
\* select_dynamic_tool_names, tools.py execute).
THEOREM OnlyRerunsGetStuck == Spec => []StuckOnlyByRerun
<1>1. EpisodeInv => StuckOnlyByRerun
  <2>. SUFFICES ASSUME EpisodeInv PROVE Stuck <=> MaskedRerun
    BY DEF StuckOnlyByRerun
  <2>1. /\ {"execute_sql", "submit_solution"} \subseteq Configured
        /\ Configured \subseteq ToolNames /\ EpisodeTyped
        /\ \A name \in ToolNames : Arguments(name) # {}
    BY EpisodeAssumption DEF EpisodeInv, EpisodeTyped, Configured, Arguments
  <2>2. Available # {} /\ Available \subseteq ToolNames
    <3>1. Available # {}
      BY <2>1, SomeToolOffered DEF Available
    <3>. QED
      BY <2>1, <3>1, OfferedIsConfigured DEF Available
  <2>3. ASSUME NEW name \in Available, name = "submit_solution" => ~ExecutionOnly
        PROVE  ~Stuck /\ ~(ExecutionOnly /\ name = "submit_solution")
    <3>1. PICK args \in Arguments(name) : TRUE
      BY <2>1, <2>2
    <3>2. \E event \in Dispatch(name, args) : ~event.masked
      BY <2>1, <2>2, <2>3, OfferedIsLetThrough
    <3>. QED
      BY <2>2, <2>3, <3>2 DEF Stuck
  <2>4. CASE ~ExecutionOnly
    BY <2>2, <2>3, <2>4 DEF MaskedRerun
  <2>5. CASE ExecutionOnly /\ ~HasValidatedExecution(events)
    <3>1. "submit_solution" \notin Available
      BY <2>1, <2>5, AvailableTools DEF QueryToolNames
    <3>. QED
      BY <2>2, <2>3, <2>5, <3>1 DEF MaskedRerun
  <2>6. CASE ExecutionOnly /\ HasValidatedExecution(events)
    <3>1. Available = {"submit_solution"}
      <4>1. Available = QueryToolNames(events, Configured)
        BY <2>1, <2>6, AvailableTools
      <4>2. ~("get_schema" \in Configured /\ ~SchemaRetrieved)
        <5>1. ValidOf(events, "execute_sql") # {}
          BY <2>6 DEF HasValidatedExecution
        <5>. QED
          BY <2>6, <5>1 DEF EpisodeInv, RetrievedOnceAndFirst, SchemaRetrieved
      <4>3. "submit_solution" \in Configured \ CalledOneShot(events)
        BY <2>1 DEF CalledOneShot, ONE_SHOT_TOOLS, RETRIEVAL_TOOLS
      <4>. QED
        BY <2>6, <4>1, <4>2, <4>3 DEF QueryToolNames, SchemaRetrieved
    <3>2. ASSUME NEW name \in ToolNames, NEW args \in Arguments(name),
                 name # "submit_solution", NEW event \in Dispatch(name, args)
          PROVE  event.masked
      BY <3>1, <3>2 DEF Dispatch, Masked, Plain
    <3>3. ASSUME NEW args
          PROVE  Dispatch("submit_solution", args) =
                   IF SubmitGuard(args) THEN ToolAnswers("submit_solution", args)
                   ELSE {Masked("submit_solution", args)}
      BY <2>6, <3>1 DEF Dispatch, IsExactDuplicateRetrieval, RETRIEVAL_TOOLS
    <3>4. /\ Attempts # {} /\ Max(Attempts) \in Attempts
          /\ ~events[Max(Attempts)].masked => events[Max(Attempts)].validated
      BY <2>6, NewestExecution
    <3>5. CASE events[Max(Attempts)].masked
      <4>1. \A args : ~SubmitGuard(args)
        BY <3>4, <3>5 DEF EpisodeInv, AttemptsTold, SubmitGuard
      <4>2. \A args : \A event \in Dispatch("submit_solution", args) : event.masked
        <5>1. \A args : Masked("submit_solution", args).masked
          BY DEF Masked, Plain
        <5>2. \A args : Dispatch("submit_solution", args) = {Masked("submit_solution", args)}
          BY <3>3, <4>1, Zenon
        <5>. QED
          BY <5>1, <5>2, Zenon
      <4>3. Stuck
        BY <3>2, <4>2 DEF Stuck
      <4>. QED
        BY <2>6, <3>5, <4>3 DEF MaskedRerun
    <3>6. CASE ~events[Max(Attempts)].masked
      <4>. PICK args : args = events[Max(Attempts)].args
        OBVIOUS
      <4>1. args \in profile.sqls /\ events[Max(Attempts)].success = "true"
        BY <3>4, <3>6 DEF EpisodeInv, AttemptsTold
      <4>2. SubmitGuard(args)
        BY <3>4, <4>1 DEF SubmitGuard
      <4>3. \E event \in Dispatch("submit_solution", args) : ~event.masked
        BY <3>3, <4>2 DEF ToolAnswers, Plain
      <4>4. args \in Arguments("submit_solution") /\ "submit_solution" \in ToolNames
        BY <4>1 DEF Arguments, ToolNames
      <4>5. ~Stuck
        BY <4>3, <4>4 DEF Stuck
      <4>. QED
        BY <3>6, <4>5 DEF MaskedRerun
    <3>. QED
      BY <3>5, <3>6
  <2>. QED
    BY <2>4, <2>5, <2>6
<1>. QED
  BY <1>1, EpisodeKept, PTL

\* After every call the prompt shows the tools that the dispatch accepts
\* (state_policy.py select_dynamic_tool_names, select_dynamic_tool_schemas).
THEOREM EpisodesAgree == Spec => []PoliciesAgree
<1>1. EpisodeInv => PoliciesAgree
  <2>. SUFFICES ASSUME EpisodeInv PROVE PoliciesAgree
    OBVIOUS
  <2>1. events \in Seq(EventRecords)
    BY DEF EpisodeInv, EpisodeTyped
  <2>2. EventsNamed(events)
    <3>1. \A event \in EventRecords : event.tool # ""
      BY DEF EventRecords, ToolNames, ONE_SHOT_TOOLS, RETRIEVAL_TOOLS
    <3>2. \A i \in DOMAIN events : events[i] \in EventRecords
      BY <2>1, LenProperties
    <3>. QED
      BY <3>1, <3>2 DEF EventsNamed
  <2>. QED
    BY <2>1, <2>2, PoliciesAlwaysAgree DEF PoliciesAgree
<1>. QED
  BY <1>1, EpisodeKept, PTL
=============================================================================
