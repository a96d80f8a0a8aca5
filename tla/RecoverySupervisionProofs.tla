---------------------- MODULE RecoverySupervisionProofs ----------------------
(***************************************************************************)
(* Theorems about the supervised examples of recovery, for every set of     *)
(* tasks and rollouts of every length.                                      *)
(***************************************************************************)
EXTENDS RecoverySupervision, StatePolicyProofs

-----------------------------------------------------------------------------
\* What a rollout's events say of the policy that was in force.

Event ==
  [ tool : ToolNames \cup {"alias", ""}, args : {"", "all", "stale", "repaired", "other"},
    masked : BOOLEAN, duplicate : BOOLEAN,
    success : {"true", "false", "absent"}, match : {"true", "false", "absent"},
    validated : BOOLEAN, schema : BOOLEAN, submitted : BOOLEAN ]

\* An event that was not masked is a call that the live policy offered; one that was
\* masked is a call it did not; and the oracle's query runs only with a verdict.
Fits(history, event) ==
  /\ event.tool # "" =>
       (~event.masked <=> event.tool \in RecoveryToolNames(history, ToolNames, TRUE))
  /\ event.tool = "execute_sql" /\ event.success = "true" =>
       /\ ~event.masked
       /\ event.args = "repaired" => event.validated /\ event.match = "true"

Before(i) == SubSeq(events, 1, i - 1)

SupervisionInv ==
  /\ task \in Tasks
  /\ events \in Seq(Event)
  /\ \A i \in DOMAIN events : Fits(Before(i), events[i])
  /\ \A i \in DOMAIN events : events[i].tool = "" => i = Len(events) /\ reason # ""

\* What comes out of a call fits.
LEMMA ResponseFits ==
  ASSUME task \in Tasks,
         NEW name \in ToolNames \cup {"alias"}, NEW args \in Arguments(name),
         NEW event \in Responses(name, args)
  PROVE  event \in Event /\ Fits(events, event) /\ event.tool # ""
<1>. DEFINE duplicate == IsExactDuplicateRetrieval(events, name, args)
<1>1. args \in {"all", "stale", "repaired", "other"}
  BY DEF Arguments, Stale
<1>2. duplicate \in BOOLEAN
  BY DEF IsExactDuplicateRetrieval
<1>3. name # ""
  BY DEF ToolNames, ONE_SHOT_TOOLS, RETRIEVAL_TOOLS
<1>. HIDE DEF duplicate
<1>4. CASE name \notin RecoveryToolNames(events, ToolNames, TRUE)
  <2>1. event = Refused(name, args)
    BY <1>4 DEF Responses
  <2>2. event = [ tool |-> name, args |-> args, masked |-> TRUE, duplicate |-> FALSE, success |-> "absent",
                  match |-> "absent", validated |-> FALSE, schema |-> FALSE, submitted |-> FALSE ]
    BY <2>1 DEF Refused, Answered
  <2>. QED
    BY <1>1, <1>3, <1>4, <2>2 DEF Event, Fits
<1>5. CASE name \in RecoveryToolNames(events, ToolNames, TRUE) /\ name = "execute_sql"
  <2>1. event \in Executions(args)
    BY <1>5 DEF Responses
  <2>2. PICK success \in {"true", "false"}, match \in {"true", "false", "absent"} :
          /\ event = Executed(args, success, match)
          /\ args = "repaired" /\ success = "true" => match = "true"
    BY <2>1 DEF Executions
  <2>3. event = [ tool |-> name, args |-> args, masked |-> FALSE, duplicate |-> FALSE, success |-> success,
                  match |-> match, validated |-> (match = "true"), schema |-> FALSE, submitted |-> FALSE ]
    BY <2>2, <1>5 DEF Executed, Answered
  <2>4. event \in Event
    BY <1>1, <2>3 DEF Event
  <2>5. /\ event.tool = "execute_sql" /\ ~event.masked /\ event.args = args
        /\ event.success = success /\ event.match = match /\ event.validated = (match = "true")
    BY <1>5, <2>3
  <2>. QED
    BY <1>3, <1>5, <2>2, <2>4, <2>5 DEF Fits
<1>6. CASE name \in RecoveryToolNames(events, ToolNames, TRUE) /\ name # "execute_sql"
  <2>1. event = [Answered(name, args) EXCEPT !.submitted = name = "submit_solution",
                                             !.duplicate = duplicate]
    BY <1>6 DEF Responses, duplicate
  <2>2. event = [ tool |-> name, args |-> args, masked |-> FALSE, duplicate |-> duplicate, success |-> "absent",
                  match |-> "absent", validated |-> FALSE, schema |-> FALSE,
                  submitted |-> (name = "submit_solution") ]
    BY <2>1 DEF Answered
  <2>. QED
    BY <1>1, <1>2, <1>3, <1>6, <2>2 DEF Event, Fits
<1>. QED
  BY <1>4, <1>5, <1>6

\* The first positions of a sequence.
LEMMA Prefix ==
  ASSUME NEW S, NEW s \in Seq(S), NEW k \in Nat, k <= Len(s)
  PROVE  /\ SubSeq(s, 1, k) \in Seq(S) /\ Len(SubSeq(s, 1, k)) = k
         /\ DOMAIN SubSeq(s, 1, k) = 1..k
         /\ \A j \in 1..k : SubSeq(s, 1, k)[j] = s[j]
<1>1. \A j \in 1..k : s[j] \in S
  BY LenProperties
<1>2. /\ SubSeq(s, 1, k) \in Seq(S)
      /\ Len(SubSeq(s, 1, k)) = IF 1 <= k THEN k - 1 + 1 ELSE 0
      /\ \A j \in 1..(k - 1 + 1) : SubSeq(s, 1, k)[j] = s[1 + j - 1]
  <2>1. 1 \in Int /\ k \in Int
    OBVIOUS
  <2>. QED
    BY <1>1, <2>1, SubSeqProperties
<1>. QED
  BY <1>2, LenProperties

\* Two sequences that start alike have the same first positions.
LEMMA SamePrefix ==
  ASSUME NEW S, NEW s \in Seq(S), NEW t \in Seq(S), NEW k \in Nat,
         k <= Len(s), k <= Len(t), \A j \in 1..k : s[j] = t[j]
  PROVE  SubSeq(t, 1, k) = SubSeq(s, 1, k)
<1>. DEFINE p == SubSeq(s, 1, k)
            q == SubSeq(t, 1, k)
<1>1. /\ p \in Seq(S) /\ Len(p) = k /\ \A j \in 1..k : p[j] = s[j]
      /\ q \in Seq(S) /\ Len(q) = k /\ \A j \in 1..k : q[j] = t[j]
  BY Prefix
<1>. HIDE DEF p, q
<1>2. p = q
  BY <1>1, SeqEqual
<1>. QED
  BY <1>2 DEF p, q

\* A list that grows keeps what was before each of its events.
LEMMA BeforeExtended ==
  ASSUME events \in Seq(Event), NEW event \in Event, events' = Append(events, event),
         \A i \in DOMAIN events : Fits(Before(i), events[i]), Fits(events, event)
  PROVE  /\ events' \in Seq(Event)
         /\ \A i \in DOMAIN events' : Fits(Before(i)', events'[i])
         /\ Len(events') = Len(events) + 1 /\ events'[Len(events')] = event
         /\ DOMAIN events' = DOMAIN events \cup {Len(events')}
         /\ \A i \in DOMAIN events : events'[i] = events[i]
<1>. DEFINE n == Len(events)
<1>1. /\ n \in Nat /\ DOMAIN events = 1..n /\ \A i \in 1..n : events[i] \in Event
      /\ events' \in Seq(Event) /\ Len(events') = n + 1 /\ DOMAIN events' = 1..(n + 1)
      /\ \A i \in 1..n : events'[i] = events[i]
      /\ events'[n + 1] = event
  BY LenProperties, AppendProperties
<1>. HIDE DEF n
<1>2. ASSUME NEW i \in 1..(n + 1)
      PROVE  SubSeq(events', 1, i - 1) = SubSeq(events, 1, i - 1)
  <2>. PICK longer : longer = events'
    OBVIOUS
  <2>1. i - 1 \in Nat /\ i - 1 <= n /\ longer \in Seq(Event) /\ i - 1 <= Len(longer)
        /\ \A j \in 1..(i - 1) : events[j] = longer[j]
    BY <1>1
  <2>2. SubSeq(longer, 1, i - 1) = SubSeq(events, 1, i - 1)
    BY <2>1, SamePrefix DEF n
  <2>. QED
    BY <2>2
<1>3. SubSeq(events, 1, n) = events
  BY SubSeqFull DEF n
<1>4. ASSUME NEW i \in DOMAIN events'
      PROVE  Fits(Before(i)', events'[i])
  <2>1. CASE i \in 1..n
    BY <1>1, <1>2, <2>1 DEF Before
  <2>2. CASE i = n + 1
    <3>1. Before(i)' = events
      BY <1>1, <1>2, <1>3, <2>2 DEF Before
    <3>. QED
      BY <1>1, <2>2, <3>1
  <2>. QED
    BY <1>1, <2>1, <2>2
<1>. QED
  BY <1>1, <1>4 DEF n

\* In every rollout the events are what the live policy made of the calls.
THEOREM RolloutsFit == Spec => []SupervisionInv
<1>1. Init => SupervisionInv
  <2>1. DOMAIN << >> = {} /\ << >> \in Seq(Event)
    OBVIOUS
  <2>. QED
    BY <2>1 DEF Init, SupervisionInv
<1>2. SupervisionInv /\ [Next]_vars => SupervisionInv'
  <2>. SUFFICES ASSUME SupervisionInv, [Next]_vars
                PROVE  SupervisionInv'
    OBVIOUS
  <2>1. CASE UNCHANGED vars
    BY <2>1 DEF vars, SupervisionInv, Before
  <2>2. CASE NoToolCall
    <3>1. Answered("", "") \in Event /\ Fits(events, Answered("", ""))
      BY DEF Event, Fits, Answered
    <3>2. /\ UNCHANGED task /\ events' = Append(events, Answered("", ""))
          /\ reason = "" /\ reason' = "invalid_output"
      BY <2>2 DEF NoToolCall
    <3>. QED
      BY <3>1, <3>2, BeforeExtended DEF SupervisionInv
  <2>3. ASSUME NEW name \in ToolNames \cup {"alias"}, NEW args \in Arguments(name), CallTool(name, args)
        PROVE  SupervisionInv'
    <3>1. PICK event \in Responses(name, args) : events' = Append(events, event)
      BY <2>3 DEF CallTool
    <3>2. event \in Event /\ Fits(events, event) /\ event.tool # ""
      BY ResponseFits DEF SupervisionInv
    <3>3. UNCHANGED task /\ reason = ""
      BY <2>3 DEF CallTool
    <3>. QED
      BY <3>1, <3>2, <3>3, BeforeExtended DEF SupervisionInv
  <2>. QED
    BY <2>1, <2>2, <2>3 DEF Next
<1>. QED
  BY <1>1, <1>2, PTL DEF Spec

-----------------------------------------------------------------------------
\* The terminal state.

\* What came before an event, and the event.
LEMMA OneMore ==
  ASSUME events \in Seq(Event), NEW i \in DOMAIN events
  PROVE  /\ Before(i) \in Seq(Event) /\ Len(Before(i)) = i - 1
         /\ SubSeq(events, 1, i) = Append(Before(i), events[i])
<1>1. /\ i \in Nat /\ 1 <= i /\ i <= Len(events) /\ events[i] \in Event
      /\ i - 1 \in Nat /\ i - 1 <= Len(events)
  BY LenProperties
<1>. DEFINE h == SubSeq(events, 1, i - 1)
            g == SubSeq(events, 1, i)
<1>2. /\ h \in Seq(Event) /\ Len(h) = i - 1 /\ \A j \in 1..(i - 1) : h[j] = events[j]
      /\ g \in Seq(Event) /\ Len(g) = i /\ \A j \in 1..i : g[j] = events[j]
  BY <1>1, Prefix
<1>. HIDE DEF h, g
<1>. DEFINE k == Append(h, events[i])
<1>3. /\ k \in Seq(Event) /\ Len(k) = Len(h) + 1
      /\ \A j \in 1..Len(h) : k[j] = h[j]
      /\ k[Len(h) + 1] = events[i]
  BY <1>1, <1>2, AppendProperties
<1>. HIDE DEF k
<1>4. Len(g) = Len(k) /\ \A j \in 1..Len(g) : g[j] = k[j]
  <2>1. Len(h) + 1 = i /\ Len(g) = Len(k)
    BY <1>1, <1>2, <1>3
  <2>2. ASSUME NEW j \in 1..i
        PROVE  g[j] = k[j]
    <3>1. CASE j \in 1..(i - 1)
      BY <1>1, <1>2, <1>3, <3>1
    <3>2. CASE j = i
      BY <1>1, <1>2, <1>3, <2>1, <3>2
    <3>. QED
      BY <1>1, <3>1, <3>2
  <2>. QED
    BY <1>2, <2>1, <2>2
<1>5. g = k
  BY <1>2, <1>3, <1>4, SeqEqual
<1>. QED
  BY <1>2, <1>5 DEF h, g, k, Before

\* One more call, and a sequence with two more.
LEMMA OneLonger ==
  ASSUME NEW S, NEW s \in Seq(S), NEW x \in S
  PROVE  /\ s \o <<x>> \in Seq(S) /\ Len(s \o <<x>>) = Len(s) + 1
         /\ \A i \in 1..Len(s) : (s \o <<x>>)[i] = s[i]
         /\ (s \o <<x>>)[Len(s) + 1] = x
<1>1. s \o <<x>> = Append(s, x)
  BY AppendIsConcat
<1>. QED
  BY <1>1, AppendProperties

\* A sequence that two more elements were appended to.
LEMMA TwoLonger ==
  ASSUME NEW S, NEW s \in Seq(S), NEW x \in S, NEW y \in S
  PROVE  s \o <<x, y>> = (s \o <<x>>) \o <<y>>
<1>1. <<x>> \in Seq(S) /\ <<y>> \in Seq(S) /\ <<x, y>> = Append(<<x>>, y)
  OBVIOUS
<1>2. <<x, y>> = <<x>> \o <<y>>
  BY <1>1, AppendIsConcat
<1>. QED
  BY <1>1, <1>2, ConcatAssociative

\* The oracle's sequence of calls, position by position.
LEMMA CanonicalCases ==
  ASSUME TasksAssumption, task \in Tasks, NEW C, C = CanonicalSequence
  PROVE  \/ /\ Clean /\ task.profile = "direct_clean"
            /\ C \in Seq(ToolNames) /\ Len(C) = 2
            /\ C[1] = "execute_sql" /\ C[2] = "submit_solution"
         \/ /\ ~Clean /\ C \in Seq(ToolNames)
            /\ C[1] = "execute_sql" /\ C[2] = "get_schema_version" /\ C[3] = "inspect_schema_diff"
            /\ \/ /\ task.profile = "must_ask" /\ Len(C) = 7
                  /\ C[4] = "ask_user" /\ C[5] = "get_knowledge_definition"
                  /\ C[6] = "execute_sql" /\ C[7] = "submit_solution"
               \/ /\ task.profile = "knowledge_only" /\ Len(C) = 6
                  /\ C[4] = "get_knowledge_definition"
                  /\ C[5] = "execute_sql" /\ C[6] = "submit_solution"
               \/ /\ task.profile = "schema_only" /\ Len(C) = 5
                  /\ C[4] = "execute_sql" /\ C[5] = "submit_solution"
<1>1. \/ Clean /\ task.profile = "direct_clean"
      \/ ~Clean /\ task.profile \in {"must_ask", "knowledge_only", "schema_only"}
  BY DEF TasksAssumption, Clean
<1>2. {"execute_sql", "submit_solution", "get_schema_version", "inspect_schema_diff", "ask_user",
       "get_knowledge_definition"} \subseteq ToolNames
  BY DEF ToolNames, ONE_SHOT_TOOLS, RETRIEVAL_TOOLS
<1>3. CASE Clean
  BY <1>1, <1>2, <1>3 DEF CanonicalSequence
<1>4. CASE ~Clean
  <2>. PICK audit : audit = <<"execute_sql", "get_schema_version", "inspect_schema_diff">>
    OBVIOUS
  <2>. PICK asked : asked = audit \o (IF task.profile = "must_ask" THEN <<"ask_user">> ELSE <<>>)
    OBVIOUS
  <2>. PICK known : known = asked \o (IF task.profile \in {"must_ask", "knowledge_only"}
                                     THEN <<"get_knowledge_definition">> ELSE <<>>)
    OBVIOUS
  <2>1. C = known \o <<"execute_sql", "submit_solution">>
    BY <1>4 DEF CanonicalSequence
  <2>2. /\ audit \in Seq(ToolNames) /\ Len(audit) = 3 /\ audit[1] = "execute_sql"
        /\ audit[2] = "get_schema_version" /\ audit[3] = "inspect_schema_diff"
    BY <1>2
  <2>3. /\ asked \in Seq(ToolNames) /\ \A i \in 1..3 : asked[i] = audit[i]
        /\ IF task.profile = "must_ask" THEN Len(asked) = 4 /\ asked[4] = "ask_user"
           ELSE Len(asked) = 3
    <3>1. CASE task.profile = "must_ask"
      <4>1. asked = audit \o <<"ask_user">>
        BY <3>1
      <4>. QED
        BY <1>2, <2>2, <3>1, <4>1, OneLonger
    <3>2. CASE task.profile # "must_ask"
      <4>1. asked = audit \o <<>>
        BY <3>2
      <4>. QED
        BY <2>2, <3>2, <4>1, ConcatEmptySeq
    <3>. QED
      BY <3>1, <3>2
  <2>4. /\ known \in Seq(ToolNames) /\ \A i \in 1..Len(asked) : known[i] = asked[i]
        /\ IF task.profile \in {"must_ask", "knowledge_only"}
           THEN Len(known) = Len(asked) + 1 /\ known[Len(asked) + 1] = "get_knowledge_definition"
           ELSE Len(known) = Len(asked)
    <3>1. CASE task.profile \in {"must_ask", "knowledge_only"}
      <4>1. known = asked \o <<"get_knowledge_definition">>
        BY <3>1
      <4>. QED
        BY <1>2, <2>3, <3>1, <4>1, OneLonger
    <3>2. CASE task.profile \notin {"must_ask", "knowledge_only"}
      <4>1. known = asked \o <<>>
        BY <3>2
      <4>. QED
        BY <2>3, <3>2, <4>1, ConcatEmptySeq
    <3>. QED
      BY <3>1, <3>2
  <2>. PICK run : run = known \o <<"execute_sql">>
    OBVIOUS
  <2>5. /\ run \in Seq(ToolNames) /\ Len(run) = Len(known) + 1
        /\ \A i \in 1..Len(known) : run[i] = known[i]
        /\ run[Len(known) + 1] = "execute_sql"
    <3>1. known \in Seq(ToolNames) /\ "execute_sql" \in ToolNames
      BY <1>2, <2>4
    <3>2. /\ known \o <<"execute_sql">> \in Seq(ToolNames)
          /\ Len(known \o <<"execute_sql">>) = Len(known) + 1
          /\ \A i \in 1..Len(known) : (known \o <<"execute_sql">>)[i] = known[i]
          /\ (known \o <<"execute_sql">>)[Len(known) + 1] = "execute_sql"
      BY <3>1, OneLonger, SMTT(30)
    <3>. QED
      BY <3>2
  <2>6. C = run \o <<"submit_solution">>
    <3>1. known \in Seq(ToolNames) /\ {"execute_sql", "submit_solution"} \subseteq ToolNames
      BY <1>2, <2>4
    <3>2. known \o <<"execute_sql", "submit_solution">> =
            (known \o <<"execute_sql">>) \o <<"submit_solution">>
      BY <3>1, TwoLonger, SMTT(30)
    <3>. QED
      BY <2>1, <3>2
  <2>7. /\ C \in Seq(ToolNames) /\ Len(C) = Len(run) + 1
        /\ \A i \in 1..Len(run) : C[i] = run[i]
        /\ C[Len(run) + 1] = "submit_solution"
    BY <1>2, <2>5, <2>6, OneLonger
  <2>8. /\ \A i \in 1..3 : C[i] = audit[i]
        /\ \A i \in 1..Len(asked) : C[i] = asked[i]
        /\ \A i \in 1..Len(known) : C[i] = known[i]
        /\ Len(C) = Len(known) + 2 /\ C[Len(known) + 1] = "execute_sql"
        /\ C[Len(known) + 2] = "submit_solution"
    <3>1. /\ Len(asked) \in Nat /\ 3 <= Len(asked)
          /\ Len(known) \in Nat /\ Len(asked) <= Len(known)
          /\ Len(run) = Len(known) + 1
      BY <2>3, <2>4, <2>5, LenProperties
    <3>2. ASSUME NEW i \in 1..Len(known)
          PROVE  C[i] = known[i]
      <4>1. i \in 1..Len(run)
        BY <3>1
      <4>. QED
        BY <2>5, <2>7, <4>1
    <3>3. ASSUME NEW i \in 1..Len(asked)
          PROVE  C[i] = asked[i]
      <4>1. i \in 1..Len(known)
        BY <3>1
      <4>. QED
        BY <2>4, <3>2, <4>1
    <3>4. ASSUME NEW i \in 1..3
          PROVE  C[i] = audit[i]
      <4>1. i \in 1..Len(asked)
        BY <3>1
      <4>. QED
        BY <2>3, <3>3, <4>1
    <3>5. Len(C) = Len(known) + 2 /\ C[Len(known) + 2] = "submit_solution"
      <4>1. Len(run) + 1 = Len(known) + 2
        BY <3>1
      <4>. QED
        BY <2>7, <4>1
    <3>6. C[Len(known) + 1] = "execute_sql"
      <4>1. Len(known) + 1 \in 1..Len(run)
        BY <3>1
      <4>. QED
        BY <2>5, <2>7, <4>1
    <3>. QED
      BY <3>2, <3>3, <3>4, <3>5, <3>6
  <2>9. CASE task.profile = "must_ask"
    BY <1>4, <2>2, <2>3, <2>4, <2>7, <2>8, <2>9
  <2>10. CASE task.profile = "knowledge_only"
    BY <1>4, <2>2, <2>3, <2>4, <2>7, <2>8, <2>10
  <2>11. CASE task.profile = "schema_only"
    BY <1>4, <2>2, <2>3, <2>4, <2>7, <2>8, <2>11
  <2>. QED
    BY <1>1, <1>4, <2>9, <2>10, <2>11
<1>. QED
  BY <1>3, <1>4

\* It ends with a submission.
LEMMA CanonicalEnd ==
  ASSUME TasksAssumption, task \in Tasks
  PROVE  Submit \in 2..7 /\ CanonicalSequence[Submit] = "submit_solution"
<1>1. \E n \in 2..7 : Len(CanonicalSequence) = n /\ CanonicalSequence[n] = "submit_solution"
  BY CanonicalCases
<1>. QED
  BY <1>1 DEF Submit

\* The conversation is offered what its events are.
LEMMA OfferedIsRecovery ==
  ASSUME NEW S, NEW history \in Seq(S), EventsNamed(history)
  PROVE  Offered(history) = RecoveryToolNames(history, ToolNames, FALSE)
BY PoliciesAlwaysAgree DEF Offered

\* A prefix whose events all name a tool.
LEMMA PrefixNamed ==
  ASSUME events \in Seq(Event), NEW k \in Nat, k <= Len(events),
         \A i \in 1..k : events[i].tool # ""
  PROVE  SubSeq(events, 1, k) \in Seq(Event) /\ EventsNamed(SubSeq(events, 1, k))
<1>1. /\ SubSeq(events, 1, k) \in Seq(Event) /\ DOMAIN SubSeq(events, 1, k) = 1..k
      /\ \A i \in 1..k : SubSeq(events, 1, k)[i] = events[i]
  BY Prefix
<1>. QED
  BY <1>1 DEF EventsNamed

\* The positions up to one of n.
LEMMA Initial ==
  ASSUME NEW n \in Nat, NEW x \in 1..n
  PROVE  x \in Nat /\ x <= n /\ \A i \in 1..x : i \in 1..n /\ (i = x \/ i # n)
OBVIOUS

\* Only the last event may name no tool.
LEMMA NamedBefore ==
  ASSUME SupervisionInv, NEW x \in DOMAIN events, events[x].tool # ""
  PROVE  /\ events \in Seq(Event) /\ x \in Nat /\ x <= Len(events)
         /\ \A i \in 1..x : events[i].tool # ""
<1>1. /\ events \in Seq(Event)
      /\ \A i \in DOMAIN events : events[i].tool = "" => i = Len(events)
  BY DEF SupervisionInv
<1>. PICK n \in Nat : n = Len(events) /\ DOMAIN events = 1..n
  BY <1>1, LenProperties
<1>4. x \in 1..n
  BY Zenon
<1>2. /\ x \in Nat /\ x <= n
      /\ \A i \in 1..x : i \in 1..n /\ (i = x \/ i # n)
  BY <1>4, Initial, Zenon
<1>3. ASSUME NEW i \in 1..x
      PROVE  events[i].tool # ""
  <2>1. i \in 1..n /\ (i = x \/ i # n)
    BY <1>2, Zenon
  <2>2. CASE i = x
    BY <2>2
  <2>3. CASE i # n
    BY <1>1, <2>1, <2>3
  <2>. QED
    BY <2>1, <2>2, <2>3
<1>. QED
  BY <1>1, <1>2, <1>3

\* A rollout that stopped at a verified repair is always turned into the example
\* that submits it (mine_p6_scaleup_failures.py classify_failure,
\* build_p6_on_policy_recovery_sft.py), whatever the task and however long the rollout.
THEOREM VerifiedRepairsAreTaught ==
  ASSUME TasksAssumption
  PROVE  Spec => []TerminalStateTaught
<1>1. SupervisionInv => TerminalStateTaught
  <2>. SUFFICES ASSUME SupervisionInv, VerifiedTerminal # NoIndex
                PROVE  \E example \in Examples : example.context = "terminal_missing"
    BY DEF TerminalStateTaught
  <2>. PICK x : x = VerifiedTerminal
    OBVIOUS
  <2>1. /\ x \in DOMAIN events
        /\ events[x].tool = "execute_sql" /\ events[x].success = "true"
        /\ events[x].args = "repaired" /\ x \in Succeeded /\ NoSubmitAfter(x)
    <3>. DEFINE candidates ==
           {i \in Succeeded : /\ DiffEvents # {} /\ i > Min(DiffEvents)
                              /\ events[i].args = "repaired" /\ NoSubmitAfter(i)}
    <3>1. candidates # {} /\ x = Max(candidates)
      BY DEF VerifiedTerminal, NoIndex
    <3>2. candidates \subseteq 1..Len(events) /\ Len(events) \in Nat
      BY LenProperties DEF SupervisionInv, Succeeded
    <3>3. x \in candidates
      <4>. HIDE DEF candidates
      <4>. QED
        BY <3>1, <3>2, NewestOf
    <3>. QED
      BY <3>3 DEF Succeeded
  <2>2. /\ ~events[x].masked /\ events[x].validated /\ events[x].match = "true"
        /\ "execute_sql" \in RecoveryToolNames(Before(x), ToolNames, TRUE)
    BY <2>1 DEF SupervisionInv, Fits
  <2>3. {"submit_solution", "get_schema_version", "inspect_schema_diff"} \subseteq ToolNames
        /\ "" \notin ToolNames
    BY DEF ToolNames, ONE_SHOT_TOOLS, RETRIEVAL_TOOLS
  <2>4. RequiredRecovery(Before(x)) = ""
    BY <2>2, <2>3, RequiredNames DEF RecoveryToolNames
  <2>. DEFINE history == SubSeq(events, 1, x)
  <2>5. /\ Before(x) \in Seq(Event) /\ events[x] \in Event
        /\ history = Append(Before(x), events[x])
    <3>1. events \in Seq(Event) /\ x \in DOMAIN events
      BY <2>1 DEF SupervisionInv
    <3>2. Before(x) \in Seq(Event) /\ history = Append(Before(x), events[x])
      BY <3>1, OneMore
    <3>3. events[x] \in Event
      BY <3>1
    <3>. QED
      BY <3>2, <3>3
  <2>6. RequiredRecovery(history) = ""
    <3>1. RequiredRecovery(Append(Before(x), events[x])) = RequiredRecovery(Before(x))
      BY <2>1, <2>2, <2>5, RequiredUnmoved
    <3>. QED
      BY <2>4, <2>5, <3>1
  <2>7. HasValidatedExecution(history)
    BY <2>1, <2>2, <2>5, LastExecutionCounts
  <2>8. Offered(history) = {"submit_solution"}
    <3>1. history \in Seq(Event) /\ EventsNamed(history)
      <4>1. /\ events \in Seq(Event) /\ x \in Nat /\ x <= Len(events)
            /\ \A i \in 1..x : events[i].tool # ""
        BY <2>1, NamedBefore
      <4>. QED
        BY <4>1, PrefixNamed
    <3>2. "submit_solution" \notin CalledOneShot(history)
      BY DEF CalledOneShot, ONE_SHOT_TOOLS, RETRIEVAL_TOOLS
    <3>3. RecoveryToolNames(history, ToolNames, FALSE) = {"submit_solution"}
      BY <2>3, <2>6, <2>7, <3>2 DEF RecoveryToolNames
    <3>. QED
      BY <3>1, <3>3, OfferedIsRecovery
  <2>. DEFINE example == [context |-> "terminal_missing", history |-> history, target |-> Submit]
  <2>9. "successful_execute_no_submit" \in Labels
    BY <2>1 DEF Labels
  <2>10. example \in Candidates
    BY <2>9 DEF Candidates
  <2>11. IsOffered(example)
    BY <2>8, CanonicalEnd DEF IsOffered, Action, SupervisionInv
  <2>. QED
    BY <2>10, <2>11 DEF Examples
<1>. QED
  BY <1>1, RolloutsFit, PTL

-----------------------------------------------------------------------------
\* What is taught, next to what the loops that put knowledge first allow.

\* The two orders differ in one case only: an execution, while a question is open
\* and the definition has not been retrieved.
LEMMA OrdersDiffer ==
  ASSUME NEW S, NEW history \in Seq(S), EventsNamed(history), NEW name \in Offered(history),
         \/ name # "execute_sql"
         \/ ~AwaitsFollowUp(history)
         \/ "get_knowledge_definition" \in CalledOneShot(history)
  PROVE  name \in RecoveryToolNames(history, ToolNames, TRUE)
<1>. DEFINE required == RequiredRecovery(history)
            available == ToolNames \ CalledOneShot(history)
            submits == HasValidatedExecution(history) /\ "submit_solution" \in available
<1>1. name \in RecoveryToolNames(history, ToolNames, FALSE)
  BY OfferedIsRecovery
<1>2. CASE required \in ToolNames \/ submits \/ ~AwaitsFollowUp(history)
  BY <1>1, <1>2 DEF RecoveryToolNames, AfterClarification
<1>3. CASE required \notin ToolNames /\ ~submits /\ AwaitsFollowUp(history)
  <2>1. name \in available /\ name \in {"get_knowledge_definition", "execute_sql"}
    BY <1>1, <1>3 DEF RecoveryToolNames, AfterClarification, PostClarificationTools,
                      POST_CLARIFICATION_TOOLS
  <2>2. name = "execute_sql" => "get_knowledge_definition" \notin available
    BY <1>3
  <2>3. name \in PostClarificationTools(available, TRUE)
    BY <2>1, <2>2 DEF PostClarificationTools, POST_CLARIFICATION_TOOLS
  <2>4. RecoveryToolNames(history, ToolNames, TRUE)
          = available \cap PostClarificationTools(available, TRUE)
    BY <1>3 DEF RecoveryToolNames, AfterClarification
  <2>. QED
    BY <2>1, <2>3, <2>4
<1>. QED
  BY <1>2, <1>3

\* In a rollout that follows the oracle of a question, the definition is retrieved
\* right after an answer: the live policy offers nothing else.
LEMMA DefinitionFollows ==
  ASSUME SupervisionInv, 5 \in DOMAIN events,
         events[1].tool = "execute_sql", events[2].tool = "get_schema_version",
         events[3].tool = "inspect_schema_diff", events[4].tool = "ask_user",
         events[5].tool = "get_knowledge_definition", ~events[4].masked
  PROVE  ~events[5].masked
<1>1. /\ DOMAIN events = 1..Len(events) /\ Len(events) \in Nat
      /\ \A i \in DOMAIN events : events[i] \in Event
  BY LenProperties DEF SupervisionInv
<1>2. {1, 2, 3, 4} \subseteq DOMAIN events
  BY <1>1
<1>. PICK early : early = Before(4)
  OBVIOUS
<1>. PICK history : history = Before(5)
  OBVIOUS
<1>3. early \in Seq(Event) /\ Len(early) = 3 /\ history = Append(early, events[4])
  <2>1. history = SubSeq(events, 1, 4)
    BY DEF Before
  <2>2. events \in Seq(Event)
    BY DEF SupervisionInv
  <2>3. 4 \in DOMAIN events
    BY <1>2
  <2>4. /\ Before(4) \in Seq(Event) /\ Len(Before(4)) = 4 - 1
        /\ SubSeq(events, 1, 4) = Append(Before(4), events[4])
    BY <2>2, <2>3, OneMore
  <2>5. Len(Before(4)) = 3
    BY <2>4
  <2>6. history = Append(Before(4), events[4])
    BY <2>1, <2>4
  <2>. QED
    BY <2>4, <2>5, <2>6
<1>4. /\ {"ask_user", "get_knowledge_definition", "submit_solution"} \subseteq ToolNames
      /\ "" \notin ToolNames
  BY DEF ToolNames, ONE_SHOT_TOOLS, RETRIEVAL_TOOLS
<1>5. "ask_user" \in RecoveryToolNames(early, ToolNames, TRUE)
  BY <1>2, <1>4 DEF SupervisionInv, Fits
<1>6. RequiredRecovery(early) = "" /\ ~HasValidatedExecution(early)
  <2>1. RequiredRecovery(early) = ""
    BY <1>5, RequiredNames DEF RecoveryToolNames, ToolNames, ONE_SHOT_TOOLS, RETRIEVAL_TOOLS
  <2>2. "submit_solution" \in ToolNames \ CalledOneShot(early)
    BY <1>4 DEF CalledOneShot, ONE_SHOT_TOOLS, RETRIEVAL_TOOLS
  <2>. QED
    BY <1>4, <1>5, <2>1, <2>2 DEF RecoveryToolNames
<1>7. events[4] \in Event
  BY <1>1, <1>2
<1>8. RequiredRecovery(history) = ""
  BY <1>3, <1>6, <1>7, RequiredUnmoved
<1>9. ~HasValidatedExecution(history)
  BY <1>3, <1>6, <1>7, LastExecutionCounts
<1>10. /\ history \in Seq(Event) /\ DOMAIN history = 1..4
       /\ \A i \in 1..4 : history[i] = events[i]
  <2>1. 4 \in Nat /\ 4 <= Len(events) /\ history = SubSeq(events, 1, 4)
    BY <1>1 DEF Before
  <2>2. events \in Seq(Event)
    BY DEF SupervisionInv
  <2>3. /\ SubSeq(events, 1, 4) \in Seq(Event) /\ DOMAIN SubSeq(events, 1, 4) = 1..4
        /\ \A j \in 1..4 : SubSeq(events, 1, 4)[j] = events[j]
    BY <2>1, <2>2, Prefix
  <2>. QED
    BY <2>1, <2>3
<1>11. "get_knowledge_definition" \notin CalledOneShot(history)
  BY <1>10 DEF CalledOneShot, Valid
<1>12. AwaitsFollowUp(history)
  <2>. PICK asked : asked = ValidOf(history, "ask_user")
    OBVIOUS
  <2>1. asked = {4}
    BY <1>10 DEF ValidOf, Valid
  <2>2. Max(asked) = 4
    <3>1. asked \subseteq 1..4 /\ asked # {} /\ 4 \in Nat
      BY <2>1
    <3>2. Max(asked) \in asked
      BY <3>1, NewestOf
    <3>. QED
      BY <2>1, <3>2
  <2>3. \A i \in Valid(history) : ~(i > 4)
    BY <1>10 DEF Valid
  <2>. QED
    BY <2>1, <2>2, <2>3 DEF AwaitsFollowUp
<1>13. "get_knowledge_definition" \in RecoveryToolNames(history, ToolNames, TRUE)
  BY <1>4, <1>8, <1>9, <1>11, <1>12
     DEF RecoveryToolNames, AfterClarification, PostClarificationTools, POST_CLARIFICATION_TOOLS
<1>. QED
  BY <1>13 DEF SupervisionInv, Fits

\* Up to the first error the rollout's calls are the oracle's.
LEMMA FirstErrorFound ==
  ASSUME TasksAssumption, SupervisionInv, NEW first, first = FirstErrorIndex,
         NEW C, C = CanonicalSequence
  PROVE  /\ first \in 1..Len(C) /\ first <= Len(events) + 1
         /\ \A i \in 1..(first - 1) : events[i].tool = C[i]
<1>. PICK n : n = Len(events)
  OBVIOUS
<1>1. n \in Nat /\ Submit \in 2..7 /\ Len(C) = Submit
  <2>1. Len(events) \in Nat
    BY LenProperties DEF SupervisionInv
  <2>2. Submit \in 2..7
    BY CanonicalEnd DEF SupervisionInv
  <2>. QED
    BY <2>1, <2>2 DEF Submit
<1>. PICK last \in 2..7 : last = Submit
  BY <1>1
<1>. PICK shorter : shorter = Min({n, Submit})
  OBVIOUS
<1>2. shorter \in Nat /\ shorter <= n /\ shorter <= last /\ (shorter = n \/ shorter = last)
  <2>1. {n, last} \subseteq Nat /\ {n, last} # {}
    BY <1>1
  <2>2. Min({n, last}) \in {n, last} /\ \A x \in {n, last} : Min({n, last}) <= x
    BY <2>1, OldestOf
  <2>. QED
    BY <2>1, <2>2
<1>. PICK divergences : divergences = {i \in 1..shorter : events[i].tool # C[i]}
  OBVIOUS
<1>3. first = IF divergences # {} THEN Min(divergences)
              ELSE IF n < last THEN n + 1 ELSE last
  BY DEF FirstErrorIndex
<1>4. first \in Nat /\ 1 <= first /\ first <= last /\ first <= n + 1 /\ first - 1 <= shorter
      /\ \A x \in divergences : first <= x
  <2>0. last \in Nat /\ 2 <= last
    OBVIOUS
  <2>1. CASE divergences # {}
    <3>1. divergences \subseteq Nat
      BY <1>2
    <3>2. Min(divergences) \in divergences /\ \A x \in divergences : Min(divergences) <= x
      BY <2>1, <3>1, OldestOf
    <3>3. first \in divergences /\ \A x \in divergences : first <= x
      BY <1>3, <2>1, <3>2
    <3>4. first \in Nat /\ 1 <= first /\ first <= shorter
      BY <1>2, <3>3
    <3>5. first <= last /\ first <= n + 1 /\ first - 1 <= shorter
      BY <1>1, <1>2, <2>0, <3>4
    <3>. QED
      BY <3>3, <3>4, <3>5
  <2>2. CASE divergences = {}
    <3>1. /\ first = IF n < last THEN n + 1 ELSE last
          /\ \A x \in divergences : first <= x
      BY <1>3, <2>2
    <3>2. CASE n < last
      <4>1. first = n + 1 /\ shorter = n
        BY <1>1, <1>2, <2>0, <3>1, <3>2
      <4>2. first \in Nat /\ 1 <= first /\ first <= last /\ first <= n + 1 /\ first - 1 <= shorter
        BY <1>1, <2>0, <3>2, <4>1
      <4>. QED
        BY <3>1, <4>2
    <3>3. CASE ~(n < last)
      <4>1. first = last /\ shorter = last
        BY <1>1, <1>2, <2>0, <3>1, <3>3
      <4>2. first \in Nat /\ 1 <= first /\ first <= last /\ first <= n + 1 /\ first - 1 <= shorter
        BY <1>1, <2>0, <3>3, <4>1
      <4>. QED
        BY <3>1, <4>2
    <3>. QED
      BY <3>2, <3>3
  <2>. QED
    BY <2>1, <2>2
<1>5. ASSUME NEW i \in 1..(first - 1)
      PROVE  events[i].tool = C[i]
  <2>1. i \in 1..shorter /\ i \in Nat /\ i < first
    BY <1>2, <1>4
  <2>2. ASSUME i \in divergences
        PROVE  FALSE
    <3>1. first <= i
      BY <1>4, <2>2
    <3>. QED
      BY <1>4, <2>1, <3>1
  <2>. QED
    BY <2>1, <2>2
<1>6. first \in 1..Len(C)
  BY <1>1, <1>4
<1>. QED
  BY <1>4, <1>5, <1>6

\* Every call in the history of a candidate names a tool: only a rollout's last
\* event may not, and an example never contains that one.
LEMMA CandidatesNamed ==
  ASSUME TasksAssumption, SupervisionInv, NEW example \in Candidates,
         NEW history, history = example.history
  PROVE  history \in Seq(Event) /\ EventsNamed(history)
<1>. PICK first : first = FirstErrorIndex
  OBVIOUS
<1>. PICK C : C = CanonicalSequence
  OBVIOUS
<1>1. /\ first \in 1..Len(C) /\ first <= Len(events) + 1
      /\ \A i \in 1..(first - 1) : events[i].tool = C[i]
  BY FirstErrorFound
<1>2. C \in Seq(ToolNames) /\ "" \notin ToolNames
  <2>1. C \in Seq(ToolNames)
    BY CanonicalCases DEF SupervisionInv
  <2>. QED
    BY <2>1 DEF ToolNames, ONE_SHOT_TOOLS, RETRIEVAL_TOOLS
<1>3. events \in Seq(Event) /\ Len(events) \in Nat /\ DOMAIN events = 1..Len(events)
  BY LenProperties DEF SupervisionInv
<1>5. Len(C) \in Nat /\ \A i \in 1..Len(C) : C[i] # ""
  <2>1. Len(C) \in Nat /\ DOMAIN C = 1..Len(C) /\ \A i \in 1..Len(C) : C[i] \in ToolNames
    BY <1>2, LenProperties
  <2>. QED
    BY <1>2, <2>1
<1>. PICK n \in Nat : n = Len(events)
  BY <1>3
<1>. PICK m \in Nat : m = Len(C)
  BY <1>5
<1>6. first \in 1..m /\ first <= n + 1 /\ first \in Nat /\ first - 1 \in Nat /\ first - 1 <= n
  BY <1>1
<1>7. \A i \in 1..(first - 1) : events[i].tool # ""
  <2>1. \A i \in 1..(first - 1) : i \in 1..m
    BY <1>6
  <2>. QED
    BY <1>1, <1>5, <2>1
<1>4. PICK k \in Nat : k <= n /\ history = SubSeq(events, 1, k)
                       /\ \A i \in 1..k : events[i].tool # ""
  <2>1. \/ example = [context |-> "pre_error", history |-> SubSeq(events, 1, first - 1), target |-> first]
        \/ /\ first <= n /\ events[first].tool # ""
           /\ \E t : example = [context |-> "post_error", history |-> SubSeq(events, 1, first), target |-> t]
        \/ /\ VerifiedTerminal # NoIndex
           /\ \E t : example = [context |-> "terminal_missing",
                                history |-> SubSeq(events, 1, VerifiedTerminal), target |-> t]
    BY DEF Candidates
  <2>2. CASE history = SubSeq(events, 1, first - 1)
    BY <1>6, <1>7, <2>2
  <2>3. CASE history = SubSeq(events, 1, first) /\ first <= n /\ events[first].tool # ""
    <3>1. \A i \in 1..first : i = first \/ i \in 1..(first - 1)
      BY <1>6
    <3>2. \A i \in 1..first : events[i].tool # ""
      BY <1>7, <2>3, <3>1
    <3>. QED
      BY <1>6, <2>3, <3>2
  <2>4. CASE history = SubSeq(events, 1, VerifiedTerminal) /\ VerifiedTerminal # NoIndex
    <3>. PICK x : x = VerifiedTerminal
      OBVIOUS
    <3>. PICK candidates :
           candidates = {i \in Succeeded : /\ DiffEvents # {} /\ i > Min(DiffEvents)
                                           /\ events[i].args = "repaired" /\ NoSubmitAfter(i)}
      OBVIOUS
    <3>1. candidates # {} /\ x = Max(candidates)
      BY <2>4 DEF VerifiedTerminal, NoIndex
    <3>2. candidates \subseteq 1..n
      BY <1>3 DEF Succeeded
    <3>3. x \in candidates
      BY <3>1, <3>2, NewestOf
    <3>4. x \in DOMAIN events /\ events[x].tool # ""
      BY <3>3 DEF Succeeded
    <3>5. x \in Nat /\ x <= n /\ \A i \in 1..x : events[i].tool # ""
      BY <3>4, NamedBefore
    <3>. QED
      BY <2>4, <3>5
  <2>. QED
    <3>1. CASE example = [context |-> "pre_error", history |-> SubSeq(events, 1, first - 1), target |-> first]
      <4>1. history = SubSeq(events, 1, first - 1)
        BY <3>1
      <4>. QED
        BY <2>2, <4>1
    <3>2. ASSUME NEW t, first <= n, events[first].tool # "",
                 example = [context |-> "post_error", history |-> SubSeq(events, 1, first), target |-> t]
          PROVE  \E k \in Nat : k <= n /\ history = SubSeq(events, 1, k)
                               /\ \A i \in 1..k : events[i].tool # ""
      <4>1. history = SubSeq(events, 1, first)
        BY <3>2
      <4>. QED
        BY <2>3, <3>2, <4>1
    <3>3. ASSUME NEW t, VerifiedTerminal # NoIndex,
                 example = [context |-> "terminal_missing",
                            history |-> SubSeq(events, 1, VerifiedTerminal), target |-> t]
          PROVE  \E k \in Nat : k <= n /\ history = SubSeq(events, 1, k)
                               /\ \A i \in 1..k : events[i].tool # ""
      <4>1. history = SubSeq(events, 1, VerifiedTerminal)
        BY <3>3
      <4>. QED
        BY <2>4, <3>3, <4>1
    <3>. QED
      BY <2>1, <3>1, <3>2, <3>3, Zenon
<1>. QED
  BY <1>3, <1>4, PrefixNamed

\* Where a call that the oracle makes stands in its sequence.
LEMMA CanonicalIndexFound ==
  ASSUME NEW name, \E i \in 1..Submit : CanonicalSequence[i] = name, Submit \in Nat
  PROVE  CanonicalSequence[CanonicalIndex(name)] = name
<1>. DEFINE places == {i \in 1..Submit : CanonicalSequence[i] = name}
<1>1. places \subseteq Nat /\ places # {} /\ CanonicalIndex(name) = Min(places)
  BY DEF CanonicalIndex
<1>2. Min(places) \in places
  <2>. HIDE DEF places
  <2>. QED
    BY <1>1, OldestOf
<1>. QED
  BY <1>1, <1>2

\* After an error, a task with a definition is taught an execution only when the
\* definition is known.
LEMMA DefinitionBeforeRepair ==
  ASSUME TasksAssumption, task \in Tasks, task.profile \in {"must_ask", "knowledge_only"},
         NEW history, CanonicalSequence[StateAwareTarget(history)] = "execute_sql"
  PROVE  ValidOf(history, "get_knowledge_definition") # {}
<1>. SUFFICES ASSUME ValidOf(history, "get_knowledge_definition") = {}
              PROVE  FALSE
  OBVIOUS
<1>1. ~Clean /\ Submit \in 2..7 /\ CanonicalSequence[Submit] = "submit_solution"
  BY CanonicalEnd, CanonicalCases
<1>2. ASSUME NEW name \in {"get_schema_version", "inspect_schema_diff", "get_knowledge_definition"}
      PROVE  CanonicalSequence[CanonicalIndex(name)] # "execute_sql"
  <2>1. \E i \in 1..Submit : CanonicalSequence[i] = name
    BY CanonicalCases DEF Submit
  <2>. QED
    BY <1>1, <2>1, CanonicalIndexFound
<1>3. task.profile = "must_ask" => CanonicalSequence[CanonicalIndex("ask_user")] # "execute_sql"
  <2>1. ASSUME task.profile = "must_ask"
        PROVE  \E i \in 1..Submit : CanonicalSequence[i] = "ask_user"
    BY <2>1, CanonicalCases DEF Submit
  <2>. QED
    BY <1>1, <2>1, CanonicalIndexFound
<1>4. \/ StateAwareTarget(history) = Submit
      \/ \E name \in {"get_schema_version", "inspect_schema_diff", "get_knowledge_definition"} :
           StateAwareTarget(history) = CanonicalIndex(name)
      \/ task.profile = "must_ask" /\ StateAwareTarget(history) = CanonicalIndex("ask_user")
  BY <1>1 DEF StateAwareTarget
<1>. QED
  BY <1>1, <1>2, <1>3, <1>4

\* No example teaches an action that the loops with knowledge first would refuse,
\* save the execution of a task without a definition while a question is open.
LEMMA ExamplesAreAllowed ==
  ASSUME TasksAssumption, SupervisionInv
  PROVE  TaughtIsAllowed
<1>. SUFFICES ASSUME NEW example \in Examples,
                     ~(AwaitsFollowUp(example.history)
                         /\ task.profile \in {"schema_only", "direct_clean"})
              PROVE  Action(example) \in RecoveryToolNames(example.history, ToolNames, TRUE)
  BY DEF TaughtIsAllowed
<1>. PICK history : history = example.history
  OBVIOUS
<1>. PICK first : first = FirstErrorIndex
  OBVIOUS
<1>. PICK C : C = CanonicalSequence
  OBVIOUS
<1>1. example \in Candidates /\ Action(example) \in Offered(history)
      /\ Action(example) = C[example.target]
  BY DEF Examples, IsOffered, Action
<1>2. \/ history = Before(first) /\ example.target = first
      \/ example.target = StateAwareTarget(history)
      \/ example.target = Submit
  <2>1. \/ example = [context |-> "pre_error", history |-> Before(first), target |-> first]
        \/ \E h : example = [context |-> "post_error", history |-> h, target |-> StateAwareTarget(h)]
        \/ \E h : example = [context |-> "terminal_missing", history |-> h, target |-> Submit]
    BY <1>1 DEF Candidates, Before
  <2>. QED
    BY <2>1
<1>3. ASSUME Action(example) = "execute_sql", AwaitsFollowUp(history)
      PROVE  "get_knowledge_definition" \in CalledOneShot(history)
  <2>1. task.profile \in {"must_ask", "knowledge_only"} /\ task \in Tasks
    BY <1>3, CanonicalCases DEF SupervisionInv
  <2>2. ASSUME ValidOf(history, "get_knowledge_definition") # {}
        PROVE  "get_knowledge_definition" \in CalledOneShot(history)
    BY <2>2 DEF CalledOneShot, ValidOf, ONE_SHOT_TOOLS, RETRIEVAL_TOOLS
  <2>3. CASE example.target = StateAwareTarget(history)
    BY <1>1, <1>3, <2>1, <2>2, <2>3, DefinitionBeforeRepair
  <2>4. CASE example.target = Submit
    BY <1>1, <1>3, <2>1, <2>4, CanonicalEnd
  <2>5. CASE history = Before(first) /\ example.target = first
    <3>1. /\ first \in 1..Len(C) /\ first <= Len(events) + 1
          /\ \A i \in 1..(first - 1) : events[i].tool = C[i]
      BY FirstErrorFound
    <3>2. /\ DOMAIN history = 1..(first - 1)
          /\ \A i \in 1..(first - 1) : history[i] = events[i] /\ history[i].tool = C[i]
      <4>1. events \in Seq(Event) /\ Len(events) \in Nat
        BY LenProperties DEF SupervisionInv
      <4>2. Len(C) \in Nat
        BY <2>1, CanonicalEnd DEF Submit
      <4>3. first - 1 \in Nat /\ first - 1 <= Len(events)
        BY <3>1, <4>1, <4>2
      <4>4. /\ DOMAIN SubSeq(events, 1, first - 1) = 1..(first - 1)
            /\ \A i \in 1..(first - 1) : SubSeq(events, 1, first - 1)[i] = events[i]
        BY <4>1, <4>3, Prefix
      <4>. QED
        BY <2>5, <3>1, <4>4 DEF Before
    <3>3. PICK asked \in 1..(first - 1) : C[asked] = "ask_user" /\ ~history[asked].masked
      <4>1. ValidOf(history, "ask_user") # {}
        BY <1>3 DEF AwaitsFollowUp
      <4>. QED
        BY <3>2, <4>1 DEF ValidOf, Valid
    <3>4. C[first] = "execute_sql"
      BY <1>1, <1>3, <2>5
    <3>5. /\ first = 6 /\ asked = 4
          /\ C[1] = "execute_sql" /\ C[2] = "get_schema_version" /\ C[3] = "inspect_schema_diff"
          /\ C[4] = "ask_user" /\ C[5] = "get_knowledge_definition"
      <4>1. asked \in Int /\ first \in Int /\ 1 <= asked /\ asked < first /\ first <= Len(C)
            /\ Len(C) \in 5..7
        BY <2>1, <3>1, <3>3, CanonicalCases
      <4>2. /\ task.profile = "must_ask" /\ Len(C) = 7
            /\ C[1] = "execute_sql" /\ C[2] = "get_schema_version" /\ C[3] = "inspect_schema_diff"
            /\ C[4] = "ask_user" /\ C[5] = "get_knowledge_definition" /\ C[6] = "execute_sql"
            /\ C[7] = "submit_solution"
        <5>1. CASE task.profile = "must_ask"
          BY <2>1, <5>1, CanonicalCases
        <5>2. CASE task.profile = "knowledge_only"
          <6>1. /\ Len(C) = 6
                /\ C[1] = "execute_sql" /\ C[2] = "get_schema_version" /\ C[3] = "inspect_schema_diff"
                /\ C[4] = "get_knowledge_definition" /\ C[5] = "execute_sql" /\ C[6] = "submit_solution"
            BY <2>1, <5>2, CanonicalCases
          <6>2. asked \in {1, 2, 3, 4, 5, 6}
            BY <4>1, <6>1
          <6>. QED
            BY <3>3, <6>1, <6>2
        <5>. QED
          BY <2>1, <5>1, <5>2
      <4>3. asked \in {1, 2, 3, 4, 5, 6, 7} /\ first \in {1, 2, 3, 4, 5, 6, 7}
        BY <4>1, <4>2
      <4>4. asked = 4 /\ first \in {1, 6}
        BY <3>3, <3>4, <4>2, <4>3
      <4>. QED
        BY <4>1, <4>2, <4>4
    <3>6. 5 \in DOMAIN events /\ \A i \in 1..5 : events[i].tool = C[i] /\ history[i] = events[i]
      <4>1. DOMAIN events = 1..Len(events) /\ Len(events) \in Nat
        BY LenProperties DEF SupervisionInv
      <4>. QED
        BY <3>1, <3>2, <3>5, <4>1
    <3>7. ~events[5].masked
      BY <3>3, <3>5, <3>6, DefinitionFollows
    <3>8. 5 \in ValidOf(history, "get_knowledge_definition")
      BY <3>2, <3>5, <3>6, <3>7 DEF ValidOf, Valid
    <3>. QED
      BY <2>2, <3>8
  <2>. QED
    BY <1>2, <2>3, <2>4, <2>5
<1>4. history \in Seq(Event) /\ EventsNamed(history)
  BY <1>1, CandidatesNamed
<1>. QED
  BY <1>1, <1>3, <1>4, OrdersDiffer

-----------------------------------------------------------------------------
\* The oracle's own trajectory.

\* How the oracle's calls follow one another.
LEMMA CanonicalShape ==
  ASSUME TasksAssumption, task \in Tasks, NEW C, C = CanonicalSequence
  PROVE  /\ Submit \in 2..7 /\ Len(C) = Submit /\ (Clean <=> Submit = 2) /\ (~Clean => 5 <= Submit)
         /\ C[Submit] = "submit_solution" /\ C[Submit - 1] = "execute_sql"
         /\ \A i \in 1..Submit :
              /\ C[i] \in ToolNames
              /\ C[i] = "submit_solution" => i = Submit
              /\ C[i] = "execute_sql" => i = 1 \/ i = Submit - 1
              /\ C[i] = "get_schema_version" <=> ~Clean /\ i = 2
              /\ C[i] = "inspect_schema_diff" <=> ~Clean /\ i = 3
              /\ C[i] = "ask_user" => Submit = 7 /\ i = 4
              /\ C[i] = "get_knowledge_definition" => i = IF Submit = 7 THEN 5 ELSE 4
              /\ C[i] # "get_schema"
         /\ Submit = 7 => C[4] = "ask_user" /\ C[5] = "get_knowledge_definition"
<1>. PICK last : last = Submit
  OBVIOUS
<1>1. last = Len(C)
  BY DEF Submit
<1>2. {"execute_sql", "submit_solution", "get_schema_version", "inspect_schema_diff", "ask_user",
       "get_knowledge_definition"} \subseteq ToolNames
  BY DEF ToolNames, ONE_SHOT_TOOLS, RETRIEVAL_TOOLS
<1>3. CASE Clean
  <2>1. last = 2 /\ C[1] = "execute_sql" /\ C[2] = "submit_solution"
    BY <1>1, <1>3, CanonicalCases
  <2>2. \A i \in 1..last : i \in {1, 2}
    BY <2>1
  <2>. QED
    BY <1>1, <1>2, <1>3, <2>1, <2>2
<1>4. CASE ~Clean
  <2>1. C[1] = "execute_sql" /\ C[2] = "get_schema_version" /\ C[3] = "inspect_schema_diff"
    BY <1>4, CanonicalCases
  <2>2. CASE task.profile = "must_ask"
    <3>1. /\ last = 7 /\ C[4] = "ask_user" /\ C[5] = "get_knowledge_definition"
          /\ C[6] = "execute_sql" /\ C[7] = "submit_solution"
      BY <1>1, <1>4, <2>2, CanonicalCases
    <3>2. \A i \in 1..last : i \in {1, 2, 3, 4, 5, 6, 7}
      BY <3>1
    <3>. QED
      BY <1>1, <1>2, <1>4, <2>1, <3>1, <3>2
  <2>3. CASE task.profile = "knowledge_only"
    <3>1. /\ last = 6 /\ C[4] = "get_knowledge_definition"
          /\ C[5] = "execute_sql" /\ C[6] = "submit_solution"
      BY <1>1, <1>4, <2>3, CanonicalCases
    <3>2. \A i \in 1..last : i \in {1, 2, 3, 4, 5, 6}
      BY <3>1
    <3>. QED
      BY <1>1, <1>2, <1>4, <2>1, <3>1, <3>2
  <2>4. CASE task.profile = "schema_only"
    <3>1. last = 5 /\ C[4] = "execute_sql" /\ C[5] = "submit_solution"
      BY <1>1, <1>4, <2>4, CanonicalCases
    <3>2. \A i \in 1..last : i \in {1, 2, 3, 4, 5}
      BY <3>1
    <3>. QED
      BY <1>1, <1>2, <1>4, <2>1, <3>1, <3>2
  <2>. QED
    BY <1>4, <2>2, <2>3, <2>4, CanonicalCases
<1>. QED
  BY <1>3, <1>4

\* What is recorded of the oracle's calls.
LEMMA CanonicalRecorded ==
  ASSUME TasksAssumption, task \in Tasks, NEW i \in 1..Submit, NEW C, C = CanonicalSequence,
         NEW event, event = CanonicalEvents[i]
  PROVE  /\ event.tool = C[i] /\ ~event.masked /\ ~event.validated /\ event.match # "false"
         /\ event.success = "false" => ~Clean /\ i = 1
         /\ i = Submit - 1 => event.args = "repaired" /\ event.success = "true"
<1>. PICK last \in 2..7 : last = Submit
  BY CanonicalShape
<1>1. /\ i \in 1..last /\ Repair = last - 1
      /\ C[i] = "execute_sql" => i = 1 \/ i = last - 1
      /\ C[i] = "submit_solution" => i = last
      /\ C[last - 1] = "execute_sql"
      /\ Clean <=> last = 2
  BY CanonicalShape DEF Repair, Submit
<1>2. event =
        CASE C[i] = "execute_sql" /\ i < Repair -> StaleObservation
          [] C[i] = "execute_sql" /\ i = Repair -> Executed("repaired", "true", "absent")
          [] C[i] = "submit_solution" -> [Answered("submit_solution", "repaired") EXCEPT !.submitted = TRUE]
          [] OTHER -> Answered(C[i], "all")
  BY DEF CanonicalEvents
<1>3. CASE C[i] = "execute_sql" /\ i < Repair
  <2>1. event = StaleObservation
    BY <1>2, <1>3, <1>1
  <2>2. i = 1 /\ ~Clean /\ i # last - 1
    BY <1>1, <1>3
  <2>. QED
    BY <1>3, <2>1, <2>2 DEF StaleObservation, Executed, Answered
<1>4. CASE C[i] = "execute_sql" /\ i = Repair
  <2>1. event = Executed("repaired", "true", "absent")
    BY <1>1, <1>2, <1>4
  <2>. QED
    BY <1>4, <2>1 DEF Executed, Answered
<1>5. CASE C[i] = "submit_solution"
  <2>1. event = [Answered("submit_solution", "repaired") EXCEPT !.submitted = TRUE] /\ i # last - 1
    BY <1>1, <1>2, <1>5
  <2>. QED
    BY <1>5, <2>1 DEF Answered
<1>6. CASE C[i] \notin {"execute_sql", "submit_solution"}
  <2>1. event = Answered(C[i], "all") /\ i # last - 1
    BY <1>1, <1>2, <1>6
  <2>. QED
    BY <1>6, <2>1 DEF Answered
<1>. QED
  BY <1>1, <1>3, <1>4, <1>5, <1>6

\* Where a call stands among the first n.
Places(sequence, n, name) == {i \in 1..n : sequence[i] = name}

\* Every call of the played prefix counts, at its place in C, and only the
\* original query may have failed.
PlayedThrough(C, n, history) ==
  /\ Valid(history) = 1..n
  /\ \A name : ValidOf(history, name) = Places(C, n, name)
  /\ \A i \in 1..n : history[i].tool = C[i]
  /\ ~HasValidatedExecution(history)
  /\ \A m \in RecoveryTriggers(history) : ~Clean /\ m = 1

\* What the policy sees of the first n calls of the oracle.
LEMMA CanonicalHistory ==
  ASSUME TasksAssumption, task \in Tasks, NEW n \in 0..(Submit - 1),
         NEW C, C = CanonicalSequence, NEW history, history = SubSeq(CanonicalEvents, 1, n)
  PROVE  PlayedThrough(C, n, history)
<1>. PICK last \in 2..7 : last = Submit
  BY CanonicalShape
<1>. DEFINE S == {CanonicalEvents[i] : i \in 1..last}
<1>1. CanonicalEvents \in Seq(S) /\ Len(CanonicalEvents) = last
  <2>1. CanonicalEvents \in [1..last -> S]
    BY DEF CanonicalEvents
  <2>2. last \in Nat
    OBVIOUS
  <2>. HIDE DEF S
  <2>. QED
    BY <2>1, <2>2
<1>2. n \in Nat /\ n <= last /\ n <= last - 1
  OBVIOUS
<1>. HIDE DEF S
<1>3. DOMAIN history = 1..n /\ \A i \in 1..n : history[i] = CanonicalEvents[i]
  BY <1>1, <1>2, Prefix
<1>4. \A i \in 1..n :
        /\ history[i].tool = C[i] /\ ~history[i].masked /\ ~history[i].validated
        /\ history[i].match # "false"
        /\ history[i].success = "false" => ~Clean /\ i = 1
  BY <1>2, <1>3, CanonicalRecorded
<1>5. Valid(history) = 1..n
  BY <1>3, <1>4 DEF Valid
<1>6. \A name : ValidOf(history, name) = Places(C, n, name)
  BY <1>4, <1>5 DEF ValidOf, Places
<1>7. ~HasValidatedExecution(history)
  <2>. PICK runs : runs = ValidOf(history, "execute_sql")
    OBVIOUS
  <2>1. runs \subseteq 1..n
    BY <1>6 DEF Places
  <2>2. runs # {} => Max(runs) \in 1..n
    BY <1>2, <2>1, NewestOf
  <2>. QED
    BY <1>4, <2>2 DEF HasValidatedExecution
<1>8. \A m \in RecoveryTriggers(history) : ~Clean /\ m = 1
  BY <1>4, <1>6 DEF RecoveryTriggers, Places
<1>. QED
  BY <1>4, <1>5, <1>6, <1>7, <1>8 DEF PlayedThrough

\* The recovery that is required before the oracle's next call.
LEMMA CanonicalRequired ==
  ASSUME TasksAssumption, task \in Tasks, NEW n \in 0..(Submit - 1),
         NEW C, C = CanonicalSequence, NEW history, history = SubSeq(CanonicalEvents, 1, n)
  PROVE  \/ RequiredRecovery(history) = ""
         \/ RequiredRecovery(history) = C[n + 1]
<1>. PICK last \in 2..7 : last = Submit
  BY CanonicalShape
<1>1. /\ \A name : ValidOf(history, name) = Places(C, n, name)
      /\ \A m \in RecoveryTriggers(history) : ~Clean /\ m = 1
  <2>1. PlayedThrough(C, n, history)
    BY CanonicalHistory
  <2>. QED
    BY <2>1 DEF PlayedThrough
<1>2. CASE RecoveryTriggers(history) = {}
  BY <1>2 DEF RequiredRecovery
<1>3. CASE RecoveryTriggers(history) # {}
  <2>1. ~Clean /\ RecoveryTriggers(history) = {1} /\ 1 \in 1..n /\ n \in Nat /\ n <= last - 1
    <3>1. RecoveryTriggers(history) \subseteq ValidOf(history, "execute_sql")
      BY DEF RecoveryTriggers
    <3>2. RecoveryTriggers(history) \subseteq 1..n
      BY <1>1, <3>1 DEF Places
    <3>. QED
      BY <1>1, <1>3, <3>2
  <2>2. /\ \A i \in 1..last : C[i] = "get_schema_version" <=> i = 2
        /\ \A i \in 1..last : C[i] = "inspect_schema_diff" <=> i = 3
        /\ 5 <= last /\ C[2] = "get_schema_version" /\ C[3] = "inspect_schema_diff"
    <3>1. 5 <= last
      BY <2>1, CanonicalShape
    <3>2. 2 \in 1..last /\ 3 \in 1..last
      BY <3>1
    <3>. QED
      BY <2>1, <3>1, <3>2, CanonicalShape
  <2>3. /\ ValidOf(history, "get_schema_version") = {2} \cap (1..n)
        /\ ValidOf(history, "inspect_schema_diff") = {3} \cap (1..n)
    <3>1. \A i \in 1..n : i \in 1..last
      BY <2>1
    <3>2. /\ Places(C, n, "get_schema_version") = {2} \cap (1..n)
          /\ Places(C, n, "inspect_schema_diff") = {3} \cap (1..n)
      BY <2>2, <3>1 DEF Places
    <3>. QED
      BY <1>1, <3>2
  <2>4. ~AlreadyRecovered(history, 1)
    BY <2>3 DEF AlreadyRecovered
  <2>5. VersionsAfter(history, 1) = {2} \cap (1..n)
    BY <2>3 DEF VersionsAfter
  <2>6. \A S : S = {1} => Max(S) = 1
    <3>1. ASSUME NEW S, S = {1}
          PROVE  Max(S) = 1
      <4>1. S \subseteq 1..1 /\ S # {} /\ 1 \in Nat
        BY <3>1
      <4>2. Max(S) \in S
        BY <4>1, NewestOf
      <4>. QED
        BY <3>1, <4>2
    <3>. QED
      BY <3>1
  <2>. PICK unresolved :
         unresolved = {m \in RecoveryTriggers(history) :
                         /\ ~AlreadyRecovered(history, m)
                         /\ VersionsAfter(history, m) = {} \/ ~OrderedDiff(history, m)}
    OBVIOUS
  <2>7. RequiredRecovery(history) =
          IF unresolved = {} THEN ""
          ELSE IF VersionsAfter(history, Max(unresolved)) = {}
               THEN "get_schema_version" ELSE "inspect_schema_diff"
    BY DEF RequiredRecovery
  <2>8. CASE n = 1
    <3>1. VersionsAfter(history, 1) = {}
      BY <2>5, <2>8
    <3>2. unresolved = {1}
      BY <2>1, <2>4, <3>1
    <3>3. Max(unresolved) = 1 /\ unresolved # {}
      BY <2>6, <3>2
    <3>4. RequiredRecovery(history) = "get_schema_version"
      BY <2>7, <3>1, <3>3
    <3>5. n + 1 = 2
      BY <2>8
    <3>. QED
      BY <2>2, <3>4, <3>5
  <2>9. CASE n = 2
    <3>1. VersionsAfter(history, 1) = {2} /\ ~OrderedDiff(history, 1)
      BY <2>3, <2>5, <2>9 DEF OrderedDiff
    <3>2. unresolved = {1}
      BY <2>1, <2>4, <3>1
    <3>3. Max(unresolved) = 1 /\ unresolved # {}
      BY <2>6, <3>2
    <3>4. RequiredRecovery(history) = "inspect_schema_diff"
      BY <2>7, <3>1, <3>3
    <3>5. n + 1 = 3
      BY <2>9
    <3>. QED
      BY <2>2, <3>4, <3>5
  <2>10. CASE n >= 3
    <3>1. VersionsAfter(history, 1) = {2} /\ 3 \in ValidOf(history, "inspect_schema_diff")
      BY <2>3, <2>5, <2>10
    <3>2. Min(VersionsAfter(history, 1)) = 2
      <4>1. VersionsAfter(history, 1) \subseteq Nat /\ VersionsAfter(history, 1) # {}
        BY <3>1
      <4>2. Min(VersionsAfter(history, 1)) \in VersionsAfter(history, 1)
        BY <4>1, OldestOf
      <4>. QED
        BY <3>1, <4>2
    <3>3. OrderedDiff(history, 1)
      BY <3>1, <3>2 DEF OrderedDiff
    <3>4. unresolved = {}
      BY <2>1, <3>1, <3>3
    <3>. QED
      BY <2>7, <3>4
  <2>11. n = 1 \/ n = 2 \/ n >= 3
    BY <2>1
  <2>. QED
    BY <2>8, <2>9, <2>10, <2>11
<1>. QED
  BY <1>2, <1>3

\* The policy offers each of the oracle's calls after the calls before it.
LEMMA OracleStepOffered ==
  ASSUME TasksAssumption, task \in Tasks, NEW k \in 1..Submit
  PROVE  CanonicalSequence[k] \in Offered(SubSeq(CanonicalEvents, 1, k - 1))
<1>. PICK last \in 2..7 : last = Submit
  BY CanonicalShape
<1>. PICK C : C = CanonicalSequence
  OBVIOUS
<1>. PICK n \in 0..(last - 1) : n = k - 1
  OBVIOUS
<1>. PICK history : history = SubSeq(CanonicalEvents, 1, n)
  OBVIOUS
<1>1. /\ Valid(history) = 1..n
      /\ \A name : ValidOf(history, name) = Places(C, n, name)
      /\ \A i \in 1..n : history[i].tool = C[i]
      /\ ~HasValidatedExecution(history)
  <2>1. n \in 0..(Submit - 1)
    OBVIOUS
  <2>2. PlayedThrough(C, n, history)
    BY <2>1, CanonicalHistory
  <2>. QED
    BY <2>2 DEF PlayedThrough
<1>2. RequiredRecovery(history) = "" \/ RequiredRecovery(history) = C[k]
  <2>1. n + 1 = k /\ n \in 0..(Submit - 1)
    OBVIOUS
  <2>2. RequiredRecovery(history) = "" \/ RequiredRecovery(history) = C[n + 1]
    BY <2>1, CanonicalRequired
  <2>. QED
    BY <2>1, <2>2
<1>3. C[k] \in ToolNames /\ "" \notin ToolNames
  BY CanonicalShape DEF ToolNames, ONE_SHOT_TOOLS, RETRIEVAL_TOOLS
<1>. DEFINE called == {history[i].tool : i \in Valid(history)}
            available == ToolNames \ (ONE_SHOT_TOOLS \cap called)
<1>6. Offered(history) = RecoveryToolNames(history, ToolNames, FALSE)
  <2>. DEFINE S == {CanonicalEvents[i] : i \in 1..last}
  <2>1. CanonicalEvents \in Seq(S) /\ Len(CanonicalEvents) = last
    <3>1. CanonicalEvents \in [1..last -> S] /\ last \in Nat
      BY DEF CanonicalEvents
    <3>. HIDE DEF S
    <3>. QED
      BY <3>1
  <2>. HIDE DEF S
  <2>2. n \in Nat /\ n <= last
    OBVIOUS
  <2>3. history \in Seq(S) /\ DOMAIN history = 1..n
    BY <2>1, <2>2, Prefix
  <2>4. \A i \in 1..n : C[i] # ""
    <3>1. \A i \in 1..n : i \in 1..last
      OBVIOUS
    <3>. QED
      BY <3>1, <1>3, CanonicalShape
  <2>5. EventsNamed(history)
    BY <1>1, <2>3, <2>4 DEF EventsNamed
  <2>. QED
    BY <2>3, <2>5, OfferedIsRecovery
<1>4. CASE RequiredRecovery(history) = C[k]
  BY <1>3, <1>4, <1>6 DEF RecoveryToolNames
<1>5. CASE RequiredRecovery(history) = ""
  <2>1. Offered(history) = AfterClarification(history, available, FALSE)
    BY <1>1, <1>3, <1>5, <1>6 DEF RecoveryToolNames, CalledOneShot
  <2>2. C[k] \in available
    <3>1. ASSUME NEW i \in 1..n, C[i] = C[k]
          PROVE  C[k] \notin ONE_SHOT_TOOLS
      <4>1. i \in 1..last /\ k \in 1..last /\ i # k
        OBVIOUS
      <4>2. /\ C[k] # "get_schema_version" /\ C[k] # "inspect_schema_diff" /\ C[k] # "ask_user"
            /\ C[k] # "get_knowledge_definition" /\ C[k] # "get_schema"
        BY <3>1, <4>1, CanonicalShape
      <4>. QED
        BY <4>2 DEF ONE_SHOT_TOOLS, RETRIEVAL_TOOLS
    <3>2. C[k] \in called => \E i \in 1..n : C[i] = C[k]
      BY <1>1
    <3>. QED
      BY <1>3, <3>1, <3>2
  <2>3. CASE ~AwaitsFollowUp(history)
    BY <2>1, <2>2, <2>3 DEF AfterClarification
  <2>4. CASE AwaitsFollowUp(history)
    <3>. PICK asked : asked = ValidOf(history, "ask_user")
      OBVIOUS
    <3>1. asked = {i \in 1..n : C[i] = "ask_user"} /\ asked # {}
      BY <1>1, <2>4 DEF AwaitsFollowUp, Places
    <3>2. last = 7 /\ asked = {4} /\ 4 \in 1..n
      <4>1. \A i \in 1..n : i \in 1..last
        OBVIOUS
      <4>2. \A i \in asked : last = 7 /\ i = 4
        BY <3>1, <4>1, CanonicalShape
      <4>. QED
        BY <3>1, <4>2
    <3>3. Max(asked) = 4
      <4>1. asked \subseteq 1..4 /\ 4 \in Nat
        BY <3>2
      <4>2. Max(asked) \in asked
        BY <3>1, <4>1, NewestOf
      <4>. QED
        BY <3>2, <4>2
    <3>4. C[5] = "get_knowledge_definition"
      BY <3>2, CanonicalShape
    <3>5. n = 4
      <4>1. ASSUME 5 \in 1..n
            PROVE  FALSE
        <5>1. 5 \in Valid(history) /\ history[5].tool = "get_knowledge_definition" /\ 5 > 4
          BY <1>1, <3>4, <4>1
        <5>. QED
          BY <2>4, <3>3, <5>1 DEF AwaitsFollowUp, POST_CLARIFICATION_TOOLS
      <4>. QED
        BY <3>2, <4>1
    <3>6. k = 5
      BY <3>5
    <3>. QED
      BY <2>1, <2>2, <2>4, <3>4, <3>6
         DEF AfterClarification, PostClarificationTools, POST_CLARIFICATION_TOOLS
  <2>. QED
    BY <2>3, <2>4
<1>. QED
  BY <1>2, <1>4, <1>5

\* The contract audit accepts the trajectory of a drifted task and of no other.
LEMMA OracleAudited ==
  ASSUME TasksAssumption, task \in Tasks
  PROVE  ContractAccepted(CanonicalEvents) <=> ~Clean
<1>. PICK last \in 2..7 : last = Submit
  BY CanonicalShape
<1>. PICK C : C = CanonicalSequence
  OBVIOUS
<1>1. DOMAIN CanonicalEvents = 1..last
  BY DEF CanonicalEvents
<1>2. /\ \A i \in 1..last : CanonicalEvents[i].tool = C[i]
      /\ \A i \in 1..last : C[i] = "inspect_schema_diff" <=> ~Clean /\ i = 3
      /\ C[last - 1] = "execute_sql"
  BY CanonicalRecorded, CanonicalShape
<1>3. CASE Clean
  BY <1>1, <1>2, <1>3 DEF ContractAccepted
<1>4. CASE ~Clean
  <2>1. 5 <= last
    BY <1>4, CanonicalShape
  <2>2. 3 \in 1..last /\ last - 1 \in 1..last /\ 3 < last - 1
    BY <2>1
  <2>3. CanonicalEvents[last - 1].args = "repaired" /\ CanonicalEvents[last - 1].success = "true"
    BY <2>2, CanonicalRecorded
  <2>4. CanonicalEvents[3].tool = "inspect_schema_diff" /\ CanonicalEvents[last - 1].tool = "execute_sql"
    BY <1>2, <1>4, <2>2
  <2>. QED
    BY <1>1, <1>4, <2>2, <2>3, <2>4 DEF ContractAccepted
<1>. QED
  BY <1>3, <1>4

\* Whatever the task and however long the rollout, what the examples teach, those
\* cut from the oracle and the answers to failed rollouts alike, is something the
\* policy lets the model do (prepare_p6_generalized_protocol.py
\* expand_supervision, build_p6_on_policy_recovery_sft.py).
THEOREM TeachingKeepsToThePolicy ==
  ASSUME TasksAssumption
  PROVE  Spec => []TaughtIsOffered
<1>1. SupervisionInv => TaughtIsOffered
  <2>. SUFFICES ASSUME SupervisionInv
                PROVE  TaughtIsOffered
    OBVIOUS
  <2>1. task \in Tasks
    BY DEF SupervisionInv
  <2>2. Submit <= 7
    BY <2>1, CanonicalEnd
  <2>3. OracleIsOffered
    BY <2>1, <2>2, OracleStepOffered, OracleAudited DEF OracleIsOffered
  <2>. QED
    BY <2>3, ExamplesAreAllowed DEF TaughtIsOffered
<1>. QED
  BY <1>1, RolloutsFit, PTL

=============================================================================
