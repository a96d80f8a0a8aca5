-------------------------- MODULE StatePolicyProofs --------------------------
(***************************************************************************)
(* Theorems about the functions of the state policy, for every event list   *)
(* and every set of tools.                                                  *)
(***************************************************************************)
EXTENDS StatePolicy, SequenceTheorems, WellFoundedInduction, TLAPS

-----------------------------------------------------------------------------
\* Positions: the oldest and the newest of a set exist.

\* Min is what it says on a set of positions that is not empty.
LEMMA OldestOf ==
  ASSUME NEW S, S \subseteq Nat, S # {}
  PROVE  Min(S) \in S /\ \A x \in S : Min(S) <= x
<1>1. \E x \in S : \A y \in S : ~(<<y, x>> \in OpToRel(<, Nat))
  BY NatLessThanWellFounded, WFMin
<1>2. PICK x \in S : \A y \in S : ~(<<y, x>> \in OpToRel(<, Nat))
  BY <1>1
<1>3. ASSUME NEW y \in S, y < x
      PROVE  FALSE
  <2>1. x \in Nat /\ y \in Nat
    OBVIOUS
  <2>2. <<y, x>> \in OpToRel(<, Nat)
    BY <2>1, <1>3 DEF OpToRel
  <2>. QED
    BY <1>2, <2>2
<1>4. \A y \in S : x <= y
  BY <1>3
<1>. QED
  BY <1>4 DEF Min

\* And so is Max.
LEMMA NewestOf ==
  ASSUME NEW n \in Nat, NEW S, S \subseteq 1..n, S # {}
  PROVE  Max(S) \in S /\ \A x \in S : x <= Max(S)
<1>. DEFINE T == {n - x : x \in S}
<1>1. T \subseteq Nat /\ T # {}
  <2>1. \A x \in S : n - x \in Nat
    OBVIOUS
  <2>. QED
    BY <2>1
<1>2. PICK t \in T : \A u \in T : t <= u
  <2>. HIDE DEF T
  <2>. QED
    BY <1>1, OldestOf
<1>3. PICK x \in S : t = n - x
  BY <1>2
<1>4. ASSUME NEW y \in S
      PROVE  y <= x
  <2>1. n - y \in T
    OBVIOUS
  <2>2. n - x <= n - y
    BY <1>2, <1>3, <2>1
  <2>3. n \in Int /\ x \in Int /\ y \in Int
    OBVIOUS
  <2>. HIDE DEF T
  <2>. QED
    BY <2>2, <2>3
<1>. QED
  BY <1>4 DEF Max
-----------------------------------------------------------------------------
\* One more event: the positions before it stay what they were.

\* Which tool's positions the new event adds to.
LEMMA Extended ==
  ASSUME NEW E, NEW events \in Seq(E), NEW event \in E, NEW n, n = Len(events) + 1,
         NEW name
  PROVE  /\ n \in Nat /\ n \notin DOMAIN events /\ DOMAIN events \subseteq Nat
         /\ \A i \in DOMAIN events : i < n
         /\ DOMAIN Append(events, event) = DOMAIN events \cup {n}
         /\ \A i \in DOMAIN events : Append(events, event)[i] = events[i]
         /\ Append(events, event)[n] = event
         /\ ValidOf(Append(events, event), name) = ValidOf(events, name)
              \cup (IF ~event.masked /\ event.tool = name THEN {n} ELSE {})
         /\ RecoveryTriggers(Append(events, event)) = RecoveryTriggers(events)
              \cup (IF /\ ~event.masked /\ event.tool = "execute_sql"
                       /\ event.success = "false" \/ event.match = "false"
                    THEN {n} ELSE {})
<1>1. /\ Len(events) \in Nat /\ DOMAIN events = 1..Len(events)
      /\ Append(events, event) \in Seq(E) /\ Len(Append(events, event)) = n
      /\ \A i \in 1..Len(events) : Append(events, event)[i] = events[i]
      /\ Append(events, event)[n] = event
  BY LenProperties, AppendProperties
<1>2. DOMAIN Append(events, event) = 1..n
  BY <1>1, LenProperties
<1>3. /\ DOMAIN Append(events, event) = DOMAIN events \cup {n} /\ n \notin DOMAIN events
      /\ \A i \in DOMAIN events : i < n
      /\ \A i \in DOMAIN events : Append(events, event)[i] = events[i]
      /\ Append(events, event)[n] = event
  BY <1>1, <1>2
<1>. DEFINE longer == Append(events, event)
<1>. HIDE DEF longer
<1>4. /\ DOMAIN longer = DOMAIN events \cup {n} /\ n \notin DOMAIN events
      /\ \A i \in DOMAIN events : longer[i] = events[i]
      /\ longer[n] = event
  BY <1>3 DEF longer
<1>5. ASSUME NEW tool
      PROVE  ValidOf(longer, tool) = ValidOf(events, tool)
               \cup (IF ~event.masked /\ event.tool = tool THEN {n} ELSE {})
  BY <1>4 DEF ValidOf, Valid
<1>6. RecoveryTriggers(longer) = RecoveryTriggers(events)
        \cup (IF /\ ~event.masked /\ event.tool = "execute_sql"
                 /\ event.success = "false" \/ event.match = "false"
              THEN {n} ELSE {})
  <2>1. \A i \in DOMAIN longer :
          i \in RecoveryTriggers(longer) <=>
            /\ i \in ValidOf(longer, "execute_sql")
            /\ longer[i].success = "false" \/ longer[i].match = "false"
    BY DEF RecoveryTriggers
  <2>2. \A i \in DOMAIN events :
          i \in RecoveryTriggers(longer) <=> i \in RecoveryTriggers(events)
    BY <1>4, <1>5, <2>1 DEF RecoveryTriggers
  <2>3. n \notin ValidOf(events, "execute_sql")
    BY <1>4 DEF ValidOf, Valid
  <2>4. n \in RecoveryTriggers(longer) <=>
          /\ ~event.masked /\ event.tool = "execute_sql"
          /\ event.success = "false" \/ event.match = "false"
    BY <1>4, <1>5, <2>1, <2>3
  <2>5. /\ RecoveryTriggers(longer) \subseteq DOMAIN longer
        /\ RecoveryTriggers(events) \subseteq DOMAIN events
    BY DEF RecoveryTriggers, ValidOf, Valid
  <2>. QED
    BY <1>4, <2>2, <2>4, <2>5
<1>. QED
  BY <1>1, <1>3, <1>5, <1>6 DEF longer

-----------------------------------------------------------------------------
\* What the policy offers.

\* RequiredRecovery names one of the two retrievals of a recovery, or nothing,
\* and nothing only when every failure and every mismatch is explained.
LEMMA RequiredNames ==
  ASSUME NEW events
  PROVE  /\ RequiredRecovery(events) \in {"", "get_schema_version", "inspect_schema_diff"}
         /\ RequiredRecovery(events) = "" =>
              \A m \in RecoveryTriggers(events) :
                \/ AlreadyRecovered(events, m)
                \/ VersionsAfter(events, m) # {} /\ OrderedDiff(events, m)
BY DEF RequiredRecovery

\* Explained: the version and then the diff were retrieved, both before the
\* trigger or both after it.
Explained(events, m) ==
  \E v \in ValidOf(events, "get_schema_version"),
     d \in ValidOf(events, "inspect_schema_diff") : v < d /\ (d < m \/ m < v)

\* A tool that is none of the two is offered only when every trigger is explained.
LEMMA OfferedWhenExplained ==
  ASSUME NEW E, NEW events \in Seq(E), NEW tools, NEW knowledgeFirst,
         {"get_schema_version", "inspect_schema_diff"} \subseteq tools,
         NEW name \in RecoveryToolNames(events, tools, knowledgeFirst),
         name \notin {"get_schema_version", "inspect_schema_diff"},
         NEW m \in RecoveryTriggers(events)
  PROVE  Explained(events, m)
<1>1. RequiredRecovery(events) \in tools => name = RequiredRecovery(events)
  BY DEF RecoveryToolNames
<1>2. RequiredRecovery(events) = ""
  BY <1>1, RequiredNames
<1>3. CASE AlreadyRecovered(events, m)
  BY <1>3 DEF AlreadyRecovered, Explained
<1>4. CASE VersionsAfter(events, m) # {} /\ OrderedDiff(events, m)
  <2>1. DOMAIN events \subseteq Nat
    BY LenProperties
  <2>2. VersionsAfter(events, m) \subseteq Nat
    BY <2>1 DEF VersionsAfter, ValidOf, Valid
  <2>3. Min(VersionsAfter(events, m)) \in VersionsAfter(events, m)
    BY <1>4, <2>2, OldestOf
  <2>4. PICK d \in ValidOf(events, "inspect_schema_diff") : d > Min(VersionsAfter(events, m))
    BY <1>4 DEF OrderedDiff
  <2>5. /\ m \in Nat /\ d \in Nat
        /\ Min(VersionsAfter(events, m)) \in ValidOf(events, "get_schema_version")
        /\ Min(VersionsAfter(events, m)) > m
    BY <2>1, <2>3 DEF VersionsAfter, ValidOf, Valid, RecoveryTriggers
  <2>. QED
    BY <2>2, <2>3, <2>4, <2>5 DEF Explained
<1>. QED
  BY <1>2, <1>3, <1>4, RequiredNames

\* Once the newest execution is validated, no other execution is offered; in a
\* free query the submission alone is.
LEMMA ValidatedEndsExecution ==
  ASSUME NEW E, NEW events \in Seq(E), NEW tools, NEW knowledgeFirst, NEW executionOnly,
         {"execute_sql", "submit_solution"} \subseteq tools,
         HasValidatedExecution(events),
         "execute_sql" \in SelectDynamicToolNames(events, tools, knowledgeFirst, executionOnly)
  PROVE  FALSE
<1>1. "submit_solution" \in tools \ CalledOneShot(events)
  BY DEF CalledOneShot, ONE_SHOT_TOOLS, RETRIEVAL_TOOLS
<1>2. RequiredRecovery(events) # "execute_sql"
  BY RequiredNames
<1>. QED
  BY <1>1, <1>2 DEF SelectDynamicToolNames, QueryToolNames, RecoveryToolNames

\* Some tool is always offered.
LEMMA SomeToolOffered ==
  ASSUME NEW events, NEW tools, NEW knowledgeFirst, NEW executionOnly,
         {"execute_sql", "submit_solution"} \subseteq tools
  PROVE  SelectDynamicToolNames(events, tools, knowledgeFirst, executionOnly) # {}
<1>1. {"execute_sql", "submit_solution"} \subseteq tools \ CalledOneShot(events)
  BY DEF CalledOneShot, ONE_SHOT_TOOLS, RETRIEVAL_TOOLS
<1>2. QueryToolNames(events, tools) # {}
  BY <1>1 DEF QueryToolNames
<1>3. ASSUME NEW available, "execute_sql" \in available
      PROVE  AfterClarification(events, available, knowledgeFirst) # {}
  BY <1>3 DEF AfterClarification, PostClarificationTools, POST_CLARIFICATION_TOOLS
<1>4. RecoveryToolNames(events, tools, knowledgeFirst) # {}
  BY <1>1, <1>3 DEF RecoveryToolNames
<1>. QED
  BY <1>2, <1>4 DEF SelectDynamicToolNames

\* Whatever is offered is configured, and a one-shot tool that a recovery did not
\* ask for is offered once.
LEMMA OfferedIsConfigured ==
  ASSUME NEW events, NEW tools, NEW knowledgeFirst, NEW executionOnly,
         NEW name \in SelectDynamicToolNames(events, tools, knowledgeFirst, executionOnly)
  PROVE  /\ name \in tools
         /\ name \in CalledOneShot(events) =>
              \/ name \in {"get_schema_version", "inspect_schema_diff"} /\ ~executionOnly
              \/ /\ name = "get_schema" /\ executionOnly
                 /\ ~\E i \in ValidOf(events, "get_schema") : events[i].schema
<1>1. \A available : AfterClarification(events, available, knowledgeFirst) \subseteq available
  BY DEF AfterClarification
<1>2. CASE executionOnly
  BY <1>2 DEF SelectDynamicToolNames, QueryToolNames
<1>3. CASE ~executionOnly
  <2>1. RequiredRecovery(events) \in CalledOneShot(events) =>
          RequiredRecovery(events) \in {"get_schema_version", "inspect_schema_diff"}
    BY RequiredNames DEF CalledOneShot, ONE_SHOT_TOOLS, RETRIEVAL_TOOLS
  <2>. QED
    BY <1>1, <1>3, <2>1 DEF SelectDynamicToolNames, RecoveryToolNames
<1>. QED
  BY <1>2, <1>3

\* An event that is none of the two retrievals and triggers no recovery leaves the
\* recovery that is required as it was.
LEMMA RequiredUnmoved ==
  ASSUME NEW E, NEW events \in Seq(E), NEW event \in E,
         \/ event.masked
         \/ /\ event.tool \notin {"get_schema_version", "inspect_schema_diff"}
            /\ event.tool = "execute_sql" => event.success # "false" /\ event.match # "false"
  PROVE  RequiredRecovery(Append(events, event)) = RequiredRecovery(events)
<1>. DEFINE longer == Append(events, event)
<1>1. /\ ValidOf(longer, "get_schema_version") = ValidOf(events, "get_schema_version")
      /\ ValidOf(longer, "inspect_schema_diff") = ValidOf(events, "inspect_schema_diff")
      /\ RecoveryTriggers(longer) = RecoveryTriggers(events)
  <2>. PICK n : n = Len(events) + 1
    OBVIOUS
  <2>1. ASSUME NEW name
        PROVE  ValidOf(longer, name) = ValidOf(events, name)
                 \cup (IF ~event.masked /\ event.tool = name THEN {n} ELSE {})
    BY Extended
  <2>2. RecoveryTriggers(longer) = RecoveryTriggers(events)
          \cup (IF /\ ~event.masked /\ event.tool = "execute_sql"
                   /\ event.success = "false" \/ event.match = "false"
                THEN {n} ELSE {})
    BY Extended
  <2>. QED
    BY <2>1, <2>2
<1>. HIDE DEF longer
<1>2. \A m : /\ AlreadyRecovered(longer, m) = AlreadyRecovered(events, m)
             /\ VersionsAfter(longer, m) = VersionsAfter(events, m)
             /\ OrderedDiff(longer, m) = OrderedDiff(events, m)
  BY <1>1 DEF AlreadyRecovered, VersionsAfter, OrderedDiff
<1>3. RequiredRecovery(longer) = RequiredRecovery(events)
  BY <1>1, <1>2 DEF RequiredRecovery
<1>. QED
  BY <1>3 DEF longer

\* The last execution is the one that counts.
LEMMA LastExecutionCounts ==
  ASSUME NEW E, NEW events \in Seq(E), NEW event \in E
  PROVE  /\ ~event.masked /\ event.tool = "execute_sql" =>
              (HasValidatedExecution(Append(events, event)) <=> event.validated)
         /\ event.masked \/ event.tool # "execute_sql" =>
              (HasValidatedExecution(Append(events, event)) <=> HasValidatedExecution(events))
<1>. PICK n : n = Len(events) + 1
  OBVIOUS
<1>. PICK longer : longer = Append(events, event)
  OBVIOUS
<1>. PICK runs : runs = ValidOf(events, "execute_sql")
  OBVIOUS
<1>1. /\ n \in Nat /\ n \notin DOMAIN events /\ DOMAIN events = 1..(n - 1)
      /\ \A i \in DOMAIN events : longer[i] = events[i]
      /\ longer[n] = event
  BY Extended, LenProperties
<1>2. ValidOf(longer, "execute_sql") =
        runs \cup (IF ~event.masked /\ event.tool = "execute_sql" THEN {n} ELSE {})
  BY Extended
<1>3. runs \subseteq 1..(n - 1)
  BY <1>1 DEF ValidOf, Valid
<1>4. CASE ~event.masked /\ event.tool = "execute_sql"
  <2>. PICK all : all = runs \cup {n}
    OBVIOUS
  <2>1. all \subseteq 1..n /\ all # {} /\ n \in all /\ ValidOf(longer, "execute_sql") = all
    BY <1>1, <1>2, <1>3, <1>4
  <2>2. Max(all) \in all /\ n <= Max(all)
    BY <1>1, <2>1, NewestOf
  <2>3. Max(all) = n
    BY <1>1, <2>1, <2>2
  <2>. QED
    BY <1>1, <1>4, <2>1, <2>3 DEF HasValidatedExecution
<1>5. CASE event.masked \/ event.tool # "execute_sql"
  <2>1. ValidOf(longer, "execute_sql") = runs
    BY <1>2, <1>5
  <2>2. runs # {} => Max(runs) \in runs
    <3>1. n - 1 \in Nat
      BY <1>1, LenProperties
    <3>. QED
      BY <1>3, <3>1, NewestOf
  <2>3. runs # {} => longer[Max(runs)] = events[Max(runs)]
    BY <1>1, <1>3, <2>2
  <2>. QED
    BY <1>5, <2>1, <2>3 DEF HasValidatedExecution
<1>. QED
  BY <1>4, <1>5

-----------------------------------------------------------------------------
\* The two programs of the policy.  The tool message of event i is message At(i) of
\* the conversation: the same events, further apart.
At(i) == 2 * i + 1

LEMMA AtKeepsOrder ==
  ASSUME NEW i \in Nat, NEW j \in Nat
  PROVE  /\ At(i) \in Nat
         /\ At(i) < At(j) <=> i < j
         /\ At(i) <= At(j) <=> i <= j
         /\ At(i) = At(j) <=> i = j
BY DEF At

\* So which position is the newest, and which the oldest, stays the same.
LEMMA SpreadNewest ==
  ASSUME NEW n \in Nat, NEW S, S \subseteq 1..n, S # {},
         NEW T, T = {At(i) : i \in S}
  PROVE  Max(T) = At(Max(S))
<1>1. PICK s \in S : s = Max(S) /\ \A x \in S : x <= s
  <2>1. Max(S) \in S /\ \A x \in S : x <= Max(S)
    BY NewestOf
  <2>. QED
    BY <2>1
<1>2. T \subseteq 1..(2 * n + 1) /\ T # {} /\ 2 * n + 1 \in Nat
  BY DEF At
<1>3. PICK t \in T : t = Max(T) /\ \A x \in T : x <= t
  <2>1. Max(T) \in T /\ \A x \in T : x <= Max(T)
    BY <1>2, NewestOf
  <2>. QED
    BY <2>1
<1>4. PICK u \in S : t = At(u)
  BY <1>3
<1>5. s \in Nat /\ u \in Nat /\ u <= s /\ At(s) \in T
  BY <1>1, <1>4
<1>6. At(s) <= At(u)
  BY <1>3, <1>4, <1>5
<1>7. s = u
  BY <1>5, <1>6, AtKeepsOrder
<1>. QED
  BY <1>1, <1>3, <1>4, <1>7

LEMMA SpreadOldest ==
  ASSUME NEW S, S \subseteq Nat, S # {}, NEW T, T = {At(i) : i \in S}
  PROVE  Min(T) = At(Min(S))
<1>1. PICK s \in S : s = Min(S) /\ \A x \in S : s <= x
  <2>1. Min(S) \in S /\ \A x \in S : Min(S) <= x
    BY OldestOf
  <2>. QED
    BY <2>1
<1>2. T \subseteq Nat /\ T # {}
  BY DEF At
<1>3. PICK t \in T : t = Min(T) /\ \A x \in T : t <= x
  <2>1. Min(T) \in T /\ \A x \in T : Min(T) <= x
    BY <1>2, OldestOf
  <2>. QED
    BY <2>1
<1>4. PICK u \in S : t = At(u)
  BY <1>3
<1>5. s \in Nat /\ u \in Nat /\ s <= u /\ At(s) \in T
  BY <1>1, <1>4
<1>6. At(u) <= At(s)
  BY <1>3, <1>4, <1>5
<1>7. s = u
  BY <1>5, <1>6, AtKeepsOrder
<1>. QED
  BY <1>1, <1>3, <1>4, <1>7

\* Messages that tell of the same events, each at its position.
Told(event, message) ==
  /\ message.tool = event.tool /\ message.masked = event.masked
  /\ message.success = event.success /\ message.match = event.match
  /\ message.validated = event.validated

Spread(events, completed) ==
  /\ DOMAIN completed = {At(i) : i \in DOMAIN events}
  /\ \A i \in DOMAIN events : Told(events[i], completed[At(i)])

\* Which of them count, and which trigger a recovery.
LEMMA SpreadPositions ==
  ASSUME NEW events, NEW completed, Spread(events, completed)
  PROVE  /\ \A name : ValidOf(completed, name) = {At(i) : i \in ValidOf(events, name)}
         /\ RecoveryTriggers(completed) = {At(i) : i \in RecoveryTriggers(events)}
         /\ Valid(completed) = {At(i) : i \in Valid(events)}
<1>1. /\ DOMAIN completed = {At(i) : i \in DOMAIN events}
      /\ \A i \in DOMAIN events :
           /\ At(i) \in DOMAIN completed
           /\ completed[At(i)].tool = events[i].tool
           /\ completed[At(i)].masked = events[i].masked
           /\ completed[At(i)].success = events[i].success
           /\ completed[At(i)].match = events[i].match
  BY DEF Spread, Told
<1>2. Valid(completed) = {At(i) : i \in Valid(events)}
  <2>1. \A i \in DOMAIN events : At(i) \in Valid(completed) <=> i \in Valid(events)
    BY <1>1 DEF Valid
  <2>2. \A x \in Valid(completed) : \E i \in DOMAIN events : x = At(i)
    BY <1>1 DEF Valid
  <2>3. Valid(events) \subseteq DOMAIN events
    BY DEF Valid
  <2>. QED
    BY <2>1, <2>2, <2>3
<1>3. ASSUME NEW name
      PROVE  ValidOf(completed, name) = {At(i) : i \in ValidOf(events, name)}
  <2>1. \A i \in Valid(events) : At(i) \in ValidOf(completed, name) <=> i \in ValidOf(events, name)
    BY <1>1, <1>2 DEF ValidOf, Valid
  <2>2. \A x \in ValidOf(completed, name) : \E i \in Valid(events) : x = At(i)
    BY <1>2 DEF ValidOf
  <2>3. ValidOf(events, name) \subseteq Valid(events)
    BY DEF ValidOf
  <2>. QED
    BY <2>1, <2>2, <2>3
<1>4. RecoveryTriggers(completed) = {At(i) : i \in RecoveryTriggers(events)}
  <2>. DEFINE runs == ValidOf(events, "execute_sql")
  <2>1. \A i \in runs : At(i) \in ValidOf(completed, "execute_sql") /\ i \in DOMAIN events
    BY <1>3 DEF ValidOf, Valid
  <2>2. \A i \in runs : At(i) \in RecoveryTriggers(completed) <=> i \in RecoveryTriggers(events)
    BY <1>1, <2>1 DEF RecoveryTriggers
  <2>3. \A x \in RecoveryTriggers(completed) : \E i \in runs : x = At(i)
    BY <1>3 DEF RecoveryTriggers
  <2>4. RecoveryTriggers(events) \subseteq runs
    BY DEF RecoveryTriggers
  <2>. HIDE DEF runs
  <2>. QED
    BY <2>2, <2>3, <2>4
<1>. QED
  BY <1>2, <1>3, <1>4

\* The same recovery is explained, in the same way.
LEMMA SpreadRecovery ==
  ASSUME NEW events, DOMAIN events \subseteq Nat,
         NEW completed, Spread(events, completed), NEW m \in DOMAIN events
  PROVE  /\ AlreadyRecovered(completed, At(m)) <=> AlreadyRecovered(events, m)
         /\ VersionsAfter(completed, At(m)) = {} <=> VersionsAfter(events, m) = {}
         /\ VersionsAfter(events, m) # {} =>
              (OrderedDiff(completed, At(m)) <=> OrderedDiff(events, m))
<1>. PICK V : V = ValidOf(events, "get_schema_version")
  OBVIOUS
<1>. PICK D : D = ValidOf(events, "inspect_schema_diff")
  OBVIOUS
<1>1. V \subseteq Nat /\ D \subseteq Nat /\ m \in Nat
  BY DEF ValidOf, Valid
<1>2. /\ ValidOf(completed, "get_schema_version") = {At(i) : i \in V}
      /\ ValidOf(completed, "inspect_schema_diff") = {At(i) : i \in D}
  BY SpreadPositions
<1>3. AlreadyRecovered(completed, At(m)) <=> AlreadyRecovered(events, m)
  <2>1. AlreadyRecovered(events, m) <=> \E v \in V, d \in D : v < d /\ d < m
    BY DEF AlreadyRecovered
  <2>2. AlreadyRecovered(completed, At(m))
          <=> \E v \in V, d \in D : At(v) < At(d) /\ At(d) < At(m)
    BY <1>2 DEF AlreadyRecovered
  <2>. QED
    BY <1>1, <2>1, <2>2, AtKeepsOrder
<1>. PICK after : after = VersionsAfter(events, m)
  OBVIOUS
<1>4. VersionsAfter(completed, At(m)) = {At(i) : i \in after}
  <2>1. after = {v \in V : v > m}
    BY DEF VersionsAfter
  <2>2. VersionsAfter(completed, At(m)) = {x \in {At(i) : i \in V} : x > At(m)}
    BY <1>2 DEF VersionsAfter
  <2>3. \A v \in V : At(v) > At(m) <=> v > m
    BY <1>1 DEF At
  <2>. QED
    BY <2>1, <2>2, <2>3
<1>5. ASSUME after # {}
      PROVE  OrderedDiff(completed, At(m)) <=> OrderedDiff(events, m)
  <2>1. after \subseteq Nat
    BY <1>1 DEF VersionsAfter
  <2>2. Min(VersionsAfter(completed, At(m))) = At(Min(after))
    BY <1>4, <1>5, <2>1, SpreadOldest
  <2>3. PICK first \in Nat : first = Min(after)
    <3>1. Min(after) \in after
      BY <1>5, <2>1, OldestOf
    <3>. QED
      BY <2>1, <3>1
  <2>4. OrderedDiff(events, m) <=> \E d \in D : d > first
    BY <2>3 DEF OrderedDiff
  <2>5. OrderedDiff(completed, At(m)) <=> \E d \in D : At(d) > At(first)
    BY <1>2, <2>2, <2>3 DEF OrderedDiff
  <2>6. \A d \in D : At(d) > At(first) <=> d > first
    BY <1>1 DEF At
  <2>. QED
    BY <2>4, <2>5, <2>6
<1>. QED
  BY <1>3, <1>4, <1>5

LEMMA SpreadRequired ==
  ASSUME NEW E, NEW events \in Seq(E), NEW completed, Spread(events, completed)
  PROVE  RequiredRecovery(completed) = RequiredRecovery(events)
<1>. DEFINE Unresolved(list) ==
              {m \in RecoveryTriggers(list) :
                 /\ ~AlreadyRecovered(list, m)
                 /\ VersionsAfter(list, m) = {} \/ ~OrderedDiff(list, m)}
            few == Unresolved(events)
            many == Unresolved(completed)
<1>1. /\ Len(events) \in Nat /\ DOMAIN events = 1..Len(events) /\ DOMAIN events \subseteq Nat
      /\ RecoveryTriggers(events) \subseteq DOMAIN events
  BY LenProperties DEF RecoveryTriggers, ValidOf, Valid
<1>2. RecoveryTriggers(completed) = {At(m) : m \in RecoveryTriggers(events)}
  BY SpreadPositions
<1>3. \A m \in RecoveryTriggers(events) : At(m) \in many <=> m \in few
  <2>1. \A m \in RecoveryTriggers(events) :
          /\ At(m) \in RecoveryTriggers(completed)
          /\ AlreadyRecovered(completed, At(m)) <=> AlreadyRecovered(events, m)
          /\ VersionsAfter(completed, At(m)) = {} <=> VersionsAfter(events, m) = {}
          /\ VersionsAfter(events, m) # {} =>
               (OrderedDiff(completed, At(m)) <=> OrderedDiff(events, m))
    BY <1>1, <1>2, SpreadRecovery
  <2>. QED
    BY <2>1
<1>4. /\ few \subseteq RecoveryTriggers(events)
      /\ many \subseteq {At(m) : m \in RecoveryTriggers(events)}
  BY <1>2
<1>5. /\ RequiredRecovery(events) =
           (IF few = {} THEN ""
            ELSE IF VersionsAfter(events, Max(few)) = {}
                 THEN "get_schema_version" ELSE "inspect_schema_diff")
      /\ RequiredRecovery(completed) =
           (IF many = {} THEN ""
            ELSE IF VersionsAfter(completed, Max(many)) = {}
                 THEN "get_schema_version" ELSE "inspect_schema_diff")
  BY DEF RequiredRecovery
<1>. HIDE DEF few, many, Unresolved
<1>6. many = {At(m) : m \in few}
  BY <1>3, <1>4
<1>7. CASE few = {}
  BY <1>5, <1>6, <1>7
<1>8. CASE few # {}
  <2>1. few \subseteq 1..Len(events) /\ many # {}
    BY <1>1, <1>4, <1>6, <1>8
  <2>2. Max(many) = At(Max(few))
    BY <1>1, <1>6, <1>8, <2>1, SpreadNewest
  <2>3. PICK newest \in DOMAIN events : newest = Max(few)
    <3>1. Max(few) \in few
      BY <1>1, <1>8, <2>1, NewestOf
    <3>. QED
      BY <1>1, <2>1, <3>1
  <2>4. VersionsAfter(completed, At(newest)) = {} <=> VersionsAfter(events, newest) = {}
    BY <1>1, SpreadRecovery
  <2>5. VersionsAfter(completed, Max(many)) = {} <=> VersionsAfter(events, Max(few)) = {}
    BY <2>2, <2>3, <2>4
  <2>6. RequiredRecovery(events) =
          IF VersionsAfter(events, Max(few)) = {}
          THEN "get_schema_version" ELSE "inspect_schema_diff"
    BY <1>5, <1>8, Zenon
  <2>7. RequiredRecovery(completed) =
          IF VersionsAfter(completed, Max(many)) = {}
          THEN "get_schema_version" ELSE "inspect_schema_diff"
    BY <1>5, <2>1, Zenon
  <2>8. CASE VersionsAfter(events, Max(few)) = {}
    BY <2>5, <2>6, <2>7, <2>8, Zenon
  <2>9. CASE VersionsAfter(events, Max(few)) # {}
    BY <2>5, <2>6, <2>7, <2>9, Zenon
  <2>. QED
    BY <2>8, <2>9
<1>. QED
  BY <1>7, <1>8

LEMMA SpreadValidated ==
  ASSUME NEW E, NEW events \in Seq(E), NEW completed, Spread(events, completed)
  PROVE  HasValidatedExecution(completed) <=> HasValidatedExecution(events)
<1>. PICK runs : runs = ValidOf(events, "execute_sql")
  OBVIOUS
<1>. PICK answers : answers = ValidOf(completed, "execute_sql")
  OBVIOUS
<1>1. Len(events) \in Nat /\ runs \subseteq 1..Len(events) /\ DOMAIN events = 1..Len(events)
  BY LenProperties DEF ValidOf, Valid
<1>2. answers = {At(i) : i \in runs}
  BY SpreadPositions
<1>3. CASE runs = {}
  BY <1>2, <1>3 DEF HasValidatedExecution
<1>4. CASE runs # {}
  <2>1. Max(answers) = At(Max(runs))
    BY <1>1, <1>2, <1>4, SpreadNewest
  <2>2. Max(runs) \in DOMAIN events
    BY <1>1, <1>4, NewestOf
  <2>3. completed[At(Max(runs))].validated = events[Max(runs)].validated
    BY <2>2 DEF Spread, Told
  <2>. QED
    BY <1>2, <1>4, <2>1, <2>3 DEF HasValidatedExecution
<1>. QED
  BY <1>3, <1>4

\* A conversation is the prompt, and a call and an answer for each event.
LEMMA ConversationMessages ==
  ASSUME NEW E, NEW events \in Seq(E), NEW messages, messages = Conversation(events)
  PROVE  /\ DOMAIN messages = 1..(2 * Len(events) + 1)
         /\ messages[1] = PromptMessage
         /\ \A i \in DOMAIN events : /\ messages[2 * i] = CallMessage(events[i])
                                     /\ messages[At(i)] = ToolMessage(events[i])
<1>. DEFINE n == Len(events)
            Message(i) == IF i = 1 THEN PromptMessage
                          ELSE IF i % 2 = 0 THEN CallMessage(events[i \div 2])
                          ELSE ToolMessage(events[(i - 1) \div 2])
<1>1. n \in Nat /\ DOMAIN events = 1..n
  BY LenProperties
<1>2. messages = [i \in 1..(2 * n + 1) |-> Message(i)]
  BY DEF Conversation
<1>. HIDE DEF n, Message
<1>3. /\ DOMAIN messages = 1..(2 * n + 1)
      /\ \A i \in 1..(2 * n + 1) : messages[i] = Message(i)
  BY <1>2
<1>4. ASSUME NEW i \in 1..n
      PROVE  /\ 2 * i \in 1..(2 * n + 1) /\ 2 * i # 1 /\ (2 * i) % 2 = 0 /\ (2 * i) \div 2 = i
             /\ 2 * i + 1 \in 1..(2 * n + 1) /\ 2 * i + 1 # 1 /\ (2 * i + 1) % 2 # 0
             /\ ((2 * i + 1) - 1) \div 2 = i
  BY <1>1
<1>5. ASSUME NEW i \in 1..n
      PROVE  /\ messages[2 * i] = CallMessage(events[i])
             /\ messages[2 * i + 1] = ToolMessage(events[i])
  <2>1. /\ 2 * i \in 1..(2 * n + 1) /\ 2 * i # 1 /\ (2 * i) % 2 = 0 /\ (2 * i) \div 2 = i
        /\ 2 * i + 1 \in 1..(2 * n + 1) /\ 2 * i + 1 # 1 /\ (2 * i + 1) % 2 # 0
        /\ ((2 * i + 1) - 1) \div 2 = i
    BY <1>4
  <2>2. Message(2 * i) = CallMessage(events[i])
    BY <2>1, Zenon DEF Message
  <2>3. Message(2 * i + 1) = ToolMessage(events[i])
    BY <2>1, Zenon DEF Message
  <2>. QED
    BY <1>3, <2>1, <2>2, <2>3
<1>6. messages[1] = PromptMessage
  <2>1. 1 \in 1..(2 * n + 1)
    BY <1>1
  <2>. QED
    BY <1>3, <2>1 DEF Message
<1>. QED
  BY <1>1, <1>3, <1>5, <1>6 DEF n, At

\* An event tells its tool.
EventsNamed(events) == \A i \in DOMAIN events : events[i].tool # ""

\* Who speaks when.
LEMMA ConversationRoles ==
  ASSUME NEW E, NEW events \in Seq(E), NEW messages, messages = Conversation(events)
  PROVE  /\ messages[1].role = "user"
         /\ \A i \in DOMAIN events :
              /\ messages[2 * i].role = "assistant" /\ messages[2 * i].call = events[i].tool
              /\ messages[At(i)].role = "tool"
              /\ messages[At(i)].observation = Observation(events[i])
         /\ \A j \in DOMAIN messages :
              messages[j].role = "tool" <=> \E i \in DOMAIN events : j = At(i)
<1>1. Len(events) \in Nat /\ DOMAIN events = 1..Len(events)
  BY LenProperties
<1>2. /\ DOMAIN messages = 1..(2 * Len(events) + 1)
      /\ messages[1] = PromptMessage
      /\ \A i \in DOMAIN events : /\ messages[2 * i] = CallMessage(events[i])
                                  /\ messages[At(i)] = ToolMessage(events[i])
  BY ConversationMessages
<1>3. messages[1].role = "user"
  BY <1>2 DEF PromptMessage
<1>4. ASSUME NEW i \in DOMAIN events
      PROVE  /\ messages[2 * i].role = "assistant" /\ messages[2 * i].call = events[i].tool
             /\ messages[At(i)].role = "tool"
             /\ messages[At(i)].observation = Observation(events[i])
  <2>1. messages[2 * i] = CallMessage(events[i]) /\ messages[At(i)] = ToolMessage(events[i])
    BY <1>2
  <2>. QED
    BY <2>1 DEF CallMessage, ToolMessage
<1>5. ASSUME NEW j \in DOMAIN messages
      PROVE  j = 1 \/ \E i \in DOMAIN events : j = 2 * i \/ j = At(i)
  <2>. DEFINE n == Len(events)
  <2>1. j \in Nat /\ j >= 1 /\ j <= 2 * n + 1 /\ n \in Nat
    BY <1>1, <1>2
  <2>2. j \div 2 \in Nat /\ (j = 2 * (j \div 2) \/ j = 2 * (j \div 2) + 1)
    BY <2>1
  <2>3. PICK i \in Nat : j = 2 * i \/ j = 2 * i + 1
    BY <2>2
  <2>4. j = 1 \/ i \in 1..n
    <3>. HIDE DEF n
    <3>. QED
      BY <2>1, <2>3
  <2>. QED
    BY <1>1, <2>3, <2>4 DEF At
<1>6. \A i \in DOMAIN events : At(i) \in DOMAIN messages
  BY <1>1, <1>2 DEF At
<1>. QED
  BY <1>3, <1>4, <1>5, <1>6

\* Each tool message is paired with the call before it.
LEMMA ToolMessagesPaired ==
  ASSUME NEW E, NEW events \in Seq(E), EventsNamed(events),
         NEW messages, messages = Conversation(events)
  PROVE  Spread(events, CompletedEvents(messages))
<1>1. /\ Len(events) \in Nat /\ DOMAIN events = 1..Len(events)
      /\ DOMAIN messages = 1..(2 * Len(events) + 1)
  BY LenProperties, ConversationMessages
<1>2. /\ messages[1].role = "user"
      /\ \A i \in DOMAIN events :
           /\ messages[2 * i].role = "assistant" /\ messages[2 * i].call = events[i].tool
           /\ messages[At(i)].role = "tool"
           /\ messages[At(i)].observation = Observation(events[i])
      /\ \A j \in DOMAIN messages :
           messages[j].role = "tool" <=> \E i \in DOMAIN events : j = At(i)
  BY ConversationRoles
<1>3. ASSUME NEW i \in DOMAIN events
      PROVE  At(i) \in DOMAIN messages /\ PendingTool(messages, At(i)) = events[i].tool
  <2>. DEFINE spoken == {j \in 1..(At(i) - 1) :
                           messages[j].role \in {"assistant", "tool"}}
  <2>1. /\ At(i) \in DOMAIN messages /\ At(i) - 1 = 2 * i /\ 2 * i \in Nat
        /\ 2 * i \in 1..(2 * i)
    BY <1>1 DEF At
  <2>2. spoken \subseteq 1..(2 * i) /\ 2 * i \in spoken
    BY <1>2, <2>1
  <2>3. PendingTool(messages, At(i)) =
          IF spoken = {} \/ messages[Max(spoken)].role = "tool" THEN ""
          ELSE messages[Max(spoken)].call
    BY DEF PendingTool
  <2>. HIDE DEF spoken
  <2>4. PICK top \in 1..(2 * i) : top = Max(spoken) /\ 2 * i <= top
    <3>1. Max(spoken) \in spoken /\ 2 * i <= Max(spoken)
      BY <2>1, <2>2, NewestOf
    <3>. QED
      BY <2>2, <3>1
  <2>5. Max(spoken) = 2 * i
    BY <2>1, <2>4
  <2>6. messages[2 * i].role # "tool" /\ messages[2 * i].call = events[i].tool
    BY <1>2
  <2>. QED
    BY <2>1, <2>2, <2>3, <2>5, <2>6
<1>. DEFINE completed == CompletedEvents(messages)
            Answers == {j \in DOMAIN messages :
                          messages[j].role = "tool" /\ PendingTool(messages, j) # ""}
<1>4. Answers = {At(i) : i \in DOMAIN events}
  <2>1. \A j \in Answers : \E i \in DOMAIN events : j = At(i)
    BY <1>2
  <2>2. \A i \in DOMAIN events : At(i) \in Answers
    BY <1>2, <1>3 DEF EventsNamed
  <2>. HIDE DEF Answers
  <2>. QED
    BY <2>1, <2>2
<1>5. /\ DOMAIN completed = Answers
      /\ \A j \in Answers :
           /\ completed[j].tool = PendingTool(messages, j)
           /\ completed[j].masked = messages[j].observation.masked
           /\ completed[j].success = messages[j].observation.success
           /\ completed[j].match = messages[j].observation.match
           /\ completed[j].validated = messages[j].observation.validated
  BY DEF CompletedEvents
<1>. HIDE DEF completed, Answers
<1>6. ASSUME NEW i \in DOMAIN events
      PROVE  Told(events[i], completed[At(i)])
  <2>1. At(i) \in Answers
    BY <1>4
  <2>2. messages[At(i)].observation = Observation(events[i])
    BY <1>2
  <2>. QED
    BY <1>3, <1>5, <2>1, <2>2 DEF Observation, Told
<1>7. Spread(events, completed)
  BY <1>4, <1>5, <1>6 DEF Spread
<1>. QED
  BY <1>7 DEF completed

\* Whatever was called, masked or answered, the policy computed from the events and
\* the one computed from the conversation made of them, with its own pairing of
\* messages, offer the same tools (state_policy.py select_dynamic_tool_names,
\* select_dynamic_tool_schemas).
THEOREM PoliciesAlwaysAgree ==
  ASSUME NEW E, NEW events \in Seq(E), EventsNamed(events),
         NEW tools, NEW knowledgeFirst
  PROVE  RecoveryToolNames(events, tools, knowledgeFirst)
           = SelectDynamicToolSchemas(Conversation(events), tools, knowledgeFirst)
<1>. PICK completed : completed = CompletedEvents(Conversation(events))
  OBVIOUS
<1>. PICK unmasked : unmasked = {i \in DOMAIN completed : ~completed[i].masked}
  OBVIOUS
<1>. PICK asks : asks = {i \in unmasked : completed[i].tool = "ask_user"}
  OBVIOUS
<1>. PICK asked : asked = ValidOf(events, "ask_user")
  OBVIOUS
<1>. PICK available : available = tools \ CalledOneShot(events)
  OBVIOUS
<1>. DEFINE followedUp == \E i \in unmasked :
              i > Max(asks) /\ completed[i].tool \in POST_CLARIFICATION_TOOLS
<1>1. Spread(events, completed)
  BY ToolMessagesPaired
<1>2. /\ Len(events) \in Nat /\ DOMAIN events = 1..Len(events)
      /\ Valid(events) \subseteq DOMAIN events /\ Valid(events) \subseteq Nat
      /\ asked \subseteq 1..Len(events)
  BY LenProperties DEF Valid, ValidOf
<1>3. /\ RequiredRecovery(completed) = RequiredRecovery(events)
      /\ HasValidatedExecution(completed) <=> HasValidatedExecution(events)
  BY <1>1, SpreadRequired, SpreadValidated
<1>4. unmasked = {At(i) : i \in Valid(events)} /\ asks = {At(i) : i \in asked}
  <2>1. unmasked = Valid(completed) /\ asks = ValidOf(completed, "ask_user")
    BY DEF Valid, ValidOf
  <2>. QED
    BY <1>1, <2>1, SpreadPositions
<1>5. \A i \in Valid(events) : completed[At(i)].tool = events[i].tool
  BY <1>1, <1>2 DEF Spread, Told
<1>6. tools \ (ONE_SHOT_TOOLS \cap {completed[i].tool : i \in unmasked}) = available
  <2>1. {completed[i].tool : i \in unmasked} = {events[i].tool : i \in Valid(events)}
    BY <1>4, <1>5
  <2>. QED
    BY <2>1 DEF CalledOneShot
<1>7. "submit_solution" \in tools <=> "submit_solution" \in available
  BY DEF CalledOneShot, ONE_SHOT_TOOLS, RETRIEVAL_TOOLS
<1>8. AwaitsFollowUp(events) <=> ~(asks = {} \/ followedUp)
  <2>1. AwaitsFollowUp(events) <=>
          /\ asked # {}
          /\ \A i \in Valid(events) :
               i > Max(asked) => events[i].tool \notin POST_CLARIFICATION_TOOLS
    BY DEF AwaitsFollowUp
  <2>2. CASE asked = {}
    BY <1>4, <2>1, <2>2
  <2>3. CASE asked # {}
    <3>1. Max(asks) = At(Max(asked)) /\ asks # {}
      <4>. PICK one \in asked : TRUE
        BY <2>3
      <4>1. asks = {At(i) : i \in asked}
        BY <1>4, Zenon
      <4>3. At(one) \in asks
        BY <4>1, Zenon
      <4>2. Len(events) \in Nat /\ asked \subseteq 1..Len(events)
        BY <1>2, Zenon
      <4>. QED
        BY <2>3, <4>1, <4>2, <4>3, SpreadNewest, Zenon
    <3>2. PICK last \in Nat : last = Max(asked)
      <4>1. Max(asked) \in asked
        BY <1>2, <2>3, NewestOf
      <4>. QED
        BY <1>2, <4>1
    <3>3. \A i \in Valid(events) : At(i) > At(last) <=> i > last
      BY <1>2 DEF At
    <3>4. followedUp <=> \E i \in Valid(events) :
            i > last /\ events[i].tool \in POST_CLARIFICATION_TOOLS
      BY <1>4, <1>5, <3>1, <3>2, <3>3
    <3>. HIDE DEF followedUp
    <3>. QED
      BY <2>1, <2>3, <3>1, <3>2, <3>4
  <2>. QED
    BY <2>2, <2>3
<1>9. SelectDynamicToolSchemas(Conversation(events), tools, knowledgeFirst) =
        LET open == tools \ (ONE_SHOT_TOOLS \cap {completed[i].tool : i \in unmasked})
        IN  IF RequiredRecovery(completed) \in tools THEN {RequiredRecovery(completed)}
            ELSE IF HasValidatedExecution(completed) /\ "submit_solution" \in tools
                 THEN {"submit_solution"}
            ELSE IF asks = {} \/ followedUp THEN open
            ELSE open \cap PostClarificationTools(open, knowledgeFirst)
  BY DEF SelectDynamicToolSchemas
<1>10. RecoveryToolNames(events, tools, knowledgeFirst) =
         IF RequiredRecovery(events) \in tools THEN {RequiredRecovery(events)}
         ELSE IF HasValidatedExecution(events) /\ "submit_solution" \in available
              THEN {"submit_solution"}
         ELSE IF AwaitsFollowUp(events)
              THEN available \cap PostClarificationTools(available, knowledgeFirst)
              ELSE available
  BY DEF RecoveryToolNames, AfterClarification
<1>. HIDE DEF followedUp
<1>. QED
  BY <1>3, <1>6, <1>7, <1>8, <1>9, <1>10

=============================================================================
