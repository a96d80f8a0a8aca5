---------------------- MODULE SessionOrchestratorProofs ----------------------
(***************************************************************************)
(* Theorems about SessionOrchestrator for every set of sessions, every      *)
(* budget and every number of crashes, shutdowns and cancel requests.       *)
(* First the coherence of stages and rows, and what follows from it for     *)
(* rows, sandboxes and permits; then the event log: its grammar, its        *)
(* agreement with the stored row, and the lifecycle the two implement.      *)
(***************************************************************************)
EXTENDS SessionOrchestrator, SequenceTheorems, FiniteSetTheorems, TLAPS

-----------------------------------------------------------------------------
\* Every termination reason is stored with a terminal status.
LEMMA StatusOfType ==
  /\ Reasons = {"submitted", "max_total_tokens", "max_tool_calls", "max_turns",
                "timeout", "cancelled_by_client", "internal_error",
                "service_restart"}
  /\ \A why \in Reasons : StatusOf[why] \in TERMINAL_STATUSES
BY DEF Reasons, StatusOf, TERMINAL_STATUSES

\* The stages and event types that actions name.
LEMMA Members ==
  /\ TaskStages \subseteq Stages /\ InLoop \subseteq TaskStages
  /\ InFinalize \subseteq TaskStages
  /\ {"none", "creating", "idle", "starting"} \subseteq Stages
  /\ {"ready", "waiting", "aborting", "failing"} \subseteq TaskStages
  /\ {"entered", "generating", "modelled", "executing", "observed", "exiting"}
       \subseteq InLoop
  /\ {"rewarding", "rewarded", "closing", "popping"} \subseteq InFinalize
  /\ TERMINAL_STATUSES \subseteq EventTypes
  /\ {"session", "queued", "running", "model", "tool", "budget", "error",
      "cancelled_request", "reward"} \subseteq EventTypes
BY DEF Stages, TaskStages, InLoop, InFinalize, EventTypes

\* Rows stay rows under every update the code makes.
LEMMA RowUpdates ==
  ASSUME NEW row \in Rows, NEW status \in Statuses, NEW why \in Reasons
  PROVE  /\ [row EXCEPT !.status = status] \in Rows
         /\ [row EXCEPT !.status = status, !.why = why] \in Rows
         /\ [row EXCEPT !.cancelReq = TRUE] \in Rows
         /\ [row EXCEPT !.calls = @ + 1] \in Rows
         /\ [row EXCEPT !.tools = @ + 1] \in Rows
         /\ [row EXCEPT !.final = TRUE] \in Rows
PROOF
<1>1. [row EXCEPT !.status = status] \in Rows
  BY DEF Rows
<1>2. [row EXCEPT !.status = status, !.why = why] \in Rows
  BY DEF Rows
<1>3. [row EXCEPT !.cancelReq = TRUE] \in Rows
  BY DEF Rows
<1>4. [row EXCEPT !.calls = @ + 1] \in Rows
  BY DEF Rows
<1>5. [row EXCEPT !.tools = @ + 1] \in Rows
  BY DEF Rows
<1>6. [row EXCEPT !.final = TRUE] \in Rows
  BY DEF Rows
<1>7. QED
  BY <1>1, <1>2, <1>3, <1>4, <1>5, <1>6

\* The row that stands for no row and the locals of no coroutine are typed.
LEMMA NoFrameType == NoRow \in Rows /\ NoFrame \in Frames
BY StatusOfType DEF NoRow, NoFrame, Rows, Frames, Statuses, Calls, Replies

\* The rows the code computes are rows again.
LEMMA RowTypes ==
  ASSUME TypeOK, NEW s \in Sessions
  PROVE  /\ CreatedRow \in Rows /\ QueuedRow(s) \in Rows /\ CancelRow(s) \in Rows
         /\ RunningRow(s) \in Rows /\ RepliedRow(s) \in Rows /\ FinalRow(s) \in Rows
         /\ \A submitted \in BOOLEAN : ToolRow(s, submitted) \in Rows
         /\ [db[s] EXCEPT !.status = "failed", !.why = "service_restart"] \in Rows
         /\ NoFrame \in Frames
PROOF
<1>1. run[s].copy \in Rows /\ run[s].why \in Reasons /\ db[s] \in Rows
  BY DEF TypeOK, Frames
<1>2. StatusOf[run[s].why] \in Statuses /\ {"created", "queued", "running", "failed"} \subseteq Statuses
  BY <1>1, StatusOfType DEF Statuses, Unfinished, TERMINAL_STATUSES
<1>3. NoRow \in Rows /\ NoFrame \in Frames /\ "service_restart" \in Reasons
  BY NoFrameType, StatusOfType
<1>4. CreatedRow \in Rows
  BY <1>2, <1>3, RowUpdates DEF CreatedRow
<1>5. QueuedRow(s) \in Rows /\ CancelRow(s) \in Rows /\ RunningRow(s) \in Rows
  BY <1>1, <1>2, <1>3, RowUpdates DEF QueuedRow, CancelRow, RunningRow
<1>6. RepliedRow(s) \in Rows /\ \A submitted \in BOOLEAN : ToolRow(s, submitted) \in Rows
  BY <1>1, <1>2, <1>3, RowUpdates DEF RepliedRow, ToolRow
<1>7. FinalRow(s) \in Rows /\ [db[s] EXCEPT !.status = "failed", !.why = "service_restart"] \in Rows
  BY <1>1, <1>2, <1>3, RowUpdates DEF FinalRow
<1>8. QED
  BY <1>3, <1>4, <1>5, <1>6, <1>7

\* A write, an event and a transition keep the type of what they change.
LEMMA WriteTypes ==
  ASSUME TypeOK, NEW s \in Sessions
  PROVE  /\ \A row \in Rows : Save(s, row) => db' \in [Sessions -> Rows]
         /\ \A type \in EventTypes : Emit(s, type) => log' \in [Sessions -> Seq(EventTypes)]
         /\ \A stage \in Stages : Goto(s, stage) => pc' \in [Sessions -> Stages]
PROOF
<1>1. \A row \in Rows : Save(s, row) => db' \in [Sessions -> Rows]
  BY DEF TypeOK, Save
<1>2. \A type \in EventTypes : Emit(s, type) => log' \in [Sessions -> Seq(EventTypes)]
  BY DEF TypeOK, Emit
<1>3. \A stage \in Stages : Goto(s, stage) => pc' \in [Sessions -> Stages]
  BY DEF TypeOK, Goto
<1>4. QED
  BY <1>1, <1>2, <1>3

\* The locals of a run stay frames under every assignment the coroutine makes.
LEMMA FrameTypes ==
  ASSUME TypeOK, NEW s \in Sessions, NEW row \in Rows
  PROVE  /\ \A why \in Reasons :
              [run EXCEPT ![s].copy = row, ![s].why = why] \in [Sessions -> Frames]
         /\ \A call \in Calls :
              [run EXCEPT ![s].copy = row, ![s].call = call] \in [Sessions -> Frames]
         /\ \A turn \in Nat :
              [run EXCEPT ![s].turn = turn, ![s].copy = row] \in [Sessions -> Frames]
         /\ [run EXCEPT ![s].copy = row] \in [Sessions -> Frames]
         /\ \A why \in Reasons : [run EXCEPT ![s].why = why] \in [Sessions -> Frames]
PROOF
<1>1. run \in [Sessions -> Frames]
  BY DEF TypeOK
<1>2. ASSUME NEW why \in Reasons
      PROVE  [run EXCEPT ![s].copy = row, ![s].why = why] \in [Sessions -> Frames]
  BY <1>1 DEF Frames
<1>3. ASSUME NEW call \in Calls
      PROVE  [run EXCEPT ![s].copy = row, ![s].call = call] \in [Sessions -> Frames]
  BY <1>1 DEF Frames
<1>4. ASSUME NEW turn \in Nat
      PROVE  [run EXCEPT ![s].turn = turn, ![s].copy = row] \in [Sessions -> Frames]
  BY <1>1 DEF Frames
<1>5. [run EXCEPT ![s].copy = row] \in [Sessions -> Frames]
  BY <1>1 DEF Frames
<1>6. ASSUME NEW why \in Reasons
      PROVE  [run EXCEPT ![s].why = why] \in [Sessions -> Frames]
  BY <1>1 DEF Frames
<1>7. QED
  BY <1>2, <1>3, <1>4, <1>5, <1>6

\* So do entering _finalize and leaving the semaphore or its queue.
LEMMA TransitionTypes ==
  ASSUME TypeOK, NEW s \in Sessions
  PROVE  /\ \A row \in Rows, why \in Reasons :
              EnterFinalize(s, row, why) => /\ pc' \in [Sessions -> Stages]
                                            /\ run' \in [Sessions -> Frames]
         /\ \A why \in Reasons :
              ToFinalize(s, why) => /\ pc' \in [Sessions -> Stages]
                                    /\ run' \in [Sessions -> Frames]
         /\ Release => permits' \in Nat /\ queue' \in Seq(Sessions)
         /\ LeaveQueue(s) => queue' \in Seq(Sessions)
         /\ queue # << >> => Head(queue) \in Sessions /\ Tail(queue) \in Seq(Sessions)
PROOF
<1>1. ASSUME NEW row \in Rows, NEW why \in Reasons, EnterFinalize(s, row, why)
      PROVE  pc' \in [Sessions -> Stages] /\ run' \in [Sessions -> Frames]
  <2>1. run' = [run EXCEPT ![s].copy = row, ![s].why = why] /\ Goto(s, "rewarding")
    BY <1>1 DEF EnterFinalize
  <2>2. QED
    BY <2>1, FrameTypes, WriteTypes, Members
<1>f. ASSUME NEW why \in Reasons, ToFinalize(s, why)
      PROVE  pc' \in [Sessions -> Stages] /\ run' \in [Sessions -> Frames]
  <2>1. db[s] \in Rows
    BY DEF TypeOK
  <2>2. QED
    BY <1>1, <1>f, <2>1 DEF ToFinalize
<1>2. Release => permits' \in Nat /\ queue' \in Seq(Sessions)
  BY DEF TypeOK, Release
<1>3. LeaveQueue(s) => queue' \in Seq(Sessions)
  <2>1. SUFFICES ASSUME NEW i \in DOMAIN queue,
                        queue' = SubSeq(queue, 1, i - 1) \o SubSeq(queue, i + 1, Len(queue))
                 PROVE  queue' \in Seq(Sessions)
    BY DEF LeaveQueue
  <2>2. queue \in Seq(Sessions) /\ i \in 1..Len(queue) /\ Len(queue) \in Nat
    BY DEF TypeOK
  <2>3. /\ SubSeq(queue, 1, i - 1) \in Seq(Sessions)
        /\ SubSeq(queue, i + 1, Len(queue)) \in Seq(Sessions)
    BY <2>2, SubSeqProperties
  <2>4. QED
    BY <2>1, <2>3, ConcatProperties
<1>4. queue # << >> => Head(queue) \in Sessions /\ Tail(queue) \in Seq(Sessions)
  BY HeadTailProperties DEF TypeOK
<1>5. QED
  BY <1>1, <1>f, <1>2, <1>3, <1>4


\* The service starts well typed.
LEMMA TypeInit == Init => TypeOK
PROOF
<1> SUFFICES ASSUME Init PROVE TypeOK
  OBVIOUS
<1>1. NoRow \in Rows /\ NoFrame \in Frames
  BY NoFrameType
<1>2. MaxConcurrent \in Nat /\ 0 \in 0..MaxStops
  BY BudgetAssumption
<1>3. QED
  BY <1>1, <1>2 DEF Init, TypeOK, Stages

\* What a tool's answer leaves in the row and in the locals of the run.
LEMMA ToolOutcome ==
  ASSUME TypeOK, NEW s \in Sessions, ToolReturns(s)
  PROVE  \E submitted \in BOOLEAN, call \in Calls :
           /\ Save(s, ToolRow(s, submitted))
           /\ run' = [run EXCEPT ![s].copy = ToolRow(s, submitted), ![s].call = call]
PROOF
<1>1. run[s].call \in Calls
  BY DEF TypeOK, Frames
<1>2. QED
  BY <1>1 DEF ToolReturns, SubmitOutcomes, Calls

\* What an exception leaves behind: the row as it was or as the step saved it,
\* the semaphore left if the run was inside, and either the error event or none.
RaiseOutcome(s, row, why) ==
  /\ row \in Rows /\ row \in {db[s]} \cup StepRows(s) /\ Save(s, row)
  /\ proc \in {"up", "stopping"} /\ pc[s] \in Raising
  /\ \/ Goto(s, "failing") /\ Emit(s, "error") /\ UNCHANGED run
     \/ EnterFinalize(s, row, why) /\ UNCHANGED log
  /\ \/ pc[s] = "ready" /\ UNCHANGED sem
     \/ pc[s] = "waiting" /\ FirstInQueue(s) /\ UNCHANGED permits
     \/ pc[s] \notin {"ready", "waiting"} /\ Release
  /\ UNCHANGED <<proc, active, flag, sandbox, killed, stops>>

LEMMA Raised ==
  ASSUME TypeOK, NEW s \in Sessions, RunAborted(s) \/ RunFails(s)
  PROVE  \E row \in Rows, why \in {"cancelled_by_client", "internal_error"} :
           RaiseOutcome(s, row, why)
PROOF
<1>1. \A row \in StepRows(s) :
        row \in {RunningRow(s), RepliedRow(s), ToolRow(s, TRUE), ToolRow(s, FALSE)}
  BY DEF StepRows, SubmitOutcomes
<1>2. /\ db[s] \in Rows /\ RunningRow(s) \in Rows /\ RepliedRow(s) \in Rows
      /\ ToolRow(s, TRUE) \in Rows /\ ToolRow(s, FALSE) \in Rows
  BY RowTypes DEF TypeOK
<1>3. \A row \in {db[s]} \cup StepRows(s) : row \in Rows
  BY <1>1, <1>2
<1>4. ASSUME NEW row \in {db[s]} \cup StepRows(s), StepRaises(s, row)
      PROVE  /\ row \in Rows /\ Save(s, row)
             /\ proc \in {"up", "stopping"} /\ pc[s] \in Raising
             /\ \/ pc[s] = "ready" /\ UNCHANGED sem
                \/ pc[s] = "waiting" /\ FirstInQueue(s) /\ UNCHANGED permits
                \/ pc[s] \notin {"ready", "waiting"} /\ Release
  <2>1. pc[s] \in Raising /\ proc \in {"up", "stopping"}
    BY <1>4 DEF StepRaises, Resumes
  <2>2. CASE pc[s] = "ready"
    BY <1>3, <1>4, <2>1, <2>2 DEF StepRaises
  <2>3. CASE pc[s] = "waiting"
    BY <1>3, <1>4, <2>1, <2>3 DEF StepRaises
  <2>4. CASE pc[s] \notin {"ready", "waiting"}
    BY <1>3, <1>4, <2>1, <2>4 DEF StepRaises
  <2>5. QED
    BY <2>2, <2>3, <2>4
<1>5. CASE RunAborted(s)
  <2>1. PICK row \in {db[s]} \cup StepRows(s) :
          StepRaises(s, row) /\ EnterFinalize(s, row, "cancelled_by_client")
    BY <1>5 DEF RunAborted
  <2>2. UNCHANGED <<proc, log, active, flag, sandbox, killed, stops>>
    BY <1>5 DEF RunAborted
  <2>3. RaiseOutcome(s, row, "cancelled_by_client")
    BY <1>4, <2>1, <2>2 DEF RaiseOutcome
  <2>4. QED
    BY <1>3, <2>3
<1>6. CASE RunFails(s)
  <2>1. PICK row \in {db[s]} \cup StepRows(s) :
          /\ StepRaises(s, row)
          /\ \/ Goto(s, "failing") /\ Emit(s, "error") /\ UNCHANGED run
             \/ EnterFinalize(s, row, "internal_error") /\ UNCHANGED log
    BY <1>6 DEF RunFails
  <2>2. UNCHANGED <<proc, active, flag, sandbox, killed, stops>>
    BY <1>6 DEF RunFails
  <2>3. RaiseOutcome(s, row, "internal_error")
    BY <1>4, <2>1, <2>2 DEF RaiseOutcome
  <2>4. QED
    BY <1>3, <2>3
<1>7. QED
  BY <1>5, <1>6

\* Steps of one session's client, handler or task keep every type.
LEMMA TypeSessionStep ==
  ASSUME TypeOK, NEW s \in Sessions, Client(s) \/ Handler(s) \/ Task(s)
  PROVE  TypeOK'
PROOF
<1>r. /\ db[s] \in Rows /\ run[s].copy \in Rows /\ run[s].turn \in Nat
      /\ run[s].why \in Reasons /\ run[s].call \in Calls
      /\ StatusOf[run[s].why] \in EventTypes
  BY StatusOfType, Members DEF TypeOK, Frames
<1> USE Members DEF Resumes
<1>1. CASE CreateSession(s)
  BY <1>1, WriteTypes DEF CreateSession, TypeOK, store, sem
<1>2. CASE CreateFails(s)
  BY <1>2, WriteTypes DEF CreateFails, TypeOK, store, sem
<1>3. CASE CreateLeaks(s)
  BY <1>3, WriteTypes DEF CreateLeaks, TypeOK, store, sem
<1>4. CASE SessionCreated(s)
  BY <1>4, WriteTypes, RowTypes, <1>r DEF SessionCreated, TypeOK, sem
<1>5. CASE StartRun(s)
  BY <1>5, WriteTypes, RowTypes, <1>r DEF StartRun, TypeOK, sem
<1>6. CASE SpawnTask(s)
  BY <1>6, WriteTypes DEF SpawnTask, TypeOK, store, sem
<1>7. CASE Cancel(s)
  BY <1>7, WriteTypes, RowTypes, <1>r DEF Cancel, TypeOK, sem
<1>8. CASE TaskStarts(s)
  <2>1. pc' \in [Sessions -> Stages]
    BY <1>8, WriteTypes DEF TaskStarts
  <2>2. run' \in [Sessions -> Frames]
    BY <1>8, <1>r, FrameTypes DEF TaskStarts
  <2>3. queue' \in Seq(Sessions)
    BY <1>8 DEF TaskStarts, TypeOK
  <2>4. QED
    BY <1>8, <2>1, <2>2, <2>3 DEF TaskStarts, TypeOK, store
<1>9. CASE SemaphoreAcquired(s)
  <2>1. pc' \in [Sessions -> Stages]
    BY <1>9, WriteTypes DEF SemaphoreAcquired
  <2>2. db' \in [Sessions -> Rows] /\ log' \in [Sessions -> Seq(EventTypes)]
    BY <1>9, WriteTypes, RowTypes DEF SemaphoreAcquired
  <2>3. queue' \in Seq(Sessions)
    BY <1>9, TransitionTypes DEF SemaphoreAcquired, FirstInQueue
  <2>4. permits' \in Nat
    BY <1>9 DEF SemaphoreAcquired, FirstInQueue, TypeOK
  <2>5. QED
    BY <1>9, <2>1, <2>2, <2>3, <2>4 DEF SemaphoreAcquired, TypeOK
<1>10. CASE CancelledInQueue(s)
  BY <1>10, WriteTypes, TransitionTypes, StatusOfType DEF CancelledInQueue, TypeOK, FirstInQueue, store
<1>11. CASE TurnBegins(s)
  <2>1. pc' \in [Sessions -> Stages]
    BY <1>11, WriteTypes DEF TurnBegins
  <2>2. PICK row \in Rows, turn \in Nat :
          run' = [run EXCEPT ![s].turn = turn, ![s].copy = row]
    <3> DEFINE copied == IF pc[s] = "entered" THEN db[s] ELSE run[s].copy
               next   == run[s].turn + 1
    <3>1. copied \in Rows /\ next \in Nat
      BY <1>r
    <3>2. run' = [run EXCEPT ![s].turn = next, ![s].copy = copied]
      BY <1>11 DEF TurnBegins
    <3>3. QED
      BY <3>1, <3>2
  <2>3. run' \in [Sessions -> Frames]
    BY <2>2, FrameTypes
  <2>4. QED
    BY <1>11, <2>1, <2>3 DEF TurnBegins, TypeOK, store, sem
<1>12. CASE CancelledAtTurn(s)
  BY <1>12, WriteTypes, TransitionTypes, StatusOfType DEF CancelledAtTurn, TypeOK, store
<1>13. CASE ModelReplies(s)
  <2>1. PICK reply \in Replies :
          run' = [run EXCEPT ![s].copy = RepliedRow(s), ![s].call = reply]
    BY <1>13 DEF ModelReplies
  <2>2. run' \in [Sessions -> Frames]
    BY <2>1, RowTypes, FrameTypes DEF Calls
  <2>3. /\ pc' \in [Sessions -> Stages] /\ db' \in [Sessions -> Rows]
        /\ log' \in [Sessions -> Seq(EventTypes)]
    BY <1>13, WriteTypes, RowTypes DEF ModelReplies
  <2>4. QED
    BY <1>13, <2>2, <2>3 DEF ModelReplies, TypeOK, sem
<1>14. CASE RunAborted(s) \/ RunFails(s)
  <2>1. PICK row \in Rows, why \in {"cancelled_by_client", "internal_error"} :
          RaiseOutcome(s, row, why)
    BY <1>14, Raised
  <2>2. db' \in [Sessions -> Rows]
    BY <2>1, WriteTypes DEF RaiseOutcome
  <2>3. /\ pc' \in [Sessions -> Stages] /\ run' \in [Sessions -> Frames]
        /\ log' \in [Sessions -> Seq(EventTypes)]
    <3>1. why \in Reasons /\ run \in [Sessions -> Frames] /\ log \in [Sessions -> Seq(EventTypes)]
      BY StatusOfType DEF TypeOK
    <3>2. CASE Goto(s, "failing") /\ Emit(s, "error") /\ UNCHANGED run
      BY <3>1, <3>2, WriteTypes
    <3>3. CASE EnterFinalize(s, row, why) /\ UNCHANGED log
      BY <3>1, <3>3, TransitionTypes
    <3>4. QED
      BY <2>1, <3>2, <3>3 DEF RaiseOutcome
  <2>4. permits' \in Nat /\ queue' \in Seq(Sessions)
    <3>1. permits \in Nat /\ queue \in Seq(Sessions)
      BY DEF TypeOK
    <3>2. QED
      BY <2>1, <3>1, TransitionTypes DEF RaiseOutcome, FirstInQueue, sem
  <2>5. QED
    BY <2>1, <2>2, <2>3, <2>4 DEF RaiseOutcome, TypeOK
<1>15. CASE CreateFailsLate(s) \/ StartRunFails(s) \/ CancelFails(s)
  BY <1>15, WriteTypes, RowTypes, <1>r
     DEF CreateFailsLate, StartRunFails, CancelFails, TypeOK, sem
<1>16. CASE TokensExhausted(s)
  BY <1>16, WriteTypes, <1>r, FrameTypes, StatusOfType DEF TokensExhausted, TypeOK, sem
<1>17. CASE MissingCall(s)
  BY <1>17, WriteTypes DEF MissingCall, TypeOK, sem
<1>18. CASE ToolCalled(s)
  BY <1>18, WriteTypes DEF ToolCalled, TypeOK, store, sem
<1>19. CASE ToolReturns(s)
  <2>1. PICK submitted \in BOOLEAN, call \in Calls :
          /\ Save(s, ToolRow(s, submitted))
          /\ run' = [run EXCEPT ![s].copy = ToolRow(s, submitted), ![s].call = call]
    BY <1>19, ToolOutcome
  <2>2. ToolRow(s, submitted) \in Rows
    BY RowTypes
  <2>3. run' \in [Sessions -> Frames]
    BY <2>1, <2>2, FrameTypes
  <2>4. /\ pc' \in [Sessions -> Stages] /\ db' \in [Sessions -> Rows]
        /\ log' \in [Sessions -> Seq(EventTypes)]
    BY <1>19, <2>1, <2>2, WriteTypes DEF ToolReturns
  <2>5. QED
    BY <1>19, <2>3, <2>4 DEF ToolReturns, TypeOK, sem
<1>20. CASE ToolBudgetExhausted(s)
  BY <1>20, WriteTypes, <1>r, FrameTypes, StatusOfType DEF ToolBudgetExhausted, TypeOK, sem
<1>21. CASE TurnsExhausted(s)
  BY <1>21, WriteTypes, <1>r, FrameTypes, StatusOfType DEF TurnsExhausted, TypeOK, sem
<1>22. CASE Submitted(s)
  BY <1>22, WriteTypes, TransitionTypes, StatusOfType DEF Submitted, TypeOK, store
<1>23. CASE LoopReturns(s)
  BY <1>23, WriteTypes, TransitionTypes, <1>r DEF LoopReturns, TypeOK, store
<1>24. CASE TimesOut(s)
  BY <1>24, WriteTypes, TransitionTypes, StatusOfType DEF TimesOut, TypeOK, store
<1>25. CASE HandlerDone(s)
  BY <1>25, WriteTypes, TransitionTypes, StatusOfType DEF HandlerDone, TypeOK, store, sem
<1>26. CASE FinalizeSaves(s)
  BY <1>26, WriteTypes, RowTypes, <1>r DEF FinalizeSaves, TypeOK, sem
<1>27. CASE FinalizeRaises(s)
  BY <1>27, WriteTypes, RowTypes, <1>r DEF FinalizeRaises, TypeOK, sem
<1>28. CASE FinalStatus(s)
  BY <1>28, WriteTypes, <1>r DEF FinalStatus, TypeOK, sem
<1>29. CASE SandboxReleased(s)
  BY <1>29, WriteTypes, TransitionTypes, StatusOfType DEF SandboxReleased, TypeOK, store, sem
<1>30. CASE SessionPopped(s)
  BY <1>30, WriteTypes, RowTypes DEF SessionPopped, TypeOK, store, sem
<1>31. CASE KilledUnstarted(s)
  BY <1>31, WriteTypes DEF KilledUnstarted, TypeOK, Dies, store, sem
<1>32. CASE KilledInQueue(s)
  BY <1>32, WriteTypes, TransitionTypes, StatusOfType DEF KilledInQueue, TypeOK, Dies, store
<1>33. CASE KilledInLoop(s)
  BY <1>33, WriteTypes, TransitionTypes, StatusOfType DEF KilledInLoop, TypeOK, Dies, store
<1>34. CASE KilledInHandler(s)
  BY <1>34, WriteTypes, TransitionTypes, StatusOfType DEF KilledInHandler, TypeOK, Dies, store, sem
<1>35. CASE KilledInFinalize(s)
  BY <1>35, WriteTypes DEF KilledInFinalize, TypeOK, Dies, store, sem
<1>36. QED
  BY <1>1, <1>2, <1>3, <1>4, <1>5, <1>6, <1>7, <1>8, <1>9, <1>10, <1>11, <1>12, <1>13, <1>14, <1>15, <1>16, <1>17, <1>18, <1>19, <1>20, <1>21, <1>22, <1>23, <1>24, <1>25, <1>26, <1>27, <1>28, <1>29, <1>30, <1>31, <1>32, <1>33, <1>34, <1>35 DEF Client, Handler, Task, Loop, Finalize, Killed

\* Steps of the process as a whole keep every type.
LEMMA TypeSystemStep ==
  ASSUME TypeOK, Stop \/ Recovery \/ UNCHANGED vars
  PROVE  TypeOK'
PROOF
<1> USE BudgetAssumption
<1>1. CASE Shutdown
  BY <1>1 DEF Shutdown, TypeOK, store, sem
<1>2. ASSUME MemoryLost
      PROVE  /\ proc' = "down" /\ pc' \in [Sessions -> Stages]
             /\ run' \in [Sessions -> Frames]
             /\ active' = {} /\ flag' = {} /\ sandbox' = {} /\ killed' = {}
             /\ queue' \in Seq(Sessions) /\ permits' \in Nat
  <2>1. NoFrame \in Frames
    BY NoFrameType
  <2>2. QED
    BY <1>2, <2>1, Members DEF MemoryLost
<1>3. CASE ShutdownDone
  BY <1>2, <1>3 DEF ShutdownDone, TypeOK, store
<1>4. CASE Crash
  BY <1>2, <1>4 DEF Crash, TypeOK, store
<1>5. ASSUME NEW s \in Sessions, CrashAfterSave(s)
      PROVE  TypeOK'
  <2>1. \A row \in NextRows(s) : row \in Rows
    <3>1. \A row \in NextRows(s) :
            row \in {CreatedRow, RunningRow(s), RepliedRow(s), FinalRow(s), CancelRow(s),
                    QueuedRow(s), ToolRow(s, TRUE), ToolRow(s, FALSE)}
      BY DEF NextRows, StepRows, SubmitOutcomes
    <3>2. /\ CreatedRow \in Rows /\ RunningRow(s) \in Rows /\ RepliedRow(s) \in Rows
          /\ FinalRow(s) \in Rows /\ CancelRow(s) \in Rows /\ QueuedRow(s) \in Rows
          /\ ToolRow(s, TRUE) \in Rows /\ ToolRow(s, FALSE) \in Rows
      BY RowTypes
    <3>. QED
      BY <3>1, <3>2
  <2>2. db' \in [Sessions -> Rows]
    <3>1. PICK row \in Rows : Save(s, row)
      BY <1>5, <2>1 DEF CrashAfterSave
    <3>. QED
      BY <3>1, WriteTypes
  <2>3. /\ MemoryLost /\ log' = log
        /\ stops < MaxStops /\ stops' = stops + 1
    BY <1>5 DEF CrashAfterSave
  <2>4. /\ proc' = "down" /\ pc' \in [Sessions -> Stages] /\ run' \in [Sessions -> Frames]
        /\ active' = {} /\ flag' = {} /\ sandbox' = {} /\ killed' = {}
        /\ queue' \in Seq(Sessions) /\ permits' \in Nat
    BY <1>2, <2>3
  <2>5. log' \in [Sessions -> Seq(EventTypes)] /\ stops' \in 0..MaxStops
    BY <2>3 DEF TypeOK
  <2>6. QED
    BY <2>2, <2>4, <2>5 DEF TypeOK
<1>6. CASE Restart
  BY <1>6 DEF Restart, TypeOK, store, sem
<1>7. CASE ServiceUp
  BY <1>7 DEF ServiceUp, TypeOK, store, sem
<1>8. ASSUME NEW s \in Sessions, MarkInterrupted(s)
      PROVE  TypeOK'
  <2>1. db' \in [Sessions -> Rows]
    BY <1>8, RowTypes, WriteTypes DEF MarkInterrupted
  <2>2. QED
    BY <1>8, <2>1 DEF MarkInterrupted, TypeOK, sem
<1>9. CASE UNCHANGED vars
  BY <1>9 DEF vars, TypeOK
<1>10. QED
  BY <1>1, <1>3, <1>4, <1>5, <1>6, <1>7, <1>8, <1>9 DEF Stop, Recovery

\* Every step of the service, and a stutter, keeps every type.
LEMMA TypeStep == TypeOK /\ [Next]_vars => TypeOK'
BY TypeSessionStep, TypeSystemStep DEF Next

\* Every behaviour of the orchestrator is well typed, whatever the sessions,
\* the budgets and the number of crashes, shutdowns and cancel requests.
THEOREM TypeCorrect == Spec => []TypeOK
PROOF
<1>1. QED
  BY TypeInit, TypeStep, PTL DEF Spec

-----------------------------------------------------------------------------
\* The inductive invariant behind the safety theorems: the stage of a
\* session's coroutine determines what its row may say and what it owns.
Supported == {"creating", "idle", "starting"} \cup (TaskStages \ {"popping"})

\* A process that is not serving holds nothing.
NothingInMemory(s) ==
  proc \in {"down", "recovering"} => pc[s] = "none" /\ s \notin active /\ s \notin sandbox

RowOfStage(s) ==
  /\ pc[s] = "creating" => db[s].status = "absent"
  /\ pc[s] = "idle" =>
       db[s].status = "created" \/ (HostFaults /\ db[s].status = "queued")
  /\ pc[s] \in {"starting", "ready", "waiting"} => db[s].status = "queued"
  /\ pc[s] \in InLoop => db[s].status = "running"
  /\ pc[s] \in {"failing", "aborting", "rewarding"} => db[s].status \in {"queued", "running"}
  /\ pc[s] = "rewarded" => Terminal(s)
  /\ pc[s] \in {"closing", "popping"} =>
       \/ Terminal(s)
       \/ db[s].status \in {"queued", "running"} /\ (HostFaults \/ proc # "up")

\* While the loop may still save the coroutine's own copy of the row, that copy
\* has the status of the stored one.
CopyOfStage(s) == pc[s] \in InLoop \ {"entered"} => run[s].copy.status = "running"

Registered(s) ==
  /\ pc[s] \in {"idle", "starting"} \cup TaskStages => s \in active
  /\ s \in active => db[s].status # "absent"
  /\ s \in active /\ db[s].status = "created" => pc[s] = "idle"
  /\ proc = "up" /\ db[s].status \in Unfinished /\ ~HostFaults =>
       s \in active /\ pc[s] # "none"

Owned(s) ==
  /\ pc[s] \in Supported => s \in sandbox
  /\ pc[s] = "popping" => s \notin sandbox
  /\ s \in sandbox /\ ~HostFaults => pc[s] = "creating" \/ s \in active

Coherent(s) ==
  NothingInMemory(s) /\ RowOfStage(s) /\ CopyOfStage(s) /\ Registered(s) /\ Owned(s)

IInv == TypeOK /\ \A s \in Sessions : Coherent(s)

\* The status of every row the code computes.
LEMMA RowStatuses ==
  ASSUME TypeOK, NEW s \in Sessions
  PROVE  /\ NoRow.status = "absent" /\ CreatedRow.status = "created"
         /\ QueuedRow(s).status = "queued" /\ RunningRow(s).status = "running"
         /\ CancelRow(s).status = db[s].status
         /\ RepliedRow(s).status = run[s].copy.status
         /\ \A submitted \in BOOLEAN :
              ToolRow(s, submitted).status = run[s].copy.status
         /\ FinalRow(s).status \in TERMINAL_STATUSES
PROOF
<1>1. db[s] \in Rows /\ run[s].copy \in Rows /\ run[s].why \in Reasons
  BY DEF TypeOK, Frames
<1>2. NoRow.status = "absent" /\ CreatedRow.status = "created"
  BY DEF NoRow, CreatedRow
<1>3. /\ QueuedRow(s).status = "queued" /\ RunningRow(s).status = "running"
      /\ CancelRow(s).status = db[s].status
      /\ RepliedRow(s).status = run[s].copy.status
  BY <1>1 DEF QueuedRow, RunningRow, CancelRow, RepliedRow, Rows
<1>4. \A submitted \in BOOLEAN : ToolRow(s, submitted).status = run[s].copy.status
  BY <1>1 DEF ToolRow, Rows
<1>5. FinalRow(s).status = StatusOf[run[s].why]
  BY <1>1 DEF FinalRow, Rows
<1>6. QED
  BY <1>1, <1>2, <1>3, <1>4, <1>5, StatusOfType

\* Terminal, unfinished and absent rows are different things.
LEMMA StatusesDisjoint ==
  /\ TERMINAL_STATUSES \cap Unfinished = {}
  /\ "absent" \notin TERMINAL_STATUSES \cup Unfinished
  /\ Unfinished = {"created", "queued", "running"}
BY DEF TERMINAL_STATUSES, Unfinished

\* What the writes do, session by session.
LEMMA Effects ==
  ASSUME TypeOK, NEW s \in Sessions, NEW t \in Sessions
  PROVE  /\ \A row : Save(s, row) => db'[t] = IF t = s THEN row ELSE db[t]
         /\ \A stage : Goto(s, stage) => pc'[t] = IF t = s THEN stage ELSE pc[t]
         /\ \A row, why : EnterFinalize(s, row, why) =>
              /\ pc'[t] = IF t = s THEN "rewarding" ELSE pc[t]
              /\ t # s => run'[t] = run[t]
         /\ \A why : ToFinalize(s, why) =>
              /\ pc'[t] = IF t = s THEN "rewarding" ELSE pc[t]
              /\ t # s => run'[t] = run[t]
PROOF
<1>1. \A row : Save(s, row) => db'[t] = IF t = s THEN row ELSE db[t]
  BY DEF Save, TypeOK
<1>2. \A stage : Goto(s, stage) => pc'[t] = IF t = s THEN stage ELSE pc[t]
  BY DEF Goto, TypeOK
<1>3. \A row, why : EnterFinalize(s, row, why) =>
        /\ pc'[t] = IF t = s THEN "rewarding" ELSE pc[t]
        /\ t # s => run'[t] = run[t]
  BY <1>2 DEF EnterFinalize, TypeOK
<1>4. QED
  BY <1>1, <1>2, <1>3 DEF ToFinalize

\* A session's step is its own: it leaves the others as they are.
LEMMA StepIsLocal ==
  ASSUME TypeOK, NEW s \in Sessions, NEW t \in Sessions, t # s,
         Client(s) \/ Handler(s) \/ Task(s)
  PROVE  /\ proc' = proc /\ db'[t] = db[t] /\ pc'[t] = pc[t] /\ run'[t] = run[t]
         /\ t \in active' <=> t \in active
         /\ t \in sandbox' <=> t \in sandbox
PROOF
<1> USE Effects DEF store
<1>1. CASE CreateSession(s)
  BY <1>1 DEF CreateSession
<1>2. CASE CreateFails(s)
  BY <1>2 DEF CreateFails
<1>3. CASE CreateLeaks(s)
  BY <1>3 DEF CreateLeaks
<1>4. CASE SessionCreated(s)
  BY <1>4 DEF SessionCreated
<1>5. CASE StartRun(s)
  BY <1>5 DEF StartRun
<1>6. CASE SpawnTask(s)
  BY <1>6 DEF SpawnTask
<1>7. CASE Cancel(s)
  BY <1>7 DEF Cancel
<1>8. CASE TaskStarts(s)
  BY <1>8 DEF TaskStarts, TypeOK
<1>9. CASE SemaphoreAcquired(s)
  BY <1>9 DEF SemaphoreAcquired
<1>10. CASE CancelledInQueue(s)
  BY <1>10 DEF CancelledInQueue
<1>11. CASE TurnBegins(s)
  BY <1>11 DEF TurnBegins, TypeOK
<1>12. CASE CancelledAtTurn(s)
  BY <1>12 DEF CancelledAtTurn
<1>13. CASE ModelReplies(s)
  BY <1>13 DEF ModelReplies, TypeOK
<1>14. CASE RunAborted(s) \/ RunFails(s)
  <2>1. PICK row \in Rows, why \in {"cancelled_by_client", "internal_error"} :
          RaiseOutcome(s, row, why)
    BY <1>14, Raised
  <2>2. QED
    BY <2>1 DEF RaiseOutcome
<1>15. CASE CreateFailsLate(s) \/ StartRunFails(s) \/ CancelFails(s)
  BY <1>15 DEF CreateFailsLate, StartRunFails, CancelFails
<1>16. CASE TokensExhausted(s)
  BY <1>16 DEF TokensExhausted, TypeOK
<1>17. CASE MissingCall(s)
  BY <1>17 DEF MissingCall
<1>18. CASE ToolCalled(s)
  BY <1>18 DEF ToolCalled
<1>19. CASE ToolReturns(s)
  BY <1>19 DEF ToolReturns, TypeOK
<1>20. CASE ToolBudgetExhausted(s)
  BY <1>20 DEF ToolBudgetExhausted, TypeOK
<1>21. CASE TurnsExhausted(s)
  BY <1>21 DEF TurnsExhausted, TypeOK
<1>22. CASE Submitted(s)
  BY <1>22 DEF Submitted
<1>23. CASE LoopReturns(s)
  BY <1>23 DEF LoopReturns
<1>24. CASE TimesOut(s)
  BY <1>24 DEF TimesOut
<1>25. CASE HandlerDone(s)
  BY <1>25 DEF HandlerDone
<1>26. CASE FinalizeSaves(s)
  BY <1>26 DEF FinalizeSaves
<1>27. CASE FinalizeRaises(s)
  BY <1>27 DEF FinalizeRaises
<1>28. CASE FinalStatus(s)
  BY <1>28 DEF FinalStatus
<1>29. CASE SandboxReleased(s)
  BY <1>29 DEF SandboxReleased
<1>30. CASE SessionPopped(s)
  BY <1>30 DEF SessionPopped, TypeOK
<1>31. CASE KilledUnstarted(s)
  BY <1>31 DEF KilledUnstarted, Dies
<1>32. CASE KilledInQueue(s)
  BY <1>32 DEF KilledInQueue, Dies
<1>33. CASE KilledInLoop(s)
  BY <1>33 DEF KilledInLoop, Dies
<1>34. CASE KilledInHandler(s)
  BY <1>34 DEF KilledInHandler, Dies
<1>35. CASE KilledInFinalize(s)
  BY <1>35 DEF KilledInFinalize, Dies
<1>36. QED
  BY <1>1, <1>2, <1>3, <1>4, <1>5, <1>6, <1>7, <1>8, <1>9, <1>10, <1>11, <1>12, <1>13, <1>14, <1>15, <1>16, <1>17, <1>18, <1>19, <1>20, <1>21, <1>22, <1>23, <1>24, <1>25, <1>26, <1>27, <1>28, <1>29, <1>30, <1>31, <1>32, <1>33, <1>34, <1>35 DEF Client, Handler, Task, Loop, Finalize, Killed

\* A step that raises leaves a row of a session that is queued or running.
LEMMA RaisedStatus ==
  ASSUME TypeOK, NEW s \in Sessions, RowOfStage(s), CopyOfStage(s), pc[s] \in Raising
  PROVE  \A row \in {db[s]} \cup StepRows(s) : row.status \in {"queued", "running"}
PROOF
<1>1. db[s].status \in {"queued", "running"}
  BY DEF RowOfStage, Raising, InLoop
<1>2. CASE pc[s] = "waiting"
  BY <1>1, <1>2, RowStatuses DEF StepRows
<1>3. CASE pc[s] = "generating"
  <2>1. RepliedRow(s).status = "running"
    BY <1>3, RowStatuses DEF CopyOfStage, InLoop
  <2>2. QED
    BY <1>1, <1>3, <2>1 DEF StepRows
<1>4. CASE pc[s] = "executing"
  <2>1. \A submitted \in BOOLEAN : ToolRow(s, submitted).status = "running"
    BY <1>4, RowStatuses DEF CopyOfStage, InLoop
  <2>2. \A row \in StepRows(s) : row.status = "running"
    BY <1>4, <2>1 DEF StepRows, SubmitOutcomes
  <2>3. QED
    BY <1>1, <2>2
<1>5. CASE pc[s] \notin {"waiting", "generating", "executing"}
  BY <1>1, <1>5 DEF StepRows
<1>6. QED
  BY <1>2, <1>3, <1>4, <1>5

\* A session's step keeps its stage, its row and its resources coherent.
LEMMA OwnStep ==
  ASSUME IInv, NEW s \in Sessions, Client(s) \/ Handler(s) \/ Task(s)
  PROVE  Coherent(s)'
PROOF
<1>c. TypeOK /\ TypeOK' /\ Coherent(s)
  BY TypeSessionStep DEF IInv
<1> USE <1>c, Effects, RowStatuses, StatusesDisjoint, Members
    DEF Resumes, store, Coherent, NothingInMemory, RowOfStage, CopyOfStage,
        Registered, Owned, Supported, Terminal
<1>1. CASE CreateSession(s)
  BY <1>1 DEF CreateSession, InLoop, TaskStages, InFinalize
<1>2. CASE CreateFails(s)
  BY <1>2 DEF CreateFails, InLoop, TaskStages, InFinalize
<1>3. CASE CreateLeaks(s)
  BY <1>3 DEF CreateLeaks, InLoop, TaskStages, InFinalize
<1>4. CASE SessionCreated(s)
  <2>1. db'[s].status = "created" /\ pc'[s] = "idle"
    BY <1>4 DEF SessionCreated
  <2>2. proc' = "up" /\ s \in active' /\ sandbox' = sandbox /\ s \in sandbox
    BY <1>4 DEF SessionCreated
  <2>3. QED
    BY <2>1, <2>2 DEF InLoop, TaskStages, InFinalize
<1>5. CASE StartRun(s)
  BY <1>5 DEF StartRun, InLoop, TaskStages, InFinalize
<1>6. CASE SpawnTask(s)
  BY <1>6 DEF SpawnTask, InLoop, TaskStages, InFinalize
<1>7. CASE Cancel(s)
  BY <1>7 DEF Cancel, InLoop, TaskStages, InFinalize
<1>8. CASE TaskStarts(s)
  BY <1>8 DEF TaskStarts, TypeOK, InLoop, TaskStages, InFinalize
<1>9. CASE SemaphoreAcquired(s)
  BY <1>9 DEF SemaphoreAcquired, FirstInQueue, InLoop, TaskStages, InFinalize
<1>10. CASE CancelledInQueue(s)
  BY <1>10 DEF CancelledInQueue, FirstInQueue, InLoop, TaskStages, InFinalize
<1>11. CASE TurnBegins(s)
  BY <1>11 DEF TurnBegins, TypeOK, AtLoopHead, InLoop, TaskStages, InFinalize
<1>12. CASE CancelledAtTurn(s)
  BY <1>12 DEF CancelledAtTurn, AtLoopHead, InLoop, TaskStages, InFinalize
<1>13. CASE ModelReplies(s)
  BY <1>13 DEF ModelReplies, TypeOK, InLoop, TaskStages, InFinalize
<1>14. CASE RunAborted(s) \/ RunFails(s)
  <2>1. PICK row \in Rows, why \in {"cancelled_by_client", "internal_error"} :
          RaiseOutcome(s, row, why)
    BY <1>14, Raised
  <2>2. db'[s].status \in {"queued", "running"}
    BY <2>1, RaisedStatus DEF RaiseOutcome
  <2>3. pc'[s] \in {"failing", "rewarding"} /\ pc[s] \in TaskStages \ {"popping"}
    BY <2>1 DEF RaiseOutcome, Raising, TaskStages, InLoop
  <2>4. QED
    BY <2>1, <2>2, <2>3 DEF RaiseOutcome, InLoop, TaskStages, InFinalize
<1>15. CASE CreateFailsLate(s) \/ StartRunFails(s) \/ CancelFails(s)
  <2>1. CASE CreateFailsLate(s)
    BY <2>1 DEF CreateFailsLate, InLoop, TaskStages, InFinalize
  <2>2. CASE StartRunFails(s)
    BY <2>2 DEF StartRunFails, InLoop, TaskStages, InFinalize
  <2>3. CASE CancelFails(s)
    BY <2>3 DEF CancelFails, InLoop, TaskStages, InFinalize
  <2>4. QED
    BY <1>15, <2>1, <2>2, <2>3
<1>16. CASE TokensExhausted(s)
  BY <1>16 DEF TokensExhausted, TypeOK, InLoop, TaskStages, InFinalize
<1>17. CASE MissingCall(s)
  BY <1>17 DEF MissingCall, InLoop, TaskStages, InFinalize
<1>18. CASE ToolCalled(s)
  BY <1>18 DEF ToolCalled, InLoop, TaskStages, InFinalize
<1>19. CASE ToolReturns(s)
  <2>1. PICK submitted \in BOOLEAN, call \in Calls :
          /\ Save(s, ToolRow(s, submitted))
          /\ run' = [run EXCEPT ![s].copy = ToolRow(s, submitted), ![s].call = call]
    BY <1>19, ToolOutcome
  <2>2. run'[s].copy = ToolRow(s, submitted) /\ db'[s] = ToolRow(s, submitted)
    BY <2>1 DEF TypeOK, Frames
  <2>3. pc[s] = "executing" /\ pc'[s] = "observed"
    BY <1>19 DEF ToolReturns
  <2>4. db'[s].status = "running" /\ run'[s].copy.status = "running"
    BY <2>2, <2>3 DEF InLoop
  <2>5. QED
    BY <1>19, <2>3, <2>4 DEF ToolReturns, InLoop, TaskStages, InFinalize
<1>20. CASE ToolBudgetExhausted(s)
  BY <1>20 DEF ToolBudgetExhausted, TypeOK, InLoop, TaskStages, InFinalize
<1>21. CASE TurnsExhausted(s)
  BY <1>21 DEF TurnsExhausted, TypeOK, InLoop, TaskStages, InFinalize
<1>22. CASE Submitted(s)
  BY <1>22 DEF Submitted, InLoop, TaskStages, InFinalize
<1>23. CASE LoopReturns(s)
  BY <1>23 DEF LoopReturns, InLoop, TaskStages, InFinalize
<1>24. CASE TimesOut(s)
  BY <1>24 DEF TimesOut, InLoop, TaskStages, InFinalize
<1>25. CASE HandlerDone(s)
  BY <1>25 DEF HandlerDone, InLoop, TaskStages, InFinalize
<1>26. CASE FinalizeSaves(s)
  BY <1>26 DEF FinalizeSaves, InLoop, TaskStages, InFinalize
<1>27. CASE FinalizeRaises(s)
  BY <1>27 DEF FinalizeRaises, InLoop, TaskStages, InFinalize
<1>28. CASE FinalStatus(s)
  BY <1>28 DEF FinalStatus, InLoop, TaskStages, InFinalize
<1>29. CASE SandboxReleased(s)
  BY <1>29 DEF SandboxReleased, InLoop, TaskStages, InFinalize
<1>30. CASE SessionPopped(s)
  BY <1>30 DEF SessionPopped, TypeOK, InLoop, TaskStages, InFinalize
<1>31. CASE KilledUnstarted(s)
  BY <1>31 DEF KilledUnstarted, Dies, InLoop, TaskStages, InFinalize
<1>32. CASE KilledInQueue(s)
  BY <1>32 DEF KilledInQueue, Dies, InLoop, TaskStages, InFinalize
<1>33. CASE KilledInLoop(s)
  BY <1>33 DEF KilledInLoop, Dies, InLoop, TaskStages, InFinalize
<1>34. CASE KilledInHandler(s)
  BY <1>34 DEF KilledInHandler, Dies, InLoop, TaskStages, InFinalize
<1>35. CASE KilledInFinalize(s)
  BY <1>35 DEF KilledInFinalize, Dies, InLoop, TaskStages, InFinalize
<1>36. QED
  BY <1>1, <1>2, <1>3, <1>4, <1>5, <1>6, <1>7, <1>8, <1>9, <1>10, <1>11, <1>12, <1>13, <1>14, <1>15, <1>16, <1>17, <1>18, <1>19, <1>20, <1>21, <1>22, <1>23, <1>24, <1>25, <1>26, <1>27, <1>28, <1>29, <1>30, <1>31, <1>32, <1>33, <1>34, <1>35 DEF Client, Handler, Task, Loop, Finalize, Killed

\* A step of the process as a whole: memory is lost as one, rows one at a time.
LEMMA SystemStep ==
  ASSUME IInv, Stop \/ Recovery \/ UNCHANGED vars
  PROVE  \A s \in Sessions : Coherent(s)'
PROOF
<1>c. TypeOK /\ \A s \in Sessions : Coherent(s)
  BY DEF IInv
<1> SUFFICES ASSUME NEW s \in Sessions PROVE Coherent(s)'
  OBVIOUS
<1> USE <1>c, StatusesDisjoint, Members
    DEF Coherent, NothingInMemory, RowOfStage, CopyOfStage, Registered, Owned,
        Supported, Terminal, InLoop, TaskStages, InFinalize
<1>1. CASE Shutdown
  BY <1>1 DEF Shutdown, store, sem
<1>2. ASSUME MemoryLost PROVE Coherent(s)'
  BY <1>2 DEF MemoryLost
<1>3. CASE ShutdownDone \/ Crash \/ \E t \in Sessions : CrashAfterSave(t)
  BY <1>2, <1>3 DEF ShutdownDone, Crash, CrashAfterSave
<1>4. CASE Restart
  BY <1>4 DEF Restart, store, sem
<1>5. CASE ServiceUp
  BY <1>5 DEF ServiceUp, store, sem
<1>6. ASSUME NEW t \in Sessions, MarkInterrupted(t) PROVE Coherent(s)'
  BY <1>6 DEF MarkInterrupted, sem
<1>7. CASE UNCHANGED vars
  BY <1>7 DEF vars
<1>8. QED
  BY <1>1, <1>3, <1>4, <1>5, <1>6, <1>7 DEF Stop, Recovery

\* The inductive invariant holds of a service that has just started.
LEMMA IInvInit == Init => IInv
PROOF
<1> SUFFICES ASSUME Init PROVE IInv
  OBVIOUS
<1>1. NoRow.status = "absent"
  BY DEF NoRow
<1>2. \A s \in Sessions : Coherent(s)
  BY <1>1, StatusesDisjoint
     DEF Init, Coherent, NothingInMemory, RowOfStage, CopyOfStage, Registered, Owned,
         Supported, InLoop, TaskStages, InFinalize
<1>3. QED
  BY <1>2, TypeInit DEF IInv

\* Every step of every actor, and a stutter, keeps the inductive invariant.
LEMMA IInvStep == IInv /\ [Next]_vars => IInv'
PROOF
<1> SUFFICES ASSUME IInv, [Next]_vars PROVE IInv'
  OBVIOUS
<1>1. TypeOK'
  BY TypeStep DEF IInv
<1>2. ASSUME NEW s \in Sessions, Client(s) \/ Handler(s) \/ Task(s), NEW t \in Sessions
      PROVE  Coherent(t)'
  <2>1. CASE t = s
    BY <1>2, <2>1, OwnStep
  <2>2. CASE t # s
    <3>1. TypeOK /\ Coherent(t)
      BY DEF IInv
    <3>2. /\ proc' = proc /\ db'[t] = db[t] /\ pc'[t] = pc[t] /\ run'[t] = run[t]
          /\ t \in active' <=> t \in active
          /\ t \in sandbox' <=> t \in sandbox
      BY <1>2, <2>2, <3>1, StepIsLocal
    <3>3. QED
      BY <3>1, <3>2 DEF Coherent, NothingInMemory, RowOfStage, CopyOfStage, Registered,
                        Owned, Terminal
  <2>3. QED
    BY <2>1, <2>2
<1>3. \A t \in Sessions : Coherent(t)'
  BY <1>2, SystemStep DEF Next
<1>4. QED
  BY <1>1, <1>3 DEF IInv

\* The stage of every coroutine agrees with its row, its registration and its
\* tool instances in every reachable state, crashes and shutdowns included.
THEOREM Coherence == Spec => []IInv
PROOF
<1>1. QED
  BY IInvInit, IInvStep, PTL DEF Spec

-----------------------------------------------------------------------------
\* No step of any actor rewrites the row of a session that has ended: neither
\* _finalize, nor a late save of the loop, nor cancel, nor the recovery pass.
THEOREM TerminalIsFinal == Spec => TerminalRowFrozen
PROOF
<1>1. ASSUME IInv, [Next]_vars
      PROVE  \A s \in Sessions : Terminal(s) => db'[s] = db[s]
  <2> SUFFICES ASSUME NEW t \in Sessions, Terminal(t) PROVE db'[t] = db[t]
    OBVIOUS
  <2>c. /\ TypeOK /\ Coherent(t) /\ db[t].status \in TERMINAL_STATUSES
        /\ db[t].status \notin Unfinished /\ db[t].status # "absent"
    BY <1>1, StatusesDisjoint DEF IInv, Terminal
  <2>p. pc[t] \in {"none", "rewarded", "closing", "popping"}
    BY <2>c, StatusesDisjoint
       DEF TypeOK, Stages, TaskStages, InFinalize, Coherent, RowOfStage
  <2>1. ASSUME NEW s \in Sessions, Client(s) \/ Handler(s) \/ Task(s)
        PROVE  db'[t] = db[t]
    <3>1. CASE t # s
      BY <2>1, <2>c, <3>1, StepIsLocal
    <3>2. CASE t = s
      <4> USE <2>c, <2>p DEF Resumes, store, sem, InLoop, Dies
      <4>1. CASE Client(s) \/ Handler(s)
        BY <3>2, <4>1, StatusesDisjoint
           DEF Client, Handler, CreateSession, StartRun, StartRunFails, Cancel, CancelFails,
               CreateFails, CreateLeaks, CreateFailsLate, SessionCreated, SpawnTask
      <4>2. CASE Loop(s)
        BY <3>2, <4>2 DEF Loop, TaskStarts, SemaphoreAcquired, FirstInQueue,
             CancelledInQueue, TurnBegins, AtLoopHead, CancelledAtTurn, ModelReplies,
             RunAborted, RunFails, StepRaises, Raising, TokensExhausted, MissingCall,
             ToolCalled, ToolReturns, ToolBudgetExhausted, TurnsExhausted, Submitted,
             LoopReturns, TimesOut, HandlerDone
      <4>3. CASE Finalize(s)
        BY <3>2, <4>3 DEF Finalize, FinalizeSaves, FinalizeRaises, FinalStatus,
                          SandboxReleased, SessionPopped
      <4>4. CASE Killed(s)
        BY <3>2, <4>4 DEF Killed, KilledUnstarted, KilledInQueue, KilledInLoop,
                          KilledInHandler, KilledInFinalize
      <4>5. QED
        BY <2>1, <4>1, <4>2, <4>3, <4>4 DEF Task
    <3>3. QED
      BY <3>1, <3>2
  <2>2. CASE Stop
    <3>1. ASSUME NEW s \in Sessions, CrashAfterSave(s) PROVE db'[t] = db[t]
      <4>1. CASE t # s
        BY <2>c, <3>1, <4>1, Effects DEF CrashAfterSave
      <4>2. CASE t = s
        BY <2>c, <2>p, <3>1, <4>2, StatusesDisjoint DEF CrashAfterSave, NextRows, StepRows
      <4>3. QED
        BY <4>1, <4>2
    <3>2. QED
      BY <2>2, <3>1 DEF Stop, Shutdown, ShutdownDone, Crash, store
  <2>3. CASE Recovery
    <3>1. ASSUME NEW s \in Sessions, MarkInterrupted(s) PROVE db'[t] = db[t]
      BY <2>c, <3>1, Effects DEF MarkInterrupted
    <3>2. QED
      BY <2>3, <3>1 DEF Recovery, Restart, ServiceUp, store
  <2>4. CASE UNCHANGED vars
    BY <2>4 DEF vars
  <2>5. QED
    BY <1>1, <2>1, <2>2, <2>3, <2>4 DEF Next
<1>2. QED
  BY Coherence, <1>1, PTL DEF Spec, TerminalRowFrozen

\* With a host that serves the accesses the code leaves unprotected, a serving
\* process holds the memory and the coroutine of every unfinished session.
THEOREM NothingStranded ==
  ASSUME HostFaults = FALSE
  PROVE  Spec => []NoStrandedSession
PROOF
<1>1. IInv => NoStrandedSession
  <2> SUFFICES ASSUME IInv, proc = "up", NEW s \in Sessions, db[s].status \in Unfinished
               PROVE  /\ db[s].status = "created" => s \in active /\ pc[s] = "idle"
                      /\ db[s].status = "queued" =>
                           /\ s \in active
                           /\ pc[s] \in {"starting", "ready", "waiting", "aborting",
                                         "failing", "rewarding"}
                      /\ db[s].status = "running" => s \in active /\ pc[s] \in TaskStages
    BY StatusesDisjoint DEF NoStrandedSession
  <2>1. pc[s] \in Stages /\ RowOfStage(s) /\ Registered(s) /\ ~Terminal(s)
    BY StatusesDisjoint DEF IInv, Coherent, TypeOK, Terminal
  <2>2. s \in active /\ pc[s] # "none"
    BY <2>1 DEF Registered
  <2>3. QED
    BY <2>1, <2>2 DEF RowOfStage, Registered, Stages, TaskStages, InFinalize, Unfinished
<1>2. QED
  BY Coherence, <1>1, PTL

\* Under the same assumption a run that may call a tool owns its instances, and
\* no instance outlives the registration of its session.
THEOREM InstancesOwned ==
  ASSUME HostFaults = FALSE
  PROVE  Spec => []SandboxOwned
PROOF
<1>1. IInv => SandboxOwned
  BY Members DEF IInv, Coherent, Owned, SandboxOwned, Supported, InFinalize, InLoop
<1>2. QED
  BY Coherence, <1>1, PTL
-----------------------------------------------------------------------------
\* The semaphore.  Its value and its queue, against the stages of the runs.
Inside == {s \in Sessions : pc[s] \in InLoop}
Waiting == {s \in Sessions : pc[s] = "waiting"}
Elements(q) == {q[i] : i \in DOMAIN q}
Distinct(q) == \A i, j \in DOMAIN q : q[i] = q[j] => i = j

\* What PermitsAccounted says, with the one fact that makes it inductive: only
\* finitely many runs are inside, though the sessions may be infinitely many.
PermitInv ==
  /\ IsFiniteSet(Inside) /\ permits + Cardinality(Inside) = MaxConcurrent
  /\ Elements(queue) = Waiting
  /\ Distinct(queue)

\* A waiter that joins the queue is its new element.
LEMMA QueueGrows ==
  ASSUME NEW S, NEW q \in Seq(S), NEW s \in S, Distinct(q), s \notin Elements(q)
  PROVE  Elements(Append(q, s)) = Elements(q) \cup {s} /\ Distinct(Append(q, s))
PROOF
<1> DEFINE n == Len(q)
           r == Append(q, s)
<1>1. /\ n \in Nat /\ DOMAIN q = 1..n /\ DOMAIN r = 1..(n + 1)
      /\ r[n + 1] = s /\ \A i \in 1..n : r[i] = q[i]
  BY AppendProperties, LenProperties
<1>2. 1..(n + 1) = 1..n \cup {n + 1}
  BY <1>1
<1> HIDE DEF n, r
<1>3. Elements(r) = Elements(q) \cup {s}
  BY <1>1, <1>2 DEF Elements
<1>4. Distinct(r)
  BY <1>1, <1>2 DEF Distinct, Elements
<1>5. QED
  BY <1>3, <1>4 DEF r

\* r is q without its i-th element.
Without(r, q, i) ==
  /\ Len(r) = Len(q) - 1
  /\ \A k \in 1..Len(r) : r[k] = IF k < i THEN q[k] ELSE q[k + 1]

\* Removing one place of a queue without duplicates removes one waiter.
LEMMA QueueShrinks ==
  ASSUME NEW S, NEW q \in Seq(S), Distinct(q), NEW i \in DOMAIN q,
         NEW r \in Seq(S), Without(r, q, i)
  PROVE  Elements(r) = Elements(q) \ {q[i]} /\ Distinct(r)
PROOF
<1> USE DEF Without
<1> DEFINE n == Len(q)
<1>1. n \in Nat /\ DOMAIN q = 1..n /\ DOMAIN r = 1..(n - 1) /\ i \in 1..n
  BY LenProperties
<1>2. \A k \in 1..(n - 1) : r[k] = IF k < i THEN q[k] ELSE q[k + 1]
  BY <1>1
<1> HIDE DEF n
<1>3. ASSUME NEW k \in DOMAIN r, NEW l \in DOMAIN r, r[k] = r[l]
      PROVE  k = l
  <2> DEFINE at(m) == IF m < i THEN m ELSE m + 1
  <2>1. /\ at(k) \in DOMAIN q /\ at(l) \in DOMAIN q
        /\ r[k] = q[at(k)] /\ r[l] = q[at(l)]
    BY <1>1, <1>2
  <2>2. at(k) = at(l)
    BY <1>3, <2>1 DEF Distinct
  <2>3. QED
    BY <1>1, <2>2
<1>4. ASSUME NEW k \in DOMAIN r PROVE r[k] \in Elements(q) \ {q[i]}
  BY <1>1, <1>2, <1>4 DEF Distinct, Elements
<1>5. ASSUME NEW k \in DOMAIN q, q[k] # q[i] PROVE q[k] \in Elements(r)
  <2>1. CASE k < i
    BY <1>1, <1>2, <2>1 DEF Elements
  <2>2. CASE k > i
    <3>1. k - 1 \in DOMAIN r /\ r[k - 1] = q[k]
      BY <1>1, <1>2, <2>2
    <3>2. QED
      BY <3>1 DEF Elements
  <2>3. QED
    BY <1>1, <1>5, <2>1, <2>2
<1>6. Elements(r) \subseteq Elements(q) \ {q[i]}
  BY <1>4 DEF Elements
<1>7. Elements(q) \ {q[i]} \subseteq Elements(r)
  BY <1>5 DEF Elements
<1>8. QED
  BY <1>3, <1>6, <1>7 DEF Distinct

\* A waiter that gives up, or that the semaphore lets in, leaves the queue.
LEMMA WaiterLeaves ==
  ASSUME TypeOK, Distinct(queue), NEW s \in Sessions,
         \/ LeaveQueue(s)
         \/ queue # << >> /\ Head(queue) = s /\ queue' = Tail(queue)
  PROVE  Elements(queue') = Elements(queue) \ {s} /\ Distinct(queue')
PROOF
<1>1. queue \in Seq(Sessions) /\ Len(queue) \in Nat /\ DOMAIN queue = 1..Len(queue)
  BY LenProperties DEF TypeOK
<1>2. ASSUME NEW i \in DOMAIN queue, queue[i] = s,
             queue' = SubSeq(queue, 1, i - 1) \o SubSeq(queue, i + 1, Len(queue))
      PROVE  Elements(queue') = Elements(queue) \ {s} /\ Distinct(queue')
  <2> DEFINE left  == SubSeq(queue, 1, i - 1)
             right == SubSeq(queue, i + 1, Len(queue))
  <2>1. /\ left \in Seq(Sessions) /\ Len(left) = i - 1
        /\ \A k \in 1..(i - 1) : left[k] = queue[k]
    BY <1>1, SubSeqProperties
  <2>2. /\ right \in Seq(Sessions) /\ Len(right) = Len(queue) - i
        /\ \A k \in 1..(Len(queue) - i) : right[k] = queue[k + i]
    BY <1>1, SubSeqProperties
  <2> HIDE DEF left, right
  <2>3. /\ left \o right \in Seq(Sessions)
        /\ Len(left \o right) = Len(queue) - 1
        /\ \A k \in 1..(Len(queue) - 1) :
             (left \o right)[k] = IF k <= i - 1 THEN left[k] ELSE right[k - (i - 1)]
    <3>1. /\ left \o right \in Seq(Sessions)
          /\ Len(left \o right) = Len(left) + Len(right)
          /\ \A k \in 1..(Len(left) + Len(right)) :
               (left \o right)[k] = IF k <= Len(left) THEN left[k] ELSE right[k - Len(left)]
      BY <2>1, <2>2, ConcatProperties
    <3>2. Len(left) + Len(right) = Len(queue) - 1
      BY <1>1, <2>1, <2>2
    <3>3. QED
      BY <2>1, <3>1, <3>2
  <2>4. \A k \in 1..(Len(queue) - 1) :
          (left \o right)[k] = IF k < i THEN queue[k] ELSE queue[k + 1]
    <3>1. ASSUME NEW k \in 1..(Len(queue) - 1), k < i
          PROVE  (left \o right)[k] = queue[k]
      BY <1>1, <2>1, <2>3, <3>1
    <3>2. ASSUME NEW k \in 1..(Len(queue) - 1), ~(k < i)
          PROVE  (left \o right)[k] = queue[k + 1]
      <4>1. k - (i - 1) \in 1..(Len(queue) - i) /\ (k - (i - 1)) + i = k + 1
        BY <1>1, <3>2
      <4>2. right[k - (i - 1)] = queue[k + 1]
        BY <2>2, <4>1
      <4>3. QED
        BY <1>1, <2>3, <3>2, <4>2
    <3>3. QED
      BY <3>1, <3>2
  <2>5. queue' = left \o right
    BY <1>2 DEF left, right
  <2>6. Elements(left \o right) = Elements(queue) \ {queue[i]} /\ Distinct(left \o right)
    <3>. PICK rest : rest = left \o right
      OBVIOUS
    <3>1. /\ rest \in Seq(Sessions) /\ Len(rest) = Len(queue) - 1
          /\ \A k \in 1..(Len(queue) - 1) :
               rest[k] = IF k < i THEN queue[k] ELSE queue[k + 1]
      BY <2>3, <2>4
    <3>2. Without(rest, queue, i)
      BY <3>1 DEF Without
    <3>3. queue \in Seq(Sessions) /\ rest \in Seq(Sessions)
      BY <1>1, <3>1
    <3>4. Elements(rest) = Elements(queue) \ {queue[i]} /\ Distinct(rest)
      BY <3>2, <3>3, QueueShrinks, Zenon
    <3>. QED
      BY <3>4
  <2>7. QED
    BY <1>2, <2>5, <2>6
<1>3. ASSUME queue # << >>, Head(queue) = s, queue' = Tail(queue)
      PROVE  Elements(queue') = Elements(queue) \ {s} /\ Distinct(queue')
  <2>1. /\ Tail(queue) \in Seq(Sessions) /\ Len(Tail(queue)) = Len(queue) - 1
        /\ \A k \in 1..Len(Tail(queue)) : Tail(queue)[k] = queue[k + 1]
    BY <1>1, <1>3, HeadTailProperties
  <2>2. 1 \in DOMAIN queue /\ queue[1] = s
    BY <1>1, <1>3, EmptySeq
  <2>3. \A k \in 1..Len(Tail(queue)) :
          Tail(queue)[k] = IF k < 1 THEN queue[k] ELSE queue[k + 1]
    BY <2>1
  <2>4. Elements(Tail(queue)) = Elements(queue) \ {queue[1]} /\ Distinct(Tail(queue))
    <3>1. Without(Tail(queue), queue, 1)
      BY <2>1, <2>3 DEF Without
    <3>2. queue \in Seq(Sessions) /\ Tail(queue) \in Seq(Sessions)
      BY <1>1, <2>1
    <3>. QED
      BY <2>2, <3>1, <3>2, QueueShrinks, Zenon
  <2>5. QED
    BY <1>3, <2>2, <2>4
<1>4. QED
  BY <1>2, <1>3 DEF LeaveQueue

\* A step of a run against the semaphore: it stays outside, stays inside,
\* queues up, is let in, gives up waiting, or leaves.
Apart(stage) == stage \notin InLoop /\ stage # "waiting"

SameSide(s) ==
  \/ Apart(pc[s]) /\ Apart(pc'[s])
  \/ pc[s] \in InLoop /\ pc'[s] \in InLoop
  \/ pc'[s] = pc[s]

SemaphoreMove(s) ==
  \/ SameSide(s) /\ UNCHANGED sem
  \/ Apart(pc[s]) /\ pc'[s] = "waiting" /\ queue' = Append(queue, s) /\ UNCHANGED permits
  \/ /\ pc[s] = "waiting" /\ pc'[s] = "entered"
     /\ FirstInQueue(s) /\ permits' = permits - 1
  \/ /\ pc[s] = "waiting" /\ Apart(pc'[s])
     /\ (FirstInQueue(s) \/ LeaveQueue(s))
     /\ UNCHANGED permits
  \/ pc[s] \in InLoop /\ Apart(pc'[s]) /\ Release

\* Every action of a session is one of these.
LEMMA OwnSemaphoreMove ==
  ASSUME IInv, NEW s \in Sessions, Client(s) \/ Handler(s) \/ Task(s)
  PROVE  SemaphoreMove(s)
PROOF
<1>c. TypeOK /\ Registered(s)
  BY DEF IInv, Coherent
<1> USE <1>c, Effects DEF Resumes, InLoop, Apart, SameSide, SemaphoreMove, sem
<1>1. CASE CreateSession(s)
  BY <1>1 DEF CreateSession
<1>2. CASE CreateFails(s)
  BY <1>2 DEF CreateFails
<1>3. CASE CreateLeaks(s)
  BY <1>3 DEF CreateLeaks
<1>4. CASE SessionCreated(s)
  BY <1>4 DEF SessionCreated
<1>5. CASE StartRun(s)
  BY <1>5 DEF StartRun, Registered
<1>6. CASE SpawnTask(s)
  BY <1>6 DEF SpawnTask
<1>7. CASE Cancel(s)
  BY <1>7 DEF Cancel
<1>8. CASE TaskStarts(s)
  BY <1>8 DEF TaskStarts
<1>9. CASE SemaphoreAcquired(s)
  BY <1>9 DEF SemaphoreAcquired, FirstInQueue
<1>10. CASE CancelledInQueue(s)
  BY <1>10 DEF CancelledInQueue, FirstInQueue
<1>11. CASE TurnBegins(s)
  BY <1>11 DEF TurnBegins, AtLoopHead
<1>12. CASE CancelledAtTurn(s)
  BY <1>12 DEF CancelledAtTurn, AtLoopHead
<1>13. CASE ModelReplies(s)
  BY <1>13 DEF ModelReplies
<1>14. CASE RunAborted(s) \/ RunFails(s)
  <2>1. PICK row \in Rows, why \in {"cancelled_by_client", "internal_error"} :
          RaiseOutcome(s, row, why)
    BY <1>14, Raised
  <2>2. pc'[s] \in {"failing", "rewarding"}
    BY <2>1 DEF RaiseOutcome
  <2>3. QED
    BY <2>1, <2>2 DEF RaiseOutcome, Raising
<1>15. CASE CreateFailsLate(s) \/ StartRunFails(s) \/ CancelFails(s)
  BY <1>15 DEF CreateFailsLate, StartRunFails, CancelFails
<1>16. CASE TokensExhausted(s)
  BY <1>16 DEF TokensExhausted
<1>17. CASE MissingCall(s)
  BY <1>17 DEF MissingCall
<1>18. CASE ToolCalled(s)
  BY <1>18 DEF ToolCalled
<1>19. CASE ToolReturns(s)
  BY <1>19 DEF ToolReturns
<1>20. CASE ToolBudgetExhausted(s)
  BY <1>20 DEF ToolBudgetExhausted
<1>21. CASE TurnsExhausted(s)
  BY <1>21 DEF TurnsExhausted
<1>22. CASE Submitted(s)
  BY <1>22 DEF Submitted
<1>23. CASE LoopReturns(s)
  BY <1>23 DEF LoopReturns
<1>24. CASE TimesOut(s)
  BY <1>24 DEF TimesOut
<1>25. CASE HandlerDone(s)
  BY <1>25 DEF HandlerDone
<1>26. CASE FinalizeSaves(s)
  BY <1>26 DEF FinalizeSaves
<1>27. CASE FinalizeRaises(s)
  BY <1>27 DEF FinalizeRaises
<1>28. CASE FinalStatus(s)
  BY <1>28 DEF FinalStatus
<1>29. CASE SandboxReleased(s)
  BY <1>29 DEF SandboxReleased
<1>30. CASE SessionPopped(s)
  BY <1>30 DEF SessionPopped
<1>31. CASE KilledUnstarted(s)
  BY <1>31 DEF KilledUnstarted, Dies
<1>32. CASE KilledInQueue(s)
  BY <1>32 DEF KilledInQueue, Dies
<1>33. CASE KilledInLoop(s)
  BY <1>33 DEF KilledInLoop, Dies
<1>34. CASE KilledInHandler(s)
  BY <1>34 DEF KilledInHandler, Dies
<1>35. CASE KilledInFinalize(s)
  BY <1>35 DEF KilledInFinalize, Dies
<1>36. QED
  BY <1>1, <1>2, <1>3, <1>4, <1>5, <1>6, <1>7, <1>8, <1>9, <1>10, <1>11, <1>12, <1>13,
     <1>14, <1>15, <1>16, <1>17, <1>18, <1>19, <1>20, <1>21, <1>22, <1>23, <1>24, <1>25,
     <1>26, <1>27, <1>28, <1>29, <1>30, <1>31, <1>32, <1>33, <1>34, <1>35
     DEF Client, Handler, Task, Loop, Finalize, Killed

\* Permits, queue and stages stay accounted for through every step.
LEMMA PermitStep == IInv /\ PermitInv /\ [Next]_vars => PermitInv'
PROOF
<1> SUFFICES ASSUME IInv, PermitInv, [Next]_vars PROVE PermitInv'
  OBVIOUS
<1>c. TypeOK /\ Cardinality(Inside) \in Nat /\ MaxConcurrent \in Nat /\ permits \in Nat
  BY FS_CardinalityType, BudgetAssumption DEF IInv, PermitInv, TypeOK
<1>1. ASSUME NEW s \in Sessions, SemaphoreMove(s),
             \A t \in Sessions : t # s => pc'[t] = pc[t]
      PROVE  PermitInv'
  <2>1. CASE SameSide(s) /\ UNCHANGED sem
    <3>1. Inside' = Inside /\ Waiting' = Waiting
      BY <1>1, <2>1 DEF SameSide, Inside, Waiting, Apart, InLoop
    <3>2. QED
      BY <2>1, <3>1 DEF sem, PermitInv
  <2>2. CASE Apart(pc[s]) /\ pc'[s] = "waiting" /\ queue' = Append(queue, s) /\ UNCHANGED permits
    <3>1. Inside' = Inside /\ Waiting' = Waiting \cup {s} /\ s \notin Waiting
      BY <1>1, <2>2 DEF Inside, Waiting, Apart, InLoop
    <3>2. Elements(queue') = Elements(queue) \cup {s} /\ Distinct(queue')
      BY <1>c, <2>2, <3>1, QueueGrows DEF PermitInv, TypeOK
    <3>3. QED
      BY <2>2, <3>1, <3>2 DEF PermitInv
  <2>3. CASE /\ pc[s] = "waiting" /\ pc'[s] = "entered"
             /\ FirstInQueue(s) /\ permits' = permits - 1
    <3>1. Inside' = Inside \cup {s} /\ s \notin Inside /\ Waiting' = Waiting \ {s}
      BY <1>1, <2>3 DEF Inside, Waiting, InLoop
    <3>2. IsFiniteSet(Inside') /\ Cardinality(Inside') = Cardinality(Inside) + 1
      BY <3>1, FS_AddElement DEF PermitInv
    <3>3. Elements(queue') = Elements(queue) \ {s} /\ Distinct(queue')
      BY <1>c, <2>3, WaiterLeaves DEF FirstInQueue, PermitInv
    <3>4. QED
      BY <1>c, <2>3, <3>1, <3>2, <3>3 DEF PermitInv
  <2>4. CASE /\ pc[s] = "waiting" /\ Apart(pc'[s])
             /\ (FirstInQueue(s) \/ LeaveQueue(s))
             /\ UNCHANGED permits
    <3>1. Inside' = Inside /\ Waiting' = Waiting \ {s}
      BY <1>1, <2>4 DEF Inside, Waiting, Apart, InLoop
    <3>2. Elements(queue') = Elements(queue) \ {s} /\ Distinct(queue')
      BY <1>c, <2>4, WaiterLeaves DEF FirstInQueue, PermitInv
    <3>3. QED
      BY <2>4, <3>1, <3>2 DEF PermitInv
  <2>5. CASE pc[s] \in InLoop /\ Apart(pc'[s]) /\ Release
    <3>1. Inside' = Inside \ {s} /\ s \in Inside /\ Waiting' = Waiting
      BY <1>1, <2>5 DEF Inside, Waiting, Apart, InLoop
    <3>2. IsFiniteSet(Inside') /\ Cardinality(Inside') = Cardinality(Inside) - 1
      BY <3>1, FS_RemoveElement DEF PermitInv
    <3>3. QED
      BY <1>c, <2>5, <3>1, <3>2 DEF Release, PermitInv
  <2>6. QED
    BY <1>1, <2>1, <2>2, <2>3, <2>4, <2>5 DEF SemaphoreMove
<1>2. ASSUME NEW s \in Sessions, Client(s) \/ Handler(s) \/ Task(s)
      PROVE  PermitInv'
  BY <1>c, <1>1, <1>2, OwnSemaphoreMove, StepIsLocal
<1>3. ASSUME MemoryLost
      PROVE  PermitInv'
  <2>1. Inside' = {} /\ Waiting' = {}
    BY <1>3 DEF MemoryLost, Inside, Waiting, InLoop
  <2>2. Elements(queue') = {} /\ Distinct(queue')
    BY <1>3 DEF MemoryLost, Elements, Distinct
  <2>3. QED
    BY <1>c, <1>3, <2>1, <2>2, FS_EmptySet DEF MemoryLost, PermitInv
<1>4. ASSUME UNCHANGED <<pc, sem>>
      PROVE  PermitInv'
  BY <1>4 DEF PermitInv, Inside, Waiting, Elements, Distinct, sem
<1>5. CASE Stop
  BY <1>3, <1>4, <1>5 DEF Stop, Shutdown, ShutdownDone, Crash, CrashAfterSave, sem
<1>6. CASE Recovery \/ UNCHANGED vars
  BY <1>4, <1>6 DEF Recovery, Restart, ServiceUp, MarkInterrupted, vars, sem
<1>7. QED
  BY <1>2, <1>5, <1>6 DEF Next

\* However many runs are cancelled, time out, fail or are shut down, and wherever:
\* no permit of the semaphore is lost or handed back twice, and its queue holds
\* exactly the waiting runs.
THEOREM PermitsConserved == Spec => []PermitsAccounted
PROOF
<1>1. Init => PermitInv
  <2> SUFFICES ASSUME Init PROVE PermitInv
    OBVIOUS
  <2>1. Inside = {} /\ Waiting = {}
    BY DEF Init, Inside, Waiting, InLoop
  <2>2. Elements(queue) = {} /\ Distinct(queue)
    BY DEF Init, Elements, Distinct
  <2>3. QED
    BY <2>1, <2>2, FS_EmptySet, BudgetAssumption DEF Init, PermitInv
<1>2. PermitInv => PermitsAccounted
  BY DEF PermitInv, PermitsAccounted, Inside, Waiting, Elements, Distinct
<1>3. QED
  BY Coherence, <1>1, <1>2, PermitStep, PTL DEF Spec

-----------------------------------------------------------------------------
\* The inductive invariant: what the row and the stage of a session say of
\* the events it has logged.

\* No session logs an event without a row; its session event can only be the
\* first, and is there once it is registered, unless the host failed that write.
LogOpening(s) ==
  /\ db[s].status = "absent" => log[s] = << >>
  /\ Logged(s, "session") \subseteq {1}
  /\ ~HostFaults /\ (s \in active \/ log[s] # << >>) => 1 \in Logged(s, "session")

\* queued and running follow the status of the row.
LogStarting(s) ==
  /\ db[s].status \in {"absent", "created"} => Logged(s, "queued") = {}
  /\ db[s].status \in {"absent", "created", "queued"} => Logged(s, "running") = {}
  /\ pc[s] \in {"starting"} \cup TaskStages => Logged(s, "queued") # {}
  /\ \A i \in Logged(s, "running") : \E j \in Logged(s, "queued") : j < i
  /\ Cardinality(Logged(s, "queued")) <= 1
  /\ Cardinality(Logged(s, "running")) <= 1

\* The reward and the verdict come last, and only once the row has ended.
LogEnding(s) ==
  /\ ~Terminal(s) => Logged(s, "reward") = {} /\ FinalEvents(s) = {}
  /\ pc[s] = "rewarded" =>
       Logged(s, "reward") = {Len(log[s])} /\ FinalEvents(s) = {}
  /\ Cardinality(Logged(s, "reward")) <= 1
  /\ \A i \in Logged(s, "reward") : i >= Len(log[s]) - 1
  /\ \A i \in FinalEvents(s) : i = Len(log[s]) /\ log[s][i - 1] = "reward"

\* The reason a run ends with: _finalize is never called for a restart, and a
\* run that never got in ends by a cancellation, a timeout or an error.
EndingReason(s) ==
  /\ run[s].why # "service_restart"
  /\ pc[s] = "rewarding" /\ db[s].status = "queued" =>
       run[s].why \in {"cancelled_by_client", "timeout", "internal_error"}
  /\ pc[s] = "rewarded" =>
       db[s].status = StatusOf[run[s].why] /\ db[s].why = run[s].why

VerdictStored(s) == \A i \in FinalEvents(s) :
  log[s][i] = db[s].status /\ db[s].why # "service_restart"

\* The coroutine's copy of the row has the stored counters wherever the code
\* may still save it.
CopyCounts(s) ==
  pc[s] \in {"waiting", "rewarding"} \cup (InLoop \ {"entered"}) =>
    run[s].copy.calls = db[s].calls /\ run[s].copy.tools = db[s].tools

\* Stages in which the last thing a run counted may have gone unlogged.
Ended == {"none", "failing"} \cup InFinalize

Counted(s) ==
  /\ db[s].calls = Cardinality(Logged(s, "model"))
  /\ db[s].tools = Cardinality(Logged(s, "tool"))

UsageCounted(s) ==
  /\ pc[s] \notin Ended \/ db[s].status = "absent" => Counted(s)
  /\ pc[s] = "rewarding" =>
       Counted(s) \/ run[s].why \in {"internal_error", "cancelled_by_client"}
  /\ UsageMatchesLog(s)

LogCoherent(s) ==
  /\ LogOpening(s) /\ LogStarting(s) /\ LogEnding(s)
  /\ EndingReason(s) /\ VerdictStored(s) /\ CopyCounts(s) /\ UsageCounted(s)

LogInv == \A s \in Sessions : LogCoherent(s)

-----------------------------------------------------------------------------
\* Lemmas about the log.

\* The positions at which a type is logged are positions of the log, finitely
\* many; none are in an empty log.
LEMMA LoggedPositions ==
  ASSUME TypeOK, NEW s \in Sessions
  PROVE  /\ Len(log[s]) \in Nat /\ DOMAIN log[s] = 1..Len(log[s])
         /\ log[s] = << >> <=> Len(log[s]) = 0
         /\ FinalEvents(s) \subseteq 1..Len(log[s])
         /\ \A type : Logged(s, type) \subseteq 1..Len(log[s])
         /\ \A type : IsFiniteSet(Logged(s, type)) /\ Cardinality(Logged(s, type)) \in Nat
         /\ log[s] = << >> => \A type : Logged(s, type) = {}
PROOF
<1>1. log[s] \in Seq(EventTypes)
  BY DEF TypeOK
<1>2. Len(log[s]) \in Nat /\ DOMAIN log[s] = 1..Len(log[s])
  BY <1>1, LenProperties
<1>3. log[s] = << >> <=> Len(log[s]) = 0
  BY <1>1, EmptySeq
<1>4. FinalEvents(s) \subseteq 1..Len(log[s])
  BY <1>2 DEF FinalEvents
<1>5. \A type : Logged(s, type) \subseteq 1..Len(log[s])
  BY <1>2 DEF Logged
<1>6. ASSUME NEW type
      PROVE  IsFiniteSet(Logged(s, type)) /\ Cardinality(Logged(s, type)) \in Nat
  <2>1. IsFiniteSet(1..Len(log[s]))
    BY <1>2, FS_Interval
  <2>2. IsFiniteSet(Logged(s, type))
    BY <1>5, <2>1, FS_Subset
  <2>3. QED
    BY <2>2, FS_CardinalityType
<1>7. log[s] = << >> => \A type : Logged(s, type) = {}
  BY <1>2, <1>3, <1>5
<1>8. QED
  BY <1>2, <1>3, <1>4, <1>5, <1>6, <1>7

\* An event joins the positions of its type at the end of the log.
LEMMA EmitEffects ==
  ASSUME TypeOK, NEW s \in Sessions
  PROVE  \A type \in EventTypes : Emit(s, type) =>
           /\ Len(log'[s]) = Len(log[s]) + 1
           /\ log'[s] # << >>
           /\ log'[s][Len(log[s]) + 1] = type
           /\ \A i \in 1..Len(log[s]) : log'[s][i] = log[s][i]
           /\ Logged(s, type)' = Logged(s, type) \cup {Len(log[s]) + 1}
           /\ \A other : other # type => Logged(s, other)' = Logged(s, other)
           /\ type \in TERMINAL_STATUSES =>
                FinalEvents(s)' = FinalEvents(s) \cup {Len(log[s]) + 1}
           /\ type \notin TERMINAL_STATUSES => FinalEvents(s)' = FinalEvents(s)
PROOF
<1> SUFFICES ASSUME NEW type \in EventTypes, Emit(s, type)
             PROVE  /\ Len(log'[s]) = Len(log[s]) + 1
                    /\ log'[s] # << >>
                    /\ log'[s][Len(log[s]) + 1] = type
                    /\ \A i \in 1..Len(log[s]) : log'[s][i] = log[s][i]
                    /\ Logged(s, type)' = Logged(s, type) \cup {Len(log[s]) + 1}
                    /\ \A other : other # type => Logged(s, other)' = Logged(s, other)
                    /\ type \in TERMINAL_STATUSES =>
                         FinalEvents(s)' = FinalEvents(s) \cup {Len(log[s]) + 1}
                    /\ type \notin TERMINAL_STATUSES => FinalEvents(s)' = FinalEvents(s)
  OBVIOUS
<1> DEFINE n == Len(log[s])
<1>1. log[s] \in Seq(EventTypes) /\ log'[s] = Append(log[s], type)
  BY DEF TypeOK, Emit
<1>2. n \in Nat /\ DOMAIN log[s] = 1..n
  BY LoggedPositions
<1>3. /\ Len(log'[s]) = n + 1 /\ log'[s] # << >> /\ log'[s] \in Seq(EventTypes)
      /\ log'[s][n + 1] = type
      /\ \A i \in 1..n : log'[s][i] = log[s][i]
  BY <1>1, AppendProperties
<1>4. DOMAIN log'[s] = 1..(n + 1)
  BY <1>3, LenProperties
<1>5. 1..(n + 1) = 1..n \cup {n + 1}
  BY <1>2
<1>6. \A other : Logged(s, other)' =
        Logged(s, other) \cup (IF other = type THEN {n + 1} ELSE {})
  <2>1. SUFFICES ASSUME NEW other
                 PROVE  Logged(s, other)' =
                          Logged(s, other) \cup (IF other = type THEN {n + 1} ELSE {})
    OBVIOUS
  <2>2. Logged(s, other)' = {i \in 1..(n + 1) : log'[s][i] = other}
    BY <1>4 DEF Logged
  <2>3. Logged(s, other) = {i \in 1..n : log[s][i] = other}
    BY <1>2 DEF Logged
  <2> HIDE DEF n
  <2>4. QED
    BY <2>2, <2>3, <1>3, <1>5, Zenon
<1>7. FinalEvents(s)' = FinalEvents(s) \cup (IF type \in TERMINAL_STATUSES THEN {n + 1} ELSE {})
  <2>1. FinalEvents(s)' = {i \in 1..(n + 1) : log'[s][i] \in TERMINAL_STATUSES}
    BY <1>4 DEF FinalEvents
  <2>2. FinalEvents(s) = {i \in 1..n : log[s][i] \in TERMINAL_STATUSES}
    BY <1>2 DEF FinalEvents
  <2> HIDE DEF n
  <2>3. QED
    BY <2>1, <2>2, <1>3, <1>5, Zenon
<1>8. /\ Logged(s, type)' = Logged(s, type) \cup {n + 1}
      /\ \A other : other # type => Logged(s, other)' = Logged(s, other)
  BY <1>6
<1>9. /\ type \in TERMINAL_STATUSES => FinalEvents(s)' = FinalEvents(s) \cup {n + 1}
      /\ type \notin TERMINAL_STATUSES => FinalEvents(s)' = FinalEvents(s)
  BY <1>7
<1>10. QED
  BY <1>3, <1>8, <1>9, Zenon

\* A new event is counted once, with its own type.
LEMMA EmitCounts ==
  ASSUME TypeOK, NEW s \in Sessions
  PROVE  \A type \in EventTypes : Emit(s, type) =>
           \A other : Cardinality(Logged(s, other)') =
             IF other = type THEN Cardinality(Logged(s, other)) + 1
                             ELSE Cardinality(Logged(s, other))
PROOF
<1> SUFFICES ASSUME NEW type \in EventTypes, Emit(s, type), NEW other
             PROVE  Cardinality(Logged(s, other)') =
                      IF other = type THEN Cardinality(Logged(s, other)) + 1
                                      ELSE Cardinality(Logged(s, other))
  OBVIOUS
<1>1. Len(log[s]) + 1 \notin Logged(s, other) /\ IsFiniteSet(Logged(s, other))
  BY LoggedPositions
<1>2. Cardinality(Logged(s, other) \cup {Len(log[s]) + 1}) = Cardinality(Logged(s, other)) + 1
  BY <1>1, FS_AddElement
<1>3. CASE other = type
  BY <1>2, <1>3, EmitEffects
<1>4. CASE other # type
  BY <1>4, EmitEffects
<1>5. QED
  BY <1>3, <1>4

\* A log that is left alone keeps its positions.
LEMMA SilentEffects ==
  ASSUME NEW s \in Sessions, log'[s] = log[s]
  PROVE  /\ \A type : Logged(s, type)' = Logged(s, type)
         /\ FinalEvents(s)' = FinalEvents(s)
BY DEF Logged, FinalEvents
\* The counters of the rows that the code computes, and the verdict of the last.
LEMMA RowCounters ==
  ASSUME TypeOK, NEW s \in Sessions
  PROVE  /\ CreatedRow.calls = 0 /\ CreatedRow.tools = 0
         /\ QueuedRow(s).calls = db[s].calls /\ QueuedRow(s).tools = db[s].tools
         /\ CancelRow(s).calls = db[s].calls /\ CancelRow(s).tools = db[s].tools
         /\ RunningRow(s).calls = run[s].copy.calls
         /\ RunningRow(s).tools = run[s].copy.tools
         /\ RepliedRow(s).calls = run[s].copy.calls + 1
         /\ RepliedRow(s).tools = run[s].copy.tools
         /\ \A submitted \in BOOLEAN :
              /\ ToolRow(s, submitted).calls = run[s].copy.calls
              /\ ToolRow(s, submitted).tools = run[s].copy.tools + 1
         /\ FinalRow(s).calls = run[s].copy.calls /\ FinalRow(s).tools = run[s].copy.tools
         /\ FinalRow(s).status = StatusOf[run[s].why] /\ FinalRow(s).why = run[s].why
PROOF
<1>1. db[s] \in Rows /\ run[s].copy \in Rows
  BY DEF TypeOK, Frames
<1>2. CreatedRow.calls = 0 /\ CreatedRow.tools = 0
  BY DEF CreatedRow, NoRow
<1>3. /\ QueuedRow(s).calls = db[s].calls /\ QueuedRow(s).tools = db[s].tools
      /\ CancelRow(s).calls = db[s].calls /\ CancelRow(s).tools = db[s].tools
  BY <1>1 DEF QueuedRow, CancelRow, Rows
<1>4. /\ RunningRow(s).calls = run[s].copy.calls
      /\ RunningRow(s).tools = run[s].copy.tools
      /\ RepliedRow(s).calls = run[s].copy.calls + 1
      /\ RepliedRow(s).tools = run[s].copy.tools
  BY <1>1 DEF RunningRow, RepliedRow, Rows
<1>5. \A submitted \in BOOLEAN :
        /\ ToolRow(s, submitted).calls = run[s].copy.calls
        /\ ToolRow(s, submitted).tools = run[s].copy.tools + 1
  BY <1>1 DEF ToolRow, Rows
<1>6. /\ FinalRow(s).calls = run[s].copy.calls /\ FinalRow(s).tools = run[s].copy.tools
      /\ FinalRow(s).status = StatusOf[run[s].why] /\ FinalRow(s).why = run[s].why
  BY <1>1 DEF FinalRow, Rows
<1>7. QED
  BY <1>2, <1>3, <1>4, <1>5, <1>6

\* What entering _finalize leaves in the locals of the run.
LEMMA FinalizeEffects ==
  ASSUME TypeOK, NEW s \in Sessions
  PROVE  /\ \A row, why : EnterFinalize(s, row, why) =>
              pc'[s] = "rewarding" /\ run'[s].copy = row /\ run'[s].why = why
         /\ \A why : ToFinalize(s, why) =>
              pc'[s] = "rewarding" /\ run'[s].copy = db[s] /\ run'[s].why = why
PROOF
<1>1. \A row, why : EnterFinalize(s, row, why) =>
        pc'[s] = "rewarding" /\ run'[s].copy = row /\ run'[s].why = why
  BY DEF TypeOK, EnterFinalize, Goto, Frames
<1>2. QED
  BY <1>1 DEF ToFinalize

\* The locals of a run keep a reason that its ending allows and, where the code
\* may still save them, the counters of the stored row.
LEMMA FrameStep ==
  ASSUME IInv, NEW s \in Sessions, EndingReason(s), CopyCounts(s),
         Client(s) \/ Handler(s) \/ Task(s)
  PROVE  EndingReason(s)' /\ CopyCounts(s)'
PROOF
<1>c. TypeOK /\ RowOfStage(s) /\ run[s] \in Frames
  BY DEF IInv, Coherent, TypeOK
<1> USE <1>c, Effects, FinalizeEffects, RowCounters, RowStatuses, StatusesDisjoint
    DEF Resumes, store, RowOfStage, EndingReason, CopyCounts, Terminal, InLoop
<1>1. CASE CreateSession(s)
  BY <1>1 DEF CreateSession
<1>2. CASE CreateFails(s)
  BY <1>2 DEF CreateFails
<1>3. CASE CreateLeaks(s)
  BY <1>3 DEF CreateLeaks
<1>4. CASE SessionCreated(s)
  BY <1>4 DEF SessionCreated
<1>5. CASE StartRun(s)
  BY <1>5 DEF StartRun
<1>6. CASE SpawnTask(s)
  BY <1>6 DEF SpawnTask
<1>7. CASE Cancel(s)
  BY <1>7 DEF Cancel
<1>8. CASE TaskStarts(s)
  BY <1>8 DEF TaskStarts, TypeOK, Frames
<1>9. CASE SemaphoreAcquired(s)
  BY <1>9 DEF SemaphoreAcquired, FirstInQueue
<1>10. CASE CancelledInQueue(s)
  BY <1>10 DEF CancelledInQueue, FirstInQueue
<1>11. CASE TurnBegins(s)
  BY <1>11 DEF TurnBegins, AtLoopHead, TypeOK, Frames
<1>12. CASE CancelledAtTurn(s)
  BY <1>12 DEF CancelledAtTurn, AtLoopHead
<1>13. CASE ModelReplies(s)
  BY <1>13 DEF ModelReplies, TypeOK, Frames
<1>14. CASE RunAborted(s) \/ RunFails(s)
  <2>1. PICK row \in Rows, why \in {"cancelled_by_client", "internal_error"} :
          RaiseOutcome(s, row, why)
    BY <1>14, Raised
  <2>2. db'[s] = row
    BY <2>1 DEF RaiseOutcome
  <2>3. CASE pc'[s] = "failing" /\ run' = run
    BY <2>3
  <2>4. CASE pc'[s] = "rewarding" /\ run'[s].copy = row /\ run'[s].why = why
    BY <2>2, <2>4
  <2>5. QED
    BY <2>1, <2>3, <2>4 DEF RaiseOutcome
<1>15. CASE CreateFailsLate(s) \/ StartRunFails(s) \/ CancelFails(s)
  BY <1>15 DEF CreateFailsLate, StartRunFails, CancelFails
<1>16. CASE TokensExhausted(s)
  BY <1>16 DEF TokensExhausted, TypeOK, Frames
<1>17. CASE MissingCall(s)
  BY <1>17 DEF MissingCall
<1>18. CASE ToolCalled(s)
  BY <1>18 DEF ToolCalled
<1>19. CASE ToolReturns(s)
  BY <1>19 DEF ToolReturns, TypeOK, Frames
<1>20. CASE ToolBudgetExhausted(s)
  BY <1>20 DEF ToolBudgetExhausted, TypeOK, Frames
<1>21. CASE TurnsExhausted(s)
  BY <1>21 DEF TurnsExhausted, TypeOK, Frames
<1>22. CASE Submitted(s)
  BY <1>22 DEF Submitted
<1>23. CASE LoopReturns(s)
  BY <1>23 DEF LoopReturns
<1>24. CASE TimesOut(s)
  BY <1>24 DEF TimesOut
<1>25. CASE HandlerDone(s)
  BY <1>25 DEF HandlerDone
<1>26. CASE FinalizeSaves(s)
  BY <1>26 DEF FinalizeSaves
<1>27. CASE FinalizeRaises(s)
  BY <1>27 DEF FinalizeRaises
<1>28. CASE FinalStatus(s)
  BY <1>28 DEF FinalStatus
<1>29. CASE SandboxReleased(s)
  BY <1>29 DEF SandboxReleased
<1>30. CASE SessionPopped(s)
  BY <1>30 DEF SessionPopped, TypeOK, NoFrame
<1>31. CASE KilledUnstarted(s)
  BY <1>31 DEF KilledUnstarted, Dies
<1>32. CASE KilledInQueue(s)
  BY <1>32 DEF KilledInQueue, Dies
<1>33. CASE KilledInLoop(s)
  BY <1>33 DEF KilledInLoop, Dies
<1>34. CASE KilledInHandler(s)
  BY <1>34 DEF KilledInHandler, Dies
<1>35. CASE KilledInFinalize(s)
  BY <1>35 DEF KilledInFinalize, Dies
<1>36. QED
  BY <1>1, <1>2, <1>3, <1>4, <1>5, <1>6, <1>7, <1>8, <1>9, <1>10, <1>11, <1>12, <1>13,
     <1>14, <1>15, <1>16, <1>17, <1>18, <1>19, <1>20, <1>21, <1>22, <1>23, <1>24, <1>25,
     <1>26, <1>27, <1>28, <1>29, <1>30, <1>31, <1>32, <1>33, <1>34, <1>35
     DEF Client, Handler, Task, Loop, Finalize, Killed

-----------------------------------------------------------------------------
\* Every step, seen from one session: what it does to the row and the log.

\* The row and the log stay; the coroutine may move, end or be lost.
Quiet(s) ==
  /\ db'[s] = db[s] /\ log'[s] = log[s]
  /\ s \in active' => s \in active
  /\ pc'[s] \in {"starting"} \cup TaskStages => pc[s] \in {"starting"} \cup TaskStages
  /\ pc'[s] = "rewarded" => pc[s] = "rewarded"
  /\ pc'[s] \notin Ended => pc[s] \notin Ended \/ db[s].status = "absent"
  /\ pc'[s] = "rewarding" => \/ pc[s] \notin Ended
                             \/ pc[s] = "rewarding" /\ run'[s] = run[s]
                             \/ pc[s] = "failing" /\ run'[s].why = "internal_error"

\* The row is saved and one event logged.
Writes(s, from, to, row, type) ==
  /\ pc[s] \in from /\ pc'[s] \in to
  /\ db'[s] = row /\ Emit(s, type)

Opens(s) == s \notin active /\ Writes(s, {"creating"}, {"idle"}, CreatedRow, "session")

\* What a session writes while it is registered.
WritesRegistered(s) ==
  \/ db[s].status = "created" /\ Writes(s, {"idle"}, {"starting"}, QueuedRow(s), "queued")
  \/ /\ s \in active /\ db[s].status \in Unfinished
     /\ Writes(s, {pc[s]}, {pc[s]}, CancelRow(s), "cancelled_request")
     /\ run'[s] = run[s]
  \/ Writes(s, {"waiting"}, {"entered"}, RunningRow(s), "running")
  \/ Writes(s, {"generating"}, {"modelled"}, RepliedRow(s), "model")
  \/ \E submitted \in BOOLEAN :
       Writes(s, {"executing"}, {"observed"}, ToolRow(s, submitted), "tool")
  \/ \E type \in {"error", "budget"} :
       Writes(s, InLoop, {"observed", "exiting"}, db[s], type)
  \/ \E row \in {db[s]} \cup StepRows(s) : Writes(s, Raising, {"failing"}, row, "error")
  \/ Writes(s, {"rewarding"}, {"rewarded"}, FinalRow(s), "reward")
  \/ Writes(s, {"rewarded"}, {"closing"}, db[s], StatusOf[run[s].why])

\* The row is saved, the event that follows is not: the repository raised, in
\* the run, in _finalize or in a request, or the process died.
Unlogged(s) ==
  /\ log'[s] = log[s] /\ db'[s] \in NextRows(s)
  /\ \/ pc[s] = "rewarding" /\ pc'[s] = "closing" /\ s \in active' /\ s \in active
     \/ /\ pc[s] \in Raising /\ pc'[s] = "rewarding" /\ s \in active' /\ s \in active
        /\ run'[s].why \in {"internal_error", "cancelled_by_client"}
     \/ pc'[s] = "none" /\ s \notin active'
     \/ HostFaults /\ pc[s] = "creating" /\ pc'[s] = "idle" /\ s \in active'
     \/ /\ pc'[s] = pc[s] /\ run'[s] = run[s] /\ s \in active' /\ s \in active
        /\ db'[s] \in {CancelRow(s), QueuedRow(s)}

Interrupted(s) ==
  /\ log'[s] = log[s] /\ pc'[s] = pc[s] /\ pc[s] = "none" /\ s \notin active /\ s \notin active'
  /\ db[s].status \in Unfinished
  /\ db'[s] = [db[s] EXCEPT !.status = "failed", !.why = "service_restart"]

Seen(s) ==
  \/ Quiet(s)
  \/ Opens(s) /\ s \in active'
  \/ WritesRegistered(s) /\ s \in active'
  \/ Unlogged(s)
  \/ Interrupted(s)

\* A step of a session's client, handler or task, seen from that session.
LEMMA OwnStepSeen ==
  ASSUME IInv, NEW s \in Sessions, Client(s) \/ Handler(s) \/ Task(s)
  PROVE  Seen(s)
PROOF
<1>c. TypeOK /\ RowOfStage(s) /\ Registered(s)
  BY DEF IInv, Coherent
<1> USE <1>c, Effects, FinalizeEffects, StatusesDisjoint
    DEF Resumes, store, RowOfStage, Registered, Terminal, InLoop, InFinalize, TaskStages,
        Seen, Quiet, Ended
<1>1. CASE CreateSession(s)
  BY <1>1 DEF CreateSession
<1>2. CASE CreateFails(s)
  BY <1>2 DEF CreateFails
<1>3. CASE CreateLeaks(s)
  BY <1>3 DEF CreateLeaks
<1>4. CASE SessionCreated(s)
  BY <1>4 DEF SessionCreated, Opens, Writes
<1>5. CASE StartRun(s)
  BY <1>5 DEF StartRun, WritesRegistered, Writes
<1>6. CASE SpawnTask(s)
  BY <1>6 DEF SpawnTask
<1>7. CASE Cancel(s)
  BY <1>7 DEF Cancel, WritesRegistered, Writes
<1>8. CASE TaskStarts(s)
  BY <1>8 DEF TaskStarts
<1>9. CASE SemaphoreAcquired(s)
  BY <1>9 DEF SemaphoreAcquired, FirstInQueue, WritesRegistered, Writes
<1>10. CASE CancelledInQueue(s)
  BY <1>10 DEF CancelledInQueue, FirstInQueue
<1>11. CASE TurnBegins(s)
  BY <1>11 DEF TurnBegins, AtLoopHead
<1>12. CASE CancelledAtTurn(s)
  BY <1>12 DEF CancelledAtTurn, AtLoopHead
<1>13. CASE ModelReplies(s)
  BY <1>13 DEF ModelReplies, WritesRegistered, Writes
<1>14. CASE RunAborted(s) \/ RunFails(s)
  <2>1. PICK row \in Rows, why \in {"cancelled_by_client", "internal_error"} :
          RaiseOutcome(s, row, why)
    BY <1>14, Raised
  <2>2. db'[s] = row /\ row \in {db[s]} \cup StepRows(s) /\ pc[s] \in Raising
    BY <2>1 DEF RaiseOutcome
  <2>3. s \in active /\ s \in active' /\ pc[s] \in TaskStages /\ pc[s] \notin Ended
    BY <2>1, <2>2 DEF RaiseOutcome, Raising, Ended
  <2>4. CASE Goto(s, "failing") /\ Emit(s, "error")
    <3>1. Writes(s, Raising, {"failing"}, row, "error")
      BY <2>2, <2>4 DEF Writes
    <3>2. QED
      BY <2>2, <2>3, <3>1 DEF WritesRegistered
  <2>5. CASE EnterFinalize(s, row, why) /\ UNCHANGED log
    <3>1. pc'[s] = "rewarding" /\ run'[s].why = why /\ log'[s] = log[s]
      BY <2>5
    <3>2. CASE row = db[s]
      BY <2>2, <2>3, <3>1, <3>2 DEF Ended
    <3>3. CASE row \in StepRows(s)
      <4>1. row \in NextRows(s)
        BY <2>2, <3>3 DEF NextRows, Raising
      <4>2. QED
        BY <2>2, <2>3, <3>1, <4>1 DEF Unlogged
    <3>4. QED
      BY <2>2, <3>2, <3>3
  <2>6. QED
    BY <2>1, <2>4, <2>5 DEF RaiseOutcome
<1>15. CASE CreateFailsLate(s) \/ StartRunFails(s) \/ CancelFails(s)
  <2>1. CASE CreateFailsLate(s)
    <3>1. db'[s] = CreatedRow /\ log'[s] = log[s] /\ HostFaults /\ pc[s] = "creating"
      BY <2>1 DEF CreateFailsLate
    <3>2. CreatedRow \in NextRows(s)
      BY <3>1 DEF NextRows
    <3>3. s \notin active
      BY <3>1
    <3>4. \/ pc'[s] = "none" /\ s \notin active'
          \/ pc'[s] = "idle" /\ s \in active'
      BY <2>1, <3>3 DEF CreateFailsLate
    <3>5. QED
      BY <3>1, <3>2, <3>4 DEF Unlogged
  <2>2. CASE StartRunFails(s)
    <3>1. /\ db'[s] = QueuedRow(s) /\ log'[s] = log[s] /\ pc' = pc /\ run' = run
          /\ active' = active /\ s \in active
      BY <2>2 DEF StartRunFails
    <3>2. QueuedRow(s) \in NextRows(s)
      BY <2>2 DEF StartRunFails, NextRows
    <3>3. QED
      BY <3>1, <3>2 DEF Unlogged
  <2>3. CASE CancelFails(s)
    <3>1. /\ db'[s] = CancelRow(s) \/ db' = db
          /\ log'[s] = log[s] /\ pc' = pc /\ run' = run
          /\ active' = active /\ s \in active
      BY <2>3 DEF CancelFails
    <3>2. CancelRow(s) \in NextRows(s)
      BY <2>3 DEF CancelFails, NextRows
    <3>3. QED
      BY <3>1, <3>2 DEF Unlogged
  <2>4. QED
    BY <1>15, <2>1, <2>2, <2>3
<1>16. CASE TokensExhausted(s)
  BY <1>16 DEF TokensExhausted, WritesRegistered, Writes
<1>17. CASE MissingCall(s)
  BY <1>17 DEF MissingCall, WritesRegistered, Writes
<1>18. CASE ToolCalled(s)
  BY <1>18 DEF ToolCalled
<1>19. CASE ToolReturns(s)
  <2>1. PICK submitted \in BOOLEAN : Save(s, ToolRow(s, submitted))
    BY <1>19 DEF ToolReturns, SubmitOutcomes
  <2>2. /\ pc[s] = "executing" /\ pc'[s] = "observed" /\ Emit(s, "tool") /\ s \in active'
    BY <1>19 DEF ToolReturns
  <2>3. Writes(s, {"executing"}, {"observed"}, ToolRow(s, submitted), "tool")
    BY <2>1, <2>2 DEF Writes
  <2>. QED
    BY <2>2, <2>3 DEF WritesRegistered
<1>20. CASE ToolBudgetExhausted(s)
  BY <1>20 DEF ToolBudgetExhausted, WritesRegistered, Writes
<1>21. CASE TurnsExhausted(s)
  BY <1>21 DEF TurnsExhausted, WritesRegistered, Writes
<1>22. CASE Submitted(s)
  BY <1>22 DEF Submitted
<1>23. CASE LoopReturns(s)
  BY <1>23 DEF LoopReturns
<1>24. CASE TimesOut(s)
  BY <1>24 DEF TimesOut
<1>25. CASE HandlerDone(s)
  BY <1>25 DEF HandlerDone
<1>26. CASE FinalizeSaves(s)
  BY <1>26 DEF FinalizeSaves, WritesRegistered, Writes
<1>27. CASE FinalizeRaises(s)
  <2>1. /\ log' = log /\ pc'[s] = "closing" /\ active' = active /\ s \in active
        /\ \/ pc[s] = "rewarding" /\ (db'[s] = FinalRow(s) \/ db' = db)
           \/ pc[s] = "rewarded" /\ db' = db
    BY <1>27 DEF FinalizeRaises
  <2>2. pc[s] = "rewarding" => FinalRow(s) \in NextRows(s)
    BY DEF NextRows
  <2>3. CASE db' = db
    BY <2>1, <2>3 DEF Ended
  <2>4. CASE pc[s] = "rewarding" /\ db'[s] = FinalRow(s)
    BY <2>1, <2>2, <2>4 DEF Unlogged
  <2>5. QED
    BY <2>1, <2>3, <2>4
<1>28. CASE FinalStatus(s)
  BY <1>28 DEF FinalStatus, WritesRegistered, Writes
<1>29. CASE SandboxReleased(s)
  BY <1>29 DEF SandboxReleased
<1>30. CASE SessionPopped(s)
  BY <1>30 DEF SessionPopped
<1>31. CASE KilledUnstarted(s)
  BY <1>31 DEF KilledUnstarted, Dies
<1>32. CASE KilledInQueue(s)
  BY <1>32 DEF KilledInQueue, Dies
<1>33. CASE KilledInLoop(s)
  BY <1>33 DEF KilledInLoop, Dies
<1>34. CASE KilledInHandler(s)
  BY <1>34 DEF KilledInHandler, Dies
<1>35. CASE KilledInFinalize(s)
  BY <1>35 DEF KilledInFinalize, Dies
<1>36. QED
  BY <1>1, <1>2, <1>3, <1>4, <1>5, <1>6, <1>7, <1>8, <1>9, <1>10, <1>11, <1>12, <1>13,
     <1>14, <1>15, <1>16, <1>17, <1>18, <1>19, <1>20, <1>21, <1>22, <1>23, <1>24, <1>25,
     <1>26, <1>27, <1>28, <1>29, <1>30, <1>31, <1>32, <1>33, <1>34, <1>35
     DEF Client, Handler, Task, Loop, Finalize, Killed

\* No verdict has the name of another event.
LEMMA VerdictNames ==
  TERMINAL_STATUSES \cap {"session", "queued", "running", "model", "tool", "budget",
                          "error", "cancelled_request", "reward"} = {}
BY DEF TERMINAL_STATUSES

\* What a writer may save just before the process dies: the row moves one step
\* forward and counts at most one reply or call more.
Forward(s, row) ==
  \/ db[s].status = "absent" /\ row.status = "created" /\ row.calls = 0 /\ row.tools = 0
  \/ /\ row.calls = db[s].calls /\ row.tools = db[s].tools
     /\ \/ db[s].status \in Unfinished /\ row.status = db[s].status
        \/ db[s].status = "created" /\ row.status = "queued"
        \/ db[s].status = "queued" /\ row.status = "running"
        \/ /\ pc[s] = "rewarding" /\ db[s].status \in {"queued", "running"}
           /\ row.status = StatusOf[run[s].why] /\ row.why = run[s].why
  \/ /\ pc[s] \in {"generating", "executing"}
     /\ db[s].status = "running" /\ row.status = "running"
     /\ \/ row.calls = db[s].calls + 1 /\ row.tools = db[s].tools
        \/ row.calls = db[s].calls /\ row.tools = db[s].tools + 1

\* Every row that is about to be saved is such a row.
LEMMA NextRowsForward ==
  ASSUME IInv, NEW s \in Sessions, CopyCounts(s)
  PROVE  \A row \in NextRows(s) : Forward(s, row)
PROOF
<1>c. TypeOK /\ RowOfStage(s) /\ CopyOfStage(s)
  BY DEF IInv, Coherent
<1> USE <1>c, RowStatuses, RowCounters DEF Forward, RowOfStage, CopyOfStage, CopyCounts
<1>1. pc[s] = "creating" => Forward(s, CreatedRow)
  OBVIOUS
<1>2. pc[s] = "waiting" => Forward(s, RunningRow(s))
  OBVIOUS
<1>3. pc[s] = "generating" => Forward(s, RepliedRow(s))
  BY DEF InLoop
<1>4. \A submitted \in BOOLEAN : pc[s] = "executing" => Forward(s, ToolRow(s, submitted))
  BY DEF InLoop
<1>5. pc[s] = "rewarding" => Forward(s, FinalRow(s))
  OBVIOUS
<1>6. db[s].status \in Unfinished => Forward(s, CancelRow(s))
  OBVIOUS
<1>7. db[s].status = "created" => Forward(s, QueuedRow(s))
  OBVIOUS
<1> HIDE DEF Forward
<1>8. QED
  BY <1>1, <1>2, <1>3, <1>4, <1>5, <1>6, <1>7 DEF NextRows, StepRows, SubmitOutcomes

\* So is a row that a step of the run saved before it raised, or it is the row
\* as it was; either way the session is queued or running.
LEMMA StepRowsForward ==
  ASSUME IInv, NEW s \in Sessions, CopyCounts(s), pc[s] \in Raising
  PROVE  \A row \in {db[s]} \cup StepRows(s) :
           /\ row = db[s] \/ Forward(s, row)
           /\ row.status \in {"queued", "running"}
           /\ db[s].status \in {"queued", "running"}
PROOF
<1>1. TypeOK /\ RowOfStage(s) /\ CopyOfStage(s)
  BY DEF IInv, Coherent
<1>2. \A row \in StepRows(s) : row \in NextRows(s)
  BY DEF NextRows, Raising
<1>3. \A row \in StepRows(s) : Forward(s, row)
  BY <1>2, NextRowsForward
<1>4. \A row \in {db[s]} \cup StepRows(s) : row.status \in {"queued", "running"}
  BY <1>1, RaisedStatus
<1>5. QED
  BY <1>3, <1>4


\* A session keeps one session event, at the head of its log.
LEMMA OpeningStep ==
  ASSUME IInv, NEW s \in Sessions, LogOpening(s), CopyCounts(s), Seen(s)
  PROVE  LogOpening(s)'
PROOF
<1>c. /\ TypeOK /\ RowOfStage(s) /\ CopyOfStage(s) /\ Registered(s)
      /\ run[s].why \in Reasons
  BY DEF IInv, Coherent, TypeOK, Frames
<1> USE <1>c, EmitEffects, LoggedPositions, SilentEffects, RowStatuses, StatusesDisjoint,
        Members, StatusOfType, VerdictNames
    DEF Writes, RowOfStage, CopyOfStage, Registered, Terminal, LogOpening
<1>1. CASE Quiet(s)
  BY <1>1 DEF Quiet
<1>2. CASE Opens(s) /\ s \in active'
  BY <1>2 DEF Opens
<1>3. CASE db[s].status = "created" /\ Writes(s, {"idle"}, {"starting"}, QueuedRow(s), "queued")
  BY <1>3
<1>4. CASE /\ s \in active /\ db[s].status \in Unfinished
           /\ Writes(s, {pc[s]}, {pc[s]}, CancelRow(s), "cancelled_request")
           /\ run'[s] = run[s]
  BY <1>4
<1>5. CASE Writes(s, {"waiting"}, {"entered"}, RunningRow(s), "running")
  BY <1>5
<1>6. CASE Writes(s, {"generating"}, {"modelled"}, RepliedRow(s), "model")
  BY <1>6
<1>7. ASSUME NEW submitted \in BOOLEAN,
             Writes(s, {"executing"}, {"observed"}, ToolRow(s, submitted), "tool")
      PROVE  LogOpening(s)'
  BY <1>7
<1>8. ASSUME NEW type \in {"error", "budget"},
             Writes(s, InLoop, {"observed", "exiting"}, db[s], type)
      PROVE  LogOpening(s)'
  BY <1>8
<1>14. ASSUME NEW row \in {db[s]} \cup StepRows(s),
              Writes(s, Raising, {"failing"}, row, "error")
       PROVE  LogOpening(s)'
  <2>1. /\ pc[s] \in Raising /\ pc'[s] = "failing" /\ db'[s] = row
        /\ row.status \in {"queued", "running"} /\ db[s].status \in {"queued", "running"}
        /\ row = db[s] \/ Forward(s, row)
    BY <1>14, StepRowsForward
  <2>2. QED
    BY <1>14, <2>1 DEF Raising, TaskStages, InLoop
<1>9. CASE Writes(s, {"rewarding"}, {"rewarded"}, FinalRow(s), "reward")
  BY <1>9
<1>10. CASE Writes(s, {"rewarded"}, {"closing"}, db[s], StatusOf[run[s].why])
  BY <1>10
<1>11. CASE Unlogged(s)
  <2>1. Forward(s, db'[s]) /\ log'[s] = log[s]
    BY <1>11, NextRowsForward DEF Unlogged
  <2>2. db'[s].status # "absent"
    BY <2>1 DEF Forward, Unfinished, TERMINAL_STATUSES
  <2>3. ~HostFaults /\ s \in active' => s \in active
    BY <1>11 DEF Unlogged
  <2>4. QED
    BY <2>1, <2>2, <2>3
<1>12. CASE Interrupted(s)
  BY <1>12 DEF Interrupted, TypeOK, Rows
<1>13. QED
  BY <1>1, <1>2, <1>3, <1>4, <1>5, <1>6, <1>7, <1>8, <1>9, <1>10, <1>11, <1>12, <1>14
     DEF Seen, WritesRegistered

\* queued and running keep being logged once, and in that order.
LEMMA StartingStep ==
  ASSUME IInv, NEW s \in Sessions, LogStarting(s), CopyCounts(s), Seen(s)
  PROVE  LogStarting(s)'
PROOF
<1>c. /\ TypeOK /\ RowOfStage(s) /\ CopyOfStage(s) /\ Registered(s)
      /\ run[s].why \in Reasons
  BY DEF IInv, Coherent, TypeOK, Frames
<1> USE <1>c, EmitEffects, EmitCounts, LoggedPositions, SilentEffects, RowStatuses,
        StatusesDisjoint, Members, StatusOfType, VerdictNames, FS_EmptySet
    DEF Writes, RowOfStage, CopyOfStage, Registered, Terminal, LogStarting
<1>1. CASE Quiet(s)
  BY <1>1 DEF Quiet
<1>2. CASE Opens(s) /\ s \in active'
  BY <1>2 DEF Opens, TaskStages, InLoop, InFinalize
<1>3. CASE db[s].status = "created" /\ Writes(s, {"idle"}, {"starting"}, QueuedRow(s), "queued")
  <2>1. Logged(s, "queued") = {} /\ Logged(s, "running") = {}
    BY <1>3
  <2>2. /\ Logged(s, "queued")' = {Len(log[s]) + 1} /\ Logged(s, "running")' = {}
        /\ Cardinality(Logged(s, "queued")') = 1
        /\ Cardinality(Logged(s, "running")') = 0
    BY <1>3, <2>1
  <2>3. db'[s].status = "queued"
    BY <1>3
  <2>4. /\ Cardinality(Logged(s, "queued")') <= 1
        /\ Cardinality(Logged(s, "running")') <= 1
    BY <2>2
  <2>5. \A i \in Logged(s, "running")' : \E j \in Logged(s, "queued")' : j < i
    BY <2>2
  <2>6. QED
    BY <2>2, <2>3, <2>4, <2>5
<1>4. CASE /\ s \in active /\ db[s].status \in Unfinished
           /\ Writes(s, {pc[s]}, {pc[s]}, CancelRow(s), "cancelled_request")
           /\ run'[s] = run[s]
  BY <1>4
<1>5. CASE Writes(s, {"waiting"}, {"entered"}, RunningRow(s), "running")
  BY <1>5
<1>6. CASE Writes(s, {"generating"}, {"modelled"}, RepliedRow(s), "model")
  BY <1>6
<1>7. ASSUME NEW submitted \in BOOLEAN,
             Writes(s, {"executing"}, {"observed"}, ToolRow(s, submitted), "tool")
      PROVE  LogStarting(s)'
  BY <1>7
<1>8. ASSUME NEW type \in {"error", "budget"},
             Writes(s, InLoop, {"observed", "exiting"}, db[s], type)
      PROVE  LogStarting(s)'
  BY <1>8
<1>14. ASSUME NEW row \in {db[s]} \cup StepRows(s),
              Writes(s, Raising, {"failing"}, row, "error")
       PROVE  LogStarting(s)'
  <2>1. /\ pc[s] \in Raising /\ pc'[s] = "failing" /\ db'[s] = row
        /\ row.status \in {"queued", "running"} /\ db[s].status \in {"queued", "running"}
        /\ row = db[s] \/ Forward(s, row)
    BY <1>14, StepRowsForward
  <2>2. QED
    BY <1>14, <2>1 DEF Forward, Raising, TaskStages, InLoop
<1>9. CASE Writes(s, {"rewarding"}, {"rewarded"}, FinalRow(s), "reward")
  BY <1>9
<1>10. CASE Writes(s, {"rewarded"}, {"closing"}, db[s], StatusOf[run[s].why])
  BY <1>10
<1>11. CASE Unlogged(s)
  <2>1. /\ db'[s].status \in {"absent", "created"} =>
             db[s].status \in {"absent", "created"}
        /\ db'[s].status \in {"absent", "created", "queued"} =>
             db[s].status \in {"absent", "created", "queued"}
    <3>1. Forward(s, db'[s])
      BY <1>11, NextRowsForward DEF Unlogged
    <3>2. QED
      BY <3>1 DEF Forward, Unfinished, TERMINAL_STATUSES
  <2>2. pc'[s] \in {"starting"} \cup TaskStages => pc[s] \in {"starting"} \cup TaskStages
    BY <1>11 DEF Unlogged, Raising, TaskStages, InLoop, InFinalize
  <2>3. QED
    BY <1>11, <2>1, <2>2 DEF Unlogged
<1>12. CASE Interrupted(s)
  BY <1>12 DEF Interrupted, TypeOK, Rows
<1>13. QED
  BY <1>1, <1>2, <1>3, <1>4, <1>5, <1>6, <1>7, <1>8, <1>9, <1>10, <1>11, <1>12, <1>14
     DEF Seen, WritesRegistered

\* The reward and the verdict stay the last events, and follow the row.
LEMMA EndingStep ==
  ASSUME IInv, TypeOK', NEW s \in Sessions, LogEnding(s), CopyCounts(s), Seen(s)
  PROVE  LogEnding(s)'
PROOF
<1>c. /\ TypeOK /\ RowOfStage(s) /\ CopyOfStage(s) /\ Registered(s)
      /\ run[s].why \in Reasons
  BY DEF IInv, Coherent, TypeOK, Frames
<1> USE <1>c, EmitEffects, EmitCounts, LoggedPositions, SilentEffects, RowStatuses,
        StatusesDisjoint, Members, StatusOfType, VerdictNames, FS_EmptySet
    DEF Writes, RowOfStage, CopyOfStage, Terminal, LogEnding
<1>1. CASE Quiet(s)
  BY <1>1 DEF Quiet
<1>2. CASE Opens(s) /\ s \in active'
  BY <1>2 DEF Opens
<1>3. CASE db[s].status = "created" /\ Writes(s, {"idle"}, {"starting"}, QueuedRow(s), "queued")
  BY <1>3
<1>4. CASE /\ s \in active /\ db[s].status \in Unfinished
           /\ Writes(s, {pc[s]}, {pc[s]}, CancelRow(s), "cancelled_request")
           /\ run'[s] = run[s]
  BY <1>4
<1>5. CASE Writes(s, {"waiting"}, {"entered"}, RunningRow(s), "running")
  BY <1>5
<1>6. CASE Writes(s, {"generating"}, {"modelled"}, RepliedRow(s), "model")
  BY <1>6
<1>7. ASSUME NEW submitted \in BOOLEAN,
             Writes(s, {"executing"}, {"observed"}, ToolRow(s, submitted), "tool")
      PROVE  LogEnding(s)'
  BY <1>7
<1>8. ASSUME NEW type \in {"error", "budget"},
             Writes(s, InLoop, {"observed", "exiting"}, db[s], type)
      PROVE  LogEnding(s)'
  BY <1>8
<1>14. ASSUME NEW row \in {db[s]} \cup StepRows(s),
              Writes(s, Raising, {"failing"}, row, "error")
       PROVE  LogEnding(s)'
  <2>1. /\ pc[s] \in Raising /\ pc'[s] = "failing" /\ db'[s] = row
        /\ row.status \in {"queued", "running"} /\ db[s].status \in {"queued", "running"}
        /\ row = db[s] \/ Forward(s, row)
    BY <1>14, StepRowsForward
  <2>2. QED
    BY <1>14, <2>1
<1>9. CASE Writes(s, {"rewarding"}, {"rewarded"}, FinalRow(s), "reward")
  <2>1. /\ pc[s] = "rewarding" /\ pc'[s] = "rewarded" /\ db'[s] = FinalRow(s)
        /\ Emit(s, "reward")
    BY <1>9
  <2>2. ~Terminal(s) /\ Terminal(s)'
    BY <2>1, RowCounters
  <2>3. Logged(s, "reward") = {} /\ FinalEvents(s) = {}
    BY <2>2
  <2>4. Logged(s, "reward")' = {Len(log[s]) + 1} /\ FinalEvents(s)' = {}
    BY <2>1, <2>3
  <2>5. Len(log'[s]) = Len(log[s]) + 1
    BY <2>1
  <2>6. Cardinality(Logged(s, "reward")') <= 1
    BY <2>1, <2>3
  <2>7. QED
    BY <2>1, <2>2, <2>4, <2>5, <2>6
<1>10. CASE Writes(s, {"rewarded"}, {"closing"}, db[s], StatusOf[run[s].why])
  <2>1. Logged(s, "reward") = {Len(log[s])} /\ FinalEvents(s) = {} /\ Terminal(s)
    BY <1>10
  <2>2. StatusOf[run[s].why] \in TERMINAL_STATUSES /\ StatusOf[run[s].why] # "reward"
    BY StatusOfType, VerdictNames
  <2>3. /\ Logged(s, "reward")' = {Len(log[s])}
        /\ FinalEvents(s)' = {Len(log[s]) + 1}
        /\ Len(log'[s]) = Len(log[s]) + 1
        /\ log'[s][Len(log[s])] = log[s][Len(log[s])]
    BY <1>10, <2>1, <2>2
  <2>4. log[s][Len(log[s])] = "reward"
    BY <2>1 DEF Logged
  <2>5. Cardinality(Logged(s, "reward")') <= 1
    BY <1>10, <2>2
  <2>6. pc'[s] = "closing" /\ db'[s] = db[s]
    BY <1>10
  <2>7. QED
    BY <2>1, <2>3, <2>4, <2>5, <2>6
<1>11. CASE Unlogged(s)
  BY <1>11, NextRowsForward DEF Unlogged, Forward
<1>12. CASE Interrupted(s)
  BY <1>12, SMTT(40) DEF Interrupted, TypeOK, Rows
<1>13. QED
  BY <1>1, <1>2, <1>3, <1>4, <1>5, <1>6, <1>7, <1>8, <1>9, <1>10, <1>11, <1>12, <1>14
     DEF Seen, WritesRegistered

\* The logged verdict stays the stored one.
LEMMA VerdictStep ==
  ASSUME IInv, NEW s \in Sessions, LogEnding(s), EndingReason(s), VerdictStored(s), CopyCounts(s),
         Seen(s)
  PROVE  VerdictStored(s)'
PROOF
<1>c. /\ TypeOK /\ RowOfStage(s) /\ CopyOfStage(s) /\ Registered(s)
      /\ run[s].why \in Reasons
  BY DEF IInv, Coherent, TypeOK, Frames
<1> USE <1>c, EmitEffects, LoggedPositions, SilentEffects, RowStatuses,
        StatusesDisjoint, Members, StatusOfType, VerdictNames
    DEF Writes, RowOfStage, CopyOfStage, Terminal, LogEnding, EndingReason, VerdictStored
<1>1. CASE Quiet(s)
  BY <1>1 DEF Quiet
<1>2. CASE Opens(s) /\ s \in active'
  BY <1>2 DEF Opens
<1>3. CASE db[s].status = "created" /\ Writes(s, {"idle"}, {"starting"}, QueuedRow(s), "queued")
  BY <1>3
<1>4. CASE /\ s \in active /\ db[s].status \in Unfinished
           /\ Writes(s, {pc[s]}, {pc[s]}, CancelRow(s), "cancelled_request")
           /\ run'[s] = run[s]
  BY <1>4
<1>5. CASE Writes(s, {"waiting"}, {"entered"}, RunningRow(s), "running")
  BY <1>5
<1>6. CASE Writes(s, {"generating"}, {"modelled"}, RepliedRow(s), "model")
  BY <1>6
<1>7. ASSUME NEW submitted \in BOOLEAN,
             Writes(s, {"executing"}, {"observed"}, ToolRow(s, submitted), "tool")
      PROVE  VerdictStored(s)'
  BY <1>7
<1>8. ASSUME NEW type \in {"error", "budget"},
             Writes(s, InLoop, {"observed", "exiting"}, db[s], type)
      PROVE  VerdictStored(s)'
  BY <1>8
<1>14. ASSUME NEW row \in {db[s]} \cup StepRows(s),
              Writes(s, Raising, {"failing"}, row, "error")
       PROVE  VerdictStored(s)'
  <2>1. /\ pc[s] \in Raising /\ pc'[s] = "failing" /\ db'[s] = row
        /\ row.status \in {"queued", "running"} /\ db[s].status \in {"queued", "running"}
        /\ row = db[s] \/ Forward(s, row)
    BY <1>14, StepRowsForward
  <2>2. QED
    BY <1>14, <2>1
<1>9. CASE Writes(s, {"rewarding"}, {"rewarded"}, FinalRow(s), "reward")
  BY <1>9
<1>10. CASE Writes(s, {"rewarded"}, {"closing"}, db[s], StatusOf[run[s].why])
  BY <1>10
<1>11. CASE Unlogged(s)
  BY <1>11, NextRowsForward DEF Unlogged, Forward
<1>12. CASE Interrupted(s)
  BY <1>12 DEF Interrupted, TypeOK, Rows
<1>13. QED
  BY <1>1, <1>2, <1>3, <1>4, <1>5, <1>6, <1>7, <1>8, <1>9, <1>10, <1>11, <1>12, <1>14
     DEF Seen, WritesRegistered

\* The stored counters stay those of the log, or one ahead of it after a crash.
LEMMA UsageStep ==
  ASSUME IInv, TypeOK', NEW s \in Sessions, LogOpening(s), CopyCounts(s), UsageCounted(s), Seen(s)
  PROVE  UsageCounted(s)'
PROOF
<1>c. /\ TypeOK /\ RowOfStage(s) /\ CopyOfStage(s) /\ Registered(s)
      /\ run[s].why \in Reasons
      /\ db[s].calls \in Nat /\ db[s].tools \in Nat
  BY DEF IInv, Coherent, TypeOK, Frames, Rows
<1> USE <1>c, EmitEffects, EmitCounts, LoggedPositions, SilentEffects, RowStatuses, RowCounters,
        StatusesDisjoint, Members, StatusOfType, VerdictNames
    DEF Writes, RowOfStage, CopyOfStage, CopyCounts, Registered, UsageCounted,
        UsageMatchesLog
<1>1. CASE Quiet(s)
  <2>1. /\ Cardinality(Logged(s, "model")') = Cardinality(Logged(s, "model"))
        /\ Cardinality(Logged(s, "tool")') = Cardinality(Logged(s, "tool"))
        /\ db'[s] = db[s]
    BY <1>1 DEF Quiet
  <2>2. Counted(s)' <=> Counted(s)
    BY <2>1 DEF Counted
  <2>3. CASE Counted(s)
    BY <2>1, <2>2, <2>3 DEF Counted
  <2>4. CASE ~Counted(s)
    <3>1. pc[s] \in Ended /\ db[s].status # "absent" /\ pc'[s] \in Ended
      BY <1>1, <2>4 DEF Quiet
    <3>2. pc'[s] = "rewarding" => run'[s].why \in {"internal_error", "cancelled_by_client"}
      BY <1>1, <2>4, <3>1 DEF Quiet
    <3>3. QED
      BY <2>1, <2>2, <3>1, <3>2 DEF Ended
  <2>5. QED
    BY <2>3, <2>4
<1>2. CASE Opens(s) /\ s \in active'
  BY <1>2, FS_EmptySet DEF Opens, LogOpening, Counted, Ended
<1>3. CASE db[s].status = "created" /\ Writes(s, {"idle"}, {"starting"}, QueuedRow(s), "queued")
  <2>1. /\ db'[s].calls = db[s].calls /\ db'[s].tools = db[s].tools
        /\ Counted(s) 
    BY <1>3 DEF InLoop, Ended, InFinalize
  <2>2. /\ Cardinality(Logged(s, "model")') = Cardinality(Logged(s, "model"))
        /\ Cardinality(Logged(s, "tool")') = Cardinality(Logged(s, "tool"))
    BY <1>3
  <2>3. Counted(s)'
    BY <2>1, <2>2 DEF Counted
  <2>4. QED
    BY <2>1, <2>3 DEF Counted
<1>4. CASE /\ s \in active /\ db[s].status \in Unfinished
           /\ Writes(s, {pc[s]}, {pc[s]}, CancelRow(s), "cancelled_request")
           /\ run'[s] = run[s]
  BY <1>4 DEF Counted, Ended, InFinalize, InLoop
<1>5. CASE Writes(s, {"waiting"}, {"entered"}, RunningRow(s), "running")
  <2>1. /\ db'[s].calls = db[s].calls /\ db'[s].tools = db[s].tools
        /\ Counted(s) 
    BY <1>5 DEF InLoop, Ended, InFinalize
  <2>2. /\ Cardinality(Logged(s, "model")') = Cardinality(Logged(s, "model"))
        /\ Cardinality(Logged(s, "tool")') = Cardinality(Logged(s, "tool"))
    BY <1>5
  <2>3. Counted(s)'
    BY <2>1, <2>2 DEF Counted
  <2>4. QED
    BY <2>1, <2>3 DEF Counted
<1>6. CASE Writes(s, {"generating"}, {"modelled"}, RepliedRow(s), "model")
  <2>1. /\ db'[s].calls = db[s].calls + 1 /\ db'[s].tools = db[s].tools
        /\ Counted(s)
    BY <1>6 DEF InLoop, Ended, InFinalize
  <2>2. /\ Cardinality(Logged(s, "model")') = Cardinality(Logged(s, "model")) + 1
        /\ Cardinality(Logged(s, "tool")') = Cardinality(Logged(s, "tool"))
    BY <1>6
  <2>3. QED
    BY <1>6, <2>1, <2>2 DEF Counted, Ended
<1>7. ASSUME NEW submitted \in BOOLEAN,
             Writes(s, {"executing"}, {"observed"}, ToolRow(s, submitted), "tool")
      PROVE  UsageCounted(s)'
  <2>1. /\ db'[s].calls = db[s].calls /\ db'[s].tools = db[s].tools + 1
        /\ Counted(s)
    BY <1>7 DEF InLoop, Ended, InFinalize
  <2>2. /\ Cardinality(Logged(s, "model")') = Cardinality(Logged(s, "model"))
        /\ Cardinality(Logged(s, "tool")') = Cardinality(Logged(s, "tool")) + 1
    BY <1>7
  <2>3. QED
    BY <1>7, <2>1, <2>2 DEF Counted, Ended
<1>8. ASSUME NEW type \in {"error", "budget"},
             Writes(s, InLoop, {"observed", "exiting"}, db[s], type)
      PROVE  UsageCounted(s)'
  <2>1. db'[s] = db[s] /\ Counted(s)
    BY <1>8 DEF Ended, InLoop, InFinalize
  <2>2. /\ Cardinality(Logged(s, "model")') = Cardinality(Logged(s, "model"))
        /\ Cardinality(Logged(s, "tool")') = Cardinality(Logged(s, "tool"))
    BY <1>8
  <2>3. QED
    BY <1>8, <2>1, <2>2 DEF Counted, Ended
<1>14. ASSUME NEW row \in {db[s]} \cup StepRows(s),
              Writes(s, Raising, {"failing"}, row, "error")
       PROVE  UsageCounted(s)'
  <2>1. /\ Cardinality(Logged(s, "model")') = Cardinality(Logged(s, "model"))
        /\ Cardinality(Logged(s, "tool")') = Cardinality(Logged(s, "tool"))
    BY <1>14
  <2>2. pc[s] \in Raising /\ pc'[s] = "failing" /\ db'[s] = row
    BY <1>14
  <2>3. Counted(s)
    BY <2>2 DEF Raising, Ended, InFinalize
  <2>4. /\ row = db[s] \/ Forward(s, row)
        /\ row.status \in Unfinished
    BY <2>2, StepRowsForward
  <2>5. \/ row.calls = db[s].calls /\ row.tools = db[s].tools
        \/ row.calls = db[s].calls + 1 /\ row.tools = db[s].tools
        \/ row.calls = db[s].calls /\ row.tools = db[s].tools + 1
    <3>1. db[s].status # "absent"
      BY <2>2, StepRowsForward
    <3>2. QED
      BY <2>4, <3>1 DEF Forward
  <2>6. UsageMatchesLog(s)'
    BY <2>1, <2>2, <2>3, <2>4, <2>5 DEF Counted
  <2>7. QED
    BY <2>2, <2>4, <2>6 DEF Ended
<1>9. CASE Writes(s, {"rewarding"}, {"rewarded"}, FinalRow(s), "reward")
  BY <1>9 DEF Counted, Ended, InFinalize, InLoop
<1>10. CASE Writes(s, {"rewarded"}, {"closing"}, db[s], StatusOf[run[s].why])
  BY <1>10 DEF Counted, Ended, InFinalize, InLoop
<1>11. CASE Unlogged(s)
  <2>1. /\ Cardinality(Logged(s, "model")') = Cardinality(Logged(s, "model"))
        /\ Cardinality(Logged(s, "tool")') = Cardinality(Logged(s, "tool"))
    BY <1>11 DEF Unlogged
  <2>2. Forward(s, db'[s])
    BY <1>11, NextRowsForward DEF Unlogged
  <2>3. pc'[s] \in Ended \/ pc'[s] = pc[s] \/ pc[s] = "creating"
    BY <1>11 DEF Unlogged, Ended, InFinalize
  <2>4. CASE db[s].status = "absent" /\ db'[s].status = "created" /\ db'[s].calls = 0 /\ db'[s].tools = 0
    <3>1. Cardinality(Logged(s, "model")) = 0 /\ Cardinality(Logged(s, "tool")) = 0
      BY <2>4, FS_EmptySet DEF LogOpening
    <3>2. Counted(s)' /\ UsageMatchesLog(s)'
      BY <2>1, <2>4, <3>1 DEF Counted
    <3>3. QED
      BY <3>2
  <2>5. CASE db'[s].calls = db[s].calls /\ db'[s].tools = db[s].tools /\ db[s].status # "absent"
    <3>1. Counted(s)' <=> Counted(s)
      BY <2>1, <2>5 DEF Counted
    <3>2. pc[s] \notin Ended => Counted(s)
      OBVIOUS
    <3>3. \/ db'[s].status \in Unfinished
          \/ db'[s].why = run[s].why /\ pc[s] = "rewarding"
      BY <2>2, <2>5 DEF Forward, Unfinished
    <3>4. UsageMatchesLog(s)'
      <4>1. CASE Counted(s)
        BY <2>1, <2>5, <4>1 DEF Counted
      <4>2. CASE ~Counted(s)
        <5>1. pc[s] \in Ended /\ pc'[s] \in Ended
          BY <2>3, <3>2, <4>2 DEF Ended, InFinalize
        <5>2. \/ db'[s].status \in Unfinished
              \/ db'[s].why \in {"internal_error", "cancelled_by_client", "service_restart"}
          BY <3>3, <4>2
        <5>3. QED
          BY <2>1, <2>5, <5>1, <5>2 DEF Ended, Counted
      <4>3. QED
        BY <4>1, <4>2
    <3>5. pc'[s] \notin Ended \/ db'[s].status = "absent" => Counted(s)'
      <4>1. db'[s].status # "absent"
        BY <2>2, <2>5 DEF Forward, Unfinished, TERMINAL_STATUSES
      <4>2. pc'[s] \notin Ended => pc[s] \notin Ended
        BY <2>3 DEF Ended, InFinalize
      <4>3. QED
        BY <3>1, <3>2, <4>1, <4>2
    <3>6. pc'[s] = "rewarding" =>
            Counted(s)' \/ run'[s].why \in {"internal_error", "cancelled_by_client"}
      BY <1>11, <3>1 DEF Unlogged
    <3>7. QED
      BY <3>4, <3>5, <3>6
  <2>6. CASE /\ pc[s] \in {"generating", "executing"}
             /\ db[s].status = "running" /\ db'[s].status = "running"
             /\ \/ db'[s].calls = db[s].calls + 1 /\ db'[s].tools = db[s].tools
                \/ db'[s].calls = db[s].calls /\ db'[s].tools = db[s].tools + 1
    <3>1. Counted(s)
      BY <2>6 DEF Ended, InFinalize
    <3>2. pc'[s] \in {"none", "rewarding"}
      BY <1>11, <2>6 DEF Unlogged
    <3>3. QED
      BY <1>11, <2>1, <2>6, <3>1, <3>2 DEF Unlogged, Counted, Ended, Unfinished, InFinalize
  <2>7. QED
    BY <2>2, <2>4, <2>5, <2>6 DEF Forward
<1>12. CASE Interrupted(s)
  BY <1>12 DEF Interrupted, TypeOK, Rows, Counted, Ended
<1>13. QED
  BY <1>1, <1>2, <1>3, <1>4, <1>5, <1>6, <1>7, <1>8, <1>9, <1>10, <1>11, <1>12, <1>14
     DEF Seen, WritesRegistered
\* A step of one session writes in no other session's log.
LEMMA LogIsLocal ==
  ASSUME TypeOK, NEW s \in Sessions, NEW t \in Sessions, t # s,
         Client(s) \/ Handler(s) \/ Task(s)
  PROVE  log'[t] = log[t]
PROOF
<1>1. \A type : Emit(s, type) => log'[t] = log[t]
  BY DEF Emit, TypeOK
<1> USE <1>1 DEF store
<1>2. CASE Client(s)
  BY <1>2 DEF Client, CreateSession, StartRun, StartRunFails, Cancel, CancelFails
<1>3. CASE Handler(s)
  BY <1>3 DEF Handler, CreateFails, CreateLeaks, CreateFailsLate, SessionCreated, SpawnTask
<1>4. CASE Loop(s)
  BY <1>4 DEF Loop, TaskStarts, SemaphoreAcquired, CancelledInQueue, TurnBegins,
       CancelledAtTurn, ModelReplies, RunAborted, RunFails, TokensExhausted, MissingCall,
       ToolCalled, ToolReturns, ToolBudgetExhausted, TurnsExhausted, Submitted,
       LoopReturns, TimesOut, HandlerDone
<1>5. CASE Finalize(s)
  BY <1>5 DEF Finalize, FinalizeSaves, FinalizeRaises, FinalStatus, SandboxReleased,
       SessionPopped
<1>6. CASE Killed(s)
  BY <1>6 DEF Killed, KilledUnstarted, KilledInQueue, KilledInLoop, KilledInHandler,
       KilledInFinalize
<1>7. QED
  BY <1>2, <1>3, <1>4, <1>5, <1>6 DEF Task

\* What a step of the process as a whole does to one session.
LEMMA SystemStepSeen ==
  ASSUME IInv, Stop \/ Recovery \/ UNCHANGED vars, NEW t \in Sessions
  PROVE  /\ Seen(t)
         /\ EndingReason(t) => EndingReason(t)'
         /\ CopyCounts(t) => CopyCounts(t)'
PROOF
<1>c. TypeOK /\ NothingInMemory(t) /\ Registered(t)
  BY DEF IInv, Coherent
<1> DEFINE Goal == /\ Seen(t)
                   /\ EndingReason(t) => EndingReason(t)'
                   /\ CopyCounts(t) => CopyCounts(t)'
<1>1. ASSUME Quiet(t), pc'[t] = pc[t], run'[t] = run[t]
      PROVE  Goal
  BY <1>1 DEF Seen, Quiet, EndingReason, CopyCounts
<1>2. ASSUME MemoryLost
      PROVE  /\ pc'[t] = "none" /\ t \notin active'
             /\ EndingReason(t)' /\ CopyCounts(t)'
  BY <1>2 DEF MemoryLost, NoFrame, EndingReason, CopyCounts, InLoop
<1>3. ASSUME MemoryLost, db'[t] = db[t], log' = log
      PROVE  Goal
  BY <1>2, <1>3 DEF Seen, Quiet, TaskStages, InLoop, InFinalize, Ended
<1>4. CASE ShutdownDone \/ Crash
  BY <1>3, <1>4 DEF ShutdownDone, Crash, store
<1>5. ASSUME NEW s \in Sessions, CrashAfterSave(s)
      PROVE  Goal
  <2>1. CASE t = s
    <3>1. \E row \in NextRows(t) : db'[t] = row
      BY <1>c, <1>5, <2>1, Effects DEF CrashAfterSave
    <3>2. QED
      BY <1>2, <1>5, <3>1 DEF CrashAfterSave, Seen, Unlogged
  <2>2. CASE t # s
    <3>1. db'[t] = db[t]
      BY <1>c, <1>5, <2>2, Effects DEF CrashAfterSave
    <3>2. QED
      BY <1>3, <1>5, <3>1 DEF CrashAfterSave
  <2>3. QED
    BY <2>1, <2>2
<1>6. ASSUME NEW s \in Sessions, MarkInterrupted(s)
      PROVE  Goal
  <2>1. /\ log' = log /\ pc' = pc /\ run' = run /\ active' = active
        /\ pc[t] = "none" /\ t \notin active
    BY <1>c, <1>6 DEF MarkInterrupted, NothingInMemory
  <2>2. CASE t = s
    <3>1. Interrupted(t)
      BY <1>c, <1>6, <2>1, <2>2, Effects DEF MarkInterrupted, Interrupted
    <3>2. QED
      BY <2>1, <3>1 DEF Seen, EndingReason, CopyCounts, InLoop
  <2>3. CASE t # s
    <3>1. db'[t] = db[t]
      BY <1>c, <1>6, <2>3, Effects DEF MarkInterrupted
    <3>2. QED
      BY <1>1, <2>1, <3>1 DEF Quiet
  <2>4. QED
    BY <2>2, <2>3
<1>7. CASE Shutdown \/ Restart \/ ServiceUp \/ UNCHANGED vars
  BY <1>1, <1>7 DEF Shutdown, Restart, ServiceUp, vars, store, Quiet
<1>8. QED
  BY <1>4, <1>5, <1>6, <1>7 DEF Stop, Recovery

\* Every step of every actor, seen from any session.
LEMMA StepSeen ==
  ASSUME IInv, [Next]_vars, NEW t \in Sessions
  PROVE  /\ Seen(t)
         /\ EndingReason(t) /\ CopyCounts(t) => EndingReason(t)' /\ CopyCounts(t)'
PROOF
<1>1. ASSUME NEW s \in Sessions, Client(s) \/ Handler(s) \/ Task(s), t # s
      PROVE  Seen(t) /\ (EndingReason(t) => EndingReason(t)') /\ (CopyCounts(t) => CopyCounts(t)')
  <2>1. /\ db'[t] = db[t] /\ pc'[t] = pc[t] /\ run'[t] = run[t] /\ log'[t] = log[t]
        /\ t \in active' <=> t \in active
    BY <1>1, StepIsLocal, LogIsLocal DEF IInv
  <2>2. QED
    BY <2>1 DEF Seen, Quiet, EndingReason, CopyCounts
<1>2. ASSUME NEW s \in Sessions, Client(s) \/ Handler(s) \/ Task(s), t = s
      PROVE  /\ Seen(t)
             /\ EndingReason(t) /\ CopyCounts(t) => EndingReason(t)' /\ CopyCounts(t)'
  BY <1>2, OwnStepSeen, FrameStep
<1>3. QED
  BY <1>1, <1>2, SystemStepSeen DEF Next

\* The log starts empty, and with it everything said of it holds.
LEMMA LogInvInit == Init => LogInv
PROOF
<1> SUFFICES ASSUME Init, NEW s \in Sessions PROVE LogCoherent(s)
  BY DEF LogInv
<1>1. TypeOK /\ log[s] = << >> /\ db[s] = NoRow /\ pc[s] = "none" /\ run[s] = NoFrame
      /\ s \notin active
  BY TypeInit DEF Init
<1>2. /\ \A type : Logged(s, type) = {} /\ Cardinality(Logged(s, type)) = 0
      /\ FinalEvents(s) = {}
  BY <1>1, LoggedPositions, FS_EmptySet
<1>3. LogOpening(s) /\ LogStarting(s)
  BY <1>1, <1>2 DEF LogOpening, LogStarting, TaskStages, InLoop, InFinalize
<1>4. LogEnding(s) /\ VerdictStored(s)
  BY <1>1, <1>2 DEF LogEnding, VerdictStored
<1>5. EndingReason(s) /\ CopyCounts(s)
  BY <1>1 DEF EndingReason, CopyCounts, NoFrame, InLoop
<1>6. UsageCounted(s)
  BY <1>1, <1>2 DEF UsageCounted, Counted, UsageMatchesLog, NoRow
<1>7. QED
  BY <1>3, <1>4, <1>5, <1>6 DEF LogCoherent

\* Every step of every actor, and a stutter, keeps row and log in agreement.
LEMMA LogInvStep == IInv /\ LogInv /\ [Next]_vars => LogInv'
PROOF
<1> SUFFICES ASSUME IInv, LogInv, [Next]_vars, NEW s \in Sessions PROVE LogCoherent(s)'
  BY DEF LogInv
<1>1. TypeOK' /\ LogCoherent(s)
  BY IInvStep DEF LogInv, IInv
<1>2. Seen(s) /\ EndingReason(s)' /\ CopyCounts(s)'
  BY <1>1, StepSeen DEF LogCoherent
<1>3. LogOpening(s)' /\ LogStarting(s)'
  BY <1>1, <1>2, OpeningStep, StartingStep DEF LogCoherent
<1>4. LogEnding(s)' /\ VerdictStored(s)'
  BY <1>1, <1>2, EndingStep, VerdictStep DEF LogCoherent
<1>5. UsageCounted(s)'
  BY <1>1, <1>2, UsageStep DEF LogCoherent
<1>6. QED
  BY <1>2, <1>3, <1>4, <1>5 DEF LogCoherent

\* Row, log and stage of every session agree in every reachable state.
THEOREM LogCoherence == Spec => [](IInv /\ LogInv)
PROOF
<1>1. Init => IInv /\ LogInv
  BY IInvInit, LogInvInit
<1>2. (IInv /\ LogInv) /\ [Next]_vars => (IInv /\ LogInv)'
  BY IInvStep, LogInvStep
<1>3. QED
  BY <1>1, <1>2, PTL DEF Spec

-----------------------------------------------------------------------------
\* The trajectory of every session reads as one run, whatever requests,
\* timeouts, errors, shutdowns and crashes were interleaved with it.
THEOREM TrajectoryReadsAsOneRun == Spec => []LogGrammar
PROOF
<1>1. IInv /\ LogInv => LogGrammar
  <2> SUFFICES ASSUME IInv, LogInv, NEW s \in Sessions
               PROVE  /\ \A i \in DOMAIN log[s] :
                           /\ log[s][i] = "session" => i = 1
                           /\ i = 1 /\ ~HostFaults => log[s][i] = "session"
                      /\ \A i \in Logged(s, "running") : \E j \in Logged(s, "queued") : j < i
                      /\ \A type \in {"queued", "running", "reward"} :
                           Cardinality(Logged(s, type)) <= 1
                      /\ \A i \in Logged(s, "reward") : i >= Len(log[s]) - 1
                      /\ \A i \in FinalEvents(s) :
                           i = Len(log[s]) /\ log[s][i - 1] = "reward"
    BY DEF LogGrammar
  <2>1. TypeOK /\ LogOpening(s) /\ LogStarting(s) /\ LogEnding(s)
    BY DEF IInv, LogInv, LogCoherent
  <2>2. ASSUME NEW i \in DOMAIN log[s]
        PROVE  /\ log[s][i] = "session" => i = 1
               /\ i = 1 /\ ~HostFaults => log[s][i] = "session"
    <3>1. log[s] # << >>
      BY <2>1, LoggedPositions
    <3>2. QED
      BY <2>1, <3>1 DEF LogOpening, Logged
  <2>3. QED
    BY <2>1, <2>2 DEF LogStarting, LogEnding
<1>2. QED
  BY LogCoherence, <1>1, PTL

\* Row and log tell one story in every reachable state: the published verdict is
\* the stored one, and the counters are those of the log but for the one event
\* that a crash or an exception after the save can swallow, which ends the run.
THEOREM RowAndLogAgree == Spec => []RowMatchesLog
PROOF
<1>1. IInv /\ LogInv => RowMatchesLog
  BY DEF LogInv, LogCoherent, LogEnding, VerdictStored, UsageCounted, RowMatchesLog,
         VerdictMatchesRow
<1>2. QED
  BY LogCoherence, <1>1, PTL
-----------------------------------------------------------------------------
\* The refinement.  A step changes the row and the log of one session at most.
LEMMA OneSessionWrites ==
  ASSUME IInv, [Next]_vars
  PROVE  \/ UNCHANGED store
         \/ \E s \in Sessions : \A t \in Sessions : t # s =>
              db'[t] = db[t] /\ log'[t] = log[t]
PROOF
<1>c. TypeOK
  BY DEF IInv
<1>1. ASSUME NEW s \in Sessions, Client(s) \/ Handler(s) \/ Task(s)
      PROVE  \A t \in Sessions : t # s => db'[t] = db[t] /\ log'[t] = log[t]
  BY <1>c, <1>1, StepIsLocal, LogIsLocal
<1>2. ASSUME NEW s \in Sessions, CrashAfterSave(s) \/ MarkInterrupted(s)
      PROVE  \A t \in Sessions : t # s => db'[t] = db[t] /\ log'[t] = log[t]
  BY <1>c, <1>2, Effects DEF CrashAfterSave, MarkInterrupted
<1>3. CASE Shutdown \/ ShutdownDone \/ Crash \/ Restart \/ ServiceUp \/ UNCHANGED vars
  BY <1>3 DEF Shutdown, ShutdownDone, Crash, Restart, ServiceUp, vars, store
<1>4. QED
  BY <1>1, <1>2, <1>3 DEF Next, Stop, Recovery

\* What the lifecycle sees of one session: its status and its verdict.
Verdict(s) == IF FinalEvents(s) = {} THEN "none" ELSE log[s][Len(log[s])]

\* The moves of the lifecycle, for one session.
Advances(s) ==
  /\ Verdict(s)' = Verdict(s)
  /\ \/ db'[s].status = db[s].status
     \/ db[s].status = "absent" /\ db'[s].status = "created"
     \/ db[s].status = "created" /\ db'[s].status = "queued"
     \/ db[s].status = "queued" /\ db'[s].status = "running"
     \/ db[s].status = "running" /\ db'[s].status \in TERMINAL_STATUSES
     \/ db[s].status = "queued" /\ db'[s].status \in {"cancelled", "timed_out", "failed"}
     \/ db[s].status = "created" /\ db'[s].status = "failed"

IsPublished(s) ==
  /\ Terminal(s) /\ db'[s].status = db[s].status
  /\ Verdict(s) = "none" /\ Verdict(s)' = db[s].status

\* The statuses that a run which never got in can end with.
LEMMA EndingStatuses ==
  /\ \A why \in {"cancelled_by_client", "timeout", "internal_error"} :
       StatusOf[why] \in {"cancelled", "timed_out", "failed"}
  /\ "failed" \in TERMINAL_STATUSES
BY DEF StatusOf, TERMINAL_STATUSES

\* Seen from one session, every step is a move of the lifecycle or none.
LEMMA SeenAdvances ==
  ASSUME IInv, NEW s \in Sessions, LogCoherent(s), Seen(s)
  PROVE  Advances(s) \/ IsPublished(s)
PROOF
<1>c. /\ TypeOK /\ RowOfStage(s) /\ CopyOfStage(s) /\ Registered(s)
      /\ run[s].why \in Reasons
      /\ LogEnding(s) /\ EndingReason(s) /\ CopyCounts(s)
  BY DEF IInv, Coherent, TypeOK, Frames, LogCoherent
<1>n. log'[s] = log[s] => Verdict(s)' = Verdict(s)
  BY DEF Verdict, FinalEvents
<1>e. \A type \in EventTypes \ TERMINAL_STATUSES :
        Emit(s, type) /\ ~Terminal(s) => Verdict(s)' = Verdict(s)
  BY <1>c, EmitEffects DEF Verdict, LogEnding
<1> USE <1>c, RowStatuses, RowCounters, StatusesDisjoint, Members, StatusOfType,
        VerdictNames, EndingStatuses
    DEF Writes, RowOfStage, CopyOfStage, Terminal, Advances
<1>1. CASE Quiet(s)
  BY <1>1, <1>n DEF Quiet
<1>2. CASE Opens(s) /\ s \in active'
  BY <1>2, <1>e DEF Opens
<1>3. CASE db[s].status = "created" /\ Writes(s, {"idle"}, {"starting"}, QueuedRow(s), "queued")
  BY <1>3, <1>e
<1>4. CASE /\ s \in active /\ db[s].status \in Unfinished
           /\ Writes(s, {pc[s]}, {pc[s]}, CancelRow(s), "cancelled_request")
           /\ run'[s] = run[s]
  BY <1>4, <1>e
<1>5. CASE Writes(s, {"waiting"}, {"entered"}, RunningRow(s), "running")
  BY <1>5, <1>e
<1>6. CASE Writes(s, {"generating"}, {"modelled"}, RepliedRow(s), "model")
  BY <1>6, <1>e DEF InLoop
<1>7. ASSUME NEW submitted \in BOOLEAN,
             Writes(s, {"executing"}, {"observed"}, ToolRow(s, submitted), "tool")
      PROVE  Advances(s)
  BY <1>7, <1>e DEF InLoop
<1>8. ASSUME NEW type \in {"error", "budget"},
             Writes(s, InLoop, {"observed", "exiting"}, db[s], type)
      PROVE  Advances(s)
  BY <1>8, <1>e
<1>14. ASSUME NEW row \in {db[s]} \cup StepRows(s),
              Writes(s, Raising, {"failing"}, row, "error")
       PROVE  Advances(s)
  <2>1. /\ pc[s] \in Raising /\ pc'[s] = "failing" /\ db'[s] = row
        /\ row.status \in {"queued", "running"} /\ db[s].status \in {"queued", "running"}
        /\ row = db[s] \/ Forward(s, row)
    BY <1>14, StepRowsForward
  <2>2. QED
    BY <1>14, <2>1, <1>e DEF Forward
<1>9. CASE Writes(s, {"rewarding"}, {"rewarded"}, FinalRow(s), "reward")
  BY <1>9, <1>e DEF EndingReason
<1>10. CASE Writes(s, {"rewarded"}, {"closing"}, db[s], StatusOf[run[s].why])
  <2>1. Verdict(s) = "none" /\ Terminal(s) /\ db[s].status = StatusOf[run[s].why]
    BY <1>10 DEF Verdict, LogEnding, EndingReason
  <2>2. /\ FinalEvents(s)' = FinalEvents(s) \cup {Len(log[s]) + 1}
        /\ Len(log'[s]) = Len(log[s]) + 1
        /\ log'[s][Len(log[s]) + 1] = StatusOf[run[s].why]
    <3>1. StatusOf[run[s].why] \in TERMINAL_STATUSES \cap EventTypes
      OBVIOUS
    <3>2. Emit(s, StatusOf[run[s].why])
      BY <1>10
    <3>3. QED
      BY <3>1, <3>2, EmitEffects
  <2>3. Verdict(s)' = StatusOf[run[s].why]
    BY <2>2, Zenon DEF Verdict
  <2>4. QED
    BY <1>10, <2>1, <2>3 DEF IsPublished
<1>11. CASE Unlogged(s)
  <2>1. Forward(s, db'[s])
    BY <1>11, NextRowsForward DEF Unlogged
  <2>2. QED
    BY <1>11, <1>n, <2>1 DEF Unlogged, Forward, EndingReason
<1>12. CASE Interrupted(s)
  BY <1>12, <1>n DEF Interrupted, TypeOK, Rows
<1>13. QED
  BY <1>1, <1>2, <1>3, <1>4, <1>5, <1>6, <1>7, <1>8, <1>9, <1>10, <1>11, <1>12, <1>14
     DEF Seen, WritesRegistered

\* An advance of one session, and a publication, are steps of the lifecycle.
LEMMA AdvanceRefines ==
  ASSUME TypeOK, TypeOK', NEW s \in Sessions, Advances(s) \/ IsPublished(s),
         \A t \in Sessions : t # s => db'[t] = db[t] /\ log'[t] = log[t]
  PROVE  [Lifecycle!Next]_Lifecycle!lifecycleVars
PROOF
<1> DEFINE status == [t \in Sessions |-> db[t].status]
<1>1. PublishedVerdict = [t \in Sessions |-> Verdict(t)]
  BY DEF PublishedVerdict, Verdict
<1>2. PublishedVerdict' = [t \in Sessions |-> Verdict(t)']
  BY DEF PublishedVerdict, Verdict
<1>3. \A t \in Sessions : t # s => Verdict(t)' = Verdict(t)
  BY DEF Verdict, FinalEvents
<1>4. ASSUME Verdict(s)' = Verdict(s)
      PROVE  PublishedVerdict' = PublishedVerdict
  BY <1>1, <1>2, <1>3, <1>4
<1>5. \A t \in Sessions : t # s => db'[t].status = db[t].status
  OBVIOUS
<1>6. status' = [status EXCEPT ![s] = db'[s].status]
  BY <1>5
<1>7. status[s] = db[s].status
  OBVIOUS
<1>8. Lifecycle!TERMINAL_STATUSES = TERMINAL_STATUSES
  BY DEF Lifecycle!TERMINAL_STATUSES, TERMINAL_STATUSES
<1>9. CASE Advances(s)
  <2>1. PublishedVerdict' = PublishedVerdict
    BY <1>4, <1>9 DEF Advances
  <2>2. CASE db'[s].status = db[s].status
    <3>1. status' = status
      BY <1>6, <1>7, <2>2
    <3>2. QED
      BY <2>1, <3>1 DEF Lifecycle!lifecycleVars
  <2>3. ASSUME db'[s].status # db[s].status
        PROVE  Lifecycle!Create(s) \/ Lifecycle!Queue(s) \/ Lifecycle!Run(s) \/ Lifecycle!Finish(s)
    BY <1>6, <1>7, <1>8, <1>9, <2>1, <2>3
       DEF Advances, Lifecycle!Create, Lifecycle!Queue, Lifecycle!Run, Lifecycle!Finish,
           Lifecycle!Moves
  <2>4. QED
    BY <2>2, <2>3 DEF Lifecycle!Next
<1>10. CASE IsPublished(s)
  <2>1. status' = status
    BY <1>6, <1>7, <1>10 DEF IsPublished
  <2>2. PublishedVerdict[s] = "none" /\ status[s] \in Lifecycle!TERMINAL_STATUSES
    BY <1>1, <1>7, <1>8, <1>10 DEF IsPublished, Terminal
  <2>3. PublishedVerdict' = [PublishedVerdict EXCEPT ![s] = status[s]]
    BY <1>1, <1>2, <1>3, <1>7, <1>10 DEF IsPublished
  <2>4. Lifecycle!Publish(s)
    BY <2>1, <2>2, <2>3 DEF Lifecycle!Publish
  <2>5. QED
    BY <2>4 DEF Lifecycle!Next
<1>11. QED
  BY <1>9, <1>10

\* Every step of the orchestrator, the repository, their crashes and the
\* recovery pass is a step of the lifecycle or leaves it alone.
THEOREM LifecycleImplemented == Spec => ImplementsLifecycle
PROOF
<1>1. Init => Lifecycle!Init
  <2> SUFFICES ASSUME Init PROVE Lifecycle!Init
    OBVIOUS
  <2>1. NoRow.status = "absent"
    BY DEF NoRow
  <2>2. \A s \in Sessions : FinalEvents(s) = {}
    BY TypeInit, LoggedPositions DEF Init, FinalEvents
  <2>3. QED
    BY <2>1, <2>2 DEF Init, Lifecycle!Init, PublishedVerdict
<1>2. ASSUME IInv, LogInv, [Next]_vars
      PROVE  [Lifecycle!Next]_Lifecycle!lifecycleVars
  <2>1. TypeOK /\ TypeOK'
    BY <1>2, IInvStep DEF IInv
  <2>2. CASE UNCHANGED store
    BY <2>2 DEF store, Lifecycle!lifecycleVars, PublishedVerdict, FinalEvents
  <2>3. ASSUME NEW s \in Sessions,
               \A t \in Sessions : t # s => db'[t] = db[t] /\ log'[t] = log[t]
        PROVE  [Lifecycle!Next]_Lifecycle!lifecycleVars
    <3>1. Seen(s) /\ LogCoherent(s)
      BY <1>2, StepSeen DEF LogInv
    <3>2. QED
      BY <1>2, <2>1, <2>3, <3>1, SeenAdvances, AdvanceRefines
  <2>4. QED
    BY <1>2, <2>2, <2>3, OneSessionWrites
<1>3. QED
  BY LogCoherence, <1>1, <1>2, PTL DEF Spec, ImplementsLifecycle, Lifecycle!Spec
=============================================================================
