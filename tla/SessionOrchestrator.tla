------------------------- MODULE SessionOrchestrator -------------------------
(***************************************************************************)
(* The session orchestrator of the inference service together with the    *)
(* SQLite repository it writes: sessions are created, started, cancelled,  *)
(* run under a bounded semaphore, finalised and, after a restart, failed.  *)
(*                                                                         *)
(* One asyncio loop runs everything, so an action is the code between two  *)
(* awaits that may suspend.  Emitting an event is such an await: the row   *)
(* is inserted synchronously, then the session's Condition is locked, and  *)
(* on Python 3.11 a woken subscriber can hold that lock across a loop      *)
(* iteration.  A repository write is one SQLite transaction; a crash may   *)
(* fall between the two transactions of one action (CrashAfterSave).       *)
(***************************************************************************)
EXTENDS Integers, Sequences, FiniteSets

CONSTANTS
  Sessions,       \* session identifiers (uuid4)
  MaxConcurrent,  \* settings.max_concurrent_sessions
  MaxTurns,       \* budget.max_turns of every run
  MaxToolCalls,   \* budget.max_tool_calls of every run
  MaxCancels,     \* bound: cancel requests accepted per session
  MaxStops,       \* bound: crashes and shutdowns of the process
  HostFaults      \* may the host fail a file or repository access at a point
                  \* the code leaves unprotected

ASSUME BudgetAssumption ==
  /\ MaxConcurrent \in Nat \ {0}
  /\ MaxTurns \in Nat \ {0}
  /\ MaxToolCalls \in Nat \ {0}
  /\ MaxCancels \in Nat
  /\ MaxStops \in Nat
  /\ HostFaults \in BOOLEAN

-----------------------------------------------------------------------------
\* Termination reasons, and the status each one is stored with.
StatusOf ==
  [ submitted           |-> "completed",
    max_total_tokens    |-> "budget_exhausted",
    max_tool_calls      |-> "budget_exhausted",
    max_turns           |-> "budget_exhausted",
    timeout             |-> "timed_out",
    cancelled_by_client |-> "cancelled",
    internal_error      |-> "failed",
    service_restart     |-> "failed" ]
Reasons == DOMAIN StatusOf

TERMINAL_STATUSES ==
  {"completed", "failed", "cancelled", "timed_out", "budget_exhausted"}
Unfinished == {"created", "queued", "running"}
Statuses == {"absent"} \cup Unfinished \cup TERMINAL_STATUSES

\* Event types.  A status event carries its status, so it is named by it.
EventTypes ==
  {"session", "queued", "running", "model", "tool", "budget", "error",
   "cancelled_request", "reward"} \cup TERMINAL_STATUSES

\* What one model reply amounts to; "submitted" is a submit the tool accepted.
Replies == {"over_tokens", "no_call", "tool", "submit"}
Calls   == Replies \cup {"submitted"}

\* A row of the sessions table; status "absent" stands for no row.
Rows == [ status    : Statuses,
          why       : Reasons \cup {"none"},
          cancelReq : BOOLEAN,
          calls     : Nat,          \* usage.model_calls
          tools     : Nat,          \* usage.tool_calls
          final     : BOOLEAN ]     \* is final_sql set
NoRow == [status |-> "absent", why |-> "none", cancelReq |-> FALSE,
          calls |-> 0, tools |-> 0, final |-> FALSE]

\* Locals of the run coroutine: `copy` is its own SessionRead.
Frames == [ copy : Rows, turn : Nat, call : Calls, why : Reasons ]
NoFrame == [copy |-> NoRow, turn |-> 0, call |-> "no_call",
            why |-> "internal_error"]

\* Where the coroutine of a session is suspended.
InLoop == {"entered", "generating", "modelled", "executing", "observed", "exiting"}
InFinalize == {"rewarding", "rewarded", "closing", "popping"}
TaskStages == {"ready", "waiting", "aborting", "failing"} \cup InLoop \cup InFinalize
Stages == {"none", "creating", "idle", "starting"} \cup TaskStages

VARIABLES
  proc,      \* the service process: up, stopping, down, recovering
  db,        \* sessions table
  log,       \* events table: the event types of a session, by sequence
  pc,        \* stage of the session's handler or run task
  run,       \* locals of the run task
  active,    \* orchestrator._active
  flag,      \* sessions whose cancel_requested event is set
  queue,     \* waiters of the semaphore, first come first served
  permits,   \* value of the semaphore
  sandbox,   \* sessions that own tool instances and a database copy
  killed,    \* run tasks with an undelivered CancelledError of shutdown
  stops      \* crashes and shutdowns so far

store  == <<db, log>>
sem    == <<queue, permits>>
vars   == <<proc, db, log, pc, run, active, flag, queue, permits, sandbox,
            killed, stops>>

Init ==
  /\ proc = "up"
  /\ db = [s \in Sessions |-> NoRow]
  /\ log = [s \in Sessions |-> << >>]
  /\ pc = [s \in Sessions |-> "none"]
  /\ run = [s \in Sessions |-> NoFrame]
  /\ active = {} /\ flag = {} /\ sandbox = {} /\ killed = {}
  /\ queue = << >>
  /\ permits = MaxConcurrent
  /\ stops = 0

-----------------------------------------------------------------------------
\* Repository writes.
Save(s, row)  == db' = [db EXCEPT ![s] = row]
Emit(s, type) == log' = [log EXCEPT ![s] = Append(@, type)]
Goto(s, stage) == pc' = [pc EXCEPT ![s] = stage]

\* The rows the code writes, each computed from what its author had read.
CreatedRow == [NoRow EXCEPT !.status = "created"]
QueuedRow(s) == [db[s] EXCEPT !.status = "queued"]
CancelRow(s) == [db[s] EXCEPT !.cancelReq = TRUE]
RunningRow(s) == [run[s].copy EXCEPT !.status = "running"]
RepliedRow(s) == [run[s].copy EXCEPT !.calls = @ + 1]
\* As if an accepted submit were not counted.
ToolRowUncounted(s, submitted) ==
  IF submitted THEN [run[s].copy EXCEPT !.final = TRUE]
  ELSE [run[s].copy EXCEPT !.tools = @ + 1]

ToolRow(s, submitted) ==
  LET counted == [run[s].copy EXCEPT !.tools = @ + 1]
  IN  IF submitted THEN [counted EXCEPT !.final = TRUE] ELSE counted
FinalRow(s) ==
  [run[s].copy EXCEPT !.status = StatusOf[run[s].why], !.why = run[s].why]

\* A submit may be accepted or turned down; no other call submits.
SubmitOutcomes(s) == IF run[s].call = "submit" THEN BOOLEAN ELSE {FALSE}

\* The rows that the next step of a run saves before it emits.
StepRows(s) ==
  CASE pc[s] = "waiting"    -> {RunningRow(s)}
    [] pc[s] = "generating" -> {RepliedRow(s)}
    [] pc[s] = "executing"  ->
         {ToolRow(s, submitted) : submitted \in SubmitOutcomes(s)}
    [] OTHER                -> {}

-----------------------------------------------------------------------------
\* Session creation: initialize_session runs in a worker thread, then the row,
\* the _active entry and the session event are made in one go.
CreateSession(s) ==
  /\ proc = "up" /\ pc[s] = "none" /\ db[s].status = "absent"
  /\ s \notin sandbox
  /\ Goto(s, "creating")
  /\ sandbox' = sandbox \cup {s}
  /\ UNCHANGED <<proc, store, run, active, flag, sem, killed, stops>>

\* As if the instances made before the failure are kept.
CreateFailsKeepingTools(s) ==
  /\ proc = "up" /\ pc[s] = "creating"
  /\ Goto(s, "none")
  /\ UNCHANGED <<proc, store, run, active, flag, sem, sandbox, killed, stops>>

\* A tool's create fails, the sandbox is not isolated or the INSERT fails:
\* every instance made so far is released.
CreateFails(s) ==
  /\ proc = "up" /\ pc[s] = "creating"
  /\ Goto(s, "none")
  /\ sandbox' = sandbox \ {s}
  /\ UNCHANGED <<proc, store, run, active, flag, sem, killed, stops>>

\* Hashing the source database or building the record fails: nothing between
\* initialize_session and the try block releases the instances.
CreateLeaks(s) ==
  /\ HostFaults /\ proc = "up" /\ pc[s] = "creating"
  /\ Goto(s, "none")
  /\ UNCHANGED <<proc, store, run, active, flag, sem, sandbox, killed, stops>>

\* The row is stored, then reading the prompt or appending the session event
\* fails: no handler releases the instances or takes the row back.
CreateFailsLate(s) ==
  /\ HostFaults /\ proc = "up" /\ pc[s] = "creating"
  /\ Save(s, CreatedRow)
  /\ \/ Goto(s, "none") /\ UNCHANGED active
     \/ Goto(s, "idle") /\ active' = active \cup {s}
  /\ UNCHANGED <<proc, log, run, flag, sem, sandbox, killed, stops>>

SessionCreated(s) ==
  /\ proc = "up" /\ pc[s] = "creating"
  /\ Goto(s, "idle")
  /\ Save(s, CreatedRow)
  /\ active' = active \cup {s}
  /\ Emit(s, "session")
  /\ UNCHANGED <<proc, run, flag, sem, sandbox, killed, stops>>

\* As if any unfinished session may be started.
StartRunAgain(s) ==
  /\ proc = "up" /\ s \in active /\ db[s].status \in Unfinished
  /\ Goto(s, "starting")
  /\ Save(s, QueuedRow(s))
  /\ Emit(s, "queued")
  /\ UNCHANGED <<proc, run, active, flag, sem, sandbox, killed, stops>>

\* start_run up to its emit, and the creation of the run task after it.
StartRun(s) ==
  /\ proc = "up" /\ s \in active /\ db[s].status = "created"
  /\ Goto(s, "starting")
  /\ Save(s, QueuedRow(s))
  /\ Emit(s, "queued")
  /\ UNCHANGED <<proc, run, active, flag, sem, sandbox, killed, stops>>

\* The queued event cannot be appended: the row is queued and has no task.
StartRunFails(s) ==
  /\ HostFaults /\ proc = "up" /\ s \in active /\ db[s].status = "created"
  /\ Save(s, QueuedRow(s))
  /\ UNCHANGED <<proc, log, pc, run, active, flag, sem, sandbox, killed, stops>>

SpawnTask(s) ==
  /\ proc = "up" /\ pc[s] = "starting"
  /\ Goto(s, "ready")
  /\ UNCHANGED <<proc, store, run, active, flag, sem, sandbox, killed, stops>>

\* A cancel request on a live session.  backend.abort only makes the pending
\* generation end, which ModelReplies and RunAborted allow at any time.
CancelRequests(s) ==
  Cardinality({i \in DOMAIN log[s] : log[s][i] = "cancelled_request"})

\* As if a session that has ended but is still registered is cancelled too.
CancelEnded(s) ==
  /\ proc = "up" /\ s \in active
  /\ CancelRequests(s) < MaxCancels
  /\ flag' = flag \cup {s}
  /\ Save(s, CancelRow(s))
  /\ Emit(s, "cancelled_request")
  /\ UNCHANGED <<proc, pc, run, active, sem, sandbox, killed, stops>>

Cancel(s) ==
  /\ proc = "up" /\ s \in active /\ db[s].status \in Unfinished
  /\ CancelRequests(s) < MaxCancels
  /\ flag' = flag \cup {s}
  /\ Save(s, CancelRow(s))
  /\ Emit(s, "cancelled_request")
  /\ UNCHANGED <<proc, pc, run, active, sem, sandbox, killed, stops>>

\* The flag is set, then the row or its event cannot be written.
CancelFails(s) ==
  /\ HostFaults /\ proc = "up" /\ s \in active /\ db[s].status \in Unfinished
  /\ flag' = flag \cup {s}
  /\ Save(s, CancelRow(s)) \/ UNCHANGED db
  /\ UNCHANGED <<proc, log, pc, run, active, sem, sandbox, killed, stops>>

-----------------------------------------------------------------------------
\* The run task.  It makes a step when no cancellation is pending for it.
Resumes(s, stage) ==
  /\ proc \in {"up", "stopping"} /\ pc[s] = stage /\ s \notin killed

\* _finalize up to the reward computation: the row is read, then awaited on.
EnterFinalize(s, row, why) ==
  /\ Goto(s, "rewarding")
  /\ run' = [run EXCEPT ![s].copy = row, ![s].why = why]

ToFinalize(s, why) == EnterFinalize(s, db[s], why)

\* Leaving `async with self._semaphore`.
Release == /\ permits' = permits + 1
           /\ UNCHANGED queue

TaskStarts(s) ==
  /\ Resumes(s, "ready")
  /\ Goto(s, "waiting")
  /\ run' = [run EXCEPT ![s].copy = db[s]]
  /\ queue' = Append(queue, s)
  /\ UNCHANGED <<proc, store, active, flag, permits, sandbox, killed, stops>>

\* As if the semaphore lets the head of its queue in at any value.
FirstInQueueAnyValue(s) ==
  /\ Resumes(s, "waiting")
  /\ queue # << >> /\ Head(queue) = s
  /\ queue' = Tail(queue)

FirstInQueue(s) ==
  /\ Resumes(s, "waiting")
  /\ queue # << >> /\ Head(queue) = s /\ permits > 0
  /\ queue' = Tail(queue)

SemaphoreAcquired(s) ==
  /\ FirstInQueue(s) /\ s \notin flag
  /\ permits' = permits - 1
  /\ Goto(s, "entered")
  /\ Save(s, RunningRow(s))
  /\ Emit(s, "running")
  /\ UNCHANGED <<proc, run, active, flag, sandbox, killed, stops>>

\* The cancel flag is set: CancelledError inside the semaphore's block.
CancelledInQueue(s) ==
  /\ FirstInQueue(s) /\ s \in flag
  /\ ToFinalize(s, "cancelled_by_client")
  /\ UNCHANGED <<proc, store, active, flag, permits, sandbox, killed, stops>>

\* The loop goes on after a reply without a call, a rejected submit, or a tool
\* call that leaves tool budget.
LoopContinues(s) ==
  \/ run[s].call \in {"no_call", "submit"}
  \/ run[s].call = "tool" /\ run[s].copy.tools < MaxToolCalls

AtLoopHead(s) ==
  \/ Resumes(s, "entered")
  \/ Resumes(s, "observed") /\ LoopContinues(s) /\ run[s].turn < MaxTurns

TurnBegins(s) ==
  /\ AtLoopHead(s) /\ s \notin flag
  /\ Goto(s, "generating")
  /\ run' = [run EXCEPT ![s].turn = @ + 1,
                        ![s].copy = IF pc[s] = "entered" THEN db[s]
                                                        ELSE run[s].copy]
  /\ UNCHANGED <<proc, store, active, flag, sem, sandbox, killed, stops>>

CancelledAtTurn(s) ==
  /\ AtLoopHead(s) /\ s \in flag
  /\ ToFinalize(s, "cancelled_by_client")
  /\ Release
  /\ UNCHANGED <<proc, store, active, flag, sandbox, killed, stops>>

\* The reply, complete or cut short by an abort, is counted and logged.
ModelReplies(s) ==
  /\ Resumes(s, "generating")
  /\ Goto(s, "modelled")
  /\ Save(s, RepliedRow(s))
  /\ Emit(s, "model")
  /\ \E reply \in Replies :
       run' = [run EXCEPT ![s].copy = RepliedRow(s), ![s].call = reply]
  /\ UNCHANGED <<proc, active, flag, sem, sandbox, killed, stops>>

\* The backend, a tool or the repository raises in a step of the run, before
\* the step has saved its row or after it and before its event is appended.
Raising == {"ready", "waiting", "entered", "generating", "modelled",
            "executing", "observed"}

StepRaises(s, row) ==
  /\ \E stage \in Raising : Resumes(s, stage)
  /\ row \in {db[s]} \cup StepRows(s)
  /\ Save(s, row)
  /\ CASE pc[s] = "ready"   -> UNCHANGED sem
       [] pc[s] = "waiting" -> FirstInQueue(s) /\ s \notin flag /\ UNCHANGED permits
       [] OTHER             -> Release

\* Under the flag that is the cancellation.
RunAborted(s) ==
  /\ s \in flag
  /\ \E row \in {db[s]} \cup StepRows(s) :
       StepRaises(s, row) /\ EnterFinalize(s, row, "cancelled_by_client")
  /\ UNCHANGED <<proc, log, active, flag, sandbox, killed, stops>>

\* Otherwise an error event is written; that write is unprotected.
RunFails(s) ==
  /\ s \notin flag
  /\ \E row \in {db[s]} \cup StepRows(s) :
       /\ StepRaises(s, row)
       /\ \/ Goto(s, "failing") /\ Emit(s, "error") /\ UNCHANGED run
          \/ HostFaults /\ EnterFinalize(s, row, "internal_error") /\ UNCHANGED log
  /\ UNCHANGED <<proc, active, flag, sandbox, killed, stops>>

TokensExhausted(s) ==
  /\ Resumes(s, "modelled") /\ run[s].call = "over_tokens"
  /\ Goto(s, "exiting")
  /\ Emit(s, "budget")
  /\ run' = [run EXCEPT ![s].why = "max_total_tokens"]
  /\ UNCHANGED <<proc, db, active, flag, sem, sandbox, killed, stops>>

MissingCall(s) ==
  /\ Resumes(s, "modelled") /\ run[s].call = "no_call"
  /\ Goto(s, "observed")
  /\ Emit(s, "error")
  /\ UNCHANGED <<proc, db, run, active, flag, sem, sandbox, killed, stops>>

ToolCalled(s) ==
  /\ Resumes(s, "modelled") /\ run[s].call \in {"tool", "submit"}
  /\ Goto(s, "executing")
  /\ UNCHANGED <<proc, store, run, active, flag, sem, sandbox, killed, stops>>

\* Any tool answers; a submit may have been accepted or turned down.
ToolReturns(s) ==
  /\ Resumes(s, "executing") /\ s \in sandbox
  /\ \E submitted \in SubmitOutcomes(s) :
       /\ Save(s, ToolRow(s, submitted))
       /\ run' = [run EXCEPT ![s].copy = ToolRow(s, submitted),
                             ![s].call = IF submitted THEN "submitted" ELSE @]
  /\ Goto(s, "observed")
  /\ Emit(s, "tool")
  /\ UNCHANGED <<proc, active, flag, sem, sandbox, killed, stops>>

\* The tool budget does not end a run on a submit_solution call.
ToolBudgetExhausted(s) ==
  /\ Resumes(s, "observed")
  /\ run[s].call = "tool" /\ run[s].copy.tools >= MaxToolCalls
  /\ Goto(s, "exiting")
  /\ Emit(s, "budget")
  /\ run' = [run EXCEPT ![s].why = "max_tool_calls"]
  /\ UNCHANGED <<proc, db, active, flag, sem, sandbox, killed, stops>>

TurnsExhausted(s) ==
  /\ Resumes(s, "observed") /\ LoopContinues(s) /\ run[s].turn = MaxTurns
  /\ Goto(s, "exiting")
  /\ Emit(s, "budget")
  /\ run' = [run EXCEPT ![s].why = "max_turns"]
  /\ UNCHANGED <<proc, db, active, flag, sem, sandbox, killed, stops>>

Submitted(s) ==
  /\ Resumes(s, "observed") /\ run[s].call = "submitted"
  /\ ToFinalize(s, "submitted")
  /\ Release
  /\ UNCHANGED <<proc, store, active, flag, sandbox, killed, stops>>

LoopReturns(s) ==
  /\ Resumes(s, "exiting")
  /\ ToFinalize(s, run[s].why)
  /\ Release
  /\ UNCHANGED <<proc, store, active, flag, sandbox, killed, stops>>

\* asyncio.timeout covers the wait for the semaphore and the whole loop.
\* As if a waiter that gives up stays in the queue.
StayInQueue(s) == s \in Sessions /\ UNCHANGED queue

LeaveQueue(s) ==
  \E i \in DOMAIN queue :
    /\ queue[i] = s
    /\ queue' = SubSeq(queue, 1, i - 1) \o SubSeq(queue, i + 1, Len(queue))

TimesOut(s) ==
  /\ \E stage \in {"waiting"} \cup InLoop : Resumes(s, stage)
  /\ Goto(s, "aborting")
  /\ IF pc[s] = "waiting" THEN LeaveQueue(s) /\ UNCHANGED permits ELSE Release
  /\ UNCHANGED <<proc, store, run, active, flag, sandbox, killed, stops>>

HandlerDone(s) ==
  /\ \/ Resumes(s, "aborting") /\ ToFinalize(s, "timeout")
     \/ Resumes(s, "failing") /\ ToFinalize(s, "internal_error")
  /\ UNCHANGED <<proc, store, active, flag, sem, sandbox, killed, stops>>

-----------------------------------------------------------------------------
\* _finalize: terminal row and reward event, status event, clean-up.
FinalizeSaves(s) ==
  /\ Resumes(s, "rewarding")
  /\ Goto(s, "rewarded")
  /\ Save(s, FinalRow(s))
  /\ Emit(s, "reward")
  /\ UNCHANGED <<proc, run, active, flag, sem, sandbox, killed, stops>>

\* The repository raises inside _finalize: only its finally block runs.
FinalizeRaises(s) ==
  /\ HostFaults
  /\ \/ Resumes(s, "rewarding") /\ (Save(s, FinalRow(s)) \/ UNCHANGED db)
     \/ Resumes(s, "rewarded") /\ UNCHANGED db
  /\ Goto(s, "closing")
  /\ UNCHANGED <<proc, log, run, active, flag, sem, sandbox, killed, stops>>

FinalStatus(s) ==
  /\ Resumes(s, "rewarded")
  /\ Goto(s, "closing")
  /\ Emit(s, StatusOf[run[s].why])
  /\ UNCHANGED <<proc, db, run, active, flag, sem, sandbox, killed, stops>>

\* As if the instances of an ended session are forgotten, not released.
SandboxForgotten(s) ==
  /\ Resumes(s, "closing")
  /\ Goto(s, "popping")
  /\ UNCHANGED <<proc, store, run, active, flag, sem, sandbox, killed, stops>>

SandboxReleased(s) ==
  /\ Resumes(s, "closing")
  /\ Goto(s, "popping")
  /\ sandbox' = sandbox \ {s}
  /\ UNCHANGED <<proc, store, run, active, flag, sem, killed, stops>>

SessionPopped(s) ==
  /\ Resumes(s, "popping")
  /\ Goto(s, "none")
  /\ run' = [run EXCEPT ![s] = NoFrame]
  /\ active' = active \ {s}
  /\ flag' = flag \ {s}
  /\ UNCHANGED <<proc, store, sem, sandbox, killed, stops>>

-----------------------------------------------------------------------------
\* Shutdown of the application: every live task is cancelled once.  The HTTP
\* server has drained its requests before the lifespan ends.
Shutdown ==
  /\ proc = "up" /\ stops < MaxStops
  /\ \A s \in Sessions : pc[s] \notin {"creating", "starting"}
  /\ proc' = "stopping"
  /\ stops' = stops + 1
  /\ killed' = {s \in active : pc[s] \in TaskStages}
  /\ flag' = flag \cup killed'
  /\ UNCHANGED <<store, pc, run, active, sem, sandbox>>

Dies(s) == proc = "stopping" /\ s \in killed /\ killed' = killed \ {s}

\* A task that never ran leaves no trace: its coroutine is not entered.
KilledUnstarted(s) ==
  /\ Dies(s)
  /\ \/ pc[s] = "ready"
     \/ pc[s] = "popping"     \* pop of _active is skipped
  /\ Goto(s, "none")
  /\ UNCHANGED <<proc, store, run, active, flag, sem, sandbox, stops>>

KilledInQueue(s) ==
  /\ Dies(s) /\ pc[s] = "waiting"
  /\ LeaveQueue(s)
  /\ ToFinalize(s, "cancelled_by_client")
  /\ UNCHANGED <<proc, store, active, flag, permits, sandbox, stops>>

KilledInLoop(s) ==
  /\ Dies(s) /\ pc[s] \in InLoop
  /\ ToFinalize(s, "cancelled_by_client")
  /\ Release
  /\ UNCHANGED <<proc, store, active, flag, sandbox, stops>>

KilledInHandler(s) ==
  /\ Dies(s)
  /\ \/ pc[s] = "aborting" /\ ToFinalize(s, "timeout")
     \/ pc[s] = "failing" /\ ToFinalize(s, "internal_error")
  /\ UNCHANGED <<proc, store, active, flag, sem, sandbox, stops>>

\* CancelledError is no Exception: _finalize goes straight to its finally.
KilledInFinalize(s) ==
  /\ Dies(s)
  /\ \/ pc[s] \in {"rewarding", "rewarded"} /\ Goto(s, "closing") /\ UNCHANGED sandbox
     \/ pc[s] = "closing" /\ Goto(s, "popping") /\ sandbox' = sandbox \ {s}
  /\ UNCHANGED <<proc, store, run, active, flag, sem, stops>>

\* Nothing in memory survives the process.
MemoryLost ==
  /\ proc' = "down"
  /\ pc' = [s \in Sessions |-> "none"]
  /\ run' = [s \in Sessions |-> NoFrame]
  /\ active' = {} /\ flag' = {} /\ sandbox' = {} /\ killed' = {}
  /\ queue' = << >> /\ permits' = MaxConcurrent

ShutdownDone ==
  /\ proc = "stopping"
  /\ \A s \in Sessions : pc[s] \notin TaskStages
  /\ MemoryLost
  /\ UNCHANGED <<store, stops>>

Crash ==
  /\ proc # "down" /\ stops < MaxStops
  /\ stops' = stops + 1
  /\ MemoryLost
  /\ UNCHANGED store

\* The rows that the writers of a session may be about to save.
NextRows(s) ==
  (CASE pc[s] = "creating"   -> {CreatedRow}
     [] pc[s] = "rewarding"  -> {FinalRow(s)}
     [] OTHER                -> StepRows(s))
  \cup (IF s \in active /\ db[s].status \in Unfinished THEN {CancelRow(s)} ELSE {})
  \cup (IF s \in active /\ db[s].status = "created" THEN {QueuedRow(s)} ELSE {})

\* The process dies after that save and before the event that follows it.
CrashAfterSave(s) ==
  /\ proc = "up" /\ stops < MaxStops
  /\ stops' = stops + 1
  /\ \E row \in NextRows(s) : Save(s, row)
  /\ MemoryLost
  /\ UNCHANGED log

\* mark_interrupted_sessions_failed, row by row, before requests are served.
Restart ==
  /\ proc = "down"
  /\ proc' = "recovering"
  /\ UNCHANGED <<store, pc, run, active, flag, sem, sandbox, killed, stops>>

MarkInterrupted(s) ==
  /\ proc = "recovering" /\ db[s].status \in Unfinished
  /\ Save(s, [db[s] EXCEPT !.status = "failed", !.why = "service_restart"])
  /\ UNCHANGED <<proc, log, pc, run, active, flag, sem, sandbox, killed, stops>>

\* As if requests are served while the pass is under way.
ServiceUpEarly ==
  /\ proc = "recovering"
  /\ proc' = "up"
  /\ UNCHANGED <<store, pc, run, active, flag, sem, sandbox, killed, stops>>

ServiceUp ==
  /\ proc = "recovering"
  /\ \A s \in Sessions : db[s].status \notin Unfinished
  /\ proc' = "up"
  /\ UNCHANGED <<store, pc, run, active, flag, sem, sandbox, killed, stops>>

-----------------------------------------------------------------------------
Client(s) ==
  \/ CreateSession(s) \/ StartRun(s) \/ StartRunFails(s)
  \/ Cancel(s) \/ CancelFails(s)

Handler(s) ==
  \/ CreateFails(s) \/ CreateLeaks(s) \/ CreateFailsLate(s)
  \/ SessionCreated(s) \/ SpawnTask(s)

Loop(s) ==
  \/ TaskStarts(s) \/ SemaphoreAcquired(s) \/ CancelledInQueue(s)
  \/ TurnBegins(s) \/ CancelledAtTurn(s)
  \/ ModelReplies(s) \/ RunAborted(s) \/ RunFails(s)
  \/ TokensExhausted(s) \/ MissingCall(s) \/ ToolCalled(s) \/ ToolReturns(s)
  \/ ToolBudgetExhausted(s) \/ TurnsExhausted(s) \/ Submitted(s)
  \/ LoopReturns(s) \/ TimesOut(s) \/ HandlerDone(s)

Finalize(s) ==
  \/ FinalizeSaves(s) \/ FinalizeRaises(s) \/ FinalStatus(s)
  \/ SandboxReleased(s) \/ SessionPopped(s)

Killed(s) ==
  \/ KilledUnstarted(s) \/ KilledInQueue(s) \/ KilledInLoop(s)
  \/ KilledInHandler(s) \/ KilledInFinalize(s)

Task(s) == Loop(s) \/ Finalize(s) \/ Killed(s)

Stop == Shutdown \/ ShutdownDone \/ Crash \/ \E s \in Sessions : CrashAfterSave(s)

Recovery == Restart \/ ServiceUp \/ \E s \in Sessions : MarkInterrupted(s)

Next ==
  \/ \E s \in Sessions : Client(s) \/ Handler(s) \/ Task(s)
  \/ Stop
  \/ Recovery

\* The event loop runs every ready task, and the timeout makes every await of
\* a run end; the lifespan waits for its tasks and then ends.  Nothing obliges
\* a client to call or a supervisor to restart.
Fairness ==
  /\ \A s \in Sessions : WF_vars(Handler(s)) /\ WF_vars(Task(s))
  /\ WF_vars(ShutdownDone)

Spec == Init /\ [][Next]_vars /\ Fairness
-----------------------------------------------------------------------------
\* Properties.

\* Every variable keeps the type the code gives it.
TypeOK ==
  /\ proc \in {"up", "stopping", "down", "recovering"}
  /\ db \in [Sessions -> Rows]
  /\ log \in [Sessions -> Seq(EventTypes)]
  /\ pc \in [Sessions -> Stages]
  /\ run \in [Sessions -> Frames]
  /\ active \subseteq Sessions /\ flag \subseteq Sessions
  /\ sandbox \subseteq Sessions /\ killed \subseteq Sessions
  /\ queue \in Seq(Sessions)
  /\ permits \in Nat
  /\ stops \in 0..MaxStops

Terminal(s) == db[s].status \in TERMINAL_STATUSES
Logged(s, type) == {i \in DOMAIN log[s] : log[s][i] = type}
FinalEvents(s) == {i \in DOMAIN log[s] : log[s][i] \in TERMINAL_STATUSES}

\* The semaphore's value is what the runs inside it leave over, whatever mix of
\* cancellations, timeouts, errors and shutdowns has ended the others: no permit
\* is lost or returned twice, and waiters are exactly the queued coroutines.
PermitsAccounted ==
  /\ permits + Cardinality({s \in Sessions : pc[s] \in InLoop}) = MaxConcurrent
  /\ {queue[i] : i \in DOMAIN queue} = {s \in Sessions : pc[s] = "waiting"}
  /\ \A i, j \in DOMAIN queue : queue[i] = queue[j] => i = j

\* The trajectory of a session reads as one run: it opens with the session
\* event (unless the host let that write fail), queued and running follow once
\* each and in that order, the reward is followed by nothing but the terminal
\* status, and that status ends it.
LogGrammar == \A s \in Sessions :
  /\ \A i \in DOMAIN log[s] :
       /\ log[s][i] = "session" => i = 1
       /\ i = 1 /\ ~HostFaults => log[s][i] = "session"
  /\ \A i \in Logged(s, "running") : \E j \in Logged(s, "queued") : j < i
  /\ \A type \in {"queued", "running", "reward"} : Cardinality(Logged(s, type)) <= 1
  /\ \A i \in Logged(s, "reward") : i >= Len(log[s]) - 1
  /\ \A i \in FinalEvents(s) : i = Len(log[s]) /\ log[s][i - 1] = "reward"

\* A session that has ended keeps its whole row: no stale copy held by a
\* coroutine, late cancel or recovery pass overwrites its verdict or usage.
TerminalRowFrozen ==
  [][\A s \in Sessions : Terminal(s) => db'[s] = db[s]]_vars

\* Row and log tell one story, also after restarts: the verdict that subscribers
\* read is the stored one, an interrupted session never claims one in its log, and
\* the usage counters count the logged model and tool events, though the row is
\* saved from the coroutine's own copy while cancel saves from a fresh one.  A
\* crash, or an exception between the row and its event, can leave one event
\* unlogged; no run goes on after that, and a session that submitted, exhausted a
\* budget or timed out has logged everything it counted.
VerdictMatchesRow(s) ==
  /\ \A i \in FinalEvents(s) :
       log[s][i] = db[s].status /\ db[s].why # "service_restart"
  /\ Logged(s, "reward") # {} => Terminal(s)

UsageMatchesLog(s) ==
  LET models == Cardinality(Logged(s, "model"))
      tools  == Cardinality(Logged(s, "tool"))
      lag    == (db[s].calls - models) + (db[s].tools - tools)
  IN  /\ db[s].calls >= models /\ db[s].tools >= tools
      /\ lag > 0 => /\ lag = 1
                    /\ pc[s] \in {"none", "failing"} \cup InFinalize
                    /\ \/ db[s].status \in Unfinished
                       \/ db[s].why \in {"internal_error", "cancelled_by_client",
                                         "service_restart"}

RowMatchesLog == \A s \in Sessions : VerdictMatchesRow(s) /\ UsageMatchesLog(s)

\* While the service serves, an unfinished session has the memory and the
\* coroutine that will carry it on: nothing is stranded in queued or running.
NoStrandedSession == \A s \in Sessions :
  proc = "up" =>
    /\ db[s].status = "created" => s \in active /\ pc[s] = "idle"
    /\ db[s].status = "queued" =>
         s \in active /\ pc[s] \in {"starting", "ready", "waiting", "aborting",
                                   "failing", "rewarding"}
    /\ db[s].status = "running" => s \in active /\ pc[s] \in TaskStages

\* A coroutine that can call a tool owns its instances, and instances are held
\* only for a session that is being created or is still registered.
SandboxOwned == \A s \in Sessions :
  /\ pc[s] \in InLoop => s \in sandbox
  /\ s \in sandbox => pc[s] = "creating" \/ s \in active

\* A started run ends with a terminal row and has then given its database copy
\* back, unless the process stops first; the copy goes in any case.
StartedRunEnds == \A s \in Sessions :
  (pc[s] \in TaskStages) ~> (s \notin sandbox /\ (Terminal(s) \/ proc # "up"))

\* What test_product_service.py asserts of a cancelled session: its stored row
\* says that cancellation was requested.
CancelledRowSaysSo == \A s \in Sessions :
  (db[s].status = "cancelled" /\ Logged(s, "cancelled_request") # {})
    => db[s].cancelReq
-----------------------------------------------------------------------------
\* The orchestrator implements the lifecycle its API promises.
PublishedVerdict ==
  [s \in Sessions |->
     IF FinalEvents(s) = {} THEN "none" ELSE log[s][Len(log[s])]]

Lifecycle == INSTANCE SessionLifecycle
  WITH status <- [s \in Sessions |-> db[s].status], verdict <- PublishedVerdict

\* Every step of the orchestrator, the repository and their crashes is a step
\* of the lifecycle or leaves it alone.
ImplementsLifecycle == Lifecycle!Spec
=============================================================================
