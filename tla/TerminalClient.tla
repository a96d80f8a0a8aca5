--------------------------- MODULE TerminalClient ---------------------------
(***************************************************************************)
(* The full-screen terminal client (driftsql/cli/tui.py) against the        *)
(* service it drives.  The Textual event loop runs one handler at a time:   *)
(* each handler is one action.  What a handler starts in a worker thread     *)
(* (an agent run, a model switch, a cancel, a trace, a refresh) reads and    *)
(* calls the service on its own and comes back through call_from_thread, so  *)
(* every request and every call back is an action too, in any interleaving.  *)
(* The service is modelled as its HTTP client sees it (cli/client.py): a     *)
(* request is served or fails, and may fail after it was served.             *)
(***************************************************************************)
EXTENDS Integers, Sequences, FiniteSets

CONSTANTS
  Questions,    \* what the user may type, each at most once
  Dbs, DefaultDb,
  Refers,       \* Refers[q]: the databases whose @paths question q contains
  Models, FirstModel,
  None,
  MaxFaults,    \* bound: requests that fail
  MaxGestures   \* bound: gestures other than sending a question

\* "recovery" is no question: it names the runs of /recover.
ASSUME ClientAssumption ==
  /\ IsFiniteSet(Questions) /\ "recovery" \notin Questions
  /\ Refers \in [Questions -> SUBSET Dbs] /\ DefaultDb \in Dbs
  /\ None \notin Dbs /\ None \notin Nat
  /\ MaxGestures \in Nat /\ MaxFaults \in Nat

VARIABLES
  open,            \* the application runs
  loaded,          \* bootstrap has filled the database and model payloads
  busy, queue, drains,      \* busy flag, message_queue, pending drain timers
  currentDb, currentSession, shownModel,
  tone,            \* tone of the activity line: "warn" reads as running
  details, armed, draft,    \* details_expanded, _idle_interrupt_armed, composer text
  listed,          \* session_payload, the history the picker offers
  runs,            \* agent-run workers, in the order they were started
  jobs,            \* the other worker threads
  submitted, refused,       \* questions typed so far; those answered by a refusal
  queuedNotices, sendingNotices,  \* transcript lines on the message queue
  gestures, faults,
  status, sessionDb, cancelRequested, activeModel  \* the service

pageVars    == <<open, loaded, details, listed>>
roundVars   == <<busy, queue, drains, runs, submitted, refused, queuedNotices, sendingNotices>>
choiceVars  == <<currentDb, currentSession, shownModel>>
promptVars  == <<armed, draft>>
boundVars   == <<gestures, faults>>
serviceVars == <<status, sessionDb, cancelRequested, activeModel>>
vars == <<pageVars, roundVars, choiceVars, promptVars, boundVars, serviceVars, tone, jobs>>

\* Every question and every /recover creates at most one session.
SessionIds == 1..(Cardinality(Questions) + MaxGestures)
Live == {"queued", "running"}
TERMINAL_STATES == {"completed", "failed", "cancelled"}

(***************************************************************************)
(* The service, as the client's requests find it.                           *)
(***************************************************************************)
ServiceInit ==
  /\ status = [s \in SessionIds |-> "absent"]
  /\ sessionDb = [s \in SessionIds |-> None]
  /\ cancelRequested = {} /\ activeModel = FirstModel

FreshSession == CHOOSE s \in SessionIds :
  status[s] = "absent" /\ \A r \in SessionIds : r < s => status[r] # "absent"

create_session(s, db) ==
  /\ status' = [status EXCEPT ![s] = "created"]
  /\ sessionDb' = [sessionDb EXCEPT ![s] = db]
  /\ UNCHANGED <<activeModel, cancelRequested>>

run_session(s) ==
  /\ status' = [status EXCEPT ![s] = "queued"]
  /\ UNCHANGED <<sessionDb, activeModel, cancelRequested>>

ServiceProgress(s) ==
  /\ open
  /\ \/ status[s] = "queued"  /\ status' = [status EXCEPT ![s] = "running"]
     \/ /\ status[s] = "running"
        /\ \E t \in {"completed", "failed"} : status' = [status EXCEPT ![s] = t]
     \/ /\ status[s] \in Live /\ s \in cancelRequested
        /\ status' = [status EXCEPT ![s] = "cancelled"]
  /\ UNCHANGED <<pageVars, roundVars, choiceVars, promptVars, boundVars, tone, jobs,
                 sessionDb, activeModel, cancelRequested>>

\* The next request fails; the bound keeps the outage finite.
RequestFails == faults < MaxFaults /\ faults' = faults + 1

(***************************************************************************)
(* Worker threads other than the agent run.                                 *)
(***************************************************************************)
Job(id, op, target) ==
  [id |-> id, op |-> op, target |-> target, phase |-> "call", reply |-> None]

Start(id, op, target) == jobs' = jobs \cup {Job(id, op, target)}

Answered(j, reply) ==
  jobs' = (jobs \ {j}) \cup {[j EXCEPT !.phase = "apply", !.reply = reply]}

Ended(j) == jobs' = jobs \ {j}

Init ==
  /\ open = TRUE /\ loaded = FALSE
  /\ busy = FALSE /\ queue = <<>> /\ drains = 0
  /\ currentDb = None /\ currentSession = None /\ shownModel = None
  /\ tone = "warn" /\ details = FALSE /\ armed = FALSE /\ draft = FALSE
  /\ listed = {} /\ runs = <<>>
  /\ jobs = {Job(0, "bootstrap", None)}
  /\ submitted = {} /\ refused = {}
  /\ queuedNotices = <<>> /\ sendingNotices = <<>>
  /\ gestures = 0 /\ faults = 0
  /\ ServiceInit

(***************************************************************************)
(* Sending questions: _start_query and the agent-run workers.               *)
(***************************************************************************)
NewRun(question, db) ==
  [question |-> question, askedOn |-> db, phase |-> "create", session |-> None]

\* The database a question runs on once its @paths are resolved.
DatabaseFor(q) == IF Refers[q] = {} THEN currentDb ELSE CHOOSE db \in Refers[q] : TRUE

\* As if the database were switched before the busy check.
StartQuerySwitchesFirst(q, rest) ==
  \/ /\ busy
     /\ queue' = Append(rest, q)
     /\ queuedNotices' = Append(queuedNotices, q)
     /\ currentDb' = IF Cardinality(Refers[q]) = 1 THEN DatabaseFor(q) ELSE currentDb
     /\ UNCHANGED <<busy, runs, refused, tone>>
  \/ /\ ~busy
     /\ queue' = rest
     /\ currentDb' = IF Cardinality(Refers[q]) = 1 THEN DatabaseFor(q) ELSE currentDb
     /\ busy' = TRUE /\ tone' = "warn"
     /\ runs' = Append(runs, NewRun(q, currentDb'))
     /\ UNCHANGED <<refused, queuedNotices>>
NextInQueueKept == queue
NextInQueue == Tail(queue)

\* _start_query, with `rest` the queue without q: queue q behind a running
\* round, refuse it, or switch to the database it refers to and start a worker.
StartQuery(q, rest) ==
  \/ /\ busy
     /\ queue' = Append(rest, q)
     /\ queuedNotices' = Append(queuedNotices, q)
     /\ UNCHANGED <<busy, runs, refused, currentDb, tone>>
  \/ /\ ~busy /\ (currentDb = None \/ Cardinality(Refers[q]) > 1)
     /\ queue' = rest
     /\ refused' = refused \cup {q}
     /\ UNCHANGED <<busy, runs, queuedNotices, currentDb, tone>>
  \/ /\ ~busy /\ currentDb # None /\ Cardinality(Refers[q]) <= 1
     /\ queue' = rest
     /\ currentDb' = DatabaseFor(q)
     /\ busy' = TRUE /\ tone' = "warn"
     /\ runs' = Append(runs, NewRun(q, currentDb'))
     /\ UNCHANGED <<refused, queuedNotices>>

\* on_input_submitted with plain text: the composer is emptied and disarmed.
SubmitQuestion(q) ==
  /\ open /\ q \notin submitted
  /\ submitted' = submitted \cup {q}
  /\ StartQuery(q, queue)
  /\ draft' = FALSE /\ armed' = FALSE
  /\ UNCHANGED <<pageVars, boundVars, serviceVars, jobs, drains, sendingNotices,
                 currentSession, shownModel>>

\* _drain_message_queue, the timer _finish_session sets 0.05 s ahead.
NothingToDrain == busy \/ queue = <<>>

DrainQueue ==
  /\ open /\ drains > 0
  /\ drains' = drains - 1
  /\ \/ /\ NothingToDrain
        /\ UNCHANGED <<busy, queue, runs, refused, queuedNotices, sendingNotices, currentDb, tone>>
     \/ /\ ~NothingToDrain
        /\ sendingNotices' = Append(sendingNotices, Head(queue))
        /\ StartQuery(Head(queue), NextInQueue)
  /\ UNCHANGED <<pageVars, promptVars, boundVars, serviceVars, jobs, submitted,
                 currentSession, shownModel>>

\* A gesture of the user other than sending a question.
Gesture == open /\ gestures < MaxGestures /\ gestures' = gestures + 1

\* /recover <scenario>: refused while busy, needs no selected database.
RecoverAlwaysAllowed == TRUE
RecoverAllowed == ~busy

Recover ==
  /\ Gesture /\ RecoverAllowed
  /\ busy' = TRUE
  /\ runs' = Append(runs, NewRun("recovery", DefaultDb))
  /\ UNCHANGED <<pageVars, choiceVars, promptVars, serviceVars, tone, jobs, faults, queue, drains,
                 submitted, refused, queuedNotices, sendingNotices>>

Moves(w, from, to) ==
  /\ open /\ runs[w].phase = from
  /\ runs' = [runs EXCEPT ![w].phase = to]

roundRest == <<queue, submitted, refused, queuedNotices, sendingNotices>>
workerFrame == <<pageVars, promptVars, gestures, jobs, roundRest, shownModel, currentDb>>

\* run_query and run_recovery: a query names the database selected when the
\* request is made, not the one selected when the question was sent.
RunCreate(w) ==
  LET s == FreshSession IN
  /\ open /\ runs[w].phase = "create"
  /\ \/ /\ create_session(s, IF runs[w].question = "recovery" THEN DefaultDb ELSE currentDb)
        /\ \/ runs' = [runs EXCEPT ![w].phase = "started", ![w].session = s] /\ UNCHANGED faults
           \/ runs' = [runs EXCEPT ![w].phase = "error"] /\ RequestFails
     \/ /\ runs' = [runs EXCEPT ![w].phase = "error"] /\ RequestFails
        /\ UNCHANGED serviceVars
  /\ UNCHANGED <<workerFrame, busy, drains, currentSession, tone>>

\* _session_started, in the event loop.
SessionStarted(w) ==
  /\ Moves(w, "started", "run")
  /\ currentSession' = runs[w].session
  /\ UNCHANGED <<workerFrame, busy, drains, faults, serviceVars, tone>>

RunSession(w) ==
  /\ open /\ runs[w].phase = "run"
  /\ \/ /\ run_session(runs[w].session)
        /\ \/ Moves(w, "run", "stream") /\ UNCHANGED faults
           \/ Moves(w, "run", "error") /\ RequestFails
     \/ /\ Moves(w, "run", "error") /\ RequestFails
        /\ UNCHANGED serviceVars
  /\ UNCHANGED <<workerFrame, busy, drains, currentSession, tone>>

\* One more event of the stream is drawn; model and status events write to the
\* activity line.
RenderEvent(w) ==
  /\ open /\ runs[w].phase = "stream" /\ status[runs[w].session] # "queued"
  /\ tone' = "warn"
  /\ UNCHANGED <<workerFrame, runs, busy, drains, faults, currentSession, serviceVars>>

\* The service closes the stream once the session is terminal.
StreamClosesEarly(s) == status[s] # "created"
StreamCloses(s) == status[s] \in TERMINAL_STATES

StreamEnds(w) ==
  /\ \/ Moves(w, "stream", "final") /\ StreamCloses(runs[w].session) /\ UNCHANGED faults
     \/ Moves(w, "stream", "error") /\ RequestFails
  /\ UNCHANGED <<workerFrame, busy, drains, currentSession, serviceVars, tone>>

\* client.session and client.trajectory: only an API error of the second is
\* forgiven, so either can still turn a finished run into a failed round.
ReadFinal(w) ==
  /\ \/ Moves(w, "final", "finish") /\ UNCHANGED faults
     \/ Moves(w, "final", "error") /\ RequestFails
  /\ UNCHANGED <<workerFrame, busy, drains, currentSession, serviceVars, tone>>

\* _finish_session: the verdict is shown, the history is refreshed and, when
\* questions wait, the drain timer is set.
DrainsAfterNone == drains
DrainsAfter == IF queue # <<>> THEN drains + 1 ELSE drains

FinishSession(w) ==
  /\ Moves(w, "finish", "done")
  /\ busy' = FALSE
  /\ drains' = DrainsAfter
  /\ tone' = IF status[runs[w].session] = "completed" THEN "ok" ELSE "error"
  /\ Start(w, "sessions", None)
  /\ UNCHANGED <<pageVars, promptVars, boundVars, choiceVars, roundRest, serviceVars>>

\* _finish_with_error: the message queue is left as it is.
FinishWithError(w) ==
  /\ Moves(w, "error", "failed")
  /\ busy' = FALSE
  /\ tone' = "error"
  /\ UNCHANGED <<workerFrame, drains, faults, currentSession, serviceVars>>

(***************************************************************************)
(* Bootstrap, history, model switch, cancel and trace workers.              *)
(***************************************************************************)
jobFrame == <<roundVars, promptVars, gestures>>

Listed == {s \in SessionIds : status[s] # "absent"}

\* 409 Conflict: the service still holds a session, one never run included.
Conflicts(j) == j.op = "activate" /\ \E s \in SessionIds : status[s] \in Live \cup {"created"}

\* A request of a worker is answered from the service's state at that moment,
\* or fails; show_error writes to the activity line, refresh_sessions is silent.
JobRequest(j) ==
  /\ open /\ j.phase = "call"
  /\ \/ /\ j.op = "bootstrap" /\ Answered(j, [model |-> activeModel, sessions |-> Listed])
        /\ UNCHANGED serviceVars
     \/ /\ j.op = "trace" /\ Answered(j, [ran |-> status[j.target] \notin {"absent", "created", "queued"}])
        /\ UNCHANGED serviceVars
     \/ /\ j.op = "cancel"
        /\ Answered(j, None)
        /\ cancelRequested' = IF status[j.target] \in TERMINAL_STATES THEN cancelRequested
                              ELSE cancelRequested \cup {j.target}
        /\ UNCHANGED <<status, sessionDb, activeModel>>
     \/ /\ j.op = "activate"
        /\ ~Conflicts(j)
        /\ Answered(j, [model |-> j.target])
        /\ activeModel' = j.target
        /\ UNCHANGED <<status, sessionDb, cancelRequested>>
  /\ UNCHANGED <<jobFrame, pageVars, choiceVars, faults, tone>>

JobFails(j) ==
  /\ open /\ j.phase = "call"
  /\ \/ Conflicts(j) /\ UNCHANGED faults
     \/ RequestFails
  /\ Ended(j)
  /\ tone' = IF j.op = "sessions" THEN tone ELSE "error"
  /\ UNCHANGED <<jobFrame, pageVars, choiceVars, serviceVars>>

\* _apply_bootstrap
ApplyBootstrap(j) ==
  /\ open /\ j.phase = "apply" /\ j.op = "bootstrap"
  /\ loaded' = TRUE /\ listed' = j.reply.sessions
  /\ shownModel' = j.reply.model
  /\ currentDb' = IF currentDb = None THEN DefaultDb ELSE currentDb
  /\ tone' = "ok"
  /\ Ended(j)
  /\ UNCHANGED <<jobFrame, open, details, currentSession, faults, serviceVars>>

\* refresh_sessions and _apply_sessions; only the history picker reads the list.
RefreshSessions(j) ==
  /\ open /\ j.op = "sessions" /\ Ended(j)
  /\ listed' = Listed
  /\ UNCHANGED <<jobFrame, open, loaded, details, choiceVars, faults, serviceVars, tone>>

\* _model_activated, the cancel notice and _render_expanded_trace,
\* which draws the model events of a session that ran.
ApplyJob(j) ==
  /\ open /\ j.phase = "apply" /\ j.op # "bootstrap"
  /\ shownModel' = IF j.op = "activate" THEN j.reply.model ELSE shownModel
  /\ tone' = CASE j.op = "activate" -> "ok"
               [] j.op = "trace" /\ j.reply.ran -> "warn"
               [] OTHER -> tone
  /\ Ended(j)
  /\ UNCHANGED <<jobFrame, pageVars, currentDb, currentSession, faults, serviceVars>>

gestureFrame == <<roundVars, serviceVars, faults>>

\* /models use and the picker: activate_model is exclusive in its group, but a
\* request already in a thread cannot be called back.
ActivateModel(m) ==
  /\ Gesture
  /\ Start(gestures, "activate", m)
  /\ tone' = "warn"
  /\ UNCHANGED <<gestureFrame, pageVars, choiceVars, promptVars>>

\* /db and the picker; refused before bootstrap has loaded the databases.
SelectDatabase(db) ==
  /\ Gesture /\ loaded /\ db # currentDb
  /\ currentDb' = db
  /\ UNCHANGED <<gestureFrame, pageVars, promptVars, tone, jobs, currentSession, shownModel>>

\* /sessions: the picked session becomes the current one, even while busy.
PickSession(s) ==
  /\ Gesture /\ s \in listed
  /\ currentSession' = s
  /\ UNCHANGED <<gestureFrame, pageVars, promptVars, tone, jobs, currentDb, shownModel>>

\* /clear and /new
Clear ==
  /\ Gesture
  /\ currentSession' = None
  /\ UNCHANGED <<gestureFrame, pageVars, promptVars, tone, jobs, currentDb, shownModel>>

ToggleDetails ==
  /\ Gesture
  /\ details' = ~details
  /\ tone' = IF busy THEN "warn" ELSE "ok"
  /\ IF details' /\ currentSession # None THEN Start(gestures, "trace", currentSession) ELSE UNCHANGED jobs
  /\ UNCHANGED <<gestureFrame, open, loaded, listed, choiceVars, promptVars>>

\* Typing into the composer disarms the second Ctrl+C.
Type ==
  /\ Gesture /\ ~draft
  /\ draft' = TRUE /\ armed' = FALSE
  /\ UNCHANGED <<gestureFrame, pageVars, choiceVars, tone, jobs>>

CancelShown == busy /\ currentSession # None

\* Escape: cancel what runs, else empty the composer.
Interrupt ==
  /\ Gesture
  /\ IF CancelShown THEN Start(gestures, "cancel", currentSession) ELSE UNCHANGED jobs
  /\ draft' = (CancelShown /\ draft)
  /\ armed' = (armed /\ draft' = draft)
  /\ UNCHANGED <<gestureFrame, pageVars, choiceVars, tone>>

\* Ctrl+C and /cancel: cancel what runs, else empty the composer, else exit on
\* the second time.  A second press is not counted as a gesture of its own.
CancelOrQuit ==
  /\ Gesture \/ (open /\ armed /\ ~CancelShown /\ ~draft /\ UNCHANGED gestures)
  /\ \/ /\ CancelShown
        /\ Start(gestures, "cancel", currentSession)
        /\ UNCHANGED <<open, promptVars>>
     \/ /\ ~CancelShown /\ draft
        /\ draft' = FALSE /\ armed' = FALSE
        /\ UNCHANGED <<open, jobs>>
     \/ /\ ~CancelShown /\ ~draft
        /\ armed' = TRUE
        /\ open' = ~armed
        /\ UNCHANGED <<draft, jobs>>
  /\ UNCHANGED <<gestureFrame, loaded, details, listed, choiceVars, tone>>

\* _disarm_idle_interrupt, 1.5 s later; a timer of an earlier press may come first.
Disarm ==
  /\ open /\ armed
  /\ armed' = FALSE
  /\ UNCHANGED <<gestureFrame, pageVars, choiceVars, tone, jobs, draft, gestures>>

Worker(w) ==
  \/ RunCreate(w) \/ SessionStarted(w) \/ RunSession(w) \/ StreamEnds(w)
  \/ ReadFinal(w) \/ FinishSession(w) \/ FinishWithError(w)

Background(j) == JobRequest(j) \/ JobFails(j) \/ RefreshSessions(j) \/ ApplyBootstrap(j) \/ ApplyJob(j)

UserMoves ==
  \/ \E q \in Questions : SubmitQuestion(q)
  \/ Recover \/ Clear \/ ToggleDetails \/ Type \/ Interrupt \/ CancelOrQuit
  \/ \E m \in Models : ActivateModel(m)
  \/ \E db \in Dbs : SelectDatabase(db)
  \/ \E s \in SessionIds : PickSession(s)

\* Once the application exits its client is closed and nothing more is seen.
Next ==
  \/ UserMoves
  \/ DrainQueue \/ Disarm
  \/ \E w \in DOMAIN runs : Worker(w) \/ RenderEvent(w)
  \/ \E j \in jobs : Background(j)
  \/ \E s \in SessionIds : ServiceProgress(s)

\* Threads are scheduled, timers fire, the service runs every session to a
\* verdict; the user owes nothing.
Fairness ==
  /\ WF_vars(DrainQueue)
  /\ \A w \in SessionIds : WF_vars(w \in DOMAIN runs /\ Worker(w))
  /\ WF_vars(\E j \in jobs : Background(j))
  /\ \A s \in SessionIds : WF_vars(ServiceProgress(s))

Spec == Init /\ [][Next]_vars /\ Fairness

(***************************************************************************)
(* Properties.                                                              *)
(***************************************************************************)

\* The busy flag is set exactly while one agent worker is on its way, and never
\* two are: the flag is all that keeps a typed question, a drained question and
\* /recover from running side by side (tui.py _start_query, _dispatch_command).
Alive(w) == runs[w].phase \notin {"done", "failed"}
OneRunAtATime ==
  /\ Cardinality({w \in DOMAIN runs : Alive(w)}) <= 1
  /\ busy <=> \E w \in DOMAIN runs : Alive(w)

\* A question that was sent is waiting, refused with a notice, or run, and only
\* one of these, once; what waited was sent on in the order it was put in the
\* queue, whatever rounds end and timers fire in between (tui.py _start_query,
\* _drain_message_queue).
Occurrences(q) ==
  Cardinality({w \in DOMAIN runs : runs[w].question = q})
  + Cardinality({i \in DOMAIN queue : queue[i] = q})
  + (IF q \in refused THEN 1 ELSE 0)
EveryQuestionAccounted ==
  /\ \A q \in submitted : Occurrences(q) = 1
  /\ queuedNotices = sendingNotices \o queue

\* A query session is created on the database that was announced when its
\* question was sent: a waiting question that refers to another database never moves
\* the one in flight, whose worker reads current_db late (tui.py run_query). Said of
\* users who only ask: any other command or key is excepted, though selecting
\* another database is the one that moves a question.
QuestionKeepsItsDatabase ==
  gestures = 0 =>
    \A w \in DOMAIN runs : runs[w].session # None => sessionDb[runs[w].session] = runs[w].askedOn

\* Unless a request failed, a round ends only after the service settled its
\* session: this terminal never has two unsettled sessions there, and never
\* shows a verdict that is not final (tui.py _execute_session).
RoundsDoNotOverlap ==
  faults = 0 =>
    /\ Cardinality({s \in SessionIds : status[s] \in Live \cup {"created"}}) <= 1
    /\ \A w \in DOMAIN runs : runs[w].phase = "done" => status[runs[w].session] \in TERMINAL_STATES

\* A waiting question leaves the queue as long as every round ends with a
\* verdict and no question is refused (tui.py _finish_session).
Disturbed == ~open \/ refused # {} \/ \E w \in DOMAIN runs : runs[w].phase = "failed"
QueuedQuestionLeaves ==
  \A q \in Questions : (\E i \in DOMAIN queue : queue[i] = q) ~>
    (Disturbed \/ ~\E i \in DOMAIN queue : queue[i] = q)
=============================================================================
