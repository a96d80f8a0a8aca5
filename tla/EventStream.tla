----------------------------- MODULE EventStream -----------------------------
(***************************************************************************)
(* Subscribers of the event stream (GET /api/sessions/{id}/events) next to  *)
(* the orchestrator that appends the events.  A subscriber reads a batch,   *)
(* hands it over event by event, looks at the stored status and then waits  *)
(* on the session's Condition for at most 15 seconds.  Handing an event to  *)
(* the response suspends the stream, so the batch ages while it is sent.    *)
(***************************************************************************)
EXTENDS SessionOrchestrator

CONSTANT MaxOpens   \* bound: times a client opens a stream of a session

ASSUME OpensAssumption == MaxOpens \in Nat

VARIABLES
  at,      \* where the generator of a subscriber is suspended
  cursor,  \* sequence number of the last event handed over
  mark,    \* length of the log at the last fetch, or when the wait began
  opens    \* streams opened so far

streamVars == <<at, cursor, mark, opens>>
allVars == <<vars, streamVars>>

Connected == {"fetch", "yield", "check", "wait"}

StreamInit ==
  /\ at = [s \in Sessions |-> "off"]
  /\ cursor = [s \in Sessions |-> 0]
  /\ mark = [s \in Sessions |-> 0]
  /\ opens = [s \in Sessions |-> 0]

\* A client subscribes with after_sequence, the last id it has seen.
Open(s) ==
  /\ proc = "up" /\ db[s].status # "absent"
  /\ at[s] \in {"off", "closed"} /\ opens[s] < MaxOpens
  /\ at' = [at EXCEPT ![s] = "fetch"]
  /\ opens' = [opens EXCEPT ![s] = @ + 1]
  /\ UNCHANGED <<cursor, mark>>

Disconnect(s) ==
  /\ at[s] \in Connected
  /\ at' = [at EXCEPT ![s] = "off"]
  /\ UNCHANGED <<cursor, mark, opens>>

\* The status is read from the row, then the stream ends or waits.
\* As if only a completed session ends its stream.
EndsOnCompletion(s) ==
  /\ at' = [at EXCEPT ![s] = IF db[s].status = "completed" THEN "closed" ELSE "wait"]
  /\ mark' = [mark EXCEPT ![s] = Len(log[s])]

EndsOrWaits(s) ==
  /\ at' = [at EXCEPT ![s] = IF Terminal(s) THEN "closed" ELSE "wait"]
  /\ mark' = [mark EXCEPT ![s] = Len(log[s])]

\* An empty batch goes straight on to the status.
Fetch(s) ==
  /\ at[s] = "fetch"
  /\ IF cursor[s] < Len(log[s])
     THEN /\ at' = [at EXCEPT ![s] = "yield"]
          /\ mark' = [mark EXCEPT ![s] = Len(log[s])]
     ELSE EndsOrWaits(s)
  /\ UNCHANGED <<cursor, opens>>

Yield(s) ==
  /\ at[s] = "yield"
  /\ cursor' = [cursor EXCEPT ![s] = @ + 1]
  /\ at' = [at EXCEPT ![s] = IF cursor'[s] < mark[s] THEN "yield" ELSE "check"]
  /\ UNCHANGED <<mark, opens>>

Check(s) ==
  /\ at[s] = "check"
  /\ EndsOrWaits(s)
  /\ UNCHANGED <<cursor, opens>>

\* notify_all of an emit made since the wait began.
Notified(s) ==
  /\ at[s] = "wait" /\ Len(log[s]) > mark[s]
  /\ at' = [at EXCEPT ![s] = "fetch"]
  /\ UNCHANGED <<cursor, mark, opens>>

\* wait_for gives up after 15 seconds: a keep-alive, then another fetch.
\* As if the wait for a notification has no timeout.
KeepAliveNever(s) == Notified(s)

KeepAlive(s) ==
  /\ at[s] = "wait"
  /\ at' = [at EXCEPT ![s] = "fetch"]
  /\ UNCHANGED <<cursor, mark, opens>>

StreamStep(s) ==
  /\ \/ Fetch(s) \/ Yield(s) \/ Check(s) \/ Notified(s) \/ KeepAlive(s)
  /\ proc = "up"
  /\ UNCHANGED vars

StreamClient(s) == (Open(s) \/ Disconnect(s)) /\ UNCHANGED vars

\* Connections end with the server: it closes them before the lifespan ends.
ServiceStep ==
  /\ Next
  /\ IF proc' # "up"
     THEN /\ at' = [s \in Sessions |-> IF at[s] = "closed" THEN "closed" ELSE "off"]
          /\ UNCHANGED <<cursor, mark, opens>>
     ELSE UNCHANGED streamVars

StreamNext ==
  \/ ServiceStep
  \/ \E s \in Sessions : StreamStep(s) \/ StreamClient(s)

StreamSpec ==
  /\ Init /\ StreamInit /\ [][StreamNext]_allVars
  /\ \A s \in Sessions : WF_allVars(Task(s) /\ ServiceStep) /\ WF_allVars(StreamStep(s))

-----------------------------------------------------------------------------
\* Bound: the events whose delivery is followed.
ProbedEvents == 1..3

\* Each probed event is handed to a subscriber that stays connected, although the
\* events that arrive while a batch is being sent notify nobody: the keep-alive
\* makes up for the lost wake-up.
EventReachesSubscriber == \A s \in Sessions : \A i \in ProbedEvents :
  (at[s] \in Connected /\ Len(log[s]) >= i)
    ~> (cursor[s] >= i \/ at[s] \in {"off", "closed"})

\* The stream of an ended session is closed.
StreamEnds == \A s \in Sessions :
  (at[s] \in Connected /\ Terminal(s)) ~> (at[s] \in {"off", "closed"})

\* What the stream is documented as and what its test expects: the terminal
\* status closes it, so a subscriber whose stream was closed has seen it.
ClosedStreamSawVerdict == \A s \in Sessions :
  at[s] = "closed" => FinalEvents(s) \subseteq 1..cursor[s]
=============================================================================
