-------------------------- MODULE SessionLifecycle --------------------------
(***************************************************************************)
(* What the session API promises of a session, with no word of coroutines, *)
(* semaphores or crashes: its status moves forward, a verdict is reached    *)
(* once and never changed, only a session that ran completes or exhausts a  *)
(* budget, and at most one verdict, the stored one, is ever published.      *)
(***************************************************************************)
CONSTANT Sessions

VARIABLES status,   \* stored status of a session
          verdict   \* the terminal status its subscribers were told, if any

lifecycleVars == <<status, verdict>>

TERMINAL_STATUSES ==
  {"completed", "failed", "cancelled", "timed_out", "budget_exhausted"}

Init ==
  /\ status = [s \in Sessions |-> "absent"]
  /\ verdict = [s \in Sessions |-> "none"]

Moves(s, from, to) ==
  /\ status[s] = from
  /\ status' = [status EXCEPT ![s] = to]
  /\ UNCHANGED verdict

Create(s) == Moves(s, "absent", "created")
Queue(s)  == Moves(s, "created", "queued")
Run(s)    == Moves(s, "queued", "running")

\* Only a running session can complete or exhaust its budget; a session that
\* was never started can only be failed.
Finish(s) ==
  \/ \E to \in TERMINAL_STATUSES : Moves(s, "running", to)
  \/ \E to \in {"cancelled", "timed_out", "failed"} : Moves(s, "queued", to)
  \/ Moves(s, "created", "failed")

Publish(s) ==
  /\ status[s] \in TERMINAL_STATUSES /\ verdict[s] = "none"
  /\ verdict' = [verdict EXCEPT ![s] = status[s]]
  /\ UNCHANGED status

Next == \E s \in Sessions :
  Create(s) \/ Queue(s) \/ Run(s) \/ Finish(s) \/ Publish(s)

Spec == Init /\ [][Next]_lifecycleVars
=============================================================================
