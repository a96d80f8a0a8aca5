# A verification development for DriftSQL

DriftSQL trains and serves an agent that repairs SQL after the schema of its
database has drifted. The repository holds a training side (data builders, a
VERL agent loop, rewards, evaluation scripts) and a product side: a FastAPI
service that runs agent sessions, stores their trajectories in SQLite and
streams them to clients. This directory models the parts in which several
actors, failures or long histories meet, checks them with TLC and proves the
safety of most of them with TLAPS, for every size of the system.

Paths below are relative to the repository, `driftsql/` unless they say
otherwise.

## 1. Inventory

| Part | State | Operations | Made correct by |
|---|---|---|---|
| Session orchestrator `service/inference/orchestrator.py` | `_active` (session → locals, cancel flag, Condition, task), a semaphore | `create_session`, `create_query_session`, `start_run`, `cancel`, the run task (`_run_guarded`, `_agent_loop`, `_finalize`), `shutdown` | every started run ends once, with one verdict, inside its budgets; permits and sandboxes are given back |
| Session repository `service/repository/sqlite.py` | tables `sessions`, `events`, `trajectories` | `create_session`, `save_session`, `append_event`, `list_events`, `save_trajectory_state`, `get_trajectory`, `mark_interrupted_sessions_failed` | rows and events tell one story, also after a crash or an exception between two transactions |
| Event stream `event_stream`, `GET /api/sessions/{id}/events` | the generator's cursor | fetch, yield, status check, wait with keep-alive | every event reaches a connected subscriber, the stream ends with the session |
| Tool dispatch `service/inference/tools.py` | tool instances, configured tools and mode of a session | `initialize_session`, `schemas_for`, `execute`, `release_session` | a call the policy does not allow never reaches a tool; instances are made and released as one |
| State policy `integrations/state_policy.py` | none (pure functions of a history) | `select_dynamic_tool_names`, `select_dynamic_tool_schemas`, `is_exact_duplicate_retrieval` | no submission before recovery, both programs agree, and it is known when every call is refused |
| VERL tools `integrations/verl_tools.py` | `_instances` of each tool, a temporary database copy per trajectory | `create`, `execute`, `release` | one copy per trajectory, used only while it exists, removed exactly once |
| Model backends `service/inference/backend.py` | engine, the loaded adapter, metadata, request ids | `generate`, `abort`, `activate_model` | the adapter that runs is the one the metadata names, and no later activation touches a session |
| Application `service/app.py`, `service/api/routes.py` | wiring | lifespan (recover, serve, shut down), routes | nothing is served before recovery is done |
| Auth sessions `service/auth.py` | token → expiry | login, check, logout, purge | an expired or revoked token is never accepted |
| Replay review `service/replay.py`, `scripts/review_p4_replay.py` | append-only JSONL | review, load, mine anew | the last decision wins; a torn line is noticed |
| Observability `service/observability.py` | none | aggregates, failure taxonomy | each failed session is counted under one class |
| Translation `service/translation.py` | a lazily loaded model, a thread lock | `translate` | literals survive translation |
| Catalogs `service/catalog.py`, `service/model_catalog.py` | loaded YAML | lookups, the schema of a scenario | the schema shown is the schema queried |
| Terminal client `cli/tui.py`, `cli/client.py` | busy flag, message queue, selections, worker threads | send, queue, drain, recover, select, cancel | one run at a time, no question lost or moved to another database |
| Training loop `integrations/agent_loop.py`, `bird_agent_loop.py` | one trajectory: its events, the tools to release | generate, tool, time out, release | same policy as the service; every call is in the event list, every path gives the database copy back |
| Rewards `rewards/` | none (a function of response text, events and record) | grade a trajectory | a shortcut never pays, policy and reward ask for the same |
| Drift factory `drift/factory.py`, repair `planning/`, `sql_rewrite.py` | database copies | build an episode of each kind, chain two, repair a query | the diff breaks the stale query, and every reader of the diff agrees on what it means |
| Corpus generator `scripts/build_p6_scaleup_protocol.py` | two append-only caches | try variants, resume, publish | no variant twice, no database left out |
| Data splits `scripts/split_*.py`, `build_stage7_*`, `build_p6_*` | split files | allocate databases, select pools | what Dataset V2 and the scale-up hold out is not trained on |
| Supervision `scripts/prepare_p6_*`, `mine_p6_*`, `build_p6_on_policy_*` | none | cut the oracle's trajectory, label failures, join both | no example teaches what the policy refuses |
| Evaluation `scripts/run_*eval.py`, `evaluation/`, `controllers/` | processes, checkpoints, result files | run, retry, time out, kill, resume, score | one row per record, in order; scores follow the budgets |
| Tool-call parser, training utilities, `data/`, settings | none | text, files | — |

**How they interact.** A route calls the orchestrator. Creation asks the tool
runtime for instances (worker threads), then writes the row and the first
event. `start_run` creates an asyncio task that waits for the semaphore, loops
over *generate → parse → dispatch → tool*, writes row and events after every
step, and finalises. `cancel` sets a flag that the task polls and aborts the
backend. `_emit` appends an event and notifies the session's Condition, on which
streams wait. `shutdown` cancels the tasks; the next start fails every session
that was left unfinished. The terminal client calls the same routes from worker
threads and comes back to its event loop with `call_from_thread`. Offline, the
factory's episodes feed the generator, the splits, the rollouts and the
evaluation, and the state policy decides in all of them what may be called next;
beyond that these programs meet in files only.

**What is hard.** One event loop interleaves at every `await`; rows are saved
from copies that were read before an `await`; a row and its event are two
transactions, and a crash or an exception may fall between them; a cancel request, the session's
timeout, an error and a shutdown race; `CancelledError` is not an `Exception`
and skips handlers; a subscriber that is not yet waiting misses a notification;
the policy's rules overlap and are written twice; worker threads read what a
handler has changed since; processes are stopped in the middle of a line and
resumed from what is on disk; one schema diff is interpreted by three programs. `PROJECT.json` lists each
hazard at its line with the properties that would catch it.

## 2. Modules

| Module | Models |
|---|---|
| `SessionOrchestrator` | orchestrator, repository, lifespan, crashes and restart |
| `SessionLifecycle` | the abstract promise: a status moves forward, one verdict is published |
| `EventStream` | subscribers next to the orchestrator (extends `SessionOrchestrator`) |
| `StatePolicy` | the policy's pure functions over histories |
| `AgentEpisode` | `ToolRuntime.execute`, the tools' answers and the loop's budgets, one episode at a time (extends `StatePolicy`) |
| `TrainingRollout` | `DriftToolAgentLoop` with the tool instances, the executor's database copy and its threads (extends `StatePolicy`) |
| `AgenticReward` | `compute_score` over a finished rollout (extends `TrainingRollout`) |
| `TerminalClient` | the full-screen client, its threads, and the service as its HTTP client sees it |
| `ModelActivation` | the activation route and `VllmBackend.activate_model` next to sessions |
| `ReplayReview` | the review file, its two writers and the miner |
| `Translation` | translation requests under the lock, placeholders |
| `DriftDatabase` | databases, queries and the changes of a schema, as far as they tell each other apart |
| `AuditedRepair` | the lexical repair of a stale query (extends `DriftDatabase`) |
| `DriftFactory` | the builders of episodes, and the catalogue that reads them (extends `AuditedRepair`) |
| `TaskGeneration` | the resumable generation of one family of tasks |
| `DataLineage` | which databases reach which training data |
| `RecoverySupervision` | examples cut from oracles and from failed rollouts (extends `StatePolicy`) |
| `EvaluationRun` | one process per episode: threads, retries, timeouts, kills, orphans, `--resume` |
| `EvaluationLoop` | one evaluation process: chunks, checkpoint, resumption, report |
| `ValidatedSubmit` | the result-contract controller |
| `BaselineEvaluation` | the stage-1 baselines under their budgets, and their scoring |
| `SessionOrchestratorProofs`, `TerminalClientProofs`, `StatePolicyProofs`, `AgentEpisodeProofs`, `TrainingRolloutProofs`, `RecoverySupervisionProofs` | theorems about the module of that name (`TrainingRolloutProofs` about `AgenticReward` too) |
| `Components`, `Evaluation` | the parts that share no state side by side, and the names of their properties; runs and proofs extend them |
| `ComponentProofs` | theorems about `ModelActivation`, `ReplayReview`, `DataLineage`, `Translation`, `TaskGeneration` and `DriftFactory` |
| `EvaluationProofs` | theorems about `ValidatedSubmit`, `EvaluationLoop`, `BaselineEvaluation` and `EvaluationRun` |
| `MC...` | values of the constants for TLC; `MCComponents` and `MCEvaluation` extend `Components` and `Evaluation` and let one part move |

### SessionOrchestrator and the code

An action is the code between two awaits that may suspend. `pc[s]` is where the
coroutine of session `s` is suspended:

| `pc` | suspended at |
|---|---|
| `creating` | `await tools.initialize_session` |
| `idle` | created, no task yet |
| `starting` | `await _emit(queued)` in `start_run` |
| `ready` | the task exists, its first step has not run |
| `waiting` | `async with self._semaphore` |
| `entered` | `await _emit(running)` |
| `generating`, `modelled` | `await backend.generate`; the emit of the model event |
| `executing`, `observed` | `await tools.execute`; the emit of the tool or missing-call event |
| `exiting` | the emit of a budget event |
| `aborting`, `failing` | the handlers of the timeout and of an error |
| `rewarding`, `rewarded`, `closing`, `popping` | the awaits of `_finalize` |

`db[s]` is the row, `run[s].copy` the coroutine's own `SessionRead`, so that a
stale copy saved over a fresh row is visible. `log[s]` is the events table.
`flag`, `active`, `queue` and `permits` are the cancel events, `_active`, and the
semaphore's waiters and value. `sandbox` holds the sessions that own tool
instances. `proc` is the process: `up`, `stopping`, `down`, `recovering`.
`_emit` locks the session's Condition after the insert; on Python 3.11
`wait_for` lets a woken subscriber hold that lock across an iteration of the
loop, so every emit may suspend and is the end of an action.

A repository write is one transaction. `Crash` loses the memory at any point;
`CrashAfterSave` makes a row durable and dies before the event that follows it.
In a run the backend, a tool or the repository may raise in any step of the
`try` block: before the step saves its row, or after it and before the event that
reports it is appended (`RunFails`, `RunAborted`; orchestrator.py:332-337). The
handler then writes an error event, or records the cancellation if the flag is
set, and the row stays one event ahead of the log. `HostFaults` enables the
places the code leaves unprotected: hashing the source database after the
instances exist (`CreateLeaks`, orchestrator.py:131), the prompt or the session
event after the row is stored (`CreateFailsLate`, :141-162, :229-264), the queued event of
`start_run` (`StartRunFails`, :293), row or event of `cancel` (`CancelFails`,
:305-306), the error event of the handler (within `RunFails`, :337), and a
repository that raises inside `_finalize` (`FinalizeRaises`).

Not kept: token counts (a reply is over the token budget or not, and the run
does not depend on how far), the contents of messages, the reward's value, and
the `trajectories` table. `get_trajectory` reads it back for a route
(routes.py:479-490) and for the miner of replays, and the orchestrator never does.

### StatePolicy, AgentEpisode and the code

An event keeps what the policy reads: tool, arguments, masked, duplicate, the
execution's success and contract match, `validated_for_submit`, whether a schema
was seen, and whether a submission was accepted. The policy is written twice in the
source and twice in the model. `SelectDynamicToolNames` reads the event list.
`SelectDynamicToolSchemas` reads messages: `Conversation` is what the evaluation
and the corpus builders make of the events (prompt, call, answer, call, answer),
`PendingTool` and `CompletedEvents` pair each tool message with the call before
it, and a refusal is recognised by the text of the answer (`Observation`), where
the event list goes by the metrics too. Both call `_required_contract_recovery_action`,
`_has_validated_execution` and `post_clarification_tools`, as in the source.
`Dispatch` is `ToolRuntime.execute` in the code's order: mask, duplicate notice, free-query
guard, tool. A profile says which loop plays it: the orchestrator's, or that of
the evaluation (`Evaluation`: `run_variant` under the guards of
`run_stage6_eval`), which ends with any submission and with a turn without a
call, and records a call that raises as an event whose text is no JSON. The model (the LLM) is unconstrained: any tool, any argument, or no
call. SQL is a small set of texts classed by how they behave: running or not,
matching the contract or not, a write, blank, and one text that differs from
another in letter case only, because the guard compares `casefold`ed text.
A run that starts, or its contract check, may still hit its deadline, so an
execution may fail and a check may be missing for any SQL.

### EventStream and the code

`fetch`, `yield`, `check`, `wait` are the suspension points of `event_stream`.
Yielding to the response suspends, so the batch ages while it is sent. `wait`
ends through `notify_all` of an emit made since the wait began, or through the
15-second timeout (`KeepAlive`).

### TrainingRollout and the code

`stage` is where the trajectory is suspended: in generation, in the executor's
`create` (`copying`) or `execute` (`querying`), in the `finally` block of `run`
(`releasing`), or at its `done`. `held` is the set of tools whose `_instances`
know the trajectory, `listed` is `context["tools"]`: the executor enters the
first before its copy is made and the second only after `create` returned.
`worker` is the thread behind `asyncio.to_thread`; it is not stopped by the
cancellation of its caller. `copy` is the temporary database: removed with the
cancelled frame it may still be rewritten by the thread, which makes the
directory it needs (`orphan`). `mode` says whether the state guards and the
dynamic mask are on (as in `scripts/train_7b_p6_targeted_grpo.sh`) and whether
`sync_io` keeps database work on the event loop. An event keeps, next to what
the policy reads, whether the tool answered and what its metrics say of the
execution, so that the effect of `max_tool_response_length` is visible: the
text is cut, the metrics are not.

Not kept: the trace file, `key_action_response_mask`, calls to tools that do not
exist, arguments a model invents for the retrievals, and more than one call per
turn, which VERL's default does not take. The parser always hands over an
object, so the branches for malformed arguments are not reached. VERL's own loop
is external: after a call it generates again, stops at a limit, or raises.

### AgenticReward and the code

`compute_score` is a set of operators over the state of a finished
`TrainingRollout`, one per intermediate value of the code and named like it,
summed by `Score`. It reads two records of the same trajectory: the response
text (`Written`: every call the model wrote, refused or not; nothing at all
after a timeout, whose output is one padding token) and the event list
(`Unmasked`), both through positions in the one list of calls, as the code's
loops over them compare positions only. A profile is what the training record says: drift type, whether
a question is required, the first action wanted. Weights are hundredths and
any naturals (`WeightRecords`); the instance takes those of
`scripts/train_7b_p6_first_action_grpo.sh`. The reward
executes SQL on a copy of its own, so whether a query reproduces the contract
depends on its text alone; its own deadline is taken not to pass and its
environment to be complete. A query is read-only or not; one that is not
read-only is taken to be a write and not unparsable text.

### TerminalClient and the code

Textual runs one handler at a time, so a handler is an action. `runs` holds the
`agent-run` workers in the order they were started; the phase of a worker is the
request it is about to make or the call back it waits for (`create_query`,
`_session_started`, `run_session`, the stream, `session`, `_finish_session`).
`jobs` are the other threads: bootstrap, model switch, cancel, trace, refresh.
`drains` counts armed drain timers. Of the service the model keeps the status,
database and cancel mark of each session and the active model; a request may
fail, before or after it was served. A session's status moves on its own.
Rendering is left out but for what later decisions read: the tone of the activity
line, the two kinds of queue notices, whether the idle interrupt is armed.
`cli/shell.py` is not modelled: it is a loop that makes the same requests one
after another, and its `/cancel` cannot be typed while a run is on.

### ModelActivation, ReplayReview, Translation and the code

`act[c]` is the await an activation is in (`remove_lora`, `add_lora`,
`pin_lora`, and the same two of the rollback). The engine is external: all
adapters share the id 1, so adding over a registered adapter changes nothing,
and a generation registers its adapter if need be. A session's row takes the
metadata in a step of its own (`RowBuilt`), after the await of its creation.
An engine call may fail at each await, `pin_lora` with no adapter there or with the
new one registered already (`PinFails`); in the second case the rollback's
`add_lora` changes nothing, and the adapter is a `stray` until something is
removed. `disturbed` records what the code does not prevent, an activation that
meets another or a generation, and `builtDuring` the activations in flight when a
row was built. That request and metadata name one model holds whatever meets
whatever; that the engine holds its adapter, in undisturbed histories and but for
a stray. `SessionKeepsItsModel` is about steps and needs neither exception: what
answers a session (`Answering`) may be changed by an activation that was waiting
when the row was built, to a model that one switches between, and by no other.
Which model a new row names is claimed for rows built outside activations, without
a stray and without an earlier disturbance.

A line of `reviews.jsonl` is a decision bound to a trajectory's hash, or
garbage. A writer that dies may leave a torn line or one without a newline; the
next line is then read as part of it and the store raises from that point on.
The miner takes every persisted failure, so a trajectory that was reviewed comes
back in a new directory under the same id and hash (`Mine`), without its
decisions, which stay in the directory that was moved away. The property is about
decisions reported since the directory was mined; one on its way from the tool
meanwhile counts for the new one.

In `Translation` a question is its literals in order and whether Chinese is
left. The language model may drop, repeat or reorder placeholders, and end its
answer with one. An answer is the set of places where literals stand as the user
wrote them: `Replaced` follows the loop that replaces one placeholder after the
other, in which a later one is replaced within an earlier literal too, and
`Stripped` the quotes taken off the ends of the answer. Of a literal's text the
model knows which placeholders it spells (`Spells`; one spelt at the very end of
a literal is left out) and whether it ends with a double quote (`EndQuoted`).
Loading may fail between tokenizer and model.

### DriftDatabase, DriftFactory, AuditedRepair and the code

A database maps tables to columns (name, declared type, contents); a query has a
FROM list, a select list and predicate columns. `Answer` is what SQLite returns,
with alias visibility, ambiguous names, wildcards, and the rule that a quoted
name which is no column is a string. `Materialize` applies a diff to a copy. A
builder proposes a candidate, checks by execution that the stale query breaks or
changes and that the repair restores the result, and writes a record;
`BuildCompound` chains two. Candidates are ordered by hashes of names in the
code and are any in the model. `LogicalSchema` is the catalogue's own replay of
a diff, `AuditedRepair` the lexical one behind `inspect_schema_diff`;
`ActiveSchema` applies additions only, as `_active_schema_for_projection` does.
Rows are not kept: a cell is the identity of its source column and whether it
was turned into text. A view keeps its name and the columns `PRAGMA table_info` lists;
builders and queries do not touch views, but the catalogue shows them, and a table
cannot be renamed to one's name. What is shown has two forms: the listing, with
declared types, and the text for the model (`RenderLogicalSchema`), in which a
column without a type is `TEXT`. SQLite rewrites a view along with a rename of what
it reads, which can change its columns; the listing keeps those of the source, so
that `CatalogAgrees` says nothing of a view's columns. The lexical repair
rewrites plain identifiers only and raises for a name with a space or a sign
(`Plain`, sql_rewrite.py:14-15), so that nothing is offered; `AuditedRepairAgrees`
leaves those episodes out.

### TaskGeneration, DataLineage, RecoverySupervision and the code

`TaskGeneration` keeps the lines of the two cache files and where the loop is;
which variants the factory can build is a function chosen once, since it depends
on the database file alone. The process may stop between any two steps and
within an append. An append that raises and is caught is not modelled (the
handler would record a built task as rejected), nor are several families.

`DataLineage` has one action per script that allocates databases. Sizes are
scaled down; preference for balance, other seeds and the buckets of a pool are
left open. `HISTORICAL_RESERVED_DBS` is hard-coded in the source and nothing
recomputes it: the model takes any list of databases that have tasks, also one
written for another split. The dev and test files are not opened, and what finds
such a list out are the sizes the script demands (`AsCounted`). They were counted
from the databases at hand: `LineageAssumption` says that those without tasks
(`LocalDatabases` less `TaskDatabases`) are as many as the fresh parts together.

`RecoverySupervision` plays a rollout of a task under the policy, gives it the
one label of the miner that a builder reads, and computes the examples of both
builders, which ask the message program of the policy (`Conversation`). Token
limits of examples are left out.

### EvaluationRun, EvaluationLoop, ValidatedSubmit, BaselineEvaluation and the code

`pc[g]` is where the thread of a GPU is: taking an index, launching, waiting,
terminating. `child[i]` lists the processes launched for an episode, in their
order, which is how an orphan of a dead parent lives beside its successor.
`partial`, `tmp` and `result` are the files. `EvaluationLoop` plays chunks turn
by turn and may stop anywhere, within an append too. `ValidatedSubmit` decides
on a trajectory that grows by any event. `BaselineEvaluation` charges one task
with prompts and answers of any size; its limits are scaled. Whether the rows of
the answer are those of the gold query is left out, and so are the counts of the
summaries. Two moments of a crash are left out too: a checkpoint that has been
created and is still empty, and a row that lacks its newline only, to which a
resumed process would glue the next one.

## 3. Runs

| Run | Instance | Shows |
|---|---|---|
| `orchestrator_concurrency` | two sessions, one permit, one turn, one cancel each, one stop | permits, waiters, coroutines and sandboxes are never lost or doubled |
| `orchestrator_recovery` | one session, three turns, two tool calls, two cancels, two stops, exceptions at every step, host faults | the log is one well-formed run, the row agrees with it in verdict and, but for one event of a run that ended, in usage, a terminal row is frozen, and the whole implements `SessionLifecycle` |
| `orchestrator_liveness` | two sessions, one permit, one stop | every started run ends, and gives its sandbox back |
| `orchestrator_cancel_flag` | one session, one cancel | **violated**: the cancel mark is lost |
| `stream_delivery` | one session and one subscriber | every event is delivered, the stream ends |
| `stream_tail` | the same | **violated**: a stream can close before the verdict |
| `episode_policy` | recovery, evaluation and free-query episodes of five or six turns | `RecoveryContract`: no submission before recovery, nothing after a validated candidate; `QueryContract`: schema first, each retrieval once, what is submitted and shown is what ran; `PoliciesAgree`: both programs offer the same tools; `StuckOnlyByRerun`: every call is refused in one kind of state only |
| `rollout_release` | one trajectory of five turns, five tools, two queries, one question, two modes, six training records | it ends and gives back what it holds, whatever cuts it; its events miss no call; `GuardsKeepProtocol`: no submission before recovery, and no shortcut the reward punishes; the shortcut never pays |
| `rollout_truncated` | four turns, three queries, three modes | **violated**: a truncated mismatch is not recovered from |
| `terminal_client` | three questions, two databases, two models, one gesture, one failing request | one run at a time; every question is waiting, refused or run, once and in order, on the database it was announced for as long as the user only asks; a waiting question leaves the queue |
| `evaluation` | three records on two GPUs; the same on one GPU and a parent that dies; three records in chunks; four events; one baseline task | an episode is evaluated once per life of the parent and every run ends; a resumed checkpoint keeps records and order; the controller's decision stands; no prediction is scored over budget |
| `components` | see Bounds | the properties of the seven remaining components |

`evaluation` and `components` hold components that share no state: a variable
`focus`, chosen in `Init`, names the one that moves, so each is explored with
all interleavings of its own actors and none with another's, which would only
multiply states. In `components` the invariants are, by component: activation
(`ActivationConsistent`, `SessionKeepsItsModel`), replay (`ShowsLastDecision`),
translation (`LiteralsSurvive`), factory (`CatalogAgrees`, `AuditedRepairAgrees`),
generation (`CorpusSound`), lineage (`LineageIsolated`), supervision
(`TaughtIsOffered`, `TerminalStateTaught`).

**Bounds.** Two sessions and one permit are the smallest instance with
contention, in which a permit lost or doubled by one session is seen by the
other; the sessions are interchangeable, so symmetry is used in the run without
liveness. Three turns are enough for the copy of the row to be saved, aged and
saved again, and two tool calls make the tool budget bite before the turn
budget. `MaxCancels` bounds cancel requests per session (two: before and after a
save), `MaxStops` crashes and shutdowns (two: a crash during the recovery from a
crash). `MaxOpens` bounds how often a client opens a stream. Six turns hold
failure, version, diff, execution and submission with one detour between them,
which may be a masked attempt at a retrieval that is forced later; five do for
free queries. Five turns of a
rollout hold a failure, a masked retrieval, version, diff and submission, or a
failed creation and its retry. To reach five, `rollout_release` has two queries
and two modes, guarded on threads and unguarded with blocking calls (the guards
only take calls away); its long answers are those of the right query, and a
mismatch that is cut is met in `rollout_truncated`.

In `terminal_client` the three questions are one that names no database, one that
names the database not selected, and one that names both and is refused; the
gesture (`MaxGestures`) may be any command or key, the failing request
(`MaxFaults`) any request. In `evaluation`, two attempts let a retry meet the
checkpoint of the first; two stops let a resumption be interrupted. In
`components`: two activations, two sessions and two engine faults; two
candidates, any number of minings, four decisions and two deaths; two translation requests
of up to two literals, one that ends with a quote and one that spells the
second placeholder, and two failed loads; two databases and a view with colliding
and reserved names and one with a sign, eleven queries (joins, aliases, wildcards,
quoted names) and two
episodes per database; two small and one large database, limits of one and two
variants, three starts of the generator; seven databases with tasks and three
without, two of them listed as reserved, whatever Dataset V2 then holds out; seven
tasks of every profile and rollouts of five turns. These are the
smallest at which each component's cases, an overwritten decision, a doubled
literal, a chained rename over a taken name, a resumption after a resumption,
can occur.

**Fairness.** The event loop runs every ready task and `asyncio.timeout` bounds
every await of a run, so each session's task and handlers are weakly fair, and so
is the end of a shutdown. A subscriber that stays connected is served by the
same loop. In a rollout only the timeout and
the `finally` block are fair: neither the model nor a database thread has to
answer. In the terminal client timers, worker threads, background jobs and the
service's progress are fair, the user is not. In the evaluation the threads of the
parent are fair, since `wait` has a timeout and is followed by two kills; its
child processes are not, and may hang for ever. Nothing obliges a client to call, the process to stop or a supervisor
to restart it; the liveness properties say "unless the process stops".
Deadlock checking is off because the system may rest: no client need call.

## 4. Findings

- **The cancel mark is lost** (`CancelledRowSaysSo`). `cancel` writes
  `cancellation_requested = True`, and `_agent_loop` then saves its own earlier
  copy of the row (orchestrator.py:369, :428). The product test asserts the mark
  of a cancelled session and passes because its cancel falls elsewhere.
- **A stream may close early** (`ClosedStreamSawVerdict`). The stored status is
  read after the batch was sent; if the session ended meanwhile the stream
  returns without fetching the reward and status events.
- **A truncated mismatch is not recovered from** (`MismatchForcesRecovery`).
  `_call_tool` stores the cut text (agent_loop.py:285-303); the policy parses it,
  finds no JSON and does not see the mismatch. The rule
  that forces version and diff (state_policy.py:49-51) is skipped.

Seen while modelling, and modelled as the code has it without a run that demands
otherwise:

*Service.* The free-query guard compares a submission with the last
`execute_sql` event of any kind, so one that the policy masked after a successful
execution blocks every further submission, although its message speaks of the
"latest successful execution" (tools.py:160-168): the agent is stuck until its turns
or its time are spent, and `StuckOnlyByRerun` says that this is the one way to get
stuck. It case-folds
literals too (tools.py:162-163). The duplicate rule counts retrievals that were masked and
never answered, against its docstring (state_policy.py:172-177): a version or diff
attempted while masked may later, when it is forced, be answered by the notice that
its result is already present, and never be shown; `NoSubmitBeforeRecovery` excepts
exactly these (`MaskedEarlier`, and `RefusedEarlier` in a training rollout). The tool budget
does not end a run on a refused `submit_solution` (orchestrator.py:448), so
`usage.tool_calls` can pass `max_tool_calls`; the recovery pass reads at most
10000 sessions (sqlite.py:246). A session created while an activation is in
flight, or two overlapping activations, may be answered by another model than its
row names (routes.py:181, backend.py:224-256). A `pin_lora` that fails with the new
adapter registered (backend.py:237) leaves it there: the rollback's `add_lora` under
the same id changes nothing, and generations go on with the new adapter under the
old one's name. A row may stay one event ahead of its log after an exception between
the two writes (orchestrator.py:369-371, :428-429). The translator may change a
literal that it protects: once the placeholders are replaced, double quotes are
stripped from both ends of the answer (translation.py:196), so that one which ends
with `... WHERE name = "Bob"` loses the last quote; and since placeholders are
replaced one after the other (:194-195), a literal in backquotes or an SQL text
that spells the placeholder of a later literal is overwritten with it. The check
before (:190-193) refuses answers that "omitted, changed, or duplicated" a token,
but counts placeholders only; `LiteralsSurvive` excepts the two cases.

*Training.* A timeout within the executor's `create` leaves its bare state
registered and may leave a copy behind (verl_tools.py:566, stated as the
exception in `ReleasedAtEnd`); its thread may read a sandbox that was released
(verl_tools.py:666), which is read-only and can only fail. The reward takes the
submitted query and the question from the text (agentic.py:304-309), so a
submission the mask refused may be a protocol success and a question nobody was
asked may earn its reward, against the comment at agentic.py:382. Policy and
reward disagree about an inspection that began with the diff: after diff,
mismatch, version and diff the policy lets the rollout go on, while the reward,
which looks at the first version and the first diff (agentic.py:289-291), sees no
ordered inspection; `GuardsKeepProtocol` excepts these rollouts (`DiffFirst`).
`ShortcutIsNegative` excepts records that need a question, whose clarification
rewards can outweigh the penalty, and rollouts that ran the right query before
submitting the stale one.

*Terminal client.* A question waiting in the queue when a round ends in an error
stays there (tui.py:1167 arms no timer), although its notice says that it is sent
when the round ends; `QueuedQuestionLeaves` excepts it (`Disturbed`).

*Evaluation.* A retry after a process that was killed once its checkpoint existed
is doomed: the parent never passes `--resume-partial`, and the child raises
(run_stage6_eval.py:345). The identity check of the aggregated rows cannot fail,
and under `BirdEvalBudget` neither `turn_limit` nor `tool_budget` can come about.
A refused submission is scored as a success when its query is right.

*Data.* The lexical repair is wrong when a replaced name stands for two things
(`Unambiguous` in `AuditedRepairAgrees`), and its projection planner applies
additions only; names with a space or a sign, which `_new_column_name` passes on, get
no lexical repair at all (sql_rewrite.py:14-15, verl_tools.py:168-172). A view's
columns are shown as the source had them, after a rename too. When the first pair of a compound fails, the later ones practically
always do. A torn or unterminated line in a generator's cache, and a stop while
outputs are written, make every further run raise; a resumed run starts its round
at the first database, so the corpus depends on where it stopped. Stage 7 writes
its split before it looks at the sealed artifacts. The databases of the Stage 6
and 7 gates are part of the scale-up's training set, which comes after them, and
those of Stage 7's gate of Stage 6's training set, which comes before; nothing is
claimed of that gate. The
builders call the policy without the switch that rollouts use
(`--knowledge-first-after-ask`), so tasks without a definition are taught an
execution, while a question is open, that the live mask refuses
(`TaughtIsAllowed` excepts them); and an answer that precedes the first error by
name may say of a query that it "executed successfully" although it was never run.

## 5. Proofs

Eight modules hold theorems that TLAPS checks to the last leaf. They hold for
every value of the constants that meets the assumptions named, where the runs of
section 3 look at one small instance. In each, an inductive invariant is stated
first (as a conjunction of named parts), then a lemma per operation of the code
that it is kept, then the theorem, whose last step is temporal.

| Theorem | States | From |
|---|---|---|
| *SessionOrchestratorProofs* | | |
| `TypeCorrect` | `TypeOK` | |
| `Coherence`, `LogCoherence` | the inductive invariants `IInv` and `IInv /\ LogInv` | |
| `TerminalIsFinal` | `TerminalRowFrozen` | `IInv` |
| `NothingStranded`, `InstancesOwned` | `NoStrandedSession`, `SandboxOwned` | `IInv`, no host faults |
| `PermitsConserved` | `PermitsAccounted` | `TypeOK`, `PermitInv` |
| `TrajectoryReadsAsOneRun`, `RowAndLogAgree` | `LogGrammar`, `RowMatchesLog` | `IInv`, `LogInv` |
| `LifecycleImplemented` | `ImplementsLifecycle`, the refinement of `SessionLifecycle` | `IInv`, `LogInv` |
| *TerminalClientProofs* | | |
| `ClientCoherence` | the inductive invariant `ClientInv` | |
| `RoundsOneAtATime`, `QuestionsAccounted`, `DatabaseAsAnnounced`, `RoundsSettle` | `OneRunAtATime`, `EveryQuestionAccounted`, `QuestionKeepsItsDatabase`, `RoundsDoNotOverlap` | `ClientInv` |
| *StatePolicyProofs* | | |
| `PoliciesAlwaysAgree` | both programs of the policy offer the same tools, for every event list and the conversation made of it | |
| *AgentEpisodeProofs* | | |
| `EpisodeKept` | the inductive invariant `EpisodeInv` | |
| `RecoveriesKeepTheContract`, `QueriesKeepTheContract`, `OnlyRerunsGetStuck`, `EpisodesAgree` | `RecoveryContract`, `QueryContract`, `StuckOnlyByRerun`, `PoliciesAgree` | `EpisodeInv`, lemmas about the policy |
| *TrainingRolloutProofs* | | |
| `RolloutKept` | the inductive invariant `RolloutInv` | |
| `CopyReleasedAtEnd`, `CallsAreLogged` | `ReleasedAtEnd`, `EveryCallLogged` | `RolloutInv` |
| `GuardsKeepTheProtocol` | `GuardsKeepProtocol`, policy and reward together | `RolloutInv`, lemmas about the policy |
| `ShortcutNeverPays` | `ShortcutIsNegative` | `RolloutInv`, `Deterrent` |
| *RecoverySupervisionProofs* | | |
| `RolloutsFit` | the inductive invariant `SupervisionInv` | |
| `VerifiedRepairsAreTaught`, `TeachingKeepsToThePolicy` | `TerminalStateTaught`, `TaughtIsOffered` | `SupervisionInv`, lemmas about the policy |
| *ComponentProofs* | | |
| `ActivationKept` | the inductive invariant `ActivationInv` | |
| `ActivationsAgree`, `SessionsKeepTheirModel` | `ActivationConsistent`, `SessionKeepsItsModel` | `ActivationInv` |
| `ReviewsShowLastDecision` | `ShowsLastDecision` | `ReviewInv` |
| `LineageStaysIsolated` | `LineageIsolated` | `LineageInv` |
| `LiteralsAlwaysSurvive` | `LiteralsSurvive` | `TranslationInv` |
| `CorpusKept`, `CorpusStaysSound` | `GenerationInv`; `CorpusSound` | `GenerationInv` |
| `CatalogueKept`, `CatalogAlwaysAgrees` | `CatalogueInv`; `CatalogAgrees` | `CatalogueInv`, lemmas about the changes of a schema |
| *EvaluationProofs* | | |
| `DecisionsStand` | `DecisionStands` | lemmas about `Decision` |
| `LoopKept`, `ResumesInOrder` | `LoopInv`; `ResumeKeepsOrder` | `LoopInv` |
| `BudgetKept`, `ScoresWithinBudget` | `BaselineInv`; `ScoredWithinBudget` | `BaselineInv` |
| `RunsKept`, `EpisodesEvaluatedOnce` | `RunInv`; `EvaluatedOnce` | `RunInv` |

### Assumptions

`BudgetAssumption` of the orchestrator (positive budgets and permits, which the
request schemas and the settings demand), `ClientAssumption` (finitely many
questions, each sent at most once), `EpisodeAssumption` and `RolloutAssumption`
(the two tools every profile has; a matching query runs), `RegistryAssumption`,
`LoopAssumption`, `RunAssumption`, the stage-1 `BudgetAssumption` (all limits
positive, as in `BirdEvalBudget`), `TasksAssumption` (a clean task is one of
direct profile and the reverse, as `build_p6_scaleup_protocol.py` assigns them),
`RewardAssumption` (weights are naturals, a matching query reads only),
`TranslationAssumption` (types), `GenerationAssumption` (the lists are lists
without repetition where the code makes them so, and the coverage list is not
longer than the number of tasks asked for, without which a run that covers it can
not keep it), `FactoryAssumption` (a source database keeps the column names of a
table apart, and tables from views, as SQLite does; the FROM list of a query is a
list), `LineageAssumption` (the sizes the scale-up demands were counted from the
databases at hand, and its list was written for tasks that exist). `ShortcutNeverPays` alone assumes `Deterrent`: that the reward
version executes candidates, that the cached query is wrong, and that the rewards
left to an uninspected submission are smaller than its two sure penalties. The
code does not demand it of its keyword arguments; the training script's values
meet it, which `MCTrainingRollout` has TLC evaluate (`FirstActionDeterrent`).
Otherwise all are ASSUMEd by the modules that declare the constants or by
`Components` and `Evaluation`, and evaluated by TLC in the runs. One of them is a fact of the shipped data
and not of the code: that no two entries of the registry are the same files
(`configs/service/models.yaml`); the loader refuses duplicate ids only, and with
two ids for one adapter `identify` names the first. `NothingStranded` and
`InstancesOwned` assume `HostFaults = FALSE`: with host faults `FinalizeRaises`
strands a row and `CreateLeaks` leaks instances. The sessions of the
orchestrator may be infinitely many.

### The inductive invariants

*Orchestrator.* `TypeOK` does not say that a coroutine about to save a row holds
a copy that fits the stored row, so nothing about rows is inductive by itself.
`IInv` ties, per session, the stage of the coroutine to the status of the row
(`RowOfStage`), to the status of its copy (`CopyOfStage`), to its registration
(`Registered`) and to its instances (`Owned`); a process that is down holds
nothing (`NothingInMemory`). `LogInv` adds the log: which events have been
written at which stage (`LogOpening`, `LogStarting`, `LogEnding`), the reason the
last one gives (`EndingReason`, `VerdictStored`), and what row and copy count
(`CopyCounts`, `UsageCounted`: row and log differ by at most the one event between
whose two transactions a crash or an exception came, and until the run ends
only if its reason is `internal_error` or `cancelled_by_client`). A step that raises is taken apart
once (`Raised`: the row it leaves, with or without an error event). `PermitInv` adds to
`PermitsAccounted` only that the runs inside the semaphore are finitely many. A step is one of a session
(`OwnStep`, with `StepIsLocal` for the others) or of the process (`SystemStep`).

*Refinement.* The mapping reads the abstract status off the row and the abstract
verdict off the log. Each write to a row moves the status forward, each final
event publishes the verdict of the row it follows (`VerdictStored`), and no step
does both or touches two sessions: the recovery pass fails one row at a time, and
a crash changes neither rows nor log, or saves one row without its event.
Everything else leaves status and verdict alone. Per session this is `Advances`
or `IsPublished`, shown for each stage in `SeenAdvances`.

*Terminal client.* `ClientInv` places every question in exactly one of refused,
queue and rounds (`QuestionsPlaced`), says that only the last round can be
alive, and is exactly while the flag is set (`OneAlive`), and which
sessions its phase has made (`Numbered`, `SessionsMade`) and settled
(`RoundsSettled`). `Budgeted` is needed because counting the rounds bounds the
session numbers. The handlers are proved to take one of a few views of that
state (`View`), and the invariant to survive the views.

*Policy and episodes.* The second program of the policy sees its events spread
over the positions of the messages. `PoliciesAlwaysAgree` shows that each tool
message pairs with the call before it, so that the completed events are the events
in their order at other positions (`Spread`), and that what the policy reads is
kept by such a spreading: last positions, first positions after another, pairs in
order. No induction is needed, since a scan is a set of positions and its last
element.
`EpisodeInv` is the two halves of `RecoveryContract` and `QueryContract`
themselves, with types, that SQL of a free query follows a schema that was seen,
and what an accepted submission says: the contracts are inductive because the
policy reads the whole history each time. `OnlyRerunsGetStuck` goes through what is
left to call by the retrievals made, and finds the submission guard's comparison
with the last attempt as the only dead end. `RolloutInv` accounts for the copy by
case: kept and owned by the stage that holds it (`Kept`), or in the hands of a
thread that outlived its caller (`Abandoned`), the one case in which the end of
a trajectory leaves something behind. Its other parts are about calls: with the
guards on, what is neither retrieval comes after the recovery of every trigger
before it (`RecoveredFirst`), also what was offered and waits for its thread
(`SuspendedWasOffered`); a submission is the last call (`SubmissionEnds`).

*Reward.* `GuardsKeepTheProtocol` joins two readings of one list: the policy's
recovery, which asks for version and diff after a trigger, and the reward's
inspection, which is the first diff if a version came before it. Every recovery
that precedes a call makes the reward's inspection precede it, unless the diff
came first (`DiffFirst`). `ShortcutNeverPays` bounds the reward term by term:
without inspection and without a correct candidate all terms vanish but
two, and two penalties are certain.

*Supervision.* `SupervisionInv` says that every event is what the live policy
made of a call in the history before it (`Fits`). It is a property of the
rollout, from which the two claims about examples follow by lemmas about miner
and builders alone: what an example's prefix contains, what the policy offers
on it. Length and task are arbitrary.

*Activation, review, lineage.* `ActivationInv` describes the engine at every
await of the one undisturbed activation, rollback and stray adapter included
(`Underway`), that request and metadata agree whatever meets whatever
(`RequestsAgree`), and that no activation begins beside an active session
(`Foreseen`), from which `SessionsKeepTheirModel` follows step by step. `ShowsLastDecision` is inductive with its types.
`LineageInv` keeps for each split which one it was taken from. That a stale list
cannot slip through is a count: every database without tasks is unused, the fresh
parts are all that is unused, and they are as many as the databases without tasks,
so they are just those (`FreshOutside`).

*Translation.* `TranslationInv` says that an answer is the question's literals as
they were, or as they were put back into a draft with every placeholder once. When
no literal spells a later placeholder the paths of `Replaced` have length one, so
literals and places correspond one to one, whatever was stripped.

*Generation.* As long as the files can be read, what a run has in memory is what
is on record (`OnRecord`), which makes a resumption harmless. The next variant of
a database is above all those on record (`Below`); that it is never tried again
after a restart rests on the code starting behind the largest number on record.
`TurnsPaced` says how far two small databases are apart at every point of a round,
by the rounds that were cut short between them. That a run which covers the
list has room for it is a pigeonhole argument (`RoomForListed`): before, it keeps
one row per listed database at most.

*Catalogue.* `CatalogueInv` says that every diff on record, of whichever builders
and however chained, can be applied to the source to its end, which rests on
what the builders check by execution before they write (`Breaks`,
`CompoundHolds`, the result compared in `ColumnAdditions`), and that a listing
served is that of the episode it was read from. The rest is about one diff. A
table and its listing agree when they have as many columns and the same names and
types (`Lists`); that is kept by a rename in place, by an addition, and by a
replacement under another type, which the listing makes in place and SQLite at
the end of the table (`OperationShown`), because the names of a table stay apart
(`Lawful`). A diff of any length follows by its shortest prefix that would fail
(`DiffShown`): the recursive functions of the model are read as the chains of
copies and of listings they define, so that no induction theorem is needed.

*Evaluation.* `RunInv` counts: an episode has at most as many orphans as the
parent died, and rows on disk and processes about to write one are at most
one more (`OrphansCounted`, `RowsCounted`); indices are strided by GPU, so no
two threads share one (`Strided`). `LoopInv` says that rows and checkpoint are
those of the first records, in their order, and the chunk those that follow.
`BaselineInv` bounds each charge separately. `DecisionsStand` is an action
property: a trajectory that grows keeps its old positions and the oldest of
those that matter, so a decision taken on them is taken again.

### Only model-checked

- Liveness, which is out of the prover's reach: `StartedRunEnds`,
  `EventReachesSubscriber`, `StreamEnds`, `RolloutEnds`, `QueuedQuestionLeaves`,
  `EvaluationEnds`.
- `AuditedRepairAgrees`. Its programs (`RenamedByDiff`, `ActiveSchema`, the
  expansion of wildcards) are folds of the community modules and concatenations
  of sequences of sequences; the theorems about those take an operator as a
  parameter, which the installed provers cannot instantiate.
- The three violated properties of section 4, which are refuted.

## 6. Not modelled

- Auth sessions: a dictionary under one lock, each operation within it.
- The rest of the tools' answers, prompts, the wording of guidance, trace files,
  reports and statistics: data, without decisions that a property is about.
- `key_action_response_mask`, the composite and BIRD-compatible rewards, the BIRD
  loops, the tool-call parser, the failure taxonomy, the coverage plan: stateless
  functions of text; planned below where they decide something.
- `cli/shell.py` and the command line wrappers: sequential.
- `data/`, `training/checkpoints.py`, `environment/sqlite.py` and the one-off
  scripts: sequential conversions without state of their own.
- Token counts, rows of results, file contents: abstracted as said in section 2.

## 7. Plan

1. Proofs: for one rename of a column or a table, what `AuditedRepairAgrees` says
   of whole diffs.
2. `ToolInstances`: the service's `initialize_session` and `release_session`
   tool by tool, with the rollback of a creation that fails half-way.
3. `key_action_response_mask`, the tool-call parser's overlap resolution and the
   failure taxonomy as operators against a reference definition.
