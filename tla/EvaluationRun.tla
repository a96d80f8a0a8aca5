---------------------------- MODULE EvaluationRun ----------------------------
(***************************************************************************)
(* The process-isolated evaluations (scripts/run_p6_process_isolated_eval.py  *)
(* and scripts/run_base_process_isolated_eval.py): one thread for each GPU    *)
(* runs its share of the episodes, each in a process of its own that is       *)
(* retried, timed out, terminated and killed.  The process is                *)
(* scripts/run_stage6_eval.py in its episode-major mode on one record.  It is *)
(* started in a session of its own, so it outlives a parent that dies, and a  *)
(* parent started again with --resume works in the same directories.          *)
(***************************************************************************)
EXTENDS Integers, Sequences, SequencesExt

CONSTANTS
  DriftTypes,    \* the drift type of each record of the data file
  Gpus,          \* number of GPUs, one thread each
  MaxAttempts,
  MaxDeaths      \* bound: how often the parent dies

\* "at least one GPU is required"
RunAssumption == Gpus \in Nat \ {0}

VARIABLES
  baseOnly,      \* which of the two scripts runs: the base one filters add_column
  main,          \* the parent: running, collected, published, failed, dead
  pc, index, attempt,  \* of each GPU's thread
  completed,     \* indices whose rows a thread has
  child,         \* the processes launched for each episode, in their order
  partial,       \* rows in the episode's checkpoint file; it exists when not 0, for
                 \* the moment between its creation and its row is left out
  tmp, result,   \* the episode's result and the file it is written to first
  published,     \* the rows of the aggregated file
  deaths

runVars == <<baseOnly, main, pc, index, attempt, completed, child, partial, tmp, result, published, deaths>>
threadVars == <<pc, index, attempt, completed>>
fileVars == <<partial, tmp, result>>

Records == DOMAIN DriftTypes
Threads == 1..Gpus
Exited == {"ok", "error", "killed"}

\* run_stage6_eval.main: the filter comes before the offset.
Selected == SelectSeq([i \in Records |-> i], LAMBDA i : baseOnly => DriftTypes[i] = "add_column")

Init ==
  /\ baseOnly \in BOOLEAN
  /\ main = "running"
  /\ pc = [g \in Threads |-> "next"]
  /\ index = [g \in Threads |-> g]
  /\ attempt = [g \in Threads |-> 0]
  /\ completed = {}
  /\ child = [i \in Records |-> <<>>]
  /\ partial = [i \in Records |-> 0]
  /\ tmp = [i \in Records |-> "absent"]
  /\ result = [i \in Records |-> "absent"]
  /\ published = <<>>
  /\ deaths = 0

ThreadAt(g, stage) == main = "running" /\ pc[g] = stage
Current(g) == child[index[g]][Len(child[index[g]])]

-----------------------------------------------------------------------------
(* run_queue *)

Collect(g) ==
  /\ completed' = completed \cup {index[g]}
  /\ index' = [index EXCEPT ![g] = @ + Gpus]
  /\ pc' = [pc EXCEPT ![g] = "next"]
  /\ attempt' = [attempt EXCEPT ![g] = 0]

\* A result of an earlier run is taken when it can be read.
TakeNext(g) ==
  /\ ThreadAt(g, "next")
  /\ \/ /\ index[g] \notin Records
        /\ pc' = [pc EXCEPT ![g] = "ended"]
        /\ UNCHANGED <<index, attempt, completed>>
     \/ /\ index[g] \in Records /\ result[index[g]] = "row"
        /\ Collect(g)
     \/ /\ index[g] \in Records /\ result[index[g]] = "torn"
        /\ pc' = [pc EXCEPT ![g] = "raised"]
        /\ UNCHANGED <<index, attempt, completed>>
     \/ /\ index[g] \in Records /\ result[index[g]] = "absent"
        /\ pc' = [pc EXCEPT ![g] = "launch"]
        /\ UNCHANGED <<index, attempt, completed>>
  /\ UNCHANGED <<baseOnly, main, child, fileVars, published, deaths>>

Launch(g) ==
  /\ ThreadAt(g, "launch")
  /\ child' = [child EXCEPT ![index[g]] = Append(@, "started")]
  /\ attempt' = [attempt EXCEPT ![g] = @ + 1]
  /\ pc' = [pc EXCEPT ![g] = "waiting"]
  /\ UNCHANGED <<baseOnly, main, index, completed, fileVars, published, deaths>>

\* After an attempt that did not return 0: the next one, or the thread gives up.
RetryOrRaise(g) ==
  /\ pc' = [pc EXCEPT ![g] = IF attempt[g] < MaxAttempts THEN "launch" ELSE "raised"]
  /\ UNCHANGED <<index, attempt, completed>>

Reap(g) ==
  /\ ThreadAt(g, "waiting")
  /\ \/ /\ Current(g) = "ok" /\ result[index[g]] = "row" /\ Collect(g)
     \/ /\ Current(g) = "ok" /\ result[index[g]] # "row"
        /\ pc' = [pc EXCEPT ![g] = "raised"]
        /\ UNCHANGED <<index, attempt, completed>>
     \/ Current(g) \in {"error", "killed"} /\ RetryOrRaise(g)
  /\ UNCHANGED <<baseOnly, main, child, fileVars, published, deaths>>

\* The same without a timeout on the retry.
TimeOutOnce(g) ==
  /\ ThreadAt(g, "waiting") /\ attempt[g] = 1
  /\ Current(g) \notin Exited
  /\ pc' = [pc EXCEPT ![g] = "terminating"]
  /\ UNCHANGED <<baseOnly, main, index, attempt, completed, child, fileVars, published, deaths>>

\* killpg(SIGTERM); the process may be about to end by itself.
TimeOut(g) ==
  /\ ThreadAt(g, "waiting")
  /\ Current(g) \notin Exited
  /\ pc' = [pc EXCEPT ![g] = "terminating"]
  /\ UNCHANGED <<baseOnly, main, index, attempt, completed, child, fileVars, published, deaths>>

\* wait(15), else killpg(SIGKILL) and wait: the return code is 124 either way.
TerminateWithoutKill(g) ==
  /\ ThreadAt(g, "terminating")
  /\ RetryOrRaise(g)
  /\ UNCHANGED <<baseOnly, main, child, fileVars, published, deaths>>

Terminate(g) ==
  /\ ThreadAt(g, "terminating")
  /\ RetryOrRaise(g)
  /\ child' = [child EXCEPT ![index[g]][Len(child[index[g]])] =
                 IF @ \in Exited THEN @ ELSE "killed"]
  /\ UNCHANGED <<baseOnly, main, fileVars, published, deaths>>

-----------------------------------------------------------------------------
(* One process, n-th of episode i: run_stage6_eval.main *)

ChildMoves(i, n, from, to) ==
  /\ n \in DOMAIN child[i] /\ child[i][n] = from
  /\ child' = [child EXCEPT ![i][n] = to]

\* Records after the filter and the offset; an existing checkpoint is refused,
\* as the parent never passes --resume-partial.
StartEpisode(i, n) ==
  /\ \/ i <= Len(Selected) /\ partial[i] = 0 /\ ChildMoves(i, n, "started", "evaluating")
     \/ (i > Len(Selected) \/ partial[i] > 0) /\ ChildMoves(i, n, "started", "error")
  /\ UNCHANGED fileVars

AppendRow(i, n) ==
  /\ ChildMoves(i, n, "evaluating", "appended")
  /\ partial' = [partial EXCEPT ![i] = @ + 1]
  /\ UNCHANGED <<tmp, result>>

\* write_jsonl: truncate the temporary file, fill it, put it in place.  Two
\* processes of one episode share the temporary file: when one puts it in place
\* the other one goes on writing into the result.
OpenTmp(i, n) ==
  /\ ChildMoves(i, n, "appended", "writing")
  /\ tmp' = [tmp EXCEPT ![i] = "torn"]
  /\ UNCHANGED <<partial, result>>

FillTmp(i, n) ==
  /\ \/ /\ ChildMoves(i, n, "writing", "written")
        /\ tmp' = [tmp EXCEPT ![i] = "row"]
        /\ UNCHANGED result
     \/ /\ ChildMoves(i, n, "writing result", "written")
        /\ result' = [result EXCEPT ![i] = "row"]
        /\ UNCHANGED tmp
  /\ UNCHANGED partial

ReplaceResult(i, n) ==
  /\ n \in DOMAIN child[i] /\ child[i][n] = "written"
  /\ \/ /\ tmp[i] = "absent" /\ ChildMoves(i, n, "written", "error")
        /\ UNCHANGED fileVars
     \/ /\ tmp[i] # "absent"
        /\ result' = [result EXCEPT ![i] = tmp[i]]
        /\ tmp' = [tmp EXCEPT ![i] = "absent"]
        /\ child' = [child EXCEPT ![i] = [m \in DOMAIN @ |->
                       IF m = n THEN "replaced"
                       ELSE IF @[m] = "writing" THEN "writing result" ELSE @[m]]]
        /\ UNCHANGED partial

\* The summary, the engine's shutdown, the end of the process.
ExitChild(i, n) == ChildMoves(i, n, "replaced", "ok") /\ UNCHANGED fileVars

\* CUDA errors, lack of memory, any exception.
CrashChild(i, n) ==
  /\ n \in DOMAIN child[i] /\ child[i][n] \notin Exited
  /\ ChildMoves(i, n, child[i][n], "error")
  /\ UNCHANGED fileVars

ChildStep ==
  /\ \E i \in Records : \E n \in DOMAIN child[i] :
       \/ StartEpisode(i, n) \/ AppendRow(i, n) \/ OpenTmp(i, n) \/ FillTmp(i, n)
       \/ ReplaceResult(i, n) \/ ExitChild(i, n) \/ CrashChild(i, n)
  /\ UNCHANGED <<baseOnly, main, threadVars, published, deaths>>

-----------------------------------------------------------------------------
(* main: the threads' results, the checks, the files, a death and a restart *)

\* The row that the process of episode i wrote: of which record.
RowOf(i) == Selected[i]

InOrder(rows) == rows = [i \in Records |-> i]

Gather ==
  /\ main = "running"
  /\ \A g \in Threads : pc[g] \in {"ended", "raised"}
  /\ main' = IF (\E g \in Threads : pc[g] = "raised") \/ completed # Records
             THEN "failed" ELSE "collected"
  /\ UNCHANGED <<baseOnly, threadVars, child, fileVars, published, deaths>>

\* The identity check never fails here: with records that the base script's
\* processes would filter out, the last processes find no record and fail.
Publish ==
  /\ main = "collected"
  /\ LET rows == [i \in Records |-> RowOf(i)]
     IN IF InOrder(rows) THEN published' = rows /\ main' = "published"
                         ELSE main' = "failed" /\ UNCHANGED published
  /\ UNCHANGED <<baseOnly, threadVars, child, fileVars, deaths>>

ParentDies ==
  /\ main \in {"running", "collected"} /\ deaths < MaxDeaths
  /\ main' = "dead" /\ deaths' = deaths + 1
  /\ UNCHANGED <<baseOnly, threadVars, child, fileVars, published>>

\* Started again with --resume, after a death or a failure.
Resume ==
  /\ main = "dead" \/ (main = "failed" /\ deaths < MaxDeaths)
  /\ main' = "running"
  /\ deaths' = IF main = "failed" THEN deaths + 1 ELSE deaths
  /\ pc' = [g \in Threads |-> "next"]
  /\ index' = [g \in Threads |-> g]
  /\ attempt' = [g \in Threads |-> 0]
  /\ completed' = {}
  /\ UNCHANGED <<baseOnly, child, fileVars, published>>

ThreadStep ==
  \E g \in Threads : TakeNext(g) \/ Launch(g) \/ Reap(g) \/ TimeOut(g) \/ Terminate(g)
ParentStep == ThreadStep \/ Gather \/ Publish

Next == ParentStep \/ ChildStep \/ ParentDies \/ Resume

Spec == Init /\ [][Next]_runVars

-----------------------------------------------------------------------------
\* Each life of the parent evaluates an episode at most once, retries included:
\* the next attempt starts when the last one is dead and stops at its checkpoint
\* (run_queue, and run_stage6_eval.py:369).  Only a process that outlived its
\* parent can add a row beside the one of the next life.
EvaluatedOnce == \A i \in Records : partial[i] <= 1 + deaths

\* A run that goes on comes to an end, published or failed, however its
\* processes hang.
EvaluationEnds == main = "running" ~> main \in {"published", "failed", "dead"}
=============================================================================
