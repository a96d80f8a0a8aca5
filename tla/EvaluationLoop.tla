---------------------------- MODULE EvaluationLoop ----------------------------
(***************************************************************************)
(* One evaluation process (scripts/run_stage6_eval.py over run_variant,       *)
(* execute_turn and score_and_release of scripts/run_five_tool_eval.py): a    *)
(* chunk of episodes is played turn by turn, scored, released and appended to *)
(* a checkpoint, from which a later process resumes.  Episode-major is the    *)
(* chunk of one.  Which tools the policy offers is AgentEpisode's subject;    *)
(* here a call may be answered or refused.                                    *)
(***************************************************************************)
EXTENDS Integers, Sequences, FiniteSets

CONSTANTS Tasks,      \* number of records
          Chunks,     \* the chunk sizes
          Turns,
          MaxStops    \* bound: how often the process stops

\* --episode-chunk-size is refused when negative, and 0 is another mode.
LoopAssumption == Tasks \in Nat /\ Chunks \subseteq Nat \ {0}

VARIABLES
  chunk, fallback,    \* the options --episode-chunk-size, --terminal-submit-fallback
  process,            \* running, raised, done, dead
  rows,               \* the rows the process holds
  checkpoint,         \* the lines of the partial file
  episodes, turn,     \* the chunk being played; <<>> between chunks
  instances,          \* episodes that own tool instances
  report,             \* the rows of the result file
  stops

loopVars == <<chunk, fallback, process, rows, checkpoint, episodes, turn, instances, report, stops>>

Queries == {"right", "wrong"}
NoSql == ""
Torn == [record |-> 0, reason |-> "", success |-> FALSE]

Fresh(i) == [record |-> i, reason |-> "running", final |-> NoSql, executed |-> NoSql, calls |-> 0]

Init ==
  /\ chunk \in Chunks /\ fallback \in BOOLEAN
  /\ process = "running"
  /\ rows = <<>> /\ checkpoint = <<>>
  /\ episodes = <<>> /\ turn = 0
  /\ instances = {}
  /\ report = <<>>
  /\ stops = 0

-----------------------------------------------------------------------------
(* run_variant *)

StartChunkAtBoundary ==
  /\ process = "running" /\ episodes = <<>> /\ Len(rows) < Tasks
  /\ LET start == (Len(rows) \div chunk) * chunk
         stop == IF start + chunk < Tasks THEN start + chunk ELSE Tasks
     IN episodes' = [k \in 1..(stop - start) |-> Fresh(start + k)]
  /\ turn' = 0
  /\ UNCHANGED <<chunk, fallback, process, rows, checkpoint, instances, report, stops>>

StartChunk ==
  /\ process = "running" /\ episodes = <<>> /\ Len(rows) < Tasks
  /\ LET start == Len(rows)
         stop == IF start + chunk < Tasks THEN start + chunk ELSE Tasks
     IN episodes' = [k \in 1..(stop - start) |-> Fresh(start + k)]
  /\ turn' = 0
  /\ UNCHANGED <<chunk, fallback, process, rows, checkpoint, instances, report, stops>>

Active == {k \in DOMAIN episodes : episodes[k].reason = "running"}

\* What a turn of one episode comes to: the prompt has outgrown the context, the
\* response holds no call, or its first call was answered or refused.
Outcomes ==
  {[kind |-> k, sql |-> NoSql] : k \in {"too long", "no call", "retrieval"}}
    \cup [kind : {"executed", "not executed", "submitted", "submission refused"}, sql : Queries]

AfterTurn(e, o) ==
  CASE o.kind = "too long" -> [e EXCEPT !.reason = "prompt_too_long"]
    [] o.kind = "no call" -> [e EXCEPT !.reason = "invalid_output"]
    [] o.kind \in {"retrieval", "not executed"} -> [e EXCEPT !.calls = @ + 1]
    [] o.kind = "executed" -> [e EXCEPT !.calls = @ + 1, !.executed = o.sql]
    [] o.kind = "submitted" -> [e EXCEPT !.calls = @ + 1, !.final = o.sql, !.reason = "submitted"]
    [] o.kind = "submission refused" ->
         [e EXCEPT !.calls = @ + 1, !.final = o.sql, !.reason = "invalid_submit"]

PlayTurn ==
  /\ process = "running" /\ Active # {} /\ turn < Turns
  /\ turn' = turn + 1
  /\ \E outcome \in [Active -> Outcomes] :
       /\ episodes' = [k \in DOMAIN episodes |->
                         IF k \in Active THEN AfterTurn(episodes[k], outcome[k]) ELSE episodes[k]]
       /\ instances' = instances \cup
            {k \in Active : outcome[k].kind \in {"retrieval", "executed", "not executed", "submitted"}}
  /\ UNCHANGED <<chunk, fallback, process, rows, checkpoint, report, stops>>

\* apply_terminal_submit_fallback: the last query that was executed.
Closed(e) ==
  IF e.reason # "running" THEN e
  ELSE IF fallback /\ e.executed # NoSql
       THEN [e EXCEPT !.final = e.executed, !.reason = "fallback_submitted"]
       ELSE [e EXCEPT !.reason = "turn_limit"]

\* score_and_release: any final query is run, refused submissions included; the
\* instances are given back.
ScoredRow(k) ==
  LET e == Closed(episodes[k])
  IN [record |-> e.record, reason |-> e.reason, success |-> e.final = "right"]

AppendChunk ==
  /\ process = "running" /\ episodes # <<>> /\ (Active = {} \/ turn = Turns)
  /\ LET scored == [k \in DOMAIN episodes |-> ScoredRow(k)]
     IN \/ /\ rows' = rows \o scored
           /\ checkpoint' = checkpoint \o scored
           /\ UNCHANGED <<process, stops>>
        \* The process stops while it writes: some rows, and perhaps part of one. A
        \* row that lacks nothing but its newline, to which a resumption would glue
        \* the next one, is left out.
        \/ /\ stops < MaxStops
           /\ \E n \in 0..(Len(scored) - 1) :
                checkpoint' \in {checkpoint \o SubSeq(scored, 1, n),
                                 checkpoint \o SubSeq(scored, 1, n) \o <<Torn>>}
           /\ process' = "dead" /\ stops' = stops + 1
           /\ UNCHANGED rows
  /\ episodes' = <<>> /\ turn' = 0 /\ instances' = {}
  /\ UNCHANGED <<chunk, fallback, report>>

-----------------------------------------------------------------------------
(* write_jsonl and summary.json *)

PublishReport ==
  /\ process = "running" /\ episodes = <<>> /\ Len(rows) = Tasks
  /\ report' = rows
  /\ process' = "done"
  /\ UNCHANGED <<chunk, fallback, rows, checkpoint, episodes, turn, instances, stops>>

Stop ==
  /\ process = "running" /\ stops < MaxStops
  /\ process' = "dead" /\ stops' = stops + 1
  /\ rows' = <<>> /\ episodes' = <<>> /\ turn' = 0 /\ instances' = {}
  /\ UNCHANGED <<chunk, fallback, checkpoint, report>>

\* --resume-partial: the checkpoint must parse, hold no more rows than there are
\* records, and its k-th row must be of the k-th record.  The operator may pass
\* another chunk size.
ResumePartial ==
  /\ process = "dead"
  /\ chunk' \in Chunks
  /\ IF /\ \A k \in DOMAIN checkpoint : checkpoint[k] # Torn
        /\ Len(checkpoint) <= Tasks
        /\ \A k \in DOMAIN checkpoint : checkpoint[k].record = k
     THEN rows' = checkpoint /\ process' = "running"
     ELSE rows' = <<>> /\ process' = "raised"
  /\ UNCHANGED <<fallback, checkpoint, episodes, turn, instances, report, stops>>

Next == StartChunk \/ PlayTurn \/ AppendChunk \/ PublishReport \/ Stop \/ ResumePartial

Spec == Init /\ [][Next]_loopVars

-----------------------------------------------------------------------------
\* The checkpoint and the rows in memory always hold the first records, each
\* once and in their order, and a report has them all, over stops in the middle
\* of a chunk and resumptions with another chunk size.
ResumeKeepsOrder ==
  /\ \A k \in DOMAIN rows : rows[k].record = k
  /\ \A k \in DOMAIN checkpoint : checkpoint[k] = Torn \/ checkpoint[k].record = k
  /\ Len(rows) + Len(episodes) <= Tasks
  /\ process = "done" => Len(report) = Tasks
=============================================================================
