--------------------------- MODULE EvaluationProofs ---------------------------
(***************************************************************************)
(* Theorems about the offline evaluation, whose four parts share no state:  *)
(* the result-contract controller (its definitions are unprefixed), and, by  *)
(* name, the processes of a run, the loop inside one of them and the stage-1      *)
(* baselines.  For any number of records, GPUs, attempts, deaths and stops, *)
(* every chunk size and every budget.                                       *)
(***************************************************************************)
EXTENDS Evaluation, SequenceTheorems, FiniteSetTheorems, WellFoundedInduction, TLAPS

-----------------------------------------------------------------------------
\* The controller.

\* The oldest of a set of positions exists.
LEMMA OldestOf ==
  ASSUME NEW S, S \subseteq Nat, S # {}
  PROVE  Min(S) \in S /\ \A x \in S : Min(S) <= x
<1>1. \E x \in S : \A y \in S : ~(<<y, x>> \in OpToRel(<, Nat))
  BY NatLessThanWellFounded, WFMin
<1>2. PICK x \in S : \A y \in S : ~(<<y, x>> \in OpToRel(<, Nat))
  BY <1>1
<1>3. ASSUME NEW y \in S, y < x
      PROVE  FALSE
  <2>1. <<y, x>> \in OpToRel(<, Nat)
    BY <1>3 DEF OpToRel
  <2>. QED
    BY <1>2, <2>1
<1>4. \A y \in S : x <= y
  BY <1>3
<1>. QED
  BY <1>4 DEF Min

\* It stays the oldest when later positions are added.
LEMMA OldestStays ==
  ASSUME NEW S, S \subseteq Nat, S # {}, NEW T, T \subseteq Nat, S \subseteq T,
         \A x \in S, y \in T \ S : x < y
  PROVE  Min(T) = Min(S)
<1>1. PICK a : a = Min(S)
  OBVIOUS
<1>2. PICK b : b = Min(T)
  OBVIOUS
<1>3. a \in S /\ \A x \in S : a <= x
  BY <1>1, OldestOf
<1>4. b \in T /\ \A x \in T : b <= x
  BY <1>2, OldestOf
<1>5. b \in S
  <2>1. ~(a < b)
    BY <1>3, <1>4
  <2>. QED
    BY <2>1, <1>3, <1>4
<1>6. a <= b /\ b <= a
  BY <1>3, <1>4, <1>5
<1>. QED
  BY <1>1, <1>2, <1>3, <1>5, <1>6

\* What a longer trajectory says of the positions of a shorter one, once a diff
\* was inspected: the same executions are candidates, unsafe and matching.
LEMMA OldPositionsKeep ==
  ASSUME NEW t \in Seq(Events), NEW e \in Events, NEW u, u = Append(t, e)
  PROVE  /\ DiffIndices(t) \subseteq DiffIndices(u)
         /\ DiffIndices(t) # {} =>
              /\ FirstDiff(u) = FirstDiff(t)
              /\ CandidateIndices(u) \cap DOMAIN t = CandidateIndices(t)
              /\ Unsafe(u) \cap DOMAIN t = Unsafe(t)
              /\ Matching(u) \cap DOMAIN t = Matching(t)
<1>1. PICK n : n = Len(t) + 1
  OBVIOUS
<1>2. /\ n \in Nat /\ DOMAIN t \subseteq Nat /\ \A k \in DOMAIN t : k < n
      /\ DOMAIN u = DOMAIN t \cup {n}
      /\ \A k \in DOMAIN t : u[k] = t[k]
  BY <1>1
<1>3. /\ DiffIndices(t) \subseteq DiffIndices(u)
      /\ DiffIndices(t) \subseteq DOMAIN t
      /\ DiffIndices(u) \ DiffIndices(t) \subseteq {n}
      /\ DiffIndices(u) \subseteq Nat
  BY <1>2 DEF DiffIndices
<1>4. ASSUME DiffIndices(t) # {}
      PROVE  FirstDiff(u) = FirstDiff(t)
  <2>1. \A x \in DiffIndices(t), y \in DiffIndices(u) \ DiffIndices(t) : x < y
    BY <1>2, <1>3
  <2>. QED
    BY <1>2, <1>3, <1>4, <2>1, OldestStays DEF FirstDiff
<1>5. ASSUME DiffIndices(t) # {}
      PROVE  CandidateIndices(u) \cap DOMAIN t = CandidateIndices(t)
  BY <1>2, <1>4, <1>5 DEF CandidateIndices
<1>6. ASSUME DiffIndices(t) # {}
      PROVE  Unsafe(u) \cap DOMAIN t = Unsafe(t)
  BY <1>2, <1>5, <1>6 DEF Unsafe, CandidateIndices
<1>7. ASSUME DiffIndices(t) # {}
      PROVE  Matching(u) \cap DOMAIN t = Matching(t)
  BY <1>2, <1>5, <1>7 DEF Matching, Ran, CandidateIndices
<1>. QED
  BY <1>3, <1>4, <1>5, <1>6, <1>7

\* The decision on a trajectory that was accepted, or found unsafe, is the
\* decision on every trajectory one event longer.
LEMMA DecidedOnce ==
  ASSUME NEW t \in Seq(Events), NEW e \in Events, NEW u, u = Append(t, e),
         \/ Decision(t).accepted
         \/ Decision(t).reason = "unsafe_post_diff_candidate"
  PROVE  Decision(u) = Decision(t)
<1>1. /\ contract # "no fingerprint" /\ contract # "no database" /\ contract # "diff fails"
      /\ DiffIndices(t) # {} /\ CandidateIndices(t) # {}
      /\ Unsafe(t) \cup Matching(t) # {}
  BY DEF Decision, Refuse
<1>2. PICK n : n = Len(t) + 1
  OBVIOUS
<1>3. /\ n \in Nat /\ DOMAIN t \subseteq Nat /\ \A k \in DOMAIN t : k < n
      /\ DOMAIN u = DOMAIN t \cup {n}
  BY <1>2
<1>4. /\ DiffIndices(u) # {}
      /\ CandidateIndices(u) \cap DOMAIN t = CandidateIndices(t)
      /\ Unsafe(u) \cap DOMAIN t = Unsafe(t)
      /\ Matching(u) \cap DOMAIN t = Matching(t)
  BY <1>1, OldPositionsKeep
<1>5. Unsafe(u) \subseteq DOMAIN u /\ Matching(u) \subseteq DOMAIN u
  BY DEF Unsafe, Matching, Ran, CandidateIndices
<1>6. PICK before : before = Unsafe(t) \cup Matching(t)
  OBVIOUS
<1>7. PICK after : after = Unsafe(u) \cup Matching(u)
  OBVIOUS
<1>8. before \subseteq DOMAIN t /\ before \subseteq after /\ after \subseteq DOMAIN u
  BY <1>4, <1>5, <1>6, <1>7
<1>9. \A k \in after \ before : k = n
  BY <1>3, <1>4, <1>5, <1>6, <1>7
<1>10. Min(after) = Min(before)
  <2>1. before \subseteq Nat /\ after \subseteq Nat /\ before # {}
    BY <1>1, <1>3, <1>6, <1>8
  <2>2. \A x \in before, y \in after \ before : x < y
    BY <1>3, <1>8, <1>9
  <2>. QED
    BY <1>8, <2>1, <2>2, OldestStays
<1>11. Min(before) \in DOMAIN t
  BY <1>1, <1>3, <1>6, <1>8, OldestOf
<1>12. Min(before) \in Unsafe(u) <=> Min(before) \in Unsafe(t)
  BY <1>4, <1>11
<1>13. after # {} /\ before # {} /\ CandidateIndices(u) # {}
  BY <1>1, <1>4, <1>6, <1>8
<1>. QED
  BY <1>1, <1>4, <1>6, <1>7, <1>10, <1>12, <1>13 DEF Decision

\* The controller never takes back an acceptance or a refusal for an unsafe
\* statement, whatever follows: an online controller would have ended there.
THEOREM DecisionsStand == Spec => DecisionStands
<1>. DEFINE Typed == trajectory \in Seq(Events)
<1>1. Init => Typed
  <2>1. <<>> \in Seq(Events)
    OBVIOUS
  <2>. QED
    BY <2>1 DEF Init
<1>2. Typed /\ [Next]_controllerVars => Typed'
  BY DEF Next, Grow, controllerVars
<1>3. ASSUME Typed, [Next]_controllerVars
      PROVE  [LET before == Decision(trajectory)
              IN before.accepted \/ before.reason = "unsafe_post_diff_candidate"
                   => Decision(trajectory)' = before]_controllerVars
  <2>1. CASE UNCHANGED controllerVars
    BY <2>1
  <2>2. CASE Next
    <3>1. PICK event \in Events : trajectory' = Append(trajectory, event)
      BY <2>2 DEF Next, Grow
    <3>2. contract' = contract
      BY <2>2 DEF Next, Grow
    <3>3. PICK u : u = Append(trajectory, event)
      OBVIOUS
    <3>4. Decision(trajectory)' = Decision(u)
      BY <3>1, <3>2, <3>3 DEF Decision
    <3>. QED
      BY <1>3, <3>3, <3>4, DecidedOnce
  <2>. QED
    BY <1>3, <2>1, <2>2
<1>. QED
  BY <1>1, <1>2, <1>3, PTL DEF Spec, DecisionStands

-----------------------------------------------------------------------------
\* The loop of one process.

\* What a row and an episode are made of.
LoopReasons ==
  {"running", "prompt_too_long", "invalid_output", "submitted", "invalid_submit",
   "fallback_submitted", "turn_limit", Loop!Torn.reason}
LoopSql == Loop!Queries \cup {Loop!NoSql}
LoopRow == [record : Nat, reason : LoopReasons, success : BOOLEAN]
LoopEpisode == [record : Nat, reason : LoopReasons, final : LoopSql, executed : LoopSql, calls : Nat]

LoopTyped ==
  /\ chunk \in Chunks
  /\ rows \in Seq(LoopRow) /\ checkpoint \in Seq(LoopRow)
  /\ episodes \in Seq(LoopEpisode)

\* The rows in memory are the first records, and while the process runs they are
\* what the checkpoint holds; the chunk continues them.
RowsInOrder ==
  /\ \A k \in DOMAIN rows : rows[k].record = k
  /\ \A k \in DOMAIN episodes : episodes[k].record = Len(rows) + k
  /\ Len(rows) + Len(episodes) <= Tasks

CheckpointInOrder ==
  /\ \A k \in DOMAIN checkpoint : checkpoint[k] = Loop!Torn \/ checkpoint[k].record = k
  /\ process \in {"running", "done"} => checkpoint = rows

Reported ==
  /\ process # "running" => episodes = <<>>
  /\ process = "done" => Len(report) = Tasks

LoopInv == LoopTyped /\ RowsInOrder /\ CheckpointInOrder /\ Reported

\* A new episode is one, of its record.
LEMMA FreshEpisode ==
  ASSUME NEW i \in Nat PROVE Loop!Fresh(i) \in LoopEpisode /\ Loop!Fresh(i).record = i
<1>1. Loop!NoSql \in LoopSql /\ "running" \in LoopReasons
  BY DEF LoopSql, LoopReasons
<1>. QED
  BY <1>1 DEF Loop!Fresh, LoopEpisode

\* A process that starts has no rows and no checkpoint.
LEMMA LoopStarts == ASSUME Loop!LoopAssumption PROVE Loop!Init => LoopInv
<1>1. <<>> \in Seq(LoopRow) /\ <<>> \in Seq(LoopEpisode)
  OBVIOUS
<1>. QED
  BY <1>1 DEF Loop!Init, Loop!LoopAssumption, LoopInv, LoopTyped, RowsInOrder, CheckpointInOrder,
              Reported

\* A chunk starts at the first record without a row.
LEMMA StartChunkKeepsOrder ==
  ASSUME Loop!LoopAssumption, LoopInv, Loop!StartChunk PROVE LoopInv'
<1>1. PICK start : start = Len(rows)
  OBVIOUS
<1>2. PICK stop : stop = IF start + chunk < Tasks THEN start + chunk ELSE Tasks
  OBVIOUS
<1>3. /\ start \in Nat /\ stop \in Nat /\ start < stop /\ stop <= Tasks
  BY <1>1, <1>2 DEF Loop!StartChunk, Loop!LoopAssumption, LoopInv, LoopTyped
<1>4. episodes' = [k \in 1..(stop - start) |-> Loop!Fresh(start + k)]
  BY <1>1, <1>2 DEF Loop!StartChunk
<1>5. ASSUME NEW k \in 1..(stop - start)
      PROVE  Loop!Fresh(start + k) \in LoopEpisode /\ Loop!Fresh(start + k).record = start + k
  <2>1. start + k \in Nat
    BY <1>3
  <2>. QED
    BY <2>1, FreshEpisode
<1>6. episodes' \in Seq(LoopEpisode) /\ Len(episodes') = stop - start
  <2>1. stop - start \in Nat
    BY <1>3
  <2>2. episodes' \in [1..(stop - start) -> LoopEpisode]
    BY <1>4, <1>5
  <2>. QED
    BY <2>1, <2>2
<1>7. \A k \in DOMAIN episodes' : episodes'[k].record = start + k
  BY <1>4, <1>5
<1>8. UNCHANGED <<chunk, process, rows, checkpoint, report>> /\ process = "running"
  BY DEF Loop!StartChunk
<1>. QED
  BY <1>1, <1>3, <1>6, <1>7, <1>8
     DEF LoopInv, LoopTyped, RowsInOrder, CheckpointInOrder, Reported, Loop!LoopAssumption

\* A turn leaves an episode that of its record.
LEMMA TurnKeepsRecord ==
  ASSUME NEW e \in LoopEpisode, NEW o \in Loop!Outcomes
  PROVE  Loop!AfterTurn(e, o) \in LoopEpisode /\ Loop!AfterTurn(e, o).record = e.record
<1>1. \/ o.kind \in {"too long", "no call", "retrieval"}
      \/ /\ o.kind \in {"executed", "not executed", "submitted", "submission refused"}
         /\ o.sql \in LoopSql
  <2>1. CASE o \in {[kind |-> k, sql |-> Loop!NoSql] : k \in {"too long", "no call", "retrieval"}}
    <3>1. PICK k \in {"too long", "no call", "retrieval"} : o = [kind |-> k, sql |-> Loop!NoSql]
      BY <2>1
    <3>. QED
      BY <3>1
  <2>2. CASE o \in [kind : {"executed", "not executed", "submitted", "submission refused"},
                    sql : Loop!Queries]
    BY <2>2 DEF LoopSql
  <2>. QED
    BY <2>1, <2>2 DEF Loop!Outcomes
<1>2. e.calls + 1 \in Nat
  BY DEF LoopEpisode
<1>3. {"prompt_too_long", "invalid_output", "submitted", "invalid_submit"} \subseteq LoopReasons
  BY DEF LoopReasons
<1>4. CASE o.kind = "too long"
  BY <1>3, <1>4 DEF Loop!AfterTurn, LoopEpisode
<1>5. CASE o.kind = "no call"
  BY <1>3, <1>5 DEF Loop!AfterTurn, LoopEpisode
<1>6. CASE o.kind \in {"retrieval", "not executed"}
  BY <1>2, <1>6 DEF Loop!AfterTurn, LoopEpisode
<1>7. CASE o.kind = "executed"
  BY <1>1, <1>2, <1>7 DEF Loop!AfterTurn, LoopEpisode
<1>8. CASE o.kind = "submitted"
  BY <1>1, <1>2, <1>3, <1>8 DEF Loop!AfterTurn, LoopEpisode
<1>9. CASE o.kind = "submission refused"
  BY <1>1, <1>2, <1>3, <1>9 DEF Loop!AfterTurn, LoopEpisode
<1>. QED
  BY <1>1, <1>4, <1>5, <1>6, <1>7, <1>8, <1>9

\* A turn changes the episodes of the chunk, none of its records.
LEMMA PlayTurnKeepsOrder ==
  ASSUME LoopInv, Loop!PlayTurn PROVE LoopInv'
<1>1. PICK outcome \in [Loop!Active -> Loop!Outcomes] :
        episodes' = [k \in DOMAIN episodes |->
                       IF k \in Loop!Active THEN Loop!AfterTurn(episodes[k], outcome[k])
                       ELSE episodes[k]]
  BY DEF Loop!PlayTurn
<1>2. episodes \in Seq(LoopEpisode)
  BY DEF LoopInv, LoopTyped
<1>3. ASSUME NEW k \in DOMAIN episodes
      PROVE  episodes'[k] \in LoopEpisode /\ episodes'[k].record = episodes[k].record
  <2>1. episodes[k] \in LoopEpisode
    BY <1>2
  <2>2. CASE k \in Loop!Active
    BY <1>1, <2>1, <2>2, TurnKeepsRecord
  <2>3. CASE k \notin Loop!Active
    BY <1>1, <2>1, <2>3
  <2>. QED
    BY <2>2, <2>3
<1>4. DOMAIN episodes' = DOMAIN episodes
  BY <1>1
<1>5. episodes' \in Seq(LoopEpisode) /\ Len(episodes') = Len(episodes)
  <2>1. DOMAIN episodes = 1..Len(episodes) /\ Len(episodes) \in Nat
    BY <1>2
  <2>2. episodes' \in [1..Len(episodes) -> LoopEpisode]
    BY <1>1, <1>3, <2>1
  <2>. QED
    BY <2>1, <2>2
<1>6. UNCHANGED <<chunk, process, rows, checkpoint, report>> /\ process = "running"
  BY DEF Loop!PlayTurn
<1>. QED
  BY <1>3, <1>4, <1>5, <1>6
     DEF LoopInv, LoopTyped, RowsInOrder, CheckpointInOrder, Reported

\* Whichever way an episode ends, its row is of its record.
LEMMA ScoredOfRecord ==
  ASSUME LoopInv, NEW k \in DOMAIN episodes
  PROVE  Loop!ScoredRow(k) \in LoopRow /\ Loop!ScoredRow(k).record = Len(rows) + k
<1>1. PICK e : e = episodes[k]
  OBVIOUS
<1>2. e \in LoopEpisode /\ e.record = Len(rows) + k
  BY <1>1 DEF LoopInv, LoopTyped, RowsInOrder
<1>3. {"fallback_submitted", "turn_limit"} \subseteq LoopReasons
  BY DEF LoopReasons
<1>4. Loop!Closed(e) \in LoopEpisode /\ Loop!Closed(e).record = e.record
  BY <1>2, <1>3 DEF Loop!Closed, LoopEpisode
<1>. QED
  BY <1>1, <1>2, <1>4 DEF Loop!ScoredRow, LoopRow, LoopEpisode

\* The rows of a chunk continue what a file of rows holds, all of them or some.
LEMMA RowsContinue ==
  ASSUME NEW old \in Seq(LoopRow), NEW new \in Seq(LoopRow),
         \A k \in DOMAIN old : old[k] = Loop!Torn \/ old[k].record = k,
         \A k \in DOMAIN new : new[k] = Loop!Torn \/ new[k].record = Len(old) + k
  PROVE  /\ old \o new \in Seq(LoopRow)
         /\ Len(old \o new) = Len(old) + Len(new)
         /\ \A k \in DOMAIN (old \o new) :
              (old \o new)[k] = Loop!Torn \/ (old \o new)[k].record = k
<1>1. PICK all : all = old \o new
  OBVIOUS
<1>2. /\ all \in Seq(LoopRow) /\ Len(all) = Len(old) + Len(new)
      /\ \A i \in 1..(Len(old) + Len(new)) :
           all[i] = IF i <= Len(old) THEN old[i] ELSE new[i - Len(old)]
  BY <1>1, ConcatProperties
<1>3. ASSUME NEW k \in DOMAIN all
      PROVE  all[k] = Loop!Torn \/ all[k].record = k
  <2>1. k \in 1..(Len(old) + Len(new))
    BY <1>2
  <2>2. CASE k <= Len(old)
    <3>1. k \in DOMAIN old /\ all[k] = old[k]
      BY <1>2, <2>1, <2>2
    <3>. QED
      BY <3>1
  <2>3. CASE ~(k <= Len(old))
    <3>1. PICK j : j = k - Len(old)
      OBVIOUS
    <3>2. j \in DOMAIN new /\ all[k] = new[j] /\ Len(old) + j = k
      BY <1>2, <2>1, <2>3, <3>1
    <3>. QED
      BY <3>2
  <2>. QED
    BY <2>2, <2>3
<1>. QED
  BY <1>1, <1>2, <1>3

\* A played chunk is appended to the rows and to the checkpoint at its place.
LEMMA AppendChunkKeepsOrder ==
  ASSUME Loop!LoopAssumption, LoopInv, Loop!AppendChunk PROVE LoopInv'
<1>1. PICK chunkRows : chunkRows = [k \in DOMAIN episodes |-> Loop!ScoredRow(k)]
  OBVIOUS
<1>2. /\ episodes \in Seq(LoopEpisode) /\ Len(episodes) \in Nat
      /\ rows \in Seq(LoopRow) /\ checkpoint \in Seq(LoopRow) /\ Len(rows) \in Nat
  BY DEF LoopInv, LoopTyped
<1>3. chunkRows \in Seq(LoopRow) /\ Len(chunkRows) = Len(episodes)
  <2>1. chunkRows \in [1..Len(episodes) -> LoopRow]
    BY <1>1, <1>2, ScoredOfRecord
  <2>. QED
    BY <1>2, <2>1
<1>4. \A k \in DOMAIN chunkRows : chunkRows[k].record = Len(rows) + k
  BY <1>1, ScoredOfRecord
<1>5. /\ process = "running" /\ episodes' = <<>> /\ UNCHANGED <<chunk, report>>
      /\ checkpoint = rows
  BY DEF Loop!AppendChunk, LoopInv, CheckpointInOrder
<1>6. <<>> \in Seq(LoopEpisode) /\ Len(<<>>) = 0 /\ DOMAIN <<>> = {}
  OBVIOUS
<1>7. CASE /\ rows' = rows \o chunkRows /\ checkpoint' = checkpoint \o chunkRows
           /\ UNCHANGED <<process, stops>>
  <2>1. /\ rows' \in Seq(LoopRow) /\ Len(rows') = Len(rows) + Len(chunkRows)
        /\ \A k \in DOMAIN rows' : rows'[k] = Loop!Torn \/ rows'[k].record = k
    BY <1>2, <1>3, <1>4, <1>7, RowsContinue DEF LoopInv, RowsInOrder
  <2>2. ASSUME NEW k \in DOMAIN rows'
        PROVE  rows'[k].record = k
    <3>1. \A i \in 1..(Len(rows) + Len(chunkRows)) :
            rows'[i] = IF i <= Len(rows) THEN rows[i] ELSE chunkRows[i - Len(rows)]
      BY <1>2, <1>3, <1>7, ConcatProperties
    <3>2. k \in 1..(Len(rows) + Len(chunkRows))
      BY <2>1
    <3>3. CASE k <= Len(rows)
      BY <1>2, <3>1, <3>2, <3>3 DEF LoopInv, RowsInOrder
    <3>4. CASE ~(k <= Len(rows))
      <4>1. PICK j : j = k - Len(rows)
        OBVIOUS
      <4>2. j \in DOMAIN chunkRows /\ rows'[k] = chunkRows[j] /\ Len(rows) + j = k
        BY <1>2, <1>3, <3>1, <3>2, <3>4, <4>1
      <4>. QED
        BY <1>4, <4>2
    <3>. QED
      BY <3>3, <3>4
  <2>3. checkpoint' = rows'
    BY <1>5, <1>7
  <2>. QED
    BY <1>3, <1>5, <1>6, <1>7, <2>1, <2>2, <2>3
       DEF LoopInv, LoopTyped, RowsInOrder, CheckpointInOrder, Reported
<1>8. CASE /\ \E n \in 0..(Len(chunkRows) - 1) :
                checkpoint' \in {checkpoint \o SubSeq(chunkRows, 1, n),
                                 checkpoint \o SubSeq(chunkRows, 1, n) \o <<Loop!Torn>>}
           /\ process' = "dead" /\ UNCHANGED rows
  <2>1. PICK n \in 0..(Len(chunkRows) - 1) :
                checkpoint' \in {checkpoint \o SubSeq(chunkRows, 1, n),
                                 checkpoint \o SubSeq(chunkRows, 1, n) \o <<Loop!Torn>>}
    BY <1>8
  <2>2. PICK some : some = SubSeq(chunkRows, 1, n)
    OBVIOUS
  <2>3. /\ some \in Seq(LoopRow)
        /\ \A i \in DOMAIN some : some[i] = chunkRows[i] /\ i \in DOMAIN chunkRows
    BY <1>3, <2>2
  <2>4. \A k \in DOMAIN some : some[k].record = Len(checkpoint) + k
    BY <1>4, <1>5, <2>3
  <2>5. PICK kept : kept = checkpoint \o some
    OBVIOUS
  <2>6. /\ kept \in Seq(LoopRow)
        /\ \A k \in DOMAIN kept : kept[k] = Loop!Torn \/ kept[k].record = k
    BY <1>2, <2>3, <2>4, <2>5, RowsContinue DEF LoopInv, CheckpointInOrder
  <2>7. /\ checkpoint' \in Seq(LoopRow)
        /\ \A k \in DOMAIN checkpoint' : checkpoint'[k] = Loop!Torn \/ checkpoint'[k].record = k
    <3>1. CASE checkpoint' = kept
      BY <2>6, <3>1
    <3>2. CASE checkpoint' = kept \o <<Loop!Torn>>
      <4>1. Loop!Torn \in LoopRow
        BY DEF Loop!Torn, LoopRow, LoopReasons
      <4>2. PICK last : last = <<Loop!Torn>>
        OBVIOUS
      <4>3. last \in Seq(LoopRow) /\ \A k \in DOMAIN last : last[k] = Loop!Torn
        BY <4>1, <4>2
      <4>. QED
        BY <2>6, <3>2, <4>2, <4>3, RowsContinue
    <3>. QED
      BY <2>1, <2>2, <2>5, <3>1, <3>2
  <2>8. rows' = rows /\ Len(rows') + Len(episodes') <= Tasks
    <3>1. Len(episodes) >= 0 /\ Len(rows) + Len(episodes) <= Tasks
      BY <1>2 DEF LoopInv, RowsInOrder
    <3>. QED
      BY <1>2, <1>5, <1>6, <1>8, <3>1 DEF Loop!LoopAssumption
  <2>. QED
    BY <1>2, <1>5, <1>6, <1>8, <2>7, <2>8
       DEF LoopInv, LoopTyped, RowsInOrder, CheckpointInOrder, Reported
<1>. QED
  BY <1>1, <1>7, <1>8 DEF Loop!AppendChunk

\* A report is written of a full list of rows.
LEMMA PublishKeepsOrder ==
  ASSUME LoopInv, Loop!PublishReport PROVE LoopInv'
  BY DEF LoopInv, LoopTyped, RowsInOrder, CheckpointInOrder, Reported, Loop!PublishReport

\* A process that stops keeps nothing but its checkpoint.
LEMMA StopKeepsOrder ==
  ASSUME Loop!LoopAssumption, LoopInv, Loop!Stop PROVE LoopInv'
<1>1. <<>> \in Seq(LoopRow) /\ <<>> \in Seq(LoopEpisode) /\ Len(<<>>) = 0 /\ DOMAIN <<>> = {}
  OBVIOUS
<1>. QED
  BY <1>1 DEF LoopInv, LoopTyped, RowsInOrder, CheckpointInOrder, Reported, Loop!Stop,
              Loop!LoopAssumption

\* What a resuming process takes is checked row by row.
LEMMA ResumeKeepsRows ==
  ASSUME Loop!LoopAssumption, LoopInv, Loop!ResumePartial PROVE LoopInv'
<1>1. /\ process = "dead" /\ chunk' \in Chunks
      /\ UNCHANGED <<checkpoint, episodes, report>>
      /\ episodes = <<>>
  BY DEF Loop!ResumePartial, LoopInv, Reported
<1>2. <<>> \in Seq(LoopRow) /\ Len(<<>>) = 0 /\ DOMAIN <<>> = {}
  OBVIOUS
<1>3. CASE /\ \A k \in DOMAIN checkpoint : checkpoint[k].record = k
           /\ Len(checkpoint) <= Tasks
           /\ rows' = checkpoint /\ process' = "running"
  BY <1>1, <1>2, <1>3 DEF LoopInv, LoopTyped, RowsInOrder, CheckpointInOrder, Reported
<1>4. CASE rows' = <<>> /\ process' = "raised"
  BY <1>1, <1>2, <1>4
     DEF LoopInv, LoopTyped, RowsInOrder, CheckpointInOrder, Reported, Loop!LoopAssumption
<1>. QED
  BY <1>3, <1>4 DEF Loop!ResumePartial

\* The rows in memory and in the checkpoint stay in the records' order.
THEOREM LoopKept == Loop!Spec => []LoopInv
<1>1. Loop!Init => LoopInv
  BY LoopStarts, LoopSound
<1>2. LoopInv /\ [Loop!Next]_(Loop!loopVars) => LoopInv'
  <2>. SUFFICES ASSUME LoopInv, [Loop!Next]_(Loop!loopVars)
                PROVE  LoopInv'
    OBVIOUS
  <2>1. CASE UNCHANGED Loop!loopVars
    BY <2>1 DEF Loop!loopVars, LoopInv, LoopTyped, RowsInOrder, CheckpointInOrder, Reported
  <2>2. CASE Loop!Next
    BY <2>2, StartChunkKeepsOrder, PlayTurnKeepsOrder, AppendChunkKeepsOrder, PublishKeepsOrder,
       StopKeepsOrder, ResumeKeepsRows, LoopSound DEF Loop!Next
  <2>. QED
    BY <2>1, <2>2
<1>. QED
  BY <1>1, <1>2, PTL DEF Loop!Spec

\* Over stops in the middle of a chunk and resumptions with another chunk size,
\* every row is of the record at its place and a report has them all.
THEOREM ResumesInOrder == Loop!Spec => []ResumeKeepsOrder
<1>1. LoopInv => ResumeKeepsOrder
  BY DEF LoopInv, RowsInOrder, CheckpointInOrder, Reported, ResumeKeepsOrder,
         Loop!ResumeKeepsOrder
<1>. QED
  BY <1>1, LoopKept, PTL

-----------------------------------------------------------------------------
\* The stage-1 baselines.

Usages ==
  [model_calls : Nat, tool_calls : Nat, sql_executions : Nat, prompt_tokens : Nat, new_tokens : Nat]

\* What a prediction was charged stays within the budget at every moment; a
\* ReAct run makes one call a turn and a direct run one call in all.
Charged ==
  /\ usage \in Usages
  /\ reactTurn \in Nat
  /\ Baseline!WithinBudget
  /\ mode \in {"direct", "react"}
  /\ mode = "react" => usage.model_calls <= reactTurn
  /\ mode = "direct" /\ reason = "running" => usage.model_calls = 0

\* A query counts as run only when it was submitted, and a score is of a run
\* that has ended.
ScoredAtEnd ==
  /\ final_sql = "ran" => reason = "submitted"
  /\ scored.done => /\ reason # "running" /\ scored.within_budget
                    /\ scored.executable => reason = "submitted"

BaselineInv == Charged /\ ScoredAtEnd

\* The smallest of three numbers is one of them.
LEMMA SmallestOf ==
  ASSUME NEW a \in Nat, NEW b \in Nat, NEW c \in Nat
  PROVE  /\ Baseline!Smallest({a, b, c}) \in Nat
         /\ Baseline!Smallest({a, b, c}) <= a
         /\ Baseline!Smallest({a, b, c}) <= b
         /\ Baseline!Smallest({a, b, c}) <= c
<1>1. \E x \in {a, b, c} : \A y \in {a, b, c} : x <= y
  <2>1. CASE a <= b /\ a <= c
    BY <2>1
  <2>2. CASE b <= a /\ b <= c
    BY <2>2
  <2>3. CASE c <= a /\ c <= b
    BY <2>3
  <2>. QED
    BY <2>1, <2>2, <2>3
<1>. QED
  BY <1>1 DEF Baseline!Smallest

\* An admitted prompt and the part of its answer that is kept stay within the
\* token budgets, and are charged as one call.
LEMMA GeneratedWithin ==
  ASSUME Baseline!BudgetAssumption, Charged,
         NEW prompt \in Nat, NEW produced \in Nat, Baseline!Refused(prompt) = "admitted",
         NEW generated, generated = Baseline!Generated(prompt, produced)
  PROVE  /\ generated \in Usages
         /\ generated.model_calls = usage.model_calls + 1
         /\ generated.tool_calls = usage.tool_calls
         /\ generated.sql_executions = usage.sql_executions
         /\ generated.new_tokens <= max_new_tokens
         /\ generated.prompt_tokens + generated.new_tokens <= max_total_tokens
<1>1. /\ usage \in Usages /\ usage.new_tokens <= max_new_tokens
      /\ max_new_tokens \in Nat /\ max_total_tokens \in Nat
  BY DEF Charged, Baseline!WithinBudget, Baseline!BudgetAssumption
<1>2. Baseline!total_tokens + prompt < max_total_tokens
  BY <1>1 DEF Baseline!Refused, Baseline!total_tokens, Usages
<1>3. PICK new : new = Baseline!AtLeast0(max_new_tokens - usage.new_tokens)
  OBVIOUS
<1>4. PICK all : all = Baseline!AtLeast0(max_total_tokens - Baseline!total_tokens - prompt)
  OBVIOUS
<1>5. new \in Nat /\ new = max_new_tokens - usage.new_tokens
  BY <1>1, <1>3 DEF Baseline!AtLeast0, Usages
<1>6. all \in Nat /\ all = max_total_tokens - Baseline!total_tokens - prompt
  BY <1>1, <1>2, <1>4 DEF Baseline!AtLeast0, Baseline!total_tokens, Usages
<1>7. PICK kept : kept = Baseline!Allowed(prompt, produced)
  OBVIOUS
<1>8. kept \in Nat /\ kept <= new /\ kept <= all
  BY <1>3, <1>4, <1>5, <1>6, <1>7, SmallestOf DEF Baseline!Allowed
<1>9. generated = [usage EXCEPT !.model_calls = @ + 1, !.prompt_tokens = @ + prompt,
                                !.new_tokens = @ + kept]
  BY <1>7 DEF Baseline!Generated
<1>10. /\ generated \in Usages
       /\ generated.model_calls = usage.model_calls + 1
       /\ generated.tool_calls = usage.tool_calls
       /\ generated.sql_executions = usage.sql_executions
       /\ generated.new_tokens = usage.new_tokens + kept
       /\ generated.prompt_tokens = usage.prompt_tokens + prompt
  <2>1. /\ usage.model_calls + 1 \in Nat
        /\ usage.prompt_tokens + prompt \in Nat
        /\ usage.new_tokens + kept \in Nat
    BY <1>1, <1>8 DEF Usages
  <2>2. generated = [model_calls |-> usage.model_calls + 1, tool_calls |-> usage.tool_calls,
                     sql_executions |-> usage.sql_executions,
                     prompt_tokens |-> usage.prompt_tokens + prompt,
                     new_tokens |-> usage.new_tokens + kept]
    BY <1>1, <1>9 DEF Usages
  <2>3. usage.tool_calls \in Nat /\ usage.sql_executions \in Nat
    BY <1>1 DEF Usages
  <2>. QED
    BY <2>1, <2>2, <2>3 DEF Usages
<1>11. usage.new_tokens \in Nat /\ usage.prompt_tokens \in Nat
  BY <1>1 DEF Usages
<1>. QED
  BY <1>1, <1>5, <1>6, <1>8, <1>10, <1>11 DEF Baseline!total_tokens

\* A task starts without charges or scores.
LEMMA BaselineStarts == ASSUME Baseline!BudgetAssumption PROVE Baseline!Init => BaselineInv
  BY DEF Baseline!Init, Baseline!BudgetAssumption, BaselineInv, Charged, ScoredAtEnd, Usages,
         Baseline!WithinBudget, Baseline!total_tokens, Baseline!NotScored

\* A direct run makes its one call.
LEMMA DirectWithin ==
  ASSUME Baseline!BudgetAssumption, BaselineInv, Baseline!PlayDirect PROVE BaselineInv'
<1>1. /\ mode = "direct" /\ reason = "running" /\ usage \in Usages /\ usage.model_calls = 0
      /\ Baseline!WithinBudget /\ reactTurn \in Nat /\ final_sql # "ran" /\ ~scored.done
      /\ UNCHANGED <<mode, reactTurn, scored>>
  BY DEF Baseline!PlayDirect, BaselineInv, Charged, ScoredAtEnd
<1>2. PICK prompt \in 1..(max_prompt_tokens + 1) :
        IF Baseline!Refused(prompt) # "admitted"
        THEN /\ reason' = Baseline!Refused(prompt)
             /\ UNCHANGED <<usage, final_sql>>
        ELSE \E produced \in 1..max_new_tokens_per_call :
               /\ usage' = Baseline!Generated(prompt, produced)
               /\ \/ final_sql' \in Baseline!Predictions /\ reason' = "submitted"
                  \/ UNCHANGED final_sql /\ reason' = "invalid_output"
  BY DEF Baseline!PlayDirect
<1>3. CASE Baseline!Refused(prompt) # "admitted"
  <2>1. reason' \in {"prompt_too_long", "total_token_budget"} /\ UNCHANGED <<usage, final_sql>>
    BY <1>2, <1>3 DEF Baseline!Refused
  <2>. QED
    BY <1>1, <2>1
       DEF BaselineInv, Charged, ScoredAtEnd, Baseline!WithinBudget, Baseline!total_tokens
<1>4. CASE Baseline!Refused(prompt) = "admitted"
  <2>1. PICK produced \in 1..max_new_tokens_per_call :
          /\ usage' = Baseline!Generated(prompt, produced)
          /\ \/ final_sql' \in Baseline!Predictions /\ reason' = "submitted"
             \/ UNCHANGED final_sql /\ reason' = "invalid_output"
    BY <1>2, <1>4
  <2>2. prompt \in Nat /\ produced \in Nat
    BY DEF Baseline!BudgetAssumption
  <2>3. /\ usage' \in Usages /\ usage'.model_calls = 1
        /\ usage'.tool_calls = usage.tool_calls
        /\ usage'.sql_executions = usage.sql_executions
        /\ usage'.new_tokens <= max_new_tokens
        /\ usage'.prompt_tokens + usage'.new_tokens <= max_total_tokens
    BY <1>1, <1>4, <2>1, <2>2, GeneratedWithin DEF BaselineInv
  <2>4. Baseline!WithinBudget'
    BY <1>1, <2>3 DEF Baseline!WithinBudget, Baseline!total_tokens, Baseline!BudgetAssumption
  <2>5. reason' # "running" /\ (final_sql' = "ran" => reason' = "submitted")
    BY <1>1, <2>1
  <2>. QED
    BY <1>1, <2>3, <2>4, <2>5 DEF BaselineInv, Charged, ScoredAtEnd
<1>. QED
  BY <1>3, <1>4

\* What one parsed action of a ReAct run is charged.
LEMMA ActionWithin ==
  ASSUME Baseline!BudgetAssumption, NEW action \in Baseline!Actions, NEW generated \in Usages,
         generated.tool_calls <= max_tool_calls, generated.sql_executions <= max_sql_executions,
         final_sql # "ran", reason = "running", Baseline!React(action, generated)
  PROVE  /\ usage' \in Usages
         /\ usage'.model_calls = generated.model_calls
         /\ usage'.tool_calls <= max_tool_calls
         /\ usage'.sql_executions <= max_sql_executions
         /\ usage'.new_tokens = generated.new_tokens
         /\ usage'.prompt_tokens = generated.prompt_tokens
         /\ final_sql' = "ran" => reason' = "submitted"
<1>1. CASE usage' = generated /\ UNCHANGED final_sql
  BY <1>1
<1>2. PICK counted : counted = [generated EXCEPT !.tool_calls = @ + 1]
  OBVIOUS
<1>3. /\ counted \in Usages
      /\ counted.tool_calls = generated.tool_calls + 1
      /\ counted.model_calls = generated.model_calls
      /\ counted.sql_executions = generated.sql_executions
      /\ counted.new_tokens = generated.new_tokens
      /\ counted.prompt_tokens = generated.prompt_tokens
  BY <1>2 DEF Usages
<1>4. ASSUME ~(generated.tool_calls >= max_tool_calls)
      PROVE  counted.tool_calls <= max_tool_calls
  BY <1>3, <1>4 DEF Usages, Baseline!BudgetAssumption
<1>5. CASE /\ usage' = counted /\ ~(generated.tool_calls >= max_tool_calls)
           /\ UNCHANGED final_sql \/ reason' = "submitted"
  BY <1>3, <1>4, <1>5
<1>6. CASE /\ usage' = [counted EXCEPT !.sql_executions = @ + 1]
           /\ ~(counted.sql_executions >= max_sql_executions)
           /\ ~(generated.tool_calls >= max_tool_calls)
           /\ UNCHANGED final_sql
  <2>1. /\ usage' \in Usages
        /\ usage'.tool_calls = counted.tool_calls
        /\ usage'.model_calls = counted.model_calls
        /\ usage'.sql_executions = counted.sql_executions + 1
        /\ usage'.new_tokens = counted.new_tokens
        /\ usage'.prompt_tokens = counted.prompt_tokens
    BY <1>3, <1>6 DEF Usages
  <2>2. usage'.sql_executions <= max_sql_executions
    BY <1>3, <1>6, <2>1 DEF Usages, Baseline!BudgetAssumption
  <2>. QED
    BY <1>3, <1>4, <1>6, <2>1, <2>2
<1>. QED
  BY <1>1, <1>2, <1>5, <1>6 DEF Baseline!React, Baseline!Actions

\* A step of the tool-using baseline stays within the budgets it charges.
LEMMA ReactWithin ==
  ASSUME Baseline!BudgetAssumption, BaselineInv, Baseline!PlayReact PROVE BaselineInv'
<1>1. /\ mode = "react" /\ reason = "running" /\ usage \in Usages
      /\ usage.model_calls <= reactTurn /\ reactTurn \in Nat /\ reactTurn < max_model_calls
      /\ reactTurn' = reactTurn + 1
      /\ Baseline!WithinBudget /\ final_sql # "ran" /\ ~scored.done
      /\ UNCHANGED <<mode, scored>>
  BY DEF Baseline!PlayReact, BaselineInv, Charged, ScoredAtEnd
<1>2. PICK prompt \in 1..(max_prompt_tokens + 1) :
        IF Baseline!Refused(prompt) # "admitted"
        THEN /\ reason' = Baseline!Refused(prompt)
             /\ UNCHANGED <<usage, final_sql>>
        ELSE \E produced \in 1..max_new_tokens_per_call, action \in Baseline!Actions :
               Baseline!React(action, Baseline!Generated(prompt, produced))
  BY DEF Baseline!PlayReact
<1>3. max_model_calls \in Nat /\ usage.model_calls \in Nat
  BY <1>1 DEF Baseline!BudgetAssumption, Usages
<1>4. CASE Baseline!Refused(prompt) # "admitted"
  <2>1. UNCHANGED <<usage, final_sql>>
    BY <1>2, <1>4
  <2>. QED
    BY <1>1, <1>3, <2>1
       DEF BaselineInv, Charged, ScoredAtEnd, Baseline!WithinBudget, Baseline!total_tokens
<1>5. CASE Baseline!Refused(prompt) = "admitted"
  <2>1. PICK produced \in 1..max_new_tokens_per_call, action \in Baseline!Actions :
          Baseline!React(action, Baseline!Generated(prompt, produced))
    BY <1>2, <1>5
  <2>2. prompt \in Nat /\ produced \in Nat
    BY DEF Baseline!BudgetAssumption
  <2>3. PICK generated : generated = Baseline!Generated(prompt, produced)
    OBVIOUS
  <2>4. /\ generated \in Usages
        /\ generated.model_calls = usage.model_calls + 1
        /\ generated.tool_calls = usage.tool_calls
        /\ generated.sql_executions = usage.sql_executions
        /\ generated.new_tokens <= max_new_tokens
        /\ generated.prompt_tokens + generated.new_tokens <= max_total_tokens
    BY <1>5, <2>2, <2>3, GeneratedWithin DEF BaselineInv
  <2>5. generated.tool_calls <= max_tool_calls /\ generated.sql_executions <= max_sql_executions
    BY <1>1, <2>4 DEF Baseline!WithinBudget
  <2>6. /\ usage' \in Usages
        /\ usage'.model_calls = generated.model_calls
        /\ usage'.tool_calls <= max_tool_calls
        /\ usage'.sql_executions <= max_sql_executions
        /\ usage'.new_tokens = generated.new_tokens
        /\ usage'.prompt_tokens = generated.prompt_tokens
        /\ final_sql' = "ran" => reason' = "submitted"
    BY <1>1, <2>1, <2>3, <2>4, <2>5, ActionWithin
  <2>7. usage'.model_calls <= reactTurn' /\ usage'.model_calls <= max_model_calls
    BY <1>1, <1>3, <2>4, <2>6
  <2>8. Baseline!WithinBudget'
    BY <2>4, <2>6, <2>7 DEF Baseline!WithinBudget, Baseline!total_tokens
  <2>. QED
    BY <1>1, <2>6, <2>7, <2>8 DEF BaselineInv, Charged, ScoredAtEnd
<1>. QED
  BY <1>4, <1>5

\* Running out of turns charges nothing.
LEMMA TurnLimitWithin ==
  ASSUME BaselineInv, Baseline!TurnLimit PROVE BaselineInv'
  BY DEF BaselineInv, Charged, ScoredAtEnd, Baseline!TurnLimit, Baseline!WithinBudget,
         Baseline!total_tokens

\* The evaluator sums up charges that the runner kept within the budget.
LEMMA ScoreWithin ==
  ASSUME BaselineInv, Baseline!Score PROVE BaselineInv'
<1>1. /\ UNCHANGED <<mode, reason, reactTurn, usage, final_sql>> /\ reason # "running"
      /\ scored' = [executable |-> Baseline!Executable,
                    within_budget |-> Baseline!WithinBudget, done |-> TRUE]
  BY DEF Baseline!Score
<1>2. Baseline!WithinBudget
  BY DEF BaselineInv, Charged
<1>3. ASSUME Baseline!Executable
      PROVE  reason = "submitted"
  <2>1. final_sql = "ran"
    BY <1>3 DEF Baseline!Executable
  <2>. QED
    BY <2>1 DEF BaselineInv, ScoredAtEnd
<1>4. /\ scored'.within_budget = Baseline!WithinBudget
      /\ scored'.executable = Baseline!Executable
  BY <1>1
<1>5. Charged'
  BY <1>1 DEF BaselineInv, Charged, Baseline!WithinBudget, Baseline!total_tokens
<1>6. ScoredAtEnd'
  BY <1>1, <1>2, <1>3, <1>4 DEF BaselineInv, ScoredAtEnd
<1>. QED
  BY <1>5, <1>6 DEF BaselineInv

\* The charges stay within the budget and scores come last.
THEOREM BudgetKept == Baseline!Spec => []BaselineInv
<1>1. Baseline!Init => BaselineInv
  BY BaselineStarts, BudgetSound
<1>2. BaselineInv /\ [Baseline!Next]_(Baseline!baselineVars) => BaselineInv'
  <2>. SUFFICES ASSUME BaselineInv, [Baseline!Next]_(Baseline!baselineVars)
                PROVE  BaselineInv'
    OBVIOUS
  <2>1. CASE UNCHANGED Baseline!baselineVars
    BY <2>1 DEF Baseline!baselineVars, BaselineInv, Charged, ScoredAtEnd, Baseline!WithinBudget,
                Baseline!total_tokens
  <2>2. CASE Baseline!Next
    BY <2>2, DirectWithin, ReactWithin, TurnLimitWithin, ScoreWithin, BudgetSound DEF Baseline!Next
  <2>. QED
    BY <2>1, <2>2
<1>. QED
  BY <1>1, <1>2, PTL DEF Baseline!Spec

\* The runner charges what the evaluator checks: no prediction is scored as a
\* budget violation, and only a submitted query as executable.
THEOREM ScoresWithinBudget == Baseline!Spec => []ScoredWithinBudget
<1>1. BaselineInv => ScoredWithinBudget
  BY DEF BaselineInv, ScoredAtEnd, ScoredWithinBudget, Baseline!ScoredWithinBudget
<1>. QED
  BY <1>1, BudgetKept, PTL

-----------------------------------------------------------------------------
\* The processes of a run.

ChildStates ==
  {"started", "evaluating", "appended", "writing", "writing result", "written", "replaced"}
    \cup Run!Exited
Stages == {"next", "launch", "waiting", "terminating", "ended", "raised"}

\* The processes of an episode that may still add a row, and those that will.
Unfinished(i) == {n \in DOMAIN child[i] : child[i][n] \in {"started", "evaluating"}}
Evaluating(i) == {n \in DOMAIN child[i] : child[i][n] = "evaluating"}

\* The last process of an episode has a parent when a thread waits for it, or
\* terminates it; the others that may still add a row are orphans.
Owned(i) ==
  /\ main = "running"
  /\ \E g \in Run!Threads : pc[g] \in {"waiting", "terminating"} /\ index[g] = i
Orphans(i) == IF Owned(i) THEN Unfinished(i) \ {Len(child[i])} ELSE Unfinished(i)

RunTyped ==
  /\ child \in [Run!Records -> Seq(ChildStates)]
  /\ partial \in [Run!Records -> Nat]
  /\ deaths \in Nat
  /\ index \in [Run!Threads -> Nat]
  /\ pc \in [Run!Threads -> Stages]

\* Every thread stays on its own episodes, one of each Gpus.
Strided == \A g \in Run!Threads : \E k \in Nat : index[g] = g + k * Gpus
Working ==
  \A g \in Run!Threads : pc[g] \in {"launch", "waiting", "terminating"} => index[g] \in Run!Records

\* Each death of the parent leaves at most one orphan, and each orphan may add
\* one row beside the one of the present life.
OrphansCounted == \A i \in Run!Records : Cardinality(Orphans(i)) <= deaths
RowsCounted == \A i \in Run!Records : partial[i] + Cardinality(Evaluating(i)) <= 1 + deaths

RunInv == RunTyped /\ Strided /\ Working /\ OrphansCounted /\ RowsCounted

\* An episode's processes are finitely many.
LEMMA FinitelyMany ==
  ASSUME RunTyped, NEW i \in Run!Records
  PROVE  /\ IsFiniteSet(Unfinished(i)) /\ Cardinality(Unfinished(i)) \in Nat
         /\ IsFiniteSet(Orphans(i)) /\ Cardinality(Orphans(i)) \in Nat
         /\ IsFiniteSet(Evaluating(i)) /\ Cardinality(Evaluating(i)) \in Nat
         /\ Evaluating(i) \subseteq Unfinished(i)
         /\ Cardinality(Unfinished(i)) <= Cardinality(Orphans(i)) + 1
<1>1. Len(child[i]) \in Nat /\ DOMAIN child[i] = 1..Len(child[i])
  BY DEF RunTyped
<1>2. IsFiniteSet(1..Len(child[i]))
  BY <1>1, FS_Interval
<1>3. Unfinished(i) \subseteq 1..Len(child[i]) /\ Evaluating(i) \subseteq Unfinished(i)
  BY <1>1 DEF Unfinished, Evaluating
<1>4. IsFiniteSet(Unfinished(i)) /\ IsFiniteSet(Evaluating(i))
  BY <1>2, <1>3, FS_Subset
<1>5. Orphans(i) \subseteq Unfinished(i) /\ Unfinished(i) \subseteq Orphans(i) \cup {Len(child[i])}
  BY DEF Orphans
<1>6. IsFiniteSet(Orphans(i))
  BY <1>4, <1>5, FS_Subset
<1>7. /\ Cardinality(Unfinished(i)) \in Nat /\ Cardinality(Evaluating(i)) \in Nat
      /\ Cardinality(Orphans(i)) \in Nat
  BY <1>4, <1>6, FS_CardinalityType
<1>8. PICK more : more = Orphans(i) \cup {Len(child[i])}
  OBVIOUS
<1>9. IsFiniteSet(more) /\ Cardinality(more) <= Cardinality(Orphans(i)) + 1
  <2>1. /\ IsFiniteSet(more)
        /\ Cardinality(more) = IF Len(child[i]) \in Orphans(i) THEN Cardinality(Orphans(i))
                               ELSE Cardinality(Orphans(i)) + 1
    BY <1>6, <1>8, FS_AddElement
  <2>. QED
    BY <1>7, <2>1
<1>10. Cardinality(Unfinished(i)) <= Cardinality(more)
  BY <1>5, <1>8, <1>9, FS_Subset
<1>11. Cardinality(more) \in Nat
  BY <1>9, FS_CardinalityType
<1>. QED
  BY <1>3, <1>4, <1>6, <1>7, <1>9, <1>10, <1>11

\* Two threads are never on the same episode.
LEMMA OwnEpisodes ==
  ASSUME Run!RunAssumption, RunTyped, Strided, NEW g \in Run!Threads, NEW h \in Run!Threads,
         index[g] = index[h]
  PROVE  g = h
<1>1. Gpus \in Nat /\ g \in 1..Gpus /\ h \in 1..Gpus
  BY DEF Run!RunAssumption, Run!Threads
<1>2. PICK k \in Nat : index[g] = g + k * Gpus
  BY DEF Strided
<1>3. PICK j \in Nat : index[h] = h + j * Gpus
  BY DEF Strided
<1>4. g - h = j * Gpus - k * Gpus
  <2>1. PICK a : a = j * Gpus
    OBVIOUS
  <2>2. PICK b : b = k * Gpus
    OBVIOUS
  <2>3. a \in Int /\ b \in Int
    BY <1>1, <2>1, <2>2
  <2>4. g + b = h + a
    BY <1>2, <1>3, <2>1, <2>2
  <2>. QED
    BY <1>1, <2>1, <2>2, <2>3, <2>4
<1>5. CASE j = k
  BY <1>1, <1>4, <1>5
<1>6. ASSUME NEW a \in Nat, NEW b \in Nat, b < a
      PROVE  a * Gpus - b * Gpus >= Gpus
  <2>1. PICK c : c = a - b
    OBVIOUS
  <2>2. c \in Nat /\ c >= 1 /\ a = b + c
    BY <1>6, <2>1
  <2>3. a * Gpus = b * Gpus + c * Gpus
    BY <1>1, <2>2
  <2>4. c * Gpus >= Gpus
    BY <1>1, <2>2
  <2>5. a * Gpus \in Int /\ b * Gpus \in Int /\ c * Gpus \in Int
    BY <1>1, <2>2
  <2>. QED
    BY <1>1, <2>3, <2>4, <2>5
<1>7. j * Gpus \in Int /\ k * Gpus \in Int
  BY <1>1
<1>8. CASE k < j
  BY <1>1, <1>4, <1>6, <1>7, <1>8
<1>9. CASE j < k
  BY <1>1, <1>4, <1>6, <1>7, <1>9
<1>. QED
  BY <1>5, <1>8, <1>9

\* A step with fewer orphans and evaluations keeps the counts.
LEMMA CountsKept ==
  ASSUME RunInv, RunTyped', deaths' = deaths, partial' = partial,
         \A i \in Run!Records :
           Orphans(i)' \subseteq Orphans(i) /\ Evaluating(i)' \subseteq Evaluating(i)
  PROVE  OrphansCounted' /\ RowsCounted'
<1>. SUFFICES ASSUME NEW i \in Run!Records
              PROVE  /\ Cardinality(Orphans(i)') <= deaths
                     /\ partial[i] + Cardinality(Evaluating(i)') <= 1 + deaths
  BY DEF OrphansCounted, RowsCounted, Run!Records
<1>1. /\ IsFiniteSet(Orphans(i)) /\ Cardinality(Orphans(i)) \in Nat
      /\ IsFiniteSet(Evaluating(i)) /\ Cardinality(Evaluating(i)) \in Nat
  BY FinitelyMany DEF RunInv
<1>2. /\ Cardinality(Orphans(i)') <= Cardinality(Orphans(i)) /\ IsFiniteSet(Orphans(i)')
      /\ Cardinality(Evaluating(i)') <= Cardinality(Evaluating(i)) /\ IsFiniteSet(Evaluating(i)')
  BY <1>1, FS_Subset
<1>3. Cardinality(Orphans(i)') \in Nat /\ Cardinality(Evaluating(i)') \in Nat
  BY <1>2, FS_CardinalityType
<1>4. /\ Cardinality(Orphans(i)) <= deaths /\ partial[i] + Cardinality(Evaluating(i)) <= 1 + deaths
      /\ deaths \in Nat /\ partial[i] \in Nat
  BY DEF RunInv, OrphansCounted, RowsCounted, RunTyped
<1>. QED
  BY <1>1, <1>2, <1>3, <1>4

\* A thread that moves on to its next episode stays on its own ones.
LEMMA CollectStays ==
  ASSUME Run!RunAssumption, RunTyped, Strided, Working, NEW g \in Run!Threads, Run!Collect(g)
  PROVE  /\ index' \in [Run!Threads -> Nat] /\ pc' \in [Run!Threads -> Stages]
         /\ Strided' /\ Working'
<1>1. /\ index' = [index EXCEPT ![g] = @ + Gpus] /\ pc' = [pc EXCEPT ![g] = "next"]
      /\ Gpus \in Nat /\ index \in [Run!Threads -> Nat] /\ pc \in [Run!Threads -> Stages]
      /\ "next" \in Stages
  BY DEF Run!Collect, RunTyped, Run!RunAssumption, Stages
<1>2. index' \in [Run!Threads -> Nat] /\ pc' \in [Run!Threads -> Stages]
  BY <1>1
<1>3. ASSUME NEW h \in Run!Threads
      PROVE  \E k \in Nat : index'[h] = h + k * Gpus
  <2>1. PICK k \in Nat : index[h] = h + k * Gpus
    BY DEF Strided
  <2>2. CASE h # g
    BY <1>1, <2>1, <2>2
  <2>3. CASE h = g
    <3>1. PICK a : a = k * Gpus
      OBVIOUS
    <3>2. (k + 1) * Gpus = a + Gpus /\ a \in Int
      BY <1>1, <3>1
    <3>3. h \in Int
      BY <1>1 DEF Run!Threads
    <3>4. index'[h] = h + (k + 1) * Gpus
      BY <1>1, <2>1, <2>3, <3>1, <3>2, <3>3
    <3>. QED
      BY <3>4
  <2>. QED
    BY <2>2, <2>3
<1>4. Strided'
  BY <1>3 DEF Strided, Run!Threads
<1>5. Working'
  BY <1>1 DEF Working, Run!Threads, Run!Records
<1>. QED
  BY <1>2, <1>4, <1>5

\* What a thread does without moving on.
LEMMA StageMoves ==
  ASSUME RunTyped, Strided, Working, NEW g \in Run!Threads, NEW stage \in Stages,
         pc' = [pc EXCEPT ![g] = stage], index' = index,
         stage \in {"launch", "waiting", "terminating"} => index[g] \in Run!Records
  PROVE  pc' \in [Run!Threads -> Stages] /\ Strided' /\ Working'
<1>1. pc' \in [Run!Threads -> Stages]
  BY DEF RunTyped
<1>2. Strided'
  BY DEF Strided, Run!Threads
<1>3. Working'
  BY DEF Working, RunTyped, Run!Threads, Run!Records
<1>. QED
  BY <1>1, <1>2, <1>3

\* A thread looks for the result of its index: it ends, collects, raises or launches.
LEMMA TakeNextKeeps ==
  ASSUME Run!RunAssumption, RunInv, NEW g \in Run!Threads, Run!TakeNext(g) PROVE RunInv'
<1>1. /\ main = "running" /\ pc[g] = "next"
      /\ UNCHANGED <<main, child, partial, deaths>>
  BY DEF Run!TakeNext, Run!ThreadAt, Run!fileVars
<1>2. /\ index' \in [Run!Threads -> Nat] /\ pc' \in [Run!Threads -> Stages]
      /\ Strided' /\ Working'
  <2>1. CASE Run!Collect(g)
    BY <2>1, CollectStays DEF RunInv
  <2>2. CASE index' = index /\ \/ pc' = [pc EXCEPT ![g] = "ended"]
                               \/ pc' = [pc EXCEPT ![g] = "raised"]
                               \/ index[g] \in Run!Records /\ pc' = [pc EXCEPT ![g] = "launch"]
    <3>1. {"ended", "raised", "launch"} \subseteq Stages
      BY DEF Stages
    <3>. QED
      BY <2>2, <3>1, StageMoves DEF RunInv, RunTyped
  <2>. QED
    BY <2>1, <2>2 DEF Run!TakeNext
<1>3. RunTyped'
  BY <1>1, <1>2 DEF RunInv, RunTyped, Run!Records, Run!Threads
<1>4. ASSUME NEW h \in Run!Threads, pc[h] \in {"waiting", "terminating"}
      PROVE  pc'[h] = pc[h] /\ index'[h] = index[h]
  BY <1>1, <1>4 DEF Run!TakeNext, Run!Collect, RunInv, RunTyped
<1>5. ASSUME NEW i \in Run!Records
      PROVE  Orphans(i)' \subseteq Orphans(i) /\ Evaluating(i)' \subseteq Evaluating(i)
  <2>1. Owned(i) => Owned(i)'
    BY <1>1, <1>4 DEF Owned, Run!Threads
  <2>2. Unfinished(i)' = Unfinished(i) /\ Evaluating(i)' = Evaluating(i) /\ child' = child
    BY <1>1 DEF Unfinished, Evaluating
  <2>. QED
    BY <2>1, <2>2 DEF Orphans
<1>. QED
  BY <1>1, <1>2, <1>3, <1>5, CountsKept DEF RunInv

\* The new process is the one its thread waits for; nobody else did.
LEMMA LaunchKeeps ==
  ASSUME Run!RunAssumption, RunInv, NEW g \in Run!Threads, Run!Launch(g) PROVE RunInv'
<1>1. /\ main = "running" /\ pc[g] = "launch"
      /\ child' = [child EXCEPT ![index[g]] = Append(@, "started")]
      /\ pc' = [pc EXCEPT ![g] = "waiting"]
      /\ UNCHANGED <<main, index, partial, deaths>>
  BY DEF Run!Launch, Run!ThreadAt, Run!fileVars
<1>2. PICK i : i = index[g]
  OBVIOUS
<1>3. i \in Run!Records
  BY <1>1, <1>2 DEF RunInv, Working
<1>4. pc' \in [Run!Threads -> Stages] /\ Strided' /\ Working'
  BY <1>1, <1>2, <1>3, StageMoves DEF RunInv, Stages
<1>5. child[i] \in Seq(ChildStates) /\ "started" \in ChildStates
  BY <1>3 DEF RunInv, RunTyped, ChildStates
<1>6. /\ child'[i] = Append(child[i], "started")
      /\ \A j \in Run!Records : j # i => child'[j] = child[j]
      /\ child' \in [Run!Records -> Seq(ChildStates)]
  BY <1>1, <1>2, <1>3, <1>5 DEF RunInv, RunTyped
<1>7. RunTyped'
  BY <1>1, <1>4, <1>6 DEF RunInv, RunTyped, Run!Records, Run!Threads
<1>8. ~Owned(i)
  <2>1. ASSUME NEW h \in Run!Threads, pc[h] \in {"waiting", "terminating"}, index[h] = i
        PROVE  FALSE
    <3>1. h = g
      BY <1>2, <2>1, OwnEpisodes DEF RunInv
    <3>. QED
      BY <1>1, <2>1, <3>1
  <2>. QED
    BY <2>1 DEF Owned
<1>9. Owned(i)'
  BY <1>1, <1>2 DEF Owned, RunInv, RunTyped, Run!Threads
<1>10. ASSUME NEW j \in Run!Records
       PROVE  Orphans(j)' \subseteq Orphans(j) /\ Evaluating(j)' \subseteq Evaluating(j)
  <2>1. CASE j = i
    <3>1. PICK n : n = Len(child[i]) + 1
      OBVIOUS
    <3>2. /\ DOMAIN child'[i] = DOMAIN child[i] \cup {n} /\ child'[i][n] = "started"
          /\ Len(child'[i]) = n
          /\ \A m \in DOMAIN child[i] : child'[i][m] = child[i][m]
      BY <1>5, <1>6, <3>1
    <3>3. Unfinished(i)' \ {n} \subseteq Unfinished(i)
      BY <3>2 DEF Unfinished
    <3>4. Evaluating(i)' \subseteq Evaluating(i)
      BY <3>2 DEF Evaluating
    <3>. QED
      BY <1>8, <1>9, <2>1, <3>2, <3>3, <3>4 DEF Orphans
  <2>2. CASE j # i
    <3>1. child'[j] = child[j]
      BY <1>6, <2>2
    <3>2. Owned(j) => Owned(j)'
      BY <1>1, <2>2 DEF Owned, RunInv, RunTyped, Run!Threads
    <3>. QED
      BY <3>1, <3>2 DEF Orphans, Unfinished, Evaluating
  <2>. QED
    BY <2>1, <2>2
<1>. QED
  BY <1>1, <1>4, <1>7, <1>10, CountsKept DEF RunInv

\* A process whose end was seen adds no row.
LEMMA ReapKeeps ==
  ASSUME Run!RunAssumption, RunInv, NEW g \in Run!Threads, Run!Reap(g) PROVE RunInv'
<1>1. /\ main = "running" /\ pc[g] = "waiting"
      /\ UNCHANGED <<main, child, partial, deaths>>
      /\ Run!Current(g) \in Run!Exited
  BY DEF Run!Reap, Run!ThreadAt, Run!fileVars, Run!Exited
<1>2. PICK i : i = index[g]
  OBVIOUS
<1>3. i \in Run!Records
  BY <1>1, <1>2 DEF RunInv, Working
<1>4. /\ index' \in [Run!Threads -> Nat] /\ pc' \in [Run!Threads -> Stages]
      /\ Strided' /\ Working'
  <2>1. CASE Run!Collect(g)
    BY <2>1, CollectStays DEF RunInv
  <2>2. CASE /\ index' = index
             /\ pc' = [pc EXCEPT ![g] = "raised"] \/ pc' = [pc EXCEPT ![g] = "launch"]
    <3>1. {"raised", "launch"} \subseteq Stages
      BY DEF Stages
    <3>. QED
      BY <1>2, <1>3, <2>2, <3>1, StageMoves DEF RunInv, RunTyped
  <2>. QED
    BY <2>1, <2>2 DEF Run!Reap, Run!RetryOrRaise
<1>5. RunTyped'
  BY <1>1, <1>4 DEF RunInv, RunTyped, Run!Records, Run!Threads
<1>6. Len(child[i]) \notin Unfinished(i)
  BY <1>1, <1>2 DEF Run!Current, Run!Exited, Unfinished
<1>7. ASSUME NEW h \in Run!Threads, h # g
      PROVE  pc'[h] = pc[h] /\ index'[h] = index[h]
  BY <1>7 DEF Run!Reap, Run!Collect, Run!RetryOrRaise, RunInv, RunTyped
<1>8. ASSUME NEW j \in Run!Records
      PROVE  Orphans(j)' \subseteq Orphans(j) /\ Evaluating(j)' \subseteq Evaluating(j)
  <2>1. Unfinished(j)' = Unfinished(j) /\ Evaluating(j)' = Evaluating(j) /\ child' = child
    BY <1>1 DEF Unfinished, Evaluating
  <2>2. CASE j = i
    BY <1>6, <2>1, <2>2 DEF Orphans
  <2>3. CASE j # i
    <3>1. Owned(j) => Owned(j)'
      BY <1>1, <1>2, <1>7, <2>3 DEF Owned, Run!Threads
    <3>. QED
      BY <2>1, <3>1 DEF Orphans
  <2>. QED
    BY <2>2, <2>3
<1>. QED
  BY <1>1, <1>4, <1>5, <1>8, CountsKept DEF RunInv

\* A thread whose process timed out goes on to terminate it.
LEMMA TimeOutKeeps ==
  ASSUME Run!RunAssumption, RunInv, NEW g \in Run!Threads, Run!TimeOut(g) PROVE RunInv'
<1>1. /\ main = "running" /\ pc[g] = "waiting"
      /\ pc' = [pc EXCEPT ![g] = "terminating"]
      /\ UNCHANGED <<main, index, child, partial, deaths>>
  BY DEF Run!TimeOut, Run!ThreadAt, Run!fileVars
<1>2. index[g] \in Run!Records
  BY <1>1 DEF RunInv, Working
<1>3. pc' \in [Run!Threads -> Stages] /\ Strided' /\ Working'
  BY <1>1, <1>2, StageMoves DEF RunInv, Stages
<1>4. RunTyped'
  BY <1>1, <1>3 DEF RunInv, RunTyped, Run!Records, Run!Threads
<1>5. ASSUME NEW j \in Run!Records
      PROVE  Orphans(j)' \subseteq Orphans(j) /\ Evaluating(j)' \subseteq Evaluating(j)
  <2>1. Unfinished(j)' = Unfinished(j) /\ Evaluating(j)' = Evaluating(j) /\ child' = child
    BY <1>1 DEF Unfinished, Evaluating
  <2>2. Owned(j) => Owned(j)'
    BY <1>1 DEF Owned, RunInv, RunTyped, Run!Threads
  <2>. QED
    BY <2>1, <2>2 DEF Orphans
<1>. QED
  BY <1>1, <1>3, <1>4, <1>5, CountsKept DEF RunInv

\* Replacing an entry of a sequence keeps the others.
LEMMA EntryReplaced ==
  ASSUME NEW S, NEW s \in Seq(S), NEW n, NEW x \in S, NEW c, c = [s EXCEPT ![n] = x]
  PROVE  /\ c \in Seq(S) /\ Len(c) = Len(s) /\ DOMAIN c = DOMAIN s
         /\ \A m \in DOMAIN c : c[m] = IF m = n THEN x ELSE s[m]
<1>1. DOMAIN c = DOMAIN s /\ \A m \in DOMAIN s : c[m] = IF m = n THEN x ELSE s[m]
  OBVIOUS
<1>2. DOMAIN s = 1..Len(s) /\ Len(s) \in Nat /\ \A m \in DOMAIN s : s[m] \in S
  OBVIOUS
<1>3. c \in [1..Len(s) -> S]
  BY <1>1, <1>2
<1>. QED
  BY <1>1, <1>2, <1>3

\* Terminated, the process has exited before the thread goes on.
LEMMA TerminateKeeps ==
  ASSUME Run!RunAssumption, RunInv, NEW g \in Run!Threads, Run!Terminate(g) PROVE RunInv'
<1>1. /\ main = "running" /\ pc[g] = "terminating"
      /\ UNCHANGED <<main, index, partial, deaths>>
      /\ pc' = [pc EXCEPT ![g] = "raised"] \/ pc' = [pc EXCEPT ![g] = "launch"]
  BY DEF Run!Terminate, Run!ThreadAt, Run!RetryOrRaise, Run!fileVars
<1>2. PICK i : i = index[g]
  OBVIOUS
<1>3. i \in Run!Records
  BY <1>1, <1>2 DEF RunInv, Working
<1>4. pc' \in [Run!Threads -> Stages] /\ Strided' /\ Working'
  <2>1. {"raised", "launch"} \subseteq Stages
    BY DEF Stages
  <2>. QED
    BY <1>1, <1>2, <1>3, <2>1, StageMoves DEF RunInv
<1>5. PICK n : n = Len(child[i])
  OBVIOUS
<1>6. PICK last : last = IF child[i][n] \in Run!Exited THEN child[i][n] ELSE "killed"
  OBVIOUS
<1>7. last \in Run!Exited
  BY <1>6 DEF Run!Exited
<1>8. child[i] \in Seq(ChildStates)
  BY <1>3 DEF RunInv, RunTyped
<1>9. PICK c : c = [child[i] EXCEPT ![n] = last]
  OBVIOUS
<1>10. child' = [child EXCEPT ![i] = c]
  BY <1>2, <1>5, <1>6, <1>9 DEF Run!Terminate
<1>11. /\ c \in Seq(ChildStates) /\ Len(c) = n /\ DOMAIN c = DOMAIN child[i]
       /\ \A m \in DOMAIN c : c[m] = IF m = n THEN last ELSE child[i][m]
  <2>1. last \in ChildStates
    BY <1>7 DEF ChildStates
  <2>2. PICK s : s = child[i]
    OBVIOUS
  <2>3. s \in Seq(ChildStates) /\ c = [s EXCEPT ![n] = last]
    BY <1>8, <1>9, <2>2
  <2>4. /\ c \in Seq(ChildStates) /\ Len(c) = Len(s) /\ DOMAIN c = DOMAIN s
        /\ \A m \in DOMAIN c : c[m] = IF m = n THEN last ELSE s[m]
    <3>1. DOMAIN c = DOMAIN s /\ \A m \in DOMAIN s : c[m] = IF m = n THEN last ELSE s[m]
      BY <2>3
    <3>2. DOMAIN s = 1..Len(s) /\ Len(s) \in Nat /\ \A m \in DOMAIN s : s[m] \in ChildStates
      BY <2>3
    <3>3. c \in [DOMAIN s -> ChildStates]
      BY <2>1, <2>3, <3>2
    <3>4. c \in [1..Len(s) -> ChildStates]
      BY <3>2, <3>3
    <3>. QED
      BY <3>1, <3>2, <3>4
  <2>. QED
    BY <1>5, <2>2, <2>4
<1>12. /\ child' \in [Run!Records -> Seq(ChildStates)] /\ child'[i] = c
       /\ \A j \in Run!Records : j # i => child'[j] = child[j]
  BY <1>3, <1>10, <1>11 DEF RunInv, RunTyped
<1>13. RunTyped'
  BY <1>1, <1>4, <1>12 DEF RunInv, RunTyped, Run!Records, Run!Threads
<1>14. ASSUME NEW h \in Run!Threads, h # g
       PROVE  pc'[h] = pc[h] /\ index'[h] = index[h]
  BY <1>1, <1>14 DEF RunInv, RunTyped
<1>15. ASSUME NEW j \in Run!Records
       PROVE  Orphans(j)' \subseteq Orphans(j) /\ Evaluating(j)' \subseteq Evaluating(j)
  <2>1. CASE j = i
    <3>1. /\ Unfinished(i)' \subseteq Unfinished(i) \ {n}
          /\ Evaluating(i)' \subseteq Evaluating(i)
      BY <1>7, <1>11, <1>12 DEF Unfinished, Evaluating, Run!Exited
    <3>2. Orphans(i)' \subseteq Unfinished(i)' /\ Unfinished(i) \ {n} \subseteq Orphans(i)
      BY <1>5 DEF Orphans
    <3>. QED
      BY <2>1, <3>1, <3>2
  <2>2. CASE j # i
    <3>1. child'[j] = child[j]
      BY <1>12, <2>2
    <3>2. Owned(j) => Owned(j)'
      BY <1>1, <1>2, <1>14, <2>2 DEF Owned, Run!Threads
    <3>. QED
      BY <3>1, <3>2 DEF Orphans, Unfinished, Evaluating
  <2>. QED
    BY <2>1, <2>2
<1>. QED
  BY <1>1, <1>4, <1>13, <1>15, CountsKept DEF RunInv

\* What one process's own step changes.
LEMMA ChildMoved ==
  ASSUME RunTyped, NEW i \in Run!Records, NEW n, NEW from, NEW to \in ChildStates,
         Run!ChildMoves(i, n, from, to)
  PROVE  /\ child' \in [Run!Records -> Seq(ChildStates)]
         /\ n \in DOMAIN child[i] /\ child[i][n] = from
         /\ \A j \in Run!Records : Len(child'[j]) = Len(child[j]) /\ DOMAIN child'[j] = DOMAIN child[j]
         /\ \A j \in Run!Records : \A m \in DOMAIN child[j] :
              child'[j][m] = IF j = i /\ m = n THEN to ELSE child[j][m]
<1>1. n \in DOMAIN child[i] /\ child[i][n] = from /\ child' = [child EXCEPT ![i][n] = to]
  BY DEF Run!ChildMoves
<1>2. PICK c : c = [child[i] EXCEPT ![n] = to]
  OBVIOUS
<1>3. child' = [child EXCEPT ![i] = c]
  BY <1>1, <1>2
<1>4. child[i] \in Seq(ChildStates)
  BY DEF RunTyped
<1>5. /\ c \in Seq(ChildStates) /\ Len(c) = Len(child[i]) /\ DOMAIN c = DOMAIN child[i]
      /\ \A m \in DOMAIN c : c[m] = IF m = n THEN to ELSE child[i][m]
  BY <1>1, <1>2, <1>4, EntryReplaced
<1>6. /\ child' \in [Run!Records -> Seq(ChildStates)] /\ child'[i] = c
      /\ \A j \in Run!Records : j # i => child'[j] = child[j]
  BY <1>3, <1>5 DEF RunTyped
<1>. QED
  BY <1>1, <1>5, <1>6

\* A process that starts to evaluate found no row, so that all rows to come are
\* those of the processes that had not finished.
LEMMA StartCounts ==
  ASSUME RunInv, RunTyped', NEW i \in Run!Records, partial[i] = 0, partial' = partial,
         deaths' = deaths, Evaluating(i)' \subseteq Unfinished(i)
  PROVE  partial'[i] + Cardinality(Evaluating(i)') <= 1 + deaths'
<1>1. /\ IsFiniteSet(Unfinished(i)) /\ Cardinality(Unfinished(i)) \in Nat
      /\ Cardinality(Orphans(i)) \in Nat
      /\ Cardinality(Unfinished(i)) <= Cardinality(Orphans(i)) + 1
  BY FinitelyMany DEF RunInv
<1>2. Cardinality(Evaluating(i)') <= Cardinality(Unfinished(i)) /\ IsFiniteSet(Evaluating(i)')
  BY <1>1, FS_Subset
<1>3. Cardinality(Evaluating(i)') \in Nat
  BY <1>2, FS_CardinalityType
<1>4. Cardinality(Orphans(i)) <= deaths /\ deaths \in Nat
  BY DEF RunInv, OrphansCounted, RunTyped
<1>. QED
  BY <1>1, <1>2, <1>3, <1>4

\* A process that appends its row has one less to come.
LEMMA AppendCounts ==
  ASSUME RunInv, NEW i \in Run!Records, NEW n \in Evaluating(i),
         partial'[i] = partial[i] + 1, deaths' = deaths, Evaluating(i)' = Evaluating(i) \ {n}
  PROVE  partial'[i] + Cardinality(Evaluating(i)') <= 1 + deaths'
<1>1. IsFiniteSet(Evaluating(i)) /\ Cardinality(Evaluating(i)) \in Nat
  BY FinitelyMany DEF RunInv
<1>2. Cardinality(Evaluating(i)') = Cardinality(Evaluating(i)) - 1
  BY <1>1, FS_RemoveElement
<1>3. /\ partial[i] + Cardinality(Evaluating(i)) <= 1 + deaths /\ partial[i] \in Nat
      /\ deaths \in Nat
  BY DEF RunInv, RowsCounted, RunTyped
<1>. QED
  BY <1>1, <1>2, <1>3

\* What every step of a process leaves alone: the threads, and the orphans as
\* long as no process that had finished evaluating evaluates again.
LEMMA ChildrenOnly ==
  ASSUME RunInv, UNCHANGED <<main, Run!threadVars, deaths>>,
         child' \in [Run!Records -> Seq(ChildStates)], partial' \in [Run!Records -> Nat],
         \A i \in Run!Records : Len(child'[i]) = Len(child[i]) /\ DOMAIN child'[i] = DOMAIN child[i],
         \A i \in Run!Records : Unfinished(i)' \subseteq Unfinished(i)
  PROVE  /\ RunTyped' /\ Strided' /\ Working'
         /\ \A i \in Run!Records : Orphans(i)' \subseteq Orphans(i)
         /\ OrphansCounted'
<1>1. UNCHANGED <<main, pc, index, deaths>>
  BY DEF Run!threadVars
<1>2. RunTyped'
  BY <1>1 DEF RunInv, RunTyped, Run!Records, Run!Threads
<1>3. Strided' /\ Working'
  BY <1>1 DEF RunInv, Strided, Working, Run!Records, Run!Threads
<1>4. ASSUME NEW i \in Run!Records
      PROVE  Orphans(i)' \subseteq Orphans(i)
  <2>1. Owned(i)' <=> Owned(i)
    BY <1>1 DEF Owned, Run!Threads
  <2>. QED
    BY <2>1 DEF Orphans
<1>5. ASSUME NEW i \in Run!Records
      PROVE  Cardinality(Orphans(i)') <= deaths
  <2>1. IsFiniteSet(Orphans(i)) /\ Cardinality(Orphans(i)) \in Nat
    BY FinitelyMany DEF RunInv
  <2>2. Cardinality(Orphans(i)') <= Cardinality(Orphans(i)) /\ IsFiniteSet(Orphans(i)')
    BY <1>4, <2>1, FS_Subset
  <2>3. Cardinality(Orphans(i)') \in Nat
    BY <2>2, FS_CardinalityType
  <2>4. Cardinality(Orphans(i)) <= deaths /\ deaths \in Nat
    BY DEF RunInv, OrphansCounted, RunTyped
  <2>. QED
    BY <2>1, <2>2, <2>3, <2>4
<1>6. OrphansCounted'
  BY <1>1, <1>5 DEF OrphansCounted, Run!Records
<1>. QED
  BY <1>2, <1>3, <1>4, <1>6

\* A step that adds neither a row nor an evaluation.
LEMMA QuietChild ==
  ASSUME RunInv, UNCHANGED <<main, Run!threadVars, deaths, partial>>,
         child' \in [Run!Records -> Seq(ChildStates)],
         \A i \in Run!Records : Len(child'[i]) = Len(child[i]) /\ DOMAIN child'[i] = DOMAIN child[i],
         \A i \in Run!Records :
           Unfinished(i)' \subseteq Unfinished(i) /\ Evaluating(i)' \subseteq Evaluating(i)
  PROVE  RunInv'
<1>1. partial' \in [Run!Records -> Nat]
  BY DEF RunInv, RunTyped
<1>2. /\ RunTyped' /\ Strided' /\ Working'
      /\ \A i \in Run!Records : Orphans(i)' \subseteq Orphans(i)
  BY <1>1, ChildrenOnly
<1>3. OrphansCounted' /\ RowsCounted'
  BY <1>2, CountsKept
<1>. QED
  BY <1>2, <1>3 DEF RunInv

\* One process moves to a state in which it neither starts nor evaluates.
LEMMA QuietMove ==
  ASSUME RunInv, UNCHANGED <<main, Run!threadVars, deaths, partial>>,
         NEW i \in Run!Records, NEW n, NEW from, NEW to \in ChildStates,
         to \notin {"started", "evaluating"}, Run!ChildMoves(i, n, from, to)
  PROVE  RunInv'
<1>1. /\ child' \in [Run!Records -> Seq(ChildStates)]
      /\ \A j \in Run!Records : Len(child'[j]) = Len(child[j]) /\ DOMAIN child'[j] = DOMAIN child[j]
      /\ \A j \in Run!Records : \A m \in DOMAIN child[j] :
           child'[j][m] = IF j = i /\ m = n THEN to ELSE child[j][m]
  BY ChildMoved DEF RunInv
<1>2. ASSUME NEW j \in Run!Records
      PROVE  Unfinished(j)' \subseteq Unfinished(j) /\ Evaluating(j)' \subseteq Evaluating(j)
  BY <1>1 DEF Unfinished, Evaluating
<1>. QED
  BY <1>1, <1>2, QuietChild

\* A process looks at its checkpoint file, and raises where it finds one.
LEMMA StartEpisodeKeeps ==
  ASSUME RunInv, UNCHANGED <<main, Run!threadVars, deaths>>,
         NEW i \in Run!Records, NEW n, Run!StartEpisode(i, n)
  PROVE  RunInv'
<1>1. partial' = partial
  BY DEF Run!StartEpisode, Run!fileVars
<1>2. CASE Run!ChildMoves(i, n, "started", "error")
  BY <1>1, <1>2, QuietMove DEF ChildStates, Run!Exited
<1>3. CASE partial[i] = 0 /\ Run!ChildMoves(i, n, "started", "evaluating")
  <2>1. /\ child' \in [Run!Records -> Seq(ChildStates)]
        /\ n \in DOMAIN child[i] /\ child[i][n] = "started"
        /\ \A j \in Run!Records : Len(child'[j]) = Len(child[j]) /\ DOMAIN child'[j] = DOMAIN child[j]
        /\ \A j \in Run!Records : \A m \in DOMAIN child[j] :
             child'[j][m] = IF j = i /\ m = n THEN "evaluating" ELSE child[j][m]
    <3>1. RunTyped /\ "evaluating" \in ChildStates
      BY DEF RunInv, ChildStates
    <3>. QED
      BY <1>3, <3>1, ChildMoved
  <2>2. ASSUME NEW j \in Run!Records
        PROVE  Unfinished(j)' \subseteq Unfinished(j)
    BY <2>1 DEF Unfinished
  <2>3. partial' \in [Run!Records -> Nat]
    BY <1>1 DEF RunInv, RunTyped
  <2>4. RunTyped' /\ Strided' /\ Working' /\ OrphansCounted'
    BY <2>1, <2>2, <2>3, ChildrenOnly
  <2>5. ASSUME NEW j \in Run!Records
        PROVE  partial'[j] + Cardinality(Evaluating(j)') <= 1 + deaths'
    <3>1. CASE j = i
      <4>1. Evaluating(i)' \subseteq Unfinished(i)
        BY <2>1 DEF Evaluating, Unfinished
      <4>. QED
        BY <1>1, <1>3, <2>4, <3>1, <4>1, StartCounts
    <3>2. CASE j # i
      <4>1. Evaluating(j)' = Evaluating(j)
        BY <2>1, <3>2 DEF Evaluating
      <4>. QED
        BY <1>1, <4>1 DEF RunInv, RowsCounted
    <3>. QED
      BY <3>1, <3>2
  <2>6. RowsCounted'
    BY <2>5 DEF RowsCounted, Run!Records
  <2>. QED
    BY <2>4, <2>6 DEF RunInv
<1>. QED
  BY <1>2, <1>3 DEF Run!StartEpisode

\* A process adds its one row to the checkpoint file.
LEMMA AppendRowKeeps ==
  ASSUME RunInv, UNCHANGED <<main, Run!threadVars, deaths>>,
         NEW i \in Run!Records, NEW n, Run!AppendRow(i, n)
  PROVE  RunInv'
<1>1. /\ Run!ChildMoves(i, n, "evaluating", "appended")
      /\ partial' = [partial EXCEPT ![i] = @ + 1]
  BY DEF Run!AppendRow
<1>2. /\ child' \in [Run!Records -> Seq(ChildStates)]
      /\ n \in DOMAIN child[i] /\ child[i][n] = "evaluating"
      /\ \A j \in Run!Records : Len(child'[j]) = Len(child[j]) /\ DOMAIN child'[j] = DOMAIN child[j]
      /\ \A j \in Run!Records : \A m \in DOMAIN child[j] :
           child'[j][m] = IF j = i /\ m = n THEN "appended" ELSE child[j][m]
  <2>1. RunTyped /\ "appended" \in ChildStates
    BY DEF RunInv, ChildStates
  <2>. QED
    BY <1>1, <2>1, ChildMoved
<1>3. ASSUME NEW j \in Run!Records
      PROVE  Unfinished(j)' \subseteq Unfinished(j)
  BY <1>2 DEF Unfinished
<1>4. /\ partial' \in [Run!Records -> Nat] /\ partial'[i] = partial[i] + 1
      /\ \A j \in Run!Records : j # i => partial'[j] = partial[j]
  BY <1>1 DEF RunInv, RunTyped
<1>5. RunTyped' /\ Strided' /\ Working' /\ OrphansCounted'
  BY <1>2, <1>3, <1>4, ChildrenOnly
<1>6. ASSUME NEW j \in Run!Records
      PROVE  partial'[j] + Cardinality(Evaluating(j)') <= 1 + deaths'
  <2>1. CASE j = i
    <3>1. n \in Evaluating(i) /\ Evaluating(i)' = Evaluating(i) \ {n}
      BY <1>2 DEF Evaluating
    <3>. QED
      BY <1>4, <2>1, <3>1, AppendCounts
  <2>2. CASE j # i
    <3>1. Evaluating(j)' = Evaluating(j)
      BY <1>2, <2>2 DEF Evaluating
    <3>. QED
      BY <1>4, <2>2, <3>1 DEF RunInv, RowsCounted
  <2>. QED
    BY <2>1, <2>2
<1>7. RowsCounted'
  BY <1>6 DEF RowsCounted, Run!Records
<1>. QED
  BY <1>5, <1>7 DEF RunInv

\* The file that one process puts in place may be what another one writes to.
LEMMA ReplaceKeeps ==
  ASSUME RunInv, UNCHANGED <<main, Run!threadVars, deaths>>,
         NEW i \in Run!Records, NEW n, Run!ReplaceResult(i, n)
  PROVE  RunInv'
<1>1. CASE Run!ChildMoves(i, n, "written", "error") /\ UNCHANGED Run!fileVars
  BY <1>1, QuietMove DEF ChildStates, Run!Exited, Run!fileVars
<1>2. CASE /\ child' = [child EXCEPT ![i] = [m \in DOMAIN @ |->
                       IF m = n THEN "replaced"
                       ELSE IF @[m] = "writing" THEN "writing result" ELSE @[m]]]
           /\ UNCHANGED partial
  <2>1. PICK c : c = [m \in DOMAIN child[i] |->
                       IF m = n THEN "replaced"
                       ELSE IF child[i][m] = "writing" THEN "writing result" ELSE child[i][m]]
    OBVIOUS
  <2>2. child' = [child EXCEPT ![i] = c]
    BY <1>2, <2>1
  <2>3. child[i] \in Seq(ChildStates)
    BY DEF RunInv, RunTyped
  <2>4. DOMAIN child[i] = 1..Len(child[i]) /\ Len(child[i]) \in Nat
    BY <2>3
  <2>5. /\ DOMAIN c = DOMAIN child[i]
        /\ \A m \in DOMAIN c :
             /\ c[m] \in ChildStates
             /\ c[m] \in {"started", "evaluating"} => child[i][m] = c[m]
    <3>1. "replaced" \in ChildStates /\ "writing result" \in ChildStates
      BY DEF ChildStates
    <3>2. \A m \in DOMAIN child[i] : child[i][m] \in ChildStates
      BY <2>3
    <3>. QED
      BY <2>1, <3>1, <3>2
  <2>6. c \in [1..Len(child[i]) -> ChildStates]
    BY <2>1, <2>4, <2>5
  <2>7. c \in Seq(ChildStates) /\ Len(c) = Len(child[i])
    BY <2>4, <2>6
  <2>8. /\ child' \in [Run!Records -> Seq(ChildStates)] /\ child'[i] = c
        /\ \A j \in Run!Records : j # i => child'[j] = child[j]
    BY <2>2, <2>7 DEF RunInv, RunTyped
  <2>9. ASSUME NEW j \in Run!Records
        PROVE  /\ Unfinished(j)' \subseteq Unfinished(j) /\ Evaluating(j)' \subseteq Evaluating(j)
               /\ Len(child'[j]) = Len(child[j]) /\ DOMAIN child'[j] = DOMAIN child[j]
    <3>1. CASE j = i
      BY <2>5, <2>7, <2>8, <3>1 DEF Unfinished, Evaluating
    <3>2. CASE j # i
      BY <2>8, <3>2 DEF Unfinished, Evaluating
    <3>. QED
      BY <3>1, <3>2
  <2>. QED
    BY <1>2, <2>8, <2>9, QuietChild
<1>. QED
  BY <1>1, <1>2 DEF Run!ReplaceResult

\* Whatever a process does.
LEMMA ChildStepKeeps == ASSUME RunInv, Run!ChildStep PROVE RunInv'
<1>1. PICK i \in Run!Records : \E n \in DOMAIN child[i] :
        \/ Run!StartEpisode(i, n) \/ Run!AppendRow(i, n) \/ Run!OpenTmp(i, n)
        \/ Run!FillTmp(i, n) \/ Run!ReplaceResult(i, n) \/ Run!ExitChild(i, n)
        \/ Run!CrashChild(i, n)
  BY DEF Run!ChildStep
<1>2. PICK n \in DOMAIN child[i] :
        \/ Run!StartEpisode(i, n) \/ Run!AppendRow(i, n) \/ Run!OpenTmp(i, n)
        \/ Run!FillTmp(i, n) \/ Run!ReplaceResult(i, n) \/ Run!ExitChild(i, n)
        \/ Run!CrashChild(i, n)
  BY <1>1
<1>3. UNCHANGED <<main, Run!threadVars, deaths>>
  BY DEF Run!ChildStep
<1>4. CASE Run!StartEpisode(i, n)
  BY <1>3, <1>4, StartEpisodeKeeps
<1>5. CASE Run!AppendRow(i, n)
  BY <1>3, <1>5, AppendRowKeeps
<1>6. CASE Run!OpenTmp(i, n)
  BY <1>3, <1>6, QuietMove DEF Run!OpenTmp, ChildStates
<1>7. CASE Run!FillTmp(i, n)
  BY <1>3, <1>7, QuietMove DEF Run!FillTmp, ChildStates
<1>8. CASE Run!ReplaceResult(i, n)
  BY <1>3, <1>8, ReplaceKeeps
<1>9. CASE Run!ExitChild(i, n)
  BY <1>3, <1>9, QuietMove DEF Run!ExitChild, ChildStates, Run!Exited, Run!fileVars
<1>10. CASE Run!CrashChild(i, n)
  <2>1. PICK from : from = child[i][n]
    OBVIOUS
  <2>2. Run!ChildMoves(i, n, from, "error") /\ partial' = partial
    BY <1>10, <2>1 DEF Run!CrashChild, Run!fileVars
  <2>3. "error" \in ChildStates
    BY DEF ChildStates, Run!Exited
  <2>. QED
    BY <1>3, <2>2, <2>3, QuietMove
<1>. QED
  BY <1>2, <1>4, <1>5, <1>6, <1>7, <1>8, <1>9, <1>10

\* No thread waits when the results are gathered.
LEMMA GatherKeeps == ASSUME RunInv, Run!Gather PROVE RunInv'
<1>1. /\ UNCHANGED <<pc, index, child, partial, deaths>> /\ main' # "running"
      /\ \A g \in Run!Threads : pc[g] \in {"ended", "raised"}
  BY DEF Run!Gather, Run!threadVars, Run!fileVars
<1>2. RunTyped' /\ Strided' /\ Working'
  BY <1>1 DEF RunInv, RunTyped, Strided, Working, Run!Records, Run!Threads
<1>3. ASSUME NEW i \in Run!Records
      PROVE  Orphans(i)' \subseteq Orphans(i) /\ Evaluating(i)' \subseteq Evaluating(i)
  <2>1. ~Owned(i)
    BY <1>1 DEF Owned
  <2>. QED
    BY <1>1, <2>1 DEF Orphans, Unfinished, Evaluating
<1>. QED
  BY <1>1, <1>2, <1>3, CountsKept DEF RunInv

\* What a parent that is not running leaves.
LEMMA PublishKeeps == ASSUME RunInv, Run!Publish PROVE RunInv'
<1>1. /\ UNCHANGED <<pc, index, child, partial, deaths>> /\ main' # "running" /\ main # "running"
  BY DEF Run!Publish, Run!threadVars, Run!fileVars
<1>2. RunTyped' /\ Strided' /\ Working'
  BY <1>1 DEF RunInv, RunTyped, Strided, Working, Run!Records, Run!Threads
<1>3. ASSUME NEW i \in Run!Records
      PROVE  Orphans(i)' \subseteq Orphans(i) /\ Evaluating(i)' \subseteq Evaluating(i)
  <2>1. ~Owned(i)
    BY <1>1 DEF Owned
  <2>. QED
    BY <1>1, <2>1 DEF Orphans, Unfinished, Evaluating
<1>. QED
  BY <1>1, <1>2, <1>3, CountsKept DEF RunInv

\* A death leaves one orphan more at most.
LEMMA DeathCounts ==
  ASSUME RunInv, RunTyped', UNCHANGED <<child, partial>>, deaths' = deaths + 1
  PROVE  OrphansCounted' /\ RowsCounted'
<1>. SUFFICES ASSUME NEW i \in Run!Records
              PROVE  /\ Cardinality(Orphans(i)') <= deaths + 1
                     /\ partial[i] + Cardinality(Evaluating(i)') <= 1 + (deaths + 1)
  BY DEF OrphansCounted, RowsCounted, Run!Records
<1>1. /\ IsFiniteSet(Unfinished(i)) /\ Cardinality(Unfinished(i)) \in Nat
      /\ Cardinality(Orphans(i)) \in Nat /\ Cardinality(Evaluating(i)) \in Nat
      /\ Cardinality(Unfinished(i)) <= Cardinality(Orphans(i)) + 1
  BY FinitelyMany DEF RunInv
<1>2. Unfinished(i)' = Unfinished(i) /\ Evaluating(i)' = Evaluating(i)
  BY DEF Unfinished, Evaluating
<1>3. Orphans(i)' \subseteq Unfinished(i)
  BY <1>2 DEF Orphans
<1>4. Cardinality(Orphans(i)') <= Cardinality(Unfinished(i)) /\ IsFiniteSet(Orphans(i)')
  BY <1>1, <1>3, FS_Subset
<1>5. Cardinality(Orphans(i)') \in Nat
  BY <1>4, FS_CardinalityType
<1>6. /\ Cardinality(Orphans(i)) <= deaths /\ partial[i] + Cardinality(Evaluating(i)) <= 1 + deaths
      /\ deaths \in Nat /\ partial[i] \in Nat
  BY DEF RunInv, OrphansCounted, RowsCounted, RunTyped
<1>. QED
  BY <1>1, <1>2, <1>4, <1>5, <1>6

\* A parent that dies leaves its processes running.
LEMMA ParentDiesKeeps == ASSUME RunInv, Run!ParentDies PROVE RunInv'
<1>1. UNCHANGED <<pc, index, child, partial>> /\ deaths' = deaths + 1
  BY DEF Run!ParentDies, Run!threadVars, Run!fileVars
<1>2. RunTyped' /\ Strided' /\ Working'
  BY <1>1 DEF RunInv, RunTyped, Strided, Working, Run!Records, Run!Threads
<1>. QED
  BY <1>1, <1>2, DeathCounts DEF RunInv

\* A parent started again waits for nobody yet.
LEMMA ResumeKeeps == ASSUME Run!RunAssumption, RunInv, Run!Resume PROVE RunInv'
<1>1. /\ main # "running" /\ UNCHANGED <<child, partial>>
      /\ pc' = [g \in Run!Threads |-> "next"] /\ index' = [g \in Run!Threads |-> g]
      /\ deaths' = deaths \/ deaths' = deaths + 1
  BY DEF Run!Resume, Run!fileVars
<1>2. ASSUME NEW g \in Run!Threads
      PROVE  g \in Nat /\ g = g + 0 * Gpus
  BY DEF Run!Threads, Run!RunAssumption
<1>3. deaths' \in Nat
  BY <1>1 DEF RunInv, RunTyped
<1>4. RunTyped'
  BY <1>1, <1>2, <1>3 DEF RunInv, RunTyped, Stages, Run!Records, Run!Threads
<1>5. Strided'
  BY <1>1, <1>2 DEF Strided, Run!Threads
<1>6. Working'
  BY <1>1 DEF Working, Run!Threads
<1>7. CASE deaths' = deaths + 1
  BY <1>1, <1>4, <1>5, <1>6, <1>7, DeathCounts DEF RunInv
<1>8. CASE deaths' = deaths
  <2>1. ASSUME NEW i \in Run!Records
        PROVE  Orphans(i)' \subseteq Orphans(i) /\ Evaluating(i)' \subseteq Evaluating(i)
    <3>1. ~Owned(i)
      BY <1>1 DEF Owned
    <3>. QED
      BY <1>1, <3>1 DEF Orphans, Unfinished, Evaluating
  <2>. QED
    BY <1>1, <1>4, <1>5, <1>6, <1>8, <2>1, CountsKept DEF RunInv
<1>. QED
  BY <1>1, <1>7, <1>8

\* A run starts without processes and without files.
LEMMA RunStarts == ASSUME Run!RunAssumption PROVE Run!Init => RunInv
<1>. SUFFICES ASSUME Run!Init PROVE RunInv
  OBVIOUS
<1>1. ASSUME NEW g \in Run!Threads
      PROVE  g \in Nat /\ g = g + 0 * Gpus
  BY DEF Run!Threads, Run!RunAssumption
<1>2. RunTyped
  <2>1. <<>> \in Seq(ChildStates)
    OBVIOUS
  <2>. QED
    BY <1>1, <2>1 DEF Run!Init, RunTyped, Stages
<1>3. Strided
  BY <1>1 DEF Run!Init, Strided
<1>4. Working
  BY DEF Run!Init, Working
<1>5. ASSUME NEW i \in Run!Records
      PROVE  /\ Cardinality(Orphans(i)) = 0 /\ Cardinality(Evaluating(i)) = 0
             /\ partial[i] = 0 /\ deaths = 0
  <2>1. child[i] = <<>> /\ partial[i] = 0 /\ deaths = 0
    BY DEF Run!Init
  <2>2. Orphans(i) = {} /\ Evaluating(i) = {}
    BY <2>1 DEF Orphans, Unfinished, Evaluating
  <2>. QED
    BY <2>1, <2>2, FS_EmptySet
<1>6. OrphansCounted /\ RowsCounted
  BY <1>5 DEF OrphansCounted, RowsCounted
<1>. QED
  BY <1>2, <1>3, <1>4, <1>6 DEF RunInv

\* Over retries, timeouts, deaths and resumptions the orphans and the rows to
\* come are counted by the deaths of the parent.
THEOREM RunsKept == Run!Spec => []RunInv
<1>1. Run!Init => RunInv
  BY RunStarts, RunSound
<1>2. RunInv /\ [Run!Next]_(Run!runVars) => RunInv'
  <2>. SUFFICES ASSUME RunInv, [Run!Next]_(Run!runVars)
                PROVE  RunInv'
    OBVIOUS
  <2>1. CASE UNCHANGED Run!runVars
    BY <2>1 DEF Run!runVars, RunInv, RunTyped, Strided, Working, OrphansCounted, RowsCounted,
                Orphans, Owned, Unfinished, Evaluating
  <2>2. CASE Run!Next
    <3>1. CASE Run!ThreadStep
      BY <3>1, TakeNextKeeps, LaunchKeeps, ReapKeeps, TimeOutKeeps, TerminateKeeps,
         RunSound DEF Run!ThreadStep
    <3>. QED
      BY <2>2, <3>1, GatherKeeps, PublishKeeps, ChildStepKeeps, ParentDiesKeeps, ResumeKeeps,
         RunSound DEF Run!Next, Run!ParentStep
  <2>. QED
    BY <2>1, <2>2
<1>. QED
  BY <1>1, <1>2, PTL DEF Run!Spec

\* Each life of the parent evaluates an episode at most once: only a process
\* that outlived its parent can add a row beside the one of the next life.
THEOREM EpisodesEvaluatedOnce == Run!Spec => []EvaluatedOnce
<1>1. ASSUME RunInv
      PROVE  EvaluatedOnce
  <2>. SUFFICES ASSUME NEW i \in Run!Records
                PROVE  partial[i] <= 1 + deaths
    BY DEF EvaluatedOnce, Run!EvaluatedOnce
  <2>1. Cardinality(Evaluating(i)) \in Nat
    BY <1>1, FinitelyMany DEF RunInv
  <2>2. /\ partial[i] + Cardinality(Evaluating(i)) <= 1 + deaths
        /\ partial[i] \in Nat /\ deaths \in Nat
    BY <1>1 DEF RunInv, RowsCounted, RunTyped
  <2>. QED
    BY <2>1, <2>2
<1>. QED
  BY <1>1, RunsKept, PTL
=============================================================================
