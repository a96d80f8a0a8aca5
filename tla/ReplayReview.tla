----------------------------- MODULE ReplayReview -----------------------------
(***************************************************************************)
(* Human review of mined failures: the service's ReplayReviewStore           *)
(* (service/replay.py) and the command line tool that appends to the same    *)
(* file (scripts/review_p4_replay.py), with the miner that makes a new       *)
(* review directory (scripts/mine_p4_replay_candidates.py).  The review      *)
(* file is append-only; the service holds a lock and syncs, the tool does    *)
(* neither, and either process may die while it writes.                      *)
(***************************************************************************)
EXTENDS Naturals, Sequences, FiniteSets

CONSTANTS
  Candidates,    \* failed trajectories; the id of one is made of its session and its hash
  Decisions, None,
  MaxDecisions, MaxCrashes      \* bounds

VARIABLES
  failed,        \* sessions that are persisted as failed
  mined,         \* candidates.jsonl of the directory
  reviews,       \* lines of reviews.jsonl
  closed,        \* the last line ends with a newline
  tool,          \* the tool between reading candidates.jsonl and appending
  acked,         \* history: the last decision reported as recorded in this directory
  durable,       \* history: decisions written whole there by a process that died
  decided, crashes

reviewVars == <<failed, mined, reviews, closed, tool, acked, durable, decided, crashes>>

\* A line is a decision about a candidate, or text that is no JSON.
Line(c, d) == [candidate |-> c, decision |-> d]
Garbage == [candidate |-> None, decision |-> None]
Idle == Garbage

Init ==
  /\ failed \in SUBSET Candidates /\ mined = failed
  /\ reviews = <<>> /\ closed = TRUE
  /\ tool = Idle
  /\ acked = [c \in Candidates |-> None] /\ durable = [c \in Candidates |-> {}]
  /\ decided = 0 /\ crashes = 0

\* handle.write in append mode: a line that follows one without a newline is
\* read as part of it.
Appended(line) ==
  IF closed THEN Append(reviews, line)
  ELSE Append(SubSeq(reviews, 1, Len(reviews) - 1), Garbage)

\* _load_jsonl and _state: a line that does not parse, or that names a candidate
\* or a hash that is not in candidates.jsonl, makes the whole store unreadable.
Accepts(line) == line # Garbage /\ line.candidate \in mined
Readable == \A i \in DOMAIN reviews : Accepts(reviews[i])

\* The decision that list_candidates shows: the last line wins.
LastOf(c) == {i \in DOMAIN reviews :
  reviews[i].candidate = c /\ \A k \in (i + 1)..Len(reviews) : reviews[k].candidate # c}
FirstOf(c) == {i \in DOMAIN reviews :
  reviews[i].candidate = c /\ \A k \in 1..(i - 1) : reviews[k].candidate # c}
ShownFirst(c) == IF FirstOf(c) = {} THEN None ELSE reviews[CHOOSE i \in FirstOf(c) : TRUE].decision
Shown(c) == IF LastOf(c) = {} THEN None ELSE reviews[CHOOSE i \in LastOf(c) : TRUE].decision

Counted == decided < MaxDecisions /\ decided' = decided + 1
Dies == crashes < MaxCrashes /\ crashes' = crashes + 1

\* ReplayReviewStore.review: load, then append, flush and fsync, under the lock
\* and without an await, so the requests of the service never interleave.
Review(c, d) ==
  /\ Readable /\ c \in mined /\ Counted
  /\ reviews' = Appended(Line(c, d)) /\ closed' = TRUE
  /\ acked' = [acked EXCEPT ![c] = d]
  /\ durable' = [durable EXCEPT ![c] = {}]
  /\ UNCHANGED <<failed, mined, tool, crashes>>

\* The process dies in the append: a part of the line, everything but the
\* newline, or the whole line is in the file.
TornAppend(line) ==
  \/ reviews' = Appended(Garbage) /\ closed' = FALSE /\ UNCHANGED durable
  \/ /\ reviews' = Appended(line) /\ closed' \in BOOLEAN
     /\ durable' = IF closed /\ line.candidate \in mined
                   THEN [durable EXCEPT ![line.candidate] = @ \cup {line.decision}] ELSE durable

ReviewDies(c, d) ==
  /\ Readable /\ c \in mined /\ Counted /\ Dies
  /\ TornAppend(Line(c, d))
  /\ UNCHANGED <<failed, mined, tool, acked>>

\* review_p4_replay.py decide: latest_reviews reads every line, so it fails on
\* one that is no JSON, but it compares no hash.
ToolReads(c, d) ==
  /\ tool = Idle /\ c \in mined /\ Counted
  /\ \A i \in DOMAIN reviews : reviews[i] # Garbage
  /\ tool' = Line(c, d)
  /\ UNCHANGED <<failed, mined, reviews, closed, acked, durable, crashes>>

ToolAppends ==
  /\ tool # Idle
  /\ \/ /\ reviews' = Appended(tool) /\ closed' = TRUE
        /\ IF tool.candidate \in mined
           THEN /\ acked' = [acked EXCEPT ![tool.candidate] = tool.decision]
                /\ durable' = [durable EXCEPT ![tool.candidate] = {}]
           ELSE UNCHANGED <<acked, durable>>
        /\ UNCHANGED crashes
     \/ /\ Dies
        /\ TornAppend(tool)
        /\ UNCHANGED acked
  /\ tool' = Idle
  /\ UNCHANGED <<failed, mined, decided>>

\* A session of the service ends in a failure.
SessionFails(c) ==
  /\ c \notin failed
  /\ failed' = failed \cup {c}
  /\ UNCHANGED <<mined, reviews, closed, tool, acked, durable, decided, crashes>>

\* The miner refuses a directory that exists; the operator moved the old one away.
\* It mines every persisted failure of a scenario in the catalogue, those that were
\* reviewed before too: they come back under the same id and hash, and their
\* decisions stay in the directory that was moved.
Mine ==
  /\ mined' \in SUBSET failed
  /\ reviews' = <<>> /\ closed' = TRUE
  /\ acked' = [c \in Candidates |-> None] /\ durable' = [c \in Candidates |-> {}]
  /\ UNCHANGED <<failed, tool, decided, crashes>>

Next ==
  \/ \E c \in Candidates, d \in Decisions : Review(c, d) \/ ReviewDies(c, d) \/ ToolReads(c, d)
  \/ ToolAppends
  \/ \E c \in Candidates : SessionFails(c)
  \/ Mine

Spec == Init /\ [][Next]_reviewVars

(***************************************************************************)
(* Property.                                                                *)
(***************************************************************************)

\* Whoever wrote, died or mined in between, the store shows for a candidate the
\* last decision that was reported as recorded since its directory was mined, or one
\* written after it by a process that died before it could report it, or it refuses
\* to show anything (replay.py _state, review).  A decision of the tool that read the
\* candidates of an earlier directory counts for this one if the same trajectory was
\* mined again.  Of the decisions made before, nothing is claimed: a trajectory that
\* is mined again is pending until it is decided again.
ShowsLastDecision ==
  Readable => \A c \in mined : Shown(c) \in {acked[c]} \cup durable[c]
=============================================================================
