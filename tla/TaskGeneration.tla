--------------------------- MODULE TaskGeneration ---------------------------
(***************************************************************************)
(* The resumable generation of one family of drift tasks                    *)
(* (build_p6_scaleup_protocol.py).  Every attempt, built or rejected, is a   *)
(* line appended to a cache file; a later run reads both files and goes on   *)
(* with the variants nobody has tried.  First every database of the coverage *)
(* list gets one task, then the small databases take turns until the target  *)
(* is met.                                                                 *)
(*                                                                         *)
(* The process may stop anywhere, within the write of a line too.  An append *)
(* that raises, and lives on, is not modelled.                              *)
(***************************************************************************)
EXTENDS Naturals, Sequences, FiniteSetsExt, SequencesExt

CONSTANTS
  Small,          \* db_ids, a sequence
  Coverage,       \* coverage_ids, a sequence
  Target,
  CoverageLimit,  \* 80 in the code
  VariantLimit,   \* 160
  DryRounds,      \* 12
  MaxRuns         \* bound: times the script is started

\* A run keeps as many rows as asked for, so the coverage list must not be longer.
GenerationAssumption ==
  /\ Small \in Seq(ToSet(Small)) /\ Coverage \in Seq(ToSet(Coverage))
  /\ \A i, j \in DOMAIN Small : Small[i] = Small[j] => i = j
  /\ Target \in Nat /\ Cardinality(ToSet(Coverage)) <= Target
  /\ {CoverageLimit, VariantLimit, DryRounds, MaxRuns} \subseteq Nat

VARIABLES
  buildable,      \* the variants the drift factory can verify: a function of the database file
  rowsFile, rejectedFile,  \* lines: db, variant, and whether the line is whole
  rows,           \* the tasks of this run
  variants,       \* the next variant of each database
  place,          \* where the run is
  at,             \* position in the list it goes through
  before, dry,    \* rows at the start of the round; rounds without progress
  written,        \* output files of main, the seal last
  runs

fileVars == <<rowsFile, rejectedFile>>
memory == <<rows, variants, place, at, before, dry>>
vars == <<buildable, fileVars, memory, written, runs>>

Databases == ToSet(Small) \cup ToSet(Coverage)
Outputs == <<"train", "dev", "test", "rejected_generation", "summary", "seal">>

Init ==
  /\ buildable \in SUBSET (Databases \X (0..VariantLimit))
  /\ rowsFile = <<>> /\ rejectedFile = <<>>
  /\ rows = <<>> /\ variants = [db \in Databases |-> 0]
  /\ place = "stopped" /\ at = 1 /\ before = 0 /\ dry = 0
  /\ written = 0 /\ runs = 0

-----------------------------------------------------------------------------
\* A line is whole, lacks its newline, or is no JSON.
Line(db, variant, state) == [db |-> db, variant |-> variant, state |-> state]

\* The next line continues one that lacks its newline, and spoils it.
AppendJsonl(file, line) ==
  IF file # <<>> /\ Last(file).state = "unterminated"
  THEN Append(Front(file), [Last(file) EXCEPT !.state = "garbled"])
  ELSE Append(file, line)

Readable(file) == \A i \in DOMAIN file : file[i].state # "garbled"

\* As if only the accepted tasks were counted.
UntriedOfRows(db, kept, rejected) ==
  Max({0} \cup {kept[i].variant + 1 : i \in {j \in DOMAIN kept : kept[j].db = db}})

Untried(db, kept, rejected) ==
  Max({0} \cup {kept[i].variant + 1 : i \in {j \in DOMAIN kept : kept[j].db = db}}
          \cup {rejected[i].variant + 1 : i \in {j \in DOMAIN rejected : rejected[j].db = db}})

\* The run starts: main refuses an existing output directory, and a garbled
\* cache raises every time.
Start ==
  /\ place \in {"stopped", "failed"} /\ runs < MaxRuns
  /\ runs' = runs + 1
  /\ IF written = 0 /\ Readable(rowsFile) /\ Readable(rejectedFile)
     THEN LET kept == SubSeq(rowsFile, 1, Min({Target, Len(rowsFile)}))
          IN  /\ rows' = kept
              /\ variants' = [db \in Databases |-> Untried(db, kept, rejectedFile)]
              /\ place' = "coverage" /\ at' = 1 /\ before' = 0 /\ dry' = 0
     ELSE place' = "refused" /\ UNCHANGED <<rows, variants, at, before, dry>>
  /\ UNCHANGED <<buildable, fileVars, written>>

\* One attempt and its line; state is "whole" unless the process stops in it.
Attempt(db, state) ==
  LET line == Line(db, variants[db], state)
  IN  /\ variants' = [variants EXCEPT ![db] = @ + 1]
      /\ IF <<db, variants[db]>> \in buildable
         THEN /\ rows' = Append(rows, line) /\ rowsFile' = AppendJsonl(rowsFile, line)
              /\ UNCHANGED rejectedFile
         ELSE /\ rejectedFile' = AppendJsonl(rejectedFile, line)
              /\ UNCHANGED <<rows, rowsFile>>

Covered(db) == \E i \in DOMAIN rows : rows[i].db = db

\* The limit is looked at after a success as well.
Cover ==
  /\ place = "coverage" /\ at <= Len(Coverage)
  /\ IF Covered(Coverage[at])
     THEN at' = at + 1 /\ UNCHANGED <<rows, variants, fileVars, place>>
     ELSE /\ Attempt(Coverage[at], "whole")
          /\ place' = IF variants'[Coverage[at]] > CoverageLimit THEN "failed" ELSE place
          /\ UNCHANGED at
  /\ UNCHANGED <<buildable, before, dry, written, runs>>

BeginRound ==
  /\ \/ place = "coverage" /\ at > Len(Coverage)
     \/ place = "between"
  /\ place' = IF Len(rows) < Target THEN "round" ELSE "generated"
  /\ at' = 1 /\ before' = Len(rows)
  /\ UNCHANGED <<buildable, fileVars, rows, variants, dry, written, runs>>

TakeTurn ==
  /\ place = "round" /\ at <= Len(Small) /\ Len(rows) < Target
  /\ Attempt(Small[at], "whole")
  /\ at' = at + 1
  /\ UNCHANGED <<buildable, place, before, dry, written, runs>>

\* A round that meets the target may fail all the same.
EndRound ==
  /\ place = "round" /\ (at > Len(Small) \/ Len(rows) >= Target)
  /\ dry' = IF Len(rows) = before THEN dry + 1 ELSE 0
  /\ place' = IF dry' >= DryRounds \/ \E db \in Databases : variants[db] > VariantLimit
              THEN "failed" ELSE "between"
  /\ UNCHANGED <<buildable, fileVars, rows, variants, at, before, written, runs>>

\* main makes the output directory and writes its files one after the other.
WriteOutput ==
  /\ place = "generated" /\ written < Len(Outputs)
  /\ written' = written + 1
  /\ UNCHANGED <<buildable, fileVars, memory, runs>>

\* The process stops between two steps, or within the append of an attempt: the
\* line lacks its newline then, or is cut.
Stop ==
  /\ place \in {"coverage", "round", "between", "generated"}
  /\ \/ UNCHANGED <<rows, variants, fileVars>>
     \/ \E state \in {"unterminated", "garbled"} :
          \/ place = "coverage" /\ at <= Len(Coverage) /\ ~Covered(Coverage[at]) /\ Attempt(Coverage[at], state)
          \/ place = "round" /\ at <= Len(Small) /\ Len(rows) < Target /\ Attempt(Small[at], state)
  /\ place' = "stopped"
  /\ UNCHANGED <<buildable, at, before, dry, written, runs>>

Next == Start \/ Cover \/ BeginRound \/ TakeTurn \/ EndRound \/ WriteOutput \/ Stop

Spec == Init /\ [][Next]_vars

-----------------------------------------------------------------------------
\* Lines of a file about a database, and how often it was attempted.
Tried(file, db) == {i \in DOMAIN file : file[i].db = db}
Attempts(db) == Cardinality(Tried(rowsFile, db)) + Cardinality(Tried(rejectedFile, db))

SameVariant(line, other) == line.db = other.db /\ line.variant = other.variant
NoVariantTwice ==
  /\ \A i, j \in DOMAIN rowsFile : SameVariant(rowsFile[i], rowsFile[j]) => i = j
  /\ \A i, j \in DOMAIN rejectedFile : SameVariant(rejectedFile[i], rejectedFile[j]) => i = j
  /\ \A i \in DOMAIN rowsFile, j \in DOMAIN rejectedFile :
       ~SameVariant(rowsFile[i], rejectedFile[j])

TurnsOnly(i) == Small[i] \notin ToSet(Coverage)
EvenTurns ==
  \A i, j \in DOMAIN Small :
    TurnsOnly(i) /\ TurnsOnly(j) => Attempts(Small[i]) <= Attempts(Small[j]) + runs

Legible == Readable(rowsFile) /\ Readable(rejectedFile)

\* However often the run is stopped and started again, no variant of a database is
\* tried twice on record; the small databases keep pace with each other but for
\* one turn per start; and what is published has a task of every database of the
\* coverage list and as many tasks as were asked for.
CorpusSound ==
  /\ Legible => NoVariantTwice /\ EvenTurns
  /\ written > 0 => (\A db \in ToSet(Coverage) : Covered(db)) /\ Len(rows) >= Target
=============================================================================
