----------------------------- MODULE DataLineage -----------------------------
(***************************************************************************)
(* Which databases reach which training data: the splits of Dataset V2, of   *)
(* Stage 6, of Stage 7 and of the P6 scale-up, and the rollout pool,         *)
(* supplement and recovery examples made from the last.  A database is the   *)
(* unit of isolation; which databases a split prefers for balance is left    *)
(* open.  Every script is run with its default paths and seed: running one   *)
(* again gives the same split, or is refused.                              *)
(***************************************************************************)
EXTENDS Integers, FiniteSets

CONSTANTS
  Tasks,      \* the databases that Dataset V2 has tasks of
  Frozen,     \* the databases of the frozen regression tasks
  Candidates, \* every local SQLite database
  HistoricalReserved,    \* the names the scale-up lists as those of dev and test: 17
  FreshTrain, FreshTune, FreshBlind,  \* 10, 18 and 20 in the code
  CurrentTrain,          \* databases of Dataset V2's train: 50 in the code
  None        \* not a set of databases

\* What the scripts take their input to be: every task's database is at hand and the
\* list was written for some split of the same tasks. The numbers the scale-up
\* expects were counted then, so that the other databases make up what is fresh.
LineageAssumption ==
  /\ HistoricalReserved \subseteq Tasks /\ Tasks \subseteq Candidates
  /\ IsFiniteSet(Candidates)
  /\ {FreshTrain, FreshTune, FreshBlind} \subseteq Nat
  /\ Cardinality(Candidates \ Tasks) = FreshTrain + FreshTune + FreshBlind

VARIABLES
  v2, stage6, stage7, scaleup,   \* the splits made so far: part -> databases
  sealed,                        \* the Stage 6 gate has been run and its artifacts exist
  task,                          \* one task of the on-policy data: its database and the set it has reached
  audit                          \* the seal of Stage 7

vars == <<v2, stage6, stage7, scaleup, sealed, task, audit>>

Init ==
  /\ v2 = None /\ stage6 = None /\ stage7 = None /\ scaleup = None
  /\ sealed = FALSE /\ audit = FALSE
  /\ task = [db |-> None, reached |-> ""]

\* The databases to three parts, in any way.
Assignments(databases) ==
  {[train |-> t, held |-> h, final |-> (databases \ t) \ h] :
     t \in SUBSET databases, h \in SUBSET databases}

Disjoint(split) ==
  /\ split.train \cap split.held = {}
  /\ split.train \cap split.final = {}
  /\ split.held \cap split.final = {}

-----------------------------------------------------------------------------
\* split_stratified_drift_v2: held is dev and final is test.
SplitDatasetV2 ==
  /\ v2 = None
  /\ \E split \in Assignments(Tasks) :
       /\ Disjoint(split)
       /\ Frozen \subseteq split.final
       /\ v2' = split
  /\ UNCHANGED <<stage6, stage7, scaleup, sealed, task, audit>>

\* round() of a share of n, kept between 1 and `most`.
Share(n, numerator, denominator, most) ==
  LET rounded == (2 * n * numerator + denominator) \div (2 * denominator)
      least == IF rounded < 1 THEN 1 ELSE rounded
  IN  IF least > most THEN most ELSE least

\* assign_databases of Stage 6 and 7: exact numbers of databases per part.
Stratified(databases, train, tune, denominator) ==
  LET n == Cardinality(databases)
      trains == Share(n, train, denominator, n - 2)
      tunes == Share(n, tune, denominator, n - trains - 1)
  IN  {split \in Assignments(databases) :
         /\ Cardinality(split.train) = trains /\ Cardinality(split.held) = tunes
         /\ Disjoint(split)}

\* validate_protocol raises when a database of dev or test turns up.
Validated(split) ==
  (split.train \cup split.held \cup split.final) \cap (v2.held \cup v2.final) = {}

\* held is tune and final is gate.
SplitStage6 ==
  /\ v2 # None /\ stage6 = None /\ Cardinality(v2.train) >= 3
  /\ \E split \in Stratified(v2.train, 72, 14, 100) : Validated(split) /\ stage6' = split
  /\ UNCHANGED <<v2, stage7, scaleup, sealed, task, audit>>

RunStage6Gate ==
  /\ stage6 # None /\ ~sealed
  /\ sealed' = TRUE
  /\ UNCHANGED <<v2, stage6, stage7, scaleup, task, audit>>

\* The split is written first; without the artifacts of the gate the seal raises,
\* and the directory that now exists refuses the next run.
BuildStage7 ==
  /\ stage6 # None /\ stage7 = None /\ Cardinality(stage6.train) >= 3
  /\ stage7' \in Stratified(stage6.train, 4, 1, 6)
  /\ audit' = sealed
  /\ UNCHANGED <<v2, stage6, scaleup, sealed, task>>

-----------------------------------------------------------------------------
\* The dev and test files are not opened: the list stands for them.
Unused == (Candidates \ v2.train) \ HistoricalReserved

\* As if the blind set could be of any size.
FreshTaken(fresh, tune) ==
  Cardinality(fresh) = FreshTrain /\ Cardinality(tune) = FreshTune
AsCounted(fresh, tune) ==
  FreshTaken(fresh, tune) /\ Cardinality((Unused \ fresh) \ tune) = FreshBlind

\* held is the tune and final the blind set. A train of another size, or parts of
\* other sizes than were counted, raise.
AllocateScaleup ==
  /\ v2 # None /\ scaleup = None /\ Cardinality(v2.train) = CurrentTrain
  /\ \E fresh \in SUBSET Unused : \E tune \in SUBSET (Unused \ fresh) :
       /\ AsCounted(fresh, tune)
       /\ LET split == [train |-> v2.train \cup fresh, held |-> tune, final |-> (Unused \ fresh) \ tune]
          IN  Disjoint(split) /\ scaleup' = split
  /\ UNCHANGED <<v2, stage6, stage7, sealed, task, audit>>

\* The pool is made of tasks of Train; the supplement of tasks of the pool, a
\* rollout of any other being an error; and the recovery examples of rollouts over
\* both, with the same check.
SelectPool ==
  /\ scaleup # None /\ task.reached = ""
  /\ \E db \in scaleup.train : task' = [db |-> db, reached |-> "pool"]
  /\ UNCHANGED <<v2, stage6, stage7, scaleup, sealed, audit>>

SelectSupplement ==
  /\ task.reached = "pool"
  /\ task' = [task EXCEPT !.reached = "supplement"]
  /\ UNCHANGED <<v2, stage6, stage7, scaleup, sealed, audit>>

MineFailures ==
  /\ task.reached \in {"pool", "supplement"}
  /\ task' = [task EXCEPT !.reached = "recovery"]
  /\ UNCHANGED <<v2, stage6, stage7, scaleup, sealed, audit>>

Next ==
  \/ SplitDatasetV2 \/ SplitStage6 \/ RunStage6Gate \/ BuildStage7
  \/ AllocateScaleup \/ SelectPool \/ SelectSupplement \/ MineFailures

Spec == Init /\ [][Next]_vars

-----------------------------------------------------------------------------
Part(split, name) == IF split = None THEN {} ELSE split[name]
Trained ==
  Part(stage6, "train") \cup Part(stage7, "train") \cup Part(scaleup, "train")
  \cup ({task.db} \ {None})

\* The frozen regression databases, dev and test of Dataset V2 and the blind set of
\* the scale-up reach no training data of Stage 6, of Stage 7 or of the scale-up, and
\* Stage 7 takes nothing from the tune and the gate of Stage 6. The scale-up knows dev
\* and test by a list in its source: one written for another split of the tasks is
\* found out by the sizes alone. Stage 7's own gate comes out of Stage 6's train, so
\* that a model of Stage 6 has been trained on it: nothing is claimed of that gate.
LineageIsolated ==
  /\ v2 # None => Trained \cap (v2.held \cup v2.final \cup Frozen) = {}
  /\ Trained \cap Part(scaleup, "final") = {}
  /\ stage7 # None =>
       (stage7.train \cup stage7.held \cup stage7.final) \cap (stage6.held \cup stage6.final) = {}
=============================================================================
