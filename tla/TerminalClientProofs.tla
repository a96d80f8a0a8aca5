------------------------ MODULE TerminalClientProofs ------------------------
(***************************************************************************)
(* Theorems about the terminal client: its rounds never overlap, no        *)
(* question is lost or asked twice, and each runs on the database that was  *)
(* announced for it.                                                        *)
(***************************************************************************)
EXTENDS TerminalClient, SequenceTheorems, FiniteSetTheorems, TLAPS

-----------------------------------------------------------------------------
\* The inductive invariant.

Phases == {"create", "started", "run", "stream", "final", "finish", "error", "done", "failed"}
Statuses == {"absent", "created"} \cup Live \cup TERMINAL_STATES

Round == [question : Questions \cup {"recovery"}, askedOn : Dbs,
          phase : Phases, session : SessionIds \cup {None}]

RoundsTyped ==
  /\ busy \in BOOLEAN /\ runs \in Seq(Round)
  /\ queue \in Seq(Questions)
  /\ queuedNotices \in Seq(Questions) /\ sendingNotices \in Seq(Questions)
  /\ submitted \subseteq Questions /\ refused \subseteq Questions
  /\ currentDb \in Dbs \cup {None}

ServiceTyped ==
  /\ status \in [SessionIds -> Statuses]
  /\ sessionDb \in [SessionIds -> Dbs \cup {None}]
  /\ gestures \in 0..MaxGestures /\ faults \in Nat

\* The busy flag stands for the one worker on its way.
OneAlive ==
  /\ \A v, w \in DOMAIN runs : Alive(v) /\ Alive(w) => v = w
  /\ busy = \E w \in DOMAIN runs : Alive(w)

\* The questions that were sent are those that ran, those that wait and those
\* that were refused, each in one place only.
Ran     == {runs[w].question : w \in DOMAIN runs} \cap Questions
Waiting == {queue[i] : i \in DOMAIN queue}

QuestionsPlaced ==
  /\ submitted = Ran \cup Waiting \cup refused
  /\ Ran \cap Waiting = {} /\ Ran \cap refused = {} /\ Waiting \cap refused = {}
  /\ \A v, w \in DOMAIN runs :
       runs[v].question = runs[w].question /\ runs[w].question \in Questions => v = w
  /\ \A i, j \in DOMAIN queue : queue[i] = queue[j] => i = j
  /\ queuedNotices = sendingNotices \o queue

\* The service numbers its sessions from one, and there is an identifier left
\* for every worker that has still to create one.
Creating == \E w \in DOMAIN runs : runs[w].phase = "create"

Budgeted == Len(runs) + Len(queue) <= Cardinality(submitted) + gestures

Numbered ==
  \E k \in Nat :
    /\ k <= Len(runs) /\ (Creating => k < Len(runs))
    /\ \A s \in SessionIds : status[s] # "absent" <=> s <= k

SessionsMade ==
  \A w \in DOMAIN runs :
    /\ runs[w].phase = "create" => runs[w].session = None
    /\ runs[w].phase \in {"started", "run", "stream", "final", "finish", "done"} =>
         runs[w].session # None
    /\ runs[w].session # None => status[runs[w].session] # "absent"

\* As long as nobody selects a database, the selected one is that of the worker
\* that has still to create its session.
DatabasesKept ==
  /\ DOMAIN runs # {} /\ gestures = 0 => currentDb # None
  /\ gestures = 0 => \A w \in DOMAIN runs :
       /\ runs[w].question # "recovery"
       /\ runs[w].phase = "create" => runs[w].askedOn = currentDb
       /\ runs[w].session # None => sessionDb[runs[w].session] = runs[w].askedOn

\* Without faults, how far a worker is tells the status of its session, and
\* every unsettled session has a worker.
RoundsSettled ==
  faults = 0 =>
    /\ \A w \in DOMAIN runs :
         /\ runs[w].phase \notin {"error", "failed"}
         /\ runs[w].phase \in {"started", "run"} => status[runs[w].session] = "created"
         /\ runs[w].phase = "stream" => status[runs[w].session] \in Live \cup TERMINAL_STATES
         /\ runs[w].phase \in {"final", "finish", "done"} =>
              status[runs[w].session] \in TERMINAL_STATES
    /\ \A s \in SessionIds : status[s] \in Live \cup {"created"} =>
         \E w \in DOMAIN runs : Alive(w) /\ runs[w].session = s

ClientInv ==
  /\ RoundsTyped /\ ServiceTyped /\ OneAlive /\ QuestionsPlaced
  /\ Budgeted /\ Numbered /\ SessionsMade /\ DatabasesKept /\ RoundsSettled

-----------------------------------------------------------------------------
\* Lemmas about sequences: an element is appended, replaced or taken away.

\* Appending adds one index and leaves the others alone.
LEMMA Appended ==
  ASSUME NEW S, NEW seq \in Seq(S), NEW e \in S
  PROVE  /\ Append(seq, e) \in Seq(S)
         /\ Len(seq) \in Nat /\ Len(Append(seq, e)) = Len(seq) + 1
         /\ DOMAIN Append(seq, e) = DOMAIN seq \cup {Len(seq) + 1}
         /\ Len(seq) + 1 \notin DOMAIN seq
         /\ \A i \in DOMAIN seq : Append(seq, e)[i] = seq[i]
         /\ Append(seq, e)[Len(seq) + 1] = e
<1>1. Len(seq) \in Nat /\ DOMAIN seq = 1..Len(seq)
  BY LenProperties
<1>2. Append(seq, e) \in Seq(S) /\ Len(Append(seq, e)) = Len(seq) + 1
  BY AppendProperties
<1>3. DOMAIN Append(seq, e) = 1..(Len(seq) + 1)
  BY <1>2, LenProperties
<1>. QED
  BY <1>1, <1>2, <1>3, AppendProperties

\* Replacing an element leaves the indices and the other elements alone.
LEMMA Replaced ==
  ASSUME NEW S, NEW seq \in Seq(S), NEW i \in DOMAIN seq, NEW e \in S
  PROVE  /\ [seq EXCEPT ![i] = e] \in Seq(S)
         /\ Len([seq EXCEPT ![i] = e]) = Len(seq)
         /\ DOMAIN [seq EXCEPT ![i] = e] = DOMAIN seq
         /\ [seq EXCEPT ![i] = e][i] = e
         /\ \A j \in DOMAIN seq \ {i} : [seq EXCEPT ![i] = e][j] = seq[j]
<1>1. Len(seq) \in Nat /\ DOMAIN seq = 1..Len(seq)
  BY LenProperties
<1>. QED
  BY <1>1, ExceptSeq

\* Without its head, a sequence of distinct elements is one of the others.
LEMMA Dequeued ==
  ASSUME NEW S, NEW seq \in Seq(S), seq # << >>,
         \A i, j \in DOMAIN seq : seq[i] = seq[j] => i = j
  PROVE  /\ Tail(seq) \in Seq(S) /\ Len(Tail(seq)) = Len(seq) - 1
         /\ Head(seq) \in S
         /\ Head(seq) \in {seq[i] : i \in DOMAIN seq}
         /\ {Tail(seq)[i] : i \in DOMAIN Tail(seq)} =
              {seq[i] : i \in DOMAIN seq} \ {Head(seq)}
         /\ \A i, j \in DOMAIN Tail(seq) : Tail(seq)[i] = Tail(seq)[j] => i = j
<1>1. /\ Tail(seq) \in Seq(S) /\ Len(Tail(seq)) = Len(seq) - 1 /\ Head(seq) \in S
      /\ \A i \in 1..Len(Tail(seq)) : Tail(seq)[i] = seq[i + 1]
  BY HeadTailProperties
<1>2. /\ Len(seq) \in Nat /\ DOMAIN seq = 1..Len(seq)
      /\ DOMAIN Tail(seq) = 1..(Len(seq) - 1)
  BY <1>1, LenProperties
<1>3. Len(seq) \in Nat \ {0}
  BY EmptySeq
<1>4. Head(seq) = seq[1] /\ 1 \in DOMAIN seq
  BY <1>2, <1>3
<1>5. \A i \in DOMAIN Tail(seq) : i + 1 \in DOMAIN seq /\ Tail(seq)[i] = seq[i + 1]
  BY <1>1, <1>2, <1>3
<1>6. \A i \in DOMAIN seq \ {1} : i - 1 \in DOMAIN Tail(seq) /\ Tail(seq)[i - 1] = seq[i]
  BY <1>1, <1>2, <1>3
<1>7. {Tail(seq)[i] : i \in DOMAIN Tail(seq)} = {seq[i] : i \in DOMAIN seq} \ {Head(seq)}
  <2>1. ASSUME NEW i \in DOMAIN Tail(seq)
        PROVE  Tail(seq)[i] \in {seq[j] : j \in DOMAIN seq} \ {Head(seq)}
    BY <1>2, <1>4, <1>5
  <2>2. ASSUME NEW i \in DOMAIN seq, seq[i] # Head(seq)
        PROVE  seq[i] \in {Tail(seq)[j] : j \in DOMAIN Tail(seq)}
    BY <2>2, <1>4, <1>6
  <2>. QED
    BY <2>1, <2>2
<1>8. \A i, j \in DOMAIN Tail(seq) : Tail(seq)[i] = Tail(seq)[j] => i = j
  BY <1>2, <1>5
<1>. QED
  BY <1>1, <1>4, <1>7, <1>8

\* What goes to the end of the waiting part goes to the end of the whole, and
\* what leaves the waiting part at its head goes to the end of the other.
LEMMA Noted ==
  ASSUME NEW S, NEW s \in Seq(S), NEW t \in Seq(S), NEW e \in S
  PROVE  /\ Append(s \o t, e) = s \o Append(t, e)
         /\ t # << >> => s \o t = Append(s, Head(t)) \o Tail(t)
<1>1. Append(s \o t, e) = s \o Append(t, e)
  <2>1. s \o t \in Seq(S) /\ <<e>> \in Seq(S)
    BY ConcatProperties
  <2>2. Append(s \o t, e) = (s \o t) \o <<e>> /\ Append(t, e) = t \o <<e>>
    BY <2>1, AppendIsConcat
  <2>. QED
    BY <2>1, <2>2, ConcatAssociative
<1>2. ASSUME t # << >> PROVE s \o t = Append(s, Head(t)) \o Tail(t)
  <2>1. Head(t) \in S /\ Tail(t) \in Seq(S)
    BY <1>2, HeadTailProperties
  <2>2. t = <<Head(t)>> \o Tail(t)
    <3>1. /\ Len(Tail(t)) = Len(t) - 1 /\ Len(t) \in Nat \ {0}
          /\ \A i \in 1..Len(Tail(t)) : Tail(t)[i] = t[i + 1]
      BY <1>2, HeadTailProperties, EmptySeq
    <3>2. <<Head(t)>> \in Seq(S) /\ Len(<<Head(t)>>) = 1 /\ <<Head(t)>>[1] = t[1]
      BY <2>1
    <3>3. /\ <<Head(t)>> \o Tail(t) \in Seq(S)
          /\ Len(<<Head(t)>> \o Tail(t)) = 1 + Len(Tail(t))
          /\ \A i \in 1..(1 + Len(Tail(t))) : (<<Head(t)>> \o Tail(t))[i] =
               IF i <= 1 THEN <<Head(t)>>[i] ELSE Tail(t)[i - 1]
      BY <2>1, <3>2, ConcatProperties
    <3>4. \A i \in 1..Len(t) : t[i] = (<<Head(t)>> \o Tail(t))[i]
      BY <3>1, <3>2, <3>3
    <3>. QED
      BY <3>1, <3>3, <3>4, SeqEqual
  <2>3. <<Head(t)>> \in Seq(S) /\ Append(s, Head(t)) = s \o <<Head(t)>>
    BY <2>1, AppendIsConcat
  <2>. QED
    BY <2>1, <2>2, <2>3, ConcatAssociative
<1>. QED
  BY <1>1, <1>2

-----------------------------------------------------------------------------
\* What a step of the client does to rounds, questions and sessions.

placing == <<queue, submitted, refused, queuedNotices, sendingNotices>>

\* A question is sent, or the first of the waiting ones is.
Sent(q) ==
  /\ q \in Questions \ submitted /\ submitted' = submitted \cup {q}
  /\ StartQuery(q, queue)
  /\ UNCHANGED <<sendingNotices, status, sessionDb, gestures, faults>>

Drained ==
  /\ ~busy /\ queue # << >>
  /\ sendingNotices' = Append(sendingNotices, Head(queue))
  /\ StartQuery(Head(queue), Tail(queue))
  /\ UNCHANGED <<submitted, status, sessionDb, gestures, faults>>

Recovers ==
  /\ ~busy /\ busy' = TRUE
  /\ runs' = Append(runs, NewRun("recovery", DefaultDb))
  /\ gestures < MaxGestures /\ gestures' = gestures + 1
  /\ UNCHANGED <<placing, currentDb, status, sessionDb, faults>>

\* A worker goes on to a phase; no other step changes the service's sessions,
\* except for the service itself.
Goes(w, phase, session) ==
  /\ runs' = [runs EXCEPT ![w] = [runs[w] EXCEPT !.phase = phase, !.session = session]]
  /\ busy' = (busy /\ phase \notin {"done", "failed"})
  /\ UNCHANGED <<placing, currentDb, gestures>>

Creates(w) ==
  LET db == IF runs[w].question = "recovery" THEN DefaultDb ELSE currentDb IN
  /\ runs[w].phase = "create"
  /\ \/ /\ status' = [status EXCEPT ![FreshSession] = "created"]
        /\ sessionDb' = [sessionDb EXCEPT ![FreshSession] = db]
     \/ UNCHANGED <<status, sessionDb>> /\ faults' = faults + 1
  /\ \/ Goes(w, "started", FreshSession) /\ UNCHANGED faults
     \/ Goes(w, "error", runs[w].session) /\ faults' = faults + 1

Runs(w) ==
  /\ runs[w].phase = "run"
  /\ \/ status' = [status EXCEPT ![runs[w].session] = "queued"]
     \/ UNCHANGED status /\ faults' = faults + 1
  /\ \/ Goes(w, "stream", runs[w].session) /\ UNCHANGED faults
     \/ Goes(w, "error", runs[w].session) /\ faults' = faults + 1
  /\ UNCHANGED sessionDb

Turns(w) ==
  /\ \/ runs[w].phase = "started" /\ Goes(w, "run", runs[w].session) /\ UNCHANGED faults
     \/ /\ runs[w].phase = "stream" /\ StreamCloses(runs[w].session)
        /\ Goes(w, "final", runs[w].session) /\ UNCHANGED faults
     \/ runs[w].phase = "final" /\ Goes(w, "finish", runs[w].session) /\ UNCHANGED faults
     \/ runs[w].phase = "finish" /\ Goes(w, "done", runs[w].session) /\ UNCHANGED faults
     \/ /\ runs[w].phase \in {"stream", "final"}
        /\ Goes(w, "error", runs[w].session) /\ faults' = faults + 1
     \/ runs[w].phase = "error" /\ Goes(w, "failed", runs[w].session) /\ UNCHANGED faults
  /\ UNCHANGED <<status, sessionDb>>

Works(w) == w \in DOMAIN runs /\ (Creates(w) \/ Runs(w) \/ Turns(w))

\* Any other step leaves all of it alone, but it may select a database: on a
\* gesture, or because none was selected.
Elsewhere ==
  /\ UNCHANGED <<placing, busy, runs, status, sessionDb>>
  /\ gestures' \in {gestures, gestures + 1} /\ gestures' \in 0..MaxGestures
  /\ faults' \in {faults, faults + 1}
  /\ currentDb' \in Dbs \cup {None}
  /\ currentDb' = currentDb \/ currentDb = None \/ gestures' = gestures + 1

View ==
  \/ \E q \in Questions : Sent(q)
  \/ Drained \/ Recovers
  \/ \E w \in DOMAIN runs : Works(w)
  \/ \E s \in SessionIds : ServiceProgress(s)
  \/ Elsewhere

\* Replacing the fields of a worker's record one by one is replacing the record.
LEMMA FieldsReplaced ==
  ASSUME NEW w \in DOMAIN runs, runs \in Seq(Round), NEW phase, NEW session
  PROVE  /\ [runs EXCEPT ![w].phase = phase] =
              [runs EXCEPT ![w] = [runs[w] EXCEPT !.phase = phase, !.session = runs[w].session]]
         /\ [runs EXCEPT ![w].phase = phase, ![w].session = session] =
              [runs EXCEPT ![w] = [runs[w] EXCEPT !.phase = phase, !.session = session]]
<1>1. runs \in [1..Len(runs) -> Round] /\ DOMAIN runs = 1..Len(runs)
  BY LenProperties
<1>2. runs[w] \in Round
  BY <1>1
<1>3. [runs[w] EXCEPT !.phase = phase] =
        [runs[w] EXCEPT !.phase = phase, !.session = runs[w].session]
  BY <1>2 DEF Round
<1>. QED
  BY <1>1, <1>3

\* The steps of an agent worker, one by one: only the last two give the flag back.
LEMMA WorkerSeen ==
  ASSUME ClientInv, NEW w \in DOMAIN runs, Worker(w)
  PROVE  Works(w)
<1>0. /\ runs \in Seq(Round) /\ busy \in BOOLEAN
      /\ runs[w].phase \notin {"done", "failed"} => busy = TRUE
  BY DEF ClientInv, RoundsTyped, OneAlive, Alive
<1>a. ASSUME NEW phase
      PROVE  [runs EXCEPT ![w].phase = phase] =
               [runs EXCEPT ![w] = [runs[w] EXCEPT !.phase = phase, !.session = runs[w].session]]
  BY <1>0, FieldsReplaced
<1>b. ASSUME NEW phase, NEW session
      PROVE  [runs EXCEPT ![w].phase = phase, ![w].session = session] =
               [runs EXCEPT ![w] = [runs[w] EXCEPT !.phase = phase, !.session = session]]
  BY <1>0, FieldsReplaced
<1>. USE DEF Works, Goes, placing, roundRest, workerFrame, serviceVars, RequestFails, Moves
<1>1. CASE RunCreate(w)
  BY <1>1, <1>0, <1>a, <1>b DEF RunCreate, create_session, Creates
<1>2. CASE SessionStarted(w)
  BY <1>2, <1>0, <1>a DEF SessionStarted, Turns
<1>3. CASE RunSession(w)
  BY <1>3, <1>0, <1>a DEF RunSession, run_session, Runs
<1>4. CASE StreamEnds(w)
  BY <1>4, <1>0, <1>a DEF StreamEnds, Turns
<1>5. CASE ReadFinal(w)
  BY <1>5, <1>0, <1>a DEF ReadFinal, Turns
<1>6. CASE FinishSession(w)
  BY <1>6, <1>0, <1>a DEF FinishSession, Turns, boundVars, choiceVars
<1>7. CASE FinishWithError(w)
  BY <1>7, <1>0, <1>a DEF FinishWithError, Turns
<1>. QED
  BY <1>1, <1>2, <1>3, <1>4, <1>5, <1>6, <1>7 DEF Worker

\* The other threads leave rounds, questions and sessions alone;
\* _apply_bootstrap selects a database when none is selected.
LEMMA BackgroundSeen ==
  ASSUME ClientInv, NEW j \in jobs, Background(j)
  PROVE  Elsewhere
<1>0. /\ currentDb \in Dbs \cup {None} /\ DefaultDb \in Dbs
      /\ gestures \in 0..MaxGestures /\ faults \in Nat
  BY ClientAssumption DEF ClientInv, RoundsTyped, ServiceTyped
<1>. USE DEF Elsewhere, placing, roundVars, serviceVars, jobFrame, choiceVars, RequestFails
<1>1. CASE JobRequest(j)
  BY <1>1, <1>0 DEF JobRequest
<1>2. CASE JobFails(j)
  BY <1>2, <1>0 DEF JobFails
<1>3. CASE RefreshSessions(j)
  BY <1>3, <1>0 DEF RefreshSessions
<1>4. CASE ApplyBootstrap(j)
  BY <1>4, <1>0 DEF ApplyBootstrap
<1>5. CASE ApplyJob(j)
  BY <1>5, <1>0 DEF ApplyJob
<1>. QED
  BY <1>1, <1>2, <1>3, <1>4, <1>5 DEF Background

\* Of the user's gestures, only a question and /recover open a round.
LEMMA UserSeen ==
  ASSUME ClientInv, UserMoves
  PROVE  (\E q \in Questions : Sent(q)) \/ Recovers \/ Elsewhere
<1>0. /\ currentDb \in Dbs \cup {None} /\ MaxGestures \in Nat
      /\ gestures \in 0..MaxGestures /\ faults \in Nat /\ busy \in BOOLEAN
  BY ClientAssumption DEF ClientInv, RoundsTyped, ServiceTyped
<1>. USE DEF placing, roundVars, serviceVars, gestureFrame, choiceVars, boundVars, Gesture
<1>1. ASSUME NEW q \in Questions, SubmitQuestion(q)
      PROVE  Sent(q)
  BY <1>1 DEF SubmitQuestion, Sent
<1>2. CASE Recover
  BY <1>2, <1>0 DEF Recover, RecoverAllowed, Recovers
<1>3. CASE Clear
  BY <1>3, <1>0 DEF Clear, Elsewhere
<1>4. CASE ToggleDetails
  BY <1>4, <1>0 DEF ToggleDetails, Elsewhere
<1>5. CASE Type
  BY <1>5, <1>0 DEF Type, Elsewhere
<1>6. CASE Interrupt
  BY <1>6, <1>0 DEF Interrupt, Elsewhere
<1>7. CASE CancelOrQuit
  BY <1>7, <1>0 DEF CancelOrQuit, Elsewhere
<1>8. ASSUME NEW m \in Models, ActivateModel(m)
      PROVE  Elsewhere
  BY <1>8, <1>0 DEF ActivateModel, Elsewhere
<1>9. ASSUME NEW db \in Dbs, SelectDatabase(db)
      PROVE  Elsewhere
  BY <1>9, <1>0 DEF SelectDatabase, Elsewhere
<1>10. ASSUME NEW s \in SessionIds, PickSession(s)
       PROVE  Elsewhere
  BY <1>10, <1>0 DEF PickSession, Elsewhere
<1>. QED
  BY <1>1, <1>2, <1>3, <1>4, <1>5, <1>6, <1>7, <1>8, <1>9, <1>10 DEF UserMoves

\* Every step of the client is seen in one of the ways above.
LEMMA StepSeen ==
  ASSUME ClientInv, [Next]_vars
  PROVE  View
<1>0. /\ currentDb \in Dbs \cup {None} /\ MaxGestures \in Nat
      /\ gestures \in 0..MaxGestures /\ faults \in Nat
  BY ClientAssumption DEF ClientInv, RoundsTyped, ServiceTyped
<1>. USE DEF placing, roundVars, serviceVars, choiceVars, boundVars
<1>1. CASE UserMoves
  BY <1>1, UserSeen DEF View
<1>2. CASE DrainQueue
  BY <1>2, <1>0 DEF DrainQueue, NothingToDrain, NextInQueue, View, Drained, Elsewhere
<1>3. CASE Disarm
  BY <1>3, <1>0 DEF Disarm, gestureFrame, View, Elsewhere
<1>4. ASSUME NEW w \in DOMAIN runs, Worker(w)
      PROVE  View
  BY <1>4, WorkerSeen DEF View
<1>5. ASSUME NEW w \in DOMAIN runs, RenderEvent(w)
      PROVE  View
  BY <1>5, <1>0 DEF RenderEvent, workerFrame, roundRest, View, Elsewhere
<1>6. ASSUME NEW j \in jobs, Background(j)
      PROVE  View
  BY <1>6, BackgroundSeen DEF View
<1>7. CASE UNCHANGED vars
  BY <1>7, <1>0 DEF vars, View, Elsewhere
<1>. QED
  BY <1>1, <1>2, <1>3, <1>4, <1>5, <1>6, <1>7 DEF Next, View

-----------------------------------------------------------------------------
\* Rounds: the flag admits one at a time.

\* A worker that has still to create a session finds an identifier: the least
\* that the service has not given away.
LEMMA IdentifierLeft ==
  ASSUME ClientInv, NEW w \in DOMAIN runs, runs[w].phase = "create"
  PROVE  /\ FreshSession \in SessionIds /\ status[FreshSession] = "absent"
         /\ SessionIds \subseteq Nat
         /\ \E k \in Nat :
              /\ k < Len(runs) /\ FreshSession = k + 1
              /\ \A s \in SessionIds : status[s] # "absent" <=> s <= k
<1>1. /\ Len(runs) \in Nat /\ Len(queue) \in Nat
      /\ Len(runs) + Len(queue) <= Cardinality(submitted) + gestures
      /\ gestures \in 0..MaxGestures /\ MaxGestures \in Nat
  BY ClientAssumption, LenProperties
     DEF ClientInv, RoundsTyped, ServiceTyped, Budgeted
<1>2. /\ Cardinality(submitted) \in Nat /\ Cardinality(Questions) \in Nat
      /\ Cardinality(submitted) <= Cardinality(Questions)
  BY ClientAssumption, FS_Subset, FS_CardinalityType DEF ClientInv, RoundsTyped
<1>3. PICK k \in Nat : /\ k < Len(runs)
                       /\ \A s \in SessionIds : status[s] # "absent" <=> s <= k
  BY DEF ClientInv, Numbered, Creating
<1>4. k + 1 \in SessionIds
  BY <1>1, <1>2, <1>3 DEF SessionIds
<1>. DEFINE Free(s) == status[s] = "absent" /\ \A r \in SessionIds : r < s => status[r] # "absent"
<1>5. SessionIds \subseteq Nat
  BY <1>1, <1>2 DEF SessionIds
<1>6. \A s \in SessionIds : Free(s) => s = k + 1
  BY <1>3, <1>4, <1>5
<1>7. Free(k + 1)
  BY <1>3, <1>4, <1>5
<1>8. FreshSession \in SessionIds /\ Free(FreshSession)
  <2>1. \E s \in SessionIds : Free(s)
    BY <1>4, <1>7
  <2>. QED
    BY <2>1 DEF FreshSession
<1>9. FreshSession = k + 1
  BY <1>6, <1>8
<1>. QED
  BY <1>3, <1>5, <1>8, <1>9

\* The database a question runs on exists once one is selected.
LEMMA DatabaseNamed ==
  ASSUME ClientInv, NEW q \in Questions, currentDb # None
  PROVE  DatabaseFor(q) \in Dbs
<1>1. Refers[q] \subseteq Dbs /\ currentDb \in Dbs
  BY ClientAssumption DEF ClientInv, RoundsTyped
<1>. QED
  BY <1>1 DEF DatabaseFor

\* A round opens when none is under way.
LEMMA RoundOpens ==
  ASSUME ClientInv, ~busy, busy' = TRUE,
         NEW q \in Questions \cup {"recovery"}, NEW db \in Dbs,
         runs' = Append(runs, NewRun(q, db))
  PROVE  /\ runs' \in Seq(Round) /\ OneAlive'
         /\ Len(runs) \in Nat /\ Len(runs') = Len(runs) + 1
         /\ DOMAIN runs' = DOMAIN runs \cup {Len(runs) + 1}
         /\ Len(runs) + 1 \notin DOMAIN runs
         /\ \A w \in DOMAIN runs : runs'[w] = runs[w] /\ ~Alive(w)
         /\ runs'[Len(runs) + 1] = NewRun(q, db)
<1>. DEFINE new == NewRun(q, db)
<1>1. new \in Round /\ new.phase = "create"
  BY DEF NewRun, Round, Phases
<1>2. runs \in Seq(Round) /\ \A w \in DOMAIN runs : ~Alive(w)
  BY DEF ClientInv, RoundsTyped, OneAlive
<1>. PICK n : n = Len(runs) + 1
  OBVIOUS
<1>. HIDE DEF new
<1>3. runs' = Append(runs, new)
  BY DEF new
<1>4. /\ Append(runs, new) \in Seq(Round)
      /\ Len(runs) \in Nat /\ Len(Append(runs, new)) = n
      /\ DOMAIN Append(runs, new) = DOMAIN runs \cup {n} /\ n \notin DOMAIN runs
      /\ \A w \in DOMAIN runs : Append(runs, new)[w] = runs[w]
      /\ Append(runs, new)[n] = new
  BY <1>1, <1>2, Appended
<1>5. \A w \in DOMAIN runs : ~Alive(w)'
  BY <1>2, <1>3, <1>4 DEF Alive
<1>6. Alive(n)'
  BY <1>1, <1>3, <1>4 DEF Alive
<1>7. OneAlive'
  BY <1>3, <1>4, <1>5, <1>6 DEF OneAlive
<1>. QED
  BY <1>2, <1>3, <1>4, <1>7 DEF new

\* A worker that goes on keeps its question and its database, and the flag is
\* reset when it ends.
LEMMA RoundGoes ==
  ASSUME ClientInv, NEW w \in DOMAIN runs, NEW phase \in Phases,
         NEW session \in SessionIds \cup {None}, Alive(w), Goes(w, phase, session)
  PROVE  /\ runs' \in Seq(Round) /\ OneAlive' /\ busy' \in BOOLEAN
         /\ Len(runs') = Len(runs) /\ DOMAIN runs' = DOMAIN runs
         /\ \A v \in DOMAIN runs \ {w} : runs'[v] = runs[v] /\ ~Alive(v)
         /\ runs'[w].question = runs[w].question /\ runs'[w].askedOn = runs[w].askedOn
         /\ runs'[w].phase = phase /\ runs'[w].session = session
<1>. DEFINE r == [runs[w] EXCEPT !.phase = phase, !.session = session]
<1>1. runs \in Seq(Round) /\ runs[w] \in Round
  BY LenProperties DEF ClientInv, RoundsTyped
<1>2. /\ r \in Round /\ r.question = runs[w].question /\ r.askedOn = runs[w].askedOn
      /\ r.phase = phase /\ r.session = session
  BY <1>1 DEF Round
<1>3. runs' = [runs EXCEPT ![w] = r]
  BY DEF Goes
<1>. HIDE DEF r
<1>4. /\ runs' \in Seq(Round) /\ Len(runs') = Len(runs) /\ DOMAIN runs' = DOMAIN runs
      /\ runs'[w] = r /\ \A v \in DOMAIN runs \ {w} : runs'[v] = runs[v]
  <2>1. /\ [runs EXCEPT ![w] = r] \in Seq(Round)
        /\ Len([runs EXCEPT ![w] = r]) = Len(runs)
        /\ DOMAIN [runs EXCEPT ![w] = r] = DOMAIN runs
        /\ [runs EXCEPT ![w] = r][w] = r
        /\ \A v \in DOMAIN runs \ {w} : [runs EXCEPT ![w] = r][v] = runs[v]
    BY <1>1, <1>2, Replaced
  <2>. QED
    BY <2>1, <1>3
<1>5. busy = TRUE /\ \A v \in DOMAIN runs \ {w} : ~Alive(v)
  BY DEF ClientInv, OneAlive, RoundsTyped
<1>6. \A v \in DOMAIN runs \ {w} : ~Alive(v)'
  BY <1>4, <1>5 DEF Alive
<1>7. busy' = Alive(w)' /\ busy' \in BOOLEAN
  BY <1>2, <1>4, <1>5 DEF Alive, Goes
<1>8. OneAlive'
  BY <1>4, <1>6, <1>7 DEF OneAlive
<1>. QED
  BY <1>2, <1>4, <1>5, <1>7, <1>8

\* A step of a worker is one of a worker on its way.
LEMMA WorkerGoes ==
  ASSUME ClientInv, NEW w \in DOMAIN runs, Works(w)
  PROVE  /\ Alive(w)
         /\ \E phase \in Phases, session \in SessionIds \cup {None} : Goes(w, phase, session)
<1>0. runs[w] \in Round
  BY LenProperties DEF ClientInv, RoundsTyped
<1>1. runs[w].session \in SessionIds \cup {None}
  BY <1>0 DEF Round
<1>2. CASE Creates(w)
  <2>1. FreshSession \in SessionIds \cup {None} /\ Alive(w)
    BY <1>2, IdentifierLeft DEF Creates, Alive
  <2>2. Goes(w, "started", FreshSession) \/ Goes(w, "error", runs[w].session)
    BY <1>2 DEF Creates
  <2>. QED
    BY <1>1, <2>1, <2>2 DEF Phases
<1>3. CASE Runs(w)
  BY <1>1, <1>3 DEF Runs, Alive, Phases
<1>4. CASE Turns(w)
  BY <1>1, <1>4 DEF Turns, Alive, Phases
<1>. QED
  BY <1>2, <1>3, <1>4 DEF Works

\* What becomes of a question that is sent: it waits, is refused, or opens a round.
QueuesUp(q, rest) ==
  /\ busy /\ queue' = Append(rest, q) /\ queuedNotices' = Append(queuedNotices, q)
  /\ UNCHANGED <<busy, runs, refused, currentDb>>

Refuses(q, rest) ==
  /\ ~busy /\ queue' = rest /\ refused' = refused \cup {q}
  /\ UNCHANGED <<busy, runs, queuedNotices, currentDb>>

Opens(q, rest) ==
  /\ ~busy /\ busy' = TRUE /\ queue' = rest
  /\ currentDb' \in Dbs /\ runs' = Append(runs, NewRun(q, currentDb'))
  /\ UNCHANGED <<refused, queuedNotices>>

\* _start_query does one of these three.
LEMMA QuestionSent ==
  ASSUME ClientInv, NEW q \in Questions, NEW rest, StartQuery(q, rest)
  PROVE  QueuesUp(q, rest) \/ Refuses(q, rest) \/ Opens(q, rest)
BY DatabaseNamed DEF StartQuery, QueuesUp, Refuses, Opens

\* Types, and one round at a time, are kept by every step.
LEMMA RoundsTypedStep ==
  ASSUME ClientInv, View
  PROVE  RoundsTyped' /\ OneAlive'
<1>1. RoundsTyped /\ OneAlive /\ \A i, j \in DOMAIN queue : queue[i] = queue[j] => i = j
  BY DEF ClientInv, QuestionsPlaced
<1>2. ASSUME runs' = runs, busy' = busy
      PROVE  OneAlive' /\ busy' \in BOOLEAN /\ runs' \in Seq(Round)
  BY <1>1, <1>2 DEF OneAlive, Alive, RoundsTyped
<1>3. ASSUME NEW q \in Questions, NEW rest \in Seq(Questions), Opens(q, rest)
      PROVE  OneAlive' /\ busy' \in BOOLEAN /\ runs' \in Seq(Round)
  BY <1>3, RoundOpens DEF Opens
<1>4. ASSUME NEW q \in Questions, NEW rest \in Seq(Questions), StartQuery(q, rest)
      PROVE  /\ OneAlive' /\ busy' \in BOOLEAN /\ runs' \in Seq(Round)
             /\ queue' \in Seq(Questions) /\ queuedNotices' \in Seq(Questions)
             /\ refused' \subseteq Questions /\ currentDb' \in Dbs \cup {None}
  <2>1. /\ Append(rest, q) \in Seq(Questions)
        /\ Append(queuedNotices, q) \in Seq(Questions)
    BY <1>1, Appended DEF RoundsTyped
  <2>2. CASE QueuesUp(q, rest)
    BY <2>1, <2>2, <1>1, <1>2 DEF QueuesUp, RoundsTyped
  <2>3. CASE Refuses(q, rest)
    BY <2>3, <1>1, <1>2 DEF Refuses, RoundsTyped
  <2>4. CASE Opens(q, rest)
    BY <2>4, <1>1, <1>3 DEF Opens, RoundsTyped
  <2>. QED
    BY <1>4, <2>2, <2>3, <2>4, QuestionSent
<1>5. ASSUME NEW q \in Questions, Sent(q)
      PROVE  RoundsTyped' /\ OneAlive'
  BY <1>1, <1>4, <1>5 DEF Sent, RoundsTyped
<1>6. CASE Drained
  <2>1. /\ Tail(queue) \in Seq(Questions) /\ Head(queue) \in Questions
        /\ Append(sendingNotices, Head(queue)) \in Seq(Questions)
    BY <1>1, <1>6, Dequeued, Appended DEF Drained, RoundsTyped
  <2>. QED
    BY <2>1, <1>1, <1>4, <1>6 DEF Drained, RoundsTyped
<1>7. CASE Recovers
  BY <1>1, <1>7, RoundOpens, ClientAssumption DEF Recovers, placing, RoundsTyped
<1>8. ASSUME NEW w \in DOMAIN runs, Works(w)
      PROVE  RoundsTyped' /\ OneAlive'
  <2>1. PICK phase \in Phases, session \in SessionIds \cup {None} : Goes(w, phase, session)
    BY <1>8, WorkerGoes
  <2>2. OneAlive' /\ busy' \in BOOLEAN /\ runs' \in Seq(Round)
    BY <1>8, <2>1, WorkerGoes, RoundGoes
  <2>. QED
    BY <1>1, <2>1, <2>2 DEF Goes, placing, RoundsTyped
<1>9. ASSUME NEW s \in SessionIds, ServiceProgress(s)
      PROVE  RoundsTyped' /\ OneAlive'
  BY <1>1, <1>2, <1>9 DEF ServiceProgress, roundVars, choiceVars, RoundsTyped
<1>10. CASE Elsewhere
  BY <1>1, <1>2, <1>10 DEF Elsewhere, placing, RoundsTyped
<1>. QED
  BY <1>5, <1>6, <1>7, <1>8, <1>9, <1>10 DEF View

-----------------------------------------------------------------------------
\* Questions: each is in one place, once.

\* A worker that goes on leaves the questions that ran as they are.
LEMMA RanKept ==
  ASSUME QuestionsPlaced, DOMAIN runs' = DOMAIN runs,
         \A w \in DOMAIN runs : runs'[w].question = runs[w].question
  PROVE  /\ Ran' = Ran
         /\ \A v, w \in DOMAIN runs' :
              runs'[v].question = runs'[w].question /\ runs'[w].question \in Questions => v = w
<1>1. {runs'[w].question : w \in DOMAIN runs'} = {runs[w].question : w \in DOMAIN runs}
  OBVIOUS
<1>. QED
  BY <1>1 DEF Ran, QuestionsPlaced

\* A question that was in no place before opens a round.
LEMMA RanGrows ==
  ASSUME ClientInv, ~busy, busy' = TRUE,
         NEW q \in (Questions \cup {"recovery"}) \ Ran, NEW db \in Dbs,
         runs' = Append(runs, NewRun(q, db))
  PROVE  /\ Ran' = Ran \cup ({q} \cap Questions)
         /\ \A v, w \in DOMAIN runs' :
              runs'[v].question = runs'[w].question /\ runs'[w].question \in Questions => v = w
<1>. PICK n : n = Len(runs) + 1
  OBVIOUS
<1>1. /\ DOMAIN runs' = DOMAIN runs \cup {n} /\ n \notin DOMAIN runs
      /\ \A w \in DOMAIN runs : runs'[w] = runs[w]
      /\ runs'[n] = NewRun(q, db)
  BY RoundOpens
<1>2. runs'[n].question = q
  BY <1>1 DEF NewRun
<1>3. {runs'[w].question : w \in DOMAIN runs'} = {runs[w].question : w \in DOMAIN runs} \cup {q}
  BY <1>1, <1>2
<1>4. \A w \in DOMAIN runs : runs[w].question \in Questions => runs[w].question # q
  BY DEF Ran
<1>5. \A v, w \in DOMAIN runs :
        runs[v].question = runs[w].question /\ runs[w].question \in Questions => v = w
  BY DEF ClientInv, QuestionsPlaced
<1>. QED
  BY <1>1, <1>2, <1>3, <1>4, <1>5 DEF Ran

\* A question that was in no place before joins the waiting ones.
LEMMA WaitingGrows ==
  ASSUME NEW S, NEW seq \in Seq(S), NEW q \in S,
         \A i, j \in DOMAIN seq : seq[i] = seq[j] => i = j,
         q \notin {seq[i] : i \in DOMAIN seq}
  PROVE  /\ {Append(seq, q)[i] : i \in DOMAIN Append(seq, q)} =
              {seq[i] : i \in DOMAIN seq} \cup {q}
         /\ \A i, j \in DOMAIN Append(seq, q) :
              Append(seq, q)[i] = Append(seq, q)[j] => i = j
<1>. PICK n : n = Len(seq) + 1
  OBVIOUS
<1>1. /\ DOMAIN Append(seq, q) = DOMAIN seq \cup {n} /\ n \notin DOMAIN seq
      /\ \A i \in DOMAIN seq : Append(seq, q)[i] = seq[i]
      /\ Append(seq, q)[n] = q
  BY Appended
<1>. QED
  BY <1>1

\* A question that was in no place is sent; `rest` is what waits besides it and
\* `left` the questions in it.
LEMMA SentIsPlaced ==
  ASSUME ClientInv, NEW q \in Questions, NEW rest \in Seq(Questions),
         StartQuery(q, rest),
         \A i, j \in DOMAIN rest : rest[i] = rest[j] => i = j,
         NEW left, left = {rest[i] : i \in DOMAIN rest},
         left \subseteq Waiting, q \notin Ran \cup left \cup refused
  PROVE  /\ Ran' \cup Waiting' \cup refused' = Ran \cup left \cup refused \cup {q}
         /\ Ran' \cap Waiting' = {} /\ Ran' \cap refused' = {} /\ Waiting' \cap refused' = {}
         /\ \A v, w \in DOMAIN runs' :
              runs'[v].question = runs'[w].question /\ runs'[w].question \in Questions => v = w
         /\ \A i, j \in DOMAIN queue' : queue'[i] = queue'[j] => i = j
<1>1. Ran \cap left = {} /\ Ran \cap refused = {} /\ left \cap refused = {}
  BY DEF ClientInv, QuestionsPlaced
<1>2. ASSUME UNCHANGED runs
      PROVE  /\ Ran' = Ran
             /\ \A v, w \in DOMAIN runs' :
                  runs'[v].question = runs'[w].question /\ runs'[w].question \in Questions => v = w
  BY <1>2, RanKept DEF ClientInv
<1>3. CASE QueuesUp(q, rest)
  <2>1. /\ Waiting' = left \cup {q}
        /\ \A i, j \in DOMAIN queue' : queue'[i] = queue'[j] => i = j
    BY <1>3, WaitingGrows DEF QueuesUp, Waiting
  <2>. QED
    BY <1>1, <1>2, <1>3, <2>1 DEF QueuesUp
<1>4. CASE Refuses(q, rest)
  <2>1. /\ Waiting' = left
        /\ \A i, j \in DOMAIN queue' : queue'[i] = queue'[j] => i = j
    BY <1>4 DEF Refuses, Waiting
  <2>. QED
    BY <1>1, <1>2, <1>4, <2>1 DEF Refuses
<1>5. CASE Opens(q, rest)
  <2>1. /\ Waiting' = left
        /\ \A i, j \in DOMAIN queue' : queue'[i] = queue'[j] => i = j
    BY <1>5 DEF Opens, Waiting
  <2>2. /\ Ran' = Ran \cup {q}
        /\ \A v, w \in DOMAIN runs' :
             runs'[v].question = runs'[w].question /\ runs'[w].question \in Questions => v = w
    BY <1>5, RanGrows DEF Opens
  <2>. QED
    BY <1>1, <1>5, <2>1, <2>2 DEF Opens
<1>. QED
  BY <1>3, <1>4, <1>5, QuestionSent

\* Every step keeps each question in one place.
LEMMA PlacedStep ==
  ASSUME ClientInv, View
  PROVE  QuestionsPlaced'
<1>1. RoundsTyped /\ QuestionsPlaced
  BY DEF ClientInv
<1>2. ASSUME UNCHANGED placing, DOMAIN runs' = DOMAIN runs,
             \A w \in DOMAIN runs : runs'[w].question = runs[w].question
      PROVE  QuestionsPlaced'
  BY <1>1, <1>2, RanKept DEF placing, QuestionsPlaced, Waiting
<1>3. ASSUME NEW q \in Questions, Sent(q)
      PROVE  QuestionsPlaced'
  <2>1. q \notin Ran \cup Waiting \cup refused /\ queue \in Seq(Questions)
    BY <1>1, <1>3 DEF Sent, QuestionsPlaced, RoundsTyped
  <2>2. queuedNotices' = sendingNotices' \o queue'
    <3>0. sendingNotices \in Seq(Questions) /\ queue \in Seq(Questions)
      BY <1>1 DEF RoundsTyped
    <3>1. Append(sendingNotices \o queue, q) = sendingNotices \o Append(queue, q)
      BY <3>0, Noted
    <3>2. QueuesUp(q, queue) \/ Refuses(q, queue) \/ Opens(q, queue)
      BY <1>3, QuestionSent DEF Sent
    <3>3. queuedNotices = sendingNotices \o queue /\ sendingNotices' = sendingNotices
      BY <1>1, <1>3 DEF Sent, QuestionsPlaced
    <3>. QED
      BY <3>1, <3>2, <3>3 DEF QueuesUp, Refuses, Opens
  <2>3. /\ Ran' \cup Waiting' \cup refused' = Ran \cup Waiting \cup refused \cup {q}
        /\ Ran' \cap Waiting' = {} /\ Ran' \cap refused' = {} /\ Waiting' \cap refused' = {}
        /\ \A v, w \in DOMAIN runs' :
             runs'[v].question = runs'[w].question /\ runs'[w].question \in Questions => v = w
        /\ \A i, j \in DOMAIN queue' : queue'[i] = queue'[j] => i = j
    BY <1>1, <1>3, <2>1, SentIsPlaced DEF Sent, QuestionsPlaced, Waiting
  <2>4. submitted' = Ran' \cup Waiting' \cup refused'
    BY <1>1, <1>3, <2>3 DEF Sent, QuestionsPlaced
  <2>. QED
    BY <2>2, <2>3, <2>4 DEF QuestionsPlaced
<1>4. CASE Drained
  <2>. DEFINE q == Head(queue)  rest == Tail(queue)
  <2>1. /\ q \in Questions /\ rest \in Seq(Questions) /\ q \in Waiting
        /\ {rest[i] : i \in DOMAIN rest} = Waiting \ {q}
        /\ \A i, j \in DOMAIN rest : rest[i] = rest[j] => i = j
    BY <1>1, <1>4, Dequeued DEF Drained, RoundsTyped, QuestionsPlaced, Waiting
  <2>2. StartQuery(q, rest) /\ submitted' = submitted /\ ~busy
    BY <1>4 DEF Drained
  <2>3. queuedNotices' = sendingNotices' \o queue'
    <3>1. sendingNotices \o queue = Append(sendingNotices, q) \o rest
      <4>1. /\ sendingNotices \in Seq(Questions) /\ queue \in Seq(Questions)
            /\ queue # << >> /\ q \in Questions
        BY <1>1, <1>4, <2>1 DEF Drained, RoundsTyped
      <4>2. sendingNotices \o queue = Append(sendingNotices, Head(queue)) \o Tail(queue)
        BY <4>1, Noted
      <4>. QED
        BY <4>2
    <3>2. queuedNotices = sendingNotices \o queue
          /\ sendingNotices' = Append(sendingNotices, q)
      BY <1>1, <1>4 DEF Drained, QuestionsPlaced
    <3>. HIDE DEF q, rest
    <3>3. Refuses(q, rest) \/ Opens(q, rest)
      BY <2>1, <2>2, QuestionSent DEF QueuesUp
    <3>4. queue' = rest /\ queuedNotices' = queuedNotices
      BY <3>3 DEF Refuses, Opens
    <3>. QED
      BY <3>1, <3>2, <3>4
  <2>. HIDE DEF q, rest
  <2>4. q \notin Ran \cup (Waiting \ {q}) \cup refused
    BY <1>1, <2>1 DEF QuestionsPlaced
  <2>5. /\ Ran' \cup Waiting' \cup refused' =
             Ran \cup (Waiting \ {q}) \cup refused \cup {q}
        /\ Ran' \cap Waiting' = {} /\ Ran' \cap refused' = {} /\ Waiting' \cap refused' = {}
        /\ \A v, w \in DOMAIN runs' :
             runs'[v].question = runs'[w].question /\ runs'[w].question \in Questions => v = w
        /\ \A i, j \in DOMAIN queue' : queue'[i] = queue'[j] => i = j
    <3>. PICK left : left = {rest[i] : i \in DOMAIN rest}
      OBVIOUS
    <3>1. left = Waiting \ {q} /\ left \subseteq Waiting /\ q \notin Ran \cup left \cup refused
      BY <2>1, <2>4
    <3>. QED
      BY <2>1, <2>2, <3>1, SentIsPlaced
  <2>6. submitted' = Ran' \cup Waiting' \cup refused'
    BY <1>1, <2>1, <2>2, <2>5 DEF QuestionsPlaced
  <2>. QED
    BY <2>3, <2>5, <2>6 DEF QuestionsPlaced
<1>5. CASE Recovers
  <2>1. /\ Ran' = Ran
        /\ \A v, w \in DOMAIN runs' :
             runs'[v].question = runs'[w].question /\ runs'[w].question \in Questions => v = w
    BY <1>5, RanGrows, ClientAssumption DEF Recovers, Ran
  <2>. QED
    BY <1>1, <1>5, <2>1 DEF Recovers, placing, QuestionsPlaced, Waiting
<1>6. ASSUME NEW w \in DOMAIN runs, Works(w)
      PROVE  QuestionsPlaced'
  <2>1. PICK phase \in Phases, session \in SessionIds \cup {None} : Goes(w, phase, session)
    BY <1>6, WorkerGoes
  <2>2. /\ DOMAIN runs' = DOMAIN runs
        /\ \A v \in DOMAIN runs : runs'[v].question = runs[v].question
    BY <1>6, <2>1, WorkerGoes, RoundGoes
  <2>. QED
    BY <1>2, <2>1, <2>2 DEF Goes
<1>7. ASSUME NEW s \in SessionIds, ServiceProgress(s)
      PROVE  QuestionsPlaced'
  BY <1>2, <1>7 DEF ServiceProgress, roundVars, placing
<1>8. CASE Elsewhere
  BY <1>2, <1>8 DEF Elsewhere
<1>. QED
  BY <1>3, <1>4, <1>5, <1>6, <1>7, <1>8 DEF View

-----------------------------------------------------------------------------
\* Sessions: how far a worker is tells how its session stands.

\* Steps that neither open a round nor move a worker or a session.
LEMMA NothingMoves ==
  ASSUME ClientInv, UNCHANGED <<busy, runs, status, sessionDb>>,
         gestures' \in {gestures, gestures + 1}, gestures' \in 0..MaxGestures,
         faults' \in {faults, faults + 1},
         currentDb' = currentDb \/ currentDb = None \/ gestures' = gestures + 1
  PROVE  ServiceTyped' /\ Numbered' /\ SessionsMade' /\ DatabasesKept' /\ RoundsSettled'
<1>1. gestures \in Nat /\ faults \in Nat /\ ServiceTyped
  BY ClientAssumption DEF ClientInv, ServiceTyped
<1>2. ServiceTyped' /\ Numbered' /\ SessionsMade'
  BY <1>1 DEF ClientInv, ServiceTyped, Numbered, Creating, SessionsMade
<1>3. gestures' = 0 => gestures = 0 /\ gestures' = gestures
  BY <1>1
<1>4. DatabasesKept'
  BY <1>3 DEF ClientInv, DatabasesKept
<1>5. faults' = 0 => faults = 0
  BY <1>1
<1>6. RoundsSettled'
  BY <1>5 DEF ClientInv, RoundsSettled, Alive
<1>. QED
  BY <1>2, <1>4, <1>6

\* A round opens on the selected database, or by a gesture.
LEMMA OpeningMoves ==
  ASSUME ClientInv, ~busy, busy' = TRUE,
         NEW q \in Questions \cup {"recovery"}, NEW db \in Dbs,
         runs' = Append(runs, NewRun(q, db)),
         UNCHANGED <<status, sessionDb, faults>>,
         \/ gestures' = gestures + 1 /\ gestures' \in 0..MaxGestures
         \/ gestures' = gestures /\ currentDb' = db /\ q # "recovery"
  PROVE  ServiceTyped' /\ Numbered' /\ SessionsMade' /\ DatabasesKept' /\ RoundsSettled'
<1>1. gestures \in Nat /\ faults \in Nat /\ ServiceTyped
  BY ClientAssumption DEF ClientInv, ServiceTyped
<1>. PICK n : n = Len(runs) + 1
  OBVIOUS
<1>2. /\ Len(runs) \in Nat /\ Len(runs') = n
      /\ DOMAIN runs' = DOMAIN runs \cup {n} /\ n \notin DOMAIN runs
      /\ \A w \in DOMAIN runs : runs'[w] = runs[w] /\ ~Alive(w)
      /\ runs'[n] = NewRun(q, db)
  BY RoundOpens
<1>3. /\ runs'[n].question = q /\ runs'[n].askedOn = db
      /\ runs'[n].phase = "create" /\ runs'[n].session = None
  BY <1>2 DEF NewRun
<1>4. \A w \in DOMAIN runs : runs'[w].phase \in {"done", "failed"}
  BY <1>2 DEF Alive
<1>5. ServiceTyped'
  BY <1>1 DEF ServiceTyped
<1>6. Numbered'
  BY <1>2 DEF ClientInv, Numbered, Creating
<1>7. SessionsMade'
  BY <1>2, <1>3 DEF ClientInv, SessionsMade
<1>8. DatabasesKept'
  <2>1. SUFFICES ASSUME gestures' = 0
                 PROVE  gestures = 0 /\ currentDb' = db /\ q # "recovery" /\ DatabasesKept'
    BY <1>1 DEF DatabasesKept
  <2>2. gestures = 0 /\ currentDb' = db /\ q # "recovery" /\ db # None
    BY <1>1, <2>1, ClientAssumption
  <2>3. \A w \in DOMAIN runs :
          /\ runs[w].question # "recovery"
          /\ runs[w].session # None => sessionDb[runs[w].session] = runs[w].askedOn
    BY <2>2 DEF ClientInv, DatabasesKept
  <2>. QED
    BY <1>2, <1>3, <1>4, <2>2, <2>3 DEF DatabasesKept
<1>9. RoundsSettled'
  <2>1. SUFFICES ASSUME faults = 0
                 PROVE  RoundsSettled'
    BY DEF RoundsSettled
  <2>2. \A s \in SessionIds : status[s] \notin Live \cup {"created"}
    BY <1>2, <2>1 DEF ClientInv, RoundsSettled
  <2>. QED
    BY <1>2, <1>3, <2>1, <2>2 DEF ClientInv, RoundsSettled
<1>. QED
  BY <1>5, <1>6, <1>7, <1>8, <1>9

\* The service goes on with a session that was started.
LEMMA ServiceMoves ==
  ASSUME ClientInv, NEW s \in SessionIds, ServiceProgress(s)
  PROVE  ServiceTyped' /\ Numbered' /\ SessionsMade' /\ DatabasesKept' /\ RoundsSettled'
<1>1. /\ UNCHANGED <<busy, runs, sessionDb, gestures, faults, currentDb>>
      /\ ServiceTyped /\ status[s] \in Live
  BY DEF ServiceProgress, roundVars, boundVars, choiceVars, Live, ClientInv
<1>2. /\ DOMAIN status' = SessionIds
      /\ status'[s] \in {"running"} \cup TERMINAL_STATES
      /\ \A r \in SessionIds \ {s} : status'[r] = status[r]
  BY <1>1 DEF ServiceProgress, ServiceTyped, TERMINAL_STATES, Live
<1>3. /\ ServiceTyped'
      /\ \A r \in SessionIds : status'[r] # "absent" <=> status[r] # "absent"
  <2>1. status' \in [SessionIds -> Statuses]
    BY <1>1 DEF ServiceProgress, ServiceTyped, Statuses, TERMINAL_STATES, Live
  <2>. QED
    BY <1>1, <1>2, <2>1 DEF ServiceTyped, TERMINAL_STATES, Live
<1>4. Numbered'
  BY <1>1, <1>3 DEF ClientInv, Numbered, Creating
<1>5. \A w \in DOMAIN runs : runs[w].session \in SessionIds \cup {None}
  <2>1. \A w \in DOMAIN runs : runs[w] \in Round
    BY LenProperties DEF ClientInv, RoundsTyped
  <2>. QED
    BY <2>1 DEF Round
<1>6. SessionsMade'
  BY <1>1, <1>3, <1>5 DEF ClientInv, SessionsMade
<1>7. DatabasesKept'
  BY <1>1 DEF ClientInv, DatabasesKept
<1>8. RoundsSettled'
  <2>1. SUFFICES ASSUME faults = 0
                 PROVE  RoundsSettled'
    BY <1>1 DEF RoundsSettled
  <2>2. ASSUME NEW w \in DOMAIN runs
        PROVE  /\ runs[w].phase \notin {"error", "failed"}
               /\ runs[w].phase \in {"started", "run"} => status'[runs[w].session] = "created"
               /\ runs[w].phase = "stream" => status'[runs[w].session] \in Live \cup TERMINAL_STATES
               /\ runs[w].phase \in {"final", "finish", "done"} =>
                    status'[runs[w].session] \in TERMINAL_STATES
    <3>1. /\ runs[w].phase \notin {"error", "failed"}
          /\ runs[w].phase \in {"started", "run"} => status[runs[w].session] = "created"
          /\ runs[w].phase = "stream" => status[runs[w].session] \in Live \cup TERMINAL_STATES
          /\ runs[w].phase \in {"final", "finish", "done"} =>
               status[runs[w].session] \in TERMINAL_STATES
      BY <2>1 DEF ClientInv, RoundsSettled
    <3>2. runs[w].phase \in {"started", "run", "stream", "final", "finish", "done"} =>
            runs[w].session \in SessionIds
      BY <1>5 DEF ClientInv, SessionsMade
    <3>. QED
      BY <1>1, <1>2, <3>1, <3>2 DEF Live, TERMINAL_STATES
  <2>3. ASSUME NEW r \in SessionIds, status'[r] \in Live \cup {"created"}
        PROVE  \E w \in DOMAIN runs : Alive(w) /\ runs[w].session = r
    <3>1. status[r] \in Live \cup {"created"}
      BY <1>1, <1>2, <2>3
    <3>. QED
      BY <2>1, <3>1 DEF ClientInv, RoundsSettled
  <2>. QED
    BY <1>1, <2>2, <2>3 DEF RoundsSettled, Alive
<1>. QED
  BY <1>3, <1>4, <1>6, <1>7, <1>8

\* The sessions of the workers besides w.
OthersSettled(w) ==
  \A v \in DOMAIN runs \ {w} :
    /\ ~Alive(v)
    /\ runs[v].session \in SessionIds \cup {None}
    /\ runs[v].phase = "done" => runs[v].session # None
    /\ runs[v].session # None => status[runs[v].session] # "absent"
    /\ gestures = 0 => /\ runs[v].question # "recovery"
                       /\ runs[v].session # None => sessionDb[runs[v].session] = runs[v].askedOn
    /\ faults = 0 => /\ runs[v].phase = "done"
                     /\ status[runs[v].session] \in TERMINAL_STATES

\* The invariant says this of the workers besides the one on its way.
LEMMA Others ==
  ASSUME ClientInv, NEW w \in DOMAIN runs, Alive(w)
  PROVE  OthersSettled(w)
<1>1. SUFFICES ASSUME NEW v \in DOMAIN runs \ {w}
               PROVE  /\ ~Alive(v)
                      /\ runs[v].session \in SessionIds \cup {None}
                      /\ runs[v].phase = "done" => runs[v].session # None
                      /\ runs[v].session # None => status[runs[v].session] # "absent"
                      /\ gestures = 0 => /\ runs[v].question # "recovery"
                                         /\ runs[v].session # None =>
                                              sessionDb[runs[v].session] = runs[v].askedOn
                      /\ faults = 0 => /\ runs[v].phase = "done"
                                       /\ status[runs[v].session] \in TERMINAL_STATES
  BY DEF OthersSettled
<1>2. ~Alive(v)
  BY DEF ClientInv, OneAlive
<1>3. runs[v] \in Round
  BY LenProperties DEF ClientInv, RoundsTyped
<1>4. /\ runs[v].session \in SessionIds \cup {None}
      /\ runs[v].phase = "done" => runs[v].session # None
      /\ runs[v].session # None => status[runs[v].session] # "absent"
  BY <1>3 DEF Round, ClientInv, SessionsMade
<1>5. gestures = 0 => /\ runs[v].question # "recovery"
                      /\ runs[v].session # None => sessionDb[runs[v].session] = runs[v].askedOn
  BY DEF ClientInv, DatabasesKept
<1>6. faults = 0 => runs[v].phase = "done" /\ status[runs[v].session] \in TERMINAL_STATES
  BY <1>2 DEF ClientInv, RoundsSettled, Alive
<1>. QED
  BY <1>2, <1>4, <1>5, <1>6

\* create_session: the identifier was free, so no other worker had it.
LEMMA CreateMoves ==
  ASSUME ClientInv, NEW w \in DOMAIN runs, Creates(w)
  PROVE  ServiceTyped' /\ Numbered' /\ SessionsMade' /\ DatabasesKept' /\ RoundsSettled'
<1>. PICK f : f = FreshSession
  OBVIOUS
<1>1. Alive(w) /\ OthersSettled(w) /\ ServiceTyped
  BY Others DEF Creates, Alive, ClientInv
<1>2. /\ f \in SessionIds /\ status[f] = "absent" /\ f # None /\ SessionIds \subseteq Nat
      /\ \E k \in Nat : /\ k < Len(runs) /\ f = k + 1
                        /\ \A s \in SessionIds : status[s] # "absent" <=> s <= k
  BY IdentifierLeft, ClientAssumption DEF Creates
<1>3. \/ Goes(w, "started", f) /\ faults' = faults
      \/ Goes(w, "error", None) /\ faults' = faults + 1
  BY DEF Creates, ClientInv, SessionsMade
<1>4. faults \in Nat /\ gestures' = gestures /\ currentDb' = currentDb
  BY <1>1, <1>3 DEF ServiceTyped, Goes
<1>5. \/ runs'[w].phase = "started" /\ runs'[w].session = f /\ faults' = faults
      \/ runs'[w].phase = "error" /\ runs'[w].session = None /\ faults' = faults + 1
  BY <1>1, <1>2, <1>3, RoundGoes DEF Phases
<1>6. /\ Len(runs') = Len(runs) /\ Len(runs) \in Nat /\ DOMAIN runs' = DOMAIN runs
      /\ \A v \in DOMAIN runs \ {w} : runs'[v] = runs[v]
      /\ runs'[w].question = runs[w].question /\ runs'[w].askedOn = runs[w].askedOn
  BY <1>1, <1>2, <1>3, RoundGoes, LenProperties DEF Phases, ClientInv, RoundsTyped
<1>. DEFINE db == IF runs[w].question = "recovery" THEN DefaultDb ELSE currentDb
<1>7. \/ /\ status' = [status EXCEPT ![f] = "created"]
         /\ sessionDb' = [sessionDb EXCEPT ![f] = db]
      \/ UNCHANGED <<status, sessionDb>> /\ faults' = faults + 1
  BY DEF Creates
<1>8. db \in Dbs \cup {None}
  BY ClientAssumption DEF ClientInv, RoundsTyped
<1>. HIDE DEF db
<1>9. /\ ServiceTyped'
      /\ \A s \in SessionIds \ {f} : status'[s] = status[s] /\ sessionDb'[s] = sessionDb[s]
      /\ \/ status'[f] = "created" /\ sessionDb'[f] = db
         \/ status'[f] = "absent" /\ faults' = faults + 1
  <2>1. CASE /\ status' = [status EXCEPT ![f] = "created"]
             /\ sessionDb' = [sessionDb EXCEPT ![f] = db]
    BY <1>1, <1>2, <1>3, <1>4, <1>8, <2>1 DEF ServiceTyped, Statuses
  <2>2. CASE UNCHANGED <<status, sessionDb>> /\ faults' = faults + 1
    BY <1>1, <1>2, <1>4, <2>2 DEF ServiceTyped
  <2>. QED
    BY <1>7, <2>1, <2>2
<1>10. Numbered'
  <2>1. PICK k \in Nat : /\ k < Len(runs) /\ f = k + 1
                         /\ \A s \in SessionIds : status[s] # "absent" <=> s <= k
    BY <1>2
  <2>2. \A v \in DOMAIN runs' : runs'[v].phase # "create"
    BY <1>1, <1>5, <1>6 DEF OthersSettled, Alive
  <2>3. SessionIds \subseteq Nat
    BY <1>2
  <2>4. CASE status'[f] = "created"
    <3>1. \A s \in SessionIds : status'[s] # "absent" <=> s <= k + 1
      BY <2>1, <2>3, <2>4, <1>9
    <3>. QED
      BY <2>1, <2>2, <3>1, <1>6 DEF Numbered, Creating
  <2>5. CASE status'[f] = "absent"
    <3>1. \A s \in SessionIds : status'[s] # "absent" <=> s <= k
      BY <1>2, <2>1, <2>3, <2>5, <1>9
    <3>. QED
      BY <2>1, <2>2, <3>1, <1>6 DEF Numbered, Creating
  <2>. QED
    BY <1>9, <2>4, <2>5
<1>11. \A v \in DOMAIN runs \ {w} : runs[v].session # f
  BY <1>1, <1>2 DEF OthersSettled
<1>12. SessionsMade'
  <2>1. faults' = faults => status'[f] = "created"
    BY <1>4, <1>9
  <2>2. \A v \in DOMAIN runs \ {w} : runs'[v].session # None => status'[runs'[v].session] # "absent"
    BY <1>1, <1>6, <1>9, <1>11 DEF OthersSettled
  <2>3. \A v \in DOMAIN runs \ {w} : runs'[v].phase \in {"done", "failed"}
    BY <1>1, <1>6 DEF OthersSettled, Alive
  <2>4. \A v \in DOMAIN runs \ {w} : runs'[v].phase = "done" => runs'[v].session # None
    BY <1>1, <1>6 DEF OthersSettled
  <2>5. runs'[w].session # None => status'[runs'[w].session] # "absent"
    BY <1>4, <1>5, <2>1
  <2>. QED
    BY <1>2, <1>5, <1>6, <2>2, <2>3, <2>4, <2>5 DEF SessionsMade
<1>13. DatabasesKept'
  <2>1. SUFFICES ASSUME gestures = 0
                 PROVE  DatabasesKept'
    BY <1>4 DEF DatabasesKept
  <2>2. currentDb # None /\ runs[w].question # "recovery" /\ runs[w].askedOn = currentDb
    BY <2>1 DEF ClientInv, DatabasesKept, Creates
  <2>3. db = currentDb
    BY <2>2 DEF db
  <2>4. \A v \in DOMAIN runs \ {w} :
          /\ runs'[v].question # "recovery" /\ runs'[v].phase # "create"
          /\ runs'[v].session # None => sessionDb'[runs'[v].session] = runs'[v].askedOn
    BY <1>1, <1>6, <1>9, <1>11, <2>1 DEF OthersSettled, Alive
  <2>5. runs'[w].session # None => sessionDb'[runs'[w].session] = runs'[w].askedOn
    BY <1>4, <1>5, <1>6, <1>9, <2>2, <2>3
  <2>. QED
    BY <1>4, <1>5, <1>6, <2>2, <2>4, <2>5 DEF DatabasesKept
<1>14. RoundsSettled'
  <2>1. SUFFICES ASSUME faults = 0, faults' = faults
                 PROVE  RoundsSettled'
    BY <1>3, <1>4 DEF RoundsSettled
  <2>2. /\ runs'[w].phase = "started" /\ runs'[w].session = f /\ status'[f] = "created"
    BY <1>4, <1>5, <1>9, <2>1
  <2>3. \A v \in DOMAIN runs \ {w} :
          runs'[v].phase = "done" /\ status'[runs'[v].session] \in TERMINAL_STATES
    BY <1>1, <1>6, <1>9, <1>11, <2>1 DEF OthersSettled
  <2>4. ASSUME NEW s \in SessionIds \ {f}
        PROVE  status'[s] \notin Live \cup {"created"}
    <3>1. \A v \in DOMAIN runs : Alive(v) => v = w
      BY <1>1 DEF OthersSettled
    <3>2. runs[w].session = None
      BY DEF Creates, ClientInv, SessionsMade
    <3>3. status[s] \in Live \cup {"created"} => \E v \in DOMAIN runs : Alive(v) /\ runs[v].session = s
      BY <2>1 DEF ClientInv, RoundsSettled
    <3>4. None \notin SessionIds
      BY ClientAssumption, <1>2 DEF SessionIds
    <3>. QED
      BY <1>9, <3>1, <3>2, <3>3, <3>4
  <2>5. Alive(w)'
    BY <2>2 DEF Alive
  <2>. QED
    BY <1>6, <2>2, <2>3, <2>4, <2>5 DEF RoundsSettled
<1>. QED
  BY <1>9, <1>10, <1>12, <1>13, <1>14

\* What holds of the sessions of the other workers holds after any step of w
\* that does not touch their sessions.
LEMMA MovesApart ==
  ASSUME ClientInv, NEW w \in DOMAIN runs, Alive(w), NEW phase \in Phases \ {"create"},
         Goes(w, phase, runs[w].session),
         runs[w].session # None \/ (phase = "failed" /\ UNCHANGED status),
         faults' \in {faults, faults + 1}, UNCHANGED sessionDb,
         \/ UNCHANGED status
         \/ status' = [status EXCEPT ![runs[w].session] = "queued"]
  PROVE  ServiceTyped' /\ Numbered' /\ SessionsMade' /\ DatabasesKept'
<1>. PICK s : s = runs[w].session
  OBVIOUS
<1>1. OthersSettled(w) /\ ServiceTyped
  BY Others DEF ClientInv
<1>2. runs[w].session \in SessionIds \cup {None}
  <2>1. runs[w] \in Round
    BY LenProperties DEF ClientInv, RoundsTyped
  <2>. QED
    BY <2>1 DEF Round
<1>3. s # None => s \in SessionIds /\ status[s] # "absent"
  BY <1>2 DEF ClientInv, SessionsMade
<1>4. /\ gestures' = gestures /\ currentDb' = currentDb /\ sessionDb' = sessionDb
      /\ faults \in Nat
  BY <1>1 DEF Goes, ServiceTyped
<1>5. /\ Len(runs') = Len(runs) /\ DOMAIN runs' = DOMAIN runs
      /\ \A v \in DOMAIN runs \ {w} : runs'[v] = runs[v]
      /\ runs'[w].question = runs[w].question /\ runs'[w].askedOn = runs[w].askedOn
      /\ runs'[w].phase = phase /\ runs'[w].session = s
  BY <1>2, RoundGoes
<1>6. /\ ServiceTyped' /\ \A r \in SessionIds : status'[r] # "absent" <=> status[r] # "absent"
  BY <1>1, <1>3, <1>4 DEF ServiceTyped, Statuses, Live
<1>7. \A v \in DOMAIN runs' : runs'[v].phase # "create"
  BY <1>1, <1>5 DEF OthersSettled, Alive
<1>8. Numbered'
  BY <1>5, <1>6, <1>7 DEF ClientInv, Numbered, Creating
<1>9. SessionsMade'
  <2>1. \A v \in DOMAIN runs \ {w} :
          /\ runs'[v].phase \in {"done", "failed"}
          /\ runs'[v].phase = "done" => runs'[v].session # None
          /\ runs'[v].session # None => status'[runs'[v].session] # "absent"
    BY <1>1, <1>5, <1>6 DEF OthersSettled, Alive
  <2>2. (s # None => status'[s] # "absent") /\ (phase = "failed" \/ s # None)
    BY <1>3, <1>6
  <2>. QED
    BY <1>5, <2>1, <2>2 DEF SessionsMade
<1>10. DatabasesKept'
  <2>1. gestures = 0 => /\ currentDb # None /\ runs[w].question # "recovery"
                        /\ s # None => sessionDb[s] = runs[w].askedOn
    BY DEF ClientInv, DatabasesKept
  <2>2. gestures = 0 => \A v \in DOMAIN runs \ {w} :
          /\ runs'[v].question # "recovery"
          /\ runs'[v].session # None => sessionDb'[runs'[v].session] = runs'[v].askedOn
    BY <1>1, <1>4, <1>5 DEF OthersSettled
  <2>. QED
    BY <1>4, <1>5, <1>7, <2>1, <2>2 DEF DatabasesKept
<1>. QED
  BY <1>6, <1>8, <1>9, <1>10

\* Without faults, w's session is the only unsettled one: it is enough to know
\* how it stands after the step.
LEMMA OneSettles ==
  ASSUME ClientInv, NEW w \in DOMAIN runs, Alive(w), NEW phase \in Phases \ {"create"},
         Goes(w, phase, runs[w].session),
         runs[w].session # None \/ (phase = "failed" /\ UNCHANGED status),
         faults' \in {faults, faults + 1},
         \/ UNCHANGED status
         \/ status' = [status EXCEPT ![runs[w].session] = "queued"],
         faults' = 0 =>
           /\ status[runs[w].session] \in Live \cup {"created"} \/ UNCHANGED status
           /\ phase \notin {"error", "failed"}
           /\ phase \in {"started", "run"} => status'[runs[w].session] = "created"
           /\ phase = "stream" => status'[runs[w].session] \in Live \cup TERMINAL_STATES
           /\ phase \in {"final", "finish", "done"} =>
                status'[runs[w].session] \in TERMINAL_STATES
  PROVE  RoundsSettled'
<1>. PICK s : s = runs[w].session
  OBVIOUS
<1>1. OthersSettled(w) /\ ServiceTyped
  BY Others DEF ClientInv
<1>2. runs[w].session \in SessionIds \cup {None}
  <2>1. runs[w] \in Round
    BY LenProperties DEF ClientInv, RoundsTyped
  <2>. QED
    BY <2>1 DEF Round
<1>3. faults \in Nat /\ (faults' = 0 => s \in SessionIds)
  BY <1>1, <1>2 DEF ServiceTyped
<1>4. /\ DOMAIN runs' = DOMAIN runs
      /\ \A v \in DOMAIN runs \ {w} : runs'[v] = runs[v]
      /\ runs'[w].phase = phase /\ runs'[w].session = s
  BY <1>2, RoundGoes
<1>5. SUFFICES ASSUME faults = 0, faults' = 0
               PROVE  RoundsSettled'
  BY <1>3 DEF RoundsSettled
<1>6. s \in SessionIds /\ \A r \in SessionIds \ {s} : status'[r] = status[r]
  BY <1>1, <1>3, <1>5 DEF ServiceTyped
<1>7. \A v \in DOMAIN runs \ {w} :
        runs'[v].phase = "done" /\ status'[runs'[v].session] \in TERMINAL_STATES
  <2>1. SUFFICES ASSUME NEW v \in DOMAIN runs \ {w}
                 PROVE  runs[v].phase = "done" /\ status'[runs[v].session] \in TERMINAL_STATES
    BY <1>4
  <2>2. /\ runs[v].phase = "done" /\ runs[v].session \in SessionIds
        /\ status[runs[v].session] \in TERMINAL_STATES
    BY <1>1, <1>5 DEF OthersSettled
  <2>3. runs[v].session # s \/ UNCHANGED status
    BY <1>5, <2>2 DEF Live, TERMINAL_STATES
  <2>. QED
    BY <1>6, <2>2, <2>3
<1>8. ASSUME NEW r \in SessionIds \ {s}
      PROVE  status'[r] \notin Live \cup {"created"}
  <2>1. status[r] \in Live \cup {"created"} =>
          \E v \in DOMAIN runs : Alive(v) /\ runs[v].session = r
    BY <1>5 DEF ClientInv, RoundsSettled
  <2>. QED
    BY <1>1, <1>6, <2>1 DEF OthersSettled
<1>9. status'[s] \in Live \cup {"created"} => Alive(w)'
  BY <1>4, <1>5 DEF Alive, Live, TERMINAL_STATES
<1>. QED
  BY <1>4, <1>5, <1>6, <1>7, <1>8, <1>9 DEF RoundsSettled

\* run_session and the steps of a worker after it.
LEMMA RunMoves ==
  ASSUME ClientInv, NEW w \in DOMAIN runs, Runs(w)
  PROVE  ServiceTyped' /\ Numbered' /\ SessionsMade' /\ DatabasesKept' /\ RoundsSettled'
<1>1. Alive(w) /\ runs[w].session # None /\ ServiceTyped
  BY DEF Runs, Alive, ClientInv, SessionsMade
<1>2. faults \in Nat /\ faults' \in {faults, faults + 1} /\ UNCHANGED sessionDb
  BY <1>1 DEF Runs, ServiceTyped
<1>3. \/ UNCHANGED status
      \/ status' = [status EXCEPT ![runs[w].session] = "queued"]
  BY DEF Runs
<1>4. PICK phase \in {"stream", "error"} :
        Goes(w, phase, runs[w].session) /\ (phase = "error" => faults' = faults + 1)
  BY DEF Runs
<1>5. ServiceTyped' /\ Numbered' /\ SessionsMade' /\ DatabasesKept'
  BY <1>1, <1>2, <1>3, <1>4, MovesApart DEF Phases
<1>6. ASSUME faults' = 0
      PROVE  /\ phase = "stream" /\ status[runs[w].session] = "created"
             /\ status'[runs[w].session] \in Live
  <2>1. phase = "stream" /\ status[runs[w].session] = "created" /\ faults = 0
    BY <1>2, <1>4, <1>6 DEF ClientInv, RoundsSettled, Runs
  <2>2. status' = [status EXCEPT ![runs[w].session] = "queued"]
    BY <1>2, <1>6, <2>1 DEF Runs
  <2>3. runs[w].session \in SessionIds
    <3>1. runs[w] \in Round
      BY LenProperties DEF ClientInv, RoundsTyped
    <3>. QED
      BY <1>1, <3>1 DEF Round
  <2>. QED
    BY <1>1, <2>1, <2>2, <2>3 DEF ServiceTyped, Live
<1>7. RoundsSettled'
  BY <1>1, <1>2, <1>3, <1>4, <1>6, OneSettles DEF Phases
<1>. QED
  BY <1>5, <1>7

\* The other steps of a worker: its callbacks, the stream, and the end of the round.
LEMMA TurnMoves ==
  ASSUME ClientInv, NEW w \in DOMAIN runs, Turns(w)
  PROVE  ServiceTyped' /\ Numbered' /\ SessionsMade' /\ DatabasesKept' /\ RoundsSettled'
<1>1. Alive(w) /\ faults \in Nat
  BY DEF Turns, Alive, ClientInv, ServiceTyped
<1>2. PICK phase \in Phases \ {"create"} :
        /\ Goes(w, phase, runs[w].session)
        /\ \/ runs[w].phase = "started" /\ phase = "run" /\ faults' = faults
           \/ /\ runs[w].phase = "stream" /\ phase = "final" /\ faults' = faults
              /\ status[runs[w].session] \in TERMINAL_STATES
           \/ runs[w].phase = "final" /\ phase = "finish" /\ faults' = faults
           \/ runs[w].phase = "finish" /\ phase = "done" /\ faults' = faults
           \/ /\ runs[w].phase \in {"stream", "final"} /\ phase = "error"
              /\ faults' = faults + 1
           \/ runs[w].phase = "error" /\ phase = "failed" /\ faults' = faults
  BY DEF Turns, Phases, StreamCloses
<1>3. /\ UNCHANGED <<status, sessionDb>> /\ faults' \in {faults, faults + 1}
      /\ runs[w].session # None \/ (phase = "failed" /\ UNCHANGED status)
  BY <1>2 DEF Turns, ClientInv, SessionsMade
<1>4. ServiceTyped' /\ Numbered' /\ SessionsMade' /\ DatabasesKept'
  BY <1>1, <1>2, <1>3, MovesApart
<1>5. faults' = 0 =>
        /\ phase \notin {"error", "failed"}
        /\ phase \in {"started", "run"} => status[runs[w].session] = "created"
        /\ phase # "stream"
        /\ phase \in {"final", "finish", "done"} =>
             status[runs[w].session] \in TERMINAL_STATES
  <2>1. faults' = 0 => /\ runs[w].phase # "error" /\ faults = 0
                       /\ runs[w].phase = "started" => status[runs[w].session] = "created"
                       /\ runs[w].phase \in {"final", "finish"} =>
                            status[runs[w].session] \in TERMINAL_STATES
    BY <1>1, <1>3 DEF ClientInv, RoundsSettled
  <2>. QED
    BY <1>1, <1>2, <2>1
<1>6. RoundsSettled'
  BY <1>1, <1>2, <1>3, <1>5, OneSettles
<1>. QED
  BY <1>4, <1>6

\* Every run was asked for by a question or by a gesture.
LEMMA BudgetStep ==
  ASSUME ClientInv, View
  PROVE  Budgeted'
<1>1. /\ Len(runs) \in Nat /\ Len(queue) \in Nat /\ gestures \in Nat /\ Budgeted
      /\ runs \in Seq(Round) /\ queue \in Seq(Questions)
  BY LenProperties, ClientAssumption DEF ClientInv, RoundsTyped, ServiceTyped
<1>2. IsFiniteSet(submitted) /\ Cardinality(submitted) \in Nat
  BY ClientAssumption, FS_Subset, FS_CardinalityType DEF ClientInv, RoundsTyped
<1>3. ASSUME NEW q \in Questions, Sent(q)
      PROVE  Budgeted'
  <2>1. Cardinality(submitted') = Cardinality(submitted) + 1
    BY <1>2, <1>3, FS_AddElement DEF Sent
  <2>2. \/ Len(runs') = Len(runs) /\ Len(queue') \in {Len(queue), Len(queue) + 1}
        \/ Len(runs') = Len(runs) + 1 /\ Len(queue') = Len(queue)
    <3>1. CASE QueuesUp(q, queue)
      BY <3>1, <1>1, Appended DEF QueuesUp
    <3>2. CASE Refuses(q, queue)
      BY <3>2 DEF Refuses
    <3>3. CASE Opens(q, queue)
      BY <3>3, RoundOpens DEF Opens
    <3>. QED
      BY <1>3, <3>1, <3>2, <3>3, QuestionSent DEF Sent
  <2>3. gestures' = gestures
    BY <1>3 DEF Sent
  <2>. QED
    BY <1>1, <1>2, <2>1, <2>2, <2>3 DEF Budgeted
<1>4. CASE Drained
  <2>1. Head(queue) \in Questions /\ Len(Tail(queue)) = Len(queue) - 1
    BY <1>1, <1>4, Dequeued DEF Drained, ClientInv, QuestionsPlaced
  <2>2. Len(runs') + Len(queue') <= Len(runs) + Len(queue)
    <3>1. CASE QueuesUp(Head(queue), Tail(queue))
      BY <3>1, <1>4 DEF QueuesUp, Drained
    <3>2. CASE Refuses(Head(queue), Tail(queue))
      BY <3>2, <2>1, <1>1 DEF Refuses
    <3>3. CASE Opens(Head(queue), Tail(queue))
      <4>1. Len(runs') = Len(runs) + 1
        BY <3>3, <2>1, RoundOpens DEF Opens
      <4>2. queue' = Tail(queue)
        BY <3>3 DEF Opens
      <4>3. Len(queue') = Len(queue) - 1
        BY <4>2, <2>1
      <4>. QED
        BY <4>1, <4>3, <1>1
    <3>. QED
      BY <1>4, <2>1, <3>1, <3>2, <3>3, QuestionSent DEF Drained
  <2>3. Len(runs') \in Nat /\ Len(queue') \in Nat
    BY RoundsTypedStep, LenProperties DEF RoundsTyped
  <2>4. gestures' = gestures /\ submitted' = submitted
    BY <1>4 DEF Drained
  <2>. QED
    BY <1>1, <1>2, <2>2, <2>3, <2>4 DEF Budgeted
<1>5. CASE Recovers
  <2>1. Len(runs') = Len(runs) + 1
    BY <1>5, RoundOpens, ClientAssumption DEF Recovers
  <2>. QED
    BY <1>1, <1>2, <1>5, <2>1 DEF Recovers, placing, Budgeted
<1>6. ASSUME NEW w \in DOMAIN runs, Works(w)
      PROVE  Budgeted'
  <2>1. PICK phase \in Phases, session \in SessionIds \cup {None} : Goes(w, phase, session)
    BY <1>6, WorkerGoes
  <2>2. Len(runs') = Len(runs)
    BY <1>6, <2>1, WorkerGoes, RoundGoes
  <2>. QED
    BY <1>1, <2>1, <2>2 DEF Goes, placing, Budgeted
<1>7. ASSUME NEW s \in SessionIds, ServiceProgress(s)
      PROVE  Budgeted'
  BY <1>1, <1>7 DEF ServiceProgress, roundVars, boundVars, Budgeted
<1>8. CASE Elsewhere
  BY <1>1, <1>2, <1>8 DEF Elsewhere, placing, Budgeted
<1>. QED
  BY <1>3, <1>4, <1>5, <1>6, <1>7, <1>8 DEF View

\* Every step keeps workers and sessions in agreement.
LEMMA SessionsStep ==
  ASSUME ClientInv, View
  PROVE  ServiceTyped' /\ Numbered' /\ SessionsMade' /\ DatabasesKept' /\ RoundsSettled'
<1>. DEFINE Moved == ServiceTyped' /\ Numbered' /\ SessionsMade' /\ DatabasesKept' /\ RoundsSettled'
<1>0. gestures \in 0..MaxGestures /\ faults \in Nat
  BY DEF ClientInv, ServiceTyped
<1>1. ASSUME NEW q \in Questions, NEW rest, StartQuery(q, rest),
             UNCHANGED <<status, sessionDb, gestures, faults>>
      PROVE  Moved
  <2>1. CASE QueuesUp(q, rest) \/ Refuses(q, rest)
    BY <1>0, <1>1, <2>1, NothingMoves DEF QueuesUp, Refuses
  <2>2. CASE Opens(q, rest)
    BY <1>1, <2>2, OpeningMoves, ClientAssumption DEF Opens
  <2>. QED
    BY <1>1, <2>1, <2>2, QuestionSent
<1>2. ASSUME NEW q \in Questions, Sent(q)
      PROVE  Moved
  BY <1>1, <1>2 DEF Sent
<1>3. CASE Drained
  <2>1. Head(queue) \in Questions
    BY <1>3, HeadTailProperties DEF Drained, ClientInv, RoundsTyped
  <2>. QED
    BY <1>1, <1>3, <2>1 DEF Drained
<1>4. CASE Recovers
  <2>1. gestures' \in 0..MaxGestures
    BY <1>0, <1>4, ClientAssumption DEF Recovers
  <2>. QED
    BY <1>4, <2>1, OpeningMoves, ClientAssumption DEF Recovers
<1>5. ASSUME NEW w \in DOMAIN runs, Works(w)
      PROVE  Moved
  BY <1>5, CreateMoves, RunMoves, TurnMoves DEF Works
<1>6. ASSUME NEW s \in SessionIds, ServiceProgress(s)
      PROVE  Moved
  BY <1>6, ServiceMoves
<1>7. CASE Elsewhere
  BY <1>7, NothingMoves DEF Elsewhere
<1>. QED
  BY <1>2, <1>3, <1>4, <1>5, <1>6, <1>7 DEF View

-----------------------------------------------------------------------------
\* The theorems.

\* A set without two elements has at most one.
LEMMA AtMostOne ==
  ASSUME NEW S, \A x, y \in S : x = y
  PROVE  Cardinality(S) = (IF S = {} THEN 0 ELSE 1) /\ Cardinality(S) <= 1
<1>1. CASE S = {}
  BY <1>1, FS_EmptySet
<1>2. CASE S # {}
  <2>1. PICK x : x \in S
    BY <1>2
  <2>2. S = {x}
    BY <2>1
  <2>3. Cardinality({x}) = 1
    BY FS_Singleton
  <2>. QED
    BY <1>2, <2>2, <2>3
<1>. QED
  BY <1>1, <1>2

\* The invariant holds when the client starts.
LEMMA ClientInvInit ==
  ASSUME Init
  PROVE  ClientInv
<1>1. RoundsTyped /\ OneAlive /\ QuestionsPlaced
  <2>1. runs = << >> /\ queue = << >> /\ queuedNotices = << >> /\ sendingNotices = << >>
    BY DEF Init
  <2>2. << >> \o << >> = << >>
    BY ConcatEmptySeq, EmptySeq
  <2>3. Ran = {} /\ Waiting = {}
    BY <2>1 DEF Ran, Waiting
  <2>4. /\ << >> \in Seq(Round) /\ << >> \in Seq(Questions)
        /\ DOMAIN runs = {} /\ DOMAIN queue = {}
    BY <2>1, EmptySeq
  <2>5. RoundsTyped
    BY <2>1, <2>4 DEF Init, RoundsTyped
  <2>6. OneAlive
    BY <2>4 DEF Init, OneAlive
  <2>7. QuestionsPlaced
    BY <2>1, <2>2, <2>3, <2>4 DEF Init, QuestionsPlaced
  <2>. QED
    BY <2>5, <2>6, <2>7
<1>2. ServiceTyped /\ Numbered /\ Budgeted
  <2>1. Cardinality(Questions) \in Nat /\ Cardinality({}) = 0
    BY ClientAssumption, FS_CardinalityType, FS_EmptySet
  <2>2. \A s \in SessionIds : s \in Nat /\ s > 0
    BY <2>1, ClientAssumption DEF SessionIds
  <2>3. Numbered
    BY <2>2 DEF Init, ServiceInit, Numbered, Creating
  <2>. QED
    BY <2>1, <2>3, ClientAssumption DEF Init, ServiceInit, ServiceTyped, Statuses, Budgeted
<1>3. SessionsMade /\ DatabasesKept /\ RoundsSettled
  BY DEF Init, ServiceInit, SessionsMade, DatabasesKept, RoundsSettled, Live
<1>. QED
  BY <1>1, <1>2, <1>3 DEF ClientInv

\* Every step keeps the invariant.
LEMMA ClientInvStep ==
  ASSUME ClientInv, [Next]_vars
  PROVE  ClientInv'
<1>1. View
  BY StepSeen
<1>. QED
  BY <1>1, RoundsTypedStep, PlacedStep, BudgetStep, SessionsStep DEF ClientInv

\* The coherence of flag, workers, queue and service sessions is an invariant,
\* for any number of questions, databases, gestures and failing requests.
THEOREM ClientCoherence == Spec => []ClientInv
<1>1. Init => ClientInv
  BY ClientInvInit
<1>2. ClientInv /\ [Next]_vars => ClientInv'
  BY ClientInvStep
<1>. QED
  BY <1>1, <1>2, PTL DEF Spec

\* The busy flag is set exactly while one agent worker is on its way, and never
\* two are (tui.py _start_query, _dispatch_command).
THEOREM RoundsOneAtATime == Spec => []OneRunAtATime
<1>1. ClientInv => OneRunAtATime
  <2>. SUFFICES ASSUME ClientInv PROVE OneRunAtATime
    OBVIOUS
  <2>. DEFINE alive == {w \in DOMAIN runs : Alive(w)}
  <2>1. \A v, w \in alive : v = w
    BY DEF ClientInv, OneAlive
  <2>2. Cardinality(alive) <= 1
    <3>. HIDE DEF alive
    <3>. QED
      BY <2>1, AtMostOne
  <2>. QED
    BY <2>2 DEF ClientInv, OneAlive, OneRunAtATime
<1>. QED
  BY <1>1, ClientCoherence, PTL

\* Every question that was sent waits, was refused or ran, once, and the waiting
\* ones leave the queue in their order (tui.py _start_query, _drain_message_queue).
THEOREM QuestionsAccounted == Spec => []EveryQuestionAccounted
<1>1. ClientInv => EveryQuestionAccounted
  <2>. SUFFICES ASSUME ClientInv, NEW q \in submitted
                PROVE  Occurrences(q) = 1
    BY DEF EveryQuestionAccounted, ClientInv, QuestionsPlaced
  <2>. DEFINE ran == {w \in DOMAIN runs : runs[w].question = q}
              waits == {i \in DOMAIN queue : queue[i] = q}
  <2>1. q \in Questions
    BY DEF ClientInv, RoundsTyped
  <2>2. (q \in Ran <=> ran # {}) /\ (q \in Waiting <=> waits # {})
    BY <2>1 DEF Ran, Waiting
  <2>3. (\A v, w \in ran : v = w) /\ (\A i, j \in waits : i = j)
    BY <2>1 DEF ClientInv, QuestionsPlaced
  <2>4. /\ Cardinality(ran) = IF q \in Ran THEN 1 ELSE 0
        /\ Cardinality(waits) = IF q \in Waiting THEN 1 ELSE 0
    <3>. HIDE DEF ran, waits
    <3>. QED
      BY <2>2, <2>3, AtMostOne
  <2>. QED
    BY <2>4 DEF Occurrences, ClientInv, QuestionsPlaced
<1>. QED
  BY <1>1, ClientCoherence, PTL

\* Unless the user selects one in between, a session is created on the database
\* that was announced for its question (tui.py run_query).
THEOREM DatabaseAsAnnounced == Spec => []QuestionKeepsItsDatabase
<1>1. ClientInv => QuestionKeepsItsDatabase
  BY DEF ClientInv, DatabasesKept, QuestionKeepsItsDatabase
<1>. QED
  BY <1>1, ClientCoherence, PTL

\* Unless a request failed, this terminal has at most one unsettled session at the
\* service, and the verdicts it showed are final (tui.py _execute_session).
THEOREM RoundsSettle == Spec => []RoundsDoNotOverlap
<1>1. ClientInv => RoundsDoNotOverlap
  <2>. SUFFICES ASSUME ClientInv, faults = 0
                PROVE  RoundsDoNotOverlap
    BY DEF RoundsDoNotOverlap
  <2>. DEFINE unsettled == {s \in SessionIds : status[s] \in Live \cup {"created"}}
  <2>1. \A r, s \in unsettled : r = s
    BY DEF ClientInv, RoundsSettled, OneAlive
  <2>2. Cardinality(unsettled) <= 1
    <3>. HIDE DEF unsettled
    <3>. QED
      BY <2>1, AtMostOne
  <2>. QED
    BY <2>2 DEF RoundsDoNotOverlap, ClientInv, RoundsSettled
<1>. QED
  BY <1>1, ClientCoherence, PTL

=============================================================================
