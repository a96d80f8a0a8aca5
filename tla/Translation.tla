----------------------------- MODULE Translation -----------------------------
(***************************************************************************)
(* The Chinese-to-English translator of questions (service/translation.py):  *)
(* requests run in worker threads, one at a time under a lock; the model is   *)
(* loaded by the first that needs it and loading may fail half way.  What a   *)
(* question says is abstracted to its protected literals in their order and   *)
(* to whether anything else in it is Chinese; the language model may drop,    *)
(* change or repeat a placeholder, answer nothing, or leave Chinese text.     *)
(* A literal is told apart by how it ends and by the placeholders its own      *)
(* text spells: SQL and text in backquotes may hold anything.                  *)
(***************************************************************************)
EXTENDS Naturals, Sequences, FiniteSets, SequencesExt

CONSTANTS
  Requests,
  Literals,      \* SQL, paths, identifiers, numbers
  EndQuoted,     \* those that end with a double quote, as SQL may
  Spells,        \* the numbers of the placeholders that stand in a literal's text
  MaxLiterals,   \* bound: literals in one question
  None,
  MaxLoadFailures

TranslationAssumption ==
  EndQuoted \subseteq Literals /\ Spells \in [Literals -> SUBSET Nat] /\ MaxLiterals \in Nat

VARIABLES
  text, locale,  \* the question of each request: [literals, chinese]
  phase, answer, \* of each request; answer: [applied, standing]
  holder,        \* who holds _lock
  tokenizer, model,         \* loaded parts
  loadFailures

translationVars == <<text, locale, phase, answer, holder, tokenizer, model, loadFailures>>

Questions == [literals : SeqOf(Literals, MaxLiterals), chinese : BOOLEAN]

Init ==
  /\ text \in [Requests -> Questions]
  /\ locale \in [Requests -> {"zh-CN", "en-US"}]
  /\ phase = [r \in Requests |-> "asked"]
  /\ answer = [r \in Requests |-> None]
  /\ holder = None
  /\ tokenizer = FALSE /\ model = FALSE /\ loadFailures = 0

loaded == tokenizer /\ model
Moves(r, from, to) == phase[r] = from /\ phase' = [phase EXCEPT ![r] = to]

\* A literal stands in an answer where its placeholder stood: the path leads to it
\* through the literals that hold the placeholder, the copy tells repetitions apart.
Plainly(literals) == {[path |-> <<i>>, copy |-> 1] : i \in DOMAIN literals}

\* translate: English questions, and questions of another locale, pass as they are.
PassesThrough(r) ==
  /\ Moves(r, "asked", "answered")
  /\ locale[r] # "zh-CN" \/ ~text[r].chinese
  /\ answer' = [answer EXCEPT ![r] = [applied |-> FALSE, standing |-> Plainly(text[r].literals)]]
  /\ UNCHANGED <<text, locale, holder, tokenizer, model, loadFailures>>

\* asyncio.to_thread(_translate_sync): wait for the lock.
Locks(r) ==
  /\ Moves(r, "asked", "loading")
  /\ locale[r] = "zh-CN" /\ text[r].chinese
  /\ holder = None /\ holder' = r
  /\ UNCHANGED <<text, locale, answer, tokenizer, model, loadFailures>>

\* _load: the tokenizer, then the weights; a failure leaves what was loaded.
Load(r) ==
  /\ phase[r] = "loading" /\ holder = r
  /\ \/ loaded /\ Moves(r, "loading", "generating") /\ UNCHANGED <<holder, tokenizer, model, loadFailures>>
     \/ /\ ~loaded
        /\ tokenizer' = TRUE /\ model' = TRUE
        /\ Moves(r, "loading", "generating") /\ UNCHANGED <<holder, loadFailures>>
     \/ /\ ~loaded /\ loadFailures < MaxLoadFailures
        /\ loadFailures' = loadFailures + 1
        /\ tokenizer' \in {tokenizer, TRUE}
        /\ Moves(r, "loading", "refused") /\ holder' = None
        /\ UNCHANGED model
  /\ UNCHANGED <<text, locale, answer>>

\* What the model may write: each placeholder 0, 1 or 2 times, one of them at the
\* end perhaps (the order is not kept otherwise), some Chinese, or nothing at all.
Drafts(n) == [count : [1..n -> 0..2], last : 0..n, chinese : BOOLEAN, blank : BOOLEAN]

\* _translate_sync after the generation: every placeholder exactly once.
CompleteOrRepeated(draft) == \A i \in DOMAIN draft.count : draft.count[i] >= 1
Complete(draft) == \A i \in DOMAIN draft.count : draft.count[i] = 1

\* The placeholders are replaced one after the other, so that a later one is
\* replaced within an earlier literal too: that literal is spoilt, and the later one
\* stands within it.
SpeltLater(literals, i) == {j \in Spells[literals[i]] \cap DOMAIN literals : i < j}
Paths(literals) ==
  {path \in SeqOf(DOMAIN literals, Len(literals)) \ {<<>>} :
     \A k \in 1..(Len(path) - 1) : path[k + 1] \in SpeltLater(literals, path[k])}
Replaced(literals, draft) ==
  {place \in [path : Paths(literals), copy : 1..2] :
     /\ place.copy <= draft.count[Head(place.path)]
     /\ SpeltLater(literals, Last(place.path)) = {}}

\* Then quotes are stripped from both ends of the answer.
Stripped(literals, draft) ==
  {[path |-> <<i>>, copy |-> draft.count[i]] :
     i \in {k \in DOMAIN literals : k = draft.last /\ literals[k] \in EndQuoted}}

\* Where the literals stand as the user wrote them.
Restored(literals, draft) == Replaced(literals, draft) \ Stripped(literals, draft)

Generates(r) ==
  /\ phase[r] = "generating" /\ holder = r
  /\ \E draft \in Drafts(Len(text[r].literals)) :
       \/ /\ Complete(draft)
          /\ ~draft.chinese /\ ~(draft.blank /\ text[r].literals = <<>>)
          /\ answer' = [answer EXCEPT ![r] = [applied |-> TRUE, standing |-> Restored(text[r].literals, draft)]]
          /\ Moves(r, "generating", "answered")
       \/ /\ ~Complete(draft) \/ draft.chinese \/ (draft.blank /\ text[r].literals = <<>>)
          /\ Moves(r, "generating", "refused")
          /\ UNCHANGED answer
  /\ holder' = None
  /\ UNCHANGED <<text, locale, tokenizer, model, loadFailures>>

Next == \E r \in Requests : PassesThrough(r) \/ Locks(r) \/ Load(r) \/ Generates(r)

Spec == Init /\ [][Next]_translationVars

-----------------------------------------------------------------------------
Stands(r, i) == {place \in answer[r].standing : Last(place.path) = i}

\* The translator answers, or fails rather than omit, change or repeat a protected
\* literal, whatever the language model does with the placeholders: each literal of
\* the question stands in an answer once, as the user wrote it.  That is when none
\* spells the placeholder of a later one, and but for one of those that end with a
\* double quote, which may have lost it (translation.py _translate_sync).
LiteralsSurvive ==
  \A r \in Requests :
    phase[r] = "answered" /\ (\A i \in DOMAIN text[r].literals : SpeltLater(text[r].literals, i) = {}) =>
      \E cut \in 0..Len(text[r].literals) :
        \A i \in DOMAIN text[r].literals :
          Cardinality(Stands(r, i)) = IF i = cut /\ text[r].literals[i] \in EndQuoted THEN 0 ELSE 1
=============================================================================
