--------------------------- MODULE ValidatedSubmit ---------------------------
(***************************************************************************)
(* The result-contract controller (controllers/validated_submit.py,           *)
(* find_contract_validated_submission) over a trajectory that grows by one    *)
(* event at a time.                                                           *)
(***************************************************************************)
EXTENDS Integers, Sequences, FiniteSets, FiniteSetsExt

CONSTANTS MaxEvents

VARIABLES
  trajectory,
  contract     \* the row's metadata: complete, no fingerprint, no database, a diff that fails

controllerVars == <<trajectory, contract>>

\* An execution names its query, how its statement reads, whether it ran, and
\* whether running it again on a fresh copy reproduces the fingerprint.
Events ==
  [tool : {"inspect_schema_diff"}, error : BOOLEAN]
    \cup [tool : {"execute_sql"}, sql : {"q1", "q2"}, readOnly : BOOLEAN, ran : BOOLEAN]
    \cup {[tool |-> "get_schema"]}

Reproduces(sql) == sql = "q1"

Init ==
  /\ trajectory = <<>>
  /\ contract \in {"complete", "no fingerprint", "no database", "diff fails"}

Refuse(reason) == [accepted |-> FALSE, reason |-> reason, at |-> 0]

DiffIndices(t) == {k \in DOMAIN t : t[k].tool = "inspect_schema_diff" /\ ~t[k].error}
LastDiff(t) == Max(DiffIndices(t))
FirstDiff(t) == Min(DiffIndices(t))

\* Executions after the first audited diff.
CandidateIndices(t) == {k \in DOMAIN t : k > FirstDiff(t) /\ t[k].tool = "execute_sql"}
Unsafe(t) == {k \in CandidateIndices(t) : ~t[k].readOnly}
Ran(t) == {k \in CandidateIndices(t) : t[k].readOnly /\ t[k].ran}
Matching(t) == {k \in Ran(t) : Reproduces(t[k].sql)}

\* The loop over the candidates stops at the first unsafe one or the first match.
Decision(t) ==
  IF contract = "no fingerprint" THEN Refuse("missing_result_contract")
  ELSE IF contract = "no database" THEN Refuse("missing_database_or_schema_diff")
  ELSE IF DiffIndices(t) = {} THEN Refuse("schema_diff_not_inspected")
  ELSE IF CandidateIndices(t) = {} THEN Refuse("no_safe_successful_post_diff_execution")
  ELSE IF contract = "diff fails" THEN Refuse("materialization_failed")
  ELSE LET stops == Unsafe(t) \cup Matching(t)
       IN IF stops # {}
          THEN IF Min(stops) \in Unsafe(t) THEN Refuse("unsafe_post_diff_candidate")
               ELSE [accepted |-> TRUE, reason |-> "contract_validated", at |-> Min(stops)]
          ELSE IF Ran(t) = {} THEN Refuse("no_safe_successful_post_diff_execution")
          ELSE Refuse("result_contract_mismatch")

Grow ==
  /\ Len(trajectory) < MaxEvents
  /\ \E event \in Events : trajectory' = Append(trajectory, event)
  /\ UNCHANGED contract

Next == Grow

Spec == Init /\ [][Next]_controllerVars

\* "the online controller would already have terminated successfully": what is
\* accepted or found unsafe at some point of a trajectory is decided alike,
\* with the same query, on everything that follows, repeated diffs and later
\* unsafe statements included.
DecisionStands ==
  [][LET before == Decision(trajectory)
     IN before.accepted \/ before.reason = "unsafe_post_diff_candidate"
          => Decision(trajectory)' = before]_controllerVars
=============================================================================
