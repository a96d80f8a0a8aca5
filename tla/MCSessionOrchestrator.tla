----------------------- MODULE MCSessionOrchestrator -----------------------
(* Model values for the runs of SessionOrchestrator. *)
EXTENDS SessionOrchestrator, TLC

\* Sessions are interchangeable: no action or invariant names one of them.
Symmetry == Permutations(Sessions)
=============================================================================
