---------------------------- MODULE MCEventStream ----------------------------
(* Model for the runs of EventStream. *)
EXTENDS EventStream
=============================================================================
