-------------------------- MODULE MCTerminalClient --------------------------
(* Model for the runs of TerminalClient: one question without a database
   path, one that refers to the database that is not selected, and one that
   refers to both and is refused. *)
EXTENDS TerminalClient
CONSTANTS plain, other, both, d1, d2
MCRefers == [q \in Questions |-> CASE q = plain -> {} [] q = other -> {d2} [] OTHER -> {d1, d2}]
=============================================================================
