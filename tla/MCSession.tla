----------------------------- MODULE MCSession -----------------------------
EXTENDS Session

(* Many callbacks; all faults; many pings; a second connection: each with as
   little of the others as the properties need. *)
MCBudgets == {
  [blocks |-> 3, sizes |-> {1, 2, 3}, pings |-> 0, conns |-> 1, faults |-> {}],
  [blocks |-> 1, sizes |-> {2}, pings |-> 1, conns |-> 1,
   faults |-> {"start", "break", "quit"}],
  [blocks |-> 0, sizes |-> {}, pings |-> 2, conns |-> 1, faults |-> {"quit"}],
  [blocks |-> 2, sizes |-> {2}, pings |-> 0, conns |-> 1, faults |-> {"timeout"}],
  [blocks |-> 1, sizes |-> {2}, pings |-> 0, conns |-> 2, faults |-> {}]}
=============================================================================
