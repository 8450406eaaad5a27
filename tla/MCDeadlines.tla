---------------------------- MODULE MCDeadlines ----------------------------
(***************************************************************************)
(* Deadlines with the limits of the program, in units of 2.5 seconds.      *)
(***************************************************************************)
EXTENDS Deadlines
=============================================================================
