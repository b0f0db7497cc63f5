-------------------------- MODULE MCReminderProcess --------------------------
(***************************************************************************)
(* Model-checking instances of ReminderProcess.                            *)
(***************************************************************************)
EXTENDS ReminderProcess

Symmetry == Permutations(Threads)
=============================================================================
