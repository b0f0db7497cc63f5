-------------------------- MODULE MCDuplicateWindow --------------------------
(***************************************************************************)
(* Model-checking instances of DuplicateWindow.                            *)
(***************************************************************************)
EXTENDS DuplicateWindow

Symmetry == Permutations(Threads)
=============================================================================
