------------------------------ MODULE MCTmuxTurn ------------------------------
(***************************************************************************)
(* TmuxTurn for TLC: threads and texts are interchangeable.                *)
(***************************************************************************)
EXTENDS TmuxTurn, TLC

Symmetry == Permutations(Threads) \cup Permutations(Texts)
=============================================================================
