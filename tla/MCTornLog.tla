------------------------------ MODULE MCTornLog ------------------------------
(***************************************************************************)
(* Model-checking instances of TornLog.                                    *)
(***************************************************************************)
EXTENDS TornLog

Symmetry == Permutations(Threads)
=============================================================================
