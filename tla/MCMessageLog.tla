----------------------------- MODULE MCMessageLog -----------------------------
(***************************************************************************)
(* Model-checking instances of MessageLog.                                *)
(***************************************************************************)
EXTENDS MessageLog

Symmetry == Permutations(Threads)
=============================================================================
