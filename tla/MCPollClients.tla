---------------------------- MODULE MCPollClients ----------------------------
(***************************************************************************)
(* Model-checking instances of PollClients.                                *)
(***************************************************************************)
EXTENDS PollClients

Symmetry == Permutations(Threads)
=============================================================================
