------------------------------ MODULE MCHandoff ------------------------------
(***************************************************************************)
(* Model-checking instances of Handoff.                                    *)
(***************************************************************************)
EXTENDS Handoff

CONSTANTS a1, a2

\* No mention, each agent by name, and @all.
MCMentions == {{}, {a1}, {a2}, {All}}
=============================================================================
