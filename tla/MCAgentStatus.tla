---------------------------- MODULE MCAgentStatus ----------------------------
(***************************************************************************)
(* Model-checking instances of AgentStatus.                                *)
(***************************************************************************)
EXTENDS AgentStatus

CONSTANTS a1, a2

\* Messages to one agent, and to both.
MCLists == {<<a1>>, <<a1, a2>>}
=============================================================================
