--------------------------- MODULE MCDeliveryBoard ---------------------------
(***************************************************************************)
(* Model-checking instances of DeliveryBoard.                              *)
(***************************************************************************)
EXTENDS DeliveryBoard

CONSTANTS a1, a2

\* No mention, or one agent.
MCMentions == {{}, {a2}}
=============================================================================
