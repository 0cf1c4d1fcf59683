--------------------------- MODULE MCAgentFleet ---------------------------
(* Two dated steps, the first with two calls, and one without a date.      *)
EXTENDS AgentFleet, TLC
MCNumCalls == (1 :> 2) @@ (2 :> 1) @@ (3 :> 1)
MCUndated == {3}
============================================================================
