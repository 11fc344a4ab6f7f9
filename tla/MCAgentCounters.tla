--------------------------- MODULE MCAgentCounters ---------------------------
(* Half ticks; a budget of three of them per unit of time, of which the busy *)
(* fields take one or two.                                                   *)
EXTENDS AgentCounters

MCBusyRates == {1, 2}
==============================================================================
