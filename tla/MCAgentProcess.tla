--------------------------- MODULE MCAgentProcess ---------------------------
(***************************************************************************)
(* A process with the MqttAgent between a worker that is checked after it  *)
(* and a worker and a TempAgent that are checked before it: agents end on  *)
(* both sides of it, and errors arise on both sides of it.                 *)
(***************************************************************************)
EXTENDS AgentProcess

Four == <<"worker", "mqtt", "worker", "temp">>
=============================================================================
