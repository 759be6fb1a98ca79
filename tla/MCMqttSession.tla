--------------------------- MODULE MCMqttSession ---------------------------
(***************************************************************************)
(* A session with few reports, one more of them than may be in flight.     *)
(***************************************************************************)
EXTENDS MqttSession
=============================================================================
