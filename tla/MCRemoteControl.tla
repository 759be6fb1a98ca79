-------------------------- MODULE MCRemoteControl --------------------------
(***************************************************************************)
(* Small fleets: one agent for each of two users, or two agents that share *)
(* a user and its configuration file.                                      *)
(***************************************************************************)
EXTENDS RemoteControl

OneEach == <<"u1", "u2">>
TwoOfOne == <<"u1", "u1">>
=============================================================================
