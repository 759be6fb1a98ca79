---------------------------- MODULE MCExecAgent ----------------------------
(***************************************************************************)
(* An ExecAgent that runs at most three commands: one whose output is      *)
(* being taken, one that overwrites it and one that is still running when  *)
(* the agent is destroyed.                                                 *)
(***************************************************************************)
EXTENDS ExecAgent
=============================================================================
