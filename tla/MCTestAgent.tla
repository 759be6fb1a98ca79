---------------------------- MODULE MCTestAgent ----------------------------
(***************************************************************************)
(* A TestAgent with the five iterations of the code: enough for a failure  *)
(* that is thrown, one that overtakes it in check() and one in the last    *)
(* iteration.                                                              *)
(***************************************************************************)
EXTENDS TestAgent
=============================================================================
