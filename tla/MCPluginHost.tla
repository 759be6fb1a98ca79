---------------------------- MODULE MCPluginHost ----------------------------
(***************************************************************************)
(* A host with four configured modules.  Four is the least number for      *)
(* which an agent can be removed from the head, the middle and the end of  *)
(* a list that stays longer than one.                                      *)
(***************************************************************************)
EXTENDS PluginHost
=============================================================================
