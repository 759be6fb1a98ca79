------------------------------ MODULE Watchdog ------------------------------
(***************************************************************************)
(* What the plugin host promises to its agents, with no list and no        *)
(* cursor.  agent.h gives the contract: a registered agent is "invoked to  *)
(* check if the module still runs", an error it throws becomes the last    *)
(* error of the host, and "if check returns false, the listener will be    *)
(* destroyed".                                                             *)
(*                                                                         *)
(* The host works in sweeps.  `pending` holds the agents whose turn is     *)
(* still to come in the current sweep; a turn is given to any of them.     *)
(* Destroying an agent starts a new sweep over those that remain.          *)
(***************************************************************************)
EXTENDS Naturals

CONSTANTS
  N,         \* number of agents the configuration asks for
  Messages,  \* texts an agent can throw
  Seconds    \* wall-clock seconds an error can be stamped with

VARIABLES
  registered,  \* agents that have been added and not destroyed
  pending,     \* agents whose turn is still to come in this sweep
  phase,       \* "load", "watch" or "exited"
  lastError    \* the last error thrown by a check, or NoError

vars == <<registered, pending, phase, lastError>>

Agents == 1..N
NoError == [message |-> "", timestamp |-> 0]

Init ==
  /\ registered = {}
  /\ pending = {}
  /\ phase = "load"
  /\ lastError = NoError

Register(a) ==
  /\ phase = "load"
  /\ a \notin registered
  /\ registered' = registered \cup {a}
  /\ UNCHANGED <<pending, phase, lastError>>

Abort ==
  /\ phase = "load"
  /\ phase' = "exited"
  /\ UNCHANGED <<registered, pending, lastError>>

\* A sweep over the agents in S; the host has nothing to do for none.
NewSweep(S) ==
  /\ pending' = S
  /\ phase' = IF S = {} THEN "exited" ELSE "watch"

Start ==
  /\ phase = "load"
  /\ NewSweep(registered)
  /\ UNCHANGED <<registered, lastError>>

\* The turn of agent a is over and it stays registered.
EndTurn(a) ==
  /\ phase = "watch"
  /\ a \in pending
  /\ pending' = IF pending = {a} THEN registered ELSE pending \ {a}
  /\ UNCHANGED <<registered, phase>>

FoundAlive(a) == EndTurn(a) /\ UNCHANGED lastError

Threw(a, m, t) ==
  /\ EndTurn(a)
  /\ lastError' = [message |-> m, timestamp |-> t]

Destroy(a) ==
  /\ phase = "watch"
  /\ a \in pending
  /\ registered' = registered \ {a}
  /\ NewSweep(registered \ {a})
  /\ UNCHANGED lastError

Next ==
  \/ \E a \in Agents : Register(a) \/ FoundAlive(a) \/ Destroy(a)
  \/ \E a \in Agents, m \in Messages, t \in Seconds : Threw(a, m, t)
  \/ Abort
  \/ Start

SafeSpec == Init /\ [][Next]_vars

=============================================================================
