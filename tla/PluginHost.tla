----------------------------- MODULE PluginHost -----------------------------
(***************************************************************************)
(* The host process seen from its main thread: main() loads one plugin per *)
(* configured module, PluginImpl::addAgent links the agent each of them    *)
(* creates into the intrusive list `listeners`, and PluginImpl::mainLoop   *)
(* walks that list for ever, calling check() and deleting the agents that  *)
(* answer false.  What check() answers is left open here; AgentProcess     *)
(* ties it to the agents.                                                  *)
(*                                                                         *)
(* An agent is named by the position of its plugin in the configuration,   *)
(* 1..N, and 0 is the null pointer.  addAgent links at the head, so a      *)
(* pointer always leads to a smaller number; the list invariant below is   *)
(* stated with that order instead of with reachability.                    *)
(***************************************************************************)
EXTENDS Naturals, FiniteSets

CONSTANTS
  N,         \* number of agents the configuration asks for
  Messages,  \* texts an agent can throw
  Seconds    \* wall-clock seconds an error can be stamped with

ASSUME HostAssumption == N \in Nat /\ Seconds \subseteq Nat

VARIABLES
  loaded,     \* how many plugins main() has initialised
  listeners,  \* PluginImpl::listeners, the head of the list
  next,       \* Agent::next of every agent
  live,       \* agents that are allocated
  it, prev,   \* the two cursors of mainLoop
  pc,         \* where the main thread is
  lastError   \* lastErrorMessage and lastErrorTimestamp

vars == <<loaded, listeners, next, live, it, prev, pc, lastError>>

Agents == 1..N
Null == 0
NoError == [message |-> "", timestamp |-> 0]

TypeOK ==
  /\ loaded \in 0..N
  /\ listeners \in Agents \cup {Null}
  /\ next \in [Agents -> Agents \cup {Null}]
  /\ live \subseteq Agents
  /\ it \in Agents \cup {Null}
  /\ prev \in Agents \cup {Null}
  /\ pc \in {"load", "check", "delete", "exited"}
  /\ lastError \in [message : Messages, timestamp : Seconds] \cup {NoError}

Init ==
  /\ loaded = 0
  /\ listeners = Null
  /\ next = [a \in Agents |-> Null]
  /\ live = {}
  /\ it = Null
  /\ prev = Null
  /\ pc = "load"
  /\ lastError = NoError

-----------------------------------------------------------------------------
(* main(): one initialiser per configured module *)

\* addAgent() links at the head.
AddAgent(a) ==
  /\ next' = [next EXCEPT ![a] = listeners]
  /\ listeners' = a

\* Slip: the option loop runs once too often.
Load_OneTooMany ==
  /\ pc = "load"
  /\ loaded' = loaded + 1
  /\ AddAgent(loaded + 1)
  /\ live' = live \cup {loaded + 1}
  /\ UNCHANGED <<it, prev, pc, lastError>>

\* The initialiser of the next plugin returned 0 after adding its agent.
Load ==
  /\ pc = "load"
  /\ loaded < N
  /\ loaded' = loaded + 1
  /\ AddAgent(loaded + 1)
  /\ live' = live \cup {loaded + 1}
  /\ UNCHANGED <<it, prev, pc, lastError>>

\* dlopen, dlsym or the initialiser failed: main() returns its code at once,
\* the agents already added stay where they are.
LoadFails ==
  /\ pc = "load"
  /\ loaded < N
  /\ pc' = "exited"
  /\ UNCHANGED <<loaded, listeners, next, live, it, prev, lastError>>

\* Slip: a removal restarts the walk but keeps the old predecessor.
RestartAt_KeepPrev(head) ==
  /\ it' = head
  /\ prev' = prev
  /\ pc' = IF head = Null THEN "exited" ELSE "check"

\* The loop header, entered from main() and again after a removal.
RestartAt(head) ==
  /\ it' = head
  /\ prev' = Null
  /\ pc' = IF head = Null THEN "exited" ELSE "check"

EnterLoop ==
  /\ pc = "load"
  /\ loaded = N
  /\ RestartAt(listeners)
  /\ UNCHANGED <<loaded, listeners, next, live, lastError>>

-----------------------------------------------------------------------------
(* mainLoop(): one turn of the agent under the cursor *)

\* The cursors move to the next agent, or back to the head after the last.
Advance ==
  /\ prev' = IF next[it] = Null THEN Null ELSE it
  /\ it' = IF next[it] = Null THEN listeners ELSE next[it]
  /\ UNCHANGED <<loaded, listeners, next, live, pc>>

CheckAlive ==
  /\ pc = "check"
  /\ Advance
  /\ UNCHANGED lastError

\* Slip: the handler leaves the iteration without moving the cursor.
CheckThrows_Continue(m, t) ==
  /\ pc = "check"
  /\ lastError' = [message |-> m, timestamp |-> t]
  /\ UNCHANGED <<loaded, listeners, next, live, it, prev, pc>>

CheckThrows(m, t) ==
  /\ pc = "check"
  /\ Advance
  /\ lastError' = [message |-> m, timestamp |-> t]

\* Slip: every removal is treated as a removal from the head.
CheckDead_AlwaysHead ==
  /\ pc = "check"
  /\ listeners' = next[it]
  /\ pc' = "delete"
  /\ UNCHANGED <<loaded, next, live, it, prev, lastError>>

\* check() returned false: the agent is taken out of the list ...
CheckDead ==
  /\ pc = "check"
  /\ IF prev # Null
     THEN next' = [next EXCEPT ![prev] = next[it]] /\ UNCHANGED listeners
     ELSE listeners' = next[it] /\ UNCHANGED next
  /\ pc' = "delete"
  /\ UNCHANGED <<loaded, live, it, prev, lastError>>

\* ... and deleted once its destructor has returned; the walk starts over.
Delete ==
  /\ pc = "delete"
  /\ live' = live \ {it}
  /\ RestartAt(listeners)
  /\ UNCHANGED <<loaded, listeners, next, lastError>>

Next ==
  \/ Load \/ LoadFails \/ EnterLoop
  \/ CheckAlive \/ CheckDead \/ Delete
  \/ \E m \in Messages, t \in Seconds : CheckThrows(m, t)

Spec == Init /\ [][Next]_vars /\ WF_vars(Next)

-----------------------------------------------------------------------------
(* Safety *)

\* The agents the list must hold: the one being deleted is already unlinked.
Linked == IF pc = "delete" THEN live \ {it} ELSE live

\* p is the largest agent of S smaller than b, or null when there is none.
IsBelow(p, b, S) ==
  /\ p \in S \cup {Null}
  /\ p < b
  /\ \A a \in S : a < b => a <= p

(* The list links every allocated agent to the one added just before it    *)
(* that is still there, starting at the newest: it is acyclic, skips no    *)
(* agent, and reaches no agent that has been deleted.  This is what the    *)
(* two ways of unlinking in mainLoop must keep.                            *)
ListInv ==
  /\ live \subseteq 1..loaded
  /\ \A a \in Linked : IsBelow(next[a], a, Linked)
  /\ IsBelow(listeners, N + 1, Linked)

(* mainLoop dereferences `it` and `prev` only while they point to          *)
(* allocated agents, and `prev` is the agent whose `next` leads to `it`:   *)
(* a stale `prev` would unlink the wrong agent or write into freed memory. *)
CursorInv ==
  /\ pc = "check" => it \in live
  /\ pc = "delete" => it \in live
  /\ pc = "check" /\ prev = Null => it = listeners
  /\ pc = "check" /\ prev # Null => prev \in live /\ next[prev] = it
  /\ pc = "load" => live = 1..loaded

Inv == TypeOK /\ ListInv /\ CursorInv

\* The agents met by following `next` from the head, which is the smallest
\* set that holds the head and what its members lead to.
Walk ==
  LET closed(S) == /\ listeners # Null => listeners \in S
                   /\ \A a \in S : next[a] # Null => next[a] \in S
  IN  {a \in Agents : \A S \in SUBSET Agents : closed(S) => a \in S}

(* reportState() counts the agents by walking the list: the count is the   *)
(* number of agents that have not been destroyed, whatever the order in    *)
(* which agents died.                                                      *)
WalkIsLive == Walk = Linked

-----------------------------------------------------------------------------
(* Refinement and liveness *)

\* The agents still to come in a sweep are those at or below the cursor.
Pending == IF pc \in {"check", "delete"} THEN {a \in live : a <= it} ELSE {}
Phase == IF pc \in {"check", "delete"} THEN "watch" ELSE pc

W == INSTANCE Watchdog WITH
       registered <- live, pending <- Pending, phase <- Phase

(* Walking the list with two cursors implements the sweeps of Watchdog:    *)
(* between two turns of one agent every other registered agent has a turn, *)
(* unless a removal starts a new sweep, and only an agent whose check()    *)
(* returned false is destroyed.                                            *)
ImplementsWatchdog == W!SafeSpec

(* mainLoop comes back to every agent that stays registered: neither       *)
(* errors thrown by other agents nor the restart after a removal let one   *)
(* starve.                                                                 *)
EveryAgentChecked ==
  \A a \in Agents :
    a \in live ~> (pc = "check" /\ it = a) \/ a \notin live \/ pc = "exited"

=============================================================================
