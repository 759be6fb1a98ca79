-------------------------- MODULE PluginHostProofs --------------------------
(***************************************************************************)
(* Theorems about PluginHost for every number of agents N, every set of    *)
(* messages and every set of seconds.                                      *)
(*                                                                         *)
(* Inv, the conjunction of the type, list and cursor invariants, is        *)
(* inductive: it is preserved action by action below, and the refinement   *)
(* of Watchdog follows from it.                                            *)
(***************************************************************************)
EXTENDS PluginHost, TLAPS, WellFoundedInduction

LEMMA InitInv == Init => Inv
BY HostAssumption
   DEF Init, Inv, TypeOK, ListInv, CursorInv, Linked, IsBelow, Agents, Null

-----------------------------------------------------------------------------

LEMMA LoadInv == Inv /\ Load => Inv'
<1> SUFFICES ASSUME Inv, Load PROVE Inv'
  OBVIOUS
<1> USE HostAssumption DEF Inv, Agents, Null
<1>1. TypeOK'
  BY DEF TypeOK, Load, AddAgent
<1>2. ListInv'
  BY DEF TypeOK, ListInv, CursorInv, Load, AddAgent, Linked, IsBelow
<1>3. CursorInv'
  BY DEF TypeOK, CursorInv, Load, AddAgent
<1>4. QED
  BY <1>1, <1>2, <1>3

LEMMA EnterLoopInv == Inv /\ EnterLoop => Inv'
<1> SUFFICES ASSUME Inv, EnterLoop PROVE Inv'
  OBVIOUS
<1> USE HostAssumption DEF Inv, Agents, Null, EnterLoop, RestartAt
<1>1. TypeOK'
  BY DEF TypeOK
<1>2. ListInv'
  BY DEF TypeOK, ListInv, Linked, IsBelow
<1>3. CursorInv'
  BY DEF TypeOK, ListInv, CursorInv, Linked, IsBelow
<1>4. QED
  BY <1>1, <1>2, <1>3

(* Moving the cursor keeps the invariant whatever happens to lastError:    *)
(* both ends of a turn that leaves the agent in the list rest on this.     *)
LEMMA AdvanceInv ==
  ASSUME Inv, pc = "check", Advance,
         lastError' \in [message : Messages, timestamp : Seconds] \cup {NoError}
  PROVE  Inv'
<1> USE HostAssumption DEF Inv, Agents, Null, Advance
<1>1. TypeOK'
  BY DEF TypeOK, CursorInv
<1>2. ListInv'
  BY DEF TypeOK, ListInv, Linked, IsBelow
<1>3. CursorInv'
  BY DEF TypeOK, ListInv, CursorInv, Linked, IsBelow
<1>4. QED
  BY <1>1, <1>2, <1>3

(* Unlinking. A removal in the middle hands next[it] to the predecessor,   *)
(* which by the list invariant is the only agent between the two.          *)
LEMMA CheckDeadInv == Inv /\ CheckDead => Inv'
<1> SUFFICES ASSUME Inv, CheckDead PROVE Inv'
  OBVIOUS
<1> USE HostAssumption DEF Inv, Agents, Null
<1>1. TypeOK'
  BY DEF TypeOK, CheckDead, CursorInv
<1>2. ListInv'
  <2>1. Linked = live /\ Linked' = live \ {it} /\ live' = live /\ loaded' = loaded
    BY DEF CheckDead, Linked
  <2>2. it \in live /\ IsBelow(next[it], it, live)
    BY <2>1 DEF CheckDead, CursorInv, ListInv
  <2>3. CASE prev = Null
    <3>1. listeners = it /\ listeners' = next[it] /\ next' = next
      BY <2>3 DEF CheckDead, CursorInv
    <3>2. QED
      BY <2>1, <2>2, <3>1 DEF ListInv, IsBelow, TypeOK
  <2>4. CASE prev # Null
    <3>1. /\ prev \in live /\ next[prev] = it /\ listeners' = listeners
          /\ next' = [next EXCEPT ![prev] = next[it]]
      BY <2>4 DEF CheckDead, CursorInv
    <3>2. it < prev
      BY <2>1, <3>1 DEF ListInv, IsBelow
    <3>3. IsBelow(listeners', N + 1, Linked')
      BY <2>1, <3>1, <3>2 DEF ListInv, IsBelow, TypeOK
    <3>4. ASSUME NEW a \in Linked' PROVE IsBelow(next'[a], a, Linked')
      <4>1. CASE a = prev
        BY <2>1, <2>2, <3>1, <3>2, <3>4, <4>1 DEF ListInv, IsBelow, TypeOK
      <4>2. CASE a # prev
        \* next[a] = it would make a and prev both the agent above it
        BY <2>1, <2>2, <3>1, <3>2, <3>4, <4>2 DEF ListInv, IsBelow, TypeOK
      <4>3. QED
        BY <4>1, <4>2
    <3>5. QED
      BY <2>1, <3>3, <3>4 DEF ListInv
  <2>5. QED
    BY <2>3, <2>4
<1>3. CursorInv'
  BY DEF TypeOK, CursorInv, CheckDead
<1>4. QED
  BY <1>1, <1>2, <1>3

LEMMA DeleteInv == Inv /\ Delete => Inv'
<1> SUFFICES ASSUME Inv, Delete PROVE Inv'
  OBVIOUS
<1> USE HostAssumption DEF Inv, Agents, Null, Delete, RestartAt
<1>1. TypeOK'
  BY DEF TypeOK
<1>2. ListInv'
  BY DEF TypeOK, ListInv, Linked, IsBelow
<1>3. CursorInv'
  BY DEF TypeOK, ListInv, CursorInv, Linked, IsBelow
<1>4. QED
  BY <1>1, <1>2, <1>3

LEMMA NextInv == Inv /\ [Next]_vars => Inv'
<1> SUFFICES ASSUME Inv, [Next]_vars PROVE Inv'
  OBVIOUS
<1>1. CASE Load
  BY <1>1, LoadInv
<1>2. CASE LoadFails
  BY <1>2 DEF LoadFails, Inv, TypeOK, ListInv, CursorInv, Linked, IsBelow
<1>3. CASE EnterLoop
  BY <1>3, EnterLoopInv
<1>4. CASE CheckAlive
  BY <1>4, AdvanceInv DEF CheckAlive, Inv, TypeOK
<1>5. CASE CheckDead
  BY <1>5, CheckDeadInv
<1>6. CASE Delete
  BY <1>6, DeleteInv
<1>7. ASSUME NEW m \in Messages, NEW t \in Seconds, CheckThrows(m, t)
      PROVE Inv'
  BY <1>7, AdvanceInv DEF CheckThrows
<1>8. CASE UNCHANGED vars
  BY <1>8 DEF vars, Inv, TypeOK, ListInv, CursorInv, Linked, IsBelow
<1>9. QED
  BY <1>1, <1>2, <1>3, <1>4, <1>5, <1>6, <1>7, <1>8 DEF Next

(* The host never loses an agent, never keeps one it has destroyed, and    *)
(* never follows a dangling cursor, however many agents are configured and *)
(* in whatever order they throw and die.                                   *)
THEOREM HostSafety == Spec => []Inv
BY InitInv, NextInv, PTL DEF Spec

(* The list links exactly the allocated agents, newest first, whatever the *)
(* order in which they die.                                                *)
THEOREM HostListInv == Spec => []ListInv
<1>1. Inv => ListInv
  BY DEF Inv
<1>2. QED
  BY HostSafety, <1>1, PTL

(* mainLoop dereferences only agents that are allocated, and `prev` is the *)
(* agent in front of `it`.                                                 *)
THEOREM HostCursorInv == Spec => []CursorInv
<1>1. Inv => CursorInv
  BY DEF Inv
<1>2. QED
  BY HostSafety, <1>1, PTL

(* Every variable of the host keeps its type.                              *)
THEOREM HostTypeOK == Spec => []TypeOK
<1>1. Inv => TypeOK
  BY DEF Inv
<1>2. QED
  BY HostSafety, <1>1, PTL

-----------------------------------------------------------------------------
(* The walk of reportState() *)

LEMMA LeastNumber ==
  ASSUME NEW T, T \subseteq Nat, T # {}
  PROVE  \E m \in T : \A n \in T : m <= n
<1>1. PICK m \in T : \A n \in T : ~ (<<n, m>> \in OpToRel(<, Nat))
  BY NatLessThanWellFounded, WFMin
<1>2. ASSUME NEW n \in T PROVE ~ (n < m)
  BY <1>1, <1>2 DEF OpToRel
<1>3. QED
  BY <1>2

LEMMA LargestAgent ==
  ASSUME NEW T, T \subseteq Agents, T # {}
  PROVE  \E m \in T : \A a \in T : a <= m
<1> USE HostAssumption DEF Agents
<1> DEFINE D == {N - a : a \in T}
<1>1. D \subseteq Nat /\ D # {}
  <2>1. \A a \in T : N - a \in Nat
    OBVIOUS
  <2>2. PICK a \in T : TRUE
    OBVIOUS
  <2>3. N - a \in D
    OBVIOUS
  <2>4. QED
    BY <2>1, <2>3
<1>2. PICK d \in D : \A e \in D : d <= e
  <2> HIDE DEF D
  <2>1. QED
    BY <1>1, LeastNumber
<1>3. PICK m \in T : d = N - m
  OBVIOUS
<1>4. ASSUME NEW a \in T PROVE a <= m
  BY <1>2, <1>3
<1>5. QED
  BY <1>4

\* A closed set that misses a linked agent misses the largest of those, but
\* the agent that leads to it is larger, or it is the head.
LEMMA WalkLinked == Inv => WalkIsLive
<1> SUFFICES ASSUME Inv PROVE Walk = Linked
  BY DEF WalkIsLive
<1> USE HostAssumption DEF Agents, Null
<1>1. /\ Linked \subseteq 1..N
      /\ \A a \in Linked : IsBelow(next[a], a, Linked)
      /\ IsBelow(listeners, N + 1, Linked)
  BY DEF Inv, ListInv, TypeOK, Linked
<1>2. Linked \in SUBSET Agents /\ \A a \in Linked : a \in Nat /\ a # 0
  <2>1. Linked \subseteq 1..N
    BY <1>1
  <2>2. QED
    BY <2>1
<1>3. ASSUME NEW a \in Walk PROVE a \in Linked
  <2>1. /\ listeners # Null => listeners \in Linked
        /\ \A b \in Linked : next[b] # Null => next[b] \in Linked
    BY <1>1 DEF IsBelow
  <2>2. QED
    BY <1>2, <1>3, <2>1 DEF Walk
<1>4. ASSUME NEW S \in SUBSET Agents,
             listeners # Null => listeners \in S,
             \A a \in S : next[a] # Null => next[a] \in S
      PROVE  Linked \subseteq S
  <2>1. SUFFICES ASSUME Linked \ S # {} PROVE FALSE
    OBVIOUS
  <2>2. PICK m \in Linked \ S : \A a \in Linked \ S : a <= m
    BY <1>1, <2>1, LargestAgent
  <2>3. CASE \A a \in Linked : a <= m
    <3>1. listeners = m
      BY <1>1, <2>2, <2>3 DEF IsBelow
    <3>2. QED
      BY <1>1, <1>4, <2>2, <3>1
  <2>4. CASE \E a \in Linked : m < a
    \* the least linked agent above m leads to m
    <3> DEFINE U == {a \in Linked : m < a}
    <3>1. U \subseteq Nat
      BY <1>2
    <3>2. PICK a \in U : TRUE
      BY <2>4
    <3>3. PICK u \in U : \A b \in U : u <= b
      <4> HIDE DEF U
      <4>1. QED
        BY <3>1, <3>2, LeastNumber
    <3>4. u \in Linked /\ m < u /\ m \in Linked /\ u \in 1..N /\ m \in 1..N
      BY <1>1, <2>2, <3>3
    <3>5. u \in S
      BY <2>2, <3>4
    <3>6. IsBelow(next[u], u, Linked)
      BY <1>1, <3>4
    <3>7. m <= next[u] /\ next[u] < u /\ next[u] \in Linked \cup {Null}
      BY <3>4, <3>6 DEF IsBelow
    <3>8. next[u] \in Linked /\ next[u] \in Nat
      <4>1. next[u] # Null
        BY <3>4, <3>7
      <4>2. next[u] \in Linked
        BY <3>7, <4>1
      <4>3. QED
        BY <1>2, <4>2
    <3>9. ~ (m < next[u])
      BY <3>3, <3>7, <3>8, <3>4
    <3>10. next[u] = m
      BY <3>4, <3>7, <3>8, <3>9
    <3>11. QED
      BY <1>4, <2>2, <3>4, <3>5, <3>10
  <2>5. QED
    BY <1>1, <2>2, <2>3, <2>4
<1>5. Linked \subseteq Walk
  BY <1>2, <1>4 DEF Walk
<1>6. QED
  BY <1>3, <1>5

(* reportState() counts exactly the agents that have not been destroyed,   *)
(* for every number of agents and every order in which they die.           *)
THEOREM HostWalkIsLive == Spec => []WalkIsLive
BY HostSafety, WalkLinked, PTL

-----------------------------------------------------------------------------
(* PluginHost implements Watchdog *)

(* Moving the cursor takes exactly one agent out of the sweep, or starts a *)
(* new sweep when it was the last one: the list skips no agent.            *)
LEMMA AdvancePending ==
  ASSUME Inv, pc = "check", Advance
  PROVE  /\ it \in Pending
         /\ Pending' = IF Pending = {it} THEN live ELSE Pending \ {it}
<1> USE HostAssumption DEF Agents, Null
<1>1. /\ it \in live /\ live \subseteq 1..N /\ live' = live
      /\ it \in Nat /\ next[it] \in Nat /\ \A a \in live : a \in Nat
      /\ IsBelow(next[it], it, live) /\ IsBelow(listeners, N + 1, live)
  BY DEF Inv, ListInv, CursorInv, Linked, TypeOK, Advance
<1>2. /\ \A a : a \in Pending <=> a \in live /\ a <= it
      /\ \A a : a \in Pending' <=> a \in live /\ a <= it'
  BY <1>1 DEF Pending, Advance
<1>3. it \in Pending
  BY <1>1, <1>2
<1>4. CASE next[it] = Null
  <2>1. it' = listeners
    BY <1>4 DEF Advance
  <2>2. \A a \in live : a <= it => a = it
    BY <1>1, <1>4 DEF IsBelow
  <2>3. \A a : a \in Pending <=> a = it
    BY <1>2, <1>3, <2>2
  <2>4. \A a \in live : a <= it'
    BY <1>1, <2>1 DEF IsBelow
  <2>5. \A a : a \in Pending' <=> a \in live
    BY <1>2, <2>4
  <2>6. Pending = {it} /\ Pending' = live
    BY <2>3, <2>5
  <2>7. QED
    BY <1>3, <2>6
<1>5. CASE next[it] # Null
  <2>1. it' = next[it]
    BY <1>5 DEF Advance
  <2>2. next[it] \in live /\ next[it] < it
    BY <1>1, <1>5 DEF IsBelow
  <2>3. next[it] \in Pending /\ next[it] # it
    <3>1. next[it] \in Nat /\ next[it] <= it /\ next[it] # it
      BY <1>1, <2>2
    <3>2. QED
      BY <1>2, <2>2, <3>1
  <2>4. \A a \in live : a <= it' <=> (a <= it /\ a # it)
    <3>1. next[it] \in Nat /\ \A a \in live : a < it => a <= next[it]
      BY <1>1, <2>2 DEF IsBelow
    <3>2. QED
      BY <1>1, <2>1, <2>2, <3>1
  <2>5. \A a : a \in Pending' <=> a \in Pending /\ a # it
    BY <1>2, <2>4
  <2>6. Pending # {it} /\ Pending' = Pending \ {it}
    BY <2>3, <2>5
  <2>7. QED
    BY <1>3, <2>6
<1>6. QED
  BY <1>4, <1>5

(* A restart of the walk is a new sweep over the agents that are left.     *)
LEMMA RestartPending ==
  ASSUME Inv', RestartAt(listeners), listeners' = listeners
  PROVE  /\ Pending' = live'
         /\ pc' = IF live' = {} THEN "exited" ELSE "check"
<1> USE HostAssumption DEF Agents, Null
<1>1. /\ live' \subseteq 1..N /\ IsBelow(listeners', N + 1, live')
      /\ pc' = (IF listeners' = Null THEN "exited" ELSE "check")
      /\ it' = listeners'
  BY DEF Inv, ListInv, TypeOK, Linked, IsBelow, RestartAt
<1>2. CASE listeners' = Null
  <2>1. live' = {}
    BY <1>1, <1>2 DEF IsBelow
  <2>2. QED
    BY <1>1, <1>2, <2>1 DEF Pending
<1>3. CASE listeners' # Null
  <2>1. listeners' \in live' /\ \A a \in live' : a <= listeners'
    BY <1>1, <1>3 DEF IsBelow
  <2>2. Pending' = live'
    BY <1>1, <1>3, <2>1 DEF Pending
  <2>3. QED
    BY <1>1, <1>3, <2>1, <2>2
<1>4. QED
  BY <1>2, <1>3

LEMMA RestartPhase ==
  ASSUME pc' = IF live' = {} THEN "exited" ELSE "check"
  PROVE  /\ Phase' = IF live' = {} THEN "exited" ELSE "watch"
         /\ pc = "load" => Phase = "load"
         /\ pc \in {"check", "delete"} => Phase = "watch"
<1>1. CASE live' = {}
  BY <1>1 DEF Phase
<1>2. CASE live' # {}
  BY <1>2 DEF Phase
<1>3. QED
  BY <1>1, <1>2

LEMMA InitRefines == Init => W!Init
BY DEF Init, W!Init, NoError, W!NoError, Phase, Pending

LEMMA StepRefines == Inv /\ Inv' /\ [Next]_vars => [W!Next]_W!vars
<1> SUFFICES ASSUME Inv, Inv', [Next]_vars PROVE [W!Next]_W!vars
  OBVIOUS
<1>1. CASE Load
  <2>1. loaded + 1 \in Agents /\ loaded + 1 \notin live
    BY <1>1, HostAssumption DEF Load, AddAgent, Inv, ListInv, TypeOK, Agents
  <2>2. W!Register(loaded + 1)
    BY <1>1, <2>1 DEF Load, AddAgent, W!Register, Phase, Pending
  <2>3. QED
    BY <2>1, <2>2 DEF W!Next, Agents, W!Agents
<1>2. CASE LoadFails
  <2>1. W!Abort
    BY <1>2 DEF LoadFails, W!Abort, Phase, Pending
  <2>2. QED
    BY <2>1 DEF W!Next
<1>3. CASE EnterLoop
  <2>1. /\ RestartAt(listeners) /\ listeners' = listeners /\ pc = "load"
        /\ live' = live /\ lastError' = lastError
    BY <1>3 DEF EnterLoop
  <2>2. Pending' = live' /\ pc' = IF live' = {} THEN "exited" ELSE "check"
    BY <2>1, RestartPending
  <2>3. Phase = "load" /\ Phase' = IF live' = {} THEN "exited" ELSE "watch"
    BY <2>1, <2>2, RestartPhase
  <2>4. W!NewSweep(live)
    BY <2>1, <2>2, <2>3 DEF W!NewSweep
  <2>5. W!Start
    BY <2>1, <2>3, <2>4 DEF W!Start
  <2>6. QED
    BY <2>5 DEF W!Next
<1>4. ASSUME pc = "check", Advance PROVE it \in Agents /\ W!EndTurn(it)
  <2>1. /\ it \in Pending
        /\ Pending' = IF Pending = {it} THEN live ELSE Pending \ {it}
    BY <1>4, AdvancePending
  <2>2. it \in Agents /\ live' = live /\ pc' = pc
    BY <1>4 DEF Advance, Inv, CursorInv, TypeOK
  <2>3. Phase = "watch" /\ Phase' = Phase
    BY <1>4, <2>2 DEF Phase
  <2>4. QED
    BY <2>1, <2>2, <2>3 DEF W!EndTurn
<1>5. CASE CheckAlive
  <2>1. it \in W!Agents /\ W!EndTurn(it)
    BY <1>4, <1>5 DEF CheckAlive, Agents, W!Agents
  <2>2. W!FoundAlive(it)
    BY <1>5, <2>1 DEF CheckAlive, W!FoundAlive
  <2>3. QED
    BY <2>1, <2>2 DEF W!Next
<1>6. ASSUME NEW m \in Messages, NEW t \in Seconds, CheckThrows(m, t)
      PROVE W!Next
  <2>1. it \in W!Agents /\ W!EndTurn(it)
    BY <1>4, <1>6 DEF CheckThrows, Agents, W!Agents
  <2>2. W!Threw(it, m, t)
    BY <1>6, <2>1 DEF CheckThrows, W!Threw
  <2>3. QED
    BY <2>1, <2>2 DEF W!Next
<1>7. CASE CheckDead
  \* unlinking is not a step of the abstract host: the agent is still there
  <2>1. Phase' = Phase /\ Pending' = Pending
    BY <1>7 DEF CheckDead, Phase, Pending
  <2>2. QED
    BY <1>7, <2>1 DEF CheckDead, W!vars
<1>8. CASE Delete
  <2>1. /\ RestartAt(listeners) /\ listeners' = listeners /\ pc = "delete"
        /\ live' = live \ {it} /\ lastError' = lastError
    BY <1>8 DEF Delete
  <2>2. Pending' = live' /\ pc' = IF live' = {} THEN "exited" ELSE "check"
    BY <2>1, RestartPending
  <2>3. it \in Agents /\ it \in Pending
    BY <2>1, HostAssumption DEF Inv, CursorInv, TypeOK, Pending, Agents
  <2>4. Phase = "watch" /\ Phase' = IF live' = {} THEN "exited" ELSE "watch"
    BY <2>1, <2>2, RestartPhase
  <2>5. W!NewSweep(live \ {it})
    BY <2>1, <2>2, <2>4 DEF W!NewSweep
  <2>6. W!Destroy(it)
    BY <2>1, <2>3, <2>4, <2>5 DEF W!Destroy
  <2>7. QED
    BY <2>3, <2>6 DEF W!Next, Agents, W!Agents
<1>9. CASE UNCHANGED vars
  BY <1>9 DEF vars, W!vars, Phase, Pending
<1>10. QED
  BY <1>1, <1>2, <1>3, <1>5, <1>6, <1>7, <1>8, <1>9 DEF Next

(* Walking the list implements the sweeps of Watchdog: between two turns   *)
(* of one agent every other registered agent has a turn, unless a removal  *)
(* starts a new sweep, and only an agent whose check() returned false is   *)
(* destroyed.                                                              *)
THEOREM HostImplementsWatchdog == Spec => ImplementsWatchdog
<1>1. Spec => []Inv
  BY HostSafety
<1>2. QED
  BY <1>1, InitRefines, StepRefines, PTL DEF Spec, ImplementsWatchdog, W!SafeSpec

=============================================================================
