------------------------ MODULE AgentProcessProofs ------------------------
(***************************************************************************)
(* Theorems about AgentProcess for every number and kind of agents.        *)
(*                                                                         *)
(* The steps of a process are steps of its host, so that the invariants    *)
(* proved of PluginHost hold here too; on them rest the invariants of the  *)
(* agents below.                                                           *)
(***************************************************************************)
EXTENDS AgentProcess, FiniteSetTheorems, TLAPS

P == INSTANCE PluginHostProofs

-----------------------------------------------------------------------------
(* The host *)

LEMMA SameHost ==
  /\ H!Inv <=> P!Inv
  /\ H!Inv' <=> P!Inv'
  /\ H!Init <=> P!Init
  /\ [H!Next]_(H!vars) <=> [P!Next]_(P!vars)
<1>1. /\ H!Inv <=> P!Inv
      /\ H!Inv' <=> P!Inv'
  BY DEF H!Inv, P!Inv, H!TypeOK, P!TypeOK, H!ListInv, P!ListInv, H!CursorInv, P!CursorInv,
         H!Linked, P!Linked, H!IsBelow, P!IsBelow, H!Agents, P!Agents, H!Null, P!Null, H!NoError, P!NoError
<1>2. H!Init <=> P!Init
  BY DEF H!Init, P!Init, H!Agents, P!Agents, H!Null, P!Null, H!NoError, P!NoError
<1>3. [H!Next]_(H!vars) <=> [P!Next]_(P!vars)
  BY DEF H!Next, P!Next, H!vars, P!vars, H!Load, P!Load, H!LoadFails, P!LoadFails, H!EnterLoop, P!EnterLoop,
     H!CheckAlive, P!CheckAlive, H!CheckDead, P!CheckDead, H!Delete, P!Delete, H!CheckThrows, P!CheckThrows,
     H!AddAgent, P!AddAgent, H!RestartAt, P!RestartAt, H!Advance, P!Advance, H!Null, P!Null
<1>4. QED
  BY <1>1, <1>2, <1>3

LEMMA HostAssumed == P!HostAssumption
BY ProcessAssumption DEF P!HostAssumption

LEMMA HostInit == Init => H!Inv
<1>1. P!Init => P!Inv
  BY HostAssumed, P!InitInv
<1>2. QED
  BY <1>1, SameHost DEF Init

LEMMA HostStep == TypeOK /\ H!Inv /\ [Next]_vars => [H!Next]_(H!vars)
<1> SUFFICES ASSUME TypeOK, H!Inv, [Next]_vars PROVE [H!Next]_(H!vars)
  OBVIOUS
<1>1. CASE Main
  <2>1. CASE (H!Load \/ H!LoadFails \/ H!EnterLoop \/ H!Delete) /\ UNCHANGED agents
    BY <2>1 DEF H!Next
  <2>2. CASE WorkerCheck
    <3>1. CASE H!CheckDead
      BY <3>1 DEF H!Next
    <3>2. CASE H!CheckAlive
      BY <3>2 DEF H!Next
    <3>3. CASE mail[it] # NoMail /\ H!CheckThrows(mail[it], now)
      <4>1. it \in Agents
        BY <2>2 DEF WorkerCheck, Turn, H!Inv, H!CursorInv, H!TypeOK, H!Agents, Agents
      <4>2. mail[it] \in Messages /\ now \in Seconds
        BY <3>3, <4>1 DEF TypeOK
      <4>3. QED
        BY <3>3, <4>2 DEF H!Next
    <3>4. QED
      BY <2>2, <3>1, <3>2, <3>3 DEF WorkerCheck
  <2>3. CASE TempCheck
    BY <2>3 DEF TempCheck, H!Next, TypeOK
  <2>4. CASE MqttCheck
    BY <2>4 DEF MqttCheck, H!Next
  <2>5. QED
    BY <1>1, <2>1, <2>2, <2>3, <2>4 DEF Main
<1>2. CASE Tick \/ \E a \in Agents : Post(a) \/ Quit(a)
  BY <1>2 DEF Tick, Post, Quit, host, H!vars
<1>3. CASE UNCHANGED vars
  BY <1>3 DEF vars, host, H!vars
<1>4. QED
  BY <1>1, <1>2, <1>3 DEF Next

LEMMA HostInvStep == H!Inv /\ TypeOK /\ [Next]_vars => H!Inv'
<1>1. P!Inv /\ [P!Next]_(P!vars) => P!Inv'
  BY HostAssumed, P!NextInv
<1>2. QED
  BY <1>1, SameHost, HostStep

LEMMA ListEmpty ==
  ASSUME H!Inv
  PROVE  /\ H!Linked \subseteq Agents
         /\ listeners = H!Null <=> H!Linked = {}
<1> USE ProcessAssumption DEF Agents
<1>1. /\ H!Linked \subseteq 1..N
      /\ H!IsBelow(listeners, N + 1, H!Linked)
  BY DEF H!Inv, H!ListInv, H!TypeOK, H!Linked, H!Agents
<1>2. \A a \in H!Linked : a \in 1..N /\ a <= listeners
  BY <1>1 DEF H!IsBelow
<1>3. listeners \in H!Linked \cup {H!Null}
  BY <1>1 DEF H!IsBelow
<1>4. QED
  BY <1>1, <1>2, <1>3 DEF H!Null

LEMMA WalkCounts == H!Inv => H!Walk = H!Linked
<1>1. P!Inv => P!WalkIsLive
  BY HostAssumed, P!WalkLinked
<1>2. H!Walk = P!Walk /\ H!Linked = P!Linked
  BY DEF H!Walk, P!Walk, H!Linked, P!Linked, H!Agents, P!Agents, H!Null, P!Null
<1>3. QED
  BY <1>1, <1>2, SameHost DEF P!WalkIsLive

\* What the steps of the host do to the registered agents.
LEMMA StartMoves ==
  ASSUME H!Inv
  PROVE  /\ H!Load => pc = "load" /\ pc' = "load" /\ lastError' = lastError
         /\ H!LoadFails =>
              /\ pc = "load" /\ pc' = "exited" /\ loaded < N /\ loaded' = loaded
              /\ H!Linked' = H!Linked /\ lastError' = lastError
         /\ H!EnterLoop =>
              /\ pc = "load" /\ loaded = N /\ loaded' = loaded
              /\ pc' = IF H!Linked = {} THEN "exited" ELSE "check"
              /\ H!Linked = Agents /\ H!Linked' = H!Linked /\ lastError' = lastError
<1>1. H!Load => pc = "load" /\ pc' = "load" /\ lastError' = lastError
  BY DEF H!Load
<1>2. ASSUME H!LoadFails
      PROVE  /\ pc = "load" /\ pc' = "exited" /\ loaded < N /\ loaded' = loaded
             /\ H!Linked' = H!Linked /\ lastError' = lastError
  BY <1>2 DEF H!LoadFails, H!Linked
<1>3. ASSUME H!EnterLoop
      PROVE  /\ pc = "load" /\ loaded = N /\ loaded' = loaded
             /\ pc' = IF H!Linked = {} THEN "exited" ELSE "check"
             /\ H!Linked = Agents /\ H!Linked' = H!Linked /\ lastError' = lastError
  <2>1. pc = "load" /\ pc' \in {"exited", "check"} /\ live' = live /\ loaded = N
    BY <1>3 DEF H!EnterLoop, H!RestartAt
  <2>2. H!Linked' = H!Linked /\ H!Linked = Agents
    BY <2>1 DEF H!Linked, H!Inv, H!CursorInv, Agents
  <2>3. QED
    BY <1>3, <2>1, <2>2, ListEmpty DEF H!EnterLoop, H!RestartAt
<1>4. QED
  BY <1>1, <1>2, <1>3

LEMMA TurnMoves ==
  ASSUME H!Inv
  PROVE  /\ H!CheckAlive =>
              /\ pc' = pc /\ pc = "check" /\ loaded' = loaded
              /\ H!Linked' = H!Linked /\ lastError' = lastError
         /\ \A m, t : H!CheckThrows(m, t) =>
              /\ pc' = pc /\ pc = "check" /\ loaded' = loaded
              /\ H!Linked' = H!Linked /\ lastError' = [message |-> m, timestamp |-> t]
         /\ H!CheckDead =>
              /\ pc = "check" /\ pc' = "delete" /\ loaded' = loaded
              /\ it \in H!Linked /\ H!Linked' = H!Linked \ {it}
              /\ lastError' = lastError
         /\ H!Delete =>
              /\ pc = "delete" /\ loaded' = loaded
              /\ pc' = IF H!Linked = {} THEN "exited" ELSE "check"
              /\ H!Linked' = H!Linked /\ lastError' = lastError
<1>1. ASSUME pc = "check", H!Advance
      PROVE  pc' = pc /\ loaded' = loaded /\ H!Linked' = H!Linked
  BY <1>1 DEF H!Advance, H!Linked
<1>2. ASSUME H!CheckDead
      PROVE  /\ pc = "check" /\ pc' = "delete" /\ loaded' = loaded
             /\ it \in H!Linked /\ H!Linked' = H!Linked \ {it}
             /\ lastError' = lastError
  BY <1>2 DEF H!CheckDead, H!Linked, H!Inv, H!CursorInv
<1>3. ASSUME H!Delete
      PROVE  /\ pc = "delete" /\ loaded' = loaded
             /\ pc' = IF H!Linked = {} THEN "exited" ELSE "check"
             /\ H!Linked' = H!Linked /\ lastError' = lastError
  <2>1. pc = "delete" /\ pc' \in {"exited", "check"} /\ live' = live \ {it}
    BY <1>3 DEF H!Delete, H!RestartAt
  <2>2. H!Linked' = H!Linked
    BY <2>1 DEF H!Linked
  <2>3. QED
    BY <1>3, <2>1, <2>2, ListEmpty DEF H!Delete, H!RestartAt
<1>4. QED
  BY <1>1, <1>2, <1>3 DEF H!CheckAlive, H!CheckThrows

-----------------------------------------------------------------------------
(* The inductive invariant *)

Temps == {a \in H!Linked : Kind[a] = "temp"}

\* Once the shared counter is below zero every TempAgent ends at its turn, so
\* it falls by no more than there are TempAgents.
CountInv ==
  maxEvents < 0 => pc # "load" /\ Cardinality(Temps) - maxEvents <= N

\* Errors are stamped with the time of their turn.
ClockInv == lastError.timestamp \in 0..now

\* Reports begin when all modules have started; from then on agents only go.
ReportInv == ReportLags /\ (state # NoReport => pc # "load")

MqttInv ==
  /\ Watching =>
       loaded = N /\ \A a \in Agents : Kind[a] = "mqtt" => a \in H!Linked
  /\ GoesOnWatching

IInv == H!Inv /\ TypeOK /\ CountInv /\ ClockInv /\ ReportInv /\ MqttInv

LEMMA Finite ==
  ASSUME NEW S, S \subseteq Agents
  PROVE  /\ IsFiniteSet(S) /\ Cardinality(S) \in 0..N
         /\ \A T \in SUBSET S : Cardinality(T) <= Cardinality(S)
<1>1. IsFiniteSet(Agents) /\ Cardinality(Agents) = N
  BY ProcessAssumption, FS_Interval DEF Agents
<1>2. IsFiniteSet(S) /\ Cardinality(S) <= N
  BY <1>1, FS_Subset
<1>3. Cardinality(S) \in Nat
  BY <1>2, FS_CardinalityType
<1>4. QED
  BY <1>2, <1>3, ProcessAssumption, FS_Subset

LEMMA InitIInv == Init => IInv
<1> SUFFICES ASSUME Init PROVE IInv
  OBVIOUS
<1> USE ProcessAssumption DEF Init
<1>1. H!Inv
  BY HostInit
<1>2. now \in Seconds /\ now \in Nat \ {0}
  OBVIOUS
<1>3. /\ state.count = -1 /\ state.error = H!NoError
      /\ maxEvents \in -N..MaxEvents /\ posts \in 0..MaxPosts
  BY DEF NoReport
<1>4. TypeOK
  BY <1>1, <1>2, <1>3 DEF H!Inv, TypeOK
<1>5. /\ CountInv /\ ReportInv /\ MqttInv
  BY DEF CountInv, ReportInv, ReportLags, MqttInv, GoesOnWatching, Watching, H!Init
<1>6. lastError.timestamp = 0
  BY DEF H!Init, H!NoError
<1>7. ClockInv
  BY <1>2, <1>6 DEF ClockInv
<1>8. QED
  BY <1>1, <1>4, <1>5, <1>7 DEF IInv

-----------------------------------------------------------------------------
(* The steps *)

\* No step of the host.
Outside == Tick \/ (\E a \in Agents : Post(a) \/ Quit(a)) \/ UNCHANGED vars

LEMMA OutsideStep ==
  ASSUME IInv, Outside
  PROVE  /\ UNCHANGED <<loaded, pc, H!Linked, lastError, maxEvents, state>>
         /\ now' \in Seconds /\ now <= now'
<1>1. host' = host /\ maxEvents' = maxEvents /\ state' = state
  BY DEF Outside, Tick, Post, Quit, vars, agents
<1>2. now' \in Seconds /\ now <= now'
  <2>1. now \in Seconds /\ now \in Nat
    BY ProcessAssumption DEF IInv, TypeOK
  <2>2. CASE Tick
    BY <2>1, <2>2, ProcessAssumption DEF Tick
  <2>3. CASE now' = now
    BY <2>1, <2>3
  <2>4. QED
    BY <2>2, <2>3 DEF Outside, Post, Quit, vars, agents
<1>3. QED
  BY <1>1, <1>2 DEF host, H!Linked

LEMMA Cases ==
  ASSUME [Next]_vars,
         NEW G,
         Outside => G,
         (H!Load \/ H!LoadFails \/ H!EnterLoop) /\ UNCHANGED agents => G,
         H!Delete /\ UNCHANGED agents => G,
         WorkerCheck => G, TempCheck => G, MqttCheck => G
  PROVE  G
BY DEF Next, Main, Outside

LEMMA TempCount ==
  ASSUME IInv, TempCheck
  PROVE  CountInv' /\ maxEvents' \in -N..MaxEvents
<1>1. maxEvents' = maxEvents - 1 /\ maxEvents \in -N..MaxEvents /\ H!Inv
  BY DEF TempCheck, IInv, TypeOK
<1>2. CASE maxEvents' >= 0
  BY <1>1, <1>2, ProcessAssumption DEF CountInv
<1>3. CASE maxEvents' < 0
  <2>1. H!CheckDead /\ Kind[it] = "temp"
    BY <1>1, <1>3, ProcessAssumption DEF TempCheck, Turn
  <2>2. /\ pc' = "delete" /\ it \in H!Linked
        /\ H!Linked' = H!Linked \ {it}
    BY <1>1, <2>1, TurnMoves
  <2>3. Temps' = Temps \ {it} /\ it \in Temps /\ Temps \subseteq Agents
    BY <1>1, <2>1, <2>2, ListEmpty DEF Temps
  <2>4. /\ Cardinality(Temps) \in 0..N /\ Cardinality(Temps') = Cardinality(Temps) - 1
        /\ Cardinality(Temps') \in Nat
    <3>1. IsFiniteSet(Temps) /\ Cardinality(Temps) \in 0..N
      BY <2>3, Finite
    <3>2. Cardinality(Temps') = Cardinality(Temps) - 1 /\ IsFiniteSet(Temps')
      BY <2>3, <3>1, FS_RemoveElement
    <3>3. QED
      BY <3>1, <3>2, FS_CardinalityType
  <2>5. Cardinality(Temps') - maxEvents' <= N
    <3>1. CASE maxEvents < 0
      BY <1>1, <2>4, <3>1, ProcessAssumption DEF IInv, CountInv
    <3>2. CASE maxEvents >= 0
      BY <1>1, <1>3, <2>4, <3>2, ProcessAssumption
    <3>3. QED
      BY <1>1, <3>1, <3>2, ProcessAssumption
  <2>6. QED
    BY <1>1, <1>3, <2>2, <2>4, <2>5, ProcessAssumption DEF CountInv
<1>4. QED
  BY <1>1, <1>2, <1>3, ProcessAssumption

LEMMA TypeStep == IInv /\ [Next]_vars => TypeOK'
<1> SUFFICES ASSUME IInv, [Next]_vars PROVE TypeOK'
  OBVIOUS
<1>1. H!TypeOK' /\ TypeOK /\ H!Inv
  BY HostInvStep DEF IInv, H!Inv
<1>2. pc = "check" => it \in Agents
  BY <1>1 DEF H!Inv, H!CursorInv, H!TypeOK, H!Agents, Agents
<1>3. ASSUME Outside PROVE TypeOK'
  <2>1. now' \in Seconds /\ maxEvents' = maxEvents /\ state' = state
    BY <1>3, OutsideStep
  <2>2. mail' \in [Agents -> Messages \cup {NoMail}] /\ posts' \in 0..MaxPosts
    <3>1. ASSUME NEW a \in Agents, Post(a)
          PROVE  mail' \in [Agents -> Messages \cup {NoMail}] /\ posts' \in 0..MaxPosts
      <4>1. PICK m \in Messages : mail' = [mail EXCEPT ![a] = m]
        BY <3>1 DEF Post
      <4>2. posts < MaxPosts /\ posts' = posts + 1
        BY <3>1 DEF Post
      <4>3. QED
        BY <1>1, <4>1, <4>2, ProcessAssumption DEF TypeOK
    <3>2. CASE UNCHANGED <<mail, posts>>
      BY <1>1, <3>2 DEF TypeOK
    <3>3. QED
      BY <1>3, <3>1, <3>2 DEF Outside, Tick, Quit, vars, agents
  <2>3. quit' \in [Agents -> BOOLEAN]
    <3>1. ASSUME NEW a \in Agents, Quit(a) PROVE quit' \in [Agents -> BOOLEAN]
      BY <1>1, <3>1, Zenon DEF TypeOK, Quit
    <3>2. CASE quit' = quit
      BY <1>1, <3>2 DEF TypeOK
    <3>3. QED
      BY <1>3, <3>1, <3>2 DEF Outside, Tick, Post, vars, agents
  <2>4. QED
    BY <1>1, <2>1, <2>2, <2>3 DEF TypeOK
<1>4. UNCHANGED agents => TypeOK'
  BY <1>1 DEF TypeOK, agents
<1>5. WorkerCheck => TypeOK'
  BY <1>1, <1>2 DEF TypeOK, WorkerCheck, Turn
<1>6. ASSUME TempCheck PROVE TypeOK'
  <2>1. maxEvents' \in -N..MaxEvents
    BY <1>6, TempCount
  <2>2. QED
    BY <1>1, <1>6, <2>1 DEF TypeOK, TempCheck
<1>7. ASSUME MqttCheck PROVE TypeOK'
  <2>1. state'.count \in 0..N /\ state'.error = lastError
    <3>1. state' = [error |-> lastError, count |-> Cardinality(H!Walk)]
      BY <1>7, Zenon DEF MqttCheck, Report
    <3>2. H!Walk \subseteq Agents
      BY <1>1, WalkCounts, ListEmpty, Zenon
    <3>3. Cardinality(H!Walk) \in 0..N
      BY <3>2, Finite, Zenon
    <3>4. QED
      BY <3>1, <3>3
  <2>2. state'.count \in -1..N
    BY <2>1, ProcessAssumption
  <2>3. state'.error \in [message : Messages, timestamp : Seconds] \cup {H!NoError}
    <3>1. H!TypeOK
      BY <1>1, Zenon DEF H!Inv
    <3>2. lastError \in [message : Messages, timestamp : Seconds] \cup {H!NoError}
      BY <3>1, Zenon DEF H!TypeOK
    <3>3. QED
      BY <2>1, <3>2, Zenon
  <2>4. UNCHANGED <<mail, quit, posts, maxEvents, now>>
    BY <1>7, Zenon DEF MqttCheck
  <2>5. QED
    BY <1>1, <2>2, <2>3, <2>4 DEF TypeOK
<1>8. QED
  BY Cases, <1>3, <1>4, <1>5, <1>6, <1>7

\* Apart from TempAgents, no step lowers the counter or adds agents after the
\* start.
LEMMA CountStep == IInv /\ [Next]_vars => CountInv'
<1> SUFFICES ASSUME IInv, [Next]_vars PROVE CountInv'
  OBVIOUS
<1>1. H!Inv /\ H!Linked \subseteq Agents /\ maxEvents \in -N..MaxEvents
  BY ListEmpty DEF IInv, TypeOK
<1>2. ASSUME maxEvents' = maxEvents, pc = "load" \/ (pc' # "load" /\ H!Linked' \subseteq H!Linked)
      PROVE  CountInv'
  <2>1. SUFFICES ASSUME maxEvents' < 0
                 PROVE  pc' # "load" /\ Cardinality(Temps') - maxEvents' <= N
    BY DEF CountInv
  <2>2. pc # "load" /\ Cardinality(Temps) - maxEvents <= N
    BY <1>2, <2>1 DEF IInv, CountInv
  <2>3. Temps \subseteq Agents /\ Temps' \in SUBSET Temps
    BY <1>1, <1>2, <2>2 DEF Temps
  <2>4. /\ Cardinality(Temps') <= Cardinality(Temps)
        /\ Cardinality(Temps) \in Nat /\ Cardinality(Temps') \in Nat
    BY <1>1, <2>3, Finite
  <2>5. QED
    BY <1>1, <1>2, <2>2, <2>4, ProcessAssumption
<1>3. Outside => CountInv'
  BY <1>2, OutsideStep
<1>4. (H!Load \/ H!LoadFails \/ H!EnterLoop) /\ UNCHANGED agents => CountInv'
  BY <1>1, <1>2, StartMoves DEF agents
<1>5. H!Delete /\ UNCHANGED agents => CountInv'
  BY <1>1, <1>2, TurnMoves DEF agents
<1>6. WorkerCheck => CountInv'
  BY <1>1, <1>2, TurnMoves DEF WorkerCheck
<1>7. MqttCheck => CountInv'
  BY <1>1, <1>2, TurnMoves DEF MqttCheck
<1>8. QED
  BY Cases, TempCount, <1>3, <1>4, <1>5, <1>6, <1>7

LEMMA ClockStep == IInv /\ [Next]_vars => ClockInv'
<1> SUFFICES ASSUME IInv, [Next]_vars PROVE ClockInv'
  OBVIOUS
<1>1. /\ H!Inv /\ now \in Nat \ {0} /\ now \in Seconds
      /\ lastError.timestamp \in 0..now
  BY ProcessAssumption DEF IInv, TypeOK, ClockInv
<1>2. ASSUME lastError' = lastError, now' \in Nat, now <= now' PROVE ClockInv'
  BY <1>1, <1>2 DEF ClockInv
<1>3. ASSUME NEW m, H!CheckThrows(m, now), now' = now PROVE ClockInv'
  <2>1. lastError' = [message |-> m, timestamp |-> now]
    BY <1>3 DEF H!CheckThrows
  <2>2. QED
    BY <1>1, <1>3, <2>1 DEF ClockInv
<1>4. Outside => ClockInv'
  BY <1>1, <1>2, OutsideStep, ProcessAssumption
<1>5. (H!Load \/ H!LoadFails \/ H!EnterLoop) /\ UNCHANGED agents => ClockInv'
  BY <1>1, <1>2, StartMoves DEF agents
<1>6. H!Delete /\ UNCHANGED agents => ClockInv'
  BY <1>1, <1>2, TurnMoves DEF agents
<1>7. WorkerCheck => ClockInv'
  BY <1>1, <1>2, <1>3, TurnMoves DEF WorkerCheck
<1>8. TempCheck => ClockInv'
  BY <1>1, <1>2, <1>3, TurnMoves DEF TempCheck
<1>9. MqttCheck => ClockInv'
  BY <1>1, <1>2, TurnMoves DEF MqttCheck
<1>10. QED
  BY Cases, <1>4, <1>5, <1>6, <1>7, <1>8, <1>9

\* A report is as good as the last one while agents only go and errors only
\* get newer.
LEMMA ReportStep == IInv /\ [Next]_vars => ReportInv'
<1> SUFFICES ASSUME IInv, [Next]_vars PROVE ReportInv'
  OBVIOUS
<1>1. /\ H!Inv /\ H!Linked \subseteq Agents /\ now \in Nat
      /\ lastError.timestamp \in 0..now
  BY ListEmpty, ProcessAssumption DEF IInv, TypeOK, ClockInv
<1>2. ASSUME state' = state,
             pc = "load" \/ (pc' # "load" /\ H!Linked' \subseteq H!Linked),
             lastError'.timestamp \in Nat, lastError.timestamp <= lastError'.timestamp
      PROVE  ReportInv'
  <2>1. SUFFICES ASSUME state # NoReport
                 PROVE  /\ state.count \in Cardinality(H!Linked')..N
                        /\ state.error.timestamp <= lastError'.timestamp
                        /\ pc' # "load"
    BY <1>2 DEF ReportInv, ReportLags, NoReport, H!NoError
  <2>2. /\ state.count \in Cardinality(H!Linked)..N /\ pc # "load"
        /\ state.error.timestamp <= lastError.timestamp
    BY <2>1 DEF IInv, ReportInv, ReportLags
  <2>3. /\ Cardinality(H!Linked') <= Cardinality(H!Linked)
        /\ Cardinality(H!Linked) \in Nat /\ Cardinality(H!Linked') \in Nat
    BY <1>1, <1>2, <2>2, Finite
  <2>4. state.error.timestamp \in Nat
    <3>1. TypeOK
      BY DEF IInv
    <3>2. CASE state.error = H!NoError
      <4>1. H!NoError.timestamp = 0
        BY DEF H!NoError
      <4>2. QED
        BY <3>2, <4>1
    <3>3. CASE state.error \in [message : Messages, timestamp : Seconds]
      BY <3>3, ProcessAssumption
    <3>4. QED
      BY <3>1, <3>2, <3>3 DEF TypeOK
  <2>5. QED
    BY <1>1, <1>2, <2>2, <2>3, <2>4, ProcessAssumption
<1>3. ASSUME NEW m, H!CheckThrows(m, now), state' = state PROVE ReportInv'
  <2>1. lastError' = [message |-> m, timestamp |-> now]
    BY <1>3 DEF H!CheckThrows
  <2>2. pc' # "load" /\ H!Linked' = H!Linked
    BY <1>1, <1>3, TurnMoves
  <2>3. lastError'.timestamp \in Nat /\ lastError.timestamp <= lastError'.timestamp
    BY <1>1, <2>1
  <2>4. QED
    BY <1>2, <1>3, <2>2, <2>3
<1>4. Outside => ReportInv'
  BY <1>1, <1>2, OutsideStep
<1>5. (H!Load \/ H!LoadFails \/ H!EnterLoop) /\ UNCHANGED agents => ReportInv'
  BY <1>1, <1>2, StartMoves DEF agents
<1>6. H!Delete /\ UNCHANGED agents => ReportInv'
  BY <1>1, <1>2, TurnMoves DEF agents
<1>7. WorkerCheck => ReportInv'
  BY <1>1, <1>2, <1>3, TurnMoves DEF WorkerCheck
<1>8. TempCheck => ReportInv'
  BY <1>1, <1>2, <1>3, TurnMoves DEF TempCheck
<1>9. ASSUME MqttCheck PROVE ReportInv'
  <2>1. /\ pc' # "load" /\ H!Linked' = H!Linked /\ lastError' = lastError
    BY <1>1, <1>9, TurnMoves DEF MqttCheck
  <2>2. /\ state'.count = Cardinality(H!Linked) /\ state'.error = lastError
        /\ Cardinality(H!Linked) \in 0..N
    BY <1>1, <1>9, WalkCounts, Finite DEF MqttCheck, Report
  <2>3. QED
    BY <1>1, <2>1, <2>2 DEF ReportInv, ReportLags
<1>10. QED
  BY Cases, <1>4, <1>5, <1>6, <1>7, <1>8, <1>9

\* An MqttAgent is never the one that ends.
LEMMA MqttStep == IInv /\ [Next]_vars => MqttInv'
<1> SUFFICES ASSUME IInv, [Next]_vars PROVE MqttInv'
  OBVIOUS
<1> DEFINE Kept(S) == \A a \in Agents : Kind[a] = "mqtt" => a \in S
<1>1. /\ H!Inv /\ MqttInv
      /\ Watching => loaded = N /\ Kept(H!Linked)
  BY DEF IInv, MqttInv
<1>2. ASSUME Watching, loaded' = loaded, Kept(H!Linked'),
             pc' = "exited" => H!Linked' = {}
      PROVE  MqttInv'
  BY <1>1, <1>2 DEF MqttInv, Watching, GoesOnWatching
<1>3. ASSUME UNCHANGED <<loaded, pc, H!Linked>> PROVE MqttInv'
  BY <1>1, <1>3 DEF MqttInv, Watching, GoesOnWatching
<1>4. Outside => MqttInv'
  BY <1>3, OutsideStep
<1>5. (H!Load \/ H!LoadFails \/ H!EnterLoop) /\ UNCHANGED agents => MqttInv'
  BY <1>1, StartMoves DEF MqttInv, Watching, GoesOnWatching
<1>6. H!Delete /\ UNCHANGED agents => MqttInv'
  BY <1>1, <1>2, TurnMoves DEF Watching
<1>7. ASSUME H!CheckDead, Kind[it] # "mqtt" PROVE MqttInv'
  BY <1>1, <1>2, <1>7, TurnMoves DEF Watching
<1>8. WorkerCheck => MqttInv'
  BY <1>1, <1>3, <1>7, TurnMoves DEF WorkerCheck, Turn
<1>9. TempCheck => MqttInv'
  BY <1>1, <1>3, <1>7, TurnMoves DEF TempCheck, Turn
<1>10. MqttCheck => MqttInv'
  BY <1>1, <1>3, TurnMoves DEF MqttCheck
<1>11. QED
  BY Cases, <1>4, <1>5, <1>6, <1>8, <1>9, <1>10

LEMMA NextIInv == IInv /\ [Next]_vars => IInv'
<1> SUFFICES ASSUME IInv, [Next]_vars PROVE IInv'
  OBVIOUS
<1>1. H!Inv'
  BY HostInvStep DEF IInv
<1>2. QED
  BY <1>1, TypeStep, CountStep, ClockStep, ReportStep, MqttStep DEF IInv

LEMMA ProcessIInv == Spec => []IInv
BY InitIInv, NextIInv, PTL DEF Spec

-----------------------------------------------------------------------------
(* Theorems *)

(* Whatever agents the process runs, the counter that its TempAgents share *)
(* (TempAgent::check's maxEvents) never falls further below zero than      *)
(* there are agents, and a report never counts more agents than were       *)
(* configured.                                                             *)
THEOREM ProcessTypeOK == Spec => []TypeOK
BY ProcessIInv, PTL DEF IInv

(* What publish_data sends lags behind the host and never leads it, for    *)
(* any number of agents and any order of their ends, errors and turns.     *)
THEOREM ProcessReportLags == Spec => []ReportLags
BY ProcessIInv, PTL DEF IInv, ReportInv

(* mainLoop of a process whose modules all started never returns while it  *)
(* has an MqttAgent, however the other agents end.                         *)
THEOREM ProcessGoesOnWatching == Spec => []GoesOnWatching
BY ProcessIInv, PTL DEF IInv, MqttInv

=============================================================================
