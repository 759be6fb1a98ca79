------------------------ MODULE RemoteControlProofs ------------------------
(***************************************************************************)
(* Theorems about RemoteControl for every number of users, processes and   *)
(* commands, every queue of the broker and every sequence of connections   *)
(* lost.                                                                   *)
(***************************************************************************)
EXTENDS RemoteControl, FiniteSetTheorems, TLAPS

Messages == Commands \cup Answers
Phases == Active \cup {"none", "exiting", "gone"}

\* The processes of a user that are up.
Own(u) == {p \in Pids : owner[p] = u /\ phase[p] \in Active}

TypeInv ==
  /\ phase \in [Pids -> Phases]
  /\ owner \in [Pids -> Users]
  /\ inbox \in [Pids -> Seq(Messages)]
  /\ body \in [Pids -> AllBodies]
  /\ file \in [Users -> AllBodies \cup {"truncated"}]
  /\ started \in 0..MaxPids /\ sent \in 0..MaxCommands /\ drops \in 0..MaxDrops
  /\ wanted \in [Users -> 0..Len(First)]

\* A number is taken when its process is started, and never given back.
Numbering == \A p \in Pids : phase[p] = "none" <=> p > started

IInv == TypeInv /\ Numbering /\ NeverMore

LEMMA TypeInvTypeOK == TypeInv => TypeOK
BY DEF TypeInv, TypeOK, Phases, Messages, Range

-----------------------------------------------------------------------------
(* Messages *)

LEMMA PutBody ==
  ASSUME NEW m \in Messages, m.cmd = "put"
  PROVE  m.body \in Bodies /\ m.body \in AllBodies
BY RemoteAssumption DEF Messages, Commands, Answers

LEMMA AnswerType ==
  ASSUME TypeInv, NEW p \in Pids, NEW m \in Messages, NEW a \in AnswersTo(p, m)
  PROVE  a \in Messages
<1>1. owner[p] \in Users /\ file[owner[p]] \in AllBodies \cup {"truncated"}
  BY DEF TypeInv
<1>2. /\ Message("info", owner[p], 0, "") \in Answers
      /\ Message("info", "", 0, file[owner[p]]) \in Answers
      /\ Message("ps@", owner[p], p, "") \in Answers
  BY <1>1 DEF Answers, Message
<1>3. \/ a = Message("info", owner[p], 0, "")
      \/ a = Message("info", "", 0, file[owner[p]])
      \/ a = Message("ps@", owner[p], p, "")
  BY DEF AnswersTo
<1>4. QED
  BY <1>2, <1>3 DEF Messages

LEMMA DeliverType ==
  ASSUME NEW m \in Messages, NEW inboxes \in [Pids -> Seq(Messages)]
  PROVE  Deliver(m, inboxes) \in [Pids -> Seq(Messages)]
BY DEF Deliver

LEMMA TakenType ==
  ASSUME TypeInv, NEW p \in Pids, HasMessage(p)
  PROVE  /\ Head(inbox[p]) \in Messages
         /\ Taken(p) \in [Pids -> Seq(Messages)]
<1>1. inbox[p] \in Seq(Messages) /\ inbox[p] # <<>>
  BY DEF TypeInv, HasMessage
<1>2. Head(inbox[p]) \in Messages /\ Tail(inbox[p]) \in Seq(Messages)
  BY <1>1
<1>3. QED
  BY <1>2 DEF TypeInv, Taken

-----------------------------------------------------------------------------
(* What the steps do to the processes of a user *)

LEMMA OwnFinite ==
  ASSUME NEW u
  PROVE  IsFiniteSet(Own(u)) /\ Cardinality(Own(u)) \in Nat
<1>1. IsFiniteSet(Pids)
  BY RemoteAssumption, FS_Interval DEF Pids
<1>2. IsFiniteSet(Own(u))
  BY <1>1, FS_Subset DEF Own
<1>3. QED
  BY <1>2, FS_CardinalityType

\* No process comes up.
Calm ==
  /\ owner' = owner /\ wanted' = wanted /\ started' = started
  /\ \E p \in Pids, to \in Phases \ {"none"} :
       /\ phase[p] # "none"
       /\ to \in Active => phase[p] \in Active
       /\ phase' = [phase EXCEPT ![p] = to]

Idle == UNCHANGED <<phase, owner, wanted, started>>

\* One process goes, and its user wants one less.
Ends(p) ==
  /\ owner' = owner /\ started' = started
  /\ phase[p] \in Active
  /\ phase' = [phase EXCEPT ![p] = "exiting"]
  /\ wanted' = [wanted EXCEPT ![owner[p]] = @ - 1]

\* One process is replaced by another.
Succeeds(p) ==
  /\ phase[p] \in Active
  /\ started < MaxPids
  /\ started' = started + 1
  /\ owner' = [owner EXCEPT ![started + 1] = owner[p]]
  /\ phase' = [phase EXCEPT ![p] = "exiting", ![started + 1] = "booting"]
  /\ wanted' = wanted

LEMMA Moves ==
  ASSUME TypeInv, [Next]_vars
  PROVE  Idle \/ Calm \/ \E p \in Pids : Ends(p) \/ Succeeds(p)
<1> USE DEF TypeInv, Phases, Active
<1>1. CASE Console \/ UNCHANGED vars
  BY <1>1 DEF Console, vars, Idle
<1>2. ASSUME NEW p \in Pids, Drop(p) PROVE Calm
  BY <1>2 DEF Drop, Calm
<1>3. ASSUME NEW p \in Pids, Boot(p) \/ InitFails(p) PROVE Calm
  BY <1>3 DEF Boot, InitFails, MoveTo, Calm
<1>4. ASSUME NEW p \in Pids, OnConnect(p) \/ OnSubscribe(p) PROVE Calm
  BY <1>4 DEF OnConnect, OnSubscribe, MoveTo, Calm
<1>5. ASSUME NEW p \in Pids, Answer(p) \/ Ignore(p) PROVE Idle
  BY <1>5 DEF Answer, Ignore, Idle
<1>6. ASSUME NEW p \in Pids, Restart(p) \/ OpenConfig(p) PROVE Calm
  BY <1>6 DEF Restart, OpenConfig, HasMessage, MoveTo, Calm
<1>7. ASSUME NEW p \in Pids, WriteConfig(p) \/ Exit(p) PROVE Calm
  BY <1>7 DEF WriteConfig, Exit, MoveTo, Calm
<1>8. ASSUME NEW p \in Pids, Stop(p) PROVE Ends(p)
  BY <1>8 DEF Stop, HasMessage, Ends
<1>9. ASSUME NEW p \in Pids, Spawn(p) PROVE Calm \/ Succeeds(p)
  BY <1>9 DEF Spawn, Calm, Succeeds
<1>10. QED
  BY <1>1, <1>2, <1>3, <1>4, <1>5, <1>6, <1>7, <1>8, <1>9 DEF Next, Step

LEMMA NumberingStep == TypeInv /\ Numbering /\ [Next]_vars => Numbering'
<1> SUFFICES ASSUME TypeInv, Numbering, [Next]_vars PROVE Numbering'
  OBVIOUS
<1>1. phase \in [Pids -> Phases] /\ started \in 0..MaxPids
  BY DEF TypeInv
<1>2. CASE Idle
  BY <1>2 DEF Idle, Numbering
<1>3. CASE Calm
  BY <1>1, <1>3 DEF Calm, Numbering
<1>4. ASSUME NEW p \in Pids, Ends(p) PROVE Numbering'
  BY <1>1, <1>4 DEF Ends, Numbering, Active
<1>5. ASSUME NEW p \in Pids, Succeeds(p) PROVE Numbering'
  BY <1>1, <1>5, RemoteAssumption DEF Succeeds, Numbering, Active, Pids
<1>6. QED
  BY <1>2, <1>3, <1>4, <1>5, Moves

LEMMA OwnStep ==
  ASSUME TypeInv, Numbering, NEW u \in Users
  PROVE  /\ Idle => Own(u)' = Own(u)
         /\ Calm => Own(u)' \subseteq Own(u)
         /\ \A p \in Pids : Ends(p) /\ owner[p] = u =>
              p \in Own(u) /\ Own(u)' = Own(u) \ {p}
         /\ \A p \in Pids : Ends(p) /\ owner[p] # u => Own(u)' = Own(u)
         /\ \A p \in Pids : Succeeds(p) /\ owner[p] = u =>
              /\ p \in Own(u) /\ started + 1 \notin Own(u)
              /\ Own(u)' = (Own(u) \ {p}) \cup {started + 1}
         /\ \A p \in Pids : Succeeds(p) /\ owner[p] # u => Own(u)' = Own(u)
<1>1. phase \in [Pids -> Phases] /\ owner \in [Pids -> Users] /\ started \in 0..MaxPids
  BY DEF TypeInv
<1>2. Idle => Own(u)' = Own(u)
  BY DEF Idle, Own
<1>3. Calm => Own(u)' \subseteq Own(u)
  BY <1>1 DEF Calm, Own
<1>4. ASSUME NEW p \in Pids, Ends(p)
      PROVE  /\ owner[p] = u => p \in Own(u) /\ Own(u)' = Own(u) \ {p}
             /\ owner[p] # u => Own(u)' = Own(u)
  BY <1>1, <1>4 DEF Ends, Own, Active
<1>5. ASSUME NEW p \in Pids, Succeeds(p)
      PROVE  /\ owner[p] = u =>
                  /\ p \in Own(u) /\ started + 1 \notin Own(u)
                  /\ Own(u)' = (Own(u) \ {p}) \cup {started + 1}
             /\ owner[p] # u => Own(u)' = Own(u)
  <2>1. started + 1 \in Pids /\ phase[started + 1] = "none"
    BY <1>1, <1>5, RemoteAssumption DEF Succeeds, Numbering, Pids
  <2>2. /\ phase[p] \in Active /\ "booting" \in Active
        /\ "none" \notin Active /\ "exiting" \notin Active
    BY <1>5 DEF Succeeds, Active
  <2>3. p # started + 1
    BY <2>1, <2>2
  <2>4. \A q \in Pids :
          /\ phase'[q] = IF q = started + 1 THEN "booting"
                         ELSE IF q = p THEN "exiting" ELSE phase[q]
          /\ owner'[q] = IF q = started + 1 THEN owner[p] ELSE owner[q]
    BY <1>1, <1>5, <2>1, <2>3 DEF Succeeds
  <2>5. QED
    BY <2>1, <2>2, <2>3, <2>4 DEF Own
<1>6. QED
  BY <1>2, <1>3, <1>4, <1>5

\* Only a process that ends without a successor makes fewer of them.
LEMMA CountStep ==
  ASSUME TypeInv, Numbering, NEW u \in Users
  PROVE  /\ Idle \/ Calm => Cardinality(Own(u)') <= Cardinality(Own(u)) /\ wanted' = wanted
         /\ \A p \in Pids : Ends(p) =>
              /\ Cardinality(Own(u)') - wanted'[u] = Cardinality(Own(u)) - wanted[u]
              /\ owner[p] = u => Cardinality(Own(u)) \in Nat \ {0}
         /\ \A p \in Pids : Succeeds(p) =>
              Cardinality(Own(u)') = Cardinality(Own(u)) /\ wanted' = wanted
<1>1. IsFiniteSet(Own(u)) /\ Cardinality(Own(u)) \in Nat
  BY OwnFinite
<1>2. wanted \in [Users -> 0..Len(First)] /\ Len(First) \in Nat
  BY RemoteAssumption DEF TypeInv
<1>3. ASSUME Idle \/ Calm
      PROVE  Cardinality(Own(u)') <= Cardinality(Own(u)) /\ wanted' = wanted
  <2>1. Own(u)' \subseteq Own(u)
    BY <1>3, OwnStep
  <2>2. QED
    BY <1>1, <1>3, <2>1, FS_Subset DEF Idle, Calm
<1>4. ASSUME NEW p \in Pids, Ends(p)
      PROVE  /\ Cardinality(Own(u)') - wanted'[u] = Cardinality(Own(u)) - wanted[u]
             /\ owner[p] = u => Cardinality(Own(u)) \in Nat \ {0}
  <2>1. CASE owner[p] # u
    <3>1. wanted'[u] = wanted[u]
      BY <1>2, <1>4, <2>1 DEF Ends
    <3>2. QED
      BY <1>4, <2>1, <3>1, OwnStep
  <2>2. CASE owner[p] = u
    <3>1. wanted'[u] = wanted[u] - 1
      BY <1>2, <1>4, <2>2 DEF Ends
    <3>2. p \in Own(u) /\ Own(u)' = Own(u) \ {p}
      BY <1>4, <2>2, OwnStep
    <3>3. /\ Cardinality(Own(u)') = Cardinality(Own(u)) - 1
          /\ Cardinality(Own(u)') \in Nat
      BY <1>1, <3>2, FS_RemoveElement, FS_CardinalityType
    <3>4. QED
      BY <1>1, <1>2, <3>1, <3>3
  <2>3. QED
    BY <2>1, <2>2
<1>5. ASSUME NEW p \in Pids, Succeeds(p)
      PROVE  Cardinality(Own(u)') = Cardinality(Own(u)) /\ wanted' = wanted
  <2>1. CASE owner[p] # u
    BY <1>5, <2>1, OwnStep DEF Succeeds
  <2>2. CASE owner[p] = u
    <3> DEFINE Rest == Own(u) \ {p}
    <3>1. /\ p \in Own(u) /\ started + 1 \notin Rest
          /\ Own(u)' = Rest \cup {started + 1}
      BY <1>5, <2>2, OwnStep
    <3>2. IsFiniteSet(Rest) /\ Cardinality(Rest) = Cardinality(Own(u)) - 1
      BY <1>1, <3>1, FS_RemoveElement
    <3>3. Cardinality(Own(u)') = Cardinality(Rest) + 1
      BY <3>1, <3>2, FS_AddElement
    <3>4. QED
      BY <1>1, <1>5, <3>2, <3>3 DEF Succeeds
  <2>3. QED
    BY <2>1, <2>2
<1>6. QED
  BY <1>3, <1>4, <1>5

-----------------------------------------------------------------------------
(* The inductive invariant *)

LEMMA TypeStep == IInv /\ [Next]_vars => TypeInv'
<1> SUFFICES ASSUME IInv, [Next]_vars PROVE TypeInv'
  OBVIOUS
<1> USE RemoteAssumption DEF TypeInv, Phases, Active
<1>1. TypeInv
  BY DEF IInv
<1>2. CASE UNCHANGED vars
  BY <1>1, <1>2 DEF vars
<1>3. CASE Console
  <2>1. PICK m \in Commands : inbox' = Deliver(m, inbox)
    BY <1>3 DEF Console
  <2>2. inbox' \in [Pids -> Seq(Messages)]
    BY <1>1, <2>1, DeliverType DEF Messages
  <2>3. QED
    BY <1>1, <1>3, <2>2 DEF Console
<1>4. ASSUME NEW p \in Pids, Drop(p) PROVE TypeInv'
  BY <1>1, <1>4 DEF Drop
<1>5. ASSUME NEW p \in Pids, Boot(p) \/ InitFails(p) PROVE TypeInv'
  BY <1>1, <1>5 DEF Boot, InitFails, MoveTo
<1>6. ASSUME NEW p \in Pids, OnConnect(p) \/ OnSubscribe(p) PROVE TypeInv'
  BY <1>1, <1>6 DEF OnConnect, OnSubscribe, MoveTo
<1>7. ASSUME NEW p \in Pids, Answer(p) PROVE TypeInv'
  <2>1. PICK a \in AnswersTo(p, Head(inbox[p])) : inbox' = Deliver(a, Taken(p))
    BY <1>7 DEF Answer
  <2>2. inbox' \in [Pids -> Seq(Messages)]
    BY <1>1, <1>7, <2>1, TakenType, AnswerType, DeliverType DEF Answer
  <2>3. QED
    BY <1>1, <1>7, <2>2 DEF Answer
<1>8. ASSUME NEW p \in Pids, Ignore(p) PROVE TypeInv'
  BY <1>1, <1>8, TakenType DEF Ignore
<1>9. ASSUME NEW p \in Pids, Restart(p) PROVE TypeInv'
  BY <1>1, <1>9, TakenType DEF Restart, MoveTo
<1>10. ASSUME NEW p \in Pids, Stop(p) PROVE TypeInv'
  <2>1. wanted' = [wanted EXCEPT ![owner[p]] = @ - 1] /\ owner[p] \in Users
    BY <1>1, <1>10 DEF Stop
  <2>2. wanted[owner[p]] # 0
    <3>1. Ends(p)
      BY <1>1, <1>10 DEF Stop, HasMessage, Ends
    <3>2. Cardinality(Own(owner[p])) \in Nat \ {0}
      BY <1>1, <2>1, <3>1, CountStep DEF IInv
    <3>3. Cardinality(Own(owner[p])) <= wanted[owner[p]]
      BY <2>1 DEF IInv, NeverMore, Own
    <3>4. QED
      BY <3>2, <3>3
  <2>3. wanted' \in [Users -> 0..Len(First)]
    <3>1. PICK n \in Nat : n = Len(First)
      BY RemoteAssumption
    <3>2. wanted \in [Users -> 0..n]
      BY <1>1, <3>1 DEF TypeInv
    <3>3. wanted[owner[p]] - 1 \in 0..n
      BY <2>1, <2>2, <3>2
    <3>4. wanted' \in [Users -> 0..n]
      BY <2>1, <3>2, <3>3
    <3>5. QED
      BY <3>1, <3>4
  <2>4. phase' \in [Pids -> Phases] /\ inbox' \in [Pids -> Seq(Messages)]
    <3>1. phase' = [phase EXCEPT ![p] = "exiting"] /\ phase \in [Pids -> Phases]
      BY <1>1, <1>10, Zenon DEF Stop, TypeInv
    <3>2. "exiting" \in Phases
      BY DEF Phases, Active
    <3>3. inbox' = Taken(p) /\ HasMessage(p)
      BY <1>10, Zenon DEF Stop
    <3>4. inbox' \in [Pids -> Seq(Messages)]
      BY <1>1, <3>3, TakenType, Zenon
    <3>5. QED
      BY <3>1, <3>2, <3>4
  <2>5. QED
    BY <1>1, <1>10, <2>3, <2>4 DEF Stop
<1>11. ASSUME NEW p \in Pids, OpenConfig(p) PROVE TypeInv'
  <2>1. Head(inbox[p]).body \in AllBodies /\ inbox' \in [Pids -> Seq(Messages)]
    BY <1>1, <1>11, TakenType, PutBody DEF OpenConfig, IsPut
  <2>2. QED
    BY <1>1, <1>11, <2>1 DEF OpenConfig
<1>12. ASSUME NEW p \in Pids, WriteConfig(p) PROVE TypeInv'
  BY <1>1, <1>12 DEF WriteConfig
<1>13. ASSUME NEW p \in Pids, Spawn(p) PROVE TypeInv'
  <2>1. <<>> \in Seq(Messages)
    OBVIOUS
  <2>2. phase' \in [Pids -> Phases] /\ inbox' \in [Pids -> Seq(Messages)]
    BY <1>1, <1>13, <2>1 DEF Spawn
  <2>3. owner' \in [Pids -> Users] /\ started' \in 0..MaxPids
    <3>1. owner[p] \in Users /\ owner \in [Pids -> Users] /\ started \in 0..MaxPids
      BY <1>1
    <3>2. CASE UNCHANGED <<started, owner>>
      BY <3>1, <3>2
    <3>3. CASE /\ started < MaxPids /\ started' = started + 1
               /\ owner' = [owner EXCEPT ![started + 1] = owner[p]]
      <4>1. owner' \in [Pids -> Users]
        BY <3>1, <3>3
      <4>2. started' \in 0..MaxPids
        BY <3>1, <3>3
      <4>3. QED
        BY <4>1, <4>2
    <3>4. QED
      BY <1>13, <3>2, <3>3 DEF Spawn
  <2>4. QED
    BY <1>1, <1>13, <2>2, <2>3 DEF Spawn
<1>14. ASSUME NEW p \in Pids, Exit(p) PROVE TypeInv'
  <2>1. <<>> \in Seq(Messages)
    OBVIOUS
  <2>2. QED
    BY <1>1, <1>14, <2>1 DEF Exit, MoveTo
<1>15. QED
  BY <1>2, <1>3, <1>4, <1>5, <1>6, <1>7, <1>8, <1>9, <1>10, <1>11, <1>12, <1>13, <1>14
     DEF Next, Step

LEMMA NeverMoreStep == IInv /\ [Next]_vars => NeverMore'
<1> SUFFICES ASSUME IInv, [Next]_vars, NEW u \in Users
             PROVE  Cardinality(Own(u)') <= wanted'[u]
  BY DEF NeverMore, Own
<1>1. /\ TypeInv /\ Numbering
      /\ Cardinality(Own(u)) <= wanted[u]
      /\ Cardinality(Own(u)) \in Nat /\ wanted[u] \in Nat
  <2>1. TypeInv /\ Numbering /\ Cardinality(Own(u)) <= wanted[u]
    BY DEF IInv, NeverMore, Own
  <2>2. wanted[u] \in Nat
    BY <2>1, RemoteAssumption DEF TypeInv
  <2>3. QED
    BY <2>1, <2>2, OwnFinite
<1>2. wanted'[u] \in Nat
  BY TypeStep, RemoteAssumption DEF TypeInv
<1>3. Cardinality(Own(u)') \in Nat
  <2>1. IsFiniteSet(Pids)
    BY RemoteAssumption, FS_Interval DEF Pids
  <2>2. Own(u)' \subseteq Pids
    BY DEF Own
  <2>3. QED
    BY <2>1, <2>2, FS_Subset, FS_CardinalityType, Zenon
<1>4. CASE Idle \/ Calm
  BY <1>1, <1>3, <1>4, CountStep
<1>5. ASSUME NEW p \in Pids, Ends(p)
      PROVE  Cardinality(Own(u)') <= wanted'[u]
  BY <1>1, <1>2, <1>3, <1>5, CountStep
<1>6. ASSUME NEW p \in Pids, Succeeds(p)
      PROVE  Cardinality(Own(u)') <= wanted'[u]
  BY <1>1, <1>3, <1>6, CountStep
<1>7. QED
  BY <1>1, <1>4, <1>5, <1>6, Moves

\* The processes at the start, and how many of them a user has.
LEMMA InitOwn ==
  ASSUME Init, NEW u \in Users
  PROVE  /\ Own(u) = {k \in DOMAIN First : First[k] = u}
         /\ wanted[u] = Cardinality(Own(u)) /\ wanted[u] \in 0..Len(First)
<1>1. DOMAIN First = 1..Len(First) /\ Len(First) \in 1..MaxPids /\ MaxPids \in Nat
  BY RemoteAssumption
<1>2. Own(u) = {k \in DOMAIN First : First[k] = u}
  BY <1>1 DEF Init, Own, Pids, Active
<1>3. wanted[u] = Cardinality(Own(u))
  BY <1>2 DEF Init
<1>4. IsFiniteSet(DOMAIN First) /\ Cardinality(DOMAIN First) = Len(First)
  BY <1>1, FS_Interval
<1>5. Cardinality(Own(u)) <= Len(First)
  BY <1>2, <1>4, FS_Subset
<1>6. Cardinality(Own(u)) \in Nat
  BY OwnFinite
<1>7. QED
  BY <1>1, <1>2, <1>3, <1>5, <1>6

LEMMA InitIInv == Init => IInv
<1> SUFFICES ASSUME Init PROVE IInv
  OBVIOUS
<1>1. Len(First) \in 1..MaxPids /\ MaxPids \in Nat /\ First \in [1..Len(First) -> Users]
  BY RemoteAssumption
<1>2. /\ phase \in [Pids -> Phases] /\ owner \in [Pids -> Users]
      /\ body \in [Pids -> AllBodies]
      /\ file \in [Users -> AllBodies \cup {"truncated"}]
  <2>1. phase \in [Pids -> Phases]
    <3>1. {"listening", "none"} \subseteq Phases
      BY DEF Phases, Active
    <3>2. QED
      BY <3>1 DEF Init
  <2>2. owner \in [Pids -> Users]
    <3>1. \A p \in Pids : First[IF p <= Len(First) THEN p ELSE 1] \in Users
      BY <1>1 DEF Pids
    <3>2. QED
      BY <3>1, Zenon DEF Init
  <2>3. body \in [Pids -> AllBodies] /\ file \in [Users -> AllBodies \cup {"truncated"}]
    BY DEF Init, AllBodies
  <2>4. QED
    BY <2>1, <2>2, <2>3
<1>3. inbox \in [Pids -> Seq(Messages)]
  <2>1. <<>> \in Seq(Messages)
    OBVIOUS
  <2>2. QED
    BY <2>1 DEF Init
<1>4. started \in 0..MaxPids /\ sent \in 0..MaxCommands /\ drops \in 0..MaxDrops
  BY <1>1, RemoteAssumption DEF Init
<1>5. wanted \in [Users -> 0..Len(First)]
  BY InitOwn DEF Init
<1>6. Numbering
  BY <1>1 DEF Init, Numbering, Pids
<1>7. NeverMore
  BY InitOwn, RemoteAssumption DEF NeverMore, Own
<1>8. QED
  BY <1>2, <1>3, <1>4, <1>5, <1>6, <1>7 DEF IInv, TypeInv

LEMMA RemoteIInv == Spec => []IInv
<1>1. IInv /\ [Next]_vars => IInv'
  <2> SUFFICES ASSUME IInv, [Next]_vars PROVE IInv'
    OBVIOUS
  <2>1. QED
    BY TypeStep, NumberingStep, NeverMoreStep DEF IInv
<1>2. QED
  BY <1>1, InitIInv, PTL DEF Spec

-----------------------------------------------------------------------------
(* One agent for each user *)

\* Nobody has two agents, every configuration names modules, and nothing
\* fails but the opening of a file.
OneEachSound ==
  /\ \A k, l \in DOMAIN First : First[k] = First[l] => k = l
  /\ Bodies = {"modules"}
  /\ Faults \subseteq {"open"}

Sole ==
  \A p, q \in Pids :
    owner[p] = owner[q] /\ phase[p] \in Active /\ phase[q] \in Active => p = q

\* Only the process that writes a file keeps it from being read.
FileInv ==
  \A p \in Pids :
    /\ body[p] = "modules"
    /\ phase[p] \in Active \ {"writing"} => file[owner[p]] = "modules"

OneIInv == IInv /\ Sole /\ FileInv /\ Population

LEMMA SoleStep == TypeInv /\ Numbering /\ Sole /\ [Next]_vars => Sole'
<1> SUFFICES ASSUME TypeInv, Numbering, Sole, [Next]_vars,
                    NEW p \in Pids, NEW q \in Pids, owner'[p] = owner'[q],
                    phase'[p] \in Active, phase'[q] \in Active
             PROVE  p = q
  BY DEF Sole
<1>1. \A u \in Users : \A r, s \in Own(u) : r = s
  BY DEF Sole, Own
<1>2. PICK u \in Users : p \in Own(u)' /\ q \in Own(u)'
  <2>1. owner' \in [Pids -> Users]
    <3>1. CASE Idle \/ Calm \/ \E r \in Pids : Ends(r)
      BY <3>1 DEF Idle, Calm, Ends, TypeInv
    <3>2. ASSUME NEW r \in Pids, Succeeds(r) PROVE owner' \in [Pids -> Users]
      BY <3>2 DEF Succeeds, TypeInv
    <3>3. QED
      BY <3>1, <3>2, Moves
  <2>2. owner'[p] \in Users
    BY <2>1
  <2>3. QED
    BY <2>2 DEF Own
<1>3. Own(u)' \subseteq Own(u) \/ \E r \in Pids : Succeeds(r) /\ owner[r] = u
  BY Moves, OwnStep
<1>4. CASE Own(u)' \subseteq Own(u)
  BY <1>1, <1>2, <1>4
<1>5. ASSUME NEW r \in Pids, Succeeds(r), owner[r] = u
      PROVE  p = q
  <2>1. r \in Own(u) /\ Own(u)' = (Own(u) \ {r}) \cup {started + 1}
    BY <1>5, OwnStep
  <2>2. Own(u) \ {r} = {}
    BY <1>1, <2>1
  <2>3. QED
    BY <1>2, <2>1, <2>2
<1>6. QED
  BY <1>3, <1>4, <1>5

LEMMA FileStep == OneEachSound /\ OneIInv /\ [Next]_vars => FileInv'
<1> SUFFICES ASSUME OneEachSound, OneIInv, [Next]_vars PROVE FileInv'
  OBVIOUS
<1>1. TypeInv /\ Numbering /\ Sole /\ FileInv
  BY DEF OneIInv, IInv
<1>2. phase \in [Pids -> Phases] /\ owner \in [Pids -> Users] /\ body \in [Pids -> AllBodies]
  BY <1>1 DEF TypeInv
<1>3. file \in [Users -> AllBodies \cup {"truncated"}]
  BY <1>1 DEF TypeInv
<1>4. ASSUME UNCHANGED <<body, file, owner>>,
             \A q \in Pids : phase'[q] \in Active \ {"writing"} => phase[q] \in Active \ {"writing"}
      PROVE  FileInv'
  BY <1>1, <1>4 DEF FileInv
<1>5. CASE UNCHANGED vars \/ Console
  BY <1>4, <1>5 DEF vars, Console
<1>6. ASSUME NEW p \in Pids,
             Drop(p) \/ Boot(p) \/ InitFails(p) \/ OnConnect(p) \/ OnSubscribe(p)
      PROVE  FileInv'
  BY <1>2, <1>4, <1>6 DEF Drop, Boot, InitFails, OnConnect, OnSubscribe, MoveTo, Active
<1>7. ASSUME NEW p \in Pids, Answer(p) \/ Ignore(p) \/ Restart(p) \/ Stop(p) \/ Exit(p)
      PROVE  FileInv'
  BY <1>2, <1>4, <1>7 DEF Answer, Ignore, Restart, Stop, Exit, MoveTo, HasMessage, Active
<1>8. ASSUME NEW p \in Pids, OpenConfig(p) PROVE FileInv'
  <2>1. Head(inbox[p]).body = "modules"
    BY <1>1, <1>8, TakenType, PutBody DEF OpenConfig, IsPut, OneEachSound
  <2>2. \A q \in Pids : body'[q] = "modules"
    BY <1>1, <1>2, <1>8, <2>1 DEF OpenConfig, FileInv
  <2>3. phase[p] \in Active /\ phase'[p] = "writing"
    BY <1>2, <1>8 DEF OpenConfig, HasMessage, Active
  <2>4. ASSUME NEW q \in Pids, phase'[q] \in Active \ {"writing"}
        PROVE  file'[owner'[q]] = "modules"
    <3>1. q # p /\ phase'[q] = phase[q] /\ owner' = owner
      BY <1>2, <1>8, <2>3, <2>4 DEF OpenConfig
    <3>2. owner[q] # owner[p]
      BY <1>1, <2>3, <2>4, <3>1 DEF Sole
    <3>3. file'[owner[q]] = file[owner[q]]
      BY <1>2, <1>3, <1>8, <3>2 DEF OpenConfig
    <3>4. QED
      BY <1>1, <2>4, <3>1, <3>3 DEF FileInv
  <2>5. QED
    BY <2>2, <2>4 DEF FileInv
<1>9. ASSUME NEW p \in Pids, WriteConfig(p) PROVE FileInv'
  <2>1. file' = [file EXCEPT ![owner[p]] = "modules"] /\ body' = body /\ owner' = owner
    BY <1>1, <1>9 DEF WriteConfig, FileInv
  <2>2. ASSUME NEW q \in Pids, phase'[q] \in Active \ {"writing"}
        PROVE  file'[owner[q]] = "modules"
    <3>1. CASE owner[q] = owner[p]
      BY <1>2, <1>3, <2>1, <3>1
    <3>2. CASE owner[q] # owner[p]
      <4>1. q # p /\ phase'[q] = phase[q]
        BY <1>2, <1>9, <3>2 DEF WriteConfig
      <4>2. QED
        BY <1>1, <1>2, <1>3, <2>1, <2>2, <3>2, <4>1 DEF FileInv
    <3>3. QED
      BY <3>1, <3>2
  <2>3. QED
    BY <1>1, <2>1, <2>2 DEF FileInv
<1>10. ASSUME NEW p \in Pids, Spawn(p) PROVE FileInv'
  <2>1. body' = body /\ file' = file /\ phase[p] = "spawning" /\ file[owner[p]] = "modules"
    BY <1>1, <1>10 DEF Spawn, FileInv, Active
  <2>2. CASE Succeeds(p)
    <3>1. \A q \in Pids \ {started + 1} :
            owner'[q] = owner[q] /\ phase'[q] \in {phase[q], "exiting"}
      BY <1>2, <2>2 DEF Succeeds
    <3>2. started + 1 \in Pids => owner'[started + 1] = owner[p]
      BY <1>2, <2>2 DEF Succeeds
    <3>3. QED
      BY <1>1, <2>1, <3>1, <3>2 DEF FileInv, Active
  <2>3. CASE owner' = owner /\ phase' = [phase EXCEPT ![p] = "gone"]
    BY <1>2, <1>4, <2>1, <2>3 DEF Active
  <2>4. QED
    BY <1>10, <2>2, <2>3 DEF Spawn, Succeeds, Active
<1>11. QED
  BY <1>5, <1>6, <1>7, <1>8, <1>9, <1>10 DEF Next, Step

\* Every process that is up stays up until it is told to stop or has a
\* successor.
LEMMA SteadyMoves ==
  ASSUME OneEachSound, OneIInv, [Next]_vars
  PROVE  \/ /\ owner' = owner /\ wanted' = wanted
            /\ \A q \in Pids : phase'[q] \in Active <=> phase[q] \in Active
         \/ \E p \in Pids : Ends(p) \/ Succeeds(p)
<1> DEFINE Steady == /\ owner' = owner /\ wanted' = wanted
                     /\ \A q \in Pids : phase'[q] \in Active <=> phase[q] \in Active
<1>1. TypeInv /\ FileInv /\ Faults \subseteq {"open"}
  BY DEF OneIInv, IInv, OneEachSound
<1>2. phase \in [Pids -> Phases]
  BY <1>1 DEF TypeInv
<1>3. CASE UNCHANGED vars \/ Console
  BY <1>3 DEF vars, Console
<1>4. ASSUME NEW p \in Pids, Boot(p) \/ InitFails(p) PROVE Steady
  <2>1. file[owner[p]] = "modules"
    BY <1>1, <1>4 DEF Boot, InitFails, FileInv, Active
  <2>2. QED
    BY <1>1, <1>2, <1>4, <2>1 DEF Boot, InitFails, MoveTo, Active
<1>5. ASSUME NEW p \in Pids, Drop(p) \/ OnConnect(p) \/ OnSubscribe(p) PROVE Steady
  BY <1>2, <1>5 DEF Drop, OnConnect, OnSubscribe, MoveTo, Active
<1>6. ASSUME NEW p \in Pids, Answer(p) \/ Ignore(p) \/ Restart(p) PROVE Steady
  BY <1>2, <1>6 DEF Answer, Ignore, Restart, MoveTo, HasMessage, Active
<1>7. ASSUME NEW p \in Pids, OpenConfig(p) \/ WriteConfig(p) \/ Exit(p) PROVE Steady
  BY <1>2, <1>7 DEF OpenConfig, WriteConfig, Exit, MoveTo, HasMessage, Active
<1>8. ASSUME NEW p \in Pids, Stop(p) PROVE Ends(p)
  BY <1>8 DEF Stop, HasMessage, Ends, Active
<1>9. ASSUME NEW p \in Pids, Spawn(p) PROVE Succeeds(p)
  BY <1>1, <1>9 DEF Spawn, Succeeds, Active
<1>10. QED
  BY <1>3, <1>4, <1>5, <1>6, <1>7, <1>8, <1>9 DEF Next, Step

LEMMA PopulationStep == OneEachSound /\ OneIInv /\ [Next]_vars => Population'
<1> SUFFICES ASSUME OneEachSound, OneIInv, [Next]_vars, NEW u \in Users
             PROVE  Cardinality(Own(u)') = wanted'[u]
  BY DEF Population, Own
<1>1. /\ TypeInv /\ Numbering /\ TypeInv'
      /\ Cardinality(Own(u)) = wanted[u]
  BY TypeStep DEF OneIInv, IInv, Population, Own
<1>2. wanted[u] \in Nat /\ wanted'[u] \in Nat
  BY <1>1, RemoteAssumption DEF TypeInv
<1>3. CASE /\ owner' = owner /\ wanted' = wanted
           /\ \A q \in Pids : phase'[q] \in Active <=> phase[q] \in Active
  <2>1. Own(u)' = Own(u)
    BY <1>3 DEF Own
  <2>2. QED
    BY <1>1, <1>3, <2>1
<1>4. ASSUME NEW p \in Pids, Ends(p) PROVE Cardinality(Own(u)') = wanted'[u]
  <2>1. CASE owner[p] = u
    <3>1. p \in Own(u) /\ Own(u)' = Own(u) \ {p} /\ wanted'[u] = wanted[u] - 1
      BY <1>1, <1>4, <2>1, OwnStep DEF Ends, TypeInv
    <3>2. Cardinality(Own(u)') = Cardinality(Own(u)) - 1
      BY <3>1, OwnFinite, FS_RemoveElement
    <3>3. QED
      BY <1>1, <3>1, <3>2
  <2>2. CASE owner[p] # u
    BY <1>1, <1>4, <2>2, OwnStep DEF Ends, TypeInv
  <2>3. QED
    BY <2>1, <2>2
<1>5. ASSUME NEW p \in Pids, Succeeds(p) PROVE Cardinality(Own(u)') = wanted'[u]
  BY <1>1, <1>5, CountStep
<1>6. QED
  BY <1>3, <1>4, <1>5, SteadyMoves

LEMMA OneInit == OneEachSound /\ Init => OneIInv
<1> SUFFICES ASSUME OneEachSound, Init PROVE OneIInv
  OBVIOUS
<1>1. Len(First) \in 1..MaxPids /\ MaxPids \in Nat /\ DOMAIN First = 1..Len(First)
  BY RemoteAssumption
<1>2. \A p \in Pids : phase[p] \in Active => p \in DOMAIN First /\ owner[p] = First[p]
  BY <1>1 DEF Init, Active, Pids
<1>3. Sole
  BY <1>2 DEF OneEachSound, Sole
<1>4. FileInv
  <2>1. \A p \in Pids : owner[p] \in Users
    BY InitIInv DEF IInv, TypeInv
  <2>2. QED
    BY <2>1 DEF Init, FileInv
<1>5. Population
  BY InitOwn DEF Population, Own
<1>6. QED
  BY <1>3, <1>4, <1>5, InitIInv DEF OneIInv

-----------------------------------------------------------------------------
(* Theorems *)

(* Inboxes hold nothing but commands and answers, files and counters keep  *)
(* their types, and no user is ever asked to have a negative number of     *)
(* agents: a process obeys one "stop" at most.                             *)
THEOREM RemoteTypeOK == Spec => []TypeOK
BY RemoteIInv, TypeInvTypeOK, PTL DEF IInv

(* on_message never multiplies an agent, whatever commands come in         *)
(* whatever order, and whatever fails.                                     *)
THEOREM RemoteNeverMore == Spec => []NeverMore
BY RemoteIInv, PTL DEF IInv

(* Where every user has one agent and configurations name modules, restart *)
(* and put pass each agent on to exactly one successor, which finds its    *)
(* configuration written: no command but stop makes fewer of them.         *)
THEOREM RemotePopulation == OneEachSound => (Spec => []Population)
<1> SUFFICES ASSUME OneEachSound PROVE Spec => []Population
  OBVIOUS
<1>1. OneIInv /\ [Next]_vars => OneIInv'
  <2> SUFFICES ASSUME OneIInv, [Next]_vars PROVE OneIInv'
    OBVIOUS
  <2>1. IInv'
    BY TypeStep, NumberingStep, NeverMoreStep DEF OneIInv, IInv
  <2>2. Sole'
    BY SoleStep DEF OneIInv, IInv
  <2>3. QED
    BY <2>1, <2>2, FileStep, PopulationStep DEF OneIInv
<1>2. Init => OneIInv
  BY OneInit
<1>3. OneIInv => Population
  BY DEF OneIInv
<1>4. QED
  BY <1>1, <1>2, <1>3, PTL DEF Spec

=============================================================================
