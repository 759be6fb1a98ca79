-------------------------- MODULE TestAgentProofs --------------------------
(***************************************************************************)
(* Theorems about TestAgent for every number of iterations and every set   *)
(* of answers of the database, under every outcome of the data race on     *)
(* `state`.                                                                *)
(***************************************************************************)
EXTENDS TestAgent, TLAPS

Flags == alive \in BOOLEAN /\ raced \in BOOLEAN

Values ==
  /\ wpc \in {"loop", "query", "storing", "stopped", "gone"}
  /\ i \in 0..Iterations
  /\ state \in Texts /\ x \in Texts /\ lastThrown \in Texts
  /\ owed \in 0..Iterations
  /\ mpc \in {"poll", "empty", "copy", "clear", "join", "freed", "crashed"}

LEMMA TypeParts == (TypeOK <=> Flags /\ Values) /\ (TypeOK' <=> Flags' /\ Values')
BY Zenon DEF TypeOK, Flags, Values

(* The order in which an agent ends: the last iteration, the flag, the     *)
(* answer false of check(), the return of the thread, the destructor.      *)
EndsInOrder ==
  /\ wpc \in {"stopped", "gone"} => i = Iterations
  /\ ~alive => wpc \in {"stopped", "gone"}
  /\ mpc \in {"join", "freed"} => ~alive
  /\ mpc = "freed" => wpc = "gone"

(* Until a race the texts are ordered by age, and an iteration that has    *)
(* not reported yet is the newest.                                         *)
Fresh ==
  ~raced =>
    /\ state \in 0..i /\ x \in 0..i /\ lastThrown \in 0..i
    /\ state # Empty => lastThrown < state
    /\ mpc = "copy" => state # Empty \/ Racing
    /\ wpc \in {"query", "storing"} => state < i /\ x < i /\ lastThrown < i

IInv == Flags /\ Values /\ EndsInOrder /\ Fresh

LEMMA InitIInv == Init => IInv
<1> SUFFICES ASSUME Init PROVE IInv
  OBVIOUS
<1> USE TestAssumption DEF Init
<1>1. Texts = 0..(Iterations + 1) /\ Empty = 0
  BY DEF Texts, Torn, Empty
<1>2. Flags
  BY Zenon DEF Flags
<1>3. Values /\ EndsInOrder /\ Fresh
  BY <1>1 DEF Values, EndsInOrder, Fresh
<1>4. QED
  BY <1>2, <1>3 DEF IInv

-----------------------------------------------------------------------------

LEMMA FlagsStep == Flags /\ [Next]_vars => Flags'
<1> SUFFICES ASSUME Flags, [Next]_vars PROVE Flags'
  OBVIOUS
<1> USE DEF Flags
<1>1. CASE Stop
  BY <1>1, Zenon DEF Stop
<1>2. CASE Copy \/ Clear
  <2>1. (raced \/ Racing) \in BOOLEAN
    BY Zenon
  <2>2. QED
    BY <1>2, <2>1, Zenon DEF Copy, Clear, worker
<1>3. CASE Iterate \/ Stored \/ Return \/ UNCHANGED vars
  BY <1>3, Zenon DEF Iterate, Stored, Return, vars, worker
<1>4. CASE CheckAlive \/ CheckState \/ Join \/ Crash
  BY <1>4, Zenon DEF CheckAlive, CheckState, Join, Crash, worker
<1>5. CASE DatabaseAnswers
  BY <1>5, Zenon DEF DatabaseAnswers, Query
<1>6. QED
  BY <1>1, <1>2, <1>3, <1>4, <1>5 DEF Next, WorkerProceeds, MainProceeds

LEMMA ValuesStep == Values /\ [Next]_vars => Values'
<1> SUFFICES ASSUME Values, [Next]_vars PROVE Values'
  OBVIOUS
<1> USE TestAssumption DEF Values
<1>1. Texts = 0..(Iterations + 1) /\ Empty = 0 /\ Torn = Iterations + 1
  BY DEF Texts, Torn, Empty
<1>2. Visible \subseteq Texts /\ Leftover \subseteq Texts
  BY <1>1 DEF Visible, Leftover
<1>3. CASE Iterate \/ Stop \/ Return \/ UNCHANGED vars
  BY <1>3 DEF Iterate, Stop, Return, vars, worker, main
<1>4. CASE Stored
  BY <1>1, <1>4 DEF Stored, main
<1>5. CASE DatabaseAnswers
  BY <1>5 DEF DatabaseAnswers, Query, main
<1>6. CASE Copy
  BY <1>2, <1>6 DEF Copy, worker
<1>7. CASE Clear
  BY <1>1, <1>2, <1>7 DEF Clear, worker
<1>8. CASE CheckAlive \/ CheckState \/ Join \/ Crash
  BY <1>8 DEF CheckAlive, CheckState, Join, Crash, worker
<1>9. QED
  BY <1>3, <1>4, <1>5, <1>6, <1>7, <1>8 DEF Next, WorkerProceeds, MainProceeds

LEMMA EndsInOrderStep == Values /\ EndsInOrder /\ [Next]_vars => EndsInOrder'
<1> SUFFICES ASSUME Values, EndsInOrder, [Next]_vars PROVE EndsInOrder'
  OBVIOUS
<1> USE DEF Values, EndsInOrder
<1>1. CASE WorkerProceeds \/ DatabaseAnswers
  BY <1>1, TestAssumption
     DEF WorkerProceeds, Iterate, Stored, Stop, Return, DatabaseAnswers, Query, main
<1>2. CASE MainProceeds \/ Crash \/ UNCHANGED vars
  BY <1>2 DEF MainProceeds, CheckAlive, CheckState, Copy, Clear, Join, Crash,
              vars, worker, main
<1>3. QED
  BY <1>1, <1>2 DEF Next

LEMMA FreshStep == Values /\ Fresh /\ [Next]_vars => Fresh'
<1> SUFFICES ASSUME Values, Fresh, [Next]_vars PROVE Fresh'
  OBVIOUS
<1> USE TestAssumption DEF Values, Fresh, Racing, Empty
<1>1. CASE Iterate \/ Stop \/ Return \/ UNCHANGED vars
  BY <1>1 DEF Iterate, Stop, Return, vars, worker, main
<1>2. CASE Stored
  BY <1>2 DEF Stored, main
<1>3. CASE DatabaseAnswers
  BY <1>3 DEF DatabaseAnswers, Query, main
<1>4. CASE Copy
  <2>1. ~raced' => ~raced /\ wpc # "storing"
    BY <1>4, Zenon DEF Copy
  <2>2. wpc # "storing" => x' = state
    BY <1>4 DEF Copy, Visible
  <2>3. QED
    BY <1>4, <2>1, <2>2 DEF Copy, worker
<1>5. CASE Clear
  <2>1. ~raced' => ~raced /\ wpc # "storing"
    BY <1>5, Zenon DEF Clear
  <2>2. wpc # "storing" => state' = Empty
    BY <1>5 DEF Clear, Leftover
  <2>3. QED
    BY <1>5, <2>1, <2>2 DEF Clear, worker
<1>6. CASE CheckState
  BY <1>6 DEF CheckState, Visible, worker
<1>7. CASE CheckAlive \/ Join \/ Crash
  BY <1>7 DEF CheckAlive, Join, Crash, worker
<1>8. QED
  BY <1>1, <1>2, <1>3, <1>4, <1>5, <1>6, <1>7 DEF Next, WorkerProceeds, MainProceeds

-----------------------------------------------------------------------------

LEMMA TestIInv == Spec => []IInv
<1>1. IInv /\ [Next]_vars => IInv'
  BY FlagsStep, ValuesStep, EndsInOrderStep, FreshStep DEF IInv
<1>2. QED
  BY InitIInv, <1>1, PTL DEF Spec

(* Every variable keeps its type.                                          *)
THEOREM TestTypeOK == Spec => []TypeOK
<1>1. IInv => TypeOK
  BY TypeParts DEF IInv
<1>2. QED
  BY TestIInv, <1>1, PTL

(* An agent is freed only when its thread is gone after all iterations.    *)
THEOREM TestFreedIsQuiet == Spec => []FreedIsQuiet
<1>1. IInv => FreedIsQuiet
  BY DEF IInv, EndsInOrder, FreedIsQuiet
<1>2. QED
  BY TestIInv, <1>1, PTL

(* mainLoop waits for a thread only after its last query.                  *)
THEOREM TestJoinIsPrompt == Spec => []JoinIsPrompt
<1>1. IInv => JoinIsPrompt
  BY DEF IInv, EndsInOrder, JoinIsPrompt
<1>2. QED
  BY TestIInv, <1>1, PTL

(* Until a data race has happened check() throws no problem twice, none    *)
(* that is older than one it has thrown, and no empty text.                *)
THEOREM TestThrowsFresh == Spec => []ThrowsFresh
<1>1. IInv => ThrowsFresh
  BY TestAssumption DEF IInv, Values, Fresh, ThrowsFresh, Texts, Empty, Torn
<1>2. QED
  BY TestIInv, <1>1, PTL

=============================================================================
