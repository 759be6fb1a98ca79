-------------------------- MODULE ExecAgentProofs --------------------------
(***************************************************************************)
(* Theorems about ExecAgent for every number of runs.  They hold under     *)
(* every outcome of the data race on `result`; what is said of the texts   *)
(* holds until one has happened.                                           *)
(***************************************************************************)
EXTENDS ExecAgent, TLAPS

(* The texts in circulation are ordered by age: until a race, what is in   *)
(* the mailbox is newer than what check() holds, which is newer than what  *)
(* it has thrown, and a command that is not stored yet is the newest.      *)
Fresh ==
  ~raced =>
    /\ result \in 0..run /\ x \in 0..run /\ lastThrown \in 0..run
    /\ result # Empty => lastThrown < result
    /\ result # Empty /\ mpc = "clear" => x < result
    /\ wpc \in {"fgets", "pclose", "unwind", "storing"} =>
         result < run /\ x < run /\ lastThrown < run

(* The worker wakes up only when a run is left.                            *)
Room == wpc \in {"query", "popen"} => run < MaxRuns

IInv == TypeOK /\ Room /\ OneCommand /\ FreedIsQuiet /\ Fresh

(* The type invariant in two parts: the provers of set membership and of   *)
(* arithmetic do not mix well with Boolean variables.                      *)
Flags ==
  /\ printed \in BOOLEAN /\ failed \in BOOLEAN
  /\ raced \in BOOLEAN /\ expired \in BOOLEAN /\ cancelled \in BOOLEAN

Values ==
  /\ wpc \in {"sleep", "query", "popen", "fgets", "pclose", "storing",
              "print", "unwind", "gone"}
  /\ run \in 0..MaxRuns
  /\ pipe \in 0..1
  /\ child \in {"none", "running", "closed", "zombie"}
  /\ result \in Texts /\ x \in Texts /\ lastThrown \in Texts
  /\ owed \in 0..MaxRuns
  /\ mpc \in {"poll", "move", "clear", "cancel", "join", "freed", "crashed"}

LEMMA TypeParts == (TypeOK <=> Flags /\ Values) /\ (TypeOK' <=> Flags' /\ Values')
BY Zenon DEF TypeOK, Flags, Values

LEMMA InitIInv == Init => IInv
<1> SUFFICES ASSUME Init PROVE IInv
  OBVIOUS
<1> USE ExecAssumption DEF Init
<1>1. Texts = 0..(MaxRuns + 1) /\ Empty = 0
  BY DEF Texts, Torn, Empty
<1>2. Values
  BY <1>1 DEF Values
<1>3. Flags
  BY Zenon DEF Flags
<1>4. Room /\ OneCommand /\ FreedIsQuiet /\ Fresh
  BY <1>1 DEF Room, OneCommand, FreedIsQuiet, Fresh
<1>5. QED
  BY <1>2, <1>3, <1>4, TypeParts DEF IInv

-----------------------------------------------------------------------------
(* One lemma per conjunct: which actions disturb it is different for each. *)

LEMMA FlagsStep == Flags /\ [Next]_vars => Flags'
<1> SUFFICES ASSUME Flags, [Next]_vars PROVE Flags'
  OBVIOUS
<1> USE DEF Flags
<1>1. CASE ChildRun
  BY <1>1, Zenon DEF ChildRun
<1>2. CASE ChildExit
  BY <1>2, Zenon DEF ChildExit
<1>3. CASE Popen
  BY <1>3, Zenon DEF Popen
<1>4. CASE Pclose \/ Unwind
  BY <1>4, Zenon DEF Pclose, Unwind
<1>5. CASE Move \/ Clear
  <2>1. (raced \/ Racing) \in BOOLEAN
    BY Zenon
  <2>2. QED
    BY <1>5, <2>1, Zenon DEF Move, Clear, worker
<1>6. CASE Cancel \/ Expire
  BY <1>6, Zenon DEF Cancel, Expire, worker
<1>7. CASE Wake \/ Query \/ EndOfOutput \/ Stored \/ PrintError \/ ActOnCancel
  BY <1>7, Zenon DEF Wake, Query, EndOfOutput, Stored, PrintError, ActOnCancel
<1>8. CASE CheckExpired \/ CheckEmpty \/ CheckFull \/ Join \/ Crash \/ UNCHANGED vars
  BY <1>8, Zenon DEF CheckExpired, CheckEmpty, CheckFull, Join, Crash, worker, vars
<1>9. QED
  BY <1>1, <1>2, <1>3, <1>4, <1>5, <1>6, <1>7, <1>8
     DEF Next, WorkerProceeds, MainProceeds

LEMMA ValuesStep == Values /\ Room /\ OneCommand /\ [Next]_vars => Values' /\ Room'
<1> SUFFICES ASSUME Values, Room, OneCommand, [Next]_vars PROVE Values' /\ Room'
  OBVIOUS
<1> USE ExecAssumption DEF Values, Room
<1>1. Texts = 0..(MaxRuns + 1) /\ Empty = 0 /\ Torn = MaxRuns + 1
  BY DEF Texts, Torn, Empty
<1>2. CASE ChildRun \/ ChildExit \/ Expire
  BY <1>2 DEF ChildRun, ChildExit, Expire, worker, main
<1>3. CASE Popen
  BY <1>1, <1>3 DEF Popen, OneCommand, main
<1>4. CASE Stored
  BY <1>1, <1>4 DEF Stored, Output, main
<1>5. CASE Wake \/ Query \/ EndOfOutput \/ Pclose \/ PrintError \/ ActOnCancel \/ Unwind
  BY <1>5 DEF Wake, Query, EndOfOutput, Pclose, PrintError, ActOnCancel, Unwind, OneCommand, main
<1>0. Visible \subseteq Texts /\ Leftover \subseteq Texts
  <2>1. Output \in Texts /\ Empty \in Texts /\ Torn \in Texts
    BY <1>1 DEF Output
  <2>2. QED
    BY <2>1 DEF Visible, Leftover
<1>6. CASE Move
  BY <1>0, <1>6 DEF Move, worker
<1>7. CASE Clear
  BY <1>0, <1>1, <1>7 DEF Clear, worker
<1>8. CASE CheckExpired \/ CheckEmpty \/ CheckFull \/ Cancel \/ Join \/ Crash \/ UNCHANGED vars
  BY <1>8 DEF CheckExpired, CheckEmpty, CheckFull, Cancel, Join, Crash, worker, main, vars
<1>9. QED
  BY <1>2, <1>3, <1>4, <1>5, <1>6, <1>7, <1>8 DEF Next, WorkerProceeds, MainProceeds

LEMMA OneCommandStep == IInv /\ [Next]_vars => OneCommand'
<1> SUFFICES ASSUME IInv, [Next]_vars PROVE OneCommand'
  OBVIOUS
<1> USE DEF IInv, TypeOK, OneCommand
<1>1. CASE ChildRun \/ ChildExit \/ Expire
  BY <1>1 DEF ChildRun, ChildExit, Expire, worker, main
<1>2. CASE WorkerProceeds \/ Query
  BY <1>2 DEF WorkerProceeds, Query, Wake, Popen, EndOfOutput, Pclose, Stored,
              PrintError, ActOnCancel, Unwind, main
<1>3. CASE MainProceeds \/ Crash \/ UNCHANGED vars
  BY <1>3 DEF MainProceeds, Crash, CheckExpired, CheckEmpty, CheckFull, Move,
              Clear, Cancel, Join, worker, main, vars
<1>4. QED
  BY <1>1, <1>2, <1>3 DEF Next

LEMMA FreedStep == IInv /\ [Next]_vars => FreedIsQuiet'
<1> SUFFICES ASSUME IInv, [Next]_vars PROVE FreedIsQuiet'
  OBVIOUS
<1> USE DEF IInv, TypeOK, FreedIsQuiet, OneCommand
<1>1. CASE ChildRun \/ ChildExit \/ Expire
  BY <1>1 DEF ChildRun, ChildExit, Expire, worker, main
<1>2. CASE WorkerProceeds \/ Query
  BY <1>2 DEF WorkerProceeds, Query, Wake, Popen, EndOfOutput, Pclose, Stored,
              PrintError, ActOnCancel, Unwind, main
<1>3. CASE MainProceeds \/ Crash \/ UNCHANGED vars
  BY <1>3 DEF MainProceeds, Crash, CheckExpired, CheckEmpty, CheckFull, Move,
              Clear, Cancel, Join, worker, main, vars
<1>4. QED
  BY <1>1, <1>2, <1>3 DEF Next

LEMMA FreshStep == IInv /\ [Next]_vars => Fresh'
<1> SUFFICES ASSUME IInv, [Next]_vars PROVE Fresh'
  OBVIOUS
<1> USE ExecAssumption DEF IInv, TypeOK, Fresh, Texts, Torn, Empty
<1>1. CASE ChildRun \/ ChildExit \/ Expire
  BY <1>1 DEF ChildRun, ChildExit, Expire, worker, main
<1>2. CASE Popen
  \* the new run is newer than every text there is
  BY <1>2 DEF Popen, main
<1>3. CASE Stored
  BY <1>3 DEF Stored, Output, main
<1>4. CASE Wake \/ Query \/ EndOfOutput \/ Pclose \/ PrintError \/ ActOnCancel \/ Unwind
  BY <1>4 DEF Wake, Query, EndOfOutput, Pclose, PrintError, ActOnCancel, Unwind, main
<1>5. CASE Move
  <2>1. CASE Racing
    BY <1>5, <2>1 DEF Move
  <2>2. CASE ~Racing
    BY <1>5, <2>2 DEF Move, Visible, Leftover, worker
  <2>3. QED
    BY <2>1, <2>2
<1>6. CASE Clear
  <2>1. CASE Racing
    BY <1>6, <2>1 DEF Clear
  <2>2. CASE ~Racing
    BY <1>6, <2>2 DEF Clear, Leftover, worker
  <2>3. QED
    BY <2>1, <2>2
<1>7. CASE CheckExpired \/ CheckEmpty \/ CheckFull \/ Cancel \/ Join \/ Crash \/ UNCHANGED vars
  BY <1>7 DEF CheckExpired, CheckEmpty, CheckFull, Cancel, Join, Crash, worker, main, vars
<1>8. QED
  BY <1>1, <1>2, <1>3, <1>4, <1>5, <1>6, <1>7 DEF Next, WorkerProceeds, MainProceeds

-----------------------------------------------------------------------------

LEMMA ExecIInv == Spec => []IInv
<1>1. IInv /\ [Next]_vars => IInv'
  BY TypeParts, FlagsStep, ValuesStep, OneCommandStep, FreedStep, FreshStep DEF IInv
<1>2. QED
  BY InitIInv, <1>1, PTL DEF Spec

(* Every variable keeps its type: the worker never has a second FILE of    *)
(* popen() open.                                                           *)
THEOREM ExecTypeOK == Spec => []TypeOK
BY ExecIInv, PTL DEF IInv

(* A pipe is open exactly while exec() is at work on it, and no process is *)
(* left that nobody waits for: cancellation at any point keeps this.       *)
THEOREM ExecOneCommand == Spec => []OneCommand
BY ExecIInv, PTL DEF IInv

(* No thread can touch an agent that has been freed, and no command of it  *)
(* is left behind.                                                         *)
THEOREM ExecFreedIsQuiet == Spec => []FreedIsQuiet
BY ExecIInv, PTL DEF IInv

(* Until a data race has happened check() throws no output twice, and none *)
(* that is older than one it has thrown.                                   *)
THEOREM ExecThrowsFresh == Spec => []ThrowsFresh
<1>1. IInv => ThrowsFresh
  BY ExecAssumption DEF IInv, TypeOK, Fresh, ThrowsFresh, Texts, Empty, Torn
<1>2. QED
  BY ExecIInv, <1>1, PTL

=============================================================================
