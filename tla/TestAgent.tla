----------------------------- MODULE TestAgent -----------------------------
(***************************************************************************)
(* One TestAgent: a worker thread that diagnoses the newest database       *)
(* entries a fixed number of times and then stops, and the main thread,    *)
(* which polls it with check() and destroys it once it has stopped.  The   *)
(* threads share the string `state` and the flag `alive` with no lock.     *)
(*                                                                         *)
(* A text in `state` is named by the number of the iteration that found    *)
(* the problem, 0 is the empty string.  As in ExecAgent an assignment of   *)
(* the string is an interval, and an access of the main thread inside it   *)
(* a data race; `alive` is a byte, whose accesses are indivisible.         *)
(***************************************************************************)
EXTENDS Naturals

CONSTANTS
  Iterations,  \* 5 in the code
  Answers      \* what readData can do, a subset of AllAnswers

\* "refused": the query failed and readData returned no entries
AllAnswers == {"varied", "equal", "refused", "throws"}

ASSUME TestAssumption == Iterations \in Nat \ {0} /\ Answers \subseteq AllAnswers

VARIABLES
  wpc,       \* where the worker is in execute()
  i,         \* iterations begun
  alive,     \* the flag the worker clears when it stops
  state,     \* the shared string
  raced,     \* check() has copied or cleared `state` during an assignment
  mpc,       \* where the main thread is
  x,         \* the local string of check()
  lastThrown,\* history: the last text thrown by check()
  owed       \* history: the last iteration that met a failure check() has
             \* not thrown, 0 when there is none

worker == <<wpc, i, alive>>
main == <<mpc, x, lastThrown>>
vars == <<worker, state, raced, main, owed>>

Empty == 0
Torn == Iterations + 1
Texts == Empty..Torn

TypeOK ==
  /\ wpc \in {"loop", "query", "storing", "stopped", "gone"}
  /\ i \in 0..Iterations
  /\ alive \in BOOLEAN /\ raced \in BOOLEAN
  /\ state \in Texts /\ x \in Texts /\ lastThrown \in Texts
  /\ owed \in 0..Iterations
  /\ mpc \in {"poll", "empty", "copy", "clear", "join", "freed", "crashed"}

\* The constructor has started the thread.
Init ==
  /\ wpc = "loop" /\ i = 0 /\ alive = TRUE
  /\ state = Empty /\ raced = FALSE
  /\ mpc = "poll" /\ x = Empty /\ lastThrown = Empty
  /\ owed = 0

Up == mpc # "crashed"

-----------------------------------------------------------------------------
(* The worker: execute() *)

\* Slip: one iteration too many.
Iterate_OneMore ==
  /\ Up /\ wpc = "loop"
  /\ i <= Iterations
  /\ i' = i + 1
  /\ wpc' = "query"
  /\ UNCHANGED <<alive, state, raced, main, owed>>

\* The next iteration has slept.
Iterate ==
  /\ Up /\ wpc = "loop"
  /\ i < Iterations
  /\ i' = i + 1
  /\ wpc' = "query"
  /\ UNCHANGED <<alive, state, raced, main, owed>>

\* An answer whose values differ, or which has none, leaves `state` alone:
\* the minimum and the maximum of nothing are two infinities.
Query(answer) ==
  /\ Up /\ wpc = "query"
  /\ wpc' = IF answer \in {"equal", "throws"} THEN "storing" ELSE "loop"
  /\ owed' = IF answer = "refused" THEN i ELSE owed
  /\ UNCHANGED <<i, alive, state, raced, main>>

Stored ==
  /\ Up /\ wpc = "storing"
  /\ IF raced THEN state' \in {i, state, Torn} ELSE state' = i
  /\ wpc' = "loop"
  /\ owed' = i
  /\ UNCHANGED <<i, alive, raced, main>>

\* Slip: the agent reports its end before its last iteration.
Stop_BeforeLast ==
  /\ Up /\ wpc = "loop"
  /\ i = Iterations - 1 /\ alive
  /\ alive' = FALSE
  /\ UNCHANGED <<wpc, i, state, raced, main, owed>>

\* The loop is over: stop the agent ...
Stop ==
  /\ Up /\ wpc = "loop"
  /\ i = Iterations
  /\ alive' = FALSE
  /\ wpc' = "stopped"
  /\ UNCHANGED <<i, state, raced, main, owed>>

\* ... and leave the thread.
Return ==
  /\ Up /\ wpc = "stopped"
  /\ wpc' = "gone"
  /\ UNCHANGED <<i, alive, state, raced, main, owed>>

-----------------------------------------------------------------------------
(* The main thread: check() and the destructor *)

\* What a read of `state` can return, and what clearing it can leave.
Racing == wpc = "storing"
Visible == IF Racing THEN {state, i, Torn} ELSE {state}
Leftover == IF Racing THEN {Empty, i, Torn} ELSE {Empty}

\* check() looks at `alive` first.
CheckAlive ==
  /\ mpc = "poll"
  /\ mpc' = IF alive THEN "empty" ELSE "join"
  /\ UNCHANGED <<worker, state, raced, x, lastThrown, owed>>

CheckState ==
  /\ mpc = "empty"
  /\ \E v \in Visible : mpc' = IF v = Empty THEN "poll" ELSE "copy"
  /\ UNCHANGED <<worker, state, raced, x, lastThrown, owed>>

\* string x = state;
Copy ==
  /\ mpc = "copy"
  /\ x' \in Visible
  /\ raced' = (raced \/ Racing)
  /\ mpc' = "clear"
  /\ UNCHANGED <<worker, state, lastThrown, owed>>

\* Slip: the text is thrown and stays in `state`.
Clear_KeepsText ==
  /\ mpc = "clear"
  /\ mpc' = "poll" /\ lastThrown' = x /\ x' = Empty
  /\ owed' = IF x = owed THEN 0 ELSE owed
  /\ UNCHANGED <<worker, state, raced>>

\* state = ""; throw runtime_error(x);
Clear ==
  /\ mpc = "clear"
  /\ state' \in Leftover
  /\ raced' = (raced \/ Racing)
  /\ mpc' = "poll" /\ lastThrown' = x /\ x' = Empty
  /\ owed' = IF x = owed THEN 0 ELSE owed
  /\ UNCHANGED worker

\* A buffer that is copied or cleared while it is replaced.
Crash ==
  /\ mpc \in {"copy", "clear"} /\ Racing
  /\ mpc' = "crashed"
  /\ UNCHANGED <<worker, state, raced, x, lastThrown, owed>>

\* Slip: the destructor does not join.
Join_Detach ==
  /\ mpc = "join"
  /\ mpc' = "freed"
  /\ UNCHANGED <<worker, state, raced, x, lastThrown, owed>>

\* ~TestAgent
Join ==
  /\ mpc = "join"
  /\ wpc = "gone"
  /\ mpc' = "freed"
  /\ UNCHANGED <<worker, state, raced, x, lastThrown, owed>>

-----------------------------------------------------------------------------

WorkerProceeds == Iterate \/ Stored \/ Stop \/ Return
MainProceeds == CheckAlive \/ CheckState \/ Copy \/ Clear \/ Join
DatabaseAnswers == \E answer \in Answers : Query(answer)

Next == WorkerProceeds \/ DatabaseAnswers \/ MainProceeds \/ Crash

\* The scheduler runs both threads; the database need not answer.
Spec ==
  /\ Init /\ [][Next]_vars
  /\ WF_vars(WorkerProceeds) /\ WF_vars(MainProceeds)

-----------------------------------------------------------------------------
(* Properties *)

(* Once the agent is freed its thread is gone, and the thread went because *)
(* it had done all its iterations: nothing cuts a diagnosis short.         *)
FreedIsQuiet == mpc = "freed" => wpc = "gone" /\ i = Iterations

(* Without a data race, what check() is about to throw is newer than       *)
(* everything it has thrown, and never empty.                              *)
ThrowsFresh ==
  mpc = "copy" /\ ~raced => state \in (lastThrown + 1)..i \/ Racing

(* The host waits for the thread of an agent only after the agent has made *)
(* its last query, so a database that does not answer cannot stop mainLoop *)
(* in the destructor.                                                      *)
JoinIsPrompt == mpc = "join" => wpc \in {"stopped", "gone"}

(* An agent that has stopped is destroyed, whatever the database does.     *)
StoppedIsFreed == ~alive ~> mpc \in {"freed", "crashed"}

(* When the agent is gone check() has thrown the last failure it met.      *)
DiesReported == mpc = "freed" /\ ~raced => owed = 0

=============================================================================
