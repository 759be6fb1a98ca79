----------------------------- MODULE ExecAgent -----------------------------
(***************************************************************************)
(* One ExecAgent: a worker thread that runs a shell command at a fixed     *)
(* rate, and the main thread, which polls it with check() and destroys it  *)
(* when its timeout has passed.  The threads share the string `result`     *)
(* with no lock: the worker assigns it, check() moves it out and clears    *)
(* it.                                                                     *)
(*                                                                         *)
(* The output of a command is named by the number of its run, 0 is the     *)
(* empty string.  The worker's assignment of `result` is an interval: an   *)
(* access of the main thread inside it is a data race. A read finds the    *)
(* old text, the new one or a torn mixture; a write can also undo the      *)
(* assignment, or corrupt the heap and crash the process.                  *)
(***************************************************************************)
EXTENDS Naturals

CONSTANTS
  MaxRuns,     \* bound on the commands run; the worker then sleeps on
  WithSamples, \* samples > 0: every run first queries the database
  Outputs      \* what commands print: a subset of {"nothing", "text"}

ASSUME ExecAssumption ==
  MaxRuns \in Nat /\ WithSamples \in BOOLEAN /\ Outputs \subseteq {"nothing", "text"}

VARIABLES
  wpc,       \* where the worker is in executor()
  run,       \* number of the command being run, or run last
  printed,   \* that command has printed something
  failed,    \* its exit status is not 0
  child,     \* its process: "none" (also once reaped), "running",
             \* "closed" (running, its output closed) or "zombie"
  pipe,      \* how many FILEs popen() has opened and pclose() not closed
  result,    \* the shared string
  raced,     \* check() has written `result` during the assignment
  expired,   \* quitAt has passed
  cancelled, \* pthread_cancel has been called
  mpc,       \* where the main thread is
  x,         \* the local string of check()
  lastThrown,\* history: the last text thrown by check()
  owed       \* history: the run that failed last, until check() throws its
             \* output or a later run succeeds; 0 when there is none

worker == <<wpc, run, printed, failed, pipe>>
main == <<mpc, x, lastThrown>>
vars == <<worker, child, result, raced, expired, cancelled, main, owed>>

Empty == 0
Torn == MaxRuns + 1
Texts == Empty..Torn

TypeOK ==
  /\ wpc \in {"sleep", "query", "popen", "fgets", "pclose", "storing",
              "print", "unwind", "gone"}
  /\ run \in 0..MaxRuns
  /\ printed \in BOOLEAN /\ failed \in BOOLEAN /\ pipe \in 0..1
  /\ child \in {"none", "running", "closed", "zombie"}
  /\ result \in Texts /\ x \in Texts /\ lastThrown \in Texts
  /\ raced \in BOOLEAN /\ expired \in BOOLEAN /\ cancelled \in BOOLEAN
  /\ owed \in 0..MaxRuns
  /\ mpc \in {"poll", "move", "clear", "cancel", "join", "freed", "crashed"}

\* The constructor has started the thread.
Init ==
  /\ wpc = "sleep" /\ run = 0 /\ printed = FALSE /\ failed = FALSE
  /\ child = "none" /\ pipe = 0
  /\ result = Empty /\ raced = FALSE
  /\ expired = FALSE /\ cancelled = FALSE
  /\ mpc = "poll" /\ x = Empty /\ lastThrown = Empty
  /\ owed = 0

Up == mpc # "crashed"
Output == IF printed THEN run ELSE Empty

-----------------------------------------------------------------------------
(* The command *)

ChildRun ==
  /\ child = "running"
  /\ \/ ~printed /\ "text" \in Outputs /\ printed' = TRUE /\ UNCHANGED child
     \/ /\ printed \/ "nothing" \in Outputs
        /\ child' = "closed"
        /\ UNCHANGED printed
  /\ UNCHANGED <<wpc, run, failed, pipe, result, raced, expired, cancelled, main, owed>>

ChildExit ==
  /\ child = "closed"
  /\ child' = "zombie"
  /\ failed' \in BOOLEAN
  /\ UNCHANGED <<wpc, run, printed, pipe, result, raced, expired, cancelled, main, owed>>

-----------------------------------------------------------------------------
(* The worker: executor() and exec() *)

\* sleep_for(next - now) returns; it has been no cancellation point when the
\* worker is behind its schedule.
Wake ==
  /\ Up /\ wpc = "sleep"
  /\ run < MaxRuns
  /\ wpc' = IF WithSamples THEN "query" ELSE "popen"
  /\ UNCHANGED <<run, printed, failed, pipe, child, result, raced, expired, cancelled, main, owed>>

\* readData() has an answer or gives up with an empty one, or throws.
Query ==
  /\ Up /\ wpc = "query"
  /\ wpc' \in {"popen", "print"}
  /\ UNCHANGED <<run, printed, failed, pipe, child, result, raced, expired, cancelled, main, owed>>

Popen ==
  /\ Up /\ wpc = "popen"
  /\ \/ /\ run' = run + 1 /\ printed' = FALSE /\ failed' = FALSE
        /\ child' = "running" /\ pipe' = pipe + 1
        /\ wpc' = "fgets"
     \/ /\ wpc' = "print"
        /\ UNCHANGED <<run, printed, failed, pipe, child>>
  /\ UNCHANGED <<result, raced, expired, cancelled, main, owed>>

\* fgets() meets the end of the output. It reads the pipe, so it acts on a
\* cancellation first.
EndOfOutput ==
  /\ Up /\ wpc = "fgets"
  /\ ~cancelled
  /\ child \in {"closed", "zombie"}
  /\ wpc' = "pclose"
  /\ UNCHANGED <<run, printed, failed, pipe, child, result, raced, expired, cancelled, main, owed>>

\* Slip: the command is waited for as with waitpid(), and its FILE stays open.
Pclose_WaitsOnly ==
  /\ Up /\ wpc = "pclose"
  /\ child = "zombie"
  /\ child' = "none"
  /\ wpc' = "storing"
  /\ UNCHANGED <<run, printed, failed, pipe, result, raced, expired, cancelled, main, owed>>

\* pclose() waits for the command, and defers cancellation. Whether the
\* command failed or not, its output is then assigned to `result`.
Pclose ==
  /\ Up /\ wpc = "pclose"
  /\ child = "zombie"
  /\ child' = "none" /\ pipe' = pipe - 1
  /\ wpc' = "storing"
  /\ UNCHANGED <<run, printed, failed, result, raced, expired, cancelled, main, owed>>

\* The assignment is over; after a race it may have been undone or mixed up.
Stored ==
  /\ Up /\ wpc = "storing"
  /\ IF raced THEN result' \in {Output, result, Torn} ELSE result' = Output
  /\ wpc' = IF failed THEN "print" ELSE "sleep"
  /\ owed' = IF failed THEN run ELSE 0
  /\ UNCHANGED <<run, printed, failed, pipe, child, raced, expired, cancelled, main>>

\* The handler prints the exception, and nothing else.
PrintError ==
  /\ Up /\ wpc = "print"
  /\ ~cancelled
  /\ wpc' = "sleep"
  /\ UNCHANGED <<run, printed, failed, pipe, child, result, raced, expired, cancelled, main, owed>>

\* Slip: exec() has no catch (...) to close the pipe of a cancelled run.
ActOnCancel_NoCatch ==
  /\ Up /\ cancelled
  /\ wpc \in {"sleep", "query", "print", "fgets"}
  /\ wpc' = "gone"
  /\ UNCHANGED <<run, printed, failed, pipe, child, result, raced, expired, cancelled, main, owed>>

\* A cancellation point unwinds the thread; inside exec() catch (...) first
\* closes the pipe.
ActOnCancel ==
  /\ Up /\ cancelled
  /\ wpc \in {"sleep", "query", "print", "fgets"}
  /\ wpc' = IF wpc = "fgets" THEN "unwind" ELSE "gone"
  /\ UNCHANGED <<run, printed, failed, pipe, child, result, raced, expired, cancelled, main, owed>>

\* The pclose() of catch (...) waits for the command as well.
Unwind ==
  /\ Up /\ wpc = "unwind"
  /\ child = "zombie"
  /\ child' = "none" /\ pipe' = pipe - 1
  /\ wpc' = "gone"
  /\ UNCHANGED <<run, printed, failed, result, raced, expired, cancelled, main, owed>>

-----------------------------------------------------------------------------
(* The main thread: check() and the destructor *)

\* What a read of `result` can return, and what emptying it can leave.
Racing == wpc = "storing" /\ {result, Output} # {Empty}
Visible == IF Racing THEN {result, Output, Torn} ELSE {result}
Leftover == IF Racing THEN {Empty, Output, Torn} ELSE {Empty}

\* An agent without a timeout never expires.
Expire ==
  /\ ~expired
  /\ expired' = TRUE
  /\ UNCHANGED <<worker, child, result, raced, cancelled, main, owed>>

CheckExpired ==
  /\ mpc = "poll" /\ expired
  /\ mpc' = "cancel"
  /\ UNCHANGED <<worker, child, result, raced, expired, cancelled, x, lastThrown, owed>>

\* Nothing in the mailbox: check() returns true.
CheckEmpty ==
  /\ mpc = "poll" /\ ~expired
  /\ Empty \in Visible
  /\ UNCHANGED vars

CheckFull ==
  /\ mpc = "poll" /\ ~expired
  /\ \E v \in Visible : v # Empty
  /\ mpc' = "move"
  /\ UNCHANGED <<worker, child, result, raced, expired, cancelled, x, lastThrown, owed>>

\* Slip: the text is copied out of `result`, and never cleared.
Move_Copies ==
  /\ mpc = "move"
  /\ x' \in Visible
  /\ mpc' = "poll" /\ lastThrown' = x'
  /\ owed' = IF x' = owed THEN 0 ELSE owed
  /\ UNCHANGED <<worker, child, result, raced, expired, cancelled>>

\* string x = std::move(result);
Move ==
  /\ mpc = "move"
  /\ x' \in Visible /\ result' \in Leftover
  /\ mpc' = "clear"
  /\ raced' = (raced \/ Racing)
  /\ UNCHANGED <<worker, child, expired, cancelled, lastThrown, owed>>

\* result = ""; throw runtime_error(x);
Clear ==
  /\ mpc = "clear"
  /\ result' \in Leftover
  /\ raced' = (raced \/ Racing)
  /\ mpc' = "poll" /\ lastThrown' = x /\ x' = Empty
  /\ owed' = IF x = owed THEN 0 ELSE owed
  /\ UNCHANGED <<worker, child, expired, cancelled>>

\* Two threads that take or free the same buffer corrupt the heap.
Crash ==
  /\ mpc \in {"move", "clear"} /\ Racing
  /\ mpc' = "crashed"
  /\ UNCHANGED <<worker, child, result, raced, expired, cancelled, x, lastThrown, owed>>

\* Slip: the destructor joins a thread it has not cancelled.
Cancel_Forgotten ==
  /\ mpc = "cancel"
  /\ mpc' = "join"
  /\ UNCHANGED <<worker, child, result, raced, expired, cancelled, x, lastThrown, owed>>

\* ~ExecAgent
Cancel ==
  /\ mpc = "cancel"
  /\ cancelled' = TRUE
  /\ mpc' = "join"
  /\ UNCHANGED <<worker, child, result, raced, expired, x, lastThrown, owed>>

\* Slip: the destructor does not join.
Join_Detach ==
  /\ mpc = "join"
  /\ mpc' = "freed"
  /\ UNCHANGED <<worker, child, result, raced, expired, cancelled, x, lastThrown, owed>>

Join ==
  /\ mpc = "join"
  /\ wpc = "gone"
  /\ mpc' = "freed"
  /\ UNCHANGED <<worker, child, result, raced, expired, cancelled, x, lastThrown, owed>>

-----------------------------------------------------------------------------

\* What the worker does without waiting for the database.
WorkerProceeds ==
  \/ Wake \/ Popen \/ EndOfOutput \/ Pclose \/ Stored \/ PrintError
  \/ ActOnCancel \/ Unwind

MainProceeds == CheckExpired \/ CheckEmpty \/ CheckFull \/ Move \/ Clear \/ Cancel \/ Join

Next ==
  \/ WorkerProceeds \/ Query
  \/ MainProceeds \/ Crash
  \/ ChildRun \/ ChildExit \/ Expire

\* The scheduler runs both threads. Neither the database nor a command has to
\* answer.
Spec ==
  /\ Init /\ [][Next]_vars
  /\ WF_vars(WorkerProceeds) /\ WF_vars(MainProceeds)

\* Every command also ends.
SpecCommandsEnd == Spec /\ WF_vars(ChildRun) /\ WF_vars(ChildExit)

-----------------------------------------------------------------------------
(* Properties *)

(* A pipe is open exactly while exec() is at work on it, and a process     *)
(* that has not been waited for belongs to it: a cancellation of exec()    *)
(* leaks neither, because of catch (...).                                  *)
OneCommand ==
  /\ pipe = 1 <=> wpc \in {"fgets", "pclose", "unwind"}
  /\ child # "none" <=> pipe = 1

(* Once the agent is freed no thread can touch it, and no command of it    *)
(* is left behind.                                                         *)
FreedIsQuiet == mpc = "freed" => wpc = "gone" /\ pipe = 0 /\ child = "none"

(* Without a data race, what check() is about to take and throw is newer   *)
(* than everything it has thrown: no output is reported twice or late. It  *)
(* can be empty, when a run without output ends after empty() was asked.   *)
ThrowsFresh ==
  mpc = "move" /\ ~raced => result = Empty \/ result \in (lastThrown + 1)..run

(* A failure that check() still has to throw is in the mailbox, or in the  *)
(* local variable of check() on its way out; after a data race anything    *)
(* goes.                                                                   *)
FailureKept ==
  owed # 0 /\ ~raced => result = owed \/ (mpc = "clear" /\ x = owed)

(* mainLoop is back from the destructor some time after the timeout.       *)
ExpiredIsFreed == expired ~> mpc \in {"freed", "crashed"}

=============================================================================
