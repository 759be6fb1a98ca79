---------------------------- MODULE AgentProcess ----------------------------
(***************************************************************************)
(* One agent process: the host of PluginHost with the agents it checks.    *)
(* Each check() is a whole turn here, because only the main thread runs    *)
(* them; the worker threads of ExecAgent and TestAgent appear as mailboxes *)
(* they write to at any time (their races are in the modules of these      *)
(* agents).  The MqttAgent publishes the state of the host when a turn of  *)
(* its finds that it has changed.                                          *)
(***************************************************************************)
EXTENDS Integers, FiniteSets

CONSTANTS
  N, Messages, Seconds,  \* as in PluginHost
  Kind,       \* the agent of every configured module
  MaxEvents,  \* 10 in the code, shared by all TempAgents of the process
  MaxPosts    \* bound on what the workers put into their mailboxes

Kinds == {"worker", "temp", "mqtt"}

ASSUME ProcessAssumption ==
  /\ N \in Nat /\ Kind \in [1..N -> Kinds]
  /\ Seconds # {} /\ Seconds \subseteq Nat \ {0}
  /\ {MaxEvents, MaxPosts} \subseteq Nat

VARIABLES
  loaded, listeners, next, live, it, prev, pc, lastError,  \* of PluginHost
  mail,      \* ExecAgent::result or TestAgent::state
  quit,      \* quitAt has passed, or TestAgent::alive is false
  posts,     \* how often workers have written to mailboxes
  maxEvents, \* TempAgent::check's static counter
  now,       \* time(nullptr)
  state      \* MqttAgent::state, the report published last

H == INSTANCE PluginHost

host == <<loaded, listeners, next, live, it, prev, pc, lastError>>
agents == <<mail, quit, posts, maxEvents, now, state>>
vars == <<host, agents>>

Agents == 1..N
NoMail == ""
NoReport == [error |-> H!NoError, count |-> -1]

TypeOK ==
  /\ H!TypeOK
  /\ mail \in [Agents -> Messages \cup {NoMail}]
  /\ quit \in [Agents -> BOOLEAN]
  /\ posts \in 0..MaxPosts
  /\ maxEvents \in -N..MaxEvents
  /\ now \in Seconds
  /\ state.count \in -1..N
  /\ state.error \in [message : Messages, timestamp : Seconds] \cup {H!NoError}

Init ==
  /\ H!Init
  /\ mail = [a \in Agents |-> NoMail]
  /\ quit = [a \in Agents |-> FALSE]
  /\ posts = 0
  /\ maxEvents = MaxEvents
  /\ now \in {s \in Seconds : \A t \in Seconds : s <= t}
  /\ state = NoReport

-----------------------------------------------------------------------------
(* Worker threads and the clock *)

Post(a) ==
  /\ a \in live /\ Kind[a] = "worker"
  /\ posts < MaxPosts
  /\ posts' = posts + 1
  /\ \E m \in Messages : mail' = [mail EXCEPT ![a] = m]
  /\ UNCHANGED <<host, quit, maxEvents, now, state>>

Quit(a) ==
  /\ a \in live /\ Kind[a] = "worker"
  /\ ~quit[a]
  /\ quit' = [quit EXCEPT ![a] = TRUE]
  /\ UNCHANGED <<host, mail, posts, maxEvents, now, state>>

Tick ==
  /\ \E s \in Seconds : s > now /\ now' = s
  /\ UNCHANGED <<host, mail, quit, posts, maxEvents, state>>

-----------------------------------------------------------------------------
(* The main thread *)

Turn(kind) == pc = "check" /\ Kind[it] = kind

\* check() of ExecAgent and TestAgent: the end first, then the mailbox.
WorkerCheck ==
  /\ Turn("worker")
  /\ \/ quit[it] /\ H!CheckDead /\ UNCHANGED mail
     \/ ~quit[it] /\ mail[it] = NoMail /\ H!CheckAlive /\ UNCHANGED mail
     \/ /\ ~quit[it] /\ mail[it] # NoMail
        /\ H!CheckThrows(mail[it], now)
        /\ mail' = [mail EXCEPT ![it] = NoMail]
  /\ UNCHANGED <<quit, posts, maxEvents, now, state>>

\* Slip: the agent never ends.
TempCheck_StaysAlive ==
  /\ Turn("temp")
  /\ maxEvents' = maxEvents - 1
  /\ H!CheckAlive
  /\ UNCHANGED <<mail, quit, posts, now, state>>

\* One of the events reads the database on the main thread, and can throw.
TempCheck ==
  /\ Turn("temp")
  /\ maxEvents' = maxEvents - 1
  /\ \/ maxEvents' < 0 /\ H!CheckDead
     \/ maxEvents' >= 0 /\ H!CheckAlive
     \/ maxEvents' = 4 /\ \E m \in Messages : H!CheckThrows(m, now)
  /\ UNCHANGED <<mail, quit, posts, now, state>>

\* Slip: the count starts after the head of the list.
Report_SkipsHead == [error |-> lastError, count |-> Cardinality(H!Walk \ {listeners})]

\* reportState()
Report == [error |-> lastError, count |-> Cardinality(H!Walk)]

\* Slip: only a new error is published.
MqttCheck_ErrorOnly ==
  /\ Turn("mqtt")
  /\ H!CheckAlive
  /\ state' = IF Report.error = state.error /\ state # NoReport THEN state ELSE Report
  /\ UNCHANGED <<mail, quit, posts, maxEvents, now>>

\* Slip: only a new number of agents is published.
MqttCheck_CountOnly ==
  /\ Turn("mqtt")
  /\ H!CheckAlive
  /\ state' = IF Report.count = state.count THEN state ELSE Report
  /\ UNCHANGED <<mail, quit, posts, maxEvents, now>>

\* Slip: the agent gives up when it cannot publish.
MqttCheck_GivesUp ==
  /\ Turn("mqtt")
  /\ \/ H!CheckAlive /\ state' = Report
     \/ H!CheckDead /\ UNCHANGED state
  /\ UNCHANGED <<mail, quit, posts, maxEvents, now>>

\* A report that equals the last one is not published again. The result of
\* mosquitto_publish is only printed.
MqttCheck ==
  /\ Turn("mqtt")
  /\ H!CheckAlive
  /\ state' = Report
  /\ UNCHANGED <<mail, quit, posts, maxEvents, now>>

Main ==
  \/ (H!Load \/ H!LoadFails \/ H!EnterLoop \/ H!Delete) /\ UNCHANGED agents
  \/ WorkerCheck \/ TempCheck \/ MqttCheck

Next == Main \/ Tick \/ \E a \in Agents : Post(a) \/ Quit(a)

\* The main thread runs, and every destructor returns (ExecAgent shows when
\* it does). Workers need not have anything to say.
Spec == Init /\ [][Next]_vars /\ WF_vars(Main)

-----------------------------------------------------------------------------
(* Properties *)

Watching == pc \in {"check", "delete"}

(* What is published lags behind the host and never leads it: it counts at *)
(* least the agents that are still there, and its error is not newer than  *)
(* the last one.                                                           *)
ReportLags ==
  state # NoReport =>
    /\ state.count \in Cardinality(H!Linked)..N
    /\ state.error.timestamp <= lastError.timestamp

(* A process whose modules all started, one of them the MqttAgent, goes on *)
(* watching: it can be reached for as long as it runs.                     *)
GoesOnWatching == pc = "exited" => loaded < N \/ \A a \in Agents : Kind[a] # "mqtt"

(* The end of an agent is published: once agents stop ending, the last     *)
(* report counts those that are left.                                      *)
CountConverges == <>[](Watching => state.count = Cardinality(live))

(* Every error that becomes the last error is published, unless another    *)
(* takes its place before the turn of the MqttAgent.                       *)
ErrorPublished ==
  \A m \in Messages, t \in Seconds :
    LET e == [message |-> m, timestamp |-> t]
    IN  lastError = e ~> state.error = e \/ lastError # e \/ ~Watching

=============================================================================
