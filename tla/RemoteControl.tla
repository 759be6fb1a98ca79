--------------------------- MODULE RemoteControl ---------------------------
(***************************************************************************)
(* The agents of several users under remote control.  Every process        *)
(* subscribes to the topic "configure" through the network thread of its   *)
(* MqttAgent, and on_message carries out the commands it finds there:      *)
(* answer, stop, restart, or replace the configuration file and restart.   *)
(* Answers go to the same topic, so every process receives them too.       *)
(*                                                                         *)
(* A process is named by its number, never used again after it exits.      *)
(* Processes of one user run in one directory and share the configuration  *)
(* file there.  Of the broker and of mosquitto_pub, the operator's console,*)
(* only the queues of the subscribers and the commands sent appear.        *)
(***************************************************************************)
EXTENDS Naturals, Sequences, FiniteSets, Functions

CONSTANTS
  Users,
  First,        \* the users of the processes running at the start, a sequence
  Bodies,       \* what an operator puts into a configuration file
  Faults,       \* what can fail, a subset of AllFaults
  MaxPids,      \* bound on the processes ever started
  MaxCommands,  \* bound on the commands of the console
  MaxDrops,     \* bound on the lost connections
  MaxQueue      \* messages the broker keeps for a client, the limit
                \* max_queued_messages of its configuration

AllFaults == {"open", "popen", "refused"}
AllBodies == {"modules", "noModules", "invalid"}

ASSUME RemoteAssumption ==
  /\ First \in Seq(Users)
  /\ Bodies \subseteq AllBodies
  /\ Faults \subseteq AllFaults
  /\ {MaxPids, MaxCommands, MaxDrops, MaxQueue} \subseteq Nat
  /\ Len(First) \in 1..MaxPids

Pids == 1..MaxPids

VARIABLES
  phase,   \* where each process is
  owner,   \* its user, meaningless before it is started
  inbox,   \* messages the broker has for it
  body,    \* what it is writing into its configuration file
  file,    \* the configuration file of every user
  started, \* how many processes have been started
  sent,    \* how many commands the console has published
  drops,   \* how many connections have been lost
  wanted   \* history: the processes a user should have, those at the start
           \* without those that were told to stop

vars == <<phase, owner, inbox, body, file, started, sent, drops, wanted>>

-----------------------------------------------------------------------------
(* Messages. "info" stands for the answers to ls and get, which no process *)
(* takes for a command; the answer to ps begins like the question.         *)

Message(c, u, p, b) == [cmd |-> c, user |-> u, pid |-> p, body |-> b]

Commands ==
  [cmd : {"ls", "ps", "get"}, user : {""}, pid : {0}, body : {""}]
    \cup [cmd : {"get@"}, user : Users, pid : {0}, body : {""}]
    \cup [cmd : {"restart@", "stop@"}, user : Users, pid : Pids, body : {""}]
    \cup [cmd : {"put"}, user : Users, pid : {0}, body : Bodies]

Answers ==
  [cmd : {"info"}, user : Users, pid : {0}, body : {""}]
    \cup [cmd : {"info"}, user : {""}, pid : {0}, body : AllBodies \cup {"truncated"}]
    \cup [cmd : {"ps@"}, user : Users, pid : Pids, body : {""}]

\* A process that is up and has not handed over to another one.
Active == {"booting", "connecting", "subscribing", "listening", "deaf", "writing", "spawning"}

TypeOK ==
  /\ phase \in [Pids -> Active \cup {"none", "exiting", "gone"}]
  /\ owner \in [Pids -> Users]
  /\ DOMAIN inbox = Pids
  /\ \A p \in Pids : Range(inbox[p]) \subseteq Commands \cup Answers
  /\ body \in [Pids -> AllBodies]
  /\ file \in [Users -> AllBodies \cup {"truncated"}]
  /\ started \in 0..MaxPids /\ sent \in 0..MaxCommands /\ drops \in 0..MaxDrops
  /\ wanted \in [Users -> 0..Len(First)]

Init ==
  /\ phase = [p \in Pids |-> IF p <= Len(First) THEN "listening" ELSE "none"]
  /\ owner = [p \in Pids |-> First[IF p <= Len(First) THEN p ELSE 1]]
  /\ inbox = [p \in Pids |-> <<>>]
  /\ body = [p \in Pids |-> "modules"]
  /\ file = [u \in Users |-> "modules"]
  /\ started = Len(First) /\ sent = 0 /\ drops = 0
  /\ wanted = [u \in Users |-> Cardinality({k \in DOMAIN First : First[k] = u})]

-----------------------------------------------------------------------------
(* The console and the broker *)

Listening == {p \in Pids : phase[p] = "listening"}

\* The inboxes after message m has been published; a full one drops it.
Deliver(m, inboxes) ==
  [p \in Pids |-> IF p \in Listening /\ Len(inboxes[p]) < MaxQueue
                  THEN Append(inboxes[p], m) ELSE inboxes[p]]

Console ==
  /\ sent < MaxCommands
  /\ sent' = sent + 1
  /\ \E m \in Commands :
       /\ m.pid <= started
       /\ inbox' = Deliver(m, inbox)
  /\ UNCHANGED <<phase, owner, body, file, started, drops, wanted>>

\* The client asks for a clean session: what the broker had for it is lost.
Drop(p) ==
  /\ phase[p] \in {"connecting", "subscribing", "listening"}
  /\ drops < MaxDrops
  /\ drops' = drops + 1
  /\ phase' = [phase EXCEPT ![p] = "connecting"]
  /\ inbox' = [inbox EXCEPT ![p] = <<>>]
  /\ UNCHANGED <<owner, body, file, started, sent, wanted>>

-----------------------------------------------------------------------------
(* Starting up, and the callbacks on_connect and on_subscribe *)

MoveTo(p, to) ==
  /\ phase' = [phase EXCEPT ![p] = to]
  /\ UNCHANGED <<owner, body, file, started, sent, drops, wanted>>

\* main() parses the file and initialises the modules it names; without a
\* module mainLoop has nothing to do.
Boot(p) ==
  /\ phase[p] = "booting"
  /\ MoveTo(p, IF file[owner[p]] = "modules" THEN "connecting" ELSE "gone")
  /\ UNCHANGED inbox

\* The initialiser of the MqttAgent cannot connect, which ends main().
InitFails(p) ==
  /\ phase[p] = "booting" /\ file[owner[p]] = "modules"
  /\ "refused" \in Faults
  /\ MoveTo(p, "gone")
  /\ UNCHANGED inbox

\* A client that is refused, here or below, disconnects for good.
OnConnect(p) ==
  /\ phase[p] = "connecting"
  /\ \/ MoveTo(p, "subscribing")
     \/ "refused" \in Faults /\ MoveTo(p, "deaf")
  /\ UNCHANGED inbox

OnSubscribe(p) ==
  /\ phase[p] = "subscribing"
  /\ \/ MoveTo(p, "listening")
     \/ "refused" \in Faults /\ MoveTo(p, "deaf")
  /\ UNCHANGED inbox

-----------------------------------------------------------------------------
(* on_message *)

\* A message is handled as a whole before the next one is looked at.
HasMessage(p) == phase[p] = "listening" /\ inbox[p] # <<>>
Taken(p) == [inbox EXCEPT ![p] = Tail(inbox[p])]

\* Slip: the commands are recognised by how they begin.
AnswersTo_Prefix(p, m) ==
  CASE m.cmd = "ls" -> {Message("info", owner[p], 0, "")}
    [] m.cmd \in {"ps", "ps@"} -> {Message("ps@", owner[p], p, "")}
    [] m.cmd = "get" \/ (m.cmd = "get@" /\ m.user = owner[p])
         -> {Message("info", "", 0, file[owner[p]])}
    [] OTHER -> {}

\* What p answers to m, none for other messages.
AnswersTo(p, m) ==
  CASE m.cmd = "ls" -> {Message("info", owner[p], 0, "")}
    [] m.cmd = "ps" -> {Message("ps@", owner[p], p, "")}
    [] m.cmd = "get" \/ (m.cmd = "get@" /\ m.user = owner[p])
         -> {Message("info", "", 0, file[owner[p]])}
    [] OTHER -> {}

IsQuestion(p, m) == AnswersTo(p, m) # {}
IsRestart(p, m) == m.cmd = "restart@" /\ m.user = owner[p] /\ m.pid = p
IsStop(p, m) == m.cmd = "stop@" /\ m.user = owner[p] /\ m.pid = p
IsPut(p, m) == m.cmd = "put" /\ m.user = owner[p]
IsOther(p, m) ==
  ~(IsQuestion(p, m) \/ IsRestart(p, m) \/ IsStop(p, m) \/ IsPut(p, m))
NeedsFile(p, m) == m.cmd = "get" \/ m.cmd = "get@" \/ IsPut(p, m)

Answer(p) ==
  /\ HasMessage(p) /\ IsQuestion(p, Head(inbox[p]))
  /\ \E a \in AnswersTo(p, Head(inbox[p])) : inbox' = Deliver(a, Taken(p))
  /\ UNCHANGED <<phase, owner, body, file, started, sent, drops, wanted>>

\* A message for somebody else, or no command; or a configuration file that
\* cannot be opened.
Ignore(p) ==
  /\ HasMessage(p)
  /\ \/ IsOther(p, Head(inbox[p]))
     \/ "open" \in Faults /\ NeedsFile(p, Head(inbox[p]))
  /\ inbox' = Taken(p)
  /\ UNCHANGED <<phase, owner, body, file, started, sent, drops, wanted>>

Restart(p) ==
  /\ HasMessage(p) /\ IsRestart(p, Head(inbox[p]))
  /\ inbox' = Taken(p)
  /\ MoveTo(p, "spawning")

Stop(p) ==
  /\ HasMessage(p) /\ IsStop(p, Head(inbox[p]))
  /\ inbox' = Taken(p)
  /\ phase' = [phase EXCEPT ![p] = "exiting"]
  /\ wanted' = [wanted EXCEPT ![owner[p]] = @ - 1]
  /\ UNCHANGED <<owner, body, file, started, sent, drops>>

\* Opening the file for output truncates it ...
OpenConfig(p) ==
  /\ HasMessage(p) /\ IsPut(p, Head(inbox[p]))
  /\ body' = [body EXCEPT ![p] = Head(inbox[p]).body]
  /\ inbox' = Taken(p)
  /\ phase' = [phase EXCEPT ![p] = "writing"]
  /\ file' = [file EXCEPT ![owner[p]] = "truncated"]
  /\ UNCHANGED <<owner, started, sent, drops, wanted>>

\* Slip: the new text is still in the stream's buffer when the process ends.
WriteConfig_NoFlush(p) ==
  /\ phase[p] = "writing"
  /\ MoveTo(p, "spawning")
  /\ UNCHANGED inbox

\* Slip: the name of the user in front of the text is not skipped.
WriteConfig_Prefix(p) ==
  /\ phase[p] = "writing"
  /\ file' = [file EXCEPT ![owner[p]] = "prefixed"]
  /\ phase' = [phase EXCEPT ![p] = "spawning"]
  /\ UNCHANGED <<owner, inbox, body, started, sent, drops, wanted>>

\* ... and endl writes the new text out.
WriteConfig(p) ==
  /\ phase[p] = "writing"
  /\ file' = [file EXCEPT ![owner[p]] = body[p]]
  /\ phase' = [phase EXCEPT ![p] = "spawning"]
  /\ UNCHANGED <<owner, inbox, body, started, sent, drops, wanted>>

\* Slip: the process goes on listening after it has started its successor.
Spawn_NoExit(p) ==
  /\ phase[p] = "spawning"
  /\ started < MaxPids
  /\ started' = started + 1
  /\ owner' = [owner EXCEPT ![started + 1] = owner[p]]
  /\ phase' = [phase EXCEPT ![p] = "listening", ![started + 1] = "booting"]
  /\ UNCHANGED <<inbox, body, file, sent, drops, wanted>>

\* exec() starts another agent in the same directory. Its exception cannot
\* cross the client library, which is C, and ends the program. (A successor
\* that inherits the closed pipe survives writing to it: the client library
\* has made both processes ignore SIGPIPE.)
Spawn(p) ==
  /\ phase[p] = "spawning"
  /\ \/ /\ started < MaxPids
        /\ started' = started + 1
        /\ owner' = [owner EXCEPT ![started + 1] = owner[p]]
        /\ phase' = [phase EXCEPT ![p] = "exiting", ![started + 1] = "booting"]
        /\ UNCHANGED inbox
     \/ /\ "popen" \in Faults
        /\ phase' = [phase EXCEPT ![p] = "gone"]
        /\ inbox' = [inbox EXCEPT ![p] = <<>>]
        /\ UNCHANGED <<started, owner>>
  /\ UNCHANGED <<body, file, sent, drops, wanted>>

\* exit(-1), with all threads of the process.
Exit(p) ==
  /\ phase[p] = "exiting"
  /\ inbox' = [inbox EXCEPT ![p] = <<>>]
  /\ MoveTo(p, "gone")

-----------------------------------------------------------------------------

Step(p) ==
  \/ Boot(p) \/ InitFails(p) \/ OnConnect(p) \/ OnSubscribe(p)
  \/ Answer(p) \/ Ignore(p) \/ Restart(p) \/ Stop(p)
  \/ OpenConfig(p) \/ WriteConfig(p) \/ Spawn(p) \/ Exit(p)

Next == Console \/ \E p \in Pids : Step(p) \/ Drop(p)

\* Every process runs. Nobody has to send commands, and no connection has
\* to break.
Spec == Init /\ [][Next]_vars /\ \A p \in Pids : WF_vars(Step(p))

-----------------------------------------------------------------------------
(* Properties *)

(* Commands neither lose an agent nor multiply it: at any time a user has  *)
(* the agents it had at the start, without those it was asked to stop.     *)
(* Restarting and replacing the configuration pass an agent on to exactly  *)
(* one successor, which finds a configuration it can read.                 *)
Population ==
  \A u \in Users :
    Cardinality({p \in Pids : owner[p] = u /\ phase[p] \in Active}) = wanted[u]

(* Whatever fails, commands never multiply an agent: two that share a user *)
(* and a configuration file, an unreadable configuration, a refused        *)
(* connection or a failing popen() can only cost agents.                   *)
NeverMore ==
  \A u \in Users :
    Cardinality({p \in Pids : owner[p] = u /\ phase[p] \in Active}) <= wanted[u]

(* Agents that are wanted come back under control after every restart and  *)
(* every lost connection.                                                  *)
BackOnline ==
  \A u \in Users :
    wanted[u] > 0 ~> wanted[u] = 0 \/ \E p \in Listening : owner[p] = u

(* The answers, which every agent receives as well, provoke no further     *)
(* answers: once the console is silent the topic falls silent.             *)
FallsSilent == <>[](\A p \in Pids : inbox[p] = <<>>)

=============================================================================
