# Specifications of the agent host

TLA+ modules, model-checking configurations and machine-checked proofs for the
program in `src/`: a host process that loads agents from shared libraries,
watches over them, and is controlled over MQTT.

Everything is written from the C++ code. `PROJECT.json` maps each definition to
the lines it stands for. `tlc -config X.cfg M` runs a model, `tlapm M.tla`
checks the proofs of a module.

## 1. The system

### Components

| component | source | state | operations |
|---|---|---|---|
| start-up | `src/src/main.cpp` | `homePath`, `args.settings` | search for `config.json`, `initPlugin` for every option with a `module` key, then for every argument; abort at the first code that is not 0 |
| plugin host | `src/src/core/agent_config.*` | the intrusive list `listeners` / `Agent::next`, `lastErrorMessage`, `lastErrorTimestamp` | `addAgent`, `mainLoop`, `reportState`, `getConfig`, `readData` |
| agent interface | `src/src/agent.h` | `Agent::next` | `check()`, destructor |
| ExecAgent | `src/src/agent/ExecAgent.cpp` | `result`, `quitAt`, a thread, a child process and its pipe | `executor`/`exec` on the thread, `check` and the destructor on the main thread |
| TestAgent | `src/src/agent/TestAgent.cpp` | `state`, `alive`, a thread | `execute` on the thread, `check` and the destructor on the main thread |
| TempAgent | `src/src/agent/TempAgent.cpp` | the static counter `maxEvents` | `check`; the initialiser runs a Python script |
| MqttAgent | `src/src/agent/MqttAgent.cpp` | `state`; static `user`, `topic`, `configFile`, `mosq` | `check` on the main thread; `on_connect`, `on_subscribe`, `on_message` on the network thread |
| database client | `src/src/lib/influxdb.hpp` | a socket and a buffer per request | `http_request` on whatever thread calls `readData` |
| MQTT client library | `src/src/lib/mosquitto/lib` | unfinished messages with their quota, packets to be written, the state of the connection | `mosquitto_publish` on the main thread, `mosquitto_loop_forever` on the network thread |
| broker | `src/src/lib/mosquitto/src` | one context per connection, stored messages, a queue per subscriber | `handle__connect`, `handle__publish`, `handle__pubrel`, `sub__messages_queue`, loss of a connection |
| JSON library | `src/src/lib/rapidjson` | | vendored, without state of its own |
| clients | `src/extras` | | example user interfaces |

### Interaction

* `mainLoop` runs on the main thread for ever. It calls `check()` of one agent
  after the other and sleeps 1 ms in between. `check()` answers true, answers
  false (the agent is unlinked and deleted, the walk starts over), or throws
  (the text becomes the last error).
* An ExecAgent or TestAgent has a worker thread. Worker and `check()` share a
  `std::string` mailbox, and TestAgent a flag, with no lock. The destructor runs
  inside `mainLoop` and joins the worker; ExecAgent cancels it first.
* The MqttAgent reads the state of the host in its own turn and publishes it
  when it has changed. Its network thread receives commands on the topic
  `configure`, answers on the same topic, or replaces the process: it starts
  `./Agent` and calls `exit(-1)`.
* The library keeps a published report until the broker has answered four
  packets about it, over as many connections as that takes. The main thread
  queues packets, the network thread writes, reads and reconnects.
* `readData` asks the database from a worker thread or, for a TempAgent, from
  the main thread; the destructors above wait for it.
* Processes of one user that run in one directory share `config.json`.

### What is hard here, and what should hold

* **Host.** Deaths and errors in any order under a walk with a trailing cursor:
  the list stays sound, no cursor dangles, no agent starves.
* **ExecAgent, TestAgent.** Two threads without a lock, cancellation at any
  call, a destructor that waits: a command leaks no pipe and no child, nothing
  touches a freed agent, no output is thrown twice, an error is not lost, the destructor returns.
* **Reporting.** The report is taken in the middle of a sweep: it must catch
  up with every death and every error.
* **Remote control.** Restart hands over between processes, `put` rewrites a
  file its successor reads, answers return as messages: agents are neither lost
  nor multiplied, they come back on line, and the topic falls silent.
* **Session.** Publishing while the network thread reconnects or handles
  CONNACK, packets lost with a connection, a clean session at the broker:
  reports are neither delivered twice nor forgotten, the number in flight stays
  bounded, and the network thread survives.
* **Database client.** An answer split anywhere and cut off anywhere: it is
  reported for what it says, never for a part, and the request returns.
* **Start-up.** Initialisers that fail while threads run.

The hazards are listed line by line in `PROJECT.json`, with the properties that
catch them. A hazard without one has a note: the code does not avoid it, and the
properties name the case they exclude.

## 2. The modules

| module | models | composes / refines |
|---|---|---|
| `Watchdog` | the promise of `agent.h`: sweeps over the registered agents | abstract |
| `PluginHost` | `main` loading modules, `addAgent`, `mainLoop`, the walk of `reportState` | implements `Watchdog` |
| `PluginHostProofs` | theorems about `PluginHost` | |
| `ExecAgent` | one ExecAgent, its worker, its command and the main thread | |
| `ExecAgentProofs` | theorems about `ExecAgent` | |
| `TestAgent` | one TestAgent, its worker and the main thread | |
| `TestAgentProofs` | theorems about `TestAgent` | |
| `AgentProcess` | a host with workers, a TempAgent and a MqttAgent | instance of `PluginHost` |
| `AgentProcessProofs` | theorems about `AgentProcess` | instance of `PluginHostProofs` |
| `RemoteControl` | the processes of several users, the topic `configure` | |
| `RemoteControlProofs` | theorems about `RemoteControl` | |
| `MqttSession` | the reports of one process on their way through the client library to the broker | |
| `MqttSessionProofs` | theorems about `MqttSession` | |
| `MqttQuotaProofs` | more of them: quota and order | |
| `InfluxHttp` | one call of `readData`: the request to the database and the parser of the answer | |
| `InfluxHttpProofs` | theorems about `InfluxHttp` | |
| `MC*` | small instances | |

Definitions named `Of_Slip` and commented "Slip" are deliberate mistakes in the
definition they precede. No specification uses them; `PROJECT.json` pairs each
with a property that fails when the slip takes the place of the definition.

### PluginHost

An agent is the position of its plugin in the configuration, so `addAgent`
always links a larger number in front of smaller ones. `it`, `prev`,
`listeners` and `next` are the variables of the code. A turn of an agent is one
action (`CheckAlive`, `CheckThrows`, `CheckDead`), because only the main thread
touches the list; unlinking and `Delete` are two, because a destructor that
waits runs in between. `LoadFails` is every way an initialiser can fail.

### ExecAgent

`wpc` is the position of the worker, and `pipe` how many `FILE`s `popen` has
opened and `pclose` not closed. One action stands for the code between two
points where another thread, the command, or a cancellation can interfere. The
assignment of `result` lasts from `Pclose` to `Stored`; an access of `check()`
within it is a data race, and the outcome is left open: a read sees the old
text, the new one or a torn one, the assignment may be undone, the process may
crash. `raced` remembers it. Assigning one empty string to another writes
nothing that matters, and counts as no race. An empty `result` that `check()`
only looks at is a race too, and harmless in every build.

Cancellation is deferred: it takes effect in `sleep_for`, in `readData`, in
`fgets` when it reads the pipe, and in the output of the handler, not in
`pclose`. What a cancellation in `readData` leaks is outside of the model:
`http_request` has its socket in a plain `int`, and a socket whose thread is
cancelled in `recv` stays open. `sleep_for` of a worker behind its schedule is no cancellation point,
hence `Wake` stays possible after `Cancel`. Whether `popen` can be one is left
open by POSIX; in the C library of the target it is not, and it is not one here.

### TestAgent

As ExecAgent; `alive` is a byte and its accesses are indivisible. An answer of
the database is one of: values that differ, values that are equal (a problem),
a failed query, which arrives as no values at all, and an exception. `alive` is
read by the main thread without synchronisation; both are within a loop of calls
a compiler cannot see through, so the store is assumed to arrive.

### AgentProcess

`H == INSTANCE PluginHost` shares its variables; every `check()` is tied to an
agent of the configured `Kind`. Workers appear as mailboxes that are filled and
agents that end at any time. A mailbox is taken without a race here, what a race
can do is the subject of the modules above. Time is the second that stamps an
error; milliseconds are computed in 64 bits.

### RemoteControl

A process is a number that is never used again, its phase, and its queue at the
broker. `Answer`, `Ignore`, `Restart`, `Stop`, `OpenConfig` are the branches of
`on_message`; `put` is three actions, because the file is truncated, written and
flushed, and read by others in between. `Spawn` starts the successor and
`Exit` is `exit(-1)`. The broker delivers a published message to every
subscribed process in one order, up to the length of its queue; a lost
connection loses the queue, since the session is clean. Messages are sets of
records: the texts of the commands, with a user, a process and a body where the
code compares or copies them. `exec` runs
`./Agent &> /dev/null &`: a shell without `&>` leaves the successor with a pipe
nobody reads, which it survives, because `mosquitto_lib_init` has made its
parent ignore `SIGPIPE`. The configuration a `put` writes may give the user
another name (`MqttAgent.cpp:82`); here a process keeps its user.

Delivery is exactly once while a connection lasts: publishers use quality of
service 2 and the subscription 1, so a duplicate is possible only on a resumed
session, and sessions are clean. A client that is refused disconnects and the
process goes on without remote control ("deaf").

### MqttSession

What `AgentProcess` takes for one step, publishing a report, is here the
four-way handshake of quality of service 2. A report is named by its number,
which is also its message identifier. `msgs`, `quota` and `out` are
`msgs_out.inflight`, `inflight_quota` and the two lists of packets to be
written; `Release`, `Reset` and `Retried` are `message__release_to_inflight`,
`message__reconnect_reset` and `message__retry_check`.

The main thread only asks whether `mosq->sock` is a descriptor (`sock`). The
library stores it before `connect()` has returned, so a publisher can queue a
PUBLISH that leaves in front of CONNECT: the actions `OpenSocket` and
`SendConnect` are apart for this. The broker then closes the connection
(`Refuse`), and the next one puts it right. A report published while the host
name is resolved is marked as sent although nothing of it is (`Orphan`); it
waits for the next lost connection. `Progress` excludes it by name, and the
others only while orphans occupy the whole quota. A publisher that has seen the
socket just before `LoseConnection`, and queues its packet after `Reconnect` has
cleared the queue, has the same effect as one between `OpenSocket` and
`SendConnect`: a PUBLISH in front of CONNECT.

`handle__connack` stores the full quota without the mutex of the list, goes
through the incoming messages, and takes that mutex only then, in
`message__reconnect_reset`, to count anew. These are two actions, `FillQuota`
and `Connack`, with the thread at `net = "reset"` in between; a publisher in
between sees a quota of `Inflight` whatever is in flight. It may also be in the
middle of `message__release_to_inflight` when the quota is stored
(`FillDuringPublish`). `raced` remembers the connections to which this
happened. `handle__pubackcomp` has several critical sections as well but is
one action: between them a publisher can only release what `Pubcomp` would
release, since the message a PUBCOMP names is never one that waits.

The connections are numbered, because the broker may notice the end of one
after the client has opened the next. `crowded` remembers that a connection
began with more unfinished messages than may be in flight: those beyond the
limit start over, even when PUBREL has been sent, and are delivered again. The
code's limit is 20, and a host publishes that much only while it is offline.

SUBSCRIBE and incoming messages are the subject of `RemoteControl`. The
keepalive is one of the reasons for `LoseConnection`.

### InfluxHttp

`http_request` is a parser over single characters behind the macros
`_NO_MORE` and `_GET_NEXT_CHAR`, and its states are the values of `pc`. What it
matches as a whole is one character here (`CONTENT_LENGTH`, `CHUNKED`, `TEXT`);
line ends, digits, chunk lengths and the body are character by character, since
what can go wrong is there. The buffer is `taken` (characters returned by
`recv`), `left` (of those, not yet read) and `first`, what the buffer begins
with: after a `recv` of 0, which is no end for `_NO_MORE`, the parser gets that
character again. A piece can begin within a text, hence `Starts`. Lengths are
accumulated in an `int`; `Wrap` says what the build does when one overflows.

`Wire` is the reference: what a database sends for an answer. `Parse` is the
rest of `readData`: a failed query is an empty vector, a document that is cut
off or has no rows an exception. The text of the request, and the exact length of the
buffer, which only bounds the size of a piece, are abstracted. A `SIGPIPE` on
`writev` is not modelled: the MQTT library has the process ignore it, and a
process without an MqttAgent would end.

Which value of a row becomes which field of a `Data` is not in the model: order
and contents of fields steer nothing. They are worth a look all the same.
`readData` constructs `Data(columns[2], value[2], value[0])`
(`agent_config.cpp:108`), where `agent.h:40` has name, timestamp, value in this
order; the column at 0 is the time. So TestAgent compares timestamps where it
means values, and ExecAgent prints the two swapped.

## 3. The runs

| run | bounds | shows |
|---|---|---|
| `host` | 4 agents, 2 texts, 2 seconds | `ListInv`, `CursorInv`, `WalkIsLive`: list, cursors and count; `ImplementsWatchdog`: refinement; `EveryAgentChecked`: no starvation |
| `exec` | 3 commands with and without output, exit status free | `OneCommand`: pipe and child belong to `exec()` and survive no cancellation; `FreedIsQuiet`: no use after free; `ThrowsFresh` until a data race; `ExpiredIsFreed` if commands end |
| `exec_hang` | 2 commands | **violated** `ExpiredIsFreed`: a command need not end |
| `exec_lost` | 2 commands | **violated** `FailureKept`: a failure lost between two statements of `check()` |
| `test` | the 5 iterations of the code, all answers | `FreedIsQuiet`, `ThrowsFresh`, `JoinIsPrompt`, `StoppedIsFreed` |
| `test_refused` | 5 iterations, failing queries | **violated** `DiesReported`: a failed query is silent |
| `process` | 4 agents: worker, mqtt, worker, temp; 5 events, 2 posts, 2 texts, 2 seconds | `ReportLags`, `GoesOnWatching`, `CountConverges`, `ErrorPublished` |
| `remote` | 2 users, 2 commands, 4 processes, 1 lost connection, 4 messages queued | `Population`, `BackOnline`, `FallsSilent` |
| `remote_faults` | 2 agents of one user, 6 processes, all faults and configurations | `NeverMore`, `FallsSilent` |
| `session` | 3 reports, 2 in flight, 1 lost connection and 1 more failed attempt, 5 connections | `AtMostOnce`, `CompletedKept`, `BrokerBound`, `ThreadSurvives`, `OrderedAtFirst`, `Progress` |
| `session_lost` | 2 reports, 1 lost connection | **violated** `CompletedStays`: a completed report that no subscriber gets |
| `http` | 6 answers: chunks, lengths, no body, no rows, an error | `BodyIsSent`, `AnswerIsReported`, `NeverPartialRows`, `Returns` |

Why the bounds are enough.

* `host`, `process`: four agents are the least number for which one can be
  removed from the head, the middle and the end of a list that stays longer than
  one. Two seconds of distinct errors are all the comparison of reports can tell
  apart. In `process` the counter of TempAgent starts at 5 instead of 10, so
  that the event that reads the database (4) and the end both occur.
* `exec`, `test`: three commands are one whose output is being taken, one that
  overwrites it and one still running when the agent is destroyed. Five
  iterations are all the code has.
* `remote`, `remote_faults`: two commands are the least that overlap, and each
  starts at most one successor per process that obeys it: `MaxPids` is the
  processes at the start plus the successors, so `Spawn` is never held back by
  it. Where two agents obey the same message, 6 is 2 + 2 * 2. The queue of the
  broker is 4 in `remote`, where the two commands and their answers fit, and 2
  in `remote_faults`, where messages are dropped.
* `session`: one report more than may be in flight is one that waits. Every
  PUBLISH in front of a CONNECT costs a connection, so that reports + lost
  connections + 1 is the number that can begin; 5 connections hold back no
  step. The failed attempt falls anywhere between two connections, and
  `MaxLost` below `MaxFaults` leaves it one. With 3 reports the broker can never
  keep more than 3, so that the bound of 2 is what the run tests on connections
  that are not raced, and a raced one is seen with 3 and not with 4. With 3
  reports and a limit of 1, and with 5 reports, a limit of 2, one lost connection and 2
  connections, the same properties hold, and twice the limit is reached; the
  theorem covers all values.
* `http`: the answers have a length of one and two digits, a hexadecimal one,
  and bodies that look like the framing. `MaxInt` is 1023, above every status
  and length, so that wrapping occurs only where the code would wrap: when the
  parser reads its buffer over and over.

`CHECK_DEADLOCK FALSE` stands where the system may really stop: a host without
agents, an agent that has been freed, a topic with nothing to say, a session
with nothing to send, a request that has returned.

### Findings

The runs marked **violated** are disagreements between the code and its own
documentation, each quoted in `PROJECT.json`:

1. the destructor of ExecAgent waits for a command that does not end
   (`exec_hang`), and with it the watchdog for all agents;
2. `check()` of ExecAgent clears a failure it has not thrown (`exec_lost`). The
   same property fails for a command that fails without output, whatever the
   interleaving: the empty string looks like no news;
3. a failed query is reported nowhere (`test_refused`);
4. a report that the broker has acknowledged is completed after a lost
   connection although the broker has dropped it (`session_lost`), and the
   MqttAgent does not send that state again.

Seen in the same models with other values of the constants, and left without a
run of their own:

* a TestAgent takes the problem of its last iteration with it, because
  `check()` looks at `alive` first (`DiesReported` with
  `Answers = {"varied", "equal"}`);
* the configuration the Readme shows as an example names no module, so a `put`
  of it leaves its user without an agent (`Population` with
  `Bodies = {"noModules"}`);
* agents that share a directory can lose one of them to a `put`: one of them
  starts its successor while the other has just truncated the file
  (`Population` with `First <- TwoOfOne`);
* a report published while the network thread resolves the name of the broker
  is marked as sent and waits for the next connection (`Progress` without
  `Stuck`), where `mosquitto.h:272` has outgoing messages sent again when
  the client reconnects;
* an answer of the database that is closed by its sender before its end keeps
  `http_request` in its loop (`Returns` without its last disjunct), on whatever
  thread it runs; one with a Content-Length that breaks off counts as a success
  with a part of the body (`BodyIsSent`), and only the JSON parser notices
  (`NeverPartialRows`);
* more unfinished reports than the limit at the beginning of a connection are
  delivered twice (`AtMostOnce` without `crowded`), and reports published
  between CONNECT and CONNACK overtake older ones (`OrderedAtFirst` without
  `conn = 1`). Subscribers that need the last state must not rely on the order;
* a report published between the two steps of `handle__connack` is sent beyond
  the limit (`BrokerBound` without `raced`), where `mosquitto.h:1657-1660` has
  further messages queued until the number in flight reduces. The broker of
  this repository has no limit for incoming messages of quality of service 2:
  `db__message_insert` takes only outgoing ones from a quota, so nothing is
  dropped.

### Fairness

* `PluginHost`, `AgentProcess`: the main thread takes steps
  (`mainLoop` never blocks but in a destructor, which `ExecAgent` and `TestAgent`
  treat, and in the query of a TempAgent, which is taken to return).
* `ExecAgent`, `TestAgent`: the scheduler runs both threads. The database need
  not answer, an agent need not have a timeout, a command need not end.
  `SpecCommandsEnd` adds that commands do, and is used by the run `exec` only.
* `RemoteControl`: every process runs. The console need not send anything and no
  connection has to break.
* `MqttSession`: the network thread runs, without having to lose anything, and
  the broker handles what each connection has received. Publishing, and
  noticing that a connection is lost, need not happen.
* `InfluxHttp`: the thread runs, and the database sends its answer unless it
  ends the connection. Nothing else makes `recv` return, it has no timeout.

Strong fairness is assumed nowhere.

## 4. The proofs

TLAPS proves the following for all values of the constants under the named
assumptions (`HostAssumption`, `ExecAssumption`, `TestAssumption`,
`ProcessAssumption`, `RemoteAssumption`, `SessionAssumption`, `HttpAssumption`,
which give the constants their types and bounds).

**PluginHost.** `Inv == TypeOK /\ ListInv /\ CursorInv` is inductive
(`HostSafety`), so `HostTypeOK`, `HostListInv` and `HostCursorInv` follow. The
list invariant says that `next` leads each linked agent to the largest smaller
one, which agents numbered in order of registration make equivalent to
reachability. The agent being deleted is excluded (`Linked`). `CursorInv` is
needed for the unlinking step: `prev` must be the predecessor of `it`.
`HostWalkIsLive` brings reachability back: `Walk` is the smallest set closed
under `next`; a linked agent outside of a closed set would have a largest one
(`LargestAgent`, from the well-founded order of the naturals), and nothing leads
past that. `HostImplementsWatchdog` maps the agents at or below the cursor to
the turns still to come; `AdvancePending` shows that moving the cursor takes
exactly one agent out of the sweep, `RestartPending` that a restart is a new
sweep, and unlinking is a stutter.

**ExecAgent.** `IInv` adds to the properties that texts are ordered by age
(`Fresh`: mailbox newer than local variable, newer than last thrown, all older
than a command at work) and that the worker wakes up only with a run left.
`ExecTypeOK` (with at most one pipe open), `ExecFreedIsQuiet` and `ExecOneCommand` hold under all outcomes of
the race, `ExecThrowsFresh` until one has happened. They are theorems of `Spec`,
hence of `SpecCommandsEnd` as well.

**TestAgent.** `EndsInOrder` is the order in which an agent ends (last
iteration, flag, answer of `check()`, return of the thread, destructor), `Fresh`
the age of the texts. `TestFreedIsQuiet`, `TestJoinIsPrompt`, `TestThrowsFresh`
and `TestTypeOK` follow.

**AgentProcess.** Its steps are steps of its host (`HostStep`), so the
invariants of `PluginHostProofs` are instantiated, not proved again. On top of
them: the counter shared by TempAgents falls by no more than there are of them
(`CountInv`: whoever finds it below zero ends), errors are stamped with a time
that has passed (`ClockInv`), reports only begin when all agents are there
(`ReportInv`), and MqttAgents stay in the list (`MqttInv`). `ProcessTypeOK`,
`ProcessReportLags` and `ProcessGoesOnWatching` follow for every number and
every kind of agents.

**RemoteControl.** Every step is idle for the population, or calm (no process
comes up), or ends one agent that was told to stop, or replaces one by its
successor (`Moves`); process numbers are never reused (`Numbering`). From this
`RemoteNeverMore`, whatever fails, and `RemoteTypeOK`, which includes that
`wanted` never becomes negative. `RemotePopulation` is the exact count under the
condition `OneEachSound`: one agent to a user, configurations with modules, no
fault but a file that cannot be opened. It needs that a user never has two
processes up (`Sole`), hence nobody reads a file while it is being written
(`FileInv`).

**MqttSession.** `SessionTypeOK` includes that the quota stays within its
limits. `SessionCompletedKept` follows a report by what the client knows of it:
acknowledged by a PUBREC it has, or one on its way, means stored, delivered or
discarded. `SessionThreadSurvives` is about what is in front of CONNACK
(`Places`). `SessionAtMostOnce` needs the most: each report has at most one
packet under way per connection (`Once`: `TokenInv` and others), a released
report is never published again, and an unreleased one has not been delivered.

`MqttQuotaProofs` counts and orders those packets. `QuotaInv`: the packets on
their way through the queue and both directions of the connection, what is left
of the quota, and, until CONNACK is handled, the reports to be sent again are
together at most `Limit`; before CONNACK each packet is the PUBLISH of a
report that is marked as sent. `Limit` is `Inflight`, and `2 * Inflight` once
the quota has been stored without being counted: while CONNACK is handled, and
on a connection that was raced then. That the limit falls back when nobody has
published in between is the third part of `QuotaInv`; `RacedInv` says that no
connection is raced before its CONNACK. `Reset` and `RetryAll`, which count anew, are the
hard steps (`ResetBalance`, `ConnackQuota`, `RetryQuota`). `Stores`: each message the broker keeps of the client's connection
has its PUBREC or PUBREL on the way, and what it keeps of older connections only
shrinks. Together they bound the stored messages by the packets under way and
those by the quota (`ConnectionBound`), which is `SessionBrokerBound`.
`SessionOrderedAtFirst` rests on `OrderInv`: a report that is further on its way
(`Stages`: delivered, PUBREL, PUBREC, PUBLISH, not yet sent) is an earlier one.
An invariant about deliveries alone is not inductive. "Not yet sent" is the hard
part, because the reset after a race marks reports as waiting whose PUBLISH is
already in the queue. `OpenedInv` says of these, on the sequence of all packets
between the client's hands and its eyes (`Way`), that the quota is used up and
every PUBREL and PUBCOMP is behind them: before a PUBCOMP gives quota back,
their PUBREC has been read and has ended their waiting. So none is sent twice,
and `Unsent` is what waits without a PUBLISH or PUBREC under way; `StillOpen`
shows that no other step makes a report unsent. `StartInv` says that CONNACK of
the first connection finds nothing to retry.

**InfluxHttp.** The parser keeps no position, so the invariant finds one for it:
`Placed` says which characters of the answer lie behind a parser in each of its
states, what it has made of them (`content_length`, `ret_code`, `resp`) and which
lie ahead. It rests on the layout of the text (`WireLayout`), which is a flattened
sequence of any number of chunks of any lengths: the lemmas up to there derive
from the definition of `FlattenSeq` where each chunk, each digit and each line
end lies (`Lies`, `JoinedLies`, `NextChunk`), by taking a least number at which
that would fail. One lemma per state (`FromStatus` to `FromBodyLF`) says where
the next character leads.

A parser that loses its place has read all that will ever arrive (`Lost`). When
the database closed the connection, it goes on with the first character of the
buffer, over and over; `Stale` lists how far that can bring it in each state,
which is never to the end of an answer that it should not accept, and to the end
of one without its last character only from there. When the connection broke, a
body with a Content-Length is taken as it is (`Cut`), which then does not parse.
`IInv` puts this together; the properties alone are not inductive, since what
`resp` will be depends on `content_length`, and that on digits read before.
`InfluxTypeOK`, `InfluxBodyIsSent`, `InfluxAnswerIsReported` and
`InfluxNeverPartialRows` follow. `HttpAssumption` has `MaxInt` at least 599, so
that a status fits, and bodies of at most `MaxInt` characters, so that no length
of an answer overflows.

Only model-checked:

* all liveness (`EveryAgentChecked`, `ExpiredIsFreed`, `StoppedIsFreed`,
  `CountConverges`, `ErrorPublished`, `BackOnline`, `FallsSilent`, `Progress`,
  `Returns`), which the provers do not treat.

## 5. Not modelled

* **The rest of the vendored libraries.** Almost all lines under `src/` belong
  to mosquitto and rapidjson, of which the program uses a small part: the client
  side of publish and subscribe, and a JSON parser. The modules follow the
  functions the agent calls, and of the broker what it does with an agent's
  connection and its subscription. Bridges, persistence, access control, websockets, command line
  tools, TLS, SOCKS and version 5 properties are another project's concern. So is
  the JSON library, a function of its input.
* **Data without control.** `getConfig` and the search for `config.json` look
  things up and change no state. Text of commands, queries and reports.
* **TempAgent's initialiser** runs a Python script in an embedded interpreter;
  it succeeds or throws, which `Load` and `LoadFails` of `PluginHost` cover.
* **Modules named on the command line** add to those of the configuration in
  the same way, and are `Load` as well.
* **Threads after `main`.** When an initialiser fails, or `exit(-1)` is called,
  worker threads may read settings that are being destroyed. The process is
  about to end; what it does in between has no specification.
* **Widths.** The 16 bits of a message identifier, after which it repeats, the
  32 bits of `time_t` on old targets, and the schedule `next += sampleRate` of
  ExecAgent with the runs it catches up with.
* **Clients** in `extras` are examples and generated output.
