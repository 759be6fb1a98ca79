---------------------------- MODULE MqttSession ----------------------------
(***************************************************************************)
(* The reports of an agent on their way through libmosquitto to the        *)
(* broker.  MqttAgent::check calls mosquitto_publish with quality of       *)
(* service 2 from the main thread; the network thread of the library       *)
(* writes and reads the packets, and connects again when the connection is *)
(* lost.  The agent has no client identifier and asks for clean sessions,  *)
(* so the broker starts every connection with an empty session.            *)
(*                                                                         *)
(* A report is named by its number, which is also its message identifier:  *)
(* the model ends before the 16 bits of an identifier wrap.  SUBSCRIBE and *)
(* the messages to the agent are the subject of RemoteControl.             *)
(***************************************************************************)
EXTENDS Naturals, Sequences, FiniteSets, Functions

CONSTANTS
  MaxReports,  \* bound on the reports published
  MaxFaults,   \* bound on lost connections and failed attempts to connect
  MaxLost,     \* the faults after which no further connection is lost
  MaxConns,    \* bound on the connections
  Inflight     \* msgs_out.inflight_maximum

ASSUME SessionAssumption ==
  /\ MaxReports \in Nat
  /\ MaxFaults \in Nat
  /\ MaxLost \in 0..MaxFaults
  /\ MaxConns \in Nat \ {0}
  /\ Inflight \in Nat \ {0}

Reports == 1..MaxReports
Conns == 1..MaxConns

VARIABLES
  published,  \* how many reports were handed to mosquitto_publish
  msgs,       \* msgs_out.inflight: the state of every unfinished message;
              \* the list is in the order of the numbers
  quota,      \* msgs_out.inflight_quota
  sock,       \* whether mosq->sock is a descriptor, the only thing a
              \* publisher asks about the connection
  out,        \* current_out_packet and out_packet, the packets to be written
  net,        \* where the network thread is
  active,     \* mosq->state = mosq_cs_active
  conn,       \* the connection the client uses, or used last
  session,    \* the broker's context of every connection
  up, down,   \* packets on the way to the broker and to the client
  stored,     \* identifiers the broker keeps until PUBREL, per connection
  delivered,  \* history: the reports queued for the subscribers, in order
  discarded,  \* history: the reports dropped with a context
  completed,  \* history: the reports on_publish was called for
  crowded,    \* history: a connection began with more than Inflight
              \* unfinished messages
  raced,      \* history: the connections whose CONNACK was being handled,
              \* with the quota full, when a report was published
  faults      \* faults so far

client == <<published, msgs, quota, sock, out, net, active, conn, completed, crowded, raced>>
broker == <<session, stored, delivered, discarded>>
vars == <<client, broker, up, down, faults>>

-----------------------------------------------------------------------------
(* Packets and the client's list of messages *)

Types == {"CONNECT", "CONNACK", "PUBLISH", "PUBREC", "PUBREL", "PUBCOMP"}
Packet(t, m) == [type |-> t, mid |-> m]
Packets == [type : Types, mid : Reports \cup {0}]

\* "none": the message is not in the list, or no longer.
States == {"none", "invalid", "publish_qos2", "wait_for_pubrec",
           "resend_pubrel", "wait_for_pubcomp"}

Init ==
  /\ published = 0
  /\ msgs = [r \in Reports |-> "none"]
  /\ quota = Inflight
  /\ sock = TRUE
  /\ out = <<>>
  /\ net = "loop"
  /\ active = FALSE
  /\ conn = 1
  /\ session = [c \in Conns |-> "new"]
  /\ up = [c \in Conns |-> IF c = 1 THEN <<Packet("CONNECT", 0)>> ELSE <<>>]
  /\ down = <<>>
  /\ stored = [c \in Conns |-> {}]
  /\ delivered = <<>>
  /\ discarded = {}
  /\ completed = {}
  /\ crowded = FALSE
  /\ raced = {}
  /\ faults = 0

\* The first n elements of a set of reports, and its enumeration in order.
FirstOf(S, n) == {r \in S : Cardinality({q \in S : q < r}) < n}

Enumerations(S) ==
  {s \in [1..Cardinality(S) -> S] : \A i, j \in DOMAIN s : i < j => s[i] < s[j]}

Listed(list) == {r \in Reports : list[r] # "none"}
Waiting(list) == {r \in Reports : list[r] = "invalid"}

\* message__release_to_inflight(): as many waiting messages as the quota
\* allows go out.  Without a socket the first of them is marked as sent all
\* the same, and keeps that mark.
Release(list, q) ==
  LET now == FirstOf(Waiting(list), IF sock \/ q = 0 THEN q ELSE 1)
  IN  /\ msgs' = [r \in Reports |-> IF r \in now THEN "wait_for_pubrec" ELSE list[r]]
      /\ quota' = IF sock THEN q - Cardinality(now) ELSE q
      /\ IF sock
         THEN \E s \in Enumerations(now) :
                out' = out \o [i \in DOMAIN s |-> Packet("PUBLISH", s[i])]
         ELSE out' = out

\* Slip: what happened to a message before the connection was lost is
\* forgotten.
ResetState_Forget(s) ==
  IF s \in {"wait_for_pubrec", "wait_for_pubcomp", "resend_pubrel"} THEN "publish_qos2"
  ELSE s

\* Slip: PUBREL is sent again for a message without PUBREC.
ResetState_Release(s) ==
  IF s \in {"wait_for_pubrec", "wait_for_pubcomp"} THEN "resend_pubrel" ELSE s

ResetState(s) ==
  CASE s = "wait_for_pubrec"  -> "publish_qos2"
    [] s = "wait_for_pubcomp" -> "resend_pubrel"
    [] OTHER -> s

\* Slip: every unfinished message takes its part of the quota.
Reset_Underflow(quotaOnly) ==
  LET first == FirstOf(Listed(msgs), Inflight)
  IN  /\ quota' = Inflight - Cardinality(Listed(msgs))
      /\ msgs' = [r \in Reports |->
                    IF msgs[r] = "none" THEN "none"
                    ELSE IF r \notin first THEN "invalid"
                    ELSE IF quotaOnly THEN msgs[r]
                    ELSE ResetState(msgs[r])]
      /\ crowded' = (crowded \/ first # Listed(msgs))

\* Slip: unfinished messages do not count for the new quota.
Reset_Full(quotaOnly) ==
  LET first == FirstOf(Listed(msgs), Inflight)
  IN  /\ quota' = Inflight
      /\ msgs' = [r \in Reports |->
                    IF msgs[r] = "none" THEN "none"
                    ELSE IF r \notin first THEN "invalid"
                    ELSE IF quotaOnly THEN msgs[r]
                    ELSE ResetState(msgs[r])]
      /\ crowded' = (crowded \/ first # Listed(msgs))

\* message__reconnect_reset(): the first messages of the list use up the
\* quota, the others wait for their turn again.
Reset(quotaOnly) ==
  LET first == FirstOf(Listed(msgs), Inflight)
  IN  /\ quota' = Inflight - Cardinality(first)
      /\ msgs' = [r \in Reports |->
                    IF msgs[r] = "none" THEN "none"
                    ELSE IF r \notin first THEN "invalid"
                    ELSE IF quotaOnly THEN msgs[r]
                    ELSE ResetState(msgs[r])]
      /\ crowded' = (crowded \/ first # Listed(msgs))

\* message__retry_check(): what is sent again.
Retried == {r \in Reports : msgs[r] \in
             {"publish_qos2", "resend_pubrel", "wait_for_pubcomp"}}
Retry(r) == Packet(IF msgs[r] = "publish_qos2" THEN "PUBLISH" ELSE "PUBREL", r)

-----------------------------------------------------------------------------
(* The main thread *)

Publish ==
  /\ published < MaxReports
  /\ published' = published + 1
  /\ Release([msgs EXCEPT ![published + 1] = "invalid"], quota)
  /\ raced' = IF net = "reset" THEN raced \cup {conn} ELSE raced
  /\ UNCHANGED <<sock, net, active, conn, completed, crowded, broker, up, down,
                 faults>>

-----------------------------------------------------------------------------
(* The network thread: mosquitto_loop_forever() *)

\* packet__write(): one packet leaves.
Write ==
  /\ net = "loop"
  /\ out # <<>>
  /\ out' = Tail(out)
  /\ up' = IF session[conn] = "gone" THEN up
           ELSE [up EXCEPT ![conn] = Append(@, Head(out))]
  /\ UNCHANGED <<published, msgs, quota, sock, net, active, conn, completed,
                 crowded, raced, broker, down, faults>>

\* A read, a write or the keepalive tells that the connection is lost: at
\* once when the broker has closed it, at any time when the network fails.
LoseConnection ==
  /\ net = "loop"
  /\ \/ session[conn] = "gone" /\ UNCHANGED faults
     \/ session[conn] # "gone" /\ faults < MaxLost /\ faults' = faults + 1
  /\ sock' = FALSE
  /\ net' = "sleep"
  /\ down' = <<>>
  /\ UNCHANGED <<published, msgs, quota, out, active, conn, completed, crowded,
                 raced, broker, up>>

\* mosquitto__reconnect(), up to the resolution of the host name.
Reconnect ==
  /\ net = "sleep"
  /\ net' = "resolve"
  /\ out' = <<>>
  /\ Reset(FALSE)
  /\ UNCHANGED <<published, sock, active, conn, completed, raced, broker, up, down,
                 faults>>

\* getaddrinfo() returns, and socket() stores the descriptor in mosq->sock
\* before connect() has begun.
OpenSocket ==
  /\ net = "resolve"
  /\ net' = "connect"
  /\ sock' = TRUE
  /\ UNCHANGED <<published, msgs, quota, out, active, conn, completed, crowded,
                 raced, broker, up, down, faults>>

ConnectFails ==
  /\ net \in {"resolve", "connect"}
  /\ faults < MaxFaults
  /\ faults' = faults + 1
  /\ net' = "sleep"
  /\ sock' = FALSE
  /\ UNCHANGED <<published, msgs, quota, out, active, conn, completed, crowded,
                 raced, broker, up, down>>

\* connect() returns and send__connect() queues the packet behind those that
\* publishers have queued meanwhile.
SendConnect ==
  /\ net = "connect"
  /\ conn < MaxConns
  /\ net' = "loop"
  /\ conn' = conn + 1
  /\ active' = FALSE
  /\ out' = Append(out, Packet("CONNECT", 0))
  /\ UNCHANGED <<published, msgs, quota, sock, completed, crowded, raced, broker,
                 up, down, faults>>

\* The next packet for the client is of type t and about message m.
Arrived(t, m) ==
  /\ down # <<>>
  /\ Head(down) = Packet(t, m)

Reads(t, m) ==
  /\ net = "loop"
  /\ Arrived(t, m)
  /\ down' = Tail(down)

\* handle__connack() stores the full quota, and does not hold the mutex of
\* the list.
FillQuota ==
  /\ net = "loop"
  /\ Arrived("CONNACK", 0)
  /\ quota' = Inflight
  /\ net' = "reset"
  /\ UNCHANGED <<published, msgs, sock, out, active, conn, completed, crowded,
                 raced, broker, up, down, faults>>

\* The same while a publisher goes through the list: it has sent j messages
\* before the store and finds the quota full again.  (When the store is lost
\* between a load and a store of the publisher it is as if it came after
\* Publish, for the reset computes the quota anew.)
FillDuringPublish(j) ==
  /\ net = "loop"
  /\ Arrived("CONNACK", 0)
  /\ published < MaxReports
  /\ published' = published + 1
  /\ Release([msgs EXCEPT ![published + 1] = "invalid"], j + Inflight)
  /\ quota' <= Inflight
  /\ net' = "reset"
  /\ raced' = raced \cup {conn}
  /\ UNCHANGED <<sock, active, conn, completed, crowded, broker, up, down, faults>>

\* handle__connack() resets the quota and goes on to the callback on_connect.
Connack ==
  /\ net = "reset"
  /\ Arrived("CONNACK", 0)
  /\ down' = Tail(down)
  /\ Reset(TRUE)
  /\ net' = "connack"
  /\ UNCHANGED <<published, sock, out, active, conn, completed, raced, broker, up,
                 faults>>

\* Slip: the state of the connection stays as it is.
RetryAll_NotActive ==
  /\ net = "connack"
  /\ net' = "loop"
  /\ \E s \in Enumerations(Retried) : out' = out \o [i \in DOMAIN s |-> Retry(s[i])]
  /\ UNCHANGED <<published, msgs, quota, sock, active, conn, completed, crowded,
                 raced, broker, up, down, faults>>

RetryAll ==
  /\ net = "connack"
  /\ net' = "loop"
  /\ active' = TRUE
  /\ \E s \in Enumerations(Retried) : out' = out \o [i \in DOMAIN s |-> Retry(s[i])]
  /\ UNCHANGED <<published, msgs, quota, sock, conn, completed, crowded, raced,
                 broker, up, down, faults>>

\* Slip: the answer goes to the front of the packets to be written.
Pubrec_Front(m) ==
  /\ Reads("PUBREC", m)
  /\ active
  /\ msgs' = [msgs EXCEPT ![m] = IF @ = "none" THEN @ ELSE "wait_for_pubcomp"]
  /\ out' = <<Packet("PUBREL", m)>> \o out
  /\ UNCHANGED <<published, quota, sock, net, active, conn, completed, crowded,
                 raced, broker, up, faults>>

\* handle__pubrec(): PUBREL follows whether the message is known or not.
Pubrec(m) ==
  /\ Reads("PUBREC", m)
  /\ active
  /\ msgs' = [msgs EXCEPT ![m] = IF @ = "none" THEN @ ELSE "wait_for_pubcomp"]
  /\ out' = Append(out, Packet("PUBREL", m))
  /\ UNCHANGED <<published, quota, sock, net, active, conn, completed, crowded,
                 raced, broker, up, faults>>

\* Slip: no waiting message takes the place of the one that is finished.
Pubcomp_NoRelease(m) ==
  /\ Reads("PUBCOMP", m)
  /\ active
  /\ completed' = IF msgs[m] = "none" THEN completed ELSE completed \cup {m}
  /\ msgs' = [msgs EXCEPT ![m] = "none"]
  /\ quota' = IF quota < Inflight THEN quota + 1 ELSE quota
  /\ UNCHANGED <<published, sock, net, active, conn, crowded, raced, out, broker,
                 up, faults>>

\* handle__pubackcomp(): the quota grows before the message is looked for, in
\* a critical section of its own.  A publisher in between sends what it would
\* send afterwards, because the message of a PUBCOMP is never one that waits.
Pubcomp(m) ==
  /\ Reads("PUBCOMP", m)
  /\ active
  /\ completed' = IF msgs[m] = "none" THEN completed ELSE completed \cup {m}
  /\ Release([msgs EXCEPT ![m] = "none"], IF quota < Inflight THEN quota + 1 ELSE quota)
  /\ UNCHANGED <<published, sock, net, active, conn, crowded, raced, broker, up,
                 faults>>

-----------------------------------------------------------------------------
(* The broker, one context per connection *)

\* The context goes, and with it what was stored for the clean session.
Close(c) ==
  /\ session' = [session EXCEPT ![c] = "gone"]
  /\ stored' = [stored EXCEPT ![c] = {}]
  /\ discarded' = discarded \cup stored[c]
  /\ up' = [up EXCEPT ![c] = <<>>]
  /\ UNCHANGED <<delivered, down>>

\* The client reads from the connection c.
Reading(c) == c = conn /\ net \in {"loop", "reset", "connack"}

\* The packet (t, m) is taken from c; the answer, of type a, reaches the
\* client unless it has given the connection up.
Takes(c, t, m, a) ==
  /\ up[c] # <<>>
  /\ Head(up[c]) = Packet(t, m)
  /\ up' = [up EXCEPT ![c] = Tail(@)]
  /\ down' = IF Reading(c) THEN Append(down, Packet(a, m)) ELSE down

TakeConnect(c) ==
  /\ session[c] = "new"
  /\ Takes(c, "CONNECT", 0, "CONNACK")
  /\ session' = [session EXCEPT ![c] = "active"]
  /\ UNCHANGED <<stored, delivered, discarded, client, faults>>

TakePublish(c, m) ==
  /\ session[c] = "active"
  /\ Takes(c, "PUBLISH", m, "PUBREC")
  /\ stored' = [stored EXCEPT ![c] = @ \cup {m}]
  /\ UNCHANGED <<session, delivered, discarded, client, faults>>

\* PUBREL is answered whether the message is known or not.
TakePubrel(c, m) ==
  /\ session[c] = "active"
  /\ Takes(c, "PUBREL", m, "PUBCOMP")
  /\ stored' = [stored EXCEPT ![c] = @ \ {m}]
  /\ delivered' = IF m \in stored[c] THEN Append(delivered, m) ELSE delivered
  /\ UNCHANGED <<session, discarded, client, faults>>

\* A packet that is not CONNECT comes first.
Refuse(c) ==
  /\ session[c] = "new"
  /\ up[c] # <<>>
  /\ Head(up[c]).type # "CONNECT"
  /\ Close(c)
  /\ UNCHANGED <<client, faults>>

\* The broker notices that a connection is lost.
Forget(c) ==
  /\ session[c] # "gone"
  /\ c <= conn
  /\ \/ ~Reading(c) /\ UNCHANGED faults
     \/ Reading(c) /\ faults < MaxLost /\ faults' = faults + 1
  /\ Close(c)
  /\ UNCHANGED client

-----------------------------------------------------------------------------
Network ==
  \/ Write \/ LoseConnection \/ Reconnect \/ OpenSocket \/ ConnectFails
  \/ SendConnect \/ FillQuota \/ Connack \/ RetryAll
  \/ \E j \in 1..quota : FillDuringPublish(j)
  \/ \E m \in Reports : Pubrec(m) \/ Pubcomp(m)

Receive(c) ==
  \/ TakeConnect(c)
  \/ \E m \in Reports : TakePublish(c, m) \/ TakePubrel(c, m)
  \/ Refuse(c)

Next ==
  \/ Publish
  \/ Network
  \/ \E c \in Conns : Receive(c) \/ Forget(c)

Spec ==
  /\ Init /\ [][Next]_vars
  /\ WF_vars(Network /\ faults' = faults)
  /\ \A c \in Conns : WF_vars(Receive(c))

-----------------------------------------------------------------------------
(* Properties *)

TypeOK ==
  /\ published \in 0..MaxReports
  /\ msgs \in [Reports -> States]
  /\ quota \in 0..Inflight
  /\ sock \in BOOLEAN
  /\ out \in Seq(Packets)
  /\ net \in {"loop", "sleep", "resolve", "connect", "reset", "connack"}
  /\ active \in BOOLEAN
  /\ conn \in Conns
  /\ session \in [Conns -> {"new", "active", "gone"}]
  /\ up \in [Conns -> Seq(Packets)]
  /\ down \in Seq(Packets)
  /\ stored \in [Conns -> SUBSET Reports]
  /\ delivered \in Seq(Reports)
  /\ discarded \subseteq Reports
  /\ completed \subseteq Reports
  /\ crowded \in BOOLEAN
  /\ raced \subseteq Conns
  /\ faults \in 0..MaxFaults

(* A report never reaches the subscribers twice, whatever connections are  *)
(* lost between its packets, as long as no connection begins with more     *)
(* unfinished messages than may be in flight: those beyond start over,     *)
(* even if their PUBREL has been sent.                                     *)
AtMostOnce == crowded \/ IsInjective(delivered)

(* on_publish is called for what the broker has: a completed report is     *)
(* delivered, still stored with a connection that the broker has not given *)
(* up, or it was discarded with one.                                       *)
Kept(r) == r \in Range(delivered) \/ \E c \in Conns : r \in stored[c]
CompletedKept == \A r \in completed : r \in discarded \/ Kept(r)

(* What the manual promises of quality of service 2: a completed report is *)
(* not lost.                                                               *)
CompletedStays == \A r \in completed : Kept(r)

(* The broker never has to keep more messages of a connection than may be  *)
(* in flight, and at most twice as many when reports were published        *)
(* between the two steps of handle__connack, which see the quota full and  *)
(* are not counted by the reset that follows.                              *)
BrokerBound ==
  \A c \in Conns :
    Cardinality(stored[c]) <= IF c \in raced THEN 2 * Inflight ELSE Inflight

(* No answer reaches handle__pubrec or handle__pubackcomp before CONNACK:  *)
(* the protocol error they return would end the network thread for good.   *)
ThreadSurvives ==
  net = "loop" /\ down # <<>> /\ Head(down).type # "CONNACK" => active

(* Until a connection is lost, the subscribers see the states of the host  *)
(* in the order the host had them. (Later a report may overtake those that *)
(* wait for CONNACK.)                                                      *)
OrderedAtFirst ==
  conn = 1 => \A i, j \in DOMAIN delivered : i < j => delivered[i] < delivered[j]

(* A report that was marked as sent while there was no socket: nothing of  *)
(* it is under way, and nothing will be until the next connection.         *)
Orphan(r) ==
  /\ net = "loop" /\ active
  /\ msgs[r] = "wait_for_pubrec"
  /\ \A p \in Range(out) \cup Range(up[conn]) \cup Range(down) : p.mid # r

(* Once the network stays up, every report is completed that is not itself *)
(* an orphan, unless orphans occupy the whole quota.                       *)
Stuck(r) == Orphan(r) \/ Cardinality({q \in Reports : Orphan(q)}) >= Inflight
Progress == \A r \in Reports : published >= r ~> r \in completed \/ Stuck(r)

=============================================================================
