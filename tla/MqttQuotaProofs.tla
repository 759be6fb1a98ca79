-------------------------- MODULE MqttQuotaProofs --------------------------
(***************************************************************************)
(* Theorems about MqttSession that count: what is on its way through one   *)
(* connection never exceeds what the quota has given out, so the broker    *)
(* keeps at most Inflight messages of it, and at most twice as many when   *)
(* its CONNACK was raced by a publisher; and on the first connection       *)
(* everything on its way is in the order of the reports.                   *)
(***************************************************************************)
EXTENDS MqttSessionProofs, WellFoundedInduction

-----------------------------------------------------------------------------
(* Counting *)

LEMMA LeastNumber ==
  ASSUME NEW S \in SUBSET Nat, S # {}
  PROVE  \E x \in S : \A y \in S : x <= y
<1> DEFINE R == OpToRel(<, Nat)
<1>1. \A x, y \in Nat : y < x => <<y, x>> \in R
  BY DEF OpToRel
<1>2. IsWellFoundedOn(R, Nat)
  BY NatLessThanWellFounded
<1> HIDE DEF R
<1>3. PICK x \in S : \A y \in S : ~(<<y, x>> \in R)
  BY <1>2, WFMin
<1>4. \A y \in S : ~(y < x)
  BY <1>1, <1>3, Zenon
<1>5. \A y \in S : y \in Nat
  OBVIOUS
<1>6. QED
  BY <1>4, <1>5

LEMMA FiniteReports ==
  ASSUME NEW S \in SUBSET Reports
  PROVE  /\ IsFiniteSet(S) /\ Cardinality(S) \in Nat
         /\ \A T \in SUBSET S : Cardinality(T) <= Cardinality(S)
<1>1. IsFiniteSet(S) /\ Cardinality(S) \in Nat
  BY ReportsType, FS_Subset, FS_CardinalityType
<1>2. QED
  BY <1>1, FS_Subset

\* Disjoint sets of reports.
LEMMA DisjointReports ==
  ASSUME NEW S \in SUBSET Reports, NEW T \in SUBSET Reports, S \cap T = {}
  PROVE  Cardinality(S \cup T) = Cardinality(S) + Cardinality(T)
<1>1. IsFiniteSet(S) /\ IsFiniteSet(T) /\ Cardinality(S) \in Nat /\ Cardinality(T) \in Nat
  BY FiniteReports
<1>2. Cardinality(S \cap T) = 0
  BY FS_EmptySet
<1>3. Cardinality(S \cup T) = Cardinality(S) + Cardinality(T) - Cardinality(S \cap T)
  BY <1>1, FS_Union
<1>4. QED
  BY <1>1, <1>2, <1>3

(* FirstOf takes the lowest elements, and takes n of them if there are.    *)
LEMMA FirstOfLowest ==
  ASSUME NEW S \in SUBSET Reports, NEW n \in Nat
  PROVE  /\ \A r \in FirstOf(S, n), q \in S \ FirstOf(S, n) : r < q
         /\ Cardinality(S) <= n => FirstOf(S, n) = S
         /\ Cardinality(S) > n => Cardinality(FirstOf(S, n)) = n
<1> DEFINE before(r) == {q \in S : q < r}
<1>0. /\ S \subseteq Nat /\ \A r \in S : r \in Int
      /\ IsFiniteSet(S) /\ Cardinality(S) \in Nat
      /\ \A T \in SUBSET S : IsFiniteSet(T) /\ Cardinality(T) \in Nat
                             /\ Cardinality(T) <= Cardinality(S)
  <2>1. \A T \in SUBSET S : T \in SUBSET Reports
    OBVIOUS
  <2>2. QED
    BY <2>1, ReportsType, FiniteReports
<1>1. \A r \in S : r \in FirstOf(S, n) <=> Cardinality(before(r)) < n
  BY DEF FirstOf
<1>2. FirstOf(S, n) \subseteq S /\ Cardinality(FirstOf(S, n)) \in 0..n
      /\ IsFiniteSet(FirstOf(S, n))
  BY FirstOfBound
<1>3. \A r \in S : before(r) \in SUBSET S /\ Cardinality(before(r)) \in Nat
  <2>1. \A r \in S : before(r) \in SUBSET S
    OBVIOUS
  <2> HIDE DEF before
  <2>2. QED
    BY <1>0, <2>1
<1>4. ASSUME NEW r \in FirstOf(S, n), NEW q \in S \ FirstOf(S, n) PROVE r < q
  <2>1. r \in S /\ r \in Int /\ q \in S /\ q \in Int /\ r # q
    BY <1>0, <1>2
  <2>2. ASSUME q < r PROVE FALSE
    <3>1. before(q) \in SUBSET before(r)
      <4>1. \A x \in S : x < q => x < r
        BY <1>0, <2>1, <2>2
      <4>2. QED
        BY <4>1
    <3>2. Cardinality(before(q)) <= Cardinality(before(r))
      <4>1. IsFiniteSet(before(r))
        BY <1>0, <1>3, <2>1
      <4> HIDE DEF before
      <4>2. QED
        BY <3>1, <4>1, FS_Subset
    <3>3. /\ Cardinality(before(r)) < n /\ ~(Cardinality(before(q)) < n)
          /\ Cardinality(before(q)) \in Nat /\ Cardinality(before(r)) \in Nat
      BY <1>1, <1>3, <2>1
    <3> HIDE DEF before
    <3>4. QED
      BY <3>2, <3>3
  <2>3. QED
    BY <2>1, <2>2
<1>5. ASSUME Cardinality(S) <= n PROVE FirstOf(S, n) = S
  <2>1. SUFFICES ASSUME NEW r \in S PROVE Cardinality(before(r)) < n
    BY <1>1, <1>2
  <2>2. before(r) \in SUBSET S /\ before(r) # S
    BY <1>0
  <2>3. Cardinality(before(r)) <= Cardinality(S) /\ Cardinality(before(r)) # Cardinality(S)
    <3> HIDE DEF before
    <3>1. QED
      BY <1>0, <2>2, FS_Subset
  <2>4. Cardinality(before(r)) \in Nat
    BY <1>3
  <2> HIDE DEF before
  <2>5. QED
    BY <1>0, <1>5, <2>3, <2>4
<1>6. ASSUME Cardinality(S) > n PROVE Cardinality(FirstOf(S, n)) = n
  <2>1. S \ FirstOf(S, n) # {}
    BY <1>0, <1>2, <1>6
  <2>2. S \ FirstOf(S, n) \in SUBSET Nat
    BY <1>0
  <2>3. PICK w \in S \ FirstOf(S, n) : \A y \in S \ FirstOf(S, n) : w <= y
    BY <2>1, <2>2, LeastNumber
  <2>4. before(w) \in SUBSET FirstOf(S, n)
    <3>1. \A q \in S : q < w => q \in FirstOf(S, n)
      BY <1>0, <2>3
    <3>2. QED
      BY <3>1
  <2>5. Cardinality(before(w)) <= Cardinality(FirstOf(S, n))
    <3> HIDE DEF before
    <3>1. QED
      BY <1>2, <2>4, FS_Subset
  <2>6. ~(Cardinality(before(w)) < n) /\ Cardinality(before(w)) \in Nat
    BY <1>1, <1>3, <2>3
  <2> HIDE DEF before
  <2>7. QED
    BY <1>2, <2>5, <2>6
<1>7. QED
  BY <1>4, <1>5, <1>6

-----------------------------------------------------------------------------
(* What the parts of the actions do to the length of the queue             *)

\* u is s with packets of type t about the messages of e behind it.
Behind(u, s, t, e) == u = s \o [i \in DOMAIN e |-> Packet(t, e[i])]

\* now are the lowest messages of the list that wait, in order; those of
\* them that e names are sent and use up the quota q.
Releases(list, q, now, e) ==
  /\ msgs' = [r \in Reports |-> IF r \in now THEN "wait_for_pubrec" ELSE list[r]]
  /\ \A r \in now, w \in Waiting(list) \ now : r < w
  /\ \A i \in DOMAIN e : e[i] \in now
  /\ \A i, j \in DOMAIN e : i < j => e[i] < e[j]
  /\ quota' + Len(e) = q
  /\ Len(e) <= Cardinality(now)
  /\ Behind(out', out, "PUBLISH", e)
  /\ sock => Len(e) = Cardinality(now)

LEMMA EnumeratedLength ==
  ASSUME NEW S \in SUBSET Reports, NEW e \in Enumerations(S)
  PROVE  /\ Cardinality(S) \in Nat /\ DOMAIN e = 1..Cardinality(S)
         /\ \A i \in DOMAIN e : e[i] \in S
         /\ \A i, j \in DOMAIN e : i < j => e[i] < e[j]
<1>1. Cardinality(S) \in Nat
  BY FiniteReports
<1>2. QED
  BY <1>1 DEF Enumerations

(* Release() takes from the quota what it puts into the queue, and what it *)
(* takes are the lowest of the waiting messages, in their order.           *)
LEMMA ReleaseCounts ==
  ASSUME TypeOK, NEW list \in [Reports -> States], NEW q \in Nat,
         Release(list, q)
  PROVE  \E now \in SUBSET Waiting(list), e \in Seq(Reports) : Releases(list, q, now, e)
<1> DEFINE n == IF sock \/ q = 0 THEN q ELSE 1
           now == FirstOf(Waiting(list), n)
<1>1. n \in Nat /\ q \in Nat
  OBVIOUS
<1>2. Waiting(list) \in SUBSET Reports
  BY DEF Waiting
<1>3. /\ now \in SUBSET Waiting(list) /\ now \in SUBSET Reports
      /\ \A r \in now, w \in Waiting(list) \ now : r < w
  <2> HIDE DEF n
  <2>1. QED
    BY <1>1, <1>2, FirstOfBound, FirstOfLowest
<1>4. /\ msgs' = [r \in Reports |-> IF r \in now THEN "wait_for_pubrec" ELSE list[r]]
      /\ quota' = IF sock THEN q - Cardinality(now) ELSE q
      /\ ~sock => out' = out
      /\ sock => \E s \in Enumerations(now) :
                   out' = out \o [i \in DOMAIN s |-> Packet("PUBLISH", s[i])]
  BY DEF Release
<1>5. out \in Seq(Packets) /\ Cardinality(now) \in Nat
  <2> HIDE DEF now
  <2>1. QED
    BY <1>3, FiniteReports DEF TypeOK
<1> HIDE DEF now, n
<1>6. CASE sock
  <2>1. PICK e \in Enumerations(now) :
          out' = out \o [i \in DOMAIN e |-> Packet("PUBLISH", e[i])]
    BY <1>4, <1>6
  <2>2. /\ DOMAIN e = 1..Cardinality(now)
        /\ \A i \in DOMAIN e : e[i] \in now
        /\ \A i, j \in DOMAIN e : i < j => e[i] < e[j]
    BY <1>3, EnumeratedLength
  <2>3. e \in [1..Cardinality(now) -> Reports]
    BY <1>3 DEF Enumerations
  <2>4. e \in Seq(Reports) /\ Len(e) = Cardinality(now)
    BY <1>5, <2>3
  <2>5. quota' = q - Cardinality(now)
    BY <1>4, <1>6, Zenon
  <2>6. quota' + Len(e) = q
    BY <1>1, <1>5, <2>4, <2>5
  <2>7. Len(e) <= Cardinality(now)
    BY <1>5, <2>4
  <2>8. QED
    BY <1>3, <1>4, <2>1, <2>2, <2>4, <2>6, <2>7, Zenon DEF Releases, Behind
<1>7. CASE ~sock
  <2> DEFINE e == <<>>
  <2>1. e \in Seq(Reports) /\ DOMAIN e = {} /\ Len(e) = 0
    OBVIOUS
  <2>2. out' = out /\ quota' = q
    BY <1>4, <1>7, Zenon
  <2>3. [i \in DOMAIN e |-> Packet("PUBLISH", e[i])] = <<>>
    OBVIOUS
  <2>4. out' = out \o [i \in DOMAIN e |-> Packet("PUBLISH", e[i])]
    BY <1>5, <2>2, <2>3
  <2>5. quota' + Len(e) = q /\ Len(e) <= Cardinality(now)
    BY <1>1, <1>5, <2>1, <2>2
  <2> HIDE DEF e
  <2>6. /\ \A i \in DOMAIN e : e[i] \in now
        /\ \A i, j \in DOMAIN e : i < j => e[i] < e[j]
    BY <2>1
  <2>7. QED
    BY <1>3, <1>4, <1>7, <2>1, <2>4, <2>5, <2>6, Zenon DEF Releases, Behind
<1>8. QED
  BY <1>6, <1>7

\* The packets of an enumeration follow those of the queue.
LEMMA QueuedPackets ==
  ASSUME NEW s \in Seq(Packets), NEW e \in Seq(Reports), NEW t \in Types,
         NEW u, Behind(u, s, t, e)
  PROVE  /\ u \in Seq(Packets) /\ Len(u) = Len(s) + Len(e)
         /\ \A i \in DOMAIN s : i \in DOMAIN u /\ u[i] = s[i]
         /\ \A i \in DOMAIN u : \/ i \in DOMAIN s /\ u[i] = s[i]
                                \/ /\ i > Len(s) /\ i - Len(s) \in DOMAIN e
                                   /\ u[i] = Packet(t, e[i - Len(s)])
<1> DEFINE v == [i \in DOMAIN e |-> Packet(t, e[i])]
<1>1. \A i \in DOMAIN e : Packet(t, e[i]) \in Packets
  BY PacketType
<1>2. v \in Seq(Packets) /\ DOMAIN v = DOMAIN e /\ Len(v) = Len(e)
      /\ \A i \in DOMAIN e : v[i] = Packet(t, e[i])
  BY <1>1
<1>3. /\ DOMAIN s = 1..Len(s) /\ Len(s) \in Nat /\ DOMAIN e = 1..Len(e) /\ Len(e) \in Nat
  OBVIOUS
<1> HIDE DEF v
<1>4. u = s \o v
  BY DEF v, Behind
<1>5. /\ u \in Seq(Packets) /\ Len(u) = Len(s) + Len(v) /\ DOMAIN u = 1..(Len(s) + Len(v))
      /\ \A i \in 1..(Len(s) + Len(v)) : u[i] = IF i <= Len(s) THEN s[i] ELSE v[i - Len(s)]
  <2>1. /\ s \o v \in Seq(Packets) /\ Len(s \o v) = Len(s) + Len(v)
        /\ \A i \in 1..(Len(s) + Len(v)) :
             (s \o v)[i] = IF i <= Len(s) THEN s[i] ELSE v[i - Len(s)]
    BY <1>2, ConcatProperties
  <2>2. DOMAIN u = 1..Len(u)
    BY <1>4, <2>1
  <2>3. QED
    BY <1>4, <2>1, <2>2
<1>6. \A i \in DOMAIN s : i \in DOMAIN u /\ u[i] = s[i]
  BY <1>2, <1>3, <1>5
<1>7. ASSUME NEW i \in DOMAIN u
      PROVE  \/ i \in DOMAIN s /\ u[i] = s[i]
             \/ /\ i > Len(s) /\ i - Len(s) \in DOMAIN e
                /\ u[i] = Packet(t, e[i - Len(s)])
  <2>1. CASE i <= Len(s)
    BY <1>2, <1>3, <1>5, <2>1
  <2>2. CASE ~(i <= Len(s))
    <3>1. i - Len(s) \in 1..Len(e) /\ i > Len(s) /\ u[i] = v[i - Len(s)]
      BY <1>2, <1>3, <1>5, <2>2
    <3>2. QED
      BY <1>2, <1>3, <3>1
  <2>3. QED
    BY <2>1, <2>2
<1>8. QED
  BY <1>2, <1>5, <1>6, <1>7

-----------------------------------------------------------------------------
(* The quota. Every PUBLISH or PUBREL that is sent has its part of the     *)
(* quota, and it is answered once, so the packets on their way never are   *)
(* more than the quota gave out. Before CONNACK has been handled, what is  *)
(* to be sent again has its part as well. While CONNACK is being handled   *)
(* the quota is full again, whatever is on its way: a publisher who comes  *)
(* then gives out up to Inflight messages more, and on such a connection   *)
(* twice as many packets may be on their way.                              *)

Sent == {r \in Reports : msgs[r] = "wait_for_pubrec"}

\* CONNECT or CONNACK is on its way.
Handshake == IF Shaking THEN 1 ELSE 0

\* The packets on their way, apart from those.
Traffic ==
  IF On THEN Len(out) + Len(up[conn]) + Len(down) - Handshake ELSE Len(out)

Again == IF BeforeRetry THEN Cardinality(Retried) ELSE 0

\* The queue of the client is or will be that of a connection.
Queueing == net \in {"resolve", "connect"} \/ (On /\ session[conn] # "gone")

\* CONNACK has not been handled.
Early == net \in {"resolve", "connect"} \/ Shaking

\* How many packets may be on their way.
Limit ==
  IF net = "reset" \/ (On /\ conn \in raced) THEN 2 * Inflight ELSE Inflight

QuotaInv ==
  Queueing =>
    /\ Traffic + quota + Again <= Limit
    /\ Early => Traffic <= Cardinality(Sent)
    /\ net = "reset" /\ conn \notin raced => Traffic + Again <= Inflight

\* A connection is raced once its CONNACK is being handled.
RacedInv ==
  \A c \in raced : c <= conn /\ ~(c = conn /\ net = "loop" /\ ~active)

LEMMA CountTypes ==
  ASSUME TypeOK
  PROVE  /\ Len(out) \in Nat /\ Len(down) \in Nat /\ quota \in Nat
         /\ \A c \in Conns : Len(up[c]) \in Nat
         /\ conn \in Conns
         /\ Retried \in SUBSET Reports /\ Sent \in SUBSET Reports
         /\ Cardinality(Retried) \in Nat /\ Cardinality(Sent) \in Nat
         /\ Handshake \in {0, 1} /\ Traffic \in Int /\ Again \in Nat
         /\ Inflight \in Nat /\ Limit \in {Inflight, 2 * Inflight} /\ Limit \in Nat
<1>1. /\ Len(out) \in Nat /\ Len(down) \in Nat /\ quota \in Nat
      /\ \A c \in Conns : Len(up[c]) \in Nat
      /\ conn \in Conns /\ Inflight \in Nat
  BY SessionAssumption DEF TypeOK
<1>2. Retried \in SUBSET Reports /\ Sent \in SUBSET Reports
  BY DEF Retried, Sent
<1>3. Cardinality(Retried) \in Nat /\ Cardinality(Sent) \in Nat
  BY <1>2, FiniteReports
<1>4. Handshake \in {0, 1}
  BY DEF Handshake
<1>5. Traffic \in Int /\ Again \in Nat
  BY <1>1, <1>3, <1>4 DEF Traffic, Again
<1>6. Limit \in {Inflight, 2 * Inflight} /\ Limit \in Nat
  BY <1>1 DEF Limit
<1>7. QED
  BY <1>1, <1>2, <1>3, <1>4, <1>5, <1>6

\* The flags only matter as far as they tell the phases of a connection.
LEMMA Phases ==
  ASSUME TypeOK
  PROVE  /\ net \in {"loop", "sleep", "resolve", "connect", "reset", "connack"}
         /\ net = "loop" => \/ Early /\ BeforeRetry /\ On /\ Handshake = 1
                            \/ ~Early /\ ~BeforeRetry /\ On /\ Handshake = 0
         /\ net = "connack" => ~Early /\ On /\ Handshake = 0
         /\ net \in {"resolve", "connect"} => Early /\ BeforeRetry /\ ~On /\ Queueing
         /\ net = "sleep" => ~Early /\ ~BeforeRetry /\ ~On /\ ~Queueing
         /\ On => (Queueing <=> session[conn] # "gone")
<1>1. net \in {"loop", "sleep", "resolve", "connect", "reset", "connack"}
  BY DEF TypeOK
<1>2. QED
  BY <1>1 DEF Early, BeforeRetry, On, Handshake, Queueing, Shaking

LEMMA SamePhase ==
  ASSUME net' = net \/ (net = "loop" /\ net' = "reset"), UNCHANGED <<active, conn>>
  PROVE  /\ On' <=> On
         /\ BeforeRetry' <=> BeforeRetry
         /\ Early' <=> Early
         /\ Handshake' = Handshake
         /\ UNCHANGED <<net, raced>> => Limit' = Limit
BY DEF On, BeforeRetry, Early, Handshake, Shaking, Limit

(* What Release() does to the counts, and to a list that differs from that *)
(* of the client only in messages that have not been sent.                 *)
LEMMA ReleaseBalance ==
  ASSUME TypeOK, NEW list \in [Reports -> States], NEW q \in Nat,
         Release(list, q)
  PROVE  \E k \in Nat :
           /\ Len(out') = Len(out) + k /\ quota' + k = q
           /\ (\A r \in Reports :
                 list[r] = msgs[r] \/ {list[r], msgs[r]} \subseteq {"none", "invalid"})
              => Retried' = Retried /\ Cardinality(Sent') >= Cardinality(Sent) + k
<1>1. PICK now \in SUBSET Waiting(list), e \in Seq(Reports) : Releases(list, q, now, e)
  BY ReleaseCounts
<1>2. /\ msgs' = [r \in Reports |-> IF r \in now THEN "wait_for_pubrec" ELSE list[r]]
      /\ quota' + Len(e) = q
      /\ Len(e) <= Cardinality(now)
      /\ Behind(out', out, "PUBLISH", e)
  BY <1>1, Zenon DEF Releases
<1>3. out \in Seq(Packets) /\ msgs \in [Reports -> States] /\ "PUBLISH" \in Types
  BY DEF TypeOK, Types
<1>4. Len(out') = Len(out) + Len(e) /\ Len(e) \in Nat
  BY <1>2, <1>3, QueuedPackets
<1>5. \A r \in now : r \in Reports /\ list[r] = "invalid"
  BY DEF Waiting
<1>6. ASSUME \A r \in Reports :
               list[r] = msgs[r] \/ {list[r], msgs[r]} \subseteq {"none", "invalid"}
      PROVE  Retried' = Retried /\ Cardinality(Sent') >= Cardinality(Sent) + Len(e)
  <2>1. \A r \in Reports :
          /\ msgs'[r] \in {"publish_qos2", "resend_pubrel", "wait_for_pubcomp"}
               <=> msgs[r] \in {"publish_qos2", "resend_pubrel", "wait_for_pubcomp"}
          /\ msgs'[r] = "wait_for_pubrec" <=> msgs[r] = "wait_for_pubrec" \/ r \in now
          /\ r \in now => msgs[r] # "wait_for_pubrec"
    BY <1>2, <1>5, <1>6
  <2>2. Retried' = Retried
    BY <2>1 DEF Retried
  <2>3. /\ now \in SUBSET Reports /\ Sent \in SUBSET Reports
        /\ Sent \cap now = {} /\ Sent' = Sent \cup now
    BY <1>5, <2>1 DEF Sent
  <2>4. Cardinality(Sent') = Cardinality(Sent) + Cardinality(now)
    BY <2>3, DisjointReports
  <2>5. Cardinality(Sent) \in Nat /\ Cardinality(now) \in Nat
    BY <2>3, FiniteReports
  <2>6. QED
    BY <1>2, <1>4, <2>2, <2>4, <2>5
<1>7. QED
  BY <1>2, <1>4, <1>6

(* What Reset() does to the counts. The messages it lets keep a part of    *)
(* the quota are as many as there are, or all the quota allows.            *)
LEMMA ResetBalance ==
  ASSUME TypeOK, NEW quotaOnly \in BOOLEAN, Reset(quotaOnly)
  PROVE  /\ quota' + Cardinality(Retried') <= Inflight
         /\ quotaOnly => \A n, m \in Nat :
              /\ n + Cardinality(Retried) <= m /\ Inflight <= m
              /\ n <= Cardinality(Sent)
              => n + quota' + Cardinality(Retried') <= m
<1> DEFINE first == FirstOf(Listed(msgs), Inflight)
<1>1. /\ quota' = Inflight - Cardinality(first)
      /\ msgs' = [r \in Reports |->
                    IF msgs[r] = "none" THEN "none"
                    ELSE IF r \notin first THEN "invalid"
                    ELSE IF quotaOnly THEN msgs[r]
                    ELSE ResetState(msgs[r])]
  BY DEF Reset
<1>2. Listed(msgs) \in SUBSET Reports /\ Inflight \in Nat
  BY SessionAssumption DEF Listed
<1>3. /\ first \in SUBSET Listed(msgs) /\ Cardinality(first) \in 0..Inflight
      /\ Cardinality(Listed(msgs)) <= Inflight => first = Listed(msgs)
      /\ Cardinality(Listed(msgs)) > Inflight => Cardinality(first) = Inflight
  BY <1>2, FirstOfBound, FirstOfLowest
<1> HIDE DEF first
<1>4. /\ Retried \in SUBSET Reports /\ Sent \in SUBSET Reports /\ Retried' \in SUBSET Reports
      /\ first \in SUBSET Reports
  BY <1>2, <1>3 DEF Retried, Sent
<1>5. /\ Cardinality(Retried) \in Nat /\ Cardinality(Sent) \in Nat
      /\ Cardinality(Retried') \in Nat /\ Cardinality(first) \in Nat
      /\ Cardinality(Listed(msgs)) \in Nat
  BY <1>2, <1>4, FiniteReports
<1>6. Retried' \in SUBSET first
  <2>1. \A r \in Reports : r \notin first => msgs'[r] \in {"none", "invalid"}
    BY <1>1
  <2>2. QED
    BY <2>1 DEF Retried
<1>7. Cardinality(Retried') <= Cardinality(first)
  BY <1>4, <1>6, FiniteReports
<1>8. quota' + Cardinality(Retried') <= Inflight
  BY <1>1, <1>2, <1>5, <1>7
<1>9. ASSUME quotaOnly, NEW n \in Nat, NEW m \in Nat,
             n + Cardinality(Retried) <= m, Inflight <= m, n <= Cardinality(Sent)
      PROVE  n + quota' + Cardinality(Retried') <= m
  <2>1. Retried' \in SUBSET Retried
    <3>1. \A r \in Reports : msgs'[r] \in {"none", "invalid"} \/ msgs'[r] = msgs[r]
      BY <1>1, <1>9
    <3>2. QED
      BY <3>1 DEF Retried
  <2>2. Cardinality(Retried') <= Cardinality(Retried)
    BY <1>4, <2>1, FiniteReports
  <2>3. CASE Cardinality(Listed(msgs)) > Inflight
    <3>1. quota' = 0
      BY <1>1, <1>2, <1>3, <2>3
    <3>2. QED
      BY <1>2, <1>5, <1>9, <2>2, <3>1
  <2>4. CASE Cardinality(Listed(msgs)) <= Inflight
    <3>1. Retried \cap Sent = {} /\ Retried \cup Sent \in SUBSET first
      BY <1>3, <2>4 DEF Retried, Sent, Listed
    <3>2. Cardinality(Retried \cup Sent) = Cardinality(Retried) + Cardinality(Sent)
      BY <1>4, <3>1, DisjointReports
    <3>3. Cardinality(Retried \cup Sent) <= Cardinality(first)
      BY <1>4, <3>1, FiniteReports
    <3>4. QED
      BY <1>1, <1>2, <1>5, <1>9, <2>2, <3>2, <3>3
  <2>5. QED
    BY <1>2, <1>5, <2>3, <2>4
<1>10. QED
  BY <1>8, <1>9

\* Steps of the network thread and the broker that leave the messages alone.
LEMMA SameQuota ==
  ASSUME TypeOK, QuotaInv,
         UNCHANGED <<net, active, conn, raced, session, msgs, quota>>,
         Queueing => \E t \in Int : Traffic' = t /\ t <= Traffic
  PROVE  QuotaInv'
<1>1. Sent' = Sent /\ Retried' = Retried /\ (Queueing' <=> Queueing) /\ (Early' <=> Early)
  BY SamePhase DEF Sent, Retried, Queueing, On
<1>2. Again' = Again /\ Limit' = Limit
  BY <1>1, SamePhase DEF Again
<1>3. PICK w \in Int, q, a, l, i, s \in Nat :
        /\ w = Traffic /\ q = quota /\ a = Again /\ l = Limit /\ i = Inflight
        /\ s = Cardinality(Sent)
  BY CountTypes
<1>4. CASE Queueing
  <2>1. w + q + a <= l /\ (Early => w <= s)
    BY <1>3, <1>4 DEF QuotaInv
  <2>2. net = "reset" /\ conn \notin raced => w + a <= i
    BY <1>3, <1>4 DEF QuotaInv
  <2>3. PICK t \in Int : t = Traffic' /\ t <= Traffic
    BY <1>4
  <2>4. t <= w /\ t + q + a <= l
    <3>1. t <= w
      BY <1>3, <2>3
    <3>2. QED
      BY <2>1, <3>1
  <2>5. Traffic' + quota' + Again' <= Limit'
    BY <1>2, <1>3, <2>3, <2>4
  <2>6. ASSUME Early' PROVE Traffic' <= Cardinality(Sent')
    <3>1. w <= s /\ Sent' = Sent
      BY <1>1, <2>1, <2>6
    <3>2. QED
      BY <1>3, <2>3, <2>4, <3>1
  <2>7. ASSUME net' = "reset", conn' \notin raced' PROVE Traffic' + Again' <= Inflight
    <3>1. w + a <= i
      BY <2>2, <2>7
    <3>2. t + a <= i
      BY <2>4, <3>1
    <3>3. QED
      BY <1>2, <1>3, <2>3, <3>2
  <2>8. QED
    BY <2>5, <2>6, <2>7 DEF QuotaInv
<1>5. CASE ~Queueing
  BY <1>1, <1>5 DEF QuotaInv
<1>6. QED
  BY <1>4, <1>5

LEMMA TrafficParts ==
  /\ On => Traffic = Len(out) + Len(up[conn]) + Len(down) - Handshake
  /\ ~On => Traffic = Len(out)
  /\ On' => Traffic' = Len(out') + Len(up'[conn']) + Len(down') - Handshake'
  /\ ~On' => Traffic' = Len(out')
BY DEF Traffic

LEMMA MovesQuota ==
  ASSUME TypeOK, QuotaInv,
         UNCHANGED <<net, active, conn, raced, session, msgs, quota>>,
         On, session[conn] # "gone" =>
           \E o, u, d \in Nat : /\ Len(out') = o /\ Len(up'[conn]) = u /\ Len(down') = d
                                /\ o + u + d <= Len(out) + Len(up[conn]) + Len(down)
  PROVE  QuotaInv'
<1>1. (On' <=> On) /\ (Queueing <=> session[conn] # "gone") /\ Handshake' = Handshake
  BY SamePhase DEF Queueing, On
<1>2. ASSUME Queueing PROVE \E t \in Int : Traffic' = t /\ t <= Traffic
  <2>1. PICK o, u, d \in Nat : /\ Len(out') = o /\ Len(up'[conn]) = u /\ Len(down') = d
                                /\ o + u + d <= Len(out) + Len(up[conn]) + Len(down)
    BY <1>1, <1>2
  <2>2. PICK a, b, c \in Nat, h \in {0, 1} :
          Len(out) = a /\ Len(up[conn]) = b /\ Len(down) = c /\ Handshake = h
    BY CountTypes
  <2>3. Traffic = a + b + c - h
    BY <2>2, TrafficParts
  <2>4. Traffic' = o + u + d - h
    <3>1. Traffic' = Len(out') + Len(up'[conn']) + Len(down') - Handshake'
      BY <1>1, TrafficParts
    <3>2. conn' = conn /\ Handshake' = h
      BY <1>1, <2>2
    <3>3. QED
      BY <2>1, <3>1, <3>2
  <2>5. o + u + d <= a + b + c
    BY <2>1, <2>2
  <2>6. o + u + d - h \in Int /\ o + u + d - h <= a + b + c - h
    BY <2>5
  <2>7. QED
    BY <2>3, <2>4, <2>6
<1>3. QED
  BY <1>2, SameQuota

LEMMA RetryLength ==
  ASSUME TypeOK, RetryAll
  PROVE  Len(out') = Len(out) + Cardinality(Retried)
<1>1. PICK s \in Enumerations(Retried) : out' = out \o [i \in DOMAIN s |-> Retry(s[i])]
  BY DEF RetryAll
<1> DEFINE u == [i \in DOMAIN s |-> Retry(s[i])]
<1>2. Retried \in SUBSET Reports /\ out \in Seq(Packets)
  BY DEF Retried, TypeOK
<1>3. /\ DOMAIN s = 1..Cardinality(Retried) /\ Cardinality(Retried) \in Nat
      /\ \A i \in DOMAIN s : s[i] \in Reports
  BY <1>2, EnumeratedLength
<1>4. \A i \in DOMAIN s : Retry(s[i]) \in Packets
  BY <1>3, PacketType DEF Types, Retry
<1>5. u \in Seq(Packets) /\ Len(u) = Cardinality(Retried)
  BY <1>3, <1>4
<1>6. out' = out \o u
  BY <1>1
<1> HIDE DEF u
<1>7. Len(out \o u) = Len(out) + Len(u)
  BY <1>2, <1>5, ConcatProperties
<1>8. QED
  BY <1>5, <1>6, <1>7

\* What a publisher takes from the quota is on its way.
LEMMA HandsBalance ==
  ASSUME TypeOK, ListInv, NEW q \in Nat, Hands(q)
  PROVE  \E k, p, c \in Nat, t \in Int :
           /\ quota' = p /\ p + k = q
           /\ Traffic = t /\ Traffic' = t + k
           /\ Cardinality(Sent') = c /\ c >= Cardinality(Sent) + k
           /\ Again' = Again /\ (Queueing' <=> Queueing) /\ (Early' <=> Early)
<1> DEFINE list == [msgs EXCEPT ![published + 1] = "invalid"]
<1>1. /\ list \in [Reports -> States] /\ Release(list, q)
      /\ msgs \in [Reports -> States]
  BY DEF Hands, TypeOK, States
<1>2. /\ published \in Nat
      /\ published + 1 \in Reports => msgs[published + 1] = "none"
  BY DEF TypeOK, ListInv
<1>3. \A r \in Reports :
        list[r] = msgs[r] \/ {list[r], msgs[r]} \subseteq {"none", "invalid"}
  BY <1>1, <1>2
<1> HIDE DEF list
<1>4. PICK k \in Nat :
        /\ Len(out') = Len(out) + k /\ quota' + k = q
        /\ Retried' = Retried /\ Cardinality(Sent') >= Cardinality(Sent) + k
  BY <1>1, <1>3, ReleaseBalance
<1>5. /\ UNCHANGED <<active, conn, session, up, down>>
      /\ net' = net \/ (net = "loop" /\ net' = "reset")
  BY DEF Hands, broker
<1>6. /\ On' <=> On
      /\ BeforeRetry' <=> BeforeRetry
      /\ Early' <=> Early
      /\ Handshake' = Handshake
  BY <1>5, SamePhase
<1>7. Queueing' <=> Queueing
  BY <1>5, <1>6 DEF Queueing
<1>8. Again' = Again
  BY <1>4, <1>6 DEF Again
<1>9. PICK o, u, d \in Nat, h \in {0, 1} :
        Len(out) = o /\ Len(up[conn]) = u /\ Len(down) = d /\ Handshake = h
  BY CountTypes
<1>10. PICK t \in Int : Traffic = t /\ Traffic' = t + k
  <2>1. CASE On
    <3>1. Traffic = o + u + d - h
      BY <1>9, <2>1, TrafficParts
    <3>2. Traffic' = Len(out') + Len(up'[conn']) + Len(down') - Handshake'
      BY <1>6, <2>1, TrafficParts
    <3>3. Len(out') = o + k /\ Len(up'[conn']) = u /\ Len(down') = d /\ Handshake' = h
      BY <1>4, <1>5, <1>6, <1>9
    <3>4. Traffic' = (o + u + d - h) + k
      BY <3>2, <3>3
    <3>5. QED
      BY <3>1, <3>4
  <2>2. CASE ~On
    <3>1. Traffic = o /\ Traffic' = o + k
      BY <1>4, <1>6, <1>9, <2>2, TrafficParts
    <3>2. QED
      BY <3>1
  <2>3. QED
    BY <2>1, <2>2
<1>11. PICK p \in Nat, c \in Nat : quota' = p /\ Cardinality(Sent') = c
  <2>1. Sent' \in SUBSET Reports
    BY DEF Sent
  <2>2. Cardinality(Sent') \in Nat
    BY <2>1, FiniteReports
  <2>3. quota' \in Nat
    <3>1. quota' \in 0..Inflight
      BY HandsType
    <3>2. QED
      BY <3>1
  <2>4. QED
    BY <2>2, <2>3
<1>12. QED
  BY <1>4, <1>6, <1>7, <1>8, <1>10, <1>11

(* A report is published, or the quota is filled, or both at once. Only    *)
(* the store of handle__connack makes the sum of the packets and the quota *)
(* grow, by Inflight, and Limit grows by as much.                          *)
LEMMA PublishQuota ==
  ASSUME TypeOK, ListInv, FirstInv, RacedInv, QuotaInv, PublishOrFill PROVE QuotaInv'
<1>1. PICK b, a, i, s, l \in Nat :
        /\ b = quota /\ a = Again /\ i = Inflight /\ s = Cardinality(Sent) /\ l = Limit
        /\ b <= i /\ l \in {i, 2 * i}
  <2>1. quota <= Inflight
    BY SessionAssumption DEF TypeOK
  <2>2. QED
    BY <2>1, CountTypes
<1>2. ASSUME net = "loop", Arrived("CONNACK", 0)
      PROVE  On /\ Early /\ conn \notin raced /\ l = i
  <2>1. ~active
    <3>1. down # <<>> /\ Head(down) = Packet("CONNACK", 0)
      BY <1>2 DEF Arrived
    <3>2. 1 \in DOMAIN down /\ down[1].type = "CONNACK"
      BY <3>1 DEF TypeOK, Packet
    <3>3. QED
      BY <3>2 DEF FirstInv, Shaking
  <2>2. On /\ Early /\ conn \notin raced
    BY <1>2, <2>1 DEF On, Early, Shaking, RacedInv
  <2>3. QED
    BY <1>1, <1>2, <2>2 DEF Limit
<1>3. ASSUME Publish PROVE QuotaInv'
  <2>1. PICK k, p, c \in Nat, t \in Int :
          /\ quota' = p /\ p + k = quota
          /\ Traffic = t /\ Traffic' = t + k
          /\ Cardinality(Sent') = c /\ c >= Cardinality(Sent) + k
          /\ Again' = Again /\ (Queueing' <=> Queueing) /\ (Early' <=> Early)
    BY <1>3, PublishHands, HandsBalance
  <2>2. /\ UNCHANGED <<net, active, conn>>
        /\ raced' = IF net = "reset" THEN raced \cup {conn} ELSE raced
    BY <1>3 DEF Publish
  <2>3. Limit' = Limit
    BY <2>2 DEF Limit, On
  <2>4. net' = "reset" => conn' \in raced'
    BY <2>2
  <2>5. SUFFICES ASSUME Queueing
                 PROVE  /\ Traffic' + quota' + Again' <= Limit'
                        /\ Early => Traffic' <= Cardinality(Sent')
    BY <2>1, <2>4 DEF QuotaInv
  <2>6. t + b + a <= l /\ (Early => t <= s) /\ p + k = b /\ c >= s + k
    BY <1>1, <2>1, <2>5 DEF QuotaInv
  <2>7. (t + k) + p + a <= l /\ (Early => t + k <= c)
    BY <2>6
  <2>8. QED
    BY <1>1, <2>1, <2>3, <2>7
<1>4. ASSUME NEW j \in 1..quota, FillDuringPublish(j) PROVE QuotaInv'
  <2>1. PICK k, p, c \in Nat, t \in Int :
          /\ quota' = p /\ p + k = j + Inflight
          /\ Traffic = t /\ Traffic' = t + k
          /\ Cardinality(Sent') = c /\ c >= Cardinality(Sent) + k
          /\ Again' = Again /\ (Queueing' <=> Queueing) /\ (Early' <=> Early)
    BY <1>4, PublishHands, HandsBalance
  <2>2. /\ net = "loop" /\ Arrived("CONNACK", 0) /\ net' = "reset" /\ conn' \in raced'
    BY <1>4 DEF FillDuringPublish
  <2>3. Limit' = 2 * i
    BY <1>1, <2>2 DEF Limit
  <2>4. SUFFICES ASSUME Queueing
                 PROVE  /\ Traffic' + quota' + Again' <= Limit'
                        /\ Early => Traffic' <= Cardinality(Sent')
    BY <2>1, <2>2 DEF QuotaInv
  <2>5. /\ t + b + a <= i /\ t <= s /\ p + k = j + i /\ c >= s + k
        /\ j \in Nat /\ j <= b
    BY <1>1, <1>2, <2>1, <2>2, <2>4 DEF QuotaInv
  <2>6. (t + k) + p + a <= 2 * i /\ t + k <= c
    BY <2>5
  <2>7. QED
    BY <1>1, <2>1, <2>3, <2>6
<1>5. ASSUME FillQuota PROVE QuotaInv'
  <2>1. /\ net = "loop" /\ Arrived("CONNACK", 0) /\ net' = "reset" /\ quota' = Inflight
        /\ UNCHANGED <<active, conn, session, msgs, out, up, down>>
    BY <1>5 DEF FillQuota, broker
  <2>2. /\ On' <=> On
        /\ BeforeRetry' <=> BeforeRetry
        /\ Early' <=> Early
        /\ Handshake' = Handshake
    BY <2>1, SamePhase
  <2>3. /\ Sent' = Sent /\ Retried' = Retried /\ (Queueing' <=> Queueing)
        /\ Traffic' = Traffic
    BY <2>1, <2>2 DEF Sent, Retried, Queueing, Traffic
  <2>4. Again' = Again /\ Limit' = 2 * i
    BY <1>1, <2>1, <2>2, <2>3 DEF Again, Limit
  <2>5. SUFFICES ASSUME Queueing
                 PROVE  /\ Traffic' + quota' + Again' <= Limit'
                        /\ Traffic' <= Cardinality(Sent')
                        /\ Traffic' + Again' <= Inflight
    BY <2>3 DEF QuotaInv
  <2>6. PICK t \in Int : t = Traffic
    BY CountTypes
  <2>7. t + b + a <= i /\ t <= s
    BY <1>1, <1>2, <2>1, <2>5, <2>6 DEF QuotaInv
  <2>8. t + i + a <= 2 * i /\ t + a <= i
    BY <2>7
  <2>9. QED
    BY <1>1, <2>1, <2>3, <2>4, <2>6, <2>7, <2>8
<1>6. QED
  BY <1>3, <1>4, <1>5 DEF PublishOrFill

\* PUBCOMP returns a part of the quota, and it was one of the packets.
LEMMA PubcompQuota ==
  ASSUME TypeOK, QuotaInv, NEW m \in Reports, Pubcomp(m) PROVE QuotaInv'
<1> DEFINE list == [msgs EXCEPT ![m] = "none"]
           q == IF quota < Inflight THEN quota + 1 ELSE quota
<1>1. /\ list \in [Reports -> States] /\ q \in Nat /\ q \in {quota, quota + 1}
  BY SessionAssumption DEF TypeOK, States
<1>2. Release(list, q)
  BY DEF Pubcomp
<1> HIDE DEF list, q
<1>3. PICK k \in Nat : Len(out') = Len(out) + k /\ quota' + k = q
  BY <1>1, <1>2, ReleaseBalance
<1>4. /\ UNCHANGED <<net, active, conn, raced, session, up>> /\ net = "loop" /\ active
      /\ down # <<>> /\ down' = Tail(down)
  BY DEF Pubcomp, Reads, Arrived, broker
<1>5. On /\ ~Early /\ ~BeforeRetry /\ Handshake = 0
  BY <1>4 DEF On, Early, BeforeRetry, Handshake, Shaking
<1>6. /\ On' /\ ~Early' /\ ~BeforeRetry' /\ Handshake' = 0
      /\ Queueing' <=> Queueing
      /\ Limit' = Limit /\ net' = "loop"
  BY <1>4, <1>5, SamePhase DEF Queueing
<1>7. Again = 0 /\ Again' = 0
  BY <1>5, <1>6 DEF Again
<1>8. PICK o, u, d, b \in Nat :
        Len(out) = o /\ Len(up[conn]) = u /\ Len(down) = d /\ quota = b
  BY CountTypes
<1>9. Len(down') = d - 1
  BY <1>4, <1>8 DEF TypeOK
<1>10. Traffic = o + u + d
  BY <1>5, <1>8, TrafficParts
<1>11. Traffic' = o + k + u + (d - 1)
  <2>1. Traffic' = Len(out') + Len(up'[conn']) + Len(down') - Handshake'
    BY <1>6, TrafficParts
  <2>2. Len(out') = o + k /\ Len(up'[conn']) = u
    BY <1>3, <1>4, <1>8
  <2>3. QED
    BY <1>6, <1>9, <2>1, <2>2
<1>12. PICK c \in Nat : quota' = c
  BY <1>1, <1>2, ReleaseEffect
<1>13. SUFFICES ASSUME Queueing PROVE Traffic' + quota' + Again' <= Limit'
  BY <1>6 DEF QuotaInv
<1>14. PICK l \in Nat : l = Limit /\ o + u + d + b <= l
  BY <1>7, <1>8, <1>10, <1>13, CountTypes DEF QuotaInv
<1>15. c + k <= b + 1
  BY <1>1, <1>3, <1>8, <1>12
<1>16. (o + k + u + (d - 1)) + c + 0 <= l
  BY <1>14, <1>15
<1>17. QED
  BY <1>6, <1>7, <1>11, <1>12, <1>14, <1>16

\* PUBREL takes the place of PUBREC.
LEMMA PubrecQuota ==
  ASSUME TypeOK, QuotaInv, NEW m \in Reports, Pubrec(m) PROVE QuotaInv'
<1>1. /\ UNCHANGED <<net, active, conn, raced, session, up, quota>> /\ net = "loop" /\ active
      /\ down # <<>> /\ down' = Tail(down) /\ out' = Append(out, Packet("PUBREL", m))
  BY DEF Pubrec, Reads, Arrived, broker
<1>2. On /\ ~Early /\ ~BeforeRetry /\ Handshake = 0
  BY <1>1 DEF On, Early, BeforeRetry, Handshake, Shaking
<1>3. /\ On' /\ ~Early' /\ ~BeforeRetry' /\ Handshake' = 0
      /\ Queueing' <=> Queueing
      /\ Limit' = Limit /\ net' = "loop"
  BY <1>1, <1>2, SamePhase DEF Queueing
<1>4. Again = 0 /\ Again' = 0
  BY <1>2, <1>3 DEF Again
<1>5. PICK o, u, d, b \in Nat :
        Len(out) = o /\ Len(up[conn]) = u /\ Len(down) = d /\ quota = b
  BY CountTypes
<1>6. Len(down') = d - 1 /\ Len(out') = o + 1
  BY <1>1, <1>5 DEF TypeOK
<1>7. Traffic = o + u + d
  BY <1>2, <1>5, TrafficParts
<1>8. Traffic' = o + 1 + u + (d - 1)
  <2>1. Traffic' = Len(out') + Len(up'[conn']) + Len(down') - Handshake'
    BY <1>3, TrafficParts
  <2>2. Len(up'[conn']) = u /\ Len(down') = d - 1
    BY <1>1, <1>5, <1>6
  <2>3. QED
    BY <1>3, <1>6, <2>1, <2>2
<1>9. SUFFICES ASSUME Queueing PROVE Traffic' + quota' + Again' <= Limit'
  BY <1>3 DEF QuotaInv
<1>10. PICK l \in Nat : l = Limit /\ o + u + d + b <= l
  BY <1>4, <1>5, <1>7, <1>9, CountTypes DEF QuotaInv
<1>11. (o + 1 + u + (d - 1)) + b + 0 <= l
  BY <1>10
<1>12. quota' = b
  BY <1>1, <1>5
<1>13. QED
  BY <1>3, <1>4, <1>8, <1>10, <1>11, <1>12

\* What is sent again had its part of the quota already.
LEMMA RetryQuota ==
  ASSUME TypeOK, FirstInv, QuotaInv, RetryAll PROVE QuotaInv'
<1>1. /\ UNCHANGED <<conn, raced, session, up, down, quota>> /\ net = "connack" /\ net' = "loop"
      /\ ~active /\ active'
  BY DEF RetryAll, FirstInv, broker
<1>2. On /\ BeforeRetry /\ Handshake = 0 /\ (Queueing' => Queueing)
  BY <1>1 DEF On, BeforeRetry, Handshake, Shaking, Queueing
<1>3. On' /\ ~Early' /\ ~BeforeRetry' /\ Handshake' = 0 /\ Limit' = Limit
  BY <1>1 DEF On, Early, BeforeRetry, Handshake, Shaking, Limit
<1>4. Again = Cardinality(Retried) /\ Again' = 0
  BY <1>2, <1>3 DEF Again
<1>5. PICK o, u, d, b, a \in Nat :
        /\ Len(out) = o /\ Len(up[conn]) = u /\ Len(down) = d /\ quota = b
        /\ Cardinality(Retried) = a
  BY CountTypes
<1>6. Len(out') = o + a
  BY <1>5, RetryLength
<1>7. Traffic = o + u + d
  BY <1>2, <1>5, TrafficParts
<1>8. Traffic' = o + a + u + d
  <2>1. Traffic' = Len(out') + Len(up'[conn']) + Len(down') - Handshake'
    BY <1>3, TrafficParts
  <2>2. Len(up'[conn']) = u /\ Len(down') = d
    BY <1>1, <1>5, <1>6
  <2>3. QED
    BY <1>3, <1>6, <2>1, <2>2
<1>9. SUFFICES ASSUME Queueing PROVE Traffic' + quota' + Again' <= Limit'
  BY <1>1, <1>2, <1>3 DEF QuotaInv
<1>10. PICK l \in Nat : l = Limit /\ o + u + d + b + a <= l
  BY <1>4, <1>5, <1>7, <1>9, CountTypes DEF QuotaInv
<1>11. (o + a + u + d) + b + 0 <= l
  BY <1>10
<1>12. quota' = b
  BY <1>1, <1>5
<1>13. QED
  BY <1>3, <1>4, <1>8, <1>10, <1>11, <1>12

\* CONNACK: the quota is counted again.
LEMMA ConnackQuota ==
  ASSUME TypeOK, FirstInv, QuotaInv, Connack PROVE QuotaInv'
<1>1. /\ UNCHANGED <<conn, raced, session, up, out, active>>
      /\ net = "reset" /\ net' = "connack"
      /\ down # <<>> /\ down' = Tail(down) /\ Head(down) = Packet("CONNACK", 0)
      /\ Reset(TRUE)
  BY DEF Connack, Arrived, broker
<1>2. ~active
  BY <1>1 DEF FirstInv
<1>3. On /\ Early /\ BeforeRetry /\ Handshake = 1 /\ (Queueing' => Queueing)
  BY <1>1, <1>2 DEF On, Early, BeforeRetry, Handshake, Shaking, Queueing
<1>4. On' /\ ~Early' /\ BeforeRetry' /\ Handshake' = 0
  BY <1>1, <1>2 DEF On, Early, BeforeRetry, Handshake, Shaking
<1>5. Again = Cardinality(Retried) /\ Again' = Cardinality(Retried')
  BY <1>3, <1>4 DEF Again
<1>6. PICK o, u, d, b, a, w \in Nat :
        /\ Len(out) = o /\ Len(up[conn]) = u /\ Len(down) = d /\ quota = b
        /\ Cardinality(Retried) = a /\ Cardinality(Sent) = w
  BY CountTypes
<1>7. Len(down') = d - 1 /\ d >= 1
  BY <1>1, <1>6 DEF TypeOK
<1>8. Traffic = o + u + d - 1
  BY <1>3, <1>6, TrafficParts
<1>9. Traffic' = o + u + (d - 1)
  <2>1. Traffic' = Len(out') + Len(up'[conn']) + Len(down') - Handshake'
    BY <1>4, TrafficParts
  <2>2. Len(up'[conn']) = u /\ Len(out') = o
    BY <1>1, <1>6
  <2>3. QED
    BY <1>4, <1>7, <2>1, <2>2
<1>10. SUFFICES ASSUME Queueing PROVE Traffic' + quota' + Again' <= Limit'
  BY <1>1, <1>3, <1>4 DEF QuotaInv
<1>11. PICK n \in Nat : n = o + u + (d - 1)
  BY <1>7
<1>12. PICK l \in Nat : l = Limit' /\ n + a <= l /\ Inflight <= l /\ n <= w
  <2>1. PICK i \in Nat : i = Inflight
    BY CountTypes
  <2>2. n <= w /\ n + b + a <= 2 * i /\ (conn \notin raced => n + a <= i)
    <3>1. Limit = 2 * i
      BY <1>1, <2>1 DEF Limit
    <3>2. QED
      BY <1>1, <1>3, <1>5, <1>6, <1>8, <1>10, <1>11, <2>1, <3>1 DEF QuotaInv
  <2>3. Limit' = IF conn \in raced THEN 2 * i ELSE i
    BY <1>1, <1>4, <2>1 DEF Limit
  <2>4. n + a <= 2 * i /\ i <= 2 * i
    BY <2>2
  <2>5. QED
    BY <2>1, <2>2, <2>3, <2>4
<1>13. n + quota' + Cardinality(Retried') <= l
  BY <1>1, <1>6, <1>12, ResetBalance
<1>14. QED
  BY <1>5, <1>9, <1>11, <1>12, <1>13

\* The steps between two connections.
LEMMA ConnectingQuota ==
  ASSUME TypeOK, AheadInv, FirstInv, RacedInv, QuotaInv,
         LoseConnection \/ Reconnect \/ OpenSocket \/ ConnectFails \/ SendConnect
  PROVE  QuotaInv'
<1>1. CASE LoseConnection \/ ConnectFails
  <2>1. net' = "sleep"
    BY <1>1 DEF LoseConnection, ConnectFails
  <2>2. ~Queueing'
    BY <2>1 DEF Queueing, On
  <2>3. QED
    BY <2>2 DEF QuotaInv
<1>2. CASE Reconnect
  <2>1. net' = "resolve" /\ out' = <<>> /\ Reset(FALSE)
    BY <1>2 DEF Reconnect
  <2>2. ~On' /\ BeforeRetry' /\ Len(out') = 0 /\ Limit' = Inflight
    BY <2>1 DEF On, BeforeRetry, Limit
  <2>3. Traffic' = 0 /\ Again' = Cardinality(Retried')
    BY <2>2, TrafficParts DEF Again
  <2>4. quota' + Cardinality(Retried') <= Inflight /\ quota' \in Nat
    <3>1. quota' \in 0..Inflight
      BY <2>1, ResetEffect
    <3>2. quota' + Cardinality(Retried') <= Inflight
      BY <2>1, ResetBalance, Zenon
    <3>3. QED
      BY <3>1, <3>2
  <2>5. Cardinality(Sent') \in Nat /\ Cardinality(Retried') \in Nat
    <3>1. Sent' \in SUBSET Reports /\ Retried' \in SUBSET Reports
      BY DEF Sent, Retried
    <3>2. QED
      BY <3>1, FiniteReports
  <2>6. PICK w, a, b \in Nat :
          Cardinality(Sent') = w /\ Cardinality(Retried') = a /\ quota' = b
    BY <2>4, <2>5
  <2>7. Traffic' + quota' + Again' <= Inflight /\ Traffic' <= Cardinality(Sent')
    <3>1. 0 + b + a <= Inflight /\ 0 <= w
      BY <2>4, <2>6, SessionAssumption
    <3>2. QED
      BY <2>3, <2>6, <3>1
  <2>8. QED
    BY <2>1, <2>2, <2>7 DEF QuotaInv
<1>3. CASE OpenSocket
  <2>1. /\ net = "resolve" /\ net' = "connect"
        /\ UNCHANGED <<msgs, quota, out>>
    BY <1>3 DEF OpenSocket
  <2>2. /\ ~On /\ ~On' /\ BeforeRetry /\ BeforeRetry' /\ Early /\ Queueing
        /\ Limit = Inflight /\ Limit' = Inflight
    BY <2>1 DEF On, BeforeRetry, Early, Queueing, Limit
  <2>3. Traffic' = Traffic /\ Sent' = Sent /\ Retried' = Retried
    BY <2>1, <2>2, TrafficParts DEF Sent, Retried
  <2>4. Again' = Again
    BY <2>2, <2>3 DEF Again
  <2>5. /\ Traffic + quota + Again <= Inflight
        /\ Traffic <= Cardinality(Sent)
    BY <2>2 DEF QuotaInv
  <2>6. Traffic' + quota' + Again' <= Inflight
    BY <2>1, <2>3, <2>4, <2>5
  <2>7. QED
    BY <2>1, <2>2, <2>3, <2>5, <2>6 DEF QuotaInv
<1>4. CASE SendConnect
  <2>1. /\ net = "connect" /\ net' = "loop" /\ conn' = conn + 1 /\ active' = FALSE
        /\ UNCHANGED <<msgs, quota, raced, up, down>>
        /\ out' = Append(out, Packet("CONNECT", 0))
    BY <1>4 DEF SendConnect
  <2>2. /\ ~On /\ On' /\ BeforeRetry /\ BeforeRetry' /\ Early /\ Queueing
        /\ Handshake' = 1
    BY <2>1 DEF On, BeforeRetry, Early, Queueing, Handshake, Shaking
  <2>3. conn' \in Conns /\ conn' > conn
    BY <1>4, SessionAssumption DEF SendConnect, Conns, TypeOK
  <2>14. conn' \notin raced'
    BY <2>1, <2>3 DEF RacedInv, TypeOK
  <2>15. Limit = Inflight /\ Limit' = Inflight
    BY <2>1, <2>2, <2>14 DEF Limit
  <2>4. up'[conn'] = <<>> /\ down' = <<>>
    BY <2>1, <2>2, <2>3 DEF AheadInv, FirstInv
  <2>5. PICK o \in Nat : Len(out) = o
    BY CountTypes
  <2>6. Len(out') = o + 1 /\ Len(up'[conn']) = 0 /\ Len(down') = 0
    BY <2>1, <2>4, <2>5 DEF TypeOK
  <2>7. Traffic = o
    BY <2>2, <2>5, TrafficParts
  <2>8. Traffic' = o
    <3>1. Traffic' = Len(out') + Len(up'[conn']) + Len(down') - Handshake'
      BY <2>2, TrafficParts
    <3>2. Traffic' = (o + 1) + 0 + 0 - 1
      BY <2>2, <2>6, <3>1
    <3>3. QED
      BY <3>2
  <2>9. Sent' = Sent /\ Retried' = Retried
    BY <2>1 DEF Sent, Retried
  <2>10. Again' = Again
    BY <2>2, <2>9 DEF Again
  <2>11. /\ Traffic + quota + Again <= Inflight
         /\ Traffic <= Cardinality(Sent)
    BY <2>2, <2>15 DEF QuotaInv
  <2>12. Traffic' + quota' + Again' <= Inflight
    BY <2>1, <2>7, <2>8, <2>10, <2>11
  <2>13. QED
    BY <2>1, <2>7, <2>8, <2>9, <2>11, <2>12, <2>15 DEF QuotaInv
<1>5. QED
  BY <1>1, <1>2, <1>3, <1>4

\* A packet goes from the queue to the connection.
LEMMA WriteQuota ==
  ASSUME TypeOK, QuotaInv, Write PROVE QuotaInv'
<1>1. /\ UNCHANGED <<net, active, conn, raced, session, msgs, quota, down>>
      /\ net = "loop"
      /\ out # <<>> /\ out' = Tail(out)
      /\ session[conn] # "gone" => up' = [up EXCEPT ![conn] = Append(@, Head(out))]
  BY DEF Write, broker
<1>2. PICK o, u, d \in Nat : Len(out) = o /\ Len(up[conn]) = u /\ Len(down) = d
  BY CountTypes
<1>3. Len(out') = o - 1 /\ o - 1 \in Nat /\ Len(down') = d
  BY <1>1, <1>2 DEF TypeOK
<1>4. ASSUME session[conn] # "gone" PROVE Len(up'[conn]) = u + 1
  <2>1. up[conn] \in Seq(Packets) /\ conn \in Conns /\ Head(out) \in Packets
    BY <1>1, WriteEffect DEF TypeOK
  <2>2. up'[conn] = Append(up[conn], Head(out))
    BY <1>1, <1>4, <2>1 DEF TypeOK
  <2>3. QED
    BY <1>2, <2>1, <2>2
<1>5. (o - 1) + (u + 1) + d <= o + u + d
  OBVIOUS
<1>6. On
  BY <1>1 DEF On
<1>7. ASSUME session[conn] # "gone"
      PROVE  \E a, b, c \in Nat : /\ Len(out') = a /\ Len(up'[conn]) = b /\ Len(down') = c
                                  /\ a + b + c <= Len(out) + Len(up[conn]) + Len(down)
  <2>1. Len(out') = o - 1 /\ Len(up'[conn]) = u + 1 /\ Len(down') = d
    BY <1>3, <1>4, <1>7
  <2>2. (o - 1) + (u + 1) + d <= Len(out) + Len(up[conn]) + Len(down)
    BY <1>2, <1>5
  <2>3. o - 1 \in Nat /\ u + 1 \in Nat /\ d \in Nat
    BY <1>3
  <2>4. QED
    BY <2>1, <2>2, <2>3
<1>8. QED
  BY <1>1, <1>6, <1>7, MovesQuota

\* The broker takes a packet from the connection, and answers it.
LEMMA ReceiveQuota ==
  ASSUME TypeOK, QuotaInv, NEW c \in Conns, Receive(c) \/ Forget(c) PROVE QuotaInv'
<1>1. UNCHANGED <<net, active, conn, raced, msgs, quota, out>>
  BY ReceiveForms DEF client
<1>2. conn \in Conns /\ up \in [Conns -> Seq(Packets)] /\ down \in Seq(Packets)
  BY DEF TypeOK
<1>3. CASE Close(c)
  <2>1. CASE c = conn /\ On
    <3>1. session'[conn'] = "gone" /\ On'
      BY <1>1, <1>3, <2>1, CloseEffect, SamePhase
    <3>2. ~Queueing'
      BY <3>1 DEF Queueing, On
    <3>3. QED
      BY <3>2 DEF QuotaInv
  <2>2. CASE ~(c = conn /\ On)
    <3>1. On => up'[conn] = up[conn] /\ session'[conn] = session[conn] /\ down' = down
      BY <1>2, <1>3, <2>2, CloseEffect
    <3>2. (On' <=> On) /\ Handshake' = Handshake /\ (Queueing' <=> Queueing)
      BY <1>1, <3>1, SamePhase DEF Queueing
    <3>3. Traffic' = Traffic
      BY <1>1, <3>1, <3>2 DEF Traffic
    <3>4. /\ (Early' <=> Early) /\ Again' = Again /\ Sent' = Sent /\ quota' = quota
          /\ Limit' = Limit /\ UNCHANGED <<net, conn, raced>>
      BY <1>1, SamePhase DEF Again, Sent, Retried
    <3>5. QED
      BY <3>2, <3>3, <3>4 DEF QuotaInv
  <2>3. QED
    BY <2>1, <2>2
<1>4. ASSUME NEW t \in Types, NEW m \in Reports \cup {0}, NEW a \in Types,
             Takes(c, t, m, a), session[c] # "gone", session'[c] # "gone",
             \A d \in Conns \ {c} : session'[d] = session[d]
      PROVE  QuotaInv'
  <2>1. /\ up[c] # <<>> /\ up' = [up EXCEPT ![c] = Tail(@)]
        /\ ~Reading(c) => down' = down
        /\ Reading(c) => down' = Append(down, Packet(a, m))
    BY <1>4 DEF Takes
  <2>2. /\ (Queueing' <=> Queueing) /\ (On' <=> On) /\ (Early' <=> Early)
        /\ Handshake' = Handshake
    BY <1>1, <1>2, <1>4, SamePhase DEF Queueing
  <2>3. /\ Again' = Again /\ Sent' = Sent /\ quota' = quota
        /\ Limit' = Limit /\ UNCHANGED <<net, conn, raced>>
    BY <1>1, SamePhase DEF Again, Sent, Retried
  <2>4. Traffic' = Traffic
    <3>1. CASE ~On
      BY <1>1, <2>2, <3>1, TrafficParts
    <3>2. CASE On /\ c = conn
      <4>1. PICK u, d \in Nat : Len(up[conn]) = u /\ Len(down) = d
        BY CountTypes
      <4>2. Reading(c) /\ Packet(a, m) \in Packets
        BY <3>2, PacketType DEF Reading, On
      <4>3. down' = Append(down, Packet(a, m)) /\ up'[conn'] = Tail(up[conn])
        BY <1>1, <1>2, <2>1, <3>2, <4>2
      <4>4. Len(down') = d + 1 /\ Len(up'[conn']) = u - 1
        BY <1>2, <2>1, <3>2, <4>1, <4>2, <4>3
      <4>5. PICK o \in Nat, h \in {0, 1} : Len(out) = o /\ Handshake = h
        BY CountTypes
      <4>6. Traffic = o + u + d - h
        BY <3>2, <4>1, <4>5, TrafficParts
      <4>7. Traffic' = o + (u - 1) + (d + 1) - h
        <5>1. Traffic' = Len(out') + Len(up'[conn']) + Len(down') - Handshake'
          BY <2>2, <3>2, TrafficParts
        <5>2. Len(out') = o /\ Handshake' = h
          BY <1>1, <2>2, <4>5
        <5>3. QED
          BY <4>4, <5>1, <5>2
      <4>8. QED
        BY <4>6, <4>7
    <3>3. CASE On /\ c # conn
      <4>1. up'[conn] = up[conn] /\ down' = down
        BY <1>2, <2>1, <3>3 DEF Reading
      <4>2. QED
        BY <1>1, <2>2, <4>1 DEF Traffic
    <3>4. QED
      BY <3>1, <3>2, <3>3
  <2>5. QED
    BY <2>2, <2>3, <2>4 DEF QuotaInv
<1>5. ASSUME TakeConnect(c) \/ \E m \in Reports : TakePublish(c, m) \/ TakePubrel(c, m)
      PROVE  QuotaInv'
  <2>1. /\ session[c] # "gone" /\ session'[c] # "gone"
        /\ \A d \in Conns \ {c} : session'[d] = session[d]
    BY <1>5 DEF TakeConnect, TakePublish, TakePubrel, TypeOK
  <2>2. \E t \in Types, m \in Reports \cup {0}, a \in Types : Takes(c, t, m, a)
    BY <1>5, TakesForms
  <2>3. QED
    BY <1>4, <2>1, <2>2
<1>6. QED
  BY <1>3, <1>5, ReceiveForms

LEMMA RacedStep == TypeOK /\ RacedInv /\ [Next]_vars => RacedInv'
<1> SUFFICES ASSUME TypeOK, RacedInv, [Next]_vars, NEW c \in raced'
             PROVE  c <= conn' /\ ~(c = conn' /\ net' = "loop" /\ ~active')
  BY DEF RacedInv
<1>0. conn \in Conns /\ raced \subseteq Conns
  BY DEF TypeOK
<1>1. CASE UNCHANGED <<net, active, conn, raced>>
  BY <1>1 DEF RacedInv
<1>2. CASE Publish \/ FillQuota \/ \E j \in 1..quota : FillDuringPublish(j)
  <2>1. /\ raced' \in {raced, raced \cup {conn}} /\ UNCHANGED <<active, conn>>
        /\ (net' = net /\ raced' = raced) \/ net' = "reset"
    BY <1>2 DEF Publish, FillQuota, FillDuringPublish
  <2>2. c <= conn'
    BY <1>0, <2>1 DEF RacedInv, Conns
  <2>3. QED
    BY <2>1, <2>2 DEF RacedInv
<1>3. CASE LoseConnection \/ Reconnect \/ OpenSocket \/ ConnectFails \/ Connack \/ RetryAll
  <2>1. UNCHANGED <<conn, raced>> /\ (net' # "loop" \/ active')
    BY <1>3 DEF LoseConnection, Reconnect, OpenSocket, ConnectFails, Connack, RetryAll
  <2>2. QED
    BY <2>1 DEF RacedInv
<1>4. CASE SendConnect
  <2>1. conn' = conn + 1 /\ raced' = raced
    BY <1>4 DEF SendConnect
  <2>2. c <= conn /\ c \in Nat /\ conn \in Nat
    BY <1>0, <2>1, SessionAssumption DEF RacedInv, Conns
  <2>3. QED
    BY <2>1, <2>2
<1>5. ASSUME NEW m \in Reports, Pubrec(m) \/ Pubcomp(m)
      PROVE  UNCHANGED <<net, active, conn, raced>>
  BY <1>5 DEF Pubrec, Pubcomp
<1>6. ASSUME NEW d \in Conns, Receive(d) \/ Forget(d)
      PROVE  UNCHANGED <<net, active, conn, raced>>
  BY <1>6, ReceiveForms DEF client
<1>7. CASE Write \/ UNCHANGED vars
  BY <1>1, <1>7 DEF Write, vars, client
<1>8. QED
  BY <1>1, <1>2, <1>3, <1>4, <1>5, <1>6, <1>7 DEF Next, Network

LEMMA QuotaStep ==
  TypeOK /\ Places /\ RacedInv /\ QuotaInv /\ [Next]_vars => QuotaInv'
<1> SUFFICES ASSUME TypeOK, Places, RacedInv, QuotaInv, [Next]_vars PROVE QuotaInv'
  OBVIOUS
<1>1. ListInv /\ AheadInv /\ FirstInv
  BY DEF Places
<1>2. CASE UNCHANGED vars
  <2>1. UNCHANGED <<net, active, conn, raced, session, msgs, quota, out, up, down>>
    BY <1>2 DEF vars, client, broker
  <2>2. /\ (Queueing' <=> Queueing) /\ (Early' <=> Early)
        /\ Traffic' = Traffic /\ Again' = Again /\ Sent' = Sent /\ quota' = quota
        /\ Limit' = Limit
    BY <2>1, SamePhase DEF Queueing, Traffic, Again, Sent, Retried
  <2>3. QED
    BY <2>1, <2>2 DEF QuotaInv
<1>3. CASE Next
  BY <1>1, <1>3, PublishQuota, PubcompQuota, PubrecQuota, RetryQuota, ConnackQuota,
     ConnectingQuota, WriteQuota, ReceiveQuota DEF Next, Network, PublishOrFill
<1>4. QED
  BY <1>2, <1>3

-----------------------------------------------------------------------------
(* What the broker stores. A message that is stored on the connection of   *)
(* the client still has a packet on its way, PUBREC or PUBREL, so the      *)
(* bound of the packets is one of the stored messages.                     *)

OnWay == Range(out) \cup Range(up[conn]) \cup Range(down)

Coming(c) == {m \in Reports : Packet("PUBLISH", m) \in Range(up[c])}

GoneInv == \A c \in Conns : session[c] = "gone" => stored[c] = {} /\ up[c] = <<>>

HandshakeInv ==
  Shaking /\ session[conn] # "gone" =>
    Packet("CONNECT", 0) \in OnWay \/ Packet("CONNACK", 0) \in OnWay

AnswerInv ==
  On /\ session[conn] # "gone" =>
    \A m \in stored[conn] : Packet("PUBREC", m) \in OnWay \/ Packet("PUBREL", m) \in OnWay

\* The limit of a context.
Bound(c) == IF c \in raced THEN 2 * Inflight ELSE Inflight

\* The contexts the client does not use (any more).
OtherInv ==
  \A c \in Conns : (c = conn /\ On) \/ Cardinality(stored[c] \cup Coming(c)) <= Bound(c)

Stores == GoneInv /\ HandshakeInv /\ AnswerInv /\ OtherInv

LEMMA TailRange ==
  ASSUME NEW s \in Seq(Packets), s # <<>>
  PROVE  Range(s) = Range(Tail(s)) \cup {Head(s)}
<1>1. /\ Head(s) = s[1] /\ 1 \in DOMAIN s
      /\ \A i \in DOMAIN Tail(s) : i + 1 \in DOMAIN s /\ Tail(s)[i] = s[i + 1]
      /\ \A i \in DOMAIN s : i = 1 \/ (i - 1 \in DOMAIN Tail(s) /\ Tail(s)[i - 1] = s[i])
  OBVIOUS
<1>2. \A x \in Range(Tail(s)) \cup {Head(s)} : x \in Range(s)
  BY <1>1 DEF Range
<1>3. ASSUME NEW x \in Range(s) PROVE x \in Range(Tail(s)) \cup {Head(s)}
  <2>1. PICK i \in DOMAIN s : x = s[i]
    BY DEF Range
  <2>2. CASE i = 1
    BY <1>1, <2>1, <2>2
  <2>3. CASE i - 1 \in DOMAIN Tail(s) /\ Tail(s)[i - 1] = s[i]
    BY <2>1, <2>3 DEF Range
  <2>4. QED
    BY <1>1, <2>2, <2>3
<1>4. QED
  BY <1>2, <1>3

\* A sequence is not about more messages than it has packets.
LEMMA MidsBound ==
  ASSUME NEW s \in Seq(Packets)
  PROVE  IsFiniteSet(Mids(s)) /\ Cardinality(Mids(s)) <= Len(s)
<1> DEFINE f == [i \in 1..Len(s) |-> s[i].mid]
<1>1. DOMAIN s = 1..Len(s) /\ Len(s) \in Nat
  OBVIOUS
<1>2. \A x : x \in Mids(s) <=> \E i \in 1..Len(s) : x = f[i]
  BY <1>1 DEF Mids, Range
<1>3. f \in Surjection(1..Len(s), Mids(s))
  BY <1>2 DEF Surjection
<1>4. IsFiniteSet(1..Len(s)) /\ Cardinality(1..Len(s)) = Len(s)
  BY <1>1, FS_Interval
<1>5. QED
  <2> HIDE DEF f
  <2>1. QED
    BY <1>3, <1>4, FS_Surjection

(* The bound of the connection of the client.                              *)
LEMMA ConnectionBound ==
  ASSUME TypeOK, QuotaInv, GoneInv, HandshakeInv, AnswerInv, On
  PROVE  Cardinality(stored[conn] \cup Coming(conn)) <= Bound(conn)
<1> DEFINE U == stored[conn] \cup Coming(conn)
<1>1. /\ conn \in Conns /\ Inflight \in Nat /\ U \in SUBSET Reports
      /\ out \in Seq(Packets) /\ up[conn] \in Seq(Packets) /\ down \in Seq(Packets)
      /\ Bound(conn) \in Nat
  BY SessionAssumption DEF TypeOK, Coming, Bound
<1>2. CASE session[conn] = "gone"
  <2>1. stored[conn] = {} /\ up[conn] = <<>>
    BY <1>1, <1>2 DEF GoneInv
  <2>2. Coming(conn) = {}
    <3>1. \A x : x \notin Range(up[conn])
      BY <2>1, NoPackets, Zenon
    <3>2. QED
      BY <3>1 DEF Coming
  <2>3. U = {}
    BY <2>1, <2>2
  <2>4. Cardinality({}) = 0
    BY FS_EmptySet
  <2>5. Cardinality(U) = 0
    BY <2>3, <2>4, Zenon
  <2>6. QED
    BY <1>1, <2>5
<1>3. CASE session[conn] # "gone"
  <2> DEFINE way == (out \o up[conn]) \o down
             M == Mids(way)
  <2>1. way \in Seq(Packets) /\ Range(way) = OnWay
    <3>1. out \o up[conn] \in Seq(Packets)
          /\ Range(out \o up[conn]) = Range(out) \cup Range(up[conn])
      BY <1>1, ConcatPackets
    <3>2. QED
      BY <1>1, <3>1, ConcatPackets DEF OnWay
  <2>2. Len(way) = Len(out) + Len(up[conn]) + Len(down)
    <3>1. /\ out \o up[conn] \in Seq(Packets)
          /\ Len(out \o up[conn]) = Len(out) + Len(up[conn])
      BY <1>1, ConcatProperties
    <3>2. QED
      BY <1>1, <3>1, ConcatProperties
  <2> HIDE DEF way
  <2>3. IsFiniteSet(M) /\ Cardinality(M) <= Len(way) /\ Cardinality(M) \in Nat
    BY <2>1, MidsBound, FS_CardinalityType
  <2>4. \A t \in Types, m \in Reports \cup {0} : Packet(t, m) \in OnWay => m \in M
    BY <2>1, PacketType DEF Mids
  <2>5. U \subseteq M \ {0}
    <3>1. \A m \in U : m \in Reports /\ m # 0
      BY <1>1 DEF Reports
    <3>2. \A m \in stored[conn] : m \in Reports =>
             Packet("PUBREC", m) \in OnWay \/ Packet("PUBREL", m) \in OnWay
      BY <1>3 DEF AnswerInv
    <3>3. \A m \in Coming(conn) : Packet("PUBLISH", m) \in OnWay
      BY DEF Coming, OnWay
    <3>4. {"PUBREC", "PUBREL", "PUBLISH"} \subseteq Types
      BY DEF Types
    <3>5. \A m \in U : m \in M
      BY <2>4, <3>1, <3>2, <3>3, <3>4
    <3>6. QED
      BY <3>1, <3>5
  <2>6. PICK o, u, d, q, a \in Nat, h \in {0, 1} :
          /\ Len(out) = o /\ Len(up[conn]) = u /\ Len(down) = d
          /\ quota = q /\ Again = a /\ Handshake = h
    BY CountTypes
  <2>7. Traffic = o + u + d - h
    BY <2>6, TrafficParts
  <2>8. PICK l \in Nat : l = Bound(conn)
    BY <1>1
  <2>9. (o + u + d - h) + a <= l
    <3>1. Traffic + quota + Again <= Limit
          /\ (net = "reset" /\ conn \notin raced => Traffic + Again <= Inflight)
      BY <1>3 DEF QuotaInv, Queueing
    <3>2. CASE net = "reset" /\ conn \notin raced
      BY <2>6, <2>7, <2>8, <3>1, <3>2 DEF Bound
    <3>3. CASE ~(net = "reset" /\ conn \notin raced)
      <4>1. l = Limit
        BY <2>8, <3>3 DEF Bound, Limit
      <4>2. (o + u + d - h) + q + a <= l
        BY <2>6, <2>7, <3>1, <4>1
      <4>3. QED
        BY <4>2
    <3>4. QED
      BY <3>2, <3>3
  <2>10. PICK k \in Nat : Cardinality(M) = k /\ k <= o + u + d
    BY <2>2, <2>3, <2>6
  <2>11. Cardinality(M \ {0}) = IF 0 \in M THEN k - 1 ELSE k
    <3> HIDE DEF M
    <3>1. QED
      BY <2>3, <2>10, FS_RemoveElement
  <2>12. h = 1 => 0 \in M
    <3>1. ASSUME h = 1 PROVE Shaking
      BY <2>6, <3>1 DEF Handshake
    <3>2. ASSUME h = 1
          PROVE  Packet("CONNECT", 0) \in OnWay \/ Packet("CONNACK", 0) \in OnWay
      BY <1>3, <3>1, <3>2 DEF HandshakeInv
    <3>3. {"CONNECT", "CONNACK"} \subseteq Types
      BY DEF Types
    <3>4. QED
      BY <2>4, <3>2, <3>3
  <2>13. PICK n \in Nat : Cardinality(M \ {0}) = n /\ n + h <= o + u + d
    <3>1. CASE h = 1
      <4>1. k \in Nat \ {0}
        <5>1. M # {}
          BY <2>12, <3>1
        <5>2. k # 0
          BY <2>3, <2>10, <5>1, FS_EmptySet
        <5>3. QED
          BY <5>2
      <4>2. Cardinality(M \ {0}) = k - 1
        BY <2>11, <2>12, <3>1
      <4>3. QED
        BY <2>10, <3>1, <4>1, <4>2
    <3>2. CASE h = 0
      <4>1. CASE 0 \in M
        <5>1. k # 0
          BY <2>3, <2>10, <4>1, FS_EmptySet
        <5>2. QED
          BY <2>10, <2>11, <3>2, <4>1, <5>1
      <4>2. CASE 0 \notin M
        BY <2>10, <2>11, <3>2, <4>2
      <4>3. QED
        BY <4>1, <4>2
    <3>3. QED
      BY <2>6, <3>1, <3>2
  <2>14. Cardinality(U) <= n /\ Cardinality(U) \in Nat
    <3> HIDE DEF M
    <3>1. IsFiniteSet(M \ {0})
      BY <2>3, FS_RemoveElement
    <3>2. Cardinality(U) <= Cardinality(M \ {0})
      BY <2>5, <3>1, FS_Subset
    <3>3. Cardinality(U) \in Nat
      BY <1>1, FiniteReports
    <3>4. QED
      BY <2>13, <3>2, <3>3
  <2>15. n <= l
    BY <2>9, <2>13
  <2>16. QED
    BY <2>8, <2>14, <2>15
<1>4. QED
  BY <1>2, <1>3

\* What is in the queue stays there when more is put into it.
LEMMA QueueGrows ==
  ASSUME TypeOK, PublishOrFill \/ RetryAll \/ \E m \in Reports : Pubrec(m) \/ Pubcomp(m)
  PROVE  Range(out) \subseteq Range(out')
<1>1. out \in Seq(Packets) /\ "PUBLISH" \in Types
  BY DEF TypeOK, Types
<1>2. ASSUME NEW list \in [Reports -> States], NEW q \in Nat, Release(list, q)
      PROVE  Range(out) \subseteq Range(out')
  <2>1. PICK now \in SUBSET Waiting(list), e \in Seq(Reports) : Releases(list, q, now, e)
    BY <1>2, ReleaseCounts
  <2>2. Behind(out', out, "PUBLISH", e)
    BY <2>1, Zenon DEF Releases
  <2>3. \A i \in DOMAIN out : i \in DOMAIN out' /\ out'[i] = out[i]
    BY <1>1, <2>2, QueuedPackets
  <2>4. QED
    BY <2>3 DEF Range
<1>3. CASE PublishOrFill
  <2>1. ASSUME NEW q \in Nat, Hands(q) PROVE Range(out) \subseteq Range(out')
    <3>1. /\ [msgs EXCEPT ![published + 1] = "invalid"] \in [Reports -> States]
          /\ Release([msgs EXCEPT ![published + 1] = "invalid"], q)
      BY <2>1 DEF Hands, TypeOK, States
    <3>2. QED
      BY <1>2, <3>1
  <2>2. CASE FillQuota
    BY <2>2 DEF FillQuota
  <2>3. QED
    BY <1>3, <2>1, <2>2, PublishHands DEF PublishOrFill
<1>4. ASSUME NEW m \in Reports, Pubcomp(m) PROVE Range(out) \subseteq Range(out')
  <2> DEFINE list == [msgs EXCEPT ![m] = "none"]
             q == IF quota < Inflight THEN quota + 1 ELSE quota
  <2>1. list \in [Reports -> States] /\ q \in Nat
    BY SessionAssumption DEF TypeOK, States
  <2>2. Release(list, q)
    BY <1>4 DEF Pubcomp
  <2> HIDE DEF list, q
  <2>3. QED
    BY <1>2, <2>1, <2>2
<1>5. ASSUME NEW m \in Reports, Pubrec(m) PROVE Range(out) \subseteq Range(out')
  <2>1. out' = Append(out, Packet("PUBREL", m)) /\ Packet("PUBREL", m) \in Packets
    BY <1>5, PacketType DEF Pubrec, Types
  <2>2. QED
    BY <1>1, <2>1, AppendPacket
<1>6. CASE RetryAll
  <2>1. PICK s \in Enumerations(Retried) : out' = out \o [i \in DOMAIN s |-> Retry(s[i])]
    BY <1>6 DEF RetryAll
  <2> DEFINE u == [i \in DOMAIN s |-> Retry(s[i])]
  <2>2. Retried \in SUBSET Reports
    BY DEF Retried
  <2>3. /\ DOMAIN s = 1..Cardinality(Retried) /\ Cardinality(Retried) \in Nat
        /\ \A i \in DOMAIN s : s[i] \in Reports
    BY <2>2, EnumeratedLength
  <2>4. \A i \in DOMAIN s : Retry(s[i]) \in Packets
    BY <2>3, PacketType DEF Types, Retry
  <2>5. u \in Seq(Packets)
    BY <2>3, <2>4
  <2>6. out' = out \o u
    BY <2>1
  <2> HIDE DEF u
  <2>7. QED
    BY <1>1, <2>5, <2>6, ConcatPackets
<1>7. QED
  BY <1>3, <1>4, <1>5, <1>6

(* A packet stays on its way until the client or the broker takes it.      *)
LEMMA StaysOnWay ==
  ASSUME TypeOK, Next, On, On', session'[conn] # "gone", NEW p \in OnWay
  PROVE  /\ conn' = conn /\ session[conn] # "gone"
         /\ \/ p \in OnWay'
            \/ Connack /\ p = Packet("CONNACK", 0)
            \/ \E m \in Reports : \/ Pubrec(m) /\ p = Packet("PUBREC", m)
                                  \/ Pubcomp(m) /\ p = Packet("PUBCOMP", m)
            \/ TakeConnect(conn) /\ p = Packet("CONNECT", 0)
            \/ \E m \in Reports : \/ TakePublish(conn, m) /\ p = Packet("PUBLISH", m)
                                  \/ TakePubrel(conn, m) /\ p = Packet("PUBREL", m)
<1>0. /\ conn \in Conns /\ out \in Seq(Packets) /\ down \in Seq(Packets)
      /\ up \in [Conns -> Seq(Packets)]
  BY DEF TypeOK
<1>1. CASE PublishOrFill \/ RetryAll
  <2>1. UNCHANGED <<up, down, conn, session>>
    BY <1>1 DEF PublishOrFill, Publish, FillQuota, FillDuringPublish, RetryAll, broker
  <2>2. Range(out) \subseteq Range(out')
    BY <1>1, QueueGrows
  <2>3. QED
    BY <2>1, <2>2 DEF OnWay
<1>2. CASE Write
  <2>1. /\ out # <<>> /\ out' = Tail(out) /\ UNCHANGED <<down, conn, session>>
        /\ session[conn] # "gone"
        /\ up' = [up EXCEPT ![conn] = Append(@, Head(out))]
    BY <1>2 DEF Write, broker
  <2>2. Range(out) = Range(out') \cup {Head(out)} /\ Head(out) \in Packets
    BY <1>0, <2>1, TailRange, TailPacket
  <2>3. up'[conn] = Append(up[conn], Head(out)) /\ up[conn] \in Seq(Packets)
    BY <1>0, <2>1
  <2>4. Range(up'[conn]) = Range(up[conn]) \cup {Head(out)}
    BY <2>2, <2>3, AppendPacket
  <2>5. QED
    BY <2>1, <2>2, <2>4 DEF OnWay
<1>3. CASE LoseConnection \/ Reconnect \/ OpenSocket \/ ConnectFails \/ SendConnect
  BY <1>3 DEF LoseConnection, Reconnect, OpenSocket, ConnectFails, SendConnect, On
<1>4. ASSUME NEW t, NEW m, Arrived(t, m), down' = Tail(down),
             Range(out) \subseteq Range(out'),
             UNCHANGED <<up, conn, session>>
      PROVE  conn' = conn /\ session[conn] # "gone" /\ (p \in OnWay' \/ p = Packet(t, m))
  <2>1. down # <<>> /\ Head(down) = Packet(t, m) /\ down' = Tail(down)
    BY <1>4 DEF Arrived
  <2>2. Range(down) = Range(down') \cup {Packet(t, m)}
    BY <1>0, <2>1, TailRange
  <2>3. QED
    BY <1>4, <2>2 DEF OnWay
<1>5. CASE Connack
  BY <1>4, <1>5 DEF Connack, broker
<1>6. ASSUME NEW m \in Reports, Pubrec(m)
      PROVE  conn' = conn /\ session[conn] # "gone" /\ (p \in OnWay' \/ p = Packet("PUBREC", m))
  <2>1. Range(out) \subseteq Range(out')
    BY <1>6, QueueGrows
  <2>2. /\ Arrived("PUBREC", m) /\ down' = Tail(down)
        /\ UNCHANGED <<up, conn, session>>
    BY <1>6 DEF Pubrec, Reads, broker
  <2>3. QED
    BY <1>4, <2>1, <2>2
<1>7. ASSUME NEW m \in Reports, Pubcomp(m)
      PROVE  conn' = conn /\ session[conn] # "gone" /\ (p \in OnWay' \/ p = Packet("PUBCOMP", m))
  <2>1. Range(out) \subseteq Range(out')
    BY <1>7, QueueGrows
  <2>2. /\ Arrived("PUBCOMP", m) /\ down' = Tail(down)
        /\ UNCHANGED <<up, conn, session>>
    BY <1>7 DEF Pubcomp, Reads, broker
  <2>3. QED
    BY <1>4, <2>1, <2>2
<1>8. ASSUME NEW c \in Conns, NEW t, NEW m \in Reports \cup {0}, NEW a \in Types,
             Takes(c, t, m, a), UNCHANGED client
      PROVE  p \in OnWay' \/ (c = conn /\ p = Packet(t, m))
  <2>1. /\ up[c] # <<>> /\ Head(up[c]) = Packet(t, m) /\ up[c] \in Seq(Packets)
        /\ up' = [up EXCEPT ![c] = Tail(@)] /\ UNCHANGED <<conn, out>>
    BY <1>0, <1>8 DEF Takes, client
  <2>2. Range(down) \subseteq Range(down')
    <3>1. down' = down \/ down' = Append(down, Packet(a, m))
      BY <1>8 DEF Takes
    <3>2. Packet(a, m) \in Packets
      BY PacketType
    <3>3. Range(down) \subseteq Range(Append(down, Packet(a, m)))
      BY <1>0, <3>2, AppendPacket
    <3>4. QED
      BY <3>1, <3>3
  <2>3. CASE c = conn
    <3>1. up'[conn'] = Tail(up[conn])
      BY <1>0, <2>1, <2>3
    <3>2. Range(up[conn]) = Range(up'[conn']) \cup {Packet(t, m)}
      BY <2>1, <2>3, <3>1, TailRange
    <3>3. QED
      BY <2>1, <2>2, <2>3, <3>2 DEF OnWay
  <2>4. CASE c # conn
    <3>1. up'[conn'] = up[conn]
      BY <1>0, <2>1, <2>4
    <3>2. QED
      BY <2>1, <2>2, <3>1 DEF OnWay
  <2>5. QED
    BY <2>3, <2>4
<1>9. ASSUME NEW c \in Conns, TakeConnect(c)
      PROVE  /\ conn' = conn /\ session[conn] # "gone"
             /\ p \in OnWay' \/ (c = conn /\ p = Packet("CONNECT", 0))
  <2>1. /\ Takes(c, "CONNECT", 0, "CONNACK") /\ UNCHANGED client /\ conn' = conn
        /\ session[c] = "new" /\ session' = [session EXCEPT ![c] = "active"]
    BY <1>9 DEF TakeConnect, client
  <2>2. session[conn] # "gone"
    BY <1>0, <2>1 DEF TypeOK
  <2>3. "CONNACK" \in Types
    BY DEF Types
  <2>4. QED
    BY <1>8, <2>1, <2>2, <2>3
<1>10. ASSUME NEW c \in Conns, NEW m \in Reports, TakePublish(c, m)
       PROVE  /\ conn' = conn /\ session[conn] # "gone"
              /\ p \in OnWay' \/ (c = conn /\ p = Packet("PUBLISH", m))
  <2>1. Takes(c, "PUBLISH", m, "PUBREC") /\ UNCHANGED client /\ conn' = conn
        /\ session' = session
    BY <1>10 DEF TakePublish, client
  <2>2. "PUBREC" \in Types
    BY DEF Types
  <2>3. QED
    BY <1>8, <2>1, <2>2
<1>11. ASSUME NEW c \in Conns, NEW m \in Reports, TakePubrel(c, m)
       PROVE  /\ conn' = conn /\ session[conn] # "gone"
              /\ p \in OnWay' \/ (c = conn /\ p = Packet("PUBREL", m))
  <2>1. Takes(c, "PUBREL", m, "PUBCOMP") /\ UNCHANGED client /\ conn' = conn
        /\ session' = session
    BY <1>11 DEF TakePubrel, client
  <2>2. "PUBCOMP" \in Types
    BY DEF Types
  <2>3. QED
    BY <1>8, <2>1, <2>2
<1>12. ASSUME NEW c \in Conns, Close(c), UNCHANGED client
       PROVE  conn' = conn /\ session[conn] # "gone" /\ p \in OnWay'
  <2>1. c # conn /\ UNCHANGED <<conn, out>>
    BY <1>12, CloseEffect DEF client
  <2>2. up'[conn] = up[conn] /\ session'[conn] = session[conn] /\ down' = down
    BY <1>0, <1>12, <2>1, CloseEffect
  <2>3. QED
    BY <2>1, <2>2 DEF OnWay
<1>13. QED
  <2>1. CASE \E c \in Conns : Receive(c) \/ Forget(c)
    BY <1>9, <1>10, <1>11, <1>12, <2>1, ReceiveForms
  <2>2. QED
    BY <1>1, <1>2, <1>3, <1>5, <1>6, <1>7, <2>1 DEF Next, Network, PublishOrFill

LEMMA GoneStep == TypeOK /\ GoneInv /\ [Next]_vars => GoneInv'
<1> SUFFICES ASSUME TypeOK, GoneInv, [Next]_vars, NEW d \in Conns, session'[d] = "gone"
             PROVE  stored'[d] = {} /\ up'[d] = <<>>
  BY DEF GoneInv
<1>0. /\ conn \in Conns /\ up \in [Conns -> Seq(Packets)]
      /\ stored \in [Conns -> SUBSET Reports]
      /\ session \in [Conns -> {"new", "active", "gone"}]
  BY DEF TypeOK
<1>1. CASE session'[d] = session[d] /\ stored'[d] = stored[d] /\ up'[d] = up[d]
  BY <1>1 DEF GoneInv
<1>2. CASE Write
  <2>1. session' = session /\ stored' = stored
    BY <1>2 DEF Write, broker
  <2>2. up'[d] = up[d]
    <3>1. CASE d = conn
      BY <1>2, <2>1, <3>1 DEF Write
    <3>2. CASE d # conn
      BY <1>2, <3>2, WriteEffect
    <3>3. QED
      BY <3>1, <3>2
  <2>3. QED
    BY <1>1, <2>1, <2>2
<1>3. CASE Publish \/ LoseConnection \/ Reconnect \/ OpenSocket \/ ConnectFails
           \/ SendConnect \/ FillQuota \/ (\E j \in 1..quota : FillDuringPublish(j))
           \/ Connack \/ RetryAll \/ UNCHANGED vars
  BY <1>1, <1>3 DEF Publish, LoseConnection, Reconnect, OpenSocket, ConnectFails,
                    SendConnect, FillQuota, FillDuringPublish, Connack, RetryAll, vars, broker
<1>4. ASSUME NEW m \in Reports, Pubrec(m) \/ Pubcomp(m)
      PROVE  stored'[d] = {} /\ up'[d] = <<>>
  BY <1>1, <1>4 DEF Pubrec, Pubcomp, broker
<1>5. ASSUME NEW c \in Conns, Receive(c) \/ Forget(c)
      PROVE  stored'[d] = {} /\ up'[d] = <<>>
  <2>1. CASE Close(c)
    BY <1>1, <2>1, CloseEffect
  <2>2. CASE TakeConnect(c) \/ \E m \in Reports : TakePublish(c, m) \/ TakePubrel(c, m)
    <3>1. c # d /\ session'[d] = session[d]
      BY <1>0, <2>2 DEF TakeConnect, TakePublish, TakePubrel
    <3>2. stored'[d] = stored[d] /\ up'[d] = up[d]
      <4>1. up' = [up EXCEPT ![c] = Tail(@)]
        BY <2>2 DEF TakeConnect, TakePublish, TakePubrel, Takes
      <4>2. \A e \in Conns \ {c} : stored'[e] = stored[e]
        BY <2>2, TakesForms
      <4>3. QED
        BY <1>0, <3>1, <4>1, <4>2
    <3>3. QED
      BY <1>1, <3>1, <3>2
  <2>3. QED
    BY <1>5, <2>1, <2>2, ReceiveForms
<1>6. QED
  BY <1>2, <1>3, <1>4, <1>5 DEF Next, Network

LEMMA OtherPackets ==
  \A m \in Reports : \A t \in {"CONNECT", "CONNACK"}, a \in Types \ {"CONNECT", "CONNACK"} :
     Packet(t, 0) # Packet(a, m)
<1>1. TAKE m \in Reports
<1>2. TAKE t \in {"CONNECT", "CONNACK"}, a \in Types \ {"CONNECT", "CONNACK"}
<1>3. Packet(t, 0).mid = 0 /\ Packet(a, m).mid = m /\ m # 0
  BY DEF Packet, Reports
<1>4. QED
  BY <1>3

\* What the broker answers is on its way to the client.
LEMMA AnswerOnWay ==
  ASSUME TypeOK, NEW t, NEW m \in Reports \cup {0}, NEW a \in Types,
         Takes(conn, t, m, a), UNCHANGED client, On
  PROVE  Packet(a, m) \in OnWay'
<1>1. Reading(conn)
  BY DEF Reading, On
<1>2. down' = Append(down, Packet(a, m)) /\ down \in Seq(Packets)
  BY <1>1 DEF Takes, TypeOK
<1>3. Packet(a, m) \in Range(down')
  <2>1. Packet(a, m) \in Packets
    BY PacketType
  <2>2. QED
    BY <1>2, <2>1, AppendPacket
<1>4. QED
  BY <1>3 DEF OnWay

LEMMA HandshakeStep ==
  ASSUME TypeOK, FirstInv, HandshakeInv, Next PROVE HandshakeInv'
<1> SUFFICES ASSUME Shaking', session'[conn'] # "gone"
             PROVE  Packet("CONNECT", 0) \in OnWay' \/ Packet("CONNACK", 0) \in OnWay'
  BY DEF HandshakeInv
<1>0. {"CONNECT", "CONNACK", "PUBLISH", "PUBREC", "PUBREL", "PUBCOMP"} = Types
  BY DEF Types
<1>1. CASE SendConnect
  <2>1. out' = Append(out, Packet("CONNECT", 0)) /\ out \in Seq(Packets)
    BY <1>1 DEF SendConnect, TypeOK
  <2>2. Packet("CONNECT", 0) \in Packets
    BY <1>0, PacketType
  <2>3. Packet("CONNECT", 0) \in Range(out')
    BY <2>1, <2>2, AppendPacket
  <2>4. QED
    BY <2>3 DEF OnWay
<1>2. CASE ~SendConnect
  <2>1. Shaking /\ conn' = conn /\ ~Connack
    <3>1. ASSUME NEW c \in Conns, Receive(c) \/ Forget(c)
          PROVE  UNCHANGED <<net, active, conn>> /\ net' # "connack"
      BY <3>1, ReceiveForms DEF client, Shaking
    <3>2. QED
      BY <1>2, <3>1 DEF Next, Network, Publish, Write, LoseConnection, Reconnect, OpenSocket,
                   ConnectFails, FillQuota, FillDuringPublish, Connack, RetryAll, Pubrec,
                   Pubcomp, Reads, Shaking
  <2>2. On /\ On' /\ session'[conn] # "gone"
    BY <2>1 DEF On, Shaking
  <2>3. \A m \in Reports : ~Pubrec(m) /\ ~Pubcomp(m)
    BY <2>1 DEF Pubrec, Pubcomp, Shaking
  <2>4. ~Connack
    BY <2>1
  <2>5. ASSUME TakeConnect(conn) PROVE Packet("CONNACK", 0) \in OnWay'
    BY <1>0, <2>2, <2>5, AnswerOnWay DEF TakeConnect
  <2>6. ASSUME NEW t \in {"CONNECT", "CONNACK"}, Packet(t, 0) \in OnWay
        PROVE  \/ Packet(t, 0) \in OnWay' \/ TakeConnect(conn)
               \/ \E m \in Reports : \/ TakePublish(conn, m) /\ Packet(t, 0) = Packet("PUBLISH", m)
                                     \/ TakePubrel(conn, m) /\ Packet(t, 0) = Packet("PUBREL", m)
    BY <2>2, <2>3, <2>4, <2>6, StaysOnWay
  <2>7. ASSUME NEW t \in {"CONNECT", "CONNACK"}, Packet(t, 0) \in OnWay
        PROVE  \/ Packet(t, 0) \in OnWay' \/ TakeConnect(conn)
    BY <1>0, <2>6, <2>7, OtherPackets
  <2>8. session[conn] # "gone"
    <3>1. ASSUME session[conn] = "gone" PROVE session'[conn] = "gone"
      <4>1. ASSUME NEW c \in Conns, Receive(c) \/ Forget(c) PROVE session'[conn] = "gone"
        <5>1. CASE Close(c)
          BY <3>1, <5>1, CloseEffect DEF TypeOK
        <5>2. CASE TakeConnect(c) \/ \E m \in Reports : TakePublish(c, m) \/ TakePubrel(c, m)
          BY <3>1, <5>2 DEF TakeConnect, TakePublish, TakePubrel, TypeOK
        <5>3. QED
          BY <4>1, <5>1, <5>2, ReceiveForms
      <4>2. QED
        BY <1>2, <2>3, <3>1, <4>1
        DEF Next, Network, Publish, Write, LoseConnection, Reconnect, OpenSocket,
            ConnectFails, FillQuota, FillDuringPublish, Connack, RetryAll, broker
    <3>2. QED
      BY <2>2, <3>1
  <2>9. QED
    BY <2>1, <2>5, <2>7, <2>8 DEF HandshakeInv
<1>3. QED
  BY <1>1, <1>2

LEMMA SamePacket ==
  ASSUME NEW t, NEW m, NEW t2, NEW m2, Packet(t, m) = Packet(t2, m2)
  PROVE  t = t2 /\ m = m2
<1>1. /\ Packet(t, m).type = t /\ Packet(t, m).mid = m
      /\ Packet(t2, m2).type = t2 /\ Packet(t2, m2).mid = m2
  BY DEF Packet
<1>2. QED
  BY <1>1

LEMMA GoneStays ==
  ASSUME TypeOK, Next, NEW d \in Conns, session[d] = "gone" PROVE session'[d] = "gone"
<1>1. ASSUME NEW c \in Conns, Receive(c) \/ Forget(c) PROVE session'[d] = "gone"
  <2>1. CASE Close(c)
    BY <2>1, CloseEffect DEF TypeOK
  <2>2. CASE TakeConnect(c) \/ \E m \in Reports : TakePublish(c, m) \/ TakePubrel(c, m)
    BY <2>2 DEF TakeConnect, TakePublish, TakePubrel, TypeOK
  <2>3. QED
    BY <1>1, <2>1, <2>2, ReceiveForms
<1>2. ASSUME NEW m \in Reports, Pubrec(m) \/ Pubcomp(m) PROVE session'[d] = "gone"
  BY <1>2 DEF Pubrec, Pubcomp, broker
<1>3. QED
  BY <1>1, <1>2 DEF Next, Network, Publish, Write, LoseConnection, Reconnect, OpenSocket,
                   ConnectFails, SendConnect, FillQuota, FillDuringPublish, Connack,
                   RetryAll, broker

\* Where the stored messages of a context come from.
LEMMA StoredFrom ==
  ASSUME TypeOK, Next, NEW d \in Conns, NEW m \in stored'[d]
  PROVE  m \in stored[d] \/ (m \in Reports /\ TakePublish(d, m))
<1>0. stored \in [Conns -> SUBSET Reports]
  BY DEF TypeOK
<1>1. ASSUME NEW c \in Conns, Receive(c) \/ Forget(c)
      PROVE  m \in stored[d] \/ (m \in Reports /\ TakePublish(d, m))
  <2>1. CASE Close(c)
    BY <2>1, CloseEffect
  <2>2. CASE TakeConnect(c)
    BY <2>2 DEF TakeConnect
  <2>3. ASSUME NEW n \in Reports, TakePublish(c, n)
        PROVE  m \in stored[d] \/ (m \in Reports /\ TakePublish(d, m))
    BY <1>0, <2>3 DEF TakePublish
  <2>4. ASSUME NEW n \in Reports, TakePubrel(c, n) PROVE m \in stored[d]
    BY <1>0, <2>4 DEF TakePubrel
  <2>5. QED
    BY <1>1, <2>1, <2>2, <2>3, <2>4, ReceiveForms
<1>2. ASSUME NEW n \in Reports, Pubrec(n) \/ Pubcomp(n) PROVE m \in stored[d]
  BY <1>2 DEF Pubrec, Pubcomp, broker
<1>3. QED
  BY <1>1, <1>2 DEF Next, Network, Publish, Write, LoseConnection, Reconnect, OpenSocket,
                   ConnectFails, SendConnect, FillQuota, FillDuringPublish, Connack,
                   RetryAll, broker

LEMMA SameConnection ==
  ASSUME TypeOK, Next, On', ~SendConnect PROVE conn' = conn /\ On
<1>1. ASSUME NEW c \in Conns, Receive(c) \/ Forget(c) PROVE conn' = conn /\ On
  BY <1>1, ReceiveForms DEF client, On
<1>2. QED
  BY <1>1 DEF Next, Network, Publish, Write, LoseConnection, Reconnect, OpenSocket,
              ConnectFails, FillQuota, FillDuringPublish, Connack, RetryAll, Pubrec, Pubcomp,
              Reads, On

LEMMA AnswerStep ==
  ASSUME TypeOK, AheadInv, AnswerInv, Next PROVE AnswerInv'
<1> SUFFICES ASSUME On', session'[conn'] # "gone", NEW m \in stored'[conn']
             PROVE  Packet("PUBREC", m) \in OnWay' \/ Packet("PUBREL", m) \in OnWay'
  BY DEF AnswerInv
<1>0. conn \in Conns /\ {"CONNECT", "CONNACK", "PUBLISH", "PUBREC", "PUBREL", "PUBCOMP"} = Types
      /\ stored \in [Conns -> SUBSET Reports]
  BY DEF TypeOK, Types
<1>1. CASE SendConnect
  <2>1. conn' = conn + 1 /\ conn' \in Conns /\ conn' > conn /\ stored' = stored
    BY <1>0, <1>1, SessionAssumption DEF SendConnect, broker, Conns
  <2>2. stored[conn'] = {}
    BY <2>1 DEF AheadInv
  <2>3. QED
    BY <2>1, <2>2
<1>2. CASE ~SendConnect
  <2>1. conn' = conn /\ On
    BY <1>2, SameConnection
  <2>2. session[conn] # "gone"
    BY <1>0, <2>1, GoneStays
  <2>3. CASE m \notin stored[conn]
    <3>1. m \in Reports /\ TakePublish(conn, m)
      BY <1>0, <2>1, <2>3, StoredFrom
    <3>2. Takes(conn, "PUBLISH", m, "PUBREC") /\ UNCHANGED client
      BY <3>1 DEF TakePublish
    <3>3. QED
      BY <1>0, <2>1, <3>1, <3>2, AnswerOnWay
  <2>4. CASE m \in stored[conn]
    <3>0. m \in Reports
      BY <1>0, <2>4
    <3>1. PICK t \in {"PUBREC", "PUBREL"} : Packet(t, m) \in OnWay
      BY <2>1, <2>2, <2>4 DEF AnswerInv
    <3>2. \/ Packet(t, m) \in OnWay'
          \/ \E n \in Reports : Pubrec(n) /\ Packet(t, m) = Packet("PUBREC", n)
          \/ \E n \in Reports : TakePubrel(conn, n) /\ Packet(t, m) = Packet("PUBREL", n)
      <4>1. \A n : /\ Packet(t, m) # Packet("CONNACK", n) /\ Packet(t, m) # Packet("PUBCOMP", n)
                   /\ Packet(t, m) # Packet("CONNECT", n) /\ Packet(t, m) # Packet("PUBLISH", n)
        BY SamePacket
      <4>2. QED
        BY <2>1, <3>1, <4>1, StaysOnWay
    <3>3. ASSUME NEW n \in Reports, Pubrec(n), Packet(t, m) = Packet("PUBREC", n)
          PROVE  Packet("PUBREL", m) \in OnWay'
      <4>1. n = m
        BY <3>3, SamePacket
      <4>2. out' = Append(out, Packet("PUBREL", m)) /\ out \in Seq(Packets)
        BY <3>3, <4>1 DEF Pubrec, TypeOK
      <4>3. Packet("PUBREL", m) \in Packets
        BY <1>0, <3>0, PacketType
      <4>4. Packet("PUBREL", m) \in Range(out')
        BY <4>2, <4>3, AppendPacket
      <4>5. QED
        BY <4>4 DEF OnWay
    <3>4. ASSUME NEW n \in Reports, TakePubrel(conn, n), Packet(t, m) = Packet("PUBREL", n)
          PROVE  FALSE
      <4>1. n = m
        BY <3>4, SamePacket
      <4>2. stored' = [stored EXCEPT ![conn] = @ \ {m}]
        BY <3>4, <4>1 DEF TakePubrel
      <4>3. QED
        BY <1>0, <2>1, <4>2
    <3>5. QED
      BY <3>1, <3>2, <3>3, <3>4
  <2>5. QED
    BY <2>3, <2>4
<1>3. QED
  BY <1>1, <1>2

\* Only the client's queue adds to what a context stores or is about to.
LEMMA OthersShrink ==
  ASSUME TypeOK, Next, NEW d \in Conns, ~(d = conn' /\ On')
  PROVE  stored'[d] \cup Coming(d)' \subseteq stored[d] \cup Coming(d)
<1>0. /\ conn \in Conns /\ stored \in [Conns -> SUBSET Reports]
      /\ {"CONNECT", "CONNACK", "PUBLISH", "PUBREC", "PUBREL", "PUBCOMP"} = Types
  BY DEF TypeOK, Types
<1>1. ASSUME Range(up'[d]) \subseteq Range(up[d]) PROVE Coming(d)' \subseteq Coming(d)
  BY <1>1 DEF Coming
<1>2. Range(up'[d]) \subseteq Range(up[d])
  <2>1. CASE Write
    <3>1. d # conn
      BY <2>1 DEF Write, On
    <3>2. QED
      BY <2>1, <3>1, WriteEffect
  <2>2. ASSUME NEW c \in Conns, Receive(c) \/ Forget(c) PROVE Range(up'[d]) \subseteq Range(up[d])
    <3>1. CASE Close(c)
      <4>1. Range(<<>>) = {}
        BY NoPackets
      <4>2. CASE d = c
        <5>1. up'[d] = <<>>
          BY <3>1, <4>2, CloseEffect
        <5>2. QED
          BY <4>1, <5>1
      <4>3. CASE d # c
        BY <3>1, <4>3, CloseEffect
      <4>4. QED
        BY <4>2, <4>3
    <3>2. CASE TakeConnect(c) \/ \E m \in Reports : TakePublish(c, m) \/ TakePubrel(c, m)
      BY <3>2, TakesForms, TakesEffect
    <3>3. QED
      BY <2>2, <3>1, <3>2, ReceiveForms
  <2>3. ASSUME NEW m \in Reports, Pubrec(m) \/ Pubcomp(m) PROVE up' = up
    BY <2>3 DEF Pubrec, Pubcomp
  <2>4. QED
    BY <2>1, <2>2, <2>3 DEF Next, Network, Publish, LoseConnection, Reconnect, OpenSocket,
                   ConnectFails, SendConnect, FillQuota, FillDuringPublish, Connack, RetryAll
<1>3. ASSUME NEW m \in stored'[d] PROVE m \in stored[d] \cup Coming(d)
  <2>1. CASE m \in Reports /\ TakePublish(d, m)
    <3>1. Takes(d, "PUBLISH", m, "PUBREC")
      BY <2>1 DEF TakePublish
    <3>2. Packet("PUBLISH", m) \in Range(up[d])
      BY <1>0, <2>1, <3>1, TakesEffect
    <3>3. QED
      BY <2>1, <3>2 DEF Coming
  <2>2. QED
    BY <2>1, StoredFrom
<1>4. QED
  BY <1>1, <1>2, <1>3

LEMMA RacedGrows == Next => raced \subseteq raced'
<1> SUFFICES ASSUME Next PROVE raced \subseteq raced'
  OBVIOUS
<1>1. ASSUME NEW c \in Conns, Receive(c) \/ Forget(c) PROVE raced' = raced
  BY <1>1, ReceiveForms DEF client
<1>2. ASSUME NEW m \in Reports, Pubrec(m) \/ Pubcomp(m) PROVE raced' = raced
  BY <1>2 DEF Pubrec, Pubcomp
<1>3. CASE Publish \/ FillQuota \/ \E j \in 1..quota : FillDuringPublish(j)
  BY <1>3 DEF Publish, FillQuota, FillDuringPublish
<1>4. QED
  BY <1>1, <1>2, <1>3 DEF Next, Network, Write, LoseConnection, Reconnect, OpenSocket,
                          ConnectFails, SendConnect, Connack, RetryAll

LEMMA OtherStep ==
  ASSUME TypeOK, QuotaInv, Stores, Next PROVE OtherInv'
<1> SUFFICES ASSUME NEW d \in Conns, ~(d = conn' /\ On')
             PROVE  Cardinality(stored'[d] \cup Coming(d)') <= Bound(d)'
  BY DEF OtherInv
<1> DEFINE U == stored[d] \cup Coming(d)
           V == stored'[d] \cup Coming(d)'
<1>1. U \in SUBSET Reports
  BY DEF TypeOK, Coming
<1>2. V \in SUBSET U
  BY OthersShrink
<1>3. Cardinality(U) <= Bound(d)
  <2>1. CASE d = conn /\ On
    <3>1. Cardinality(stored[conn] \cup Coming(conn)) <= Bound(conn)
      BY <2>1, ConnectionBound DEF Stores
    <3>2. QED
      BY <2>1, <3>1
  <2>2. CASE ~(d = conn /\ On)
    BY <2>2 DEF Stores, OtherInv
  <2>3. QED
    BY <2>1, <2>2
<1> HIDE DEF U, V
<1>4. Cardinality(U) \in Nat /\ Cardinality(V) <= Cardinality(U)
  BY <1>1, <1>2, FiniteReports
<1>5. V \in SUBSET Reports
  BY <1>1, <1>2
<1>6. Cardinality(V) \in Nat
  BY <1>5, FiniteReports
<1>7. Bound(d) \in Nat /\ Bound(d)' \in Nat /\ Bound(d) <= Bound(d)'
  BY RacedGrows, SessionAssumption DEF Bound
<1>8. Cardinality(V) <= Bound(d)'
  BY <1>3, <1>4, <1>6, <1>7
<1>9. QED
  BY <1>8 DEF V

LEMMA StoresStep ==
  TypeOK /\ Places /\ QuotaInv /\ Stores /\ [Next]_vars => Stores'
<1> SUFFICES ASSUME TypeOK, Places, QuotaInv, Stores, [Next]_vars PROVE Stores'
  OBVIOUS
<1>1. GoneInv /\ HandshakeInv /\ AnswerInv /\ AheadInv /\ FirstInv
  BY DEF Stores, Places
<1>2. CASE Next
  BY <1>1, <1>2, GoneStep, HandshakeStep, AnswerStep, OtherStep DEF Stores
<1>3. CASE UNCHANGED vars
  <2>1. UNCHANGED <<net, active, conn, raced, session, out, up, down, stored>>
    BY <1>3 DEF vars, client, broker
  <2>2. /\ On' = On /\ OnWay' = OnWay /\ (Shaking' <=> Shaking)
        /\ \A c \in Conns : Coming(c)' = Coming(c) /\ Bound(c)' = Bound(c)
    BY <2>1 DEF On, OnWay, Shaking, Coming, Bound
  <2>3. GoneInv' /\ HandshakeInv' /\ AnswerInv' /\ OtherInv'
    BY <1>1, <2>1, <2>2 DEF Stores, GoneInv, HandshakeInv, AnswerInv, OtherInv
  <2>4. QED
    BY <2>3 DEF Stores
<1>4. QED
  BY <1>2, <1>3

LEMMA InitStores == Init => RacedInv /\ QuotaInv /\ Stores
<1> SUFFICES ASSUME Init PROVE RacedInv /\ QuotaInv /\ Stores
  OBVIOUS
<1>1. /\ conn = 1 /\ 1 \in Conns /\ net = "loop" /\ active = FALSE /\ On
      /\ out = <<>> /\ down = <<>> /\ quota = Inflight
      /\ up[1] = <<Packet("CONNECT", 0)>>
      /\ \A c \in Conns : stored[c] = {} /\ session[c] = "new"
      /\ \A c \in Conns \ {1} : up[c] = <<>>
      /\ \A r \in Reports : msgs[r] = "none"
      /\ raced = {}
  BY SessionAssumption DEF Init, On, Conns
<1>2. Cardinality({}) = 0 /\ Range(<<>>) = {}
  BY FS_EmptySet, NoPackets
<1>3. QuotaInv
  <2>1. Retried = {} /\ Sent = {}
    BY <1>1 DEF Retried, Sent
  <2>2. Again = 0 /\ Cardinality(Sent) = 0
    <3>1. Cardinality(Retried) = 0 /\ Cardinality(Sent) = 0
      BY <1>2, <2>1, Zenon
    <3>2. QED
      BY <3>1 DEF Again
  <2>3. Handshake = 1
    BY <1>1 DEF Handshake, Shaking
  <2>4. Len(out) = 0 /\ Len(down) = 0 /\ Len(up[conn]) = 1
    BY <1>1
  <2>5. Traffic = 0
    BY <1>1, <2>3, <2>4 DEF Traffic
  <2>6. Traffic + quota + Again <= Limit /\ Traffic <= Cardinality(Sent)
    BY <1>1, <2>2, <2>5, SessionAssumption DEF Limit
  <2>7. QED
    BY <1>1, <2>6 DEF QuotaInv
<1>4. GoneInv /\ AnswerInv
  BY <1>1 DEF GoneInv, AnswerInv
<1>5. HandshakeInv
  <2>1. Packet("CONNECT", 0) \in Range(up[conn])
    BY <1>1 DEF Range
  <2>2. QED
    BY <2>1 DEF HandshakeInv, OnWay
<1>6. OtherInv
  <2>1. SUFFICES ASSUME NEW c \in Conns \ {1}
                 PROVE  Cardinality(stored[c] \cup Coming(c)) <= Bound(c)
    BY <1>1 DEF OtherInv
  <2>2. stored[c] = {} /\ \A x : x \notin Range(up[c])
    BY <1>1, <1>2
  <2>3. stored[c] \cup Coming(c) = {}
    BY <2>2 DEF Coming
  <2>4. Cardinality(stored[c] \cup Coming(c)) = 0
    BY <1>2, <2>3, Zenon
  <2>5. QED
    BY <2>4, SessionAssumption DEF Bound
<1>7. RacedInv
  BY <1>1 DEF RacedInv
<1>8. QED
  BY <1>3, <1>4, <1>5, <1>6, <1>7 DEF Stores

LEMMA StoresBound == TypeOK /\ QuotaInv /\ Stores => BrokerBound
<1> SUFFICES ASSUME TypeOK, QuotaInv, Stores, NEW c \in Conns
             PROVE  Cardinality(stored[c]) <= Bound(c)
  BY DEF BrokerBound, Bound
<1> DEFINE U == stored[c] \cup Coming(c)
<1>1. U \in SUBSET Reports /\ stored[c] \in SUBSET U /\ stored[c] \in SUBSET Reports
  BY DEF TypeOK, Coming
<1>2. Cardinality(U) <= Bound(c)
  <2>1. CASE c = conn /\ On
    <3>1. Cardinality(stored[conn] \cup Coming(conn)) <= Bound(conn)
      BY <2>1, ConnectionBound DEF Stores
    <3>2. QED
      BY <2>1, <3>1
  <2>2. CASE ~(c = conn /\ On)
    BY <2>2 DEF Stores, OtherInv
  <2>3. QED
    BY <2>1, <2>2
<1> HIDE DEF U
<1>3. Cardinality(U) \in Nat /\ Cardinality(stored[c]) <= Cardinality(U)
  BY <1>1, FiniteReports
<1>4. Cardinality(stored[c]) \in Nat /\ Bound(c) \in Nat
  BY <1>1, FiniteReports, SessionAssumption DEF Bound
<1>5. QED
  BY <1>2, <1>3, <1>4

\* Places is kept by every step.
LEMMA PlacesStep == TypeOK /\ Places /\ [Next]_vars => Places'
BY SocketStep, ListStep, AheadStep, FirstStep DEF Places

(* No context of the broker ever keeps more than Inflight messages until   *)
(* their PUBREL, whatever connections are lost, unless reports were        *)
(* published while handle__connack had filled the quota and not yet        *)
(* counted it again; such a context keeps at most twice as many.           *)
THEOREM SessionBrokerBound == Spec => []BrokerBound
<1>1. Init => Places /\ RacedInv /\ QuotaInv /\ Stores
  BY InitPlaces, InitStores DEF Places
<1>2. TypeOK /\ Places /\ RacedInv /\ QuotaInv /\ Stores /\ [Next]_vars
        => Places' /\ RacedInv' /\ QuotaInv' /\ Stores'
  BY PlacesStep, RacedStep, QuotaStep, StoresStep
<1>3. TypeOK /\ QuotaInv /\ Stores => BrokerBound
  BY StoresBound
<1>4. Spec => []TypeOK
  BY SessionTypeOK
<1>5. QED
  BY <1>1, <1>2, <1>3, <1>4, PTL DEF Spec

-----------------------------------------------------------------------------
(* The order on the first connection. What is on its way over it passes    *)
(* through down, up and out like through one queue, which the client reads *)
(* and appends to. When reports were published while CONNACK was being     *)
(* handled, the reset that follows lets some of them wait again although   *)
(* their PUBLISH is in the queue. None of them is sent twice, because the  *)
(* quota is used up until a PUBCOMP is read, and all PUBREC to these       *)
(* PUBLISH are read before, which end their waiting.                       *)

\* The client uses the first connection, which the broker has not given up.
Alive == On /\ session[1] # "gone"

Way == (down \o up[1]) \o out

\* The packet at i opens the exchange about m, or belongs to the end of one.
FirstAt(i, m) ==
  i \in DOMAIN Way /\ Way[i].type \in {"PUBLISH", "PUBREC"} /\ Way[i].mid = m
AckAt(i) == i \in DOMAIN Way /\ Way[i].type \in {"PUBREL", "PUBCOMP"}

Opened(m) == \E i \in Nat : FirstAt(i, m)

OpenedInv ==
  conn = 1 /\ Alive =>
    \A i \in Nat, m \in Reports : FirstAt(i, m) =>
      /\ m <= published
      /\ msgs[m] = "invalid" =>
           ~Shaking /\ quota = 0 /\ \A j \in Nat : AckAt(j) => i < j

StartInv ==
  conn = 1 /\ Alive /\ ~active =>
    /\ \A r \in Reports : msgs[r] \in {"none", "invalid", "wait_for_pubrec"}
    /\ \A r \in Reports : msgs[r] = "wait_for_pubrec" => Opened(r)
    /\ \A j \in Nat : ~AckAt(j)

LEMMA HeadAndTail ==
  ASSUME NEW S, NEW q \in Seq(S), q # <<>>
  PROVE  /\ 1 \in DOMAIN q /\ Head(q) = q[1]
         /\ \A i \in Nat : i \in DOMAIN Tail(q) => i + 1 \in DOMAIN q /\ Tail(q)[i] = q[i + 1]
         /\ DOMAIN q \subseteq Nat \ {0} /\ DOMAIN Tail(q) \subseteq Nat \ {0}
OBVIOUS

LEMMA AppendedLast ==
  ASSUME NEW S, NEW q \in Seq(S), NEW x \in S
  PROVE  /\ \A i \in DOMAIN Append(q, x) : \/ i \in DOMAIN q /\ Append(q, x)[i] = q[i]
                                           \/ i = Len(q) + 1 /\ Append(q, x)[i] = x
         /\ Len(q) \in Nat /\ \A i \in DOMAIN q : i \in Nat \ {0} /\ i <= Len(q)
OBVIOUS

LEMMA ThreeParts ==
  ASSUME NEW d \in Seq(Packets), NEW u \in Seq(Packets), NEW o \in Seq(Packets)
  PROVE  /\ (d \o u) \o o \in Seq(Packets)
         /\ Len((d \o u) \o o) = Len(d) + Len(u) + Len(o)
         /\ DOMAIN ((d \o u) \o o) = 1..(Len(d) + Len(u) + Len(o))
         /\ \A i \in 1..(Len(d) + Len(u) + Len(o)) :
              ((d \o u) \o o)[i] = IF i <= Len(d) THEN d[i]
                                   ELSE IF i <= Len(d) + Len(u) THEN u[i - Len(d)]
                                   ELSE o[i - Len(d) - Len(u)]
<1>1. PICK w \in Seq(Packets) : w = d \o u
  BY ConcatProperties
<1>2. PICK a, b, c \in Nat : a = Len(d) /\ b = Len(u) /\ c = Len(o)
  OBVIOUS
<1>3. /\ Len(w) = a + b
      /\ \A i \in 1..(a + b) : w[i] = IF i <= a THEN d[i] ELSE u[i - a]
  BY <1>1, <1>2, ConcatProperties
<1>4. PICK v \in Seq(Packets) : v = w \o o
  BY ConcatProperties
<1>5. /\ Len(v) = (a + b) + c
      /\ \A i \in 1..((a + b) + c) : v[i] = IF i <= a + b THEN w[i] ELSE o[i - (a + b)]
  <2>1. /\ Len(v) = Len(w) + Len(o)
        /\ \A i \in 1..(Len(w) + Len(o)) : v[i] = IF i <= Len(w) THEN w[i] ELSE o[i - Len(w)]
    BY <1>4, ConcatProperties, Zenon
  <2>2. Len(w) = a + b /\ Len(o) = c
    BY <1>2, <1>3
  <2>3. QED
    BY <2>1, <2>2, Zenon
<1>6. \A i \in 1..(a + b + c) : v[i] = IF i <= a THEN d[i]
                                       ELSE IF i <= a + b THEN u[i - a] ELSE o[i - a - b]
  <2>1. TAKE i \in 1..(a + b + c)
  <2>2. CASE i <= a + b
    <3>1. i \in 1..(a + b) /\ v[i] = w[i]
      BY <1>5, <2>2
    <3>2. a <= a + b
      OBVIOUS
    <3>3. QED
      BY <1>3, <2>2, <3>1, <3>2
  <2>3. CASE ~(i <= a + b)
    <3>1. v[i] = o[i - (a + b)] /\ ~(i <= a) /\ i - (a + b) = i - a - b
      BY <1>5, <2>3
    <3>2. QED
      BY <2>3, <3>1
  <2>4. QED
    BY <2>2, <2>3
<1>7. DOMAIN v = 1..(a + b + c)
  BY <1>5
<1>8. QED
  BY <1>1, <1>2, <1>4, <1>5, <1>6, <1>7

LEMMA WayType ==
  ASSUME TypeOK
  PROVE  /\ 1 \in Conns /\ down \in Seq(Packets) /\ up[1] \in Seq(Packets)
         /\ out \in Seq(Packets) /\ Way \in Seq(Packets)
         /\ Len(Way) \in Nat /\ DOMAIN Way = 1..Len(Way)
<1>1. 1 \in Conns /\ down \in Seq(Packets) /\ up[1] \in Seq(Packets) /\ out \in Seq(Packets)
  BY SessionAssumption DEF Conns, TypeOK
<1>2. QED
  BY <1>1, ThreeParts DEF Way

\* The queue loses its first k packets, and v is appended.
Shifts(k, v) ==
  /\ DOMAIN Way' \subseteq Nat \ {0}
  /\ \A i \in DOMAIN Way' :
       \/ i + k \in DOMAIN Way /\ Way'[i] = Way[i + k]
       \/ \E j \in DOMAIN v : i + k = Len(Way) + j /\ Way'[i] = v[j]
  /\ \A i \in DOMAIN Way : i > k => i - k \in DOMAIN Way' /\ Way'[i - k] = Way[i]
  /\ \A j \in DOMAIN v :
       \E i \in DOMAIN Way' : i + k = Len(Way) + j /\ Way'[i] = v[j]

LEMMA SequenceShifts ==
  ASSUME NEW w \in Seq(Packets), NEW v \in Seq(Packets), NEW x \in Seq(Packets), NEW k \in Nat,
         Way = w, Len(w) = Len(x) + k, Way' = x \o v,
         \A i \in 1..Len(x) : x[i] = w[i + k]
  PROVE  Shifts(k, v)
<1>1. PICK c, b \in Nat : c = Len(x) /\ b = Len(v)
  OBVIOUS
<1>2. PICK y \in Seq(Packets) : y = x \o v
  BY ConcatProperties
<1>3. /\ Len(y) = c + b
      /\ \A i \in 1..(c + b) : y[i] = IF i <= c THEN x[i] ELSE v[i - c]
  BY <1>1, <1>2, ConcatProperties
<1>4. /\ DOMAIN y = 1..(c + b) /\ DOMAIN w = 1..(c + k) /\ DOMAIN v = 1..b /\ Len(w) = c + k
      /\ \A i \in 1..c : x[i] = w[i + k]
  BY <1>1, <1>3
<1>5. \A i \in 1..(c + b) :
        \/ i + k \in 1..(c + k) /\ y[i] = w[i + k]
        \/ \E j \in 1..b : i + k = (c + k) + j /\ y[i] = v[j]
  <2>1. TAKE i \in 1..(c + b)
  <2>2. CASE i <= c
    <3>1. i \in 1..c /\ i + k \in 1..(c + k)
      BY <2>2
    <3>2. QED
      BY <1>3, <1>4, <2>2, <3>1
  <2>3. CASE ~(i <= c)
    <3>1. i - c \in 1..b /\ i + k = (c + k) + (i - c)
      BY <2>3
    <3>2. y[i] = v[i - c]
      BY <1>3, <2>3
    <3>3. QED
      BY <3>1, <3>2
  <2>4. QED
    BY <2>2, <2>3
<1>6. \A i \in 1..(c + k) : i > k => i - k \in 1..(c + b) /\ y[i - k] = w[i]
  <2>1. TAKE i \in 1..(c + k)
  <2>2. HAVE i > k
  <2>3. i - k \in 1..c /\ i - k \in 1..(c + b) /\ (i - k) + k = i /\ i - k <= c
    BY <2>2
  <2>4. y[i - k] = x[i - k]
    BY <1>3, <2>3
  <2>5. x[i - k] = w[(i - k) + k]
    BY <1>4, <2>3
  <2>6. QED
    BY <2>3, <2>4, <2>5
<1>7. \A j \in 1..b : \E i \in 1..(c + b) : i + k = (c + k) + j /\ y[i] = v[j]
  <2>1. TAKE j \in 1..b
  <2>2. c + j \in 1..(c + b) /\ (c + j) + k = (c + k) + j /\ ~(c + j <= c) /\ (c + j) - c = j
    OBVIOUS
  <2>3. y[c + j] = v[(c + j) - c]
    BY <1>3, <2>2
  <2>4. QED
    BY <2>2, <2>3
<1>8. Way' = y /\ Len(Way) = c + k /\ DOMAIN Way = 1..(c + k)
  BY <1>2, <1>4
<1>9. DOMAIN y \subseteq Nat \ {0}
  BY <1>4
<1>10. /\ \A i \in DOMAIN y :
             \/ i + k \in DOMAIN w /\ y[i] = w[i + k]
             \/ \E j \in DOMAIN v : i + k = Len(w) + j /\ y[i] = v[j]
       /\ \A i \in DOMAIN w : i > k => i - k \in DOMAIN y /\ y[i - k] = w[i]
       /\ \A j \in DOMAIN v : \E i \in DOMAIN y : i + k = Len(w) + j /\ y[i] = v[j]
  <2>1. \A i \in DOMAIN y :
           \/ i + k \in DOMAIN w /\ y[i] = w[i + k]
           \/ \E j \in DOMAIN v : i + k = Len(w) + j /\ y[i] = v[j]
    <3>1. DOMAIN y = 1..(c + b) /\ DOMAIN w = 1..(c + k) /\ DOMAIN v = 1..b /\ Len(w) = c + k
      BY <1>4
    <3>2. QED
      BY <1>5, <3>1
  <2>2. \A i \in DOMAIN w : i > k => i - k \in DOMAIN y /\ y[i - k] = w[i]
    BY <1>4, <1>6
  <2>3. \A j \in DOMAIN v : \E i \in DOMAIN y : i + k = Len(w) + j /\ y[i] = v[j]
    BY <1>4, <1>7
  <2>4. QED
    BY <2>1, <2>2, <2>3
<1>11. QED
  BY <1>2, <1>9, <1>10, Zenon DEF Shifts

\* Facts about the three parts of the queue.
Joins(d, u, o, v) == (d \o u) \o (o \o v) = ((d \o u) \o o) \o v

Loses(d, u, o) ==
  /\ (Tail(d) \o u) \o o = Tail((d \o u) \o o)
  /\ (d \o u) \o o # <<>> /\ Head((d \o u) \o o) = Head(d)

LEMMA JoinedParts ==
  ASSUME NEW d \in Seq(Packets), NEW u \in Seq(Packets), NEW o \in Seq(Packets),
         NEW v \in Seq(Packets)
  PROVE  Joins(d, u, o, v)
<1>1. d \o u \in Seq(Packets)
  OBVIOUS
<1>2. QED
  BY <1>1 DEF Joins

LEMMA TailOfJoin ==
  ASSUME NEW d \in Seq(Packets), NEW u \in Seq(Packets), d # <<>>
  PROVE  d \o u # <<>> /\ Tail(d) \o u = Tail(d \o u) /\ Head(d \o u) = Head(d)
OBVIOUS

LEMMA TailParts ==
  ASSUME NEW d \in Seq(Packets), NEW u \in Seq(Packets), NEW o \in Seq(Packets), d # <<>>
  PROVE  /\ Tail(d) \in Seq(Packets) /\ Tail(d) # d
         /\ Loses(d, u, o)
<1>1. Tail(d) \in Seq(Packets) /\ d \o u \in Seq(Packets) /\ Tail(d) # d
  OBVIOUS
<1>2. d \o u # <<>> /\ Tail(d) \o u = Tail(d \o u) /\ Head(d \o u) = Head(d)
  BY TailOfJoin
<1>3. /\ (d \o u) \o o # <<>>
      /\ Tail(d \o u) \o o = Tail((d \o u) \o o)
      /\ Head((d \o u) \o o) = Head(d \o u)
  BY <1>1, <1>2, TailOfJoin
<1>4. QED
  BY <1>1, <1>2, <1>3, Zenon DEF Loses

LEMMA TailIndices ==
  ASSUME NEW y \in Seq(Packets), y # <<>>
  PROVE  /\ Tail(y) \in Seq(Packets) /\ Len(y) = Len(Tail(y)) + 1
         /\ \A i \in 1..Len(Tail(y)) : Tail(y)[i] = y[i + 1]
         /\ 1 \in DOMAIN y /\ y[1] = Head(y)
OBVIOUS

\* What the client does to the queue.
LEMMA ClientWay ==
  ASSUME TypeOK, up' = up, NEW v \in Seq(Packets), out' = out \o v
  PROVE  /\ down' = down => Shifts(0, v)
         /\ down # <<>> /\ down' = Tail(down) =>
              Shifts(1, v) /\ 1 \in DOMAIN Way /\ Way[1] = Head(down)
<1>1. PICK d, u, o \in Seq(Packets) : d = down /\ u = up[1] /\ o = out
  BY WayType
<1>2. PICK w \in Seq(Packets) : w = (d \o u) \o o
  BY ThreeParts
<1>3. Way = w /\ up'[1] = u /\ out' = o \o v
  BY <1>1, <1>2 DEF Way
<1>4. ASSUME down' = down PROVE Shifts(0, v)
  <2>1. Way' = (d \o u) \o (o \o v)
    BY <1>1, <1>3, <1>4 DEF Way
  <2>2. Way' = w \o v
    <3>1. Joins(d, u, o, v)
      BY JoinedParts
    <3>2. QED
      BY <1>2, <2>1, <3>1 DEF Joins
  <2>3. Len(w) = Len(w) + 0 /\ \A i \in 1..Len(w) : w[i] = w[i + 0]
    OBVIOUS
  <2>4. QED
    BY <1>3, <2>2, <2>3, SequenceShifts
<1>5. ASSUME down # <<>>, down' = Tail(down)
      PROVE  Shifts(1, v) /\ 1 \in DOMAIN Way /\ Way[1] = Head(down)
  <2>1. PICK t \in Seq(Packets) : t = Tail(d) /\ d # <<>>
    BY <1>1, <1>5, TailParts
  <2>2. Way' = (t \o u) \o (o \o v)
    BY <1>1, <1>3, <1>5, <2>1 DEF Way
  <2>3. Way' = ((t \o u) \o o) \o v
    <3>1. Joins(t, u, o, v)
      BY JoinedParts
    <3>2. QED
      BY <2>2, <3>1 DEF Joins
  <2>4. (t \o u) \o o = Tail(w) /\ w # <<>> /\ Head(w) = Head(d)
    <3>1. Loses(d, u, o)
      BY <2>1, TailParts
    <3>2. QED
      BY <1>2, <2>1, <3>1 DEF Loses
  <2>5. PICK x \in Seq(Packets) : x = Tail(w)
    BY <2>4, TailIndices
  <2>6. /\ Len(w) = Len(x) + 1 /\ \A i \in 1..Len(x) : x[i] = w[i + 1]
        /\ 1 \in DOMAIN w /\ w[1] = Head(w)
    BY <2>4, <2>5, TailIndices
  <2>7. Way' = x \o v
    BY <2>3, <2>4, <2>5, Zenon
  <2>8. Shifts(1, v)
    BY <1>3, <2>6, <2>7, SequenceShifts
  <2>9. QED
    BY <1>1, <1>3, <2>4, <2>6, <2>8, Zenon
<1>6. QED
  BY <1>4, <1>5

LEMMA MovedParts ==
  ASSUME NEW d \in Seq(Packets), NEW u \in Seq(Packets), NEW o \in Seq(Packets), o # <<>>
  PROVE  (d \o Append(u, Head(o))) \o Tail(o) = (d \o u) \o o
<1>1. /\ d \o u \in Seq(Packets) /\ Head(o) \in Packets /\ Tail(o) \in Seq(Packets)
      /\ Append(u, Head(o)) \in Seq(Packets)
  OBVIOUS
<1>2. d \o Append(u, Head(o)) = Append(d \o u, Head(o))
  BY <1>1
<1>3. PICK w \in Seq(Packets) : w = d \o u
  BY <1>1
<1>4. Append(w, Head(o)) \o Tail(o) = w \o o
  BY <1>1
<1>5. QED
  BY <1>2, <1>3, <1>4

LEMMA WriteWay ==
  ASSUME TypeOK, Write, conn = 1, session[1] # "gone" PROVE Way' = Way
<1>1. PICK d, u, o \in Seq(Packets) : d = down /\ u = up[1] /\ o = out
  BY WayType
<1>2. o # <<>> /\ out' = Tail(o) /\ down' = d /\ up'[1] = Append(u, Head(o))
  BY <1>1, WayType DEF Write, TypeOK
<1>3. Way = (d \o u) \o o /\ Way' = (d \o Append(u, Head(o))) \o Tail(o)
  BY <1>1, <1>2 DEF Way
<1>4. QED
  BY <1>2, <1>3, MovedParts

\* Where the elements of w come from, when its parts have x, y and z of them.
Indexed(w, d, u, o, x, y, z) ==
  /\ DOMAIN w = 1..(x + y + z)
  /\ \A i \in 1..(x + y + z) : w[i] = IF i <= x THEN d[i]
                                      ELSE IF i <= x + y THEN u[i - x]
                                      ELSE o[i - x - y]

LEMMA PartsIndexed ==
  ASSUME NEW d \in Seq(Packets), NEW u \in Seq(Packets), NEW o \in Seq(Packets),
         NEW x \in Nat, NEW y \in Nat, NEW z \in Nat, x = Len(d), y = Len(u), z = Len(o)
  PROVE  Indexed((d \o u) \o o, d, u, o, x, y, z)
BY ThreeParts DEF Indexed

\* The broker takes a packet out of the queue and puts its answer there.
Answered(t, m, a) ==
  /\ DOMAIN Way' = DOMAIN Way
  /\ \E k \in DOMAIN Way :
       /\ Way[k] = Packet(t, m) /\ Way'[k] = Packet(a, m)
       /\ \A i \in DOMAIN Way : i # k => Way'[i] = Way[i]

LEMMA TakesWay ==
  ASSUME TypeOK, conn = 1, On, UNCHANGED out,
         NEW t, NEW m \in Reports \cup {0}, NEW a \in Types, Takes(1, t, m, a)
  PROVE  Answered(t, m, a)
<1>1. PICK d, u, o \in Seq(Packets) : d = down /\ u = up[1] /\ o = out
  BY WayType
<1>2. PICK p \in Packets : p = Packet(a, m)
  BY PacketType
<1>3. /\ u # <<>> /\ Head(u) = Packet(t, m) /\ up'[1] = Tail(u) /\ out' = o
      /\ down' = Append(d, p)
  <2>1. Reading(1)
    BY DEF Reading, On
  <2>2. QED
    BY <1>1, <1>2, <2>1, WayType DEF Takes, TypeOK
<1>4. PICK d2 \in Seq(Packets), u2 \in Seq(Packets) : d2 = Append(d, p) /\ u2 = Tail(u)
  <2>1. Append(d, p) \in Seq(Packets) /\ Tail(u) \in Seq(Packets)
    BY <1>3
  <2>2. QED
    BY <2>1
<1>5. PICK x, y, z \in Nat : x = Len(d) /\ y + 1 = Len(u) /\ z = Len(o)
  <2>1. Len(d) \in Nat /\ Len(u) \in Nat \ {0} /\ Len(o) \in Nat
    BY <1>3
  <2>2. PICK b \in Nat \ {0} : b = Len(u)
    BY <2>1
  <2>3. b - 1 \in Nat /\ (b - 1) + 1 = b
    OBVIOUS
  <2>4. QED
    BY <2>1, <2>2, <2>3, Zenon
<1>6. /\ Len(d2) = x + 1 /\ \A i \in 1..x : d2[i] = d[i]
      /\ d2[x + 1] = p
  BY <1>4, <1>5
<1>7. Len(u2) = y /\ u[1] = Head(u) /\ \A i \in 1..y : u2[i] = u[i + 1]
  BY <1>3, <1>4, <1>5
<1>8. PICK n \in Nat : n = x + (y + 1) + z /\ n = (x + 1) + y + z
  <2>1. x + (y + 1) + z \in Nat /\ x + (y + 1) + z = (x + 1) + y + z
    OBVIOUS
  <2>2. QED
    BY <2>1, Zenon
<1>9. /\ DOMAIN Way = 1..n
      /\ \A i \in 1..n : Way[i] = IF i <= x THEN d[i]
                                  ELSE IF i <= x + (y + 1) THEN u[i - x]
                                  ELSE o[i - x - (y + 1)]
  <2>1. Indexed((d \o u) \o o, d, u, o, x, y + 1, z)
    BY <1>5, PartsIndexed
  <2>2. Way = (d \o u) \o o
    BY <1>1 DEF Way
  <2>3. Indexed(Way, d, u, o, x, y + 1, z)
    BY <2>1, <2>2, Zenon
  <2>4. QED
    BY <1>8, <2>3, Zenon DEF Indexed
<1>10. /\ DOMAIN Way' = 1..n
       /\ \A i \in 1..n : Way'[i] = IF i <= x + 1 THEN d2[i]
                                    ELSE IF i <= (x + 1) + y THEN u2[i - (x + 1)]
                                    ELSE o[i - (x + 1) - y]
  <2>1. Way' = (d2 \o u2) \o o
    BY <1>3, <1>4 DEF Way
  <2>2. Len(d2) = x + 1 /\ Len(u2) = y /\ Len(o) = z
    BY <1>5, <1>6, <1>7
  <2>3. Indexed((d2 \o u2) \o o, d2, u2, o, x + 1, y, z)
    BY <2>2, PartsIndexed
  <2>4. Indexed(Way', d2, u2, o, x + 1, y, z)
    BY <2>1, <2>3, Zenon
  <2>5. QED
    BY <1>8, <2>4, Zenon DEF Indexed
<1>11. x + 1 \in 1..n /\ Way[x + 1] = Packet(t, m) /\ Way'[x + 1] = p
  <2>1. x + 1 \in 1..n /\ ~(x + 1 <= x) /\ x + 1 <= x + (y + 1) /\ (x + 1) - x = 1
    BY <1>8
  <2>2. Way[x + 1] = u[(x + 1) - x]
    BY <1>9, <2>1
  <2>3. Way'[x + 1] = d2[x + 1]
    BY <1>10, <2>1
  <2>4. QED
    BY <1>3, <1>6, <1>7, <2>1, <2>2, <2>3
<1>12. ASSUME NEW i \in 1..n, i # x + 1 PROVE Way'[i] = Way[i]
  <2>1. CASE i <= x
    <3>1. Way[i] = d[i] /\ i \in 1..x /\ i <= x + 1
      BY <1>9, <2>1
    <3>2. Way'[i] = d2[i]
      BY <1>10, <3>1
    <3>3. QED
      BY <1>6, <3>1, <3>2
  <2>2. CASE ~(i <= x) /\ i <= x + (y + 1)
    <3>1. /\ ~(i <= x + 1) /\ i <= (x + 1) + y /\ i - (x + 1) \in 1..y
          /\ (i - (x + 1)) + 1 = i - x
      BY <1>12, <2>2
    <3>2. Way[i] = u[i - x]
      BY <1>9, <2>2
    <3>3. Way'[i] = u2[i - (x + 1)]
      BY <1>10, <3>1
    <3>4. u2[i - (x + 1)] = u[(i - (x + 1)) + 1]
      BY <1>7, <3>1
    <3>5. QED
      BY <3>1, <3>2, <3>3, <3>4
  <2>3. CASE ~(i <= x + (y + 1))
    <3>1. /\ ~(i <= x) /\ ~(i <= x + 1) /\ ~(i <= (x + 1) + y)
          /\ i - (x + 1) - y = i - x - (y + 1)
      BY <2>3
    <3>2. Way[i] = o[i - x - (y + 1)]
      BY <1>9, <2>3, <3>1
    <3>3. Way'[i] = o[i - (x + 1) - y]
      BY <1>10, <3>1
    <3>4. QED
      BY <3>1, <3>2, <3>3
  <2>4. QED
    BY <2>1, <2>2, <2>3
<1>13. QED
  BY <1>2, <1>9, <1>10, <1>11, <1>12, Zenon DEF Answered

LEMMA SameWay == ASSUME TypeOK, Way' = Way PROVE Shifts(0, <<>>)
<1>1. PICK w \in Seq(Packets) : w = Way
  BY WayType
<1>2. PICK x \in Seq(Packets) : x = <<>>
  <2>1. <<>> \in Seq(Packets)
    OBVIOUS
  <2>2. QED
    BY <2>1, Zenon
<1>3. Len(w) = Len(w) + 0 /\ (\A i \in 1..Len(w) : w[i] = w[i + 0]) /\ w = w \o x
  BY <1>2
<1>4. Shifts(0, x)
  BY <1>1, <1>3, SequenceShifts
<1>5. QED
  BY <1>2, <1>4

\* What was open stays open, and what opens is marked as sent.
LEMMA OpenedShift ==
  ASSUME TypeOK, OpenedInv, conn = 1, Alive, NEW k \in Nat, NEW v \in Seq(Packets), Shifts(k, v),
         published' \in Nat, published <= published',
         \A j \in DOMAIN v : v[j].type \in {"PUBLISH", "PUBREC"} =>
           v[j].mid <= published' /\ msgs'[v[j].mid] # "invalid",
         \A i \in Nat, m \in Reports : FirstAt(i, m) /\ i > k /\ msgs'[m] = "invalid" =>
           ~Shaking' /\ quota' = 0 /\ \A j \in Nat : AckAt(j) => i < j
  PROVE  OpenedInv'
<1> SUFFICES ASSUME NEW i \in Nat, NEW m \in Reports, FirstAt(i, m)'
             PROVE  /\ m <= published'
                    /\ msgs'[m] = "invalid" =>
                         ~Shaking' /\ quota' = 0 /\ \A j \in Nat : AckAt(j)' => i < j
  BY DEF OpenedInv
<1>1. /\ published \in Nat /\ m \in Nat /\ DOMAIN v \subseteq Nat \ {0}
      /\ DOMAIN Way = 1..Len(Way) /\ Len(Way) \in Nat
  <2>1. published \in Nat
    BY SessionAssumption DEF TypeOK
  <2>2. m \in Nat /\ DOMAIN v \subseteq Nat \ {0}
    BY ReportsType
  <2>3. QED
    BY <2>1, <2>2, WayType
<1>2. /\ i \in DOMAIN Way' /\ i \in Nat \ {0}
      /\ Way'[i].type \in {"PUBLISH", "PUBREC"} /\ Way'[i].mid = m
  BY DEF FirstAt, Shifts
<1>3. ASSUME NEW j \in Nat, AckAt(j)'
      PROVE  \/ AckAt(j + k)
             \/ j + k > Len(Way)
  <2>1. j \in DOMAIN Way' /\ Way'[j].type \in {"PUBREL", "PUBCOMP"}
    BY <1>3 DEF AckAt
  <2>2. \/ j + k \in DOMAIN Way /\ Way'[j] = Way[j + k]
        \/ \E l \in DOMAIN v : j + k = Len(Way) + l
    BY <2>1 DEF Shifts
  <2>3. ASSUME NEW l \in DOMAIN v, j + k = Len(Way) + l PROVE j + k > Len(Way)
    BY <1>1, <2>3
  <2>4. QED
    BY <2>1, <2>2, <2>3 DEF AckAt
<1>4. CASE i + k \in DOMAIN Way /\ Way'[i] = Way[i + k]
  <2>1. FirstAt(i + k, m) /\ i + k \in Nat /\ i + k > k /\ i + k <= Len(Way)
    BY <1>1, <1>2, <1>4 DEF FirstAt
  <2>2. m <= published
    BY <2>1 DEF OpenedInv
  <2>3. m <= published'
    BY <1>1, <2>2
  <2>4. ASSUME msgs'[m] = "invalid", NEW j \in Nat, AckAt(j)' PROVE i < j
    <3>1. CASE AckAt(j + k)
      <4>1. i + k < j + k
        BY <2>1, <2>4, <3>1
      <4>2. QED
        BY <4>1
    <3>2. CASE j + k > Len(Way)
      BY <1>1, <2>1, <3>2
    <3>3. QED
      BY <1>3, <2>4, <3>1, <3>2
  <2>5. msgs'[m] = "invalid" => ~Shaking' /\ quota' = 0
    BY <2>1
  <2>6. QED
    BY <2>3, <2>4, <2>5
<1>5. ASSUME NEW j \in DOMAIN v, Way'[i] = v[j]
      PROVE  m <= published' /\ msgs'[m] # "invalid"
  BY <1>2, <1>5
<1>6. QED
  BY <1>2, <1>4, <1>5 DEF Shifts

LEMMA StaysOpened ==
  ASSUME TypeOK, NEW k \in Nat, NEW v \in Seq(Packets), Shifts(k, v),
         NEW i \in Nat, NEW m, FirstAt(i, m), i > k
  PROVE  Opened(m)'
<1>1. i - k \in Nat /\ i - k \in DOMAIN Way' /\ Way'[i - k] = Way[i]
  BY DEF FirstAt, Shifts
<1>2. FirstAt(i - k, m)'
  BY <1>1 DEF FirstAt
<1>3. QED
  BY <1>1, <1>2 DEF Opened

\* Before CONNACK is handled, what is marked as sent is open.
LEMMA StartShift ==
  ASSUME TypeOK, StartInv, conn = 1, Alive, ~active,
         NEW k \in Nat, NEW v \in Seq(Packets), Shifts(k, v),
         \A j \in DOMAIN v : v[j].type = "PUBLISH",
         \A r \in Reports : msgs'[r] \in {"none", "invalid", "wait_for_pubrec"},
         \A r \in Reports : msgs'[r] = "wait_for_pubrec" =>
           msgs[r] = "wait_for_pubrec" \/ \E j \in DOMAIN v : v[j] = Packet("PUBLISH", r),
         \A i \in Nat, r \in Reports : FirstAt(i, r) => i > k
  PROVE  StartInv'
<1>1. ASSUME NEW r \in Reports, msgs'[r] = "wait_for_pubrec" PROVE Opened(r)'
  <2>1. CASE msgs[r] = "wait_for_pubrec"
    <3>1. PICK i \in Nat : FirstAt(i, r)
      BY <2>1 DEF StartInv, Opened
    <3>2. QED
      BY <3>1, StaysOpened
  <2>2. ASSUME NEW j \in DOMAIN v, v[j] = Packet("PUBLISH", r) PROVE Opened(r)'
    <3>1. PICK i \in DOMAIN Way' : Way'[i] = v[j]
      BY DEF Shifts
    <3>2. v[j].type = "PUBLISH" /\ v[j].mid = r
      BY <2>2 DEF Packet
    <3>3. i \in Nat /\ FirstAt(i, r)'
      BY <3>1, <3>2 DEF Shifts, FirstAt
    <3>4. QED
      BY <3>3 DEF Opened
  <2>3. QED
    BY <1>1, <2>1, <2>2
<1>2. ASSUME NEW j \in Nat, AckAt(j)' PROVE FALSE
  <2>1. j \in DOMAIN Way' /\ Way'[j].type \in {"PUBREL", "PUBCOMP"}
    BY <1>2 DEF AckAt
  <2>2. CASE j + k \in DOMAIN Way /\ Way'[j] = Way[j + k]
    <3>1. j + k \in Nat /\ AckAt(j + k)
      BY <2>1, <2>2 DEF AckAt
    <3>2. QED
      BY <3>1 DEF StartInv
  <2>3. ASSUME NEW l \in DOMAIN v, Way'[j] = v[l] PROVE FALSE
    BY <2>1, <2>3
  <2>4. QED
    BY <2>1, <2>2, <2>3 DEF Shifts
<1>3. QED
  BY <1>1, <1>2 DEF StartInv

StillOpen == \A m \in Reports : Opened(m) /\ Fresh(m)' => Opened(m)'

LEMMA QuietKeeps ==
  ASSUME TypeOK, OpenedInv, StartInv, conn = 1, Alive, Way' = Way,
         UNCHANGED <<published, msgs>>, active => active',
         Shaking \/ (UNCHANGED quota /\ Shaking' = Shaking)
  PROVE  OpenedInv' /\ StartInv' /\ StillOpen
<1>1. Shifts(0, <<>>) /\ <<>> \in Seq(Packets) /\ DOMAIN <<>> = {}
  BY SameWay
<1>2. published' \in Nat /\ published <= published'
  BY SessionAssumption DEF TypeOK
<1>3. \A i \in Nat : \A m : FirstAt(i, m) => i > 0
  <2>1. DOMAIN Way \subseteq Nat \ {0}
    BY WayType
  <2>2. QED
    BY <2>1 DEF FirstAt
<1>4. \A i \in Nat, m \in Reports : FirstAt(i, m) /\ i > 0 /\ msgs'[m] = "invalid" =>
        ~Shaking' /\ quota' = 0 /\ \A j \in Nat : AckAt(j) => i < j
  <2>1. SUFFICES ASSUME NEW i \in Nat, NEW m \in Reports, FirstAt(i, m), msgs'[m] = "invalid"
                 PROVE  ~Shaking' /\ quota' = 0 /\ \A j \in Nat : AckAt(j) => i < j
    OBVIOUS
  <2>2. ~Shaking /\ quota = 0 /\ \A j \in Nat : AckAt(j) => i < j
    BY <2>1 DEF OpenedInv
  <2>3. QED
    BY <2>2
<1>5. OpenedInv'
  BY <1>1, <1>2, <1>4, OpenedShift
<1>6. StartInv'
  <2>1. CASE active'
    BY <2>1 DEF StartInv
  <2>2. CASE ~active
    <3>1. \A r \in Reports : msgs'[r] \in {"none", "invalid", "wait_for_pubrec"}
      BY <2>2 DEF StartInv
    <3>2. QED
      BY <1>1, <1>3, <2>2, <3>1, StartShift
  <2>3. QED
    BY <2>1, <2>2
<1>7. StillOpen
  BY <1>1, <1>3, StaysOpened DEF StillOpen, Opened
<1>8. QED
  BY <1>5, <1>6, <1>7

\* The broker's steps.
LEMMA AnswerKeeps ==
  ASSUME TypeOK, OpenedInv, StartInv, conn = 1, Alive, UNCHANGED client,
         NEW t, NEW m, NEW a, Answered(t, m, a),
         \/ t = "CONNECT" /\ a = "CONNACK"
         \/ t = "PUBLISH" /\ a = "PUBREC"
         \/ t = "PUBREL" /\ a = "PUBCOMP"
  PROVE  OpenedInv' /\ StartInv' /\ StillOpen
<1>1. PICK k \in DOMAIN Way :
        /\ Way[k] = Packet(t, m) /\ Way'[k] = Packet(a, m)
        /\ \A i \in DOMAIN Way : i # k => Way'[i] = Way[i]
  BY DEF Answered
<1>2. /\ Way[k].type = t /\ Way[k].mid = m /\ Way'[k].type = a /\ Way'[k].mid = m
      /\ DOMAIN Way' = DOMAIN Way
  BY <1>1 DEF Packet, Answered
<1>3. \A i, x : FirstAt(i, x)' <=> FirstAt(i, x)
  <2>1. TAKE i, x
  <2>2. CASE i = k
    BY <1>2, <2>2 DEF FirstAt
  <2>3. CASE i # k
    BY <1>1, <1>2, <2>3 DEF FirstAt
  <2>4. QED
    BY <2>2, <2>3
<1>4. \A j : AckAt(j)' <=> AckAt(j)
  <2>1. TAKE j
  <2>2. CASE j = k
    BY <1>2, <2>2 DEF AckAt
  <2>3. CASE j # k
    BY <1>1, <1>2, <2>3 DEF AckAt
  <2>4. QED
    BY <2>2, <2>3
<1>5. \A x : Opened(x)' <=> Opened(x)
  BY <1>3 DEF Opened
<1>6. UNCHANGED <<published, msgs, quota, active, net, conn>>
  BY DEF client
<1>7. Shaking' = Shaking
  BY <1>6 DEF Shaking
<1>8. OpenedInv'
  BY <1>3, <1>4, <1>6, <1>7 DEF OpenedInv
<1>9. StartInv'
  BY <1>4, <1>5, <1>6 DEF StartInv
<1>10. QED
  BY <1>5, <1>8, <1>9 DEF StillOpen

\* What is released with a socket is what is sent.
LEMMA ReleaseSends ==
  ASSUME TypeOK, sock, NEW list \in [Reports -> States], NEW q \in Nat, Release(list, q)
  PROVE  \E now \in SUBSET Waiting(list), v \in Seq(Packets) :
           /\ out' = out \o v
           /\ msgs' = [r \in Reports |-> IF r \in now THEN "wait_for_pubrec" ELSE list[r]]
           /\ \A j \in DOMAIN v : v[j].type = "PUBLISH" /\ v[j].mid \in now
           /\ \A r \in now : \E j \in DOMAIN v : v[j] = Packet("PUBLISH", r)
           /\ q = 0 => now = {} /\ quota' = 0
<1>1. PICK now \in SUBSET Waiting(list), e \in Seq(Reports) : Releases(list, q, now, e)
  BY ReleaseCounts
<1>2. /\ msgs' = [r \in Reports |-> IF r \in now THEN "wait_for_pubrec" ELSE list[r]]
      /\ \A i \in DOMAIN e : e[i] \in now
      /\ \A i, j \in DOMAIN e : i < j => e[i] < e[j]
      /\ quota' + Len(e) = q
      /\ Behind(out', out, "PUBLISH", e)
      /\ Len(e) = Cardinality(now)
  BY <1>1, Zenon DEF Releases
<1> DEFINE v == [i \in DOMAIN e |-> Packet("PUBLISH", e[i])]
<1>3. v \in Seq(Packets) /\ DOMAIN v = DOMAIN e
      /\ \A j \in DOMAIN e : v[j] = Packet("PUBLISH", e[j])
  <2>1. \A i \in DOMAIN e : Packet("PUBLISH", e[i]) \in Packets
    BY PacketType DEF Types
  <2>2. QED
    BY <2>1
<1>4. out' = out \o v
  BY <1>2, Zenon DEF Behind
<1> HIDE DEF v
<1>5. \A j \in DOMAIN v : v[j].type = "PUBLISH" /\ v[j].mid \in now
  BY <1>2, <1>3 DEF Packet
<1>6. PICK n \in Nat : n = Len(e)
  OBVIOUS
<1>7. now \in SUBSET Reports /\ IsFiniteSet(now) /\ Cardinality(now) \in Nat
  <2>1. now \in SUBSET Reports
    BY DEF Waiting
  <2>2. QED
    BY <2>1, FiniteReports
<1>8. \A r \in now : \E j \in DOMAIN e : e[j] = r
  <2>1. DOMAIN e = 1..n /\ n = Cardinality(now)
    BY <1>2, <1>6
  <2>2. e \in [1..n -> now]
    BY <1>2, <2>1
  <2>3. \A i, j \in 1..n : e[i] = e[j] => i = j
    <3>1. \A i, j \in 1..n : i < j => e[i] # e[j]
      <4>1. \A i \in 1..n : e[i] \in Nat
        BY <1>7, <2>2, ReportsType
      <4>2. QED
        BY <1>2, <2>1, <4>1
    <3>2. QED
      BY <3>1
  <2>4. e \in Injection(1..n, now)
    BY <2>2, <2>3 DEF Injection, IsInjective
  <2>5. Cardinality(1..n) = n
    BY FS_Interval
  <2>6. e \in Surjection(1..n, now)
    BY <1>7, <2>1, <2>4, <2>5, FS_Injection
  <2>7. QED
    BY <2>1, <2>6 DEF Surjection
<1>9. \A r \in now : \E j \in DOMAIN v : v[j] = Packet("PUBLISH", r)
  BY <1>3, <1>8
<1>10. q = 0 => now = {} /\ quota' = 0
  <2>1. ASSUME q = 0 PROVE now = {} /\ quota' = 0
    <3>1. n = 0 /\ quota' = 0
      <4>1. PICK p \in Nat : p = quota'
        BY ReleaseEffect
      <4>2. p + n = 0
        BY <1>2, <1>6, <2>1, <4>1
      <4>3. p = 0 /\ n = 0
        BY <4>2
      <4>4. QED
        BY <4>1, <4>3
    <3>2. Cardinality(now) = 0
      BY <1>2, <1>6, <3>1
    <3>3. QED
      BY <1>7, <3>1, <3>2, FS_EmptySet
  <2>2. QED
    BY <2>1
<1>11. QED
  BY <1>2, <1>3, <1>4, <1>5, <1>9, <1>10

\* A report is published.
LEMMA HandsKeeps ==
  ASSUME TypeOK, SocketInv, ListInv, OpenedInv, StartInv, conn = 1, Alive, NEW q \in Nat, Hands(q),
         Shaking \/ (q = quota /\ net' = net)
  PROVE  OpenedInv' /\ StartInv' /\ StillOpen
<1> DEFINE list == [msgs EXCEPT ![published + 1] = "invalid"]
<1>1. /\ Release(list, q) /\ published' = published + 1 /\ list \in [Reports -> States]
      /\ UNCHANGED <<up, down, active>> /\ sock
      /\ published \in Nat /\ Reports \subseteq Nat
      /\ \A r \in Reports : r <= published => list[r] = msgs[r]
      /\ \A r \in Reports : list[r] = msgs[r] \/ list[r] = "invalid"
  <2>1. published \in Nat /\ published + 1 \in Nat /\ Reports \subseteq Nat /\ sock
    BY SessionAssumption, ReportsType DEF TypeOK, SocketInv, Alive, On
  <2>2. Release(list, q) /\ published' = published + 1 /\ UNCHANGED <<up, down, active>>
    BY DEF Hands
  <2>3. list \in [Reports -> States]
    BY HandsType
  <2>4. msgs \in [Reports -> States]
    BY DEF TypeOK
  <2>5. \A r \in Reports : r <= published => list[r] = msgs[r]
    <3>1. \A r \in Reports : r <= published => r # published + 1
      BY <2>1
    <3>2. QED
      BY <2>4, <3>1
  <2>6. \A r \in Reports : list[r] = msgs[r] \/ list[r] = "invalid"
    BY <2>4
  <2> HIDE DEF list
  <2>7. QED
    BY <2>1, <2>2, <2>3, <2>5, <2>6
<1> HIDE DEF list
<1>2. PICK now \in SUBSET Waiting(list), v \in Seq(Packets) :
        /\ out' = out \o v
        /\ msgs' = [r \in Reports |-> IF r \in now THEN "wait_for_pubrec" ELSE list[r]]
        /\ \A j \in DOMAIN v : v[j].type = "PUBLISH" /\ v[j].mid \in now
        /\ \A r \in now : \E j \in DOMAIN v : v[j] = Packet("PUBLISH", r)
        /\ q = 0 => now = {} /\ quota' = 0
  BY <1>1, ReleaseSends
<1>3. Shifts(0, v)
  BY <1>1, <1>2, ClientWay
<1>4. \A r \in now : r \in Reports /\ r <= published' /\ msgs'[r] = "wait_for_pubrec"
  <2>1. \A r \in now : r \in Reports /\ list[r] = "invalid"
    BY DEF Waiting
  <2>2. ASSUME NEW r \in now PROVE r <= published'
    <3>1. r \in Nat /\ r \in Reports /\ list[r] = "invalid"
      BY <1>1, <2>1
    <3>2. CASE r > published + 1
      <4>1. r > published /\ r # published + 1
        BY <1>1, <3>1, <3>2
      <4>2. list[r] = msgs[r]
        BY <3>1, <4>1 DEF list, TypeOK
      <4>3. QED
        BY <3>1, <4>1, <4>2 DEF ListInv
    <3>3. QED
      BY <1>1, <3>1, <3>2
  <2>3. QED
    BY <1>2, <2>1, <2>2
<1>5. ASSUME NEW i \in Nat, NEW m \in Reports, FirstAt(i, m), msgs'[m] = "invalid"
      PROVE  ~Shaking' /\ quota' = 0 /\ \A j \in Nat : AckAt(j) => i < j
  <2>1. m <= published
    BY <1>5 DEF OpenedInv
  <2>2. msgs[m] = "invalid"
    <3>1. m \notin now
      BY <1>4, <1>5
    <3>2. list[m] = "invalid"
      BY <1>2, <1>5, <3>1
    <3>3. QED
      BY <1>1, <2>1, <3>2
  <2>3. ~Shaking /\ quota = 0 /\ \A j \in Nat : AckAt(j) => i < j
    BY <1>5, <2>2 DEF OpenedInv
  <2>4. quota' = 0 /\ Shaking' = Shaking
    BY <1>1, <1>2, <2>3 DEF Shaking
  <2>5. QED
    BY <2>3, <2>4
<1>6. published' \in Nat /\ published <= published'
  BY <1>1
<1>7. \A j \in DOMAIN v : v[j].type \in {"PUBLISH", "PUBREC"} =>
        v[j].mid <= published' /\ msgs'[v[j].mid] # "invalid"
  BY <1>2, <1>4
<1>8. OpenedInv'
  BY <1>3, <1>5, <1>6, <1>7, OpenedShift
<1>9. \A i \in Nat : \A m : FirstAt(i, m) => i > 0
  <2>1. DOMAIN Way \subseteq Nat \ {0}
    BY WayType
  <2>2. QED
    BY <2>1 DEF FirstAt
<1>10. StartInv'
  <2>1. CASE active
    BY <1>1, <2>1 DEF StartInv
  <2>2. CASE ~active
    <3>1. \A r \in Reports : msgs[r] \in {"none", "invalid", "wait_for_pubrec"}
      BY <2>2 DEF StartInv
    <3>2. \A r \in Reports : msgs'[r] = IF r \in now THEN "wait_for_pubrec" ELSE list[r]
      BY <1>2
    <3>3. \A r \in Reports : msgs'[r] \in {"none", "invalid", "wait_for_pubrec"}
      BY <1>1, <3>1, <3>2
    <3>4. \A r \in Reports : msgs'[r] = "wait_for_pubrec" =>
            msgs[r] = "wait_for_pubrec" \/ \E j \in DOMAIN v : v[j] = Packet("PUBLISH", r)
      BY <1>1, <1>2, <3>2
    <3>5. QED
      BY <1>2, <1>3, <1>9, <2>2, <3>3, <3>4, StartShift
  <2>3. QED
    BY <2>1, <2>2
<1>11. StillOpen
  BY <1>3, <1>9, StaysOpened DEF StillOpen, Opened
<1>12. QED
  BY <1>8, <1>10, <1>11

LEMMA FirstPacket ==
  ASSUME TypeOK, 1 \in DOMAIN Way, NEW t, NEW m, Way[1] = Packet(t, m)
  PROVE  /\ \A i \in Nat : \A x : FirstAt(i, x) =>
              i > 1 \/ (i = 1 /\ t \in {"PUBLISH", "PUBREC"} /\ x = m)
         /\ t \in {"PUBREL", "PUBCOMP"} => AckAt(1)
         /\ t \in {"PUBLISH", "PUBREC"} => FirstAt(1, m)
<1>1. Way[1].type = t /\ Way[1].mid = m
  BY DEF Packet
<1>2. DOMAIN Way \subseteq Nat \ {0}
  BY WayType
<1>3. \A i \in DOMAIN Way : i = 1 \/ i > 1
  BY <1>2
<1>4. QED
  BY <1>1, <1>3 DEF FirstAt, AckAt

LEMMA ConnackKeeps ==
  ASSUME TypeOK, FirstInv, OpenedInv, StartInv, conn = 1, Alive, Connack
  PROVE  OpenedInv' /\ StartInv' /\ StillOpen
<1>1. /\ net = "reset" /\ net' = "connack" /\ ~active /\ Shaking
      /\ down # <<>> /\ Head(down) = Packet("CONNACK", 0) /\ down' = Tail(down)
      /\ UNCHANGED <<published, out, up, active>>
  BY DEF Connack, Arrived, FirstInv, Shaking
<1>2. published' \in Nat /\ published <= published' /\ out \in Seq(Packets)
  BY <1>1, SessionAssumption DEF TypeOK
<1>3. <<>> \in Seq(Packets) /\ DOMAIN <<>> = {} /\ out' = out \o <<>>
  BY <1>1, <1>2
<1>4. Shifts(1, <<>>) /\ 1 \in DOMAIN Way /\ Way[1] = Packet("CONNACK", 0)
  BY <1>1, <1>3, ClientWay
<1>5. \A i \in Nat : \A x : FirstAt(i, x) => i > 1
  BY <1>4, FirstPacket
<1> DEFINE first == FirstOf(Listed(msgs), Inflight)
<1>6. /\ quota' = Inflight - Cardinality(first)
      /\ msgs' = [r \in Reports |->
                    IF msgs[r] = "none" THEN "none"
                    ELSE IF r \notin first THEN "invalid"
                    ELSE msgs[r]]
  BY DEF Connack, Reset
<1>7. /\ Listed(msgs) \in SUBSET Reports /\ Inflight \in Nat
      /\ \A r \in Reports : r \in Listed(msgs) <=> msgs[r] # "none"
  BY SessionAssumption DEF Listed
<1>8. first # Listed(msgs) => Cardinality(first) = Inflight /\ Inflight - Cardinality(first) = 0
  <2>1. Cardinality(Listed(msgs)) \in Nat
    BY <1>7, FiniteReports
  <2>2. Cardinality(Listed(msgs)) <= Inflight \/ Cardinality(Listed(msgs)) > Inflight
    BY <1>7, <2>1
  <2>3. /\ Cardinality(Listed(msgs)) <= Inflight => first = Listed(msgs)
        /\ Cardinality(Listed(msgs)) > Inflight => Cardinality(first) = Inflight
    BY <1>7, FirstOfLowest
  <2>4. Inflight - Inflight = 0
    BY <1>7
  <2>5. QED
    BY <2>2, <2>3, <2>4
<1> HIDE DEF first
<1>9. ASSUME NEW i \in Nat, NEW m \in Reports, FirstAt(i, m), msgs'[m] = "invalid"
      PROVE  ~Shaking' /\ quota' = 0 /\ \A j \in Nat : AckAt(j) => i < j
  <2>1. msgs[m] # "invalid"
    BY <1>1, <1>9 DEF OpenedInv
  <2>2. m \in Listed(msgs) /\ m \notin first
    BY <1>6, <1>7, <1>9, <2>1
  <2>3. quota' = 0
    BY <1>6, <1>8, <2>2
  <2>4. ~Shaking'
    BY <1>1 DEF Shaking
  <2>5. \A j \in Nat : ~AckAt(j)
    BY <1>1 DEF StartInv
  <2>6. QED
    BY <2>3, <2>4, <2>5
<1>10. OpenedInv'
  BY <1>2, <1>3, <1>4, <1>9, OpenedShift
<1>11. StartInv'
  <2>1. \A r \in Reports : msgs[r] \in {"none", "invalid", "wait_for_pubrec"}
    BY <1>1 DEF StartInv
  <2>2. \A r \in Reports :
          /\ msgs'[r] \in {"none", "invalid", "wait_for_pubrec"}
          /\ msgs'[r] = "wait_for_pubrec" => msgs[r] = "wait_for_pubrec"
    BY <1>6, <2>1
  <2>3. QED
    BY <1>1, <1>3, <1>4, <1>5, <2>2, StartShift
<1>12. StillOpen
  BY <1>3, <1>4, <1>5, StaysOpened DEF StillOpen, Opened
<1>13. QED
  BY <1>10, <1>11, <1>12

LEMMA PubcompKeeps ==
  ASSUME TypeOK, SocketInv, ListInv, OpenedInv, StartInv, conn = 1, Alive,
         NEW m \in Reports, Pubcomp(m)
  PROVE  OpenedInv' /\ StartInv' /\ StillOpen
<1> DEFINE list == [msgs EXCEPT ![m] = "none"]
           q == IF quota < Inflight THEN quota + 1 ELSE quota
<1>1. /\ down # <<>> /\ Head(down) = Packet("PUBCOMP", m) /\ down' = Tail(down)
      /\ UNCHANGED <<published, up, active>> /\ active /\ Release(list, q)
  BY DEF Pubcomp, Reads, Arrived
<1>2. /\ sock /\ q \in Nat /\ list \in [Reports -> States] /\ Reports \subseteq Nat
      /\ published' \in Nat /\ published \in Nat /\ published <= published'
      /\ \A r \in Reports : list[r] = "invalid" => msgs[r] = "invalid"
  BY <1>1, SessionAssumption, ReportsType DEF TypeOK, SocketInv, Alive, On, States
<1> HIDE DEF list, q
<1>3. PICK now \in SUBSET Waiting(list), v \in Seq(Packets) :
        /\ out' = out \o v
        /\ msgs' = [r \in Reports |-> IF r \in now THEN "wait_for_pubrec" ELSE list[r]]
        /\ \A j \in DOMAIN v : v[j].type = "PUBLISH" /\ v[j].mid \in now
        /\ \A r \in now : \E j \in DOMAIN v : v[j] = Packet("PUBLISH", r)
        /\ q = 0 => now = {} /\ quota' = 0
  BY <1>1, <1>2, ReleaseSends
<1>4. Shifts(1, v) /\ 1 \in DOMAIN Way /\ Way[1] = Packet("PUBCOMP", m)
  BY <1>1, <1>3, ClientWay
<1>5. (\A i \in Nat : \A x : FirstAt(i, x) => i > 1) /\ AckAt(1)
  BY <1>4, FirstPacket
<1>6. \A r \in now : r \in Reports /\ r <= published' /\ msgs'[r] = "wait_for_pubrec"
  <2>1. \A r \in now : r \in Reports /\ list[r] = "invalid"
    BY DEF Waiting
  <2>2. \A r \in Reports : msgs[r] = "invalid" => r <= published
    BY <1>2 DEF ListInv
  <2>3. QED
    BY <1>1, <1>2, <1>3, <2>1, <2>2
<1>7. ASSUME NEW i \in Nat, NEW x \in Reports, FirstAt(i, x), msgs'[x] = "invalid"
      PROVE  FALSE
  <2>1. x \notin now
    BY <1>6, <1>7
  <2>2. msgs[x] = "invalid"
    BY <1>2, <1>3, <1>7, <2>1
  <2>3. i < 1
    BY <1>5, <1>7, <2>2 DEF OpenedInv
  <2>4. i > 1
    BY <1>5, <1>7
  <2>5. QED
    BY <2>3, <2>4
<1>8. \A j \in DOMAIN v : v[j].type \in {"PUBLISH", "PUBREC"} =>
        v[j].mid <= published' /\ msgs'[v[j].mid] # "invalid"
  BY <1>3, <1>6
<1>9. OpenedInv'
  BY <1>2, <1>4, <1>7, <1>8, OpenedShift
<1>10. StartInv'
  BY <1>1 DEF StartInv
<1>11. StillOpen
  BY <1>4, <1>5, StaysOpened DEF StillOpen, Opened
<1>12. QED
  BY <1>9, <1>10, <1>11

LEMMA PubrecKeeps ==
  ASSUME TypeOK, OpenedInv, StartInv, conn = 1, Alive, NEW m \in Reports, Pubrec(m)
  PROVE  OpenedInv' /\ StartInv' /\ StillOpen
<1>1. /\ down # <<>> /\ Head(down) = Packet("PUBREC", m) /\ down' = Tail(down)
      /\ UNCHANGED <<published, quota, up, active, net>> /\ active
      /\ out' = Append(out, Packet("PUBREL", m))
      /\ msgs' = [msgs EXCEPT ![m] = IF @ = "none" THEN @ ELSE "wait_for_pubcomp"]
  BY DEF Pubrec, Reads, Arrived
<1>2. /\ published' \in Nat /\ published \in Nat /\ published <= published'
      /\ out \in Seq(Packets) /\ msgs \in [Reports -> States] /\ Reports \subseteq Nat
  BY <1>1, SessionAssumption, ReportsType DEF TypeOK
<1>3. PICK p \in Packets : p = Packet("PUBREL", m) /\ p.type = "PUBREL"
  <2>1. "PUBREL" \in Types
    BY DEF Types
  <2>2. Packet("PUBREL", m) \in Packets
    BY <2>1, PacketType
  <2>3. Packet("PUBREL", m).type = "PUBREL"
    BY DEF Packet
  <2>4. QED
    BY <2>2, <2>3
<1>4. PICK v \in Seq(Packets) : v = <<p>> /\ out' = out \o v /\ \A j \in DOMAIN v : v[j] = p
  <2>1. <<p>> \in Seq(Packets) /\ Append(out, p) = out \o <<p>> /\ \A j \in DOMAIN <<p>> : <<p>>[j] = p
    BY <1>2
  <2>2. QED
    BY <1>1, <1>3, <2>1, Zenon
<1>5. Shifts(1, v) /\ 1 \in DOMAIN Way /\ Way[1] = Packet("PUBREC", m)
  BY <1>1, <1>4, ClientWay
<1>6. (\A i \in Nat : \A x : FirstAt(i, x) => i > 1 \/ (i = 1 /\ x = m)) /\ FirstAt(1, m)
  BY <1>5, FirstPacket
<1>7. m <= published /\ msgs'[m] # "invalid"
      /\ \A r \in Reports : msgs'[r] = "invalid" => msgs[r] = "invalid"
  <2>1. m <= published
    BY <1>6 DEF OpenedInv
  <2>2. QED
    BY <1>1, <1>2, <2>1
<1>8. ASSUME NEW i \in Nat, NEW x \in Reports, FirstAt(i, x), msgs'[x] = "invalid"
      PROVE  ~Shaking' /\ quota' = 0 /\ \A j \in Nat : AckAt(j) => i < j
  <2>1. ~Shaking /\ quota = 0 /\ \A j \in Nat : AckAt(j) => i < j
    BY <1>7, <1>8 DEF OpenedInv
  <2>2. QED
    BY <1>1, <2>1 DEF Shaking
<1>9. \A j \in DOMAIN v : ~(v[j].type \in {"PUBLISH", "PUBREC"})
  BY <1>3, <1>4
<1>10. OpenedInv'
  BY <1>2, <1>5, <1>8, <1>9, OpenedShift
<1>11. StartInv'
  BY <1>1 DEF StartInv
<1>12. ASSUME NEW x \in Reports, Opened(x), Fresh(x)' PROVE Opened(x)'
  <2>1. x # m
    BY <1>1, <1>2, <1>7, <1>12 DEF Fresh
  <2>2. PICK i \in Nat : FirstAt(i, x)
    BY <1>12 DEF Opened
  <2>3. i > 1
    BY <1>6, <2>1, <2>2
  <2>4. QED
    BY <1>5, <2>2, <2>3, StaysOpened
<1>13. QED
  BY <1>10, <1>11, <1>12 DEF StillOpen

LEMMA FirstStays ==
  ASSUME TypeOK, Next, conn' = 1 PROVE conn = 1 /\ (On' => On) /\ ~SendConnect
<1>1. conn \in Conns /\ Conns \subseteq Nat \ {0}
  BY SessionAssumption DEF TypeOK, Conns
<1>2. ~SendConnect
  BY <1>1 DEF SendConnect
<1>3. ASSUME NEW c \in Conns, Receive(c) \/ Forget(c) PROVE conn' = conn
  BY <1>3, ReceiveForms DEF client
<1>4. ASSUME NEW m \in Reports, Pubrec(m) \/ Pubcomp(m) PROVE conn' = conn
  BY <1>4 DEF Pubrec, Pubcomp
<1>5. conn' = conn
  BY <1>2, <1>3, <1>4 DEF Next, Network, Publish, Write, LoseConnection, Reconnect,
                          OpenSocket, ConnectFails, FillQuota, FillDuringPublish, Connack, RetryAll
<1>6. QED
  BY <1>2, <1>5, SameConnection

LEMMA ConnackShakes ==
  ASSUME TypeOK, FirstInv, Arrived("CONNACK", 0) PROVE Shaking
<1>1. down \in Seq(Packets) /\ down # <<>> /\ Head(down).type = "CONNACK"
  BY DEF Arrived, TypeOK, Packet
<1>2. 1 \in DOMAIN down /\ Head(down) = down[1]
  BY <1>1, HeadAndTail
<1>3. QED
  BY <1>1, <1>2 DEF FirstInv

LEMMA RetryKeeps ==
  ASSUME TypeOK, FirstInv, OpenedInv, StartInv, conn = 1, Alive, RetryAll
  PROVE  OpenedInv' /\ StartInv' /\ StillOpen /\ out' = out
<1>1. /\ net = "connack" /\ ~active /\ active' /\ out \in Seq(Packets)
      /\ UNCHANGED <<published, msgs, quota, up, down>>
  BY DEF RetryAll, FirstInv, TypeOK
<1>2. Retried = {}
  BY <1>1 DEF StartInv, Retried
<1>3. PICK s \in Enumerations(Retried) : out' = out \o [i \in DOMAIN s |-> Retry(s[i])]
  BY DEF RetryAll
<1>4. DOMAIN s = {}
  <2>1. Cardinality(Retried) = 0
    BY <1>2, FS_EmptySet
  <2>2. Retried \in SUBSET Reports
    BY <1>2
  <2>3. DOMAIN s = 1..0
    BY <2>1, <2>2, EnumeratedLength
  <2>4. QED
    BY <2>3
<1>5. out' = out
  <2>1. [i \in DOMAIN s |-> Retry(s[i])] = <<>>
    BY <1>4
  <2>2. QED
    BY <1>1, <1>3, <2>1
<1>6. Way' = Way
  BY <1>1, <1>5 DEF Way
<1>7. Shaking' = Shaking /\ UNCHANGED quota /\ UNCHANGED <<published, msgs>>
      /\ (active => active')
  BY <1>1 DEF Shaking
<1>8. OpenedInv' /\ StartInv' /\ StillOpen
  BY <1>6, <1>7, QuietKeeps
<1>9. QED
  BY <1>5, <1>8

LEMMA ReceiveKeeps ==
  ASSUME TypeOK, AheadInv, OpenedInv, StartInv, conn = 1, Alive, Alive',
         NEW c \in Conns, Receive(c) \/ Forget(c)
  PROVE  OpenedInv' /\ StartInv' /\ StillOpen
<1>1. UNCHANGED client
  BY ReceiveForms
<1>2. UNCHANGED <<published, msgs, quota, active, net, out, conn>>
  BY <1>1 DEF client
<1>3. CASE Close(c)
  <2>1. 1 \in Conns
    BY WayType
  <2>2. c # 1
    BY <1>3, CloseEffect DEF Alive
  <2>3. up'[1] = up[1] /\ down' = down
    BY <1>3, <2>1, <2>2, CloseEffect
  <2>4. Way' = Way
    BY <1>2, <2>3 DEF Way
  <2>5. Shaking' = Shaking
    BY <1>2 DEF Shaking
  <2>6. QED
    BY <1>2, <2>4, <2>5, QuietKeeps
<1>4. CASE TakeConnect(c) \/ \E m \in Reports : TakePublish(c, m) \/ TakePubrel(c, m)
  <2>1. PICK t \in Types, m \in Reports \cup {0}, a \in Types :
          /\ Takes(c, t, m, a)
          /\ \/ t = "CONNECT" /\ a = "CONNACK"
             \/ t = "PUBLISH" /\ a = "PUBREC"
             \/ t = "PUBREL" /\ a = "PUBCOMP"
    BY <1>4, TakesForms
  <2>2. c = 1
    <3>1. up[c] # <<>>
      BY <2>1 DEF Takes
    <3>2. ~(c > 1)
      BY <3>1 DEF AheadInv
    <3>3. c \in Nat \ {0}
      BY SessionAssumption DEF Conns
    <3>4. QED
      BY <3>2, <3>3
  <2>3. Answered(t, m, a)
    BY <1>2, <2>1, <2>2, TakesWay DEF Alive
  <2>4. QED
    BY <1>1, <2>1, <2>3, AnswerKeeps
<1>5. QED
  BY <1>3, <1>4, ReceiveForms

\* The queue of the first connection, for as long as both sides keep it.
LEMMA OpenedStep ==
  ASSUME TypeOK, Places, OpenedInv, StartInv, Next, conn' = 1, Alive'
  PROVE  conn = 1 /\ Alive /\ OpenedInv' /\ StartInv' /\ StillOpen
<1>0. SocketInv /\ ListInv /\ AheadInv /\ FirstInv
  BY DEF Places
<1>1. conn = 1 /\ On /\ On' /\ ~SendConnect /\ Alive
  <2>1. conn = 1 /\ On /\ On' /\ ~SendConnect
    BY FirstStays DEF Alive
  <2>2. 1 \in Conns
    BY WayType
  <2>3. session[1] # "gone"
    BY <2>2, GoneStays DEF Alive
  <2>4. QED
    BY <2>1, <2>3 DEF Alive
<1>2. CASE Publish
  BY <1>0, <1>1, <1>2, PublishHands, HandsKeeps DEF Publish
<1>3. CASE Write
  <2>1. Way' = Way
    BY <1>1, <1>3, WriteWay DEF Alive
  <2>2. UNCHANGED <<published, msgs, quota, active>> /\ Shaking' = Shaking
    BY <1>3 DEF Write, Shaking
  <2>3. QED
    BY <1>1, <2>1, <2>2, QuietKeeps
<1>4. CASE LoseConnection \/ Reconnect \/ OpenSocket \/ ConnectFails
  BY <1>1, <1>4 DEF LoseConnection, Reconnect, OpenSocket, ConnectFails, On
<1>5. CASE FillQuota
  <2>1. UNCHANGED <<published, msgs, active, up, down, out>> /\ Shaking
    BY <1>0, <1>5, ConnackShakes DEF FillQuota
  <2>2. Way' = Way
    BY <2>1 DEF Way
  <2>3. QED
    BY <1>1, <2>1, <2>2, QuietKeeps
<1>6. ASSUME NEW j \in 1..quota, FillDuringPublish(j)
      PROVE  OpenedInv' /\ StartInv' /\ StillOpen
  <2>1. Hands(j + Inflight) /\ j + Inflight \in Nat
    BY <1>6, PublishHands
  <2>2. Shaking
    BY <1>0, <1>6, ConnackShakes DEF FillDuringPublish
  <2>3. QED
    BY <1>0, <1>1, <2>1, <2>2, HandsKeeps
<1>7. CASE Connack
  BY <1>0, <1>1, <1>7, ConnackKeeps
<1>8. CASE RetryAll
  BY <1>0, <1>1, <1>8, RetryKeeps
<1>9. ASSUME NEW m \in Reports, Pubrec(m) \/ Pubcomp(m)
      PROVE  OpenedInv' /\ StartInv' /\ StillOpen
  BY <1>0, <1>1, <1>9, PubrecKeeps, PubcompKeeps
<1>10. ASSUME NEW c \in Conns, Receive(c) \/ Forget(c)
       PROVE  OpenedInv' /\ StartInv' /\ StillOpen
  BY <1>0, <1>1, <1>10, ReceiveKeeps
<1>11. OpenedInv' /\ StartInv' /\ StillOpen
  BY <1>1, <1>2, <1>3, <1>4, <1>5, <1>6, <1>7, <1>8, <1>9, <1>10 DEF Next, Network
<1>12. QED
  BY <1>1, <1>11

\* What has not been sent over the first connection.
Unsent(m) == Fresh(m) /\ ~Opened(m)

LEMMA UnsentStays ==
  ASSUME StillOpen, NEW m \in Reports, Fresh(m)' => Fresh(m) \/ Opened(m), Unsent(m)'
  PROVE  Unsent(m)
BY DEF Unsent, StillOpen

\* A report's place on its way over the first connection: delivered (0),
\* PUBREL on its way (1, 2), PUBREC on its way (3), PUBLISH on its way (4, 5),
\* not sent yet (6); i is its place in the sequence, if it is in one.
At(s, i, m) ==
  \/ s = 0 /\ i \in DOMAIN delivered /\ delivered[i] = m
  \/ s = 1 /\ i \in DOMAIN up[1] /\ up[1][i] = Packet("PUBREL", m)
  \/ s = 2 /\ i \in DOMAIN out /\ out[i] = Packet("PUBREL", m)
  \/ s = 3 /\ i \in DOMAIN down /\ down[i] = Packet("PUBREC", m)
  \/ s = 4 /\ i \in DOMAIN up[1] /\ up[1][i] = Packet("PUBLISH", m)
  \/ s = 5 /\ i \in DOMAIN out /\ out[i] = Packet("PUBLISH", m)
  \/ s = 6 /\ i = 0 /\ Unsent(m)

Precedes(s, i, t, j) == s < t \/ (s = t /\ i < j)

\* Without the client or the context only what the broker has can still be
\* delivered.
Stages == IF Alive THEN 0..6 ELSE 0..1

(* What is further on its way is an earlier report.                        *)
OrderInv ==
  conn = 1 =>
    \A s, t \in Stages : \A i, j \in Nat : \A m, n \in Reports :
      At(s, i, m) /\ At(t, j, n) /\ Precedes(s, i, t, j) => m < n

\* Steps after which every sequence is what it was without some first elements.
LEMMA ShiftedOrder ==
  ASSUME OrderInv, conn' = 1 => conn = 1 /\ (Alive' => Alive), NEW d \in [0..6 -> Nat],
         conn' = 1 => \A s \in Stages' : \A i \in Nat : \A m \in Reports :
                        At(s, i, m)' => At(s, i + d[s], m)
  PROVE  OrderInv'
<1> SUFFICES ASSUME conn' = 1, NEW s \in Stages', NEW t \in Stages', NEW i \in Nat, NEW j \in Nat,
                    NEW m \in Reports, NEW n \in Reports,
                    At(s, i, m)', At(t, j, n)', Precedes(s, i, t, j)
             PROVE  m < n
  BY DEF OrderInv, Precedes
<1>1. s \in Stages /\ t \in Stages /\ s \in 0..6 /\ t \in 0..6
  BY DEF Stages
<1>2. At(s, i + d[s], m) /\ At(t, j + d[t], n)
  OBVIOUS
<1>3. i + d[s] \in Nat /\ j + d[t] \in Nat
  BY <1>1
<1>4. Precedes(s, i + d[s], t, j + d[t])
  BY <1>1 DEF Precedes
<1>5. QED
  BY <1>1, <1>2, <1>3, <1>4 DEF OrderInv

\* The first packet of the queue becomes the last of the connection.
LEMMA WriteOrder ==
  ASSUME TypeOK, OrderInv, Write, conn = 1, Alive,
         \A m \in Reports : Unsent(m)' => Unsent(m)
  PROVE  OrderInv'
<1>1. /\ UNCHANGED <<delivered, down, session, conn, net>>
      /\ out # <<>> /\ out' = Tail(out) /\ out \in Seq(Packets)
      /\ up' = [up EXCEPT ![1] = Append(@, Head(out))]
      /\ up \in [Conns -> Seq(Packets)]
  BY DEF Write, broker, Alive, TypeOK
<1>2. conn' = 1 /\ Stages' = 0..6 /\ Stages = 0..6
  BY <1>1 DEF Stages, Alive, On
<1>3. /\ 1 \in DOMAIN out /\ Head(out) = out[1] /\ Head(out) \in Packets
      /\ \A i \in Nat : i \in DOMAIN out' => i + 1 \in DOMAIN out /\ out'[i] = out[i + 1]
      /\ DOMAIN out' \subseteq Nat \ {0}
  BY <1>1, HeadAndTail, WriteEffect
<1>4. PICK q \in Seq(Packets) : up[1] = q /\ up'[1] = Append(q, Head(out))
  <2>1. 1 \in Conns
    BY DEF TypeOK
  <2>2. QED
    BY <1>1, <2>1
<1>5. PICK u \in Nat : u = Len(q)
  OBVIOUS
<1>6. /\ \A i \in DOMAIN up'[1] : \/ i \in DOMAIN up[1] /\ up'[1][i] = up[1][i]
                                  \/ i = u + 1 /\ up'[1][i] = out[1]
      /\ \A i \in DOMAIN up[1] : i \in Nat \ {0} /\ i <= u
  BY <1>3, <1>4, <1>5, AppendedLast
<1> DEFINE a(s, i) == IF s = 1 /\ i = u + 1 THEN 2 ELSE IF s = 4 /\ i = u + 1 THEN 5 ELSE s
           b(s, i) == IF s \in {1, 4} /\ i = u + 1 THEN 1
                      ELSE IF s \in {2, 5} THEN i + 1 ELSE i
<1>7. ASSUME NEW s \in 0..6, NEW i \in Nat, NEW m \in Reports, At(s, i, m)'
      PROVE  /\ At(a(s, i), b(s, i), m)
             /\ s \in {1, 4} => i <= u + 1 /\ i # 0
             /\ s \in {2, 5} => i # 0
  <2>1. CASE s = 1
    BY <1>3, <1>6, <1>7, <2>1 DEF At
  <2>2. CASE s = 4
    BY <1>3, <1>6, <1>7, <2>2 DEF At
  <2>3. CASE s \in {2, 5}
    BY <1>3, <1>7, <2>3 DEF At
  <2>4. CASE s \in {0, 3, 6}
    BY <1>1, <1>7, <2>4 DEF At
  <2>5. QED
    BY <2>1, <2>2, <2>3, <2>4
<1>8. SUFFICES ASSUME NEW s \in 0..6, NEW t \in 0..6, NEW i \in Nat, NEW j \in Nat,
                      NEW m \in Reports, NEW n \in Reports,
                      At(s, i, m)', At(t, j, n)', Precedes(s, i, t, j)
               PROVE  m < n
  BY <1>2 DEF OrderInv, Precedes
<1>9. Precedes(a(s, i), b(s, i), a(t, j), b(t, j))
  BY <1>7, <1>8 DEF Precedes
<1>10. a(s, i) \in 0..6 /\ a(t, j) \in 0..6 /\ b(s, i) \in Nat /\ b(t, j) \in Nat
  OBVIOUS
<1>11. At(a(s, i), b(s, i), m) /\ At(a(t, j), b(t, j), n)
  BY <1>7, <1>8
<1> HIDE DEF a, b
<1>12. QED
  BY <1>2, <1>9, <1>10, <1>11 DEF OrderInv

\* PUBREL follows PUBREC: what the client reads first becomes the last of the
\* queue.
LEMMA PubrecOrder ==
  ASSUME TypeOK, OrderInv, NEW x \in Reports, Pubrec(x), conn = 1, Alive,
         \A m \in Reports : Unsent(m)' => Unsent(m)
  PROVE  OrderInv'
<1>1. /\ UNCHANGED <<delivered, up, session, conn, net>>
      /\ out' = Append(out, Packet("PUBREL", x)) /\ out \in Seq(Packets)
      /\ down # <<>> /\ down' = Tail(down) /\ Head(down) = Packet("PUBREC", x)
      /\ down \in Seq(Packets)
  BY DEF Pubrec, Reads, Arrived, broker, TypeOK
<1>2. conn' = 1 /\ Stages' = 0..6 /\ Stages = 0..6
  BY <1>1 DEF Stages, Alive, On
<1>3. /\ 1 \in DOMAIN down /\ down[1] = Packet("PUBREC", x)
      /\ \A i \in Nat : i \in DOMAIN down' => i + 1 \in DOMAIN down /\ down'[i] = down[i + 1]
      /\ DOMAIN down' \subseteq Nat \ {0}
  BY <1>1, HeadAndTail
<1>4. PICK o \in Nat : o = Len(out)
  BY <1>1
<1>5. /\ \A i \in DOMAIN out' : \/ i \in DOMAIN out /\ out'[i] = out[i]
                                \/ i = o + 1 /\ out'[i] = Packet("PUBREL", x)
      /\ \A i \in DOMAIN out : i \in Nat \ {0} /\ i <= o
  <2>1. Packet("PUBREL", x) \in Packets
    BY PacketType DEF Types
  <2>2. QED
    BY <1>1, <1>4, <2>1, AppendedLast
<1>6. \A m : /\ Packet("PUBREL", x) # Packet("PUBLISH", m)
             /\ Packet("PUBREL", x) = Packet("PUBREL", m) => m = x
  BY SamePacket
<1> DEFINE a(s, i) == IF s = 2 /\ i = o + 1 THEN 3 ELSE s
           b(s, i) == IF s = 2 /\ i = o + 1 THEN 1 ELSE IF s = 3 THEN i + 1 ELSE i
<1>7. ASSUME NEW s \in 0..6, NEW i \in Nat, NEW m \in Reports, At(s, i, m)'
      PROVE  /\ At(a(s, i), b(s, i), m)
             /\ s = 2 => i <= o + 1
             /\ s = 3 => i # 0
  BY <1>1, <1>3, <1>5, <1>6, <1>7 DEF At
<1>8. SUFFICES ASSUME NEW s \in 0..6, NEW t \in 0..6, NEW i \in Nat, NEW j \in Nat,
                      NEW m \in Reports, NEW n \in Reports,
                      At(s, i, m)', At(t, j, n)', Precedes(s, i, t, j)
               PROVE  m < n
  BY <1>2 DEF OrderInv, Precedes
<1>9. Precedes(a(s, i), b(s, i), a(t, j), b(t, j))
  BY <1>7, <1>8 DEF Precedes
<1>10. a(s, i) \in 0..6 /\ a(t, j) \in 0..6 /\ b(s, i) \in Nat /\ b(t, j) \in Nat
  OBVIOUS
<1>11. At(a(s, i), b(s, i), m) /\ At(a(t, j), b(t, j), n)
  BY <1>7, <1>8
<1> HIDE DEF a, b
<1>12. QED
  BY <1>2, <1>8, <1>9, <1>10, <1>11 DEF OrderInv

\* PUBREC follows PUBLISH: what the broker takes first becomes the last of
\* what the client will read.
LEMMA TakePublishOrder ==
  ASSUME TypeOK, OrderInv, NEW x \in Reports, conn = 1, TakePublish(1, x),
         Alive' => \A m \in Reports : Unsent(m)' => Unsent(m)
  PROVE  OrderInv'
<1>1. /\ UNCHANGED <<delivered, out, session, conn, net>>
      /\ up[1] # <<>> /\ Head(up[1]) = Packet("PUBLISH", x) /\ up[1] \in Seq(Packets)
      /\ up'[1] = Tail(up[1]) /\ down \in Seq(Packets)
      /\ Alive => down' = Append(down, Packet("PUBREC", x))
  <2>1. 1 \in Conns
    BY SessionAssumption DEF Conns
  <2>2. Takes(1, "PUBLISH", x, "PUBREC") /\ UNCHANGED <<session, delivered, client>>
    BY DEF TakePublish
  <2>3. up[1] \in Seq(Packets) /\ up \in [Conns -> Seq(Packets)] /\ down \in Seq(Packets)
    BY <2>1 DEF TypeOK
  <2>4. Alive => Reading(1)
    BY DEF Reading, Alive, On
  <2>5. QED
    BY <2>1, <2>2, <2>3, <2>4 DEF Takes, client
<1>2. conn' = 1 /\ Alive' = Alive
  BY <1>1 DEF Alive, On
<1>3. Stages' = Stages /\ Stages \subseteq 0..6
  BY <1>2 DEF Stages
<1>4. /\ 1 \in DOMAIN up[1] /\ up[1][1] = Packet("PUBLISH", x)
      /\ \A i \in Nat : i \in DOMAIN up'[1] => i + 1 \in DOMAIN up[1] /\ up'[1][i] = up[1][i + 1]
      /\ DOMAIN up'[1] \subseteq Nat \ {0}
  BY <1>1, HeadAndTail
<1>5. CASE ~Alive
  <2> DEFINE d == [s \in 0..6 |-> IF s = 1 THEN 1 ELSE 0]
  <2>1. Stages' = 0..1
    BY <1>3, <1>5 DEF Stages
  <2>2. \A s \in 0..1, i \in Nat, m \in Reports : At(s, i, m)' => At(s, i + d[s], m)
    BY <1>1, <1>4 DEF At
  <2>3. d \in [0..6 -> Nat]
    OBVIOUS
  <2> HIDE DEF d
  <2>4. QED
    BY <1>2, <2>1, <2>2, <2>3, ShiftedOrder
<1>6. CASE Alive
  <2>1. PICK l \in Nat : l = Len(down)
    BY <1>1
  <2>2. /\ \A i \in DOMAIN down' : \/ i \in DOMAIN down /\ down'[i] = down[i]
                                   \/ i = l + 1 /\ down'[i] = Packet("PUBREC", x)
        /\ \A i \in DOMAIN down : i \in Nat \ {0} /\ i <= l
    <3>1. Packet("PUBREC", x) \in Packets
      BY PacketType DEF Types
    <3>2. QED
      BY <1>1, <1>6, <2>1, <3>1, AppendedLast
  <2>3. \A m : Packet("PUBREC", x) = Packet("PUBREC", m) => m = x
    BY SamePacket
  <2> DEFINE a(s, i) == IF s = 3 /\ i = l + 1 THEN 4 ELSE s
             b(s, i) == IF s = 3 /\ i = l + 1 THEN 1 ELSE IF s \in {1, 4} THEN i + 1 ELSE i
  <2>4. ASSUME NEW s \in 0..6, NEW i \in Nat, NEW m \in Reports, At(s, i, m)'
        PROVE  /\ At(a(s, i), b(s, i), m)
               /\ s = 3 => i <= l + 1
               /\ s \in {1, 4} => i # 0
    <3>1. CASE s = 3
      BY <1>4, <2>2, <2>3, <2>4, <3>1 DEF At
    <3>2. CASE s \in {1, 4}
      BY <1>4, <2>4, <3>2 DEF At
    <3>3. CASE s \in {0, 2, 5, 6}
      BY <1>1, <1>2, <1>6, <2>4, <3>3 DEF At
    <3>4. QED
      BY <3>1, <3>2, <3>3
  <2>5. SUFFICES ASSUME NEW s \in 0..6, NEW t \in 0..6, NEW i \in Nat, NEW j \in Nat,
                        NEW m \in Reports, NEW n \in Reports,
                        At(s, i, m)', At(t, j, n)', Precedes(s, i, t, j)
                 PROVE  m < n
    BY <1>2, <1>3, <1>6 DEF OrderInv, Precedes, Stages
  <2>6. Precedes(a(s, i), b(s, i), a(t, j), b(t, j))
    BY <2>4, <2>5 DEF Precedes
  <2>7. /\ a(s, i) \in Stages /\ a(t, j) \in Stages /\ b(s, i) \in Nat /\ b(t, j) \in Nat
    BY <1>6 DEF Stages
  <2>8. At(a(s, i), b(s, i), m) /\ At(a(t, j), b(t, j), n)
    BY <2>4, <2>5
  <2> HIDE DEF a, b
  <2>9. QED
    BY <2>6, <2>7, <2>8 DEF OrderInv
<1>7. QED
  BY <1>5, <1>6

\* PUBREL delivers: what the broker takes first becomes the last delivered.
LEMMA TakePubrelOrder ==
  ASSUME TypeOK, OrderInv, NEW x \in Reports, conn = 1, TakePubrel(1, x),
         Alive' => \A m \in Reports : Unsent(m)' => Unsent(m)
  PROVE  OrderInv'
<1>1. /\ UNCHANGED <<out, session, conn, net>>
      /\ up[1] # <<>> /\ Head(up[1]) = Packet("PUBREL", x) /\ up[1] \in Seq(Packets)
      /\ up'[1] = Tail(up[1]) /\ down \in Seq(Packets) /\ delivered \in Seq(Reports)
      /\ down' = down \/ down' = Append(down, Packet("PUBCOMP", x))
      /\ delivered' = delivered \/ delivered' = Append(delivered, x)
  <2>1. 1 \in Conns
    BY SessionAssumption DEF Conns
  <2>2. Takes(1, "PUBREL", x, "PUBCOMP") /\ UNCHANGED <<session, client>>
        /\ (delivered' = delivered \/ delivered' = Append(delivered, x))
    BY DEF TakePubrel
  <2>3. up[1] \in Seq(Packets) /\ up \in [Conns -> Seq(Packets)] /\ down \in Seq(Packets)
        /\ delivered \in Seq(Reports)
    BY <2>1 DEF TypeOK
  <2>4. QED
    BY <2>1, <2>2, <2>3 DEF Takes, client
<1>2. conn' = 1 /\ Alive' = Alive
  BY <1>1 DEF Alive, On
<1>3. /\ Stages' = Stages /\ Stages \subseteq 0..6 /\ {0, 1} \subseteq Stages
      /\ 6 \in Stages => Alive
  BY <1>2 DEF Stages
<1>4. /\ 1 \in DOMAIN up[1] /\ up[1][1] = Packet("PUBREL", x)
      /\ \A i \in Nat : i \in DOMAIN up'[1] => i + 1 \in DOMAIN up[1] /\ up'[1][i] = up[1][i + 1]
      /\ DOMAIN up'[1] \subseteq Nat \ {0}
  <2>1. PICK u, v : u = up[1] /\ v = up'[1]
    OBVIOUS
  <2>2. u \in Seq(Packets) /\ u # <<>> /\ v = Tail(u) /\ Head(u) = Packet("PUBREL", x)
    BY <1>1, <2>1, Zenon
  <2>3. /\ 1 \in DOMAIN u /\ Head(u) = u[1]
        /\ \A i \in Nat : i \in DOMAIN Tail(u) => i + 1 \in DOMAIN u /\ Tail(u)[i] = u[i + 1]
        /\ DOMAIN Tail(u) \subseteq Nat \ {0}
    BY <2>2, HeadAndTail
  <2>4. QED
    BY <2>1, <2>2, <2>3, Zenon
<1>5. PICK l \in Nat : l = Len(delivered)
  BY <1>1
<1>6. /\ \A i \in DOMAIN delivered' : \/ i \in DOMAIN delivered /\ delivered'[i] = delivered[i]
                                      \/ i = l + 1 /\ delivered'[i] = x
      /\ \A i \in DOMAIN delivered : i \in Nat \ {0} /\ i <= l
  BY <1>1, <1>5, AppendedLast
<1>7. \A i \in DOMAIN down' : \/ i \in DOMAIN down /\ down'[i] = down[i]
                              \/ \A m : down'[i] # Packet("PUBREC", m)
  <2>1. Packet("PUBCOMP", x) \in Packets /\ \A m : Packet("PUBCOMP", x) # Packet("PUBREC", m)
    BY PacketType, SamePacket DEF Types
  <2>2. CASE down' = down
    BY <2>2
  <2>3. CASE down' = Append(down, Packet("PUBCOMP", x))
    <3>1. PICK y \in Packets : y = Packet("PUBCOMP", x)
      BY <2>1
    <3>2. \A i \in DOMAIN Append(down, y) :
            \/ i \in DOMAIN down /\ Append(down, y)[i] = down[i]
            \/ Append(down, y)[i] = y
      BY <1>1, AppendedLast
    <3>3. QED
      BY <2>1, <2>3, <3>1, <3>2
  <2>4. QED
    BY <1>1, <2>2, <2>3
<1> DEFINE a(s, i) == IF s = 0 /\ i = l + 1 THEN 1 ELSE s
           b(s, i) == IF s = 0 /\ i = l + 1 THEN 1 ELSE IF s \in {1, 4} THEN i + 1 ELSE i
<1>8. ASSUME NEW s \in Stages, NEW i \in Nat, NEW m \in Reports, At(s, i, m)'
      PROVE  /\ At(a(s, i), b(s, i), m)
             /\ s = 0 => i <= l + 1
             /\ s \in {1, 4} => i # 0
  <2>1. CASE s = 0
    BY <1>4, <1>6, <1>8, <2>1 DEF At
  <2>2. CASE s \in {1, 4}
    BY <1>4, <1>8, <2>2 DEF At
  <2>3. CASE s = 3
    BY <1>7, <1>8, <2>3 DEF At
  <2>4. CASE s \in {2, 5, 6}
    BY <1>1, <1>2, <1>3, <1>8, <2>4 DEF At
  <2>5. QED
    BY <1>3, <2>1, <2>2, <2>3, <2>4
<1>9. SUFFICES ASSUME NEW s \in Stages, NEW t \in Stages, NEW i \in Nat, NEW j \in Nat,
                      NEW m \in Reports, NEW n \in Reports,
                      At(s, i, m)', At(t, j, n)', Precedes(s, i, t, j)
               PROVE  m < n
  BY <1>2, <1>3 DEF OrderInv, Precedes
<1>10. s \in 0..6 /\ t \in 0..6
  BY <1>3
<1>11. Precedes(a(s, i), b(s, i), a(t, j), b(t, j))
  BY <1>8, <1>9, <1>10 DEF Precedes
<1>12. a(s, i) \in Stages /\ a(t, j) \in Stages /\ b(s, i) \in Nat /\ b(t, j) \in Nat
  BY <1>3
<1>13. At(a(s, i), b(s, i), m) /\ At(a(t, j), b(t, j), n)
  BY <1>8, <1>9, <1>10
<1> HIDE DEF a, b
<1>14. QED
  BY <1>11, <1>12, <1>13 DEF OrderInv

\* What the other contexts receive is nothing, and what a context loses is
\* not delivered.
LEMMA ReceiveOrder ==
  ASSUME TypeOK, AheadInv, OrderInv, NEW c \in Conns, Receive(c) \/ Forget(c), conn = 1,
         Alive' => Alive /\ \A m \in Reports : Unsent(m)' => Unsent(m)
  PROVE  OrderInv'
<1>1. UNCHANGED client
  BY ReceiveForms
<1>2. UNCHANGED <<out, conn, net>> /\ up \in [Conns -> Seq(Packets)]
      /\ down \in Seq(Packets) /\ 1 \in Conns
  BY <1>1, SessionAssumption DEF client, TypeOK, Conns
<1>3. conn' = 1 /\ (Alive' => Alive) /\ Stages' \subseteq 0..6 /\ (6 \in Stages' => Alive')
  BY <1>2 DEF Stages
<1>4. ASSUME NEW m \in Reports, 6 \in Stages', Unsent(m)' PROVE Unsent(m)
  BY <1>3, <1>4
<1>5. CASE Close(c)
  <2> DEFINE d == [s \in 0..6 |-> 0]
  <2>1. delivered' = delivered /\ down' = down /\ \A i : i \in DOMAIN up'[1] => up'[1] = up[1]
    <3>1. delivered' = delivered /\ down' = down /\ (c # 1 => up'[1] = up[1])
          /\ (c = 1 => up'[1] = <<>>)
      BY <1>2, <1>5, CloseEffect
    <3>2. DOMAIN <<>> = {}
      OBVIOUS
    <3>3. QED
      BY <3>1, <3>2
  <2>2. \A s \in Stages', i \in Nat, m \in Reports : At(s, i, m)' => At(s, i + d[s], m)
    BY <1>2, <1>3, <1>4, <2>1 DEF At
  <2>3. d \in [0..6 -> Nat]
    OBVIOUS
  <2> HIDE DEF d
  <2>4. QED
    BY <1>3, <2>2, <2>3, ShiftedOrder
<1>6. ASSUME TakeConnect(c) \/ \E m \in Reports : TakePublish(c, m) \/ TakePubrel(c, m)
      PROVE  c = 1
  <2>1. up[c] # <<>>
    BY <1>6 DEF TakeConnect, TakePublish, TakePubrel, Takes
  <2>2. ~(c > 1)
    BY <1>6, <2>1 DEF AheadInv
  <2>3. c \in Nat \ {0}
    BY SessionAssumption DEF Conns
  <2>4. QED
    BY <2>2, <2>3
<1>7. CASE TakeConnect(1)
  <2> DEFINE d == [s \in 0..6 |-> IF s \in {1, 4} THEN 1 ELSE 0]
  <2>1. /\ up[1] # <<>> /\ up'[1] = Tail(up[1]) /\ delivered' = delivered
        /\ down' = down \/ down' = Append(down, Packet("CONNACK", 0))
    BY <1>2, <1>7 DEF TakeConnect, Takes
  <2>2. \A i \in Nat : i \in DOMAIN up'[1] => i + 1 \in DOMAIN up[1] /\ up'[1][i] = up[1][i + 1]
    BY <1>2, <2>1, HeadAndTail
  <2>3. \A i \in DOMAIN down' : \/ i \in DOMAIN down /\ down'[i] = down[i]
                                \/ \A m : down'[i] # Packet("PUBREC", m)
    <3>1. Packet("CONNACK", 0) \in Packets /\ \A m : Packet("CONNACK", 0) # Packet("PUBREC", m)
      BY PacketType, SamePacket DEF Types
    <3>2. CASE down' = down
      BY <3>2
    <3>3. CASE down' = Append(down, Packet("CONNACK", 0))
      BY <1>2, <3>1, <3>3, AppendedLast
    <3>4. QED
      BY <2>1, <3>2, <3>3
  <2>4. ASSUME NEW s \in Stages', NEW i \in Nat, NEW m \in Reports, At(s, i, m)'
        PROVE  At(s, i + d[s], m)
    <3>1. CASE s \in {1, 4}
      BY <2>2, <2>4, <3>1 DEF At
    <3>2. CASE s = 3
      BY <2>3, <2>4, <3>2 DEF At
    <3>3. CASE s \in {0, 2, 5, 6}
      BY <1>2, <1>4, <2>1, <2>4, <3>3 DEF At
    <3>4. QED
      BY <1>3, <3>1, <3>2, <3>3
  <2>5. d \in [0..6 -> Nat]
    OBVIOUS
  <2> HIDE DEF d
  <2>6. QED
    BY <1>3, <2>4, <2>5, ShiftedOrder
<1>8. QED
  BY <1>3, <1>5, <1>6, <1>7, TakePublishOrder, TakePubrelOrder, ReceiveForms

\* The messages that are sent were the first of those that waited, and go out
\* in their order behind all others.
LEMMA ReleaseOrder ==
  ASSUME TypeOK, OrderInv, conn = 1, conn' = 1, Alive, Alive', sock,
         NEW list \in [Reports -> States], NEW q \in Nat, Release(list, q),
         UNCHANGED <<delivered, up>>, published' \in Nat, published <= published',
         \A r \in Waiting(list) : r <= published' /\ (q # 0 => Unsent(r)),
         \A m \in Reports : Unsent(m)' => Unsent(m),
         down' = down \/ (down # <<>> /\ down' = Tail(down))
  PROVE  OrderInv'
<1>1. PICK now \in SUBSET Waiting(list), e \in Seq(Reports) : Releases(list, q, now, e)
  BY ReleaseCounts
<1>2. /\ msgs' = [r \in Reports |-> IF r \in now THEN "wait_for_pubrec" ELSE list[r]]
      /\ \A r \in now, w \in Waiting(list) \ now : r < w
      /\ \A i \in DOMAIN e : e[i] \in now
      /\ \A i, j \in DOMAIN e : i < j => e[i] < e[j]
      /\ quota' + Len(e) = q /\ Len(e) = Cardinality(now)
      /\ Behind(out', out, "PUBLISH", e)
  BY <1>1, Zenon DEF Releases
<1>3. /\ out \in Seq(Packets) /\ down \in Seq(Packets) /\ "PUBLISH" \in Types
      /\ published \in Nat /\ Reports \subseteq Nat
  BY ReportsType DEF TypeOK, Types
<1>4. PICK o \in Nat : o = Len(out) /\ \A i \in DOMAIN out : i \in Nat \ {0} /\ i <= o
  BY <1>3
<1>5. \A i \in DOMAIN out' : \/ i \in DOMAIN out /\ out'[i] = out[i]
                             \/ /\ i > o /\ i - o \in DOMAIN e
                                /\ out'[i] = Packet("PUBLISH", e[i - o])
  <2>1. \A i \in DOMAIN out' : \/ i \in DOMAIN out /\ out'[i] = out[i]
                               \/ /\ i > Len(out) /\ i - Len(out) \in DOMAIN e
                                  /\ out'[i] = Packet("PUBLISH", e[i - Len(out)])
    BY <1>2, <1>3, QueuedPackets, SMT
  <2>2. QED
    BY <1>4, <2>1
<1>6. /\ \A r \in now : r \in Reports /\ Unsent(r) /\ r <= published'
      /\ \A r \in Reports : Unsent(r)' => Unsent(r) /\ \A x \in now : x < r
  <2>1. \A r \in Waiting(list) : r \in Reports /\ list[r] = "invalid"
    BY DEF Waiting
  <2>2. ASSUME NEW r \in Reports, Unsent(r)' PROVE \A x \in now : x < r
    <3>1. CASE r > published'
      <4>1. published' \in Nat /\ published <= published' /\ r \in Nat
        BY <1>3
      <4>2. \A x \in now : x \in Nat /\ x <= published'
        BY <1>3, <2>1
      <4>3. QED
        BY <3>1, <4>1, <4>2
    <3>2. CASE msgs'[r] = "invalid"
      <4>1. r \in Waiting(list) \ now
        BY <1>2, <3>2 DEF Waiting
      <4>2. QED
        BY <1>2, <4>1
    <3>3. QED
      BY <2>2, <3>1, <3>2 DEF Fresh, Unsent
  <2>3. q # 0 \/ now = {}
    <3>1. ASSUME q = 0 PROVE now = {}
      <4>1. PICK n, p \in Nat : n = Len(e) /\ p = quota'
        BY ReleaseEffect
      <4>2. n = 0
        BY <1>2, <3>1, <4>1
      <4>3. now \in SUBSET Reports
        BY DEF Waiting
      <4>4. IsFiniteSet(now) /\ Cardinality(now) = 0
        BY <1>2, <4>1, <4>2, <4>3, FiniteReports
      <4>5. QED
        BY <4>4, FS_EmptySet
    <3>2. QED
      BY <3>1
  <2>4. QED
    BY <2>1, <2>2, <2>3
<1>7. PICK k \in {0, 1} : \A i \in Nat : i \in DOMAIN down' =>
         i + k \in DOMAIN down /\ down'[i] = down[i + k]
  <2>1. CASE down' = down
    BY <2>1
  <2>2. CASE down # <<>> /\ down' = Tail(down)
    BY <1>3, <2>2, HeadAndTail
  <2>3. QED
    BY <2>1, <2>2
<1>8. Stages' = 0..6 /\ Stages = 0..6
  BY DEF Stages
<1>9. SUFFICES ASSUME NEW s \in 0..6, NEW t \in 0..6, NEW i \in Nat, NEW j \in Nat,
                      NEW m \in Reports, NEW n \in Reports,
                      At(s, i, m)', At(t, j, n)', Precedes(s, i, t, j)
               PROVE  m < n
  BY <1>8 DEF OrderInv, Precedes
<1> DEFINE New(x, y, r) == x = 5 /\ y > o /\ y - o \in DOMAIN e /\ r = e[y - o]
           shift(x) == IF x = 3 THEN k ELSE 0
<1>10. ASSUME NEW x \in 0..6, NEW y \in Nat, NEW r \in Reports, At(x, y, r)'
       PROVE  \/ At(x, y + shift(x), r) /\ (x = 5 => y <= o) /\ (x = 6 => y = 0 /\ Unsent(r)')
              \/ New(x, y, r)
  <2>1. CASE x \in {0, 1, 4}
    BY <1>10, <2>1 DEF At
  <2>2. CASE x = 2
    <3>1. \A z : Packet("PUBREL", r) # Packet("PUBLISH", z)
      BY SamePacket
    <3>2. QED
      BY <1>5, <1>10, <2>2, <3>1 DEF At
  <2>3. CASE x = 3
    BY <1>7, <1>10, <2>3 DEF At
  <2>4. CASE x = 5
    <3>1. y \in DOMAIN out' /\ out'[y] = Packet("PUBLISH", r)
      BY <1>10, <2>4 DEF At
    <3>2. CASE y \in DOMAIN out /\ out'[y] = out[y]
      BY <1>4, <2>4, <3>1, <3>2 DEF At
    <3>3. CASE y > o /\ y - o \in DOMAIN e /\ out'[y] = Packet("PUBLISH", e[y - o])
      BY <2>4, <3>1, <3>3, SamePacket
    <3>4. QED
      BY <1>5, <3>1, <3>2, <3>3
  <2>5. CASE x = 6
    <3>1. y = 0 /\ Unsent(r)'
      BY <1>10, <2>5 DEF At
    <3>2. QED
      BY <1>6, <2>5, <3>1 DEF At
  <2>6. QED
    BY <2>1, <2>2, <2>3, <2>4, <2>5
<1>11. ASSUME NEW x \in 0..6, NEW y \in Nat, NEW r \in Reports, New(x, y, r)
       PROVE  r \in now /\ At(6, 0, r)
  BY <1>2, <1>6, <1>11 DEF At
<1>12. shift(s) \in {0, 1} /\ shift(t) \in {0, 1} /\ (s = t => shift(s) = shift(t))
  OBVIOUS
<1>13. CASE New(s, i, m) /\ New(t, j, n)
  <2>1. i - o < j - o
    BY <1>4, <1>9, <1>13 DEF Precedes
  <2>2. QED
    BY <1>2, <1>13, <2>1
<1>14. CASE New(s, i, m) /\ ~New(t, j, n)
  <2>1. s = 5 /\ i > o /\ m \in now
    BY <1>11, <1>14
  <2>2. (t = 5 => j <= o) /\ (t = 6 => Unsent(n)')
    BY <1>9, <1>10, <1>14
  <2>3. t = 6
    BY <1>4, <1>9, <2>1, <2>2 DEF Precedes
  <2>4. QED
    BY <1>6, <2>1, <2>2, <2>3
<1>15. CASE ~New(s, i, m)
  <2>1. At(s, i + shift(s), m) /\ (s = 6 => i = 0)
    BY <1>9, <1>10, <1>15
  <2>2. i + shift(s) \in Nat /\ j + shift(t) \in Nat
    BY <1>12
  <2>3. CASE New(t, j, n)
    <3>1. t = 5 /\ At(6, 0, n)
      BY <1>11, <2>3
    <3>2. s \in 0..5
      BY <1>9, <3>1 DEF Precedes
    <3>3. Precedes(s, i + shift(s), 6, 0)
      BY <3>2 DEF Precedes
    <3>4. PICK z \in Nat : z = i + shift(s)
      BY <2>2
    <3> HIDE DEF shift, New
    <3>5. At(s, z, m) /\ Precedes(s, z, 6, 0)
      BY <2>1, <3>3, <3>4, Zenon
    <3>6. s \in Stages /\ 6 \in Stages /\ 0 \in Nat
      BY <1>8, <1>9
    <3>7. QED
      BY <1>9, <3>1, <3>5, <3>6, Zenon DEF OrderInv
  <2>4. CASE ~New(t, j, n)
    <3>1. At(t, j + shift(t), n)
      BY <1>9, <1>10, <2>4
    <3>2. Precedes(s, i + shift(s), t, j + shift(t))
      BY <1>9, <1>12 DEF Precedes
    <3> HIDE DEF shift, New
    <3>3. QED
      BY <1>8, <1>9, <2>1, <2>2, <3>1, <3>2 DEF OrderInv
  <2>5. QED
    BY <2>3, <2>4
<1>16. QED
  BY <1>13, <1>14, <1>15

\* What is fresh after a step was fresh, or is on its way over the first
\* connection and waits again.
LEMMA FreshComes ==
  ASSUME TypeOK, Places, StartInv, Next, conn = 1, Alive, Alive', NEW m \in Reports, Fresh(m)'
  PROVE  Fresh(m) \/ Opened(m)
<1>0. SocketInv /\ ListInv /\ FirstInv /\ msgs \in [Reports -> States] /\ conn \in Conns
  BY DEF Places, TypeOK
<1>1. CASE PublishOrFill
  BY <1>0, <1>1, PublishSends DEF Sending
<1>2. ASSUME NEW x \in Reports, Pubcomp(x) PROVE Fresh(m)
  <2> DEFINE list == [msgs EXCEPT ![x] = "none"]
             q == IF quota < Inflight THEN quota + 1 ELSE quota
  <2>1. list \in [Reports -> States] /\ q \in Nat /\ Release(list, q) /\ published' = published
    BY <1>0, <1>2, SessionAssumption DEF Pubcomp, States, TypeOK
  <2>2. list[m] = "invalid" => msgs[m] = "invalid"
    BY <1>0
  <2> HIDE DEF list, q
  <2>3. msgs'[m] = "invalid" => list[m] = "invalid"
    BY <2>1, ReleaseEffect
  <2>4. QED
    BY <2>1, <2>2, <2>3 DEF Fresh
<1>3. CASE Connack
  <2>1. /\ published' = published /\ ~active
        /\ msgs'[m] = "invalid" => msgs[m] # "none"
    BY <1>0, <1>3 DEF Connack, Reset, ResetState, FirstInv
  <2>2. /\ msgs[m] \in {"none", "invalid", "wait_for_pubrec"}
        /\ msgs[m] = "wait_for_pubrec" => Opened(m)
    BY <2>1 DEF StartInv
  <2>3. QED
    BY <2>1, <2>2 DEF Fresh
<1>4. ASSUME NEW x \in Reports, Pubrec(x) PROVE Fresh(m)
  BY <1>0, <1>4 DEF Pubrec, Fresh
<1>5. ASSUME NEW c \in Conns, Receive(c) \/ Forget(c) PROVE Fresh(m)
  BY <1>5, ReceiveForms DEF client, Fresh
<1>6. CASE Write \/ RetryAll
  BY <1>6 DEF Write, RetryAll, Fresh
<1>7. CASE LoseConnection \/ Reconnect \/ OpenSocket \/ ConnectFails \/ SendConnect
  BY <1>7 DEF LoseConnection, Reconnect, OpenSocket, ConnectFails, SendConnect, Alive, On
<1>8. QED
  BY <1>1, <1>2, <1>3, <1>4, <1>5, <1>6, <1>7 DEF Next, Network, PublishOrFill

\* What has been published and waits has not been sent, as long as the quota
\* allows a message.
LEMMA WaitingUnsent ==
  ASSUME TypeOK, OpenedInv, conn = 1, Alive, NEW r \in Reports, Fresh(r),
         Opened(r) => quota # 0 \/ Shaking
  PROVE  Unsent(r)
<1>1. SUFFICES ASSUME NEW i \in Nat, FirstAt(i, r) PROVE FALSE
  BY DEF Unsent, Opened
<1>2. Opened(r) /\ r <= published
  BY <1>1 DEF Opened, OpenedInv
<1>3. msgs[r] = "invalid"
  <2>1. r \in Nat /\ published \in Nat
    BY ReportsType DEF TypeOK
  <2>2. QED
    BY <1>2, <2>1 DEF Fresh
<1>4. QED
  BY <1>1, <1>2, <1>3 DEF OpenedInv

\* A report is published while the first connection is used.
LEMMA HandsOrder ==
  ASSUME TypeOK, Places, OpenedInv, OrderInv, conn = 1, conn' = 1, Alive, Alive',
         NEW q \in Nat, Hands(q), Shaking \/ q = quota,
         \A m \in Reports : Unsent(m)' => Unsent(m)
  PROVE  OrderInv'
<1> DEFINE list == [msgs EXCEPT ![published + 1] = "invalid"]
<1>1. /\ Release(list, q) /\ published' = published + 1 /\ UNCHANGED <<delivered, up, down>>
      /\ published \in Nat /\ published < MaxReports /\ list \in [Reports -> States]
  <2>1. list \in [Reports -> States]
    BY HandsType
  <2>2. published \in Nat
    BY DEF TypeOK
  <2>3. QED
    BY <2>1, <2>2 DEF Hands, broker
<1>2. Reports \subseteq Nat /\ sock /\ ListInv
  BY ReportsType DEF Places, SocketInv, Alive, On
<1>3. ASSUME NEW r \in Waiting(list) PROVE r \in Reports /\ r <= published' /\ Fresh(r)
  <2>1. r \in Reports /\ r \in Nat /\ list[r] = "invalid"
    BY <1>2 DEF Waiting
  <2>2. CASE r = published + 1
    BY <1>1, <2>1, <2>2 DEF Fresh
  <2>3. CASE r # published + 1
    <3>1. msgs[r] = "invalid"
      BY <2>1, <2>3 DEF TypeOK
    <3>2. ~(r > published)
      BY <1>2, <2>1, <3>1 DEF ListInv
    <3>3. QED
      BY <1>1, <2>1, <3>1, <3>2 DEF Fresh
  <2>4. QED
    BY <2>2, <2>3
<1> HIDE DEF list
<1>4. \A r \in Waiting(list) : r <= published' /\ (q # 0 => Unsent(r))
  BY <1>3, WaitingUnsent
<1>5. published' \in Nat /\ published <= published'
  BY <1>1
<1>6. QED
  BY <1>1, <1>2, <1>4, <1>5, ReleaseOrder

\* PUBCOMP is read, so that nothing on its way waits.
LEMMA PubcompOrder ==
  ASSUME TypeOK, Places, OpenedInv, OrderInv, conn = 1, conn' = 1, Alive, Alive',
         NEW x \in Reports, Pubcomp(x), \A m \in Reports : Unsent(m)' => Unsent(m)
  PROVE  OrderInv'
<1> DEFINE list == [msgs EXCEPT ![x] = "none"]
           q == IF quota < Inflight THEN quota + 1 ELSE quota
<1>1. /\ Release(list, q) /\ UNCHANGED <<published, delivered, up>>
      /\ down # <<>> /\ down' = Tail(down) /\ Head(down) = Packet("PUBCOMP", x)
  BY DEF Pubcomp, Reads, Arrived, broker
<1>2. /\ sock /\ q \in Nat /\ list \in [Reports -> States] /\ Reports \subseteq Nat
      /\ published \in Nat /\ ListInv /\ out \in Seq(Packets)
      /\ \A r \in Reports : list[r] = "invalid" => msgs[r] = "invalid"
  BY SessionAssumption, ReportsType DEF TypeOK, Places, SocketInv, Alive, On, States
<1> HIDE DEF list, q
<1>3. (\A i \in Nat : \A m : FirstAt(i, m) => i > 1) /\ AckAt(1)
  <2>1. PICK now \in SUBSET Waiting(list), v \in Seq(Packets) : out' = out \o v
    BY <1>1, <1>2, ReleaseSends
  <2>2. 1 \in DOMAIN Way /\ Way[1] = Packet("PUBCOMP", x)
    BY <1>1, <2>1, ClientWay
  <2>3. QED
    BY <2>2, FirstPacket
<1>4. ASSUME NEW r \in Waiting(list) PROVE r \in Reports /\ r <= published' /\ Unsent(r)
  <2>1. r \in Reports /\ r \in Nat /\ msgs[r] = "invalid"
    BY <1>2 DEF Waiting
  <2>2. ~(r > published)
    BY <1>2, <2>1 DEF ListInv
  <2>3. ~Opened(r)
    <3>1. SUFFICES ASSUME NEW i \in Nat, FirstAt(i, r) PROVE FALSE
      BY DEF Opened
    <3>2. i < 1 /\ i > 1
      BY <1>3, <2>1, <3>1 DEF OpenedInv
    <3>3. QED
      BY <3>2
  <2>4. QED
    BY <1>1, <1>2, <2>1, <2>2, <2>3 DEF Unsent, Fresh
<1>5. published' \in Nat /\ published <= published'
  BY <1>1, <1>2
<1>6. QED
  BY <1>1, <1>2, <1>4, <1>5, ReleaseOrder

LEMMA OrderStep ==
  TypeOK /\ Places /\ OpenedInv /\ StartInv /\ OrderInv /\ [Next]_vars
    => OpenedInv' /\ StartInv' /\ OrderInv'
<1> SUFFICES ASSUME TypeOK, Places, OpenedInv, StartInv, OrderInv, [Next]_vars, conn' = 1
             PROVE  OpenedInv' /\ StartInv' /\ OrderInv'
  BY DEF OpenedInv, StartInv, OrderInv
<1>0. SocketInv /\ ListInv /\ AheadInv /\ FirstInv /\ 1 \in Conns
      /\ down \in Seq(Packets) /\ out \in Seq(Packets)
  BY WayType DEF Places
<1> DEFINE none == [s \in 0..6 |-> 0]
\* Nothing comes to the first connection, and the client may leave it.
<1>1. ASSUME conn = 1, Alive' => Alive, delivered' = delivered, up' = up,
             Alive' => out' = out /\ down' = down /\ \A m \in Reports : Unsent(m)' => Unsent(m)
      PROVE  OrderInv'
  <2>1. \A s \in Stages' : s \in 0..6 /\ (Alive' \/ s \in {0, 1})
    BY DEF Stages
  <2>2. \A s \in Stages', i \in Nat, m \in Reports : At(s, i, m)' => At(s, i + none[s], m)
    <3>1. ASSUME NEW s \in Stages', NEW i \in Nat, NEW m \in Reports, At(s, i, m)'
          PROVE  At(s, i, m)
      BY <1>1, <2>1, <3>1 DEF At
    <3>2. \A s \in Stages', i \in Nat : i + none[s] = i
      BY <2>1
    <3>3. QED
      BY <3>1, <3>2
  <2>3. none \in [0..6 -> Nat]
    OBVIOUS
  <2> HIDE DEF none
  <2>4. QED
    BY <1>1, <2>2, <2>3, ShiftedOrder
<1> HIDE DEF none
<1>2. CASE UNCHANGED vars
  <2>1. UNCHANGED <<published, msgs, quota, out, net, active, conn, session, up, down, delivered>>
    BY <1>2 DEF vars, client, broker
  <2>2. Way' = Way /\ Alive' = Alive /\ Shaking' = Shaking
    BY <2>1 DEF Way, Alive, On, Shaking
  <2>3. /\ \A i, m : FirstAt(i, m)' = FirstAt(i, m)
        /\ \A i : AckAt(i)' = AckAt(i)
        /\ \A m : Opened(m)' = Opened(m)
    BY <2>2 DEF FirstAt, AckAt, Opened
  <2>4. OpenedInv'
    BY <2>1, <2>2, <2>3 DEF OpenedInv
  <2>5. StartInv'
    BY <2>1, <2>2, <2>3 DEF StartInv
  <2>6. \A m : Unsent(m)' = Unsent(m)
    BY <2>1, <2>3 DEF Unsent, Fresh
  <2>7. OrderInv'
    BY <1>1, <2>1, <2>2, <2>6
  <2>8. QED
    BY <2>4, <2>5, <2>7
<1>3. CASE Next
  <2>1. conn = 1 /\ (Alive' => Alive) /\ (Alive' => OpenedInv' /\ StartInv' /\ StillOpen)
        /\ ~SendConnect
    <3>1. conn = 1 /\ ~SendConnect /\ (Alive' => OpenedInv' /\ StartInv' /\ StillOpen /\ Alive)
      BY <1>3, FirstStays, OpenedStep
    <3>2. QED
      BY <3>1
  <2>2. ASSUME Alive' PROVE \A m \in Reports : Unsent(m)' => Unsent(m)
    <3>1. TAKE m \in Reports
    <3>2. Fresh(m)' => Fresh(m) \/ Opened(m)
      BY <1>3, <2>1, <2>2, FreshComes
    <3>3. QED
      BY <2>1, <2>2, <3>2, UnsentStays
  <2>3. OpenedInv' /\ StartInv'
    BY <2>1 DEF OpenedInv, StartInv
  <2> SUFFICES OrderInv'
    BY <2>3
  <2>4. CASE LoseConnection \/ Reconnect \/ OpenSocket \/ ConnectFails
    <3>1. ~Alive' /\ delivered' = delivered /\ up' = up
      BY <2>4 DEF LoseConnection, Reconnect, OpenSocket, ConnectFails, Alive, On, broker
    <3>2. QED
      BY <1>1, <2>1, <3>1
  <2>5. ASSUME NEW q \in Nat, Hands(q), Shaking \/ q = quota PROVE OrderInv'
    <3>1. UNCHANGED <<delivered, up>>
      BY <2>5 DEF Hands, broker
    <3>2. CASE Alive'
      BY <2>1, <2>2, <2>5, <3>2, HandsOrder
    <3>3. CASE ~Alive'
      BY <1>1, <2>1, <3>1, <3>3
    <3>4. QED
      BY <3>2, <3>3
  <2>6. CASE Publish
    BY <2>5, <2>6, PublishHands
  <2>7. CASE FillQuota
    <3>1. UNCHANGED <<delivered, up, out, down>>
      BY <2>7 DEF FillQuota, broker
    <3>2. QED
      BY <1>1, <2>1, <2>2, <3>1
  <2>8. ASSUME NEW j \in 1..quota, FillDuringPublish(j) PROVE OrderInv'
    <3>1. Hands(j + Inflight) /\ j + Inflight \in Nat
      BY <2>8, PublishHands
    <3>2. Shaking
      BY <1>0, <2>8, ConnackShakes DEF FillDuringPublish
    <3>3. QED
      BY <2>5, <3>1, <3>2
  <2>9. CASE Connack
    <3>1. /\ UNCHANGED <<delivered, up, out, conn>> /\ down # <<>> /\ down' = Tail(down)
      BY <2>9 DEF Connack, Arrived, broker
    <3>2. \A i \in Nat : i \in DOMAIN down' => i + 1 \in DOMAIN down /\ down'[i] = down[i + 1]
      BY <1>0, <3>1, HeadAndTail
    <3> DEFINE d == [s \in 0..6 |-> IF s = 3 THEN 1 ELSE 0]
    <3>3. \A s \in Stages' : s \in 0..6 /\ (Alive' \/ s \in {0, 1})
      BY DEF Stages
    <3>4. ASSUME NEW s \in Stages', NEW i \in Nat, NEW m \in Reports, At(s, i, m)'
          PROVE  At(s, i + d[s], m)
      <4>1. CASE s = 3
        BY <3>2, <3>4, <4>1 DEF At
      <4>2. CASE s = 6
        BY <2>2, <3>3, <3>4, <4>2 DEF At
      <4>3. CASE s \in {0, 1, 2, 4, 5}
        BY <3>1, <3>4, <4>3 DEF At
      <4>4. QED
        BY <3>3, <4>1, <4>2, <4>3
    <3>5. d \in [0..6 -> Nat]
      OBVIOUS
    <3> HIDE DEF d
    <3>6. QED
      BY <2>1, <3>4, <3>5, ShiftedOrder
  <2>10. CASE RetryAll
    <3>1. UNCHANGED <<delivered, up, down>>
      BY <2>10 DEF RetryAll, broker
    <3>2. Alive' => out' = out
      BY <1>0, <2>1, <2>10, RetryKeeps
    <3>3. QED
      BY <1>1, <2>1, <2>2, <3>1, <3>2
  <2>11. CASE Write
    <3>1. UNCHANGED <<delivered, session, net>>
      BY <2>11 DEF Write, broker
    <3>2. CASE Alive
      <4>1. Alive'
        BY <3>1, <3>2 DEF Alive, On
      <4>2. QED
        BY <2>1, <2>2, <2>11, <3>2, <4>1, WriteOrder
    <3>3. CASE ~Alive
      <4>1. up' = up
        BY <2>1, <2>11, <3>3 DEF Write, Alive, On
      <4>2. QED
        BY <1>1, <2>1, <3>1, <3>3, <4>1
    <3>4. QED
      BY <3>2, <3>3
  <2>12. ASSUME NEW m \in Reports, Pubrec(m) PROVE OrderInv'
    <3>1. UNCHANGED <<delivered, session, net, up>>
      BY <2>12 DEF Pubrec, broker
    <3>2. CASE Alive'
      BY <2>1, <2>2, <2>12, <3>2, PubrecOrder
    <3>3. CASE ~Alive'
      BY <1>1, <2>1, <3>1, <3>3
    <3>4. QED
      BY <3>2, <3>3
  <2>13. ASSUME NEW m \in Reports, Pubcomp(m) PROVE OrderInv'
    <3>1. UNCHANGED <<delivered, up>>
      BY <2>13 DEF Pubcomp, broker
    <3>2. CASE Alive'
      BY <2>1, <2>2, <2>13, <3>2, PubcompOrder
    <3>3. CASE ~Alive'
      BY <1>1, <2>1, <3>1, <3>3
    <3>4. QED
      BY <3>2, <3>3
  <2>14. ASSUME NEW c \in Conns, Receive(c) \/ Forget(c) PROVE OrderInv'
    BY <1>0, <2>1, <2>2, <2>14, ReceiveOrder
  <2>15. QED
    BY <1>3, <2>1, <2>4, <2>6, <2>7, <2>8, <2>9, <2>10, <2>11, <2>12, <2>13, <2>14
       DEF Next, Network
<1>4. QED
  BY <1>2, <1>3

LEMMA InitOrder == Init => OpenedInv /\ StartInv /\ OrderInv
<1> SUFFICES ASSUME Init PROVE OpenedInv /\ StartInv /\ OrderInv
  OBVIOUS
<1>1. /\ up[1] = <<Packet("CONNECT", 0)>> /\ out = <<>> /\ down = <<>> /\ delivered = <<>>
      /\ \A r \in Reports : msgs[r] = "none"
  BY SessionAssumption DEF Init, Conns
<1>2. \A i \in DOMAIN Way : Way[i] = Packet("CONNECT", 0)
  <2>1. Way = <<Packet("CONNECT", 0)>>
    BY <1>1 DEF Way
  <2>2. QED
    BY <2>1
<1>3. (\A i, m : ~FirstAt(i, m)) /\ (\A i : ~AckAt(i))
  <2>1. Packet("CONNECT", 0).type = "CONNECT"
    BY DEF Packet
  <2>2. QED
    BY <1>2, <2>1 DEF FirstAt, AckAt
<1>4. OpenedInv /\ StartInv
  BY <1>1, <1>3 DEF OpenedInv, StartInv
<1>5. \A s, i, m : At(s, i, m) => s = 6 /\ i = 0
  <2>1. \A m : /\ Packet("CONNECT", 0) # Packet("PUBREL", m)
               /\ Packet("CONNECT", 0) # Packet("PUBLISH", m)
    BY SamePacket
  <2>2. \A i \in DOMAIN up[1] : up[1][i] = Packet("CONNECT", 0)
    BY <1>1
  <2>3. DOMAIN delivered = {} /\ DOMAIN out = {} /\ DOMAIN down = {}
    BY <1>1
  <2>4. QED
    BY <2>1, <2>2, <2>3 DEF At
<1>6. OrderInv
  BY <1>5 DEF OrderInv, Precedes
<1>7. QED
  BY <1>4, <1>6

(* Until a connection is lost, the subscribers see the states of the host  *)
(* in the order check() had them, whatever the network thread, the broker  *)
(* and the publishing thread do in between, the unlocked store of          *)
(* handle__connack() included.                                             *)
THEOREM SessionOrderedAtFirst == Spec => []OrderedAtFirst
<1>1. Init => Places /\ OpenedInv /\ StartInv /\ OrderInv
  BY InitPlaces, InitOrder DEF Places
<1>2. TypeOK /\ Places /\ OpenedInv /\ StartInv /\ OrderInv /\ [Next]_vars
        => Places' /\ OpenedInv' /\ StartInv' /\ OrderInv'
  BY PlacesStep, OrderStep
<1>3. TypeOK /\ OrderInv => OrderedAtFirst
  <2>1. SUFFICES ASSUME TypeOK, OrderInv, conn = 1,
                        NEW i \in DOMAIN delivered, NEW j \in DOMAIN delivered, i < j
                 PROVE  delivered[i] < delivered[j]
    BY DEF OrderedAtFirst
  <2>2. i \in Nat /\ j \in Nat /\ delivered[i] \in Reports /\ delivered[j] \in Reports
    <3>1. delivered \in Seq(Reports)
      BY <2>1 DEF TypeOK
    <3>2. QED
      BY <2>1, <3>1
  <2>3. At(0, i, delivered[i]) /\ At(0, j, delivered[j]) /\ Precedes(0, i, 0, j)
        /\ 0 \in Stages
    BY <2>1 DEF At, Precedes, Stages
  <2>4. QED
    BY <2>1, <2>2, <2>3 DEF OrderInv
<1>4. Spec => []TypeOK
  BY SessionTypeOK
<1>5. QED
  BY <1>1, <1>2, <1>3, <1>4, PTL DEF Spec

=============================================================================
