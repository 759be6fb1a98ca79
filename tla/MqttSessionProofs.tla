------------------------- MODULE MqttSessionProofs -------------------------
(***************************************************************************)
(* Theorems about MqttSession for every number of reports, faults and      *)
(* connections, and every limit of messages in flight.                     *)
(***************************************************************************)
EXTENDS MqttSession, FiniteSetTheorems, SequenceTheorems, TLAPS

LEMMA ReportsType == Reports \subseteq Nat /\ Reports \subseteq Int /\ IsFiniteSet(Reports)
<1>1. IsFiniteSet(Reports)
  BY FS_Interval, SessionAssumption DEF Reports
<1>2. QED
  BY <1>1, SessionAssumption DEF Reports

-----------------------------------------------------------------------------
(* Sequences of packets *)

Mids(s) == {p.mid : p \in Range(s)}

\* No two packets of s are about the same message.
Single(s) == \A i, j \in DOMAIN s : s[i].mid = s[j].mid => i = j

LEMMA PacketType ==
  ASSUME NEW t \in Types, NEW m \in Reports \cup {0}
  PROVE  /\ Packet(t, m) \in Packets
         /\ Packet(t, m).type = t /\ Packet(t, m).mid = m
BY DEF Packet, Packets

LEMMA AppendPacket ==
  ASSUME NEW s \in Seq(Packets), NEW p \in Packets
  PROVE  /\ Append(s, p) \in Seq(Packets)
         /\ Range(Append(s, p)) = Range(s) \cup {p}
         /\ Mids(Append(s, p)) = Mids(s) \cup {p.mid}
         /\ Single(s) /\ p.mid \notin Mids(s) => Single(Append(s, p))
<1>1. Append(s, p) \in Seq(Packets)
  OBVIOUS
<1>2. Range(Append(s, p)) = Range(s) \cup {p}
  <2>1. /\ DOMAIN s = 1..Len(s) /\ DOMAIN Append(s, p) = 1..(Len(s) + 1)
        /\ Len(s) \in Nat
    OBVIOUS
  <2>2. /\ \A i \in DOMAIN s : i \in DOMAIN Append(s, p) /\ Append(s, p)[i] = s[i]
        /\ \A i \in DOMAIN Append(s, p) : i \in DOMAIN s \/ i = Len(s) + 1
        /\ Len(s) + 1 \in DOMAIN Append(s, p) /\ Append(s, p)[Len(s) + 1] = p
    BY <2>1
  <2>3. QED
    BY <2>2 DEF Range
<1>3. Mids(Append(s, p)) = Mids(s) \cup {p.mid}
  BY <1>2 DEF Mids
<1>4. ASSUME Single(s), p.mid \notin Mids(s) PROVE Single(Append(s, p))
  <2>1. \A i \in DOMAIN s : s[i].mid # p.mid
    BY <1>4 DEF Mids, Range
  <2>2. QED
    BY <1>4, <2>1 DEF Single
<1>5. QED
  BY <1>1, <1>2, <1>3, <1>4

LEMMA TailPacket ==
  ASSUME NEW s \in Seq(Packets), s # <<>>
  PROVE  /\ Tail(s) \in Seq(Packets)
         /\ Head(s) \in Packets /\ Head(s) \in Range(s)
         /\ Range(Tail(s)) \subseteq Range(s)
         /\ Head(s).mid \in Mids(s)
         /\ Mids(Tail(s)) \subseteq Mids(s)
         /\ Single(s) => Single(Tail(s)) /\ Head(s).mid \notin Mids(Tail(s))
<1>1. Tail(s) \in Seq(Packets) /\ Head(s) = s[1] /\ 1 \in DOMAIN s
  OBVIOUS
<1>2. Head(s) \in Packets /\ Head(s) \in Range(s)
  BY <1>1 DEF Range
<1>3. \A i \in DOMAIN Tail(s) : i + 1 \in DOMAIN s /\ Tail(s)[i] = s[i + 1] /\ i + 1 # 1
  OBVIOUS
<1>4. Range(Tail(s)) \subseteq Range(s)
  BY <1>3 DEF Range
<1>5. Head(s).mid \in Mids(s) /\ Mids(Tail(s)) \subseteq Mids(s)
  BY <1>2, <1>4 DEF Mids
<1>6. ASSUME Single(s) PROVE Single(Tail(s)) /\ Head(s).mid \notin Mids(Tail(s))
  <2>1. Single(Tail(s))
    <3>1. SUFFICES ASSUME NEW i \in DOMAIN Tail(s), NEW j \in DOMAIN Tail(s),
                          Tail(s)[i].mid = Tail(s)[j].mid
                   PROVE  i = j
      BY DEF Single
    <3>2. i \in Nat /\ j \in Nat
      OBVIOUS
    <3>3. i + 1 = j + 1
      BY <1>3, <1>6, <3>1 DEF Single
    <3>4. QED
      BY <3>2, <3>3
  <2>2. \A i \in DOMAIN Tail(s) : Tail(s)[i].mid # Head(s).mid
    BY <1>1, <1>3, <1>6 DEF Single
  <2>3. QED
    BY <2>1, <2>2 DEF Mids, Range
<1>7. QED
  BY <1>1, <1>2, <1>4, <1>5, <1>6

LEMMA ConcatPackets ==
  ASSUME NEW s \in Seq(Packets), NEW u \in Seq(Packets)
  PROVE  /\ s \o u \in Seq(Packets)
         /\ Range(s \o u) = Range(s) \cup Range(u)
         /\ Mids(s \o u) = Mids(s) \cup Mids(u)
         /\ Single(s) /\ Single(u) /\ Mids(s) \cap Mids(u) = {} => Single(s \o u)
<1>1. s \o u \in Seq(Packets) /\ Range(s \o u) = Range(s) \cup Range(u)
  BY RangeConcatenation
<1>2. Mids(s \o u) = Mids(s) \cup Mids(u)
  BY <1>1 DEF Mids
<1>3. ASSUME Single(s), Single(u), Mids(s) \cap Mids(u) = {},
             NEW i \in DOMAIN (s \o u), NEW j \in DOMAIN (s \o u),
             (s \o u)[i].mid = (s \o u)[j].mid
      PROVE  i = j
  <2>1. /\ DOMAIN s = 1..Len(s) /\ DOMAIN u = 1..Len(u)
        /\ Len(s) \in Nat /\ Len(u) \in Nat
        /\ DOMAIN (s \o u) = 1..(Len(s) + Len(u))
        /\ \A k \in 1..(Len(s) + Len(u)) :
             (s \o u)[k] = IF k <= Len(s) THEN s[k] ELSE u[k - Len(s)]
    BY ConcatProperties
  <2>2. \A k \in DOMAIN (s \o u) :
          \/ k \in DOMAIN s /\ (s \o u)[k] = s[k]
          \/ k - Len(s) \in DOMAIN u /\ (s \o u)[k] = u[k - Len(s)]
    BY <2>1
  <2>3. \A k \in DOMAIN s, l \in DOMAIN u : s[k].mid # u[l].mid
    BY <1>3 DEF Mids, Range
  <2>4. CASE i \in DOMAIN s /\ (s \o u)[i] = s[i]
    BY <2>2, <2>3, <2>4, <1>3 DEF Single
  <2>5. CASE i - Len(s) \in DOMAIN u /\ (s \o u)[i] = u[i - Len(s)]
    <3>1. j - Len(s) \in DOMAIN u /\ (s \o u)[j] = u[j - Len(s)]
      BY <2>2, <2>3, <2>5, <1>3
    <3>2. i - Len(s) = j - Len(s)
      BY <3>1, <2>5, <1>3 DEF Single
    <3>3. i \in Int /\ j \in Int /\ Len(s) \in Int
      BY <2>1
    <3>4. QED
      BY <3>2, <3>3
  <2>6. QED
    BY <2>2, <2>4, <2>5
<1>4. QED
  BY <1>1, <1>2, <1>3 DEF Single

\* u consists of the packets of the elements of e.
Carries(u, e, pkt) == u = [i \in DOMAIN e |-> pkt[e[i]]]

LEMMA EnumeratedPackets ==
  ASSUME NEW S \in SUBSET Reports, NEW e \in Enumerations(S),
         NEW pkt \in [S -> Packets], \A r \in S : pkt[r].mid = r,
         NEW u, Carries(u, e, pkt)
  PROVE  /\ u \in Seq(Packets)
         /\ Range(u) \subseteq {pkt[r] : r \in S}
         /\ Mids(u) \subseteq S
         /\ Single(u)
<1>1. IsFiniteSet(S) /\ Cardinality(S) \in Nat
  BY ReportsType, FS_Subset, FS_CardinalityType
<1>2. /\ e \in [1..Cardinality(S) -> S]
      /\ \A i, j \in DOMAIN e : i < j => e[i] < e[j]
  BY DEF Enumerations
<1>3. /\ u \in Seq(Packets) /\ DOMAIN u = 1..Cardinality(S)
      /\ \A i \in DOMAIN u : e[i] \in S /\ u[i] = pkt[e[i]]
  BY <1>1, <1>2 DEF Carries
<1>4. Range(u) \subseteq {pkt[r] : r \in S}
  BY <1>3 DEF Range
<1>5. Mids(u) \subseteq S
  BY <1>4 DEF Mids
<1>6. ASSUME NEW i \in DOMAIN u, NEW j \in DOMAIN u, u[i].mid = u[j].mid
      PROVE  i = j
  <2>1. i \in Int /\ j \in Int
    BY <1>1, <1>3
  <2>2. e[i] = e[j] /\ e[i] \in Int /\ e[j] \in Int
    BY <1>3, <1>6, ReportsType
  <2>3. i \in DOMAIN e /\ j \in DOMAIN e
    BY <1>2, <1>3
  <2>4. QED
    BY <1>2, <2>1, <2>2, <2>3
<1>7. QED
  BY <1>3, <1>4, <1>5, <1>6 DEF Single

-----------------------------------------------------------------------------
(* The first elements of a set *)

LEMMA FirstOfBound ==
  ASSUME NEW S \in SUBSET Reports, NEW n \in Nat
  PROVE  /\ FirstOf(S, n) \subseteq S
         /\ IsFiniteSet(FirstOf(S, n))
         /\ Cardinality(FirstOf(S, n)) \in 0..n
<1> DEFINE before(r) == {q \in S : q < r}
           f == [r \in FirstOf(S, n) |-> Cardinality(before(r))]
<1>1. /\ IsFiniteSet(S)
      /\ \A T \in SUBSET S : IsFiniteSet(T) /\ Cardinality(T) \in Nat
  <2>1. \A T \in SUBSET Reports : IsFiniteSet(T) /\ Cardinality(T) \in Nat
    BY ReportsType, FS_Subset, FS_CardinalityType
  <2>2. QED
    BY <2>1
<1>2. FirstOf(S, n) \subseteq S
  BY DEF FirstOf
<1>3. \A r \in FirstOf(S, n) : f[r] \in 0..(n - 1)
  <2>1. TAKE r \in FirstOf(S, n)
  <2>2. Cardinality(before(r)) \in Nat /\ Cardinality(before(r)) < n
    BY <1>1 DEF FirstOf
  <2>3. QED
    BY <2>2
<1>4. \A r, q \in FirstOf(S, n) : q < r => f[q] < f[r]
  <2>1. SUFFICES ASSUME NEW r \in FirstOf(S, n), NEW q \in FirstOf(S, n), q < r
                 PROVE  f[q] < f[r]
    OBVIOUS
  <2>2. r \in Int /\ q \in Int /\ q \in S /\ \A x \in S : x \in Int
    BY <1>2, ReportsType
  <2>3. before(q) \subseteq before(r) /\ q \in before(r) /\ q \notin before(q)
    <3>1. \A x \in S : x < q => x < r
      BY <2>1, <2>2
    <3>2. ~(q < q)
      BY <2>2
    <3>3. QED
      BY <2>1, <2>2, <3>1, <3>2, Zenon
  <2>4. Cardinality(before(q)) <= Cardinality(before(r))
        /\ Cardinality(before(q)) # Cardinality(before(r))
    BY <1>1, <2>3, FS_Subset
  <2>5. QED
    BY <1>1, <2>4
<1>5. f \in Injection(FirstOf(S, n), 0..(n - 1))
  <2>1. \A r \in FirstOf(S, n) : r \in Int /\ f[r] \in Int
    <3>1. \A i \in 0..(n - 1) : i \in Int
      OBVIOUS
    <3>2. QED
      BY <1>2, <1>3, <3>1, ReportsType, Zenon
  <2>2. \A r, q \in FirstOf(S, n) : f[r] = f[q] => r = q
    BY <1>4, <2>1
  <2>3. QED
    BY <1>3, <2>2 DEF Injection, IsInjective
<1>6. IsFiniteSet(0..(n - 1)) /\ Cardinality(0..(n - 1)) = n
  BY FS_Interval
<1>7. Cardinality(FirstOf(S, n)) <= n
  BY <1>5, <1>6, FS_Injection
<1>8. QED
  BY <1>1, <1>2, <1>7

-----------------------------------------------------------------------------
(* What the parts of the actions do *)

LEMMA ReleaseEffect ==
  ASSUME TypeOK, NEW list \in [Reports -> States], NEW q \in Nat,
         Release(list, q)
  PROVE  \E now \in SUBSET Waiting(list) :
           /\ msgs' = [r \in Reports |-> IF r \in now THEN "wait_for_pubrec" ELSE list[r]]
           /\ quota' \in 0..q
           /\ ~sock => out' = out
           /\ out' \in Seq(Packets)
           /\ Range(out') \subseteq Range(out) \cup {Packet("PUBLISH", r) : r \in now}
           /\ Mids(out') \subseteq Mids(out) \cup now
           /\ Single(out) /\ now \cap Mids(out) = {} => Single(out')
<1> DEFINE n == IF sock \/ q = 0 THEN q ELSE 1
           now == FirstOf(Waiting(list), n)
<1>1. n \in Nat /\ (sock => n = q) /\ q \in Nat
  BY SessionAssumption
<1>2. Waiting(list) \in SUBSET Reports
  BY DEF Waiting
<1>3. now \in SUBSET Waiting(list) /\ Cardinality(now) \in 0..n
  BY <1>1, <1>2, FirstOfBound
<1>4. /\ msgs' = [r \in Reports |-> IF r \in now THEN "wait_for_pubrec" ELSE list[r]]
      /\ quota' = IF sock THEN q - Cardinality(now) ELSE q
      /\ ~sock => out' = out
      /\ sock => \E s \in Enumerations(now) :
                   out' = out \o [i \in DOMAIN s |-> Packet("PUBLISH", s[i])]
  BY DEF Release
<1>5. quota' \in 0..q
  <2>1. CASE sock
    <3>1. quota' = q - Cardinality(now) /\ Cardinality(now) \in 0..q
      BY <1>1, <1>3, <1>4, <2>1, Zenon
    <3>2. QED
      BY <3>1
  <2>2. CASE ~sock
    BY <1>4, <2>2
  <2>3. QED
    BY <2>1, <2>2
<1>6. out \in Seq(Packets)
  BY DEF TypeOK
<1>7. /\ out' \in Seq(Packets)
      /\ Range(out') \subseteq Range(out) \cup {Packet("PUBLISH", r) : r \in now}
      /\ Mids(out') \subseteq Mids(out) \cup now
      /\ Single(out) /\ now \cap Mids(out) = {} => Single(out')
  <2>1. CASE sock
    <3> DEFINE pkt == [r \in now |-> Packet("PUBLISH", r)]
    <3>1. PICK s \in Enumerations(now) :
            out' = out \o [i \in DOMAIN s |-> Packet("PUBLISH", s[i])]
      BY <1>4, <2>1
    <3> DEFINE u == [i \in DOMAIN s |-> Packet("PUBLISH", s[i])]
    <3>2. \A i \in DOMAIN s : s[i] \in now
      BY DEF Enumerations
    <3>3. pkt \in [now -> Packets] /\ \A r \in now : pkt[r].mid = r
      BY <1>2, <1>3, PacketType DEF Types
    <3>4. Carries(u, s, pkt)
      BY <3>2 DEF Carries
    <3>5. /\ u \in Seq(Packets) /\ Range(u) \subseteq {pkt[r] : r \in now}
          /\ Mids(u) \subseteq now /\ Single(u)
      <4> HIDE DEF pkt, now, u
      <4>1. now \in SUBSET Reports
        BY <1>2, <1>3
      <4>2. \A r \in now : pkt[r].mid = r
        BY <3>3, Zenon
      <4>3. pkt \in [now -> Packets]
        BY <3>3, Zenon
      <4>4. QED
        BY <3>4, <4>1, <4>2, <4>3, EnumeratedPackets, SMT
    <3>6. {pkt[r] : r \in now} = {Packet("PUBLISH", r) : r \in now}
      OBVIOUS
    <3> HIDE DEF pkt, now, u
    <3>7. out' = out \o u
      BY <3>1 DEF u
    <3>8. QED
      BY <1>6, <3>5, <3>6, <3>7, ConcatPackets
  <2>2. CASE ~sock
    BY <1>4, <1>6, <2>2
  <2>3. QED
    BY <2>1, <2>2
<1>8. QED
  BY <1>3, <1>4, <1>5, <1>7

LEMMA ResetEffect ==
  ASSUME TypeOK, NEW quotaOnly \in BOOLEAN, Reset(quotaOnly)
  PROVE  /\ quota' \in 0..Inflight
         /\ msgs' \in [Reports -> States]
         /\ crowded' \in BOOLEAN
         /\ \A r \in Reports :
              /\ msgs'[r] = "none" <=> msgs[r] = "none"
              /\ msgs'[r] \in {"resend_pubrel", "wait_for_pubcomp"} =>
                   msgs[r] \in {"resend_pubrel", "wait_for_pubcomp"}
              /\ ~crowded' /\ msgs[r] # "none" =>
                   msgs'[r] = IF quotaOnly THEN msgs[r] ELSE ResetState(msgs[r])
         /\ ~crowded' => ~crowded
<1> DEFINE first == FirstOf(Listed(msgs), Inflight)
<1>1. /\ quota' = Inflight - Cardinality(first)
      /\ msgs' = [r \in Reports |->
                    IF msgs[r] = "none" THEN "none"
                    ELSE IF r \notin first THEN "invalid"
                    ELSE IF quotaOnly THEN msgs[r]
                    ELSE ResetState(msgs[r])]
      /\ crowded' = (crowded \/ first # Listed(msgs))
  BY DEF Reset
<1>2. Listed(msgs) \in SUBSET Reports /\ Inflight \in Nat
  BY SessionAssumption DEF Listed
<1>3. Cardinality(first) \in 0..Inflight
  BY <1>2, FirstOfBound
<1>4. quota' \in 0..Inflight
  BY <1>1, <1>2, <1>3
<1>5. crowded' \in BOOLEAN /\ (~crowded' => ~crowded /\ first = Listed(msgs))
  BY <1>1, Zenon
<1>6. \A r \in Reports : msgs[r] \in States
  BY DEF TypeOK
<1>7. \A t \in States \ {"none"} :
        /\ ResetState(t) \in States \ {"none"}
        /\ ResetState(t) \in {"resend_pubrel", "wait_for_pubcomp"} =>
             t \in {"resend_pubrel", "wait_for_pubcomp"}
  BY DEF ResetState, States
<1>8. \A r \in Reports :
        /\ msgs'[r] \in States
        /\ msgs'[r] = "none" <=> msgs[r] = "none"
        /\ msgs'[r] \in {"resend_pubrel", "wait_for_pubcomp"} =>
             msgs[r] \in {"resend_pubrel", "wait_for_pubcomp"}
        /\ r \in first /\ msgs[r] # "none" =>
             msgs'[r] = IF quotaOnly THEN msgs[r] ELSE ResetState(msgs[r])
  <2> HIDE DEF first
  <2>1. TAKE r \in Reports
  <2>2. msgs'[r] = IF msgs[r] = "none" THEN "none"
                   ELSE IF r \notin first THEN "invalid"
                   ELSE IF quotaOnly THEN msgs[r]
                   ELSE ResetState(msgs[r])
    BY <1>1, Zenon
  <2>3. CASE msgs[r] = "none"
    BY <2>2, <2>3 DEF States
  <2>4. CASE msgs[r] # "none" /\ r \notin first
    BY <2>2, <2>4 DEF States
  <2>5. CASE msgs[r] # "none" /\ r \in first /\ quotaOnly
    <3>1. msgs'[r] = msgs[r]
      BY <2>2, <2>5, Zenon
    <3>2. QED
      BY <1>6, <2>5, <3>1
  <2>6. CASE msgs[r] # "none" /\ r \in first /\ ~quotaOnly
    <3>1. msgs'[r] = ResetState(msgs[r])
      BY <2>2, <2>6, Zenon
    <3>2. msgs[r] \in States \ {"none"}
      BY <1>6, <2>6
    <3>3. QED
      BY <1>7, <2>6, <3>1, <3>2
  <2>7. QED
    BY <2>3, <2>4, <2>5, <2>6
<1>9. \A r \in Reports : msgs[r] # "none" => r \in Listed(msgs)
  BY DEF Listed
<1>10. msgs' \in [Reports -> States]
  <2> HIDE DEF first
  <2>1. QED
    BY <1>1, <1>8
<1>11. ~crowded' => \A r \in Reports : msgs[r] # "none" => r \in first
  BY <1>5, <1>9
<1>12. QED
  <2> HIDE DEF first
  <2>1. QED
    BY <1>4, <1>5, <1>8, <1>10, <1>11, Zenon

LEMMA RetryEffect ==
  ASSUME TypeOK, RetryAll
  PROVE  /\ out' \in Seq(Packets)
         /\ Range(out') \subseteq Range(out) \cup {Retry(r) : r \in Retried}
         /\ Mids(out') \subseteq Mids(out) \cup Retried
         /\ Single(out) /\ Retried \cap Mids(out) = {} => Single(out')
<1> DEFINE pkt == [r \in Retried |-> Retry(r)]
<1>1. PICK s \in Enumerations(Retried) : out' = out \o [i \in DOMAIN s |-> Retry(s[i])]
  BY DEF RetryAll
<1> DEFINE u == [i \in DOMAIN s |-> Retry(s[i])]
<1>2. Retried \in SUBSET Reports /\ out \in Seq(Packets)
  BY DEF Retried, TypeOK
<1>3. \A i \in DOMAIN s : s[i] \in Retried
  BY DEF Enumerations
<1>4. pkt \in [Retried -> Packets] /\ \A r \in Retried : pkt[r].mid = r
  BY <1>2, PacketType DEF Types, Retry
<1>5. Carries(u, s, pkt)
  BY <1>3 DEF Carries
<1>6. {pkt[r] : r \in Retried} = {Retry(r) : r \in Retried}
  OBVIOUS
<1>7. out' = out \o u
  BY <1>1
<1> HIDE DEF pkt, u
<1>8. /\ u \in Seq(Packets) /\ Range(u) \subseteq {pkt[r] : r \in Retried}
      /\ Mids(u) \subseteq Retried /\ Single(u)
  BY <1>2, <1>4, <1>5, EnumeratedPackets
<1>9. QED
  BY <1>2, <1>6, <1>7, <1>8, ConcatPackets

-----------------------------------------------------------------------------
(* The type invariant. The provers of set membership do not mix well with  *)
(* Boolean variables, so those are kept apart.                             *)

Flags == sock \in BOOLEAN /\ active \in BOOLEAN /\ crowded \in BOOLEAN

Values ==
  /\ published \in 0..MaxReports
  /\ msgs \in [Reports -> States]
  /\ quota \in 0..Inflight
  /\ out \in Seq(Packets)
  /\ net \in {"loop", "sleep", "resolve", "connect", "reset", "connack"}
  /\ conn \in Conns
  /\ session \in [Conns -> {"new", "active", "gone"}]
  /\ up \in [Conns -> Seq(Packets)]
  /\ down \in Seq(Packets)
  /\ stored \in [Conns -> SUBSET Reports]
  /\ delivered \in Seq(Reports)
  /\ discarded \subseteq Reports
  /\ completed \subseteq Reports
  /\ raced \subseteq Conns
  /\ faults \in 0..MaxFaults

LEMMA TypeParts == (TypeOK <=> Flags /\ Values) /\ (TypeOK' <=> Flags' /\ Values')
BY Zenon DEF TypeOK, Flags, Values

LEMMA InitType == Init => TypeOK
<1> SUFFICES ASSUME Init PROVE TypeOK
  OBVIOUS
<1>1. Flags
  BY Zenon DEF Init, Flags
<1>2. Packet("CONNECT", 0) \in Packets
  BY PacketType DEF Types
<1>3. up \in [Conns -> Seq(Packets)]
  BY <1>2 DEF Init
<1>4. Values
  BY <1>3, SessionAssumption DEF Init, Values, States, Conns
<1>5. QED
  BY <1>1, <1>4, TypeParts

\* What the handlers of the network thread read.
LEMMA ReadsEffect ==
  ASSUME TypeOK, NEW t, NEW m, Arrived(t, m), down' = Tail(down)
  PROVE  /\ down # <<>> /\ Head(down) = Packet(t, m)
         /\ down' = Tail(down) /\ down' \in Seq(Packets)
         /\ Packet(t, m) \in Range(down) /\ m \in Mids(down)
         /\ Range(down') \subseteq Range(down)
         /\ Mids(down') \subseteq Mids(down)
         /\ Single(down) => Single(down') /\ m \notin Mids(down')
<1>1. down # <<>> /\ Head(down) = Packet(t, m) /\ down' = Tail(down)
  BY DEF Arrived
<1>2. down \in Seq(Packets)
  BY DEF TypeOK
<1>3. Packet(t, m).mid = m
  BY DEF Packet
<1>4. QED
  BY <1>1, <1>2, <1>3, TailPacket

\* What the broker takes, and how it answers.
LEMMA TakesEffect ==
  ASSUME TypeOK, NEW c \in Conns, NEW t, NEW m \in Reports \cup {0}, NEW a \in Types,
         Takes(c, t, m, a)
  PROVE  /\ up' \in [Conns -> Seq(Packets)] /\ down' \in Seq(Packets)
         /\ Packet(t, m) \in Range(up[c]) /\ m \in Mids(up[c])
         /\ \A d \in Conns : /\ Range(up'[d]) \subseteq Range(up[d])
                             /\ Mids(up'[d]) \subseteq Mids(up[d])
                             /\ Single(up[d]) => Single(up'[d])
                             /\ d # c => up'[d] = up[d]
                             /\ up[d] = <<>> => up'[d] = <<>>
         /\ Single(up[c]) => m \notin Mids(up'[c])
         /\ ~Reading(c) => down' = down
         /\ Reading(c) => down' = Append(down, Packet(a, m))
         /\ Range(down') \subseteq Range(down) \cup {Packet(a, m)}
         /\ Mids(down') \subseteq Mids(down) \cup {m}
         /\ Single(down) /\ m \notin Mids(down) => Single(down')
<1>1. /\ up[c] # <<>> /\ Head(up[c]) = Packet(t, m)
      /\ up' = [up EXCEPT ![c] = Tail(@)]
      /\ ~Reading(c) => down' = down
      /\ Reading(c) => down' = Append(down, Packet(a, m))
  BY DEF Takes
<1>2. up \in [Conns -> Seq(Packets)] /\ down \in Seq(Packets) /\ up[c] \in Seq(Packets)
  BY DEF TypeOK
<1>3. Packet(t, m).mid = m /\ Packet(a, m) \in Packets /\ Packet(a, m).mid = m
  BY PacketType DEF Packet
<1>4. /\ Tail(up[c]) \in Seq(Packets)
      /\ Packet(t, m) \in Range(up[c]) /\ m \in Mids(up[c])
      /\ Range(Tail(up[c])) \subseteq Range(up[c])
      /\ Mids(Tail(up[c])) \subseteq Mids(up[c])
      /\ Single(up[c]) => Single(Tail(up[c])) /\ m \notin Mids(Tail(up[c]))
  BY <1>1, <1>2, <1>3, TailPacket
<1>5. /\ up' \in [Conns -> Seq(Packets)]
      /\ up'[c] = Tail(up[c]) /\ \A d \in Conns : d # c => up'[d] = up[d]
  BY <1>1, <1>2, <1>4
<1>6. /\ down' \in Seq(Packets)
      /\ Range(down') \subseteq Range(down) \cup {Packet(a, m)}
      /\ Mids(down') \subseteq Mids(down) \cup {m}
      /\ Single(down) /\ m \notin Mids(down) => Single(down')
  <2>1. CASE Reading(c)
    <3> DEFINE p == Packet(a, m)
    <3>1. p \in Packets /\ p.mid = m /\ down' = Append(down, p) /\ down \in Seq(Packets)
      BY <1>1, <1>2, <1>3, <2>1, Zenon
    <3> HIDE DEF p
    <3>2. QED
      BY <3>1, AppendPacket DEF p
  <2>2. CASE ~Reading(c)
    BY <1>1, <1>2, <2>2
  <2>3. QED
    BY <2>1, <2>2
<1>7. \A d \in Conns : /\ Range(up'[d]) \subseteq Range(up[d])
                       /\ Mids(up'[d]) \subseteq Mids(up[d])
                       /\ Single(up[d]) => Single(up'[d])
                       /\ d # c => up'[d] = up[d]
                       /\ up[d] = <<>> => up'[d] = <<>>
  <2>1. TAKE d \in Conns
  <2>2. CASE d = c
    BY <1>1, <1>4, <1>5, <2>2
  <2>3. CASE d # c
    BY <1>5, <2>3
  <2>4. QED
    BY <2>2, <2>3
<1>8. QED
  BY <1>1, <1>4, <1>5, <1>6, <1>7

\* What a context leaves behind.
LEMMA CloseEffect ==
  ASSUME TypeOK, NEW c \in Conns, Close(c)
  PROVE  /\ session' \in [Conns -> {"new", "active", "gone"}]
         /\ up' \in [Conns -> Seq(Packets)]
         /\ stored' \in [Conns -> SUBSET Reports]
         /\ discarded' = discarded \cup stored[c] /\ discarded' \subseteq Reports
         /\ session'[c] = "gone" /\ up'[c] = <<>> /\ stored'[c] = {}
         /\ \A d \in Conns \ {c} : /\ up'[d] = up[d] /\ stored'[d] = stored[d]
                                   /\ session'[d] = session[d]
         /\ delivered' = delivered /\ down' = down
BY DEF Close, TypeOK

LEMMA WriteEffect ==
  ASSUME TypeOK, Write
  PROVE  /\ Head(out) \in Range(out) /\ Head(out) \in Packets
         /\ out' \in Seq(Packets)
         /\ Range(out') \subseteq Range(out)
         /\ Head(out).mid \in Mids(out) /\ Mids(out') \subseteq Mids(out)
         /\ Single(out) => Single(out') /\ Head(out).mid \notin Mids(out')
         /\ up' \in [Conns -> Seq(Packets)]
         /\ \A d \in Conns \ {conn} : up'[d] = up[d]
         /\ Range(up'[conn]) \subseteq Range(up[conn]) \cup {Head(out)}
         /\ Mids(up'[conn]) \subseteq Mids(up[conn]) \cup {Head(out).mid}
         /\ Single(up[conn]) /\ Head(out).mid \notin Mids(up[conn]) => Single(up'[conn])
<1>1. /\ out # <<>> /\ out \in Seq(Packets) /\ out' = Tail(out)
      /\ up \in [Conns -> Seq(Packets)] /\ conn \in Conns /\ up[conn] \in Seq(Packets)
      /\ up' = IF session[conn] = "gone" THEN up
               ELSE [up EXCEPT ![conn] = Append(@, Head(out))]
  BY DEF Write, TypeOK
<1>2. /\ Head(out) \in Range(out) /\ Head(out) \in Packets
      /\ out' \in Seq(Packets)
      /\ Range(out') \subseteq Range(out)
      /\ Head(out).mid \in Mids(out) /\ Mids(out') \subseteq Mids(out)
      /\ Single(out) => Single(out') /\ Head(out).mid \notin Mids(out')
  BY <1>1, TailPacket
<1>3. \/ up' = up
      \/ /\ up' \in [Conns -> Seq(Packets)]
         /\ up'[conn] = Append(up[conn], Head(out))
         /\ \A d \in Conns \ {conn} : up'[d] = up[d]
  BY <1>1, <1>2
<1>4. QED
  BY <1>1, <1>2, <1>3, AppendPacket

\* A report is handed to mosquitto_publish, which may send q messages.
Hands(q) ==
  /\ published < MaxReports
  /\ published' = published + 1
  /\ Release([msgs EXCEPT ![published + 1] = "invalid"], q)
  /\ quota' <= Inflight
  /\ raced' \in {raced, raced \cup {conn}}
  /\ net' = net \/ (net = "loop" /\ net' = "reset" /\ Arrived("CONNACK", 0))
  /\ UNCHANGED <<sock, active, conn, completed, crowded, broker, up, down, faults>>

LEMMA HandsType ==
  ASSUME TypeOK, NEW q \in Nat, Hands(q)
  PROVE  /\ [msgs EXCEPT ![published + 1] = "invalid"] \in [Reports -> States]
         /\ \E now \in SUBSET Waiting([msgs EXCEPT ![published + 1] = "invalid"]) :
              msgs' = [r \in Reports |->
                         IF r \in now THEN "wait_for_pubrec"
                         ELSE [msgs EXCEPT ![published + 1] = "invalid"][r]]
         /\ quota' \in 0..Inflight /\ msgs' \in [Reports -> States] /\ out' \in Seq(Packets)
<1> DEFINE list == [msgs EXCEPT ![published + 1] = "invalid"]
<1>1. list \in [Reports -> States]
  BY DEF TypeOK, States
<1>2. PICK now \in SUBSET Waiting(list) :
        /\ msgs' = [r \in Reports |-> IF r \in now THEN "wait_for_pubrec" ELSE list[r]]
        /\ quota' \in 0..q /\ out' \in Seq(Packets)
  <2>1. Release(list, q)
    BY DEF Hands
  <2> HIDE DEF list
  <2>2. QED
    BY <1>1, <2>1, ReleaseEffect
<1>3. quota' \in 0..Inflight
  BY <1>2, SessionAssumption DEF Hands
<1>4. msgs' \in [Reports -> States]
  <2> HIDE DEF list
  <2>1. QED
    BY <1>1, <1>2 DEF States
<1>5. QED
  BY <1>1, <1>2, <1>3, <1>4

LEMMA PublishHands ==
  ASSUME TypeOK
  PROVE  /\ Publish => Hands(quota) /\ quota \in Nat
         /\ \A j \in 1..quota : FillDuringPublish(j) =>
              Hands(j + Inflight) /\ j + Inflight \in Nat
<1>0. quota \in 0..Inflight /\ quota \in Nat
  BY SessionAssumption DEF TypeOK
<1>1. ASSUME Publish PROVE Hands(quota)
  <2> DEFINE list == [msgs EXCEPT ![published + 1] = "invalid"]
  <2>1. list \in [Reports -> States] /\ Release(list, quota)
    BY <1>1 DEF Publish, TypeOK, States
  <2>2. quota' \in 0..quota
    <3> HIDE DEF list
    <3>1. QED
      BY <1>0, <2>1, ReleaseEffect
  <2>3. quota' <= Inflight
    BY <1>0, <2>2, SessionAssumption
  <2>4. raced' \in {raced, raced \cup {conn}} /\ net' = net
    BY <1>1 DEF Publish
  <2>5. QED
    BY <1>1, <2>3, <2>4, Zenon DEF Publish, Hands
<1>2. ASSUME NEW j \in 1..quota, FillDuringPublish(j)
      PROVE  Hands(j + Inflight) /\ j + Inflight \in Nat
  <2>1. j + Inflight \in Nat
    BY <1>0, SessionAssumption
  <2>2. QED
    BY <1>2, <2>1, Zenon DEF FillDuringPublish, Hands
<1>3. QED
  BY <1>0, <1>1, <1>2

LEMMA TypeStep == TypeOK /\ [Next]_vars => TypeOK'
<1> SUFFICES ASSUME TypeOK, [Next]_vars PROVE TypeOK'
  OBVIOUS
<1> USE SessionAssumption
<1>0. Flags /\ Values
  BY TypeParts
<1>1. ASSUME NEW q \in Nat, Hands(q) PROVE TypeOK'
  <2>1. quota' \in 0..Inflight /\ msgs' \in [Reports -> States] /\ out' \in Seq(Packets)
    BY <1>1, HandsType
  <2>2. Flags'
    BY <1>0, <1>1, Zenon DEF Hands, Flags
  <2>3. published' \in 0..MaxReports
    BY <1>0, <1>1 DEF Hands, Values
  <2>4. raced' \subseteq Conns
    BY <1>0, <1>1 DEF Hands, Values
  <2>5. net' \in {"loop", "sleep", "resolve", "connect", "reset", "connack"}
    BY <1>0, <1>1 DEF Hands, Values
  <2>6. Values'
    BY <1>0, <1>1, <2>1, <2>3, <2>4, <2>5 DEF Hands, Values, broker
  <2>7. QED
    BY <2>2, <2>6, TypeParts
<1>2. CASE Write
  <2>1. out' \in Seq(Packets) /\ up' \in [Conns -> Seq(Packets)]
    BY <1>2, WriteEffect
  <2>2. Flags'
    BY <1>0, <1>2, Zenon DEF Write, Flags
  <2>3. Values'
    BY <1>0, <1>2, <2>1 DEF Write, Values, broker
  <2>4. QED
    BY <2>2, <2>3, TypeParts
<1>3. CASE LoseConnection \/ OpenSocket \/ ConnectFails
  <2>1. Flags'
    BY <1>0, <1>3, Zenon DEF LoseConnection, OpenSocket, ConnectFails, Flags
  <2>2. Values'
    <3>1. CASE LoseConnection
      BY <1>0, <3>1 DEF LoseConnection, Values, broker
    <3>2. CASE OpenSocket
      BY <1>0, <3>2 DEF OpenSocket, Values, broker
    <3>3. CASE ConnectFails
      BY <1>0, <3>3 DEF ConnectFails, Values, broker
    <3>4. QED
      BY <1>3, <3>1, <3>2, <3>3
  <2>3. QED
    BY <2>1, <2>2, TypeParts
<1>4. CASE Reconnect
  <2>1. /\ quota' \in 0..Inflight /\ msgs' \in [Reports -> States]
        /\ crowded' \in BOOLEAN
    BY <1>4, ResetEffect DEF Reconnect
  <2>2. Flags'
    BY <1>0, <1>4, <2>1, Zenon DEF Reconnect, Flags
  <2>3. Values'
    BY <1>0, <1>4, <2>1 DEF Reconnect, Values, broker
  <2>4. QED
    BY <2>2, <2>3, TypeParts
<1>5. CASE SendConnect
  <2>1. Packet("CONNECT", 0) \in Packets
    BY PacketType DEF Types
  <2>2. Flags'
    BY <1>0, <1>5, Zenon DEF SendConnect, Flags
  <2>3. out' \in Seq(Packets)
    BY <1>0, <1>5, <2>1, AppendPacket DEF SendConnect, Values
  <2>4. conn' \in Conns
    BY <1>0, <1>5 DEF SendConnect, Values, Conns
  <2>5. Values'
    BY <1>0, <1>5, <2>3, <2>4 DEF SendConnect, Values, broker
  <2>6. QED
    BY <2>2, <2>5, TypeParts
<1>16. CASE FillQuota
  <2>1. Flags'
    BY <1>0, <1>16, Zenon DEF FillQuota, Flags
  <2>2. Values'
    BY <1>0, <1>16 DEF FillQuota, Values, broker
  <2>3. QED
    BY <2>1, <2>2, TypeParts
<1>6. CASE Connack
  <2>1. /\ quota' \in 0..Inflight /\ msgs' \in [Reports -> States]
        /\ crowded' \in BOOLEAN
    BY <1>6, ResetEffect DEF Connack
  <2>2. down' \in Seq(Packets)
    BY <1>6, ReadsEffect DEF Connack
  <2>3. Flags'
    BY <1>0, <1>6, <2>1, Zenon DEF Connack, Flags
  <2>4. Values'
    BY <1>0, <1>6, <2>1, <2>2 DEF Connack, Values, broker
  <2>5. QED
    BY <2>3, <2>4, TypeParts
<1>7. CASE RetryAll
  <2>1. out' \in Seq(Packets)
    BY <1>7, RetryEffect
  <2>2. Flags'
    BY <1>0, <1>7, Zenon DEF RetryAll, Flags
  <2>3. Values'
    BY <1>0, <1>7, <2>1 DEF RetryAll, Values, broker
  <2>4. QED
    BY <2>2, <2>3, TypeParts
<1>8. ASSUME NEW m \in Reports, Pubrec(m) PROVE TypeOK'
  <2>1. Packet("PUBREL", m) \in Packets
    BY PacketType DEF Types
  <2>2. down' \in Seq(Packets)
    BY <1>8, ReadsEffect DEF Pubrec, Reads
  <2>3. Flags'
    BY <1>0, <1>8, Zenon DEF Pubrec, Flags
  <2>4. Values'
    BY <1>0, <1>8, <2>1, <2>2, AppendPacket DEF Pubrec, Values, broker, States
  <2>5. QED
    BY <2>3, <2>4, TypeParts
<1>9. ASSUME NEW m \in Reports, Pubcomp(m) PROVE TypeOK'
  <2> DEFINE list == [msgs EXCEPT ![m] = "none"]
             q == IF quota < Inflight THEN quota + 1 ELSE quota
  <2>1. list \in [Reports -> States] /\ q \in 0..Inflight
    BY <1>0 DEF Values, States
  <2>2. Release(list, q)
    BY <1>9 DEF Pubcomp
  <2>3. PICK now \in SUBSET Waiting(list) :
          /\ msgs' = [r \in Reports |-> IF r \in now THEN "wait_for_pubrec" ELSE list[r]]
          /\ quota' \in 0..Inflight /\ out' \in Seq(Packets)
    <3> HIDE DEF list, q
    <3>1. q \in Nat /\ 0..q \subseteq 0..Inflight
      BY <2>1
    <3>2. QED
      BY <2>1, <2>2, <3>1, ReleaseEffect
  <2>4. msgs' \in [Reports -> States]
    BY <2>1, <2>3 DEF States
  <2>5. down' \in Seq(Packets)
    BY <1>9, ReadsEffect DEF Pubcomp, Reads
  <2>6. Flags'
    BY <1>0, <1>9, Zenon DEF Pubcomp, Flags
  <2>7. Values'
    BY <1>0, <1>9, <2>3, <2>4, <2>5 DEF Pubcomp, Values, broker
  <2>8. QED
    BY <2>6, <2>7, TypeParts
<1>10. ASSUME NEW c \in Conns, TakeConnect(c) PROVE TypeOK'
  <2>1. up' \in [Conns -> Seq(Packets)] /\ down' \in Seq(Packets)
    BY <1>10, TakesEffect DEF TakeConnect, Types
  <2>2. Flags'
    BY <1>0, <1>10, Zenon DEF TakeConnect, Flags, client
  <2>3. Values'
    BY <1>0, <1>10, <2>1 DEF TakeConnect, Values, client
  <2>4. QED
    BY <2>2, <2>3, TypeParts
<1>11. ASSUME NEW c \in Conns, NEW m \in Reports, TakePublish(c, m) PROVE TypeOK'
  <2>1. up' \in [Conns -> Seq(Packets)] /\ down' \in Seq(Packets)
    BY <1>11, TakesEffect DEF TakePublish, Types
  <2>2. Flags'
    BY <1>0, <1>11, Zenon DEF TakePublish, Flags, client
  <2>3. Values'
    BY <1>0, <1>11, <2>1 DEF TakePublish, Values, client
  <2>4. QED
    BY <2>2, <2>3, TypeParts
<1>12. ASSUME NEW c \in Conns, NEW m \in Reports, TakePubrel(c, m) PROVE TypeOK'
  <2>1. up' \in [Conns -> Seq(Packets)] /\ down' \in Seq(Packets)
    BY <1>12, TakesEffect DEF TakePubrel, Types
  <2>2. Flags'
    BY <1>0, <1>12, Zenon DEF TakePubrel, Flags, client
  <2>3. delivered' \in Seq(Reports)
    BY <1>0, <1>12 DEF TakePubrel, Values
  <2>4. Values'
    BY <1>0, <1>12, <2>1, <2>3 DEF TakePubrel, Values, client
  <2>5. QED
    BY <2>2, <2>4, TypeParts
<1>13. ASSUME NEW c \in Conns, Refuse(c) \/ Forget(c) PROVE TypeOK'
  <2>1. Flags'
    BY <1>0, <1>13, Zenon DEF Refuse, Forget, Flags, client
  <2>2. Close(c) /\ UNCHANGED client /\ faults' \in 0..MaxFaults
    BY <1>0, <1>13 DEF Refuse, Forget, Values
  <2>3. Values'
    BY <1>0, <2>2, CloseEffect DEF Values, client
  <2>4. QED
    BY <2>1, <2>3, TypeParts
<1>14. CASE UNCHANGED vars
  <2>1. Flags'
    BY <1>0, <1>14, Zenon DEF vars, client, Flags
  <2>2. Values'
    BY <1>0, <1>14 DEF vars, client, broker, Values
  <2>3. QED
    BY <2>1, <2>2, TypeParts
<1>15. QED
  BY <1>1, <1>2, <1>3, <1>4, <1>5, <1>6, <1>7, <1>8, <1>9, <1>10, <1>11, <1>12,
     <1>13, <1>14, <1>16, PublishHands DEF Next, Network, Receive

(* Every variable keeps its type.                                          *)
THEOREM SessionTypeOK == Spec => []TypeOK
<1>1. QED
  BY InitType, TypeStep, PTL DEF Spec

-----------------------------------------------------------------------------
(* Completed reports were stored by the broker. What has been stored is    *)
(* accounted for ever after, and PUBREC, PUBREL and PUBCOMP, and the states *)
(* of the client that go with them, are only about such reports.           *)

Stored(r) == r \in discarded \/ Kept(r)

Acknowledged(r) ==
  \/ Packet("PUBREC", r) \in Range(down) \/ Packet("PUBCOMP", r) \in Range(down)
  \/ Packet("PUBREL", r) \in Range(out)
  \/ \E c \in Conns : Packet("PUBREL", r) \in Range(up[c])
  \/ msgs[r] \in {"resend_pubrel", "wait_for_pubcomp"}
  \/ r \in completed

StoredInv == \A r \in Reports : Acknowledged(r) => Stored(r)

LEMMA NoPackets == Range(<<>>) = {} /\ Mids(<<>>) = {} /\ Single(<<>>)
BY DEF Range, Mids, Single

LEMMA StoredStays ==
  ASSUME TypeOK, [Next]_vars, NEW r \in Reports, Stored(r) PROVE Stored(r)'
<1>1. CASE UNCHANGED broker
  BY <1>1 DEF Stored, Kept, broker
<1>2. ASSUME NEW c \in Conns, TakeConnect(c) PROVE Stored(r)'
  BY <1>2 DEF TakeConnect, Stored, Kept
<1>3. ASSUME NEW c \in Conns, NEW m \in Reports, TakePublish(c, m) PROVE Stored(r)'
  <2>1. /\ delivered' = delivered /\ discarded' = discarded
        /\ \A d \in Conns : stored[d] \subseteq stored'[d]
    BY <1>3 DEF TakePublish, TypeOK
  <2>2. QED
    BY <2>1 DEF Stored, Kept
<1>4. ASSUME NEW c \in Conns, NEW m \in Reports, TakePubrel(c, m) PROVE Stored(r)'
  <2>1. CASE m \in stored[c] /\ r = m
    <3>1. delivered' = Append(delivered, m) /\ delivered \in Seq(Reports)
      BY <1>4, <2>1 DEF TakePubrel, TypeOK
    <3>2. Len(delivered') \in DOMAIN delivered' /\ delivered'[Len(delivered')] = m
      BY <3>1
    <3>3. r \in Range(delivered')
      BY <2>1, <3>2 DEF Range
    <3>4. QED
      BY <3>3 DEF Stored, Kept
  <2>2. CASE ~(m \in stored[c] /\ r = m)
    <3>1. \A d \in Conns : r \in stored[d] => r \in stored'[d]
      BY <1>4, <2>2 DEF TakePubrel, TypeOK
    <3>2. \A i \in DOMAIN delivered : i \in DOMAIN delivered' /\ delivered'[i] = delivered[i]
      BY <1>4 DEF TakePubrel, TypeOK
    <3>3. r \in Range(delivered) => r \in Range(delivered')
      BY <3>2 DEF Range
    <3>4. discarded' = discarded
      BY <1>4 DEF TakePubrel
    <3>5. QED
      BY <3>1, <3>3, <3>4 DEF Stored, Kept
  <2>3. QED
    BY <2>1, <2>2
<1>5. ASSUME NEW c \in Conns, Close(c) PROVE Stored(r)'
  BY <1>5, CloseEffect DEF Stored, Kept
<1>6. CASE Next
  BY <1>1, <1>2, <1>3, <1>4, <1>5, <1>6
  DEF Next, Network, Receive, Publish, Write, LoseConnection, Reconnect, OpenSocket,
      ConnectFails, SendConnect, FillQuota, FillDuringPublish, Connack, RetryAll, Pubrec,
      Pubcomp, Refuse, Forget
<1>7. QED
  BY <1>1, <1>6 DEF vars

\* A release only sends PUBLISH.
LEMMA ReleaseAcknowledges ==
  ASSUME TypeOK, NEW list \in [Reports -> States], NEW q \in Nat,
         Release(list, q), NEW r \in Reports
  PROVE  /\ Packet("PUBREL", r) \in Range(out') => Packet("PUBREL", r) \in Range(out)
         /\ msgs'[r] \in {"resend_pubrel", "wait_for_pubcomp"} => msgs'[r] = list[r]
<1>1. PICK now \in SUBSET Waiting(list) :
        /\ msgs' = [x \in Reports |-> IF x \in now THEN "wait_for_pubrec" ELSE list[x]]
        /\ Range(out') \subseteq Range(out) \cup {Packet("PUBLISH", x) : x \in now}
  BY ReleaseEffect
<1>2. \A x : Packet("PUBREL", r) # Packet("PUBLISH", x)
  BY DEF Packet
<1>3. QED
  BY <1>1, <1>2

LEMMA StoredStep == TypeOK /\ StoredInv /\ [Next]_vars => StoredInv'
<1> SUFFICES ASSUME TypeOK, StoredInv, [Next]_vars, NEW r \in Reports, Acknowledged(r)'
             PROVE  Stored(r)'
  BY DEF StoredInv
<1>1. SUFFICES Acknowledged(r) \/ Stored(r)'
  BY StoredStays DEF StoredInv
<1>2. \A t, u, m : Packet(t, r) = Packet(u, m) => t = u /\ r = m
  BY DEF Packet
<1>3. ASSUME NEW q \in Nat, Hands(q) PROVE Acknowledged(r)
  <2> DEFINE list == [msgs EXCEPT ![published + 1] = "invalid"]
  <2>1. list \in [Reports -> States] /\ Release(list, q)
    BY <1>3 DEF Hands, TypeOK, States
  <2>2. list[r] \in {"resend_pubrel", "wait_for_pubcomp"} => list[r] = msgs[r]
    BY DEF TypeOK
  <2> HIDE DEF list
  <2>3. QED
    BY <1>3, <2>1, <2>2, ReleaseAcknowledges DEF Acknowledged, Hands
<1>4. CASE Write
  BY <1>4, WriteEffect DEF Acknowledged, Write, TypeOK
<1>5. CASE LoseConnection \/ OpenSocket \/ ConnectFails
  BY <1>5, NoPackets DEF Acknowledged, LoseConnection, OpenSocket, ConnectFails
<1>6. CASE Reconnect
  BY <1>6, NoPackets, ResetEffect DEF Acknowledged, Reconnect
<1>7. CASE SendConnect
  <2>1. Packet("CONNECT", 0) \in Packets /\ out \in Seq(Packets)
    BY PacketType DEF Types, TypeOK
  <2>2. Range(out') = Range(out) \cup {Packet("CONNECT", 0)}
    BY <1>7, <2>1, AppendPacket DEF SendConnect
  <2>3. QED
    BY <1>2, <1>7, <2>2 DEF Acknowledged, SendConnect
<1>18. CASE FillQuota
  BY <1>18 DEF Acknowledged, FillQuota
<1>8. CASE Connack
  BY <1>8, ReadsEffect, ResetEffect DEF Acknowledged, Connack
<1>9. CASE RetryAll
  <2>1. Range(out') \subseteq Range(out) \cup {Retry(x) : x \in Retried}
    BY <1>9, RetryEffect
  <2>2. \A x \in Retried : Packet("PUBREL", r) = Retry(x) =>
          msgs[r] \in {"resend_pubrel", "wait_for_pubcomp"}
    BY <1>2 DEF Retried, Retry
  <2>3. QED
    BY <1>9, <2>1, <2>2 DEF Acknowledged, RetryAll
<1>10. ASSUME NEW m \in Reports, Pubrec(m) PROVE Acknowledged(r)
  <2>1. Packet("PUBREL", m) \in Packets /\ out \in Seq(Packets)
    BY PacketType DEF Types, TypeOK
  <2>2. Range(out') = Range(out) \cup {Packet("PUBREL", m)}
    BY <1>10, <2>1, AppendPacket DEF Pubrec
  <2>3. Packet("PUBREC", m) \in Range(down) /\ Range(down') \subseteq Range(down)
    BY <1>10, ReadsEffect DEF Pubrec, Reads
  <2>4. r # m => msgs'[r] = msgs[r]
    BY <1>10 DEF Pubrec, TypeOK
  <2>5. QED
    BY <1>2, <1>10, <2>2, <2>3, <2>4 DEF Acknowledged, Pubrec
<1>11. ASSUME NEW m \in Reports, Pubcomp(m) PROVE Acknowledged(r)
  <2> DEFINE list == [msgs EXCEPT ![m] = "none"]
             q == IF quota < Inflight THEN quota + 1 ELSE quota
  <2>1. list \in [Reports -> States] /\ q \in 0..Inflight
    BY SessionAssumption DEF TypeOK, States
  <2>2. Release(list, q)
    BY <1>11 DEF Pubcomp
  <2>3. list[r] \in {"resend_pubrel", "wait_for_pubcomp"} => list[r] = msgs[r]
    BY DEF TypeOK
  <2>4. Packet("PUBCOMP", m) \in Range(down) /\ Range(down') \subseteq Range(down)
    BY <1>11, ReadsEffect DEF Pubcomp, Reads
  <2>5. completed' \subseteq completed \cup {m}
    BY <1>11 DEF Pubcomp
  <2> HIDE DEF list, q
  <2>6. q \in Nat
    BY <2>1
  <2>7. QED
    BY <1>11, <2>1, <2>2, <2>3, <2>4, <2>5, <2>6, ReleaseAcknowledges DEF Acknowledged, Pubcomp
<1>12. ASSUME NEW c \in Conns, TakeConnect(c) PROVE Acknowledged(r)
  <2>1. /\ \A d \in Conns : Range(up'[d]) \subseteq Range(up[d])
        /\ Range(down') \subseteq Range(down) \cup {Packet("CONNACK", 0)}
    BY <1>12, TakesEffect DEF TakeConnect, Types
  <2>2. QED
    BY <1>2, <1>12, <2>1 DEF Acknowledged, TakeConnect, client
<1>13. ASSUME NEW c \in Conns, NEW m \in Reports, TakePublish(c, m)
       PROVE  Acknowledged(r) \/ Stored(r)'
  <2>1. /\ \A d \in Conns : Range(up'[d]) \subseteq Range(up[d])
        /\ Range(down') \subseteq Range(down) \cup {Packet("PUBREC", m)}
    BY <1>13, TakesEffect DEF TakePublish, Types
  <2>2. m \in stored'[c]
    BY <1>13 DEF TakePublish, TypeOK
  <2>3. Stored(m)'
    BY <2>2 DEF Stored, Kept
  <2>4. QED
    BY <1>2, <1>13, <2>1, <2>3 DEF Acknowledged, TakePublish, client
<1>14. ASSUME NEW c \in Conns, NEW m \in Reports, TakePubrel(c, m) PROVE Acknowledged(r)
  <2>1. /\ \A d \in Conns : Range(up'[d]) \subseteq Range(up[d])
        /\ Packet("PUBREL", m) \in Range(up[c])
        /\ Range(down') \subseteq Range(down) \cup {Packet("PUBCOMP", m)}
    BY <1>14, TakesEffect DEF TakePubrel, Types
  <2>2. QED
    BY <1>2, <1>14, <2>1 DEF Acknowledged, TakePubrel, client
<1>15. ASSUME NEW c \in Conns, Refuse(c) \/ Forget(c) PROVE Acknowledged(r)
  <2>1. Close(c) /\ UNCHANGED client
    BY <1>15 DEF Refuse, Forget
  <2>2. \A d \in Conns : Range(up'[d]) \subseteq Range(up[d])
    BY <2>1, CloseEffect, NoPackets
  <2>3. QED
    BY <2>1, <2>2, CloseEffect DEF Acknowledged, client
<1>16. CASE UNCHANGED vars
  BY <1>16 DEF Acknowledged, vars, client
<1>17. QED
  BY <1>3, <1>4, <1>5, <1>6, <1>7, <1>8, <1>9, <1>10, <1>11, <1>12, <1>13, <1>14,
     <1>15, <1>16, <1>18, PublishHands DEF Next, Network, Receive

(* Whatever connections are lost, on_publish is only called for a report   *)
(* that is delivered, that the broker still stores, or that it discarded   *)
(* with a connection: the acknowledgements of PUBREL for unknown messages  *)
(* do not complete a report the broker never had.                          *)
THEOREM SessionCompletedKept == Spec => []CompletedKept
<1>1. Init => StoredInv
  <2>1. SUFFICES ASSUME Init, NEW r \in Reports PROVE ~Acknowledged(r)
    BY DEF StoredInv
  <2>2. Packet("CONNECT", 0) \in Packets /\ Packet("PUBREL", r) # Packet("CONNECT", 0)
    BY PacketType DEF Types, Packet
  <2>3. Range(<<Packet("CONNECT", 0)>>) = {Packet("CONNECT", 0)}
    BY DEF Range
  <2>4. \A c \in Conns : up[c] = <<Packet("CONNECT", 0)>> \/ up[c] = <<>>
    BY <2>1 DEF Init
  <2>5. QED
    BY <2>1, <2>2, <2>3, <2>4, NoPackets DEF Init, Acknowledged
<1>2. TypeOK /\ StoredInv => CompletedKept
  BY DEF TypeOK, StoredInv, Acknowledged, Stored, CompletedKept
<1>3. QED
  BY <1>1, <1>2, StoredStep, SessionTypeOK, PTL DEF Spec

-----------------------------------------------------------------------------
(* Where the network thread is tells what the connection looks like.       *)

On == net \in {"loop", "reset", "connack"}

\* CONNACK is not handled yet.
Shaking == net \in {"loop", "reset"} /\ ~active

SocketInv == sock <=> net \notin {"sleep", "resolve"}

ListInv == \A r \in Reports : r > published => msgs[r] = "none"

AheadInv ==
  \A c \in Conns : c > conn => up[c] = <<>> /\ stored[c] = {} /\ session[c] = "new"

(* Until CONNACK is handled it is the first packet the client reads.       *)
FirstInv ==
  /\ ~On => down = <<>>
  /\ net \in {"reset", "connack"} => ~active
  /\ \A i \in DOMAIN down : down[i].type = "CONNACK" => i = 1 /\ Shaking
  /\ Shaking =>
       \/ down = <<>> /\ session[conn] # "active" /\ net = "loop"
       \/ down # <<>> /\ Head(down).type = "CONNACK"
  /\ On /\ session[conn] = "new" => net = "loop" /\ ~active /\ down = <<>>

LEMMA SocketStep == TypeOK /\ SocketInv /\ [Next]_vars => SocketInv'
<1> SUFFICES ASSUME TypeOK, SocketInv, [Next]_vars PROVE SocketInv'
  OBVIOUS
<1>1. net \in {"loop", "sleep", "resolve", "connect", "reset", "connack"}
  BY DEF TypeOK
<1>2. CASE UNCHANGED <<sock, net>>
  BY <1>2 DEF SocketInv
<1>3. CASE Next
  BY <1>1, <1>2, <1>3
  DEF SocketInv, Next, Network, Receive, Publish, Write, LoseConnection, Reconnect,
      OpenSocket, ConnectFails, SendConnect, FillQuota, FillDuringPublish, Connack,
      RetryAll, Pubrec, Pubcomp, Reads, TakeConnect, TakePublish, TakePubrel, Refuse,
      Forget, client
<1>4. QED
  BY <1>2, <1>3 DEF vars, client

LEMMA ListStep == TypeOK /\ ListInv /\ [Next]_vars => ListInv'
<1> SUFFICES ASSUME TypeOK, ListInv, [Next]_vars, NEW r \in Reports, r > published'
             PROVE  msgs'[r] = "none"
  BY DEF ListInv
<1>1. CASE UNCHANGED <<msgs, published>>
  BY <1>1 DEF ListInv
<1>2. ASSUME NEW q \in Nat, Hands(q) PROVE msgs'[r] = "none"
  <2> DEFINE list == [msgs EXCEPT ![published + 1] = "invalid"]
  <2>1. list \in [Reports -> States] /\ Release(list, q)
    BY <1>2 DEF Hands, TypeOK, States
  <2>2. published' = published + 1 /\ published \in Nat /\ r \in Nat
    BY <1>2, ReportsType DEF Hands, TypeOK
  <2>3. list[r] = "none"
    BY <2>2 DEF ListInv, TypeOK
  <2> HIDE DEF list
  <2>4. QED
    BY <2>1, <2>3, ReleaseEffect DEF Waiting
<1>3. CASE Reconnect \/ Connack
  BY <1>3, ResetEffect DEF Reconnect, Connack, ListInv
<1>4. ASSUME NEW m \in Reports, Pubrec(m) PROVE msgs'[r] = "none"
  BY <1>4 DEF Pubrec, ListInv, TypeOK
<1>5. ASSUME NEW m \in Reports, Pubcomp(m) PROVE msgs'[r] = "none"
  <2> DEFINE list == [msgs EXCEPT ![m] = "none"]
             q == IF quota < Inflight THEN quota + 1 ELSE quota
  <2>1. list \in [Reports -> States] /\ q \in 0..Inflight
    BY SessionAssumption DEF TypeOK, States
  <2>2. Release(list, q)
    BY <1>5 DEF Pubcomp
  <2>3. list[r] = "none"
    BY <1>5 DEF ListInv, TypeOK, Pubcomp
  <2> HIDE DEF list, q
  <2>4. q \in Nat
    BY <2>1
  <2>5. QED
    BY <2>1, <2>2, <2>3, <2>4, ReleaseEffect DEF Waiting
<1>6. CASE Next
  BY <1>1, <1>2, <1>3, <1>4, <1>5, <1>6, PublishHands
  DEF Next, Network, Receive, Write, LoseConnection, OpenSocket, ConnectFails,
      SendConnect, FillQuota, RetryAll, TakeConnect, TakePublish, TakePubrel, Refuse, Forget, client
<1>7. QED
  BY <1>1, <1>6 DEF vars, client

LEMMA AheadStep == TypeOK /\ AheadInv /\ [Next]_vars => AheadInv'
<1> SUFFICES ASSUME TypeOK, AheadInv, [Next]_vars, NEW d \in Conns, d > conn'
             PROVE  up'[d] = <<>> /\ stored'[d] = {} /\ session'[d] = "new"
  BY DEF AheadInv
<1>0. conn \in Nat /\ d \in Nat /\ conn \in Conns
  BY SessionAssumption DEF TypeOK, Conns
<1>1. CASE UNCHANGED <<up, stored, session>> /\ conn' \in {conn, conn + 1}
  BY <1>0, <1>1 DEF AheadInv
<1>2. CASE Write
  <2>1. d # conn /\ conn' = conn
    BY <1>0, <1>2 DEF Write
  <2>2. QED
    BY <1>2, <2>1, WriteEffect DEF Write, AheadInv, broker
<1>3. ASSUME NEW c \in Conns, Receive(c) \/ Forget(c), up[c] # <<>> \/ c <= conn
      PROVE  c # d /\ conn' = conn /\ d > conn
  BY <1>0, <1>3
  DEF Receive, TakeConnect, TakePublish, TakePubrel, Refuse, Forget, client, AheadInv
<1>4. ASSUME NEW c \in Conns, NEW t, NEW m \in Reports \cup {0}, NEW a \in Types,
             Receive(c), Takes(c, t, m, a),
             \A e \in Conns \ {c} : stored'[e] = stored[e] /\ session'[e] = session[e]
      PROVE  up'[d] = <<>> /\ stored'[d] = {} /\ session'[d] = "new"
  BY <1>3, <1>4, TakesEffect DEF AheadInv, Takes
<1>5. ASSUME NEW c \in Conns, Receive(c)
      PROVE  up'[d] = <<>> /\ stored'[d] = {} /\ session'[d] = "new"
  <2>1. CASE TakeConnect(c)
    <3>1. \A e \in Conns \ {c} : stored'[e] = stored[e] /\ session'[e] = session[e]
      BY <2>1 DEF TakeConnect, TypeOK
    <3>2. QED
      BY <1>4, <1>5, <2>1, <3>1 DEF TakeConnect, Types
  <2>2. ASSUME NEW m \in Reports, TakePublish(c, m) \/ TakePubrel(c, m)
        PROVE  up'[d] = <<>> /\ stored'[d] = {} /\ session'[d] = "new"
    <3>1. \A e \in Conns \ {c} : stored'[e] = stored[e] /\ session'[e] = session[e]
      BY <2>2 DEF TakePublish, TakePubrel, TypeOK
    <3>2. QED
      BY <1>4, <1>5, <2>2, <3>1 DEF TakePublish, TakePubrel, Types
  <2>3. CASE Refuse(c)
    <3>1. c # d /\ d > conn
      BY <1>3, <1>5, <2>3 DEF Refuse
    <3>2. QED
      BY <2>3, <3>1, CloseEffect DEF Refuse, AheadInv
  <2>4. QED
    BY <1>5, <2>1, <2>2, <2>3 DEF Receive
<1>6. ASSUME NEW c \in Conns, Forget(c)
      PROVE  up'[d] = <<>> /\ stored'[d] = {} /\ session'[d] = "new"
  <2>1. c # d /\ d > conn
    BY <1>3, <1>6 DEF Forget
  <2>2. QED
    BY <1>6, <2>1, CloseEffect DEF Forget, AheadInv
<1>7. CASE Publish \/ Network
  BY <1>1, <1>2, <1>7
  DEF Network, Publish, LoseConnection, Reconnect, OpenSocket, ConnectFails,
      SendConnect, FillQuota, FillDuringPublish, Connack, RetryAll, Pubrec, Pubcomp, broker
<1>8. CASE UNCHANGED vars
  BY <1>1, <1>8 DEF vars, client, broker
<1>9. QED
  BY <1>5, <1>6, <1>7, <1>8 DEF Next

LEMMA FirstStep ==
  TypeOK /\ AheadInv /\ FirstInv /\ [Next]_vars => FirstInv'
<1> SUFFICES ASSUME TypeOK, AheadInv, FirstInv, [Next]_vars PROVE FirstInv'
  OBVIOUS
<1>0. /\ net \in {"loop", "sleep", "resolve", "connect", "reset", "connack"}
      /\ conn \in Conns /\ down \in Seq(Packets)
  BY DEF TypeOK
<1>1. CASE UNCHANGED <<net, active, down, session, conn>>
  BY <1>1 DEF FirstInv, On, Shaking
<1>2. CASE LoseConnection \/ Reconnect \/ OpenSocket \/ ConnectFails
  <2>1. net' \in {"sleep", "resolve", "connect"}
    BY <1>2 DEF LoseConnection, Reconnect, OpenSocket, ConnectFails
  <2>2. down' = <<>>
    BY <1>0, <1>2 DEF FirstInv, On, LoseConnection, Reconnect, OpenSocket, ConnectFails
  <2>3. QED
    BY <2>1, <2>2 DEF FirstInv, On, Shaking
<1>3. CASE SendConnect
  <2>1. conn \in Nat /\ conn' = conn + 1 /\ conn' \in Conns
    BY <1>0, <1>3, SessionAssumption DEF SendConnect, Conns
  <2>2. session'[conn'] = "new" /\ down' = <<>> /\ active' = FALSE /\ net' = "loop"
    BY <1>3, <2>1 DEF SendConnect, AheadInv, FirstInv, On, broker
  <2>3. QED
    BY <2>2 DEF FirstInv, On, Shaking
<1>12. ASSUME net = "loop", net' = "reset", Arrived("CONNACK", 0),
              UNCHANGED <<active, conn, broker, down>>
       PROVE  FirstInv'
  <2>1. 1 \in DOMAIN down /\ down[1].type = "CONNACK" /\ down # <<>>
        /\ Head(down).type = "CONNACK"
    BY <1>0, <1>12 DEF Packet, Arrived
  <2>2. ~active /\ session[conn] # "new"
    BY <1>12, <2>1 DEF FirstInv, On, Shaking
  <2>3. QED
    BY <1>12, <2>1, <2>2 DEF FirstInv, On, Shaking, broker
<1>4. CASE Connack
  <2>1. net = "reset" /\ down # <<>> /\ Head(down) = Packet("CONNACK", 0) /\ down' = Tail(down)
    BY <1>4 DEF Connack, Arrived
  <2>2. 1 \in DOMAIN down /\ down[1].type = "CONNACK"
    BY <1>0, <2>1 DEF Packet
  <2>3. /\ session[conn] # "new" /\ session' = session /\ conn' = conn
        /\ net' = "connack" /\ ~active /\ active' = active
    BY <1>4, <2>1, <2>2 DEF Connack, FirstInv, On, broker
  <2>4. \A i \in DOMAIN down' : down'[i].type # "CONNACK"
    <3>1. \A i \in DOMAIN down' : i + 1 \in DOMAIN down /\ down'[i] = down[i + 1] /\ i + 1 # 1
      BY <1>0, <2>1
    <3>2. QED
      BY <3>1 DEF FirstInv
  <2>5. QED
    BY <2>3, <2>4 DEF FirstInv, On, Shaking
<1>5. CASE RetryAll
  BY <1>5 DEF RetryAll, FirstInv, On, Shaking, broker
<1>6. ASSUME NEW m \in Reports, Pubrec(m) \/ Pubcomp(m) PROVE FirstInv'
  <2>1. /\ net = "loop" /\ net' = net /\ active /\ active' = active
        /\ session' = session /\ conn' = conn
        /\ down # <<>> /\ down' = Tail(down)
    BY <1>6 DEF Pubrec, Pubcomp, Reads, Arrived, broker
  <2>2. \A i \in DOMAIN down' : i + 1 \in DOMAIN down /\ down'[i] = down[i + 1]
    BY <1>0, <2>1
  <2>3. QED
    BY <2>1, <2>2 DEF FirstInv, On, Shaking
<1>7. ASSUME NEW c \in Conns, TakeConnect(c) PROVE FirstInv'
  <2>1. /\ UNCHANGED <<net, active, conn>> /\ session[c] = "new"
        /\ session' = [session EXCEPT ![c] = "active"]
        /\ ~Reading(c) => down' = down
        /\ Reading(c) => down' = Append(down, Packet("CONNACK", 0))
    BY <1>7 DEF TakeConnect, Takes, client
  <2>2. CASE Reading(c)
    <3>1. net = "loop" /\ ~active /\ down = <<>> /\ c = conn
      BY <2>1, <2>2 DEF Reading, FirstInv, On
    <3>2. down' = <<Packet("CONNACK", 0)>> /\ session'[conn] = "active"
      BY <1>0, <2>1, <2>2, <3>1 DEF TypeOK
    <3>3. /\ down' # <<>> /\ Head(down').type = "CONNACK"
          /\ \A i \in DOMAIN down' : i = 1
      BY <3>2 DEF Packet
    <3>4. QED
      BY <2>1, <3>1, <3>2, <3>3 DEF FirstInv, On, Shaking
  <2>3. CASE ~Reading(c)
    <3>1. On => session'[conn] = session[conn]
      BY <1>0, <2>1, <2>3 DEF Reading, On, TypeOK
    <3>2. QED
      BY <2>1, <2>3, <3>1 DEF FirstInv, On, Shaking
  <2>4. QED
    BY <2>2, <2>3
<1>8. ASSUME NEW c \in Conns, NEW m \in Reports, TakePublish(c, m) \/ TakePubrel(c, m)
      PROVE  FirstInv'
  <2>1. /\ UNCHANGED <<net, active, conn, session>> /\ session[c] = "active"
        /\ ~Reading(c) => down' = down
        /\ Reading(c) => \E a \in {"PUBREC", "PUBCOMP"} : down' = Append(down, Packet(a, m))
    BY <1>8 DEF TakePublish, TakePubrel, Takes, client
  <2>2. CASE Reading(c)
    <3>1. c = conn /\ On
      BY <2>2 DEF Reading, On
    <3>2. PICK a \in {"PUBREC", "PUBCOMP"} : down' = Append(down, Packet(a, m))
      BY <2>1, <2>2
    <3>3. Packet(a, m) \in Packets /\ Packet(a, m).type # "CONNACK"
      BY PacketType DEF Types
    <3>4. \A i \in DOMAIN down' : \/ i \in DOMAIN down /\ down'[i] = down[i]
                                \/ down'[i] = Packet(a, m)
      BY <1>0, <3>2, <3>3
    <3>5. \A i \in DOMAIN down' :
            down'[i].type = "CONNACK" => i = 1 /\ Shaking
      BY <3>3, <3>4 DEF FirstInv
    <3>6. down # <<>> => down' # <<>> /\ Head(down') = Head(down)
      BY <1>0, <3>2, <3>3
    <3>7. QED
      BY <2>1, <3>1, <3>5, <3>6 DEF FirstInv, On, Shaking
  <2>3. CASE ~Reading(c)
    BY <2>1, <2>3 DEF FirstInv, On, Shaking
  <2>4. QED
    BY <2>2, <2>3
<1>9. ASSUME NEW c \in Conns, Refuse(c) \/ Forget(c) PROVE FirstInv'
  <2>1. Close(c) /\ UNCHANGED <<net, active, conn>>
    BY <1>9 DEF Refuse, Forget, client
  <2>2. down' = down /\ session'[conn] \in {session[conn], "gone"}
    BY <1>0, <2>1, CloseEffect
  <2>3. QED
    BY <2>1, <2>2 DEF FirstInv, On, Shaking
<1>10. CASE Publish \/ Write \/ UNCHANGED vars
  BY <1>1, <1>10 DEF Publish, Write, vars, client, broker
<1>13. ASSUME FillQuota \/ \E j \in 1..quota : FillDuringPublish(j) PROVE FirstInv'
  BY <1>12, <1>13 DEF FillQuota, FillDuringPublish
<1>11. QED
  BY <1>13, <1>2, <1>3, <1>4, <1>5, <1>6, <1>7, <1>8, <1>9, <1>10 DEF Next, Network, Receive

LEMMA InitPlaces == Init => SocketInv /\ ListInv /\ AheadInv /\ FirstInv
<1> SUFFICES ASSUME Init PROVE SocketInv /\ ListInv /\ AheadInv /\ FirstInv
  OBVIOUS
<1>1. SocketInv /\ ListInv
  BY DEF Init, SocketInv, ListInv
<1>2. \A c \in Conns : c > conn => c # 1
  BY SessionAssumption DEF Init, Conns
<1>3. AheadInv
  BY <1>2 DEF Init, AheadInv
<1>4. 1 \in Conns
  BY SessionAssumption DEF Conns
<1>5. FirstInv
  BY <1>4 DEF Init, FirstInv, On, Shaking
<1>6. QED
  BY <1>1, <1>3, <1>5

(* No PUBREC or PUBCOMP is read before CONNACK, whatever the publishers    *)
(* queue ahead of CONNECT: no protocol error ends the network thread.      *)
THEOREM SessionThreadSurvives == Spec => []ThreadSurvives
<1>1. FirstInv => ThreadSurvives
  BY DEF FirstInv, ThreadSurvives, On, Shaking
<1>2. QED
  BY <1>1, InitPlaces, AheadStep, FirstStep, SessionTypeOK, PTL DEF Spec

-----------------------------------------------------------------------------
(* At most one delivery. While no connection begins crowded, every report  *)
(* has at most one packet on its way, in one direction or the other, on    *)
(* the connection of the client, and once its PUBREL has been sent its     *)
(* PUBLISH is never sent again.                                            *)

\* No packet of r has ever been sent.
Fresh(r) == r > published \/ msgs[r] = "invalid"

\* PUBREL has been sent for r.
Released(r) ==
  \/ msgs[r] \in {"resend_pubrel", "wait_for_pubcomp"}
  \/ msgs[r] = "none" /\ r <= published

\* Before CONNACK what is to be sent again has not been sent.
BeforeRetry == net \in {"resolve", "connect"} \/ (On /\ ~active)

\* The context c can still deliver r.
Live(c, r) ==
  r \in stored[c] /\ (Packet("PUBREL", r) \in Range(up[c]) \/ (c = conn /\ Released(r)))

OutInv ==
  /\ net = "resolve" => out = <<>>
  /\ net = "connect" => \A p \in Range(out) :
       p.type = "PUBLISH" /\ p.mid \in Reports /\ msgs[p.mid] = "wait_for_pubrec"

TokenInv ==
  /\ Single(out) /\ Single(down) /\ \A c \in Conns : Single(up[c])
  /\ On => /\ Mids(out) \cap Mids(up[conn]) = {}
           /\ Mids(out) \cap Mids(down) = {}
           /\ Mids(up[conn]) \cap Mids(down) = {}

FreshInv ==
  \A r \in Reports : Fresh(r) =>
    /\ r \notin Mids(out) /\ r \notin Mids(down)
    /\ \A c \in Conns : r \notin Mids(up[c]) /\ r \notin stored[c]

RetryInv ==
  BeforeRetry => \A r \in Reports :
    /\ msgs[r] # "wait_for_pubcomp"
    /\ msgs[r] \in {"publish_qos2", "resend_pubrel"} =>
         r \notin Mids(out) /\ (On => r \notin Mids(up[conn]) /\ r \notin Mids(down))

UnreleasedInv ==
  \A r \in Reports : ~Released(r) =>
    /\ Packet("PUBREL", r) \notin Range(out)
    /\ \A c \in Conns : Packet("PUBREL", r) \notin Range(up[c])
    /\ Packet("PUBCOMP", r) \notin Range(down)
    /\ r \notin Range(delivered)

ReleasedInv ==
  \A r \in Reports : Released(r) =>
    /\ Packet("PUBLISH", r) \notin Range(out)
    /\ Packet("PUBLISH", r) \notin Range(up[conn])
    /\ Packet("PUBREC", r) \notin Range(down)

LiveInv ==
  /\ IsInjective(delivered)
  /\ \A r \in Reports : \A c \in Conns : Live(c, r) =>
       r \notin Range(delivered) /\ \A d \in Conns : Live(d, r) => c = d

Places == SocketInv /\ ListInv /\ AheadInv /\ FirstInv

Once == OutInv /\ TokenInv /\ FreshInv /\ RetryInv /\ UnreleasedInv /\ ReleasedInv /\ LiveInv

(* The actions that release messages, as far as those are concerned, and   *)
(* the one that only fills the quota.                                      *)
PublishOrFill == Publish \/ FillQuota \/ \E j \in 1..quota : FillDuringPublish(j)

Sending ==
  \E now \in SUBSET Reports :
    /\ \A r \in now : Fresh(r) /\ msgs'[r] = "wait_for_pubrec"
    /\ \A r \in Reports :
         /\ Fresh(r)' => Fresh(r) /\ r \notin now
         /\ Released(r)' <=> Released(r)
         /\ msgs'[r] \in {"publish_qos2", "resend_pubrel", "wait_for_pubcomp"} =>
              msgs'[r] = msgs[r]
         /\ msgs[r] = "wait_for_pubrec" /\ net # "loop" => msgs'[r] = msgs[r]
    /\ ~sock => out' = out
    /\ out' \in Seq(Packets)
    /\ Range(out') \subseteq Range(out) \cup {Packet("PUBLISH", r) : r \in now}
    /\ Mids(out') \subseteq Mids(out) \cup now
    /\ Single(out) /\ now \cap Mids(out) = {} => Single(out')
    /\ Range(down') \subseteq Range(down) /\ Mids(down') \subseteq Mids(down)
    /\ Single(down) => Single(down')
    /\ net' = net \/ (net = "loop" /\ net' = "reset")
    /\ UNCHANGED <<active, sock, conn, up, stored, delivered>>

LEMMA HandsSends ==
  ASSUME TypeOK, ListInv, NEW q \in Nat, Hands(q) PROVE Sending
<1> DEFINE list == [msgs EXCEPT ![published + 1] = "invalid"]
<1>1. /\ list \in [Reports -> States] /\ Release(list, q)
      /\ msgs \in [Reports -> States]
  BY DEF Hands, TypeOK, States
<1>2. published' = published + 1 /\ published \in Nat /\ \A r \in Reports : r \in Nat
  BY ReportsType DEF Hands, TypeOK
<1>3. \A r \in Reports : list[r] = IF r = published + 1 THEN "invalid" ELSE msgs[r]
  BY <1>1
<1>4. published + 1 \in Reports => msgs[published + 1] = "none"
  BY <1>2 DEF ListInv
<1> HIDE DEF list
<1>5. PICK now \in SUBSET Waiting(list) :
        /\ msgs' = [r \in Reports |-> IF r \in now THEN "wait_for_pubrec" ELSE list[r]]
        /\ ~sock => out' = out
        /\ out' \in Seq(Packets)
        /\ Range(out') \subseteq Range(out) \cup {Packet("PUBLISH", r) : r \in now}
        /\ Mids(out') \subseteq Mids(out) \cup now
        /\ Single(out) /\ now \cap Mids(out) = {} => Single(out')
  BY <1>1, ReleaseEffect
<1>6. \A r \in now : r \in Reports /\ list[r] = "invalid"
  BY DEF Waiting
<1>7. \A r \in now : Fresh(r) /\ msgs'[r] = "wait_for_pubrec"
  BY <1>2, <1>3, <1>5, <1>6 DEF Fresh
<1>8. ASSUME NEW r \in Reports
      PROVE  /\ Fresh(r)' => Fresh(r) /\ r \notin now
             /\ Released(r)' <=> Released(r)
             /\ msgs'[r] \in {"publish_qos2", "resend_pubrel", "wait_for_pubcomp"} =>
                  msgs'[r] = msgs[r]
             /\ msgs[r] = "wait_for_pubrec" => msgs'[r] = msgs[r]
  <2>1. CASE r \in now
    <3>1. msgs[r] \in {"invalid", "none"} /\ msgs'[r] = "wait_for_pubrec"
      BY <1>3, <1>4, <1>5, <1>6, <2>1
    <3>2. r <= published + 1
      BY <1>2, <1>3, <1>6, <2>1 DEF ListInv
    <3>3. ~Released(r)
      BY <1>2, <1>3, <1>6, <2>1, <3>1 DEF Released
    <3>4. QED
      BY <1>2, <3>1, <3>2, <3>3 DEF Fresh, Released
  <2>2. CASE r \notin now /\ r = published + 1
    BY <1>2, <1>3, <1>4, <1>5, <2>2 DEF Fresh, Released
  <2>3. CASE r \notin now /\ r # published + 1
    BY <1>2, <1>3, <1>5, <2>3 DEF Fresh, Released
  <2>4. QED
    BY <2>1, <2>2, <2>3
<1>9. /\ UNCHANGED <<active, sock, conn, up, stored, delivered, down>>
      /\ net' = net \/ (net = "loop" /\ net' = "reset")
  BY DEF Hands, broker
<1>10. QED
  BY <1>5, <1>6, <1>7, <1>8, <1>9 DEF Sending

LEMMA PublishSends == TypeOK /\ ListInv /\ PublishOrFill => Sending
<1> SUFFICES ASSUME TypeOK, ListInv, PublishOrFill PROVE Sending
  OBVIOUS
<1>1. CASE FillQuota
  <2>1. /\ UNCHANGED <<msgs, published, out, down, active, sock, conn, up, stored, delivered>>
        /\ net = "loop" /\ net' = "reset" /\ out \in Seq(Packets)
    BY <1>1 DEF FillQuota, broker, TypeOK
  <2>2. \A r \in Reports : (Fresh(r)' <=> Fresh(r)) /\ (Released(r)' <=> Released(r))
    BY <2>1 DEF Fresh, Released
  <2>3. {} \in SUBSET Reports
    OBVIOUS
  <2>4. QED
    BY <2>1, <2>2, <2>3 DEF Sending
<1>2. QED
  BY <1>1, PublishHands, HandsSends DEF PublishOrFill

LEMMA PubcompSends ==
  ASSUME TypeOK, ListInv, UnreleasedInv, NEW m \in Reports, Pubcomp(m) PROVE Sending
<1> DEFINE list == [msgs EXCEPT ![m] = "none"]
           q == IF quota < Inflight THEN quota + 1 ELSE quota
<1>1. /\ list \in [Reports -> States] /\ q \in 0..Inflight
      /\ msgs \in [Reports -> States]
  BY SessionAssumption DEF TypeOK, States
<1>2. Release(list, q) /\ published' = published
  BY DEF Pubcomp
<1>3. \A r \in Reports : list[r] = IF r = m THEN "none" ELSE msgs[r]
  BY <1>1
<1>q. q \in Nat
  BY <1>1
<1> HIDE DEF list, q
<1>4. PICK now \in SUBSET Waiting(list) :
        /\ msgs' = [r \in Reports |-> IF r \in now THEN "wait_for_pubrec" ELSE list[r]]
        /\ ~sock => out' = out
        /\ out' \in Seq(Packets)
        /\ Range(out') \subseteq Range(out) \cup {Packet("PUBLISH", r) : r \in now}
        /\ Mids(out') \subseteq Mids(out) \cup now
        /\ Single(out) /\ now \cap Mids(out) = {} => Single(out')
  BY <1>1, <1>2, <1>q, ReleaseEffect
<1>5. \A r \in now : r \in Reports /\ list[r] = "invalid" /\ r # m /\ msgs[r] = "invalid"
  BY <1>3 DEF Waiting
<1>6. /\ Packet("PUBCOMP", m) \in Range(down) /\ net = "loop"
      /\ Range(down') \subseteq Range(down) /\ Mids(down') \subseteq Mids(down)
      /\ Single(down) => Single(down')
  BY ReadsEffect DEF Pubcomp, Reads
<1>7. Released(m) /\ published \in Nat /\ m \in Nat
  BY <1>6, ReportsType DEF UnreleasedInv, TypeOK
<1>8. m <= published
  BY <1>7 DEF Released, ListInv
<1>9. ASSUME NEW r \in Reports
      PROVE  /\ Fresh(r)' => Fresh(r) /\ r \notin now
             /\ Released(r)' <=> Released(r)
             /\ msgs'[r] \in {"publish_qos2", "resend_pubrel", "wait_for_pubcomp"} =>
                  msgs'[r] = msgs[r]
  <2>1. CASE r \in now
    <3>1. msgs[r] = "invalid" /\ msgs'[r] = "wait_for_pubrec"
      BY <1>4, <1>5, <2>1
    <3>2. ~(r > published)
      BY <3>1 DEF ListInv
    <3>3. QED
      BY <1>2, <3>1, <3>2 DEF Fresh, Released
  <2>2. CASE r \notin now /\ r = m
    <3>1. msgs'[r] = "none"
      BY <1>3, <1>4, <2>2
    <3>2. QED
      BY <1>2, <1>7, <1>8, <2>2, <3>1 DEF Fresh, Released
  <2>3. CASE r \notin now /\ r # m
    <3>1. msgs'[r] = msgs[r]
      BY <1>3, <1>4, <2>3
    <3>2. QED
      BY <1>2, <2>3, <3>1 DEF Fresh, Released
  <2>4. QED
    BY <2>1, <2>2, <2>3
<1>10. UNCHANGED <<net, active, sock, conn, up, stored, delivered>>
  BY DEF Pubcomp, broker
<1>11. \A r \in now : Fresh(r) /\ msgs'[r] = "wait_for_pubrec"
  BY <1>4, <1>5 DEF Fresh
<1>12. QED
  BY <1>4, <1>5, <1>6, <1>9, <1>10, <1>11 DEF Sending

LEMMA SameStates ==
  ASSUME msgs' = msgs, published' = published, NEW r \in Reports
  PROVE  (Fresh(r)' <=> Fresh(r)) /\ (Released(r)' <=> Released(r))
BY DEF Fresh, Released

LEMMA OutStep ==
  ASSUME TypeOK, Places, Once, Next PROVE OutInv'
<1>0. /\ net \in {"loop", "sleep", "resolve", "connect", "reset", "connack"}
      /\ Range(<<>>) = {}
  BY NoPackets DEF TypeOK
<1>1. CASE Sending
  <2>1. PICK now \in SUBSET Reports :
          /\ \A r \in now : msgs'[r] = "wait_for_pubrec"
          /\ \A r \in Reports :
               msgs[r] = "wait_for_pubrec" /\ net # "loop" => msgs'[r] = msgs[r]
          /\ ~sock => out' = out
          /\ Range(out') \subseteq Range(out) \cup {Packet("PUBLISH", r) : r \in now}
          /\ net' = net \/ net' = "reset"
    BY <1>1 DEF Sending
  <2>2. net' = "resolve" => out' = <<>>
    BY <2>1 DEF Places, SocketInv, Once, OutInv
  <2>3. ASSUME net' = "connect", NEW p \in Range(out')
        PROVE  p.type = "PUBLISH" /\ p.mid \in Reports /\ msgs'[p.mid] = "wait_for_pubrec"
    <3>1. CASE p \in Range(out)
      BY <2>1, <2>3, <3>1 DEF Once, OutInv
    <3>2. CASE \E r \in now : p = Packet("PUBLISH", r)
      BY <2>1, <3>2 DEF Packet
    <3>3. QED
      BY <2>1, <2>3, <3>1, <3>2
  <2>4. QED
    BY <2>2, <2>3 DEF OutInv
<1>2. CASE Reconnect
  BY <1>2 DEF Reconnect, OutInv
<1>3. CASE OpenSocket
  BY <1>0, <1>3 DEF OpenSocket, Once, OutInv
<1>4. CASE Write \/ LoseConnection \/ ConnectFails \/ SendConnect \/ Connack \/ RetryAll
  BY <1>4 DEF Write, LoseConnection, ConnectFails, SendConnect, Connack, RetryAll, OutInv
<1>5. ASSUME NEW m \in Reports, Pubrec(m) PROVE OutInv'
  BY <1>5 DEF Pubrec, Reads, OutInv
<1>6. ASSUME NEW c \in Conns, Receive(c) \/ Forget(c) PROVE OutInv'
  <2>1. UNCHANGED <<net, out, msgs>>
    BY <1>6 DEF Receive, Forget, TakeConnect, TakePublish, TakePubrel, Refuse, client
  <2>2. QED
    BY <2>1 DEF Once, OutInv
<1>7. CASE PublishOrFill
  BY <1>1, <1>7, PublishSends DEF Places
<1>8. ASSUME NEW m \in Reports, Pubcomp(m) PROVE OutInv'
  BY <1>1, <1>8, PubcompSends DEF Places, Once
<1>9. QED
  BY <1>2, <1>3, <1>4, <1>5, <1>6, <1>7, <1>8 DEF Next, Network, PublishOrFill

LEMMA TokenStep ==
  ASSUME TypeOK, Places, Once, Next PROVE TokenInv'
<1>0. /\ conn \in Conns /\ out \in Seq(Packets) /\ down \in Seq(Packets)
      /\ up \in [Conns -> Seq(Packets)]
      /\ Mids(<<>>) = {} /\ Single(<<>>)
      /\ Single(out) /\ Single(down) /\ \A c \in Conns : Single(up[c])
      /\ \A r \in Reports : r # 0 /\ r \in Nat
  BY NoPackets, ReportsType DEF TypeOK, Once, TokenInv, Reports
<1>1. CASE Sending
  <2>1. PICK now \in SUBSET Reports :
          /\ \A r \in now : Fresh(r)
          /\ Mids(out') \subseteq Mids(out) \cup now
          /\ Single(out) /\ now \cap Mids(out) = {} => Single(out')
          /\ Mids(down') \subseteq Mids(down)
          /\ Single(down) => Single(down')
          /\ (On' <=> On) /\ UNCHANGED <<conn, up>>
    BY <1>1 DEF Sending, On
  <2>2. \A r \in now : r \notin Mids(out) /\ r \notin Mids(down) /\ r \notin Mids(up[conn])
    BY <1>0, <2>1 DEF Once, FreshInv
  <2>3. Single(out') /\ Single(down') /\ \A c \in Conns : Single(up'[c])
    BY <1>0, <2>1, <2>2
  <2>4. On' => /\ Mids(out') \cap Mids(up'[conn']) = {}
               /\ Mids(out') \cap Mids(down') = {}
               /\ Mids(up'[conn']) \cap Mids(down') = {}
    BY <2>1, <2>2 DEF Once, TokenInv, On
  <2>5. QED
    BY <2>3, <2>4 DEF TokenInv
<1>2. CASE Write
  <2> DEFINE h == Head(out).mid
  <2>1. /\ h \in Mids(out) /\ Mids(out') \subseteq Mids(out)
        /\ Single(out') /\ h \notin Mids(out')
        /\ \A d \in Conns \ {conn} : up'[d] = up[d]
        /\ Mids(up'[conn]) \subseteq Mids(up[conn]) \cup {h}
        /\ Single(up[conn]) /\ h \notin Mids(up[conn]) => Single(up'[conn])
        /\ net = "loop" /\ UNCHANGED <<net, conn, down>>
    BY <1>0, <1>2, WriteEffect DEF Write
  <2> HIDE DEF h
  <2>2. /\ Mids(out) \cap Mids(up[conn]) = {} /\ Mids(out) \cap Mids(down) = {}
        /\ Mids(up[conn]) \cap Mids(down) = {}
    BY <2>1 DEF Once, TokenInv, On
  <2>3. h \notin Mids(up[conn]) /\ h \notin Mids(down)
    BY <2>1, <2>2
  <2>4. \A c \in Conns : Single(up'[c])
    BY <1>0, <2>1, <2>3
  <2>5. /\ Mids(out') \cap Mids(up'[conn']) = {}
        /\ Mids(out') \cap Mids(down') = {}
        /\ Mids(up'[conn']) \cap Mids(down') = {}
    BY <2>1, <2>2, <2>3
  <2>6. QED
    BY <1>0, <2>1, <2>4, <2>5 DEF TokenInv
<1>3. CASE LoseConnection \/ Reconnect \/ OpenSocket \/ ConnectFails
  <2>1. ~On' /\ up' = up /\ down' \in {down, <<>>} /\ out' \in {out, <<>>}
    BY <1>3 DEF LoseConnection, Reconnect, OpenSocket, ConnectFails, On
  <2>2. QED
    BY <1>0, <2>1 DEF TokenInv
<1>4. CASE SendConnect
  <2>1. /\ net = "connect" /\ conn' = conn + 1 /\ conn' \in Conns /\ conn \in Nat
        /\ out' = Append(out, Packet("CONNECT", 0)) /\ UNCHANGED <<up, down>>
    BY <1>0, <1>4, SessionAssumption DEF SendConnect, Conns, broker
  <2>2. down = <<>> /\ up'[conn'] = <<>>
    BY <2>1 DEF Places, FirstInv, AheadInv, On
  <2>3. 0 \notin Mids(out)
    BY <1>0, <2>1 DEF Mids, Once, OutInv
  <2>4. Packet("CONNECT", 0) \in Packets /\ Packet("CONNECT", 0).mid = 0
    BY PacketType DEF Types
  <2>5. Single(out')
    BY <1>0, <2>1, <2>3, <2>4, AppendPacket
  <2>6. QED
    BY <1>0, <2>1, <2>2, <2>5 DEF TokenInv
<1>5. CASE Connack
  <2>1. /\ net = "reset" /\ Mids(down') \subseteq Mids(down) /\ Single(down')
        /\ UNCHANGED <<out, up, conn>>
    BY <1>0, <1>5, ReadsEffect DEF Connack
  <2>2. QED
    BY <1>0, <2>1 DEF Once, TokenInv, On
<1>6. CASE RetryAll
  <2>1. net = "connack" /\ UNCHANGED <<up, down, conn>>
    BY <1>6 DEF RetryAll
  <2>2. BeforeRetry /\ On
    BY <2>1 DEF BeforeRetry, On, Places, FirstInv
  <2>3. /\ Retried \cap Mids(out) = {} /\ Retried \cap Mids(up[conn]) = {}
        /\ Retried \cap Mids(down) = {}
    BY <2>2 DEF Once, RetryInv, Retried
  <2>4. Single(out') /\ Mids(out') \subseteq Mids(out) \cup Retried
    BY <1>0, <1>6, <2>3, RetryEffect
  <2>5. /\ Mids(out) \cap Mids(up[conn]) = {} /\ Mids(out) \cap Mids(down) = {}
        /\ Mids(up[conn]) \cap Mids(down) = {}
    BY <2>2 DEF Once, TokenInv
  <2>6. /\ Mids(out') \cap Mids(up'[conn']) = {}
        /\ Mids(out') \cap Mids(down') = {}
        /\ Mids(up'[conn']) \cap Mids(down') = {}
    BY <2>1, <2>3, <2>4, <2>5
  <2>7. QED
    BY <1>0, <2>1, <2>4, <2>6 DEF TokenInv
<1>7. ASSUME NEW m \in Reports, Pubrec(m) PROVE TokenInv'
  <2>1. /\ net = "loop" /\ m \in Mids(down) /\ Mids(down') \subseteq Mids(down)
        /\ Single(down') /\ m \notin Mids(down')
        /\ out' = Append(out, Packet("PUBREL", m)) /\ UNCHANGED <<up, conn>>
    BY <1>0, <1>7, ReadsEffect DEF Pubrec, Reads
  <2>2. /\ Mids(out) \cap Mids(up[conn]) = {} /\ Mids(out) \cap Mids(down) = {}
        /\ Mids(up[conn]) \cap Mids(down) = {}
    BY <2>1 DEF Once, TokenInv, On
  <2>3. m \notin Mids(out) /\ m \notin Mids(up[conn])
    BY <2>1, <2>2
  <2>4. Single(out') /\ Mids(out') = Mids(out) \cup {m}
    <3>1. Packet("PUBREL", m) \in Packets /\ Packet("PUBREL", m).mid = m
      BY PacketType DEF Types
    <3>2. QED
      BY <1>0, <2>1, <2>3, <3>1, AppendPacket
  <2>5. /\ Mids(out') \cap Mids(up'[conn']) = {}
        /\ Mids(out') \cap Mids(down') = {}
        /\ Mids(up'[conn']) \cap Mids(down') = {}
    BY <2>1, <2>2, <2>3, <2>4
  <2>6. QED
    BY <1>0, <2>1, <2>4, <2>5 DEF TokenInv
<1>8. ASSUME NEW c \in Conns, NEW t, NEW m \in Reports \cup {0}, NEW a \in Types,
             Takes(c, t, m, a), UNCHANGED client
      PROVE  TokenInv'
  <2>1. /\ m \in Mids(up[c])
        /\ \A d \in Conns : Mids(up'[d]) \subseteq Mids(up[d]) /\ Single(up'[d])
        /\ m \notin Mids(up'[c])
        /\ Reading(c) \/ down' = down
        /\ Mids(down') \subseteq Mids(down) \cup {m}
        /\ Single(down) /\ m \notin Mids(down) => Single(down')
    BY <1>0, <1>8, TakesEffect, Zenon
  <2>2. UNCHANGED <<net, conn, out>>
    BY <1>8 DEF client
  <2>3. CASE Reading(c)
    <3>1. c = conn /\ On
      BY <2>3 DEF Reading, On
    <3>2. /\ Mids(out) \cap Mids(up[conn]) = {} /\ Mids(out) \cap Mids(down) = {}
          /\ Mids(up[conn]) \cap Mids(down) = {}
      BY <3>1 DEF Once, TokenInv
    <3>3. Single(down')
      BY <1>0, <2>1, <3>1, <3>2
    <3>4. /\ Mids(out') \cap Mids(up'[conn']) = {}
          /\ Mids(out') \cap Mids(down') = {}
          /\ Mids(up'[conn']) \cap Mids(down') = {}
      BY <1>0, <2>1, <2>2, <3>1, <3>2
    <3>5. QED
      BY <1>0, <2>1, <2>2, <3>3, <3>4 DEF TokenInv
  <2>4. CASE ~Reading(c)
    <3>1. down' = down
      BY <2>1, <2>4
    <3>2. On' => /\ Mids(out') \cap Mids(up'[conn']) = {}
                 /\ Mids(out') \cap Mids(down') = {}
                 /\ Mids(up'[conn']) \cap Mids(down') = {}
      BY <1>0, <2>1, <2>2, <3>1 DEF Once, TokenInv, On
    <3>3. QED
      BY <1>0, <2>1, <2>2, <3>1, <3>2 DEF TokenInv
  <2>5. QED
    BY <2>3, <2>4
<1>9. ASSUME NEW c \in Conns, Close(c), UNCHANGED client PROVE TokenInv'
  <2>1. /\ up'[c] = <<>> /\ \A d \in Conns \ {c} : up'[d] = up[d]
        /\ down' = down /\ UNCHANGED <<net, conn, out>>
    BY <1>9, CloseEffect DEF client
  <2>2. \A d \in Conns : Mids(up'[d]) \subseteq Mids(up[d]) /\ Single(up'[d])
    BY <1>0, <2>1
  <2>3. QED
    BY <1>0, <2>1, <2>2 DEF Once, TokenInv, On
<1>10. ASSUME NEW c \in Conns, Receive(c) \/ Forget(c) PROVE TokenInv'
  <2>1. \/ \E m \in Reports \cup {0}, t \in Types, a \in Types : Takes(c, t, m, a)
        \/ Close(c)
    BY <1>10
    DEF Receive, Forget, TakeConnect, TakePublish, TakePubrel, Refuse, Types
  <2>2. UNCHANGED client
    BY <1>10 DEF Receive, Forget, TakeConnect, TakePublish, TakePubrel, Refuse
  <2>3. QED
    BY <1>8, <1>9, <2>1, <2>2
<1>11. CASE PublishOrFill
  BY <1>1, <1>11, PublishSends DEF Places
<1>12. ASSUME NEW m \in Reports, Pubcomp(m) PROVE TokenInv'
  BY <1>1, <1>12, PubcompSends DEF Places, Once
<1>13. QED
  BY <1>2, <1>3, <1>4, <1>5, <1>6, <1>7, <1>10, <1>11, <1>12 DEF Next, Network, PublishOrFill

(* What a connection that begins does to the messages, unless it begins    *)
(* crowded.                                                                *)
LEMMA ReconnectStates ==
  ASSUME TypeOK, Reconnect, ~crowded', NEW r \in Reports
  PROVE  /\ Fresh(r)' <=> Fresh(r)
         /\ Released(r)' <=> Released(r)
         /\ msgs'[r] # "wait_for_pubcomp"
<1>1. Reset(FALSE) /\ published' = published
  BY DEF Reconnect
<1>2. /\ msgs'[r] = "none" <=> msgs[r] = "none"
      /\ msgs[r] # "none" => msgs'[r] = ResetState(msgs[r])
  BY <1>1, ResetEffect
<1>3. msgs[r] \in States
  BY DEF TypeOK
<1>4. QED
  BY <1>1, <1>2, <1>3 DEF Fresh, Released, ResetState, States

LEMMA ConnackStates ==
  ASSUME TypeOK, Connack, ~crowded', NEW r \in Reports
  PROVE  /\ Fresh(r)' <=> Fresh(r)
         /\ Released(r)' <=> Released(r)
         /\ msgs'[r] = msgs[r]
<1>1. Reset(TRUE) /\ published' = published
  BY DEF Connack
<1>2. /\ msgs'[r] = "none" <=> msgs[r] = "none"
      /\ msgs[r] # "none" => msgs'[r] = msgs[r]
  BY <1>1, ResetEffect
<1>3. QED
  BY <1>1, <1>2 DEF Fresh, Released

\* PUBREC is read for a message whose PUBREL has not been sent.
LEMMA PubrecStates ==
  ASSUME TypeOK, Places, Once, NEW m \in Reports, Pubrec(m)
  PROVE  /\ ~Released(m) /\ ~Fresh(m) /\ Released(m)'
         /\ \A r \in Reports : /\ Fresh(r)' => Fresh(r)
                               /\ r # m => (Released(r)' <=> Released(r))
<1>1. /\ Packet("PUBREC", m) \in Range(down) /\ m \in Mids(down)
      /\ msgs' = [msgs EXCEPT ![m] = IF @ = "none" THEN @ ELSE "wait_for_pubcomp"]
      /\ published' = published
  BY ReadsEffect DEF Pubrec, Reads
<1>2. ~Released(m) /\ ~Fresh(m)
  BY <1>1 DEF Once, ReleasedInv, FreshInv
<1>3. \A r \in Reports : msgs'[r] = IF r = m /\ msgs[m] # "none" THEN "wait_for_pubcomp"
                                    ELSE msgs[r]
  BY <1>1 DEF TypeOK
<1>4. m \in Nat /\ published \in Nat
  BY ReportsType DEF TypeOK
<1>5. Released(m)'
  BY <1>1, <1>2, <1>3, <1>4 DEF Released, Fresh
<1>6. QED
  BY <1>1, <1>2, <1>3, <1>5 DEF Released, Fresh

\* What the broker does with a packet, as far as the messages are concerned.
LEMMA ReceiveForms ==
  ASSUME NEW c \in Conns, Receive(c) \/ Forget(c)
  PROVE  /\ UNCHANGED client
         /\ \/ TakeConnect(c)
            \/ \E m \in Reports : TakePublish(c, m) \/ TakePubrel(c, m)
            \/ Close(c)
BY DEF Receive, Forget, TakeConnect, TakePublish, TakePubrel, Refuse

LEMMA TakesForms ==
  ASSUME TypeOK, NEW c \in Conns,
         TakeConnect(c) \/ \E m \in Reports : TakePublish(c, m) \/ TakePubrel(c, m)
  PROVE  \E t \in Types, m \in Reports \cup {0}, a \in Types :
           /\ Takes(c, t, m, a)
           /\ \/ t = "CONNECT" /\ a = "CONNACK" /\ m = 0
              \/ t = "PUBLISH" /\ a = "PUBREC" /\ m \in Reports
              \/ t = "PUBREL" /\ a = "PUBCOMP" /\ m \in Reports
           /\ stored'[c] \subseteq stored[c] \cup {m}
           /\ \A d \in Conns \ {c} : stored'[d] = stored[d]
           /\ Range(delivered') \subseteq Range(delivered) \cup {m}
           /\ t # "PUBREL" => delivered' = delivered
<1>0. /\ stored \in [Conns -> SUBSET Reports] /\ delivered \in Seq(Reports)
      /\ {"CONNECT", "CONNACK", "PUBLISH", "PUBREC", "PUBREL", "PUBCOMP"} = Types
  BY DEF TypeOK, Types
<1>1. CASE TakeConnect(c)
  BY <1>0, <1>1 DEF TakeConnect
<1>2. ASSUME NEW m \in Reports, TakePublish(c, m)
      PROVE  /\ Takes(c, "PUBLISH", m, "PUBREC") /\ delivered' = delivered
             /\ stored'[c] \subseteq stored[c] \cup {m}
             /\ \A d \in Conns \ {c} : stored'[d] = stored[d]
  BY <1>0, <1>2 DEF TakePublish
<1>3. ASSUME NEW m \in Reports, TakePubrel(c, m)
      PROVE  /\ Takes(c, "PUBREL", m, "PUBCOMP")
             /\ stored'[c] \subseteq stored[c] \cup {m}
             /\ \A d \in Conns \ {c} : stored'[d] = stored[d]
             /\ Range(delivered') \subseteq Range(delivered) \cup {m}
  <2>1. /\ Takes(c, "PUBREL", m, "PUBCOMP")
        /\ stored' = [stored EXCEPT ![c] = @ \ {m}]
        /\ delivered' = IF m \in stored[c] THEN Append(delivered, m) ELSE delivered
    BY <1>3 DEF TakePubrel
  <2>2. Range(Append(delivered, m)) = Range(delivered) \cup {m}
    BY <1>0, AppendProperties DEF Range
  <2>3. QED
    BY <1>0, <2>1, <2>2
<1>4. CASE \E m \in Reports : TakePublish(c, m)
  BY <1>0, <1>2, <1>4
<1>5. CASE \E m \in Reports : TakePubrel(c, m)
  BY <1>0, <1>3, <1>5
<1>6. QED
  BY <1>1, <1>4, <1>5

LEMMA FreshStep ==
  ASSUME TypeOK, Places, Once, Next, ~crowded' PROVE FreshInv'
<1>0. /\ conn \in Conns /\ out \in Seq(Packets) /\ Mids(<<>>) = {}
      /\ \A r \in Reports : r # 0 /\ r \in Nat
  BY NoPackets, ReportsType DEF TypeOK, Reports
<1>1. CASE Sending
  <2>1. PICK now \in SUBSET Reports :
          /\ \A r \in Reports : Fresh(r)' => Fresh(r) /\ r \notin now
          /\ Mids(out') \subseteq Mids(out) \cup now
          /\ Mids(down') \subseteq Mids(down)
          /\ UNCHANGED <<up, stored>>
    BY <1>1 DEF Sending
  <2>2. QED
    BY <2>1 DEF Once, FreshInv
<1>2. CASE Write
  <2>1. /\ Head(out).mid \in Mids(out) /\ Mids(out') \subseteq Mids(out)
        /\ \A d \in Conns \ {conn} : up'[d] = up[d]
        /\ Mids(up'[conn]) \subseteq Mids(up[conn]) \cup {Head(out).mid}
    BY <1>2, WriteEffect
  <2>2. \A d \in Conns : Mids(up'[d]) \subseteq Mids(up[d]) \cup Mids(out)
    BY <1>0, <2>1
  <2>3. UNCHANGED <<msgs, published, down, stored>>
    BY <1>2 DEF Write, broker
  <2>4. QED
    BY <2>1, <2>2, <2>3, SameStates DEF Once, FreshInv
<1>3. CASE LoseConnection \/ OpenSocket \/ ConnectFails
  <2>1. UNCHANGED <<msgs, published, out, up, stored>> /\ down' \in {down, <<>>}
    BY <1>3 DEF LoseConnection, OpenSocket, ConnectFails, broker
  <2>2. QED
    BY <1>0, <2>1, SameStates DEF Once, FreshInv
<1>4. CASE Reconnect
  <2>1. out' = <<>> /\ UNCHANGED <<down, up, stored>>
    BY <1>4 DEF Reconnect, broker
  <2>2. QED
    BY <1>0, <1>4, <2>1, ReconnectStates DEF Once, FreshInv
<1>5. CASE SendConnect
  <2>1. /\ out' = Append(out, Packet("CONNECT", 0))
        /\ UNCHANGED <<msgs, published, down, up, stored>>
    BY <1>5 DEF SendConnect, broker
  <2>2. Mids(out') = Mids(out) \cup {0}
    <3>1. Packet("CONNECT", 0) \in Packets /\ Packet("CONNECT", 0).mid = 0
      BY PacketType DEF Types
    <3>2. QED
      BY <1>0, <2>1, <3>1, AppendPacket
  <2>3. QED
    BY <1>0, <2>1, <2>2, SameStates DEF Once, FreshInv
<1>6. CASE Connack
  <2>1. Mids(down') \subseteq Mids(down) /\ UNCHANGED <<out, up, stored>>
    BY <1>6, ReadsEffect DEF Connack, broker
  <2>2. QED
    BY <1>6, <2>1, ConnackStates DEF Once, FreshInv
<1>7. CASE RetryAll
  <2>1. Mids(out') \subseteq Mids(out) \cup Retried
    BY <1>7, RetryEffect
  <2>2. UNCHANGED <<msgs, published, up, down, stored>>
    BY <1>7 DEF RetryAll, broker
  <2>3. \A r \in Reports : Fresh(r) => r \notin Retried
    BY DEF Fresh, Retried, Places, ListInv
  <2>4. QED
    BY <2>1, <2>2, <2>3, SameStates DEF Once, FreshInv
<1>8. ASSUME NEW m \in Reports, Pubrec(m) PROVE FreshInv'
  <2>1. /\ Mids(down') \subseteq Mids(down) /\ UNCHANGED <<up, stored>>
        /\ out' = Append(out, Packet("PUBREL", m))
    BY <1>8, ReadsEffect DEF Pubrec, Reads, broker
  <2>2. Mids(out') = Mids(out) \cup {m}
    <3>1. Packet("PUBREL", m) \in Packets /\ Packet("PUBREL", m).mid = m
      BY PacketType DEF Types
    <3>2. QED
      BY <1>0, <2>1, <3>1, AppendPacket
  <2>3. ~Fresh(m) /\ \A r \in Reports : Fresh(r)' => Fresh(r)
    BY <1>8, PubrecStates
  <2>4. QED
    BY <2>1, <2>2, <2>3 DEF Once, FreshInv
<1>9. ASSUME NEW c \in Conns, Receive(c) \/ Forget(c) PROVE FreshInv'
  <2>0. UNCHANGED <<msgs, published, out>>
    BY <1>9, ReceiveForms DEF client
  <2>1. CASE Close(c)
    <3>1. \A d \in Conns : Mids(up'[d]) \subseteq Mids(up[d]) /\ stored'[d] \subseteq stored[d]
      BY <1>0, <2>1, CloseEffect
    <3>2. down' = down
      BY <2>1, CloseEffect
    <3>3. QED
      BY <2>0, <3>1, <3>2, SameStates DEF Once, FreshInv
  <2>2. ASSUME ~Close(c) PROVE FreshInv'
    <3>1. PICK t \in Types, m \in Reports \cup {0}, a \in Types :
            /\ Takes(c, t, m, a)
            /\ stored'[c] \subseteq stored[c] \cup {m}
            /\ \A d \in Conns \ {c} : stored'[d] = stored[d]
      BY <1>9, <2>2, ReceiveForms, TakesForms
    <3>2. /\ m \in Mids(up[c])
          /\ \A d \in Conns : Mids(up'[d]) \subseteq Mids(up[d])
          /\ Mids(down') \subseteq Mids(down) \cup {m}
      BY <3>1, TakesEffect
    <3>3. QED
      BY <2>0, <3>1, <3>2, SameStates DEF Once, FreshInv
  <2>3. QED
    BY <2>1, <2>2
<1>10. CASE PublishOrFill
  BY <1>1, <1>10, PublishSends DEF Places
<1>11. ASSUME NEW m \in Reports, Pubcomp(m) PROVE FreshInv'
  BY <1>1, <1>11, PubcompSends DEF Places, Once
<1>12. QED
  BY <1>2, <1>3, <1>4, <1>5, <1>6, <1>7, <1>8, <1>9, <1>10, <1>11 DEF Next, Network, PublishOrFill

LEMMA RetryStep ==
  ASSUME TypeOK, Places, Once, Next, ~crowded' PROVE RetryInv'
<1>0. /\ conn \in Conns /\ out \in Seq(Packets) /\ Mids(<<>>) = {}
      /\ \A r \in Reports : r # 0 /\ r \in Nat
      /\ msgs \in [Reports -> States]
  BY NoPackets, ReportsType DEF TypeOK, Reports
<1>1. CASE Sending
  <2>1. PICK now \in SUBSET Reports :
          /\ \A r \in now : msgs'[r] = "wait_for_pubrec"
          /\ \A r \in Reports :
               msgs'[r] \in {"publish_qos2", "resend_pubrel", "wait_for_pubcomp"} =>
                 msgs'[r] = msgs[r]
          /\ Mids(out') \subseteq Mids(out) \cup now
          /\ Mids(down') \subseteq Mids(down)
          /\ net' = net \/ (net = "loop" /\ net' = "reset")
          /\ UNCHANGED <<active, conn, up>>
    BY <1>1 DEF Sending
  <2>2. (BeforeRetry' <=> BeforeRetry) /\ (On' <=> On)
    BY <2>1 DEF BeforeRetry, On
  <2>3. QED
    BY <2>1, <2>2 DEF Once, RetryInv
<1>2. CASE Write
  <2>1. /\ Head(out).mid \in Mids(out) /\ Mids(out') \subseteq Mids(out)
        /\ Mids(up'[conn]) \subseteq Mids(up[conn]) \cup {Head(out).mid}
    BY <1>2, WriteEffect
  <2>2. UNCHANGED <<msgs, net, active, conn, down>>
    BY <1>2 DEF Write
  <2>3. (BeforeRetry' <=> BeforeRetry) /\ (On' <=> On)
    BY <2>2 DEF BeforeRetry, On
  <2>4. QED
    BY <2>1, <2>2, <2>3 DEF Once, RetryInv
<1>3. CASE LoseConnection \/ ConnectFails \/ RetryAll
  BY <1>3 DEF LoseConnection, ConnectFails, RetryAll, RetryInv, BeforeRetry, On
<1>4. CASE OpenSocket
  <2>1. UNCHANGED <<msgs, out>> /\ net = "resolve" /\ ~On'
    BY <1>4 DEF OpenSocket, On
  <2>2. QED
    BY <2>1 DEF Once, RetryInv, BeforeRetry
<1>5. CASE Reconnect
  <2>1. out' = <<>> /\ ~On'
    BY <1>5 DEF Reconnect, On
  <2>2. QED
    BY <1>0, <1>5, <2>1, ReconnectStates DEF RetryInv
<1>6. CASE SendConnect
  <2>1. /\ net = "connect" /\ conn' = conn + 1 /\ conn' \in Conns /\ conn \in Nat
        /\ out' = Append(out, Packet("CONNECT", 0)) /\ UNCHANGED <<up, down, msgs>>
    BY <1>0, <1>6, SessionAssumption DEF SendConnect, Conns, broker
  <2>2. down = <<>> /\ up'[conn'] = <<>>
    BY <2>1 DEF Places, FirstInv, AheadInv, On
  <2>3. Mids(out') = Mids(out) \cup {0}
    <3>1. Packet("CONNECT", 0) \in Packets /\ Packet("CONNECT", 0).mid = 0
      BY PacketType DEF Types
    <3>2. QED
      BY <1>0, <2>1, <3>1, AppendPacket
  <2>4. QED
    BY <1>0, <2>1, <2>2, <2>3 DEF Once, RetryInv, BeforeRetry
<1>7. CASE Connack
  <2>1. /\ net = "reset" /\ net' = "connack" /\ Mids(down') \subseteq Mids(down)
        /\ UNCHANGED <<active, conn, out, up>>
    BY <1>7, ReadsEffect DEF Connack, broker
  <2>2. (BeforeRetry' <=> BeforeRetry) /\ (On' <=> On)
    BY <2>1 DEF BeforeRetry, On
  <2>3. QED
    BY <1>7, <2>1, <2>2, ConnackStates DEF Once, RetryInv
<1>8. ASSUME NEW m \in Reports, Pubrec(m) \/ Pubcomp(m) PROVE RetryInv'
  <2>1. net' = "loop" /\ active'
    BY <1>8 DEF Pubrec, Pubcomp, Reads
  <2>2. QED
    BY <2>1 DEF RetryInv, BeforeRetry
<1>9. ASSUME NEW c \in Conns, Receive(c) \/ Forget(c) PROVE RetryInv'
  <2>0. UNCHANGED <<msgs, net, active, conn, out>>
    BY <1>9, ReceiveForms DEF client
  <2>1. (BeforeRetry' <=> BeforeRetry) /\ (On' <=> On)
    BY <2>0 DEF BeforeRetry, On
  <2>2. Mids(up'[conn]) \subseteq Mids(up[conn])
        /\ (On => Mids(down') \subseteq Mids(down) \cup Mids(up[conn]))
    <3>1. CASE Close(c)
      <4>1. down' = down /\ up'[conn] \in {<<>>, up[conn]}
        BY <1>0, <3>1, CloseEffect
      <4>2. QED
        BY <1>0, <4>1
    <3>2. ASSUME ~Close(c)
          PROVE  Mids(up'[conn]) \subseteq Mids(up[conn])
                 /\ (On => Mids(down') \subseteq Mids(down) \cup Mids(up[conn]))
      <4>1. PICK t \in Types, m \in Reports \cup {0}, a \in Types : Takes(c, t, m, a)
        BY <1>9, <3>2, ReceiveForms, TakesForms
      <4>2. /\ m \in Mids(up[c])
            /\ \A d \in Conns : Mids(up'[d]) \subseteq Mids(up[d])
            /\ Mids(down') \subseteq Mids(down) \cup {m}
            /\ ~Reading(c) => down' = down
        BY <4>1, TakesEffect
      <4>3. Reading(c) => c = conn
        BY DEF Reading
      <4>4. QED
        BY <1>0, <4>2, <4>3
    <3>3. QED
      BY <3>1, <3>2
  <2>3. QED
    BY <2>0, <2>1, <2>2 DEF Once, RetryInv
<1>10. CASE PublishOrFill
  BY <1>1, <1>10, PublishSends DEF Places
<1>11. QED
  BY <1>2, <1>3, <1>4, <1>5, <1>6, <1>7, <1>8, <1>9, <1>10 DEF Next, Network, PublishOrFill

LEMMA UnreleasedStep ==
  ASSUME TypeOK, Places, Once, Next, ~crowded' PROVE UnreleasedInv'
<1>0. /\ conn \in Conns /\ out \in Seq(Packets) /\ Range(<<>>) = {}
  BY NoPackets DEF TypeOK
<1>a. \A t, u, m, r : Packet(t, m) = Packet(u, r) => t = u /\ m = r
  BY DEF Packet
<1>b. UnreleasedInv
  BY DEF Once
<1>1. CASE Sending
  <2>1. PICK now \in SUBSET Reports :
          /\ \A r \in Reports : Released(r)' <=> Released(r)
          /\ Range(out') \subseteq Range(out) \cup {Packet("PUBLISH", r) : r \in now}
          /\ Range(down') \subseteq Range(down)
          /\ UNCHANGED <<up, delivered>>
    BY <1>1 DEF Sending
  <2>2. \A r : Packet("PUBREL", r) \in Range(out') => Packet("PUBREL", r) \in Range(out)
    BY <1>a, <2>1
  <2>3. QED
    BY <1>b, <2>1, <2>2 DEF UnreleasedInv
<1>2. CASE Write
  <2>1. /\ Head(out) \in Range(out) /\ Range(out') \subseteq Range(out)
        /\ \A d \in Conns \ {conn} : up'[d] = up[d]
        /\ Range(up'[conn]) \subseteq Range(up[conn]) \cup {Head(out)}
    BY <1>2, WriteEffect
  <2>2. \A d \in Conns : Range(up'[d]) \subseteq Range(up[d]) \cup Range(out)
    BY <1>0, <2>1
  <2>3. UNCHANGED <<msgs, published, down, delivered>>
    BY <1>2 DEF Write, broker
  <2>4. QED
    BY <1>b, <2>1, <2>2, <2>3, SameStates DEF UnreleasedInv
<1>3. CASE LoseConnection \/ OpenSocket \/ ConnectFails
  <2>1. UNCHANGED <<msgs, published, out, up, delivered>> /\ down' \in {down, <<>>}
    BY <1>3 DEF LoseConnection, OpenSocket, ConnectFails, broker
  <2>2. QED
    BY <1>b, <1>0, <2>1, SameStates DEF UnreleasedInv
<1>4. CASE Reconnect
  <2>1. out' = <<>> /\ UNCHANGED <<down, up, delivered>>
    BY <1>4 DEF Reconnect, broker
  <2>2. QED
    BY <1>b, <1>0, <1>4, <2>1, ReconnectStates DEF UnreleasedInv
<1>5. CASE SendConnect
  <2>1. /\ out' = Append(out, Packet("CONNECT", 0))
        /\ UNCHANGED <<msgs, published, down, up, delivered>>
    BY <1>5 DEF SendConnect, broker
  <2>2. Range(out') = Range(out) \cup {Packet("CONNECT", 0)}
    <3>1. Packet("CONNECT", 0) \in Packets
      BY PacketType DEF Types
    <3>2. QED
      BY <1>0, <2>1, <3>1, AppendPacket
  <2>3. QED
    BY <1>a, <1>b, <2>1, <2>2, SameStates DEF UnreleasedInv
<1>6. CASE Connack
  <2>1. Range(down') \subseteq Range(down) /\ UNCHANGED <<out, up, delivered>>
    BY <1>6, ReadsEffect DEF Connack, broker
  <2>2. QED
    BY <1>b, <1>6, <2>1, ConnackStates DEF UnreleasedInv
<1>7. CASE RetryAll
  <2>1. Range(out') \subseteq Range(out) \cup {Retry(r) : r \in Retried}
    BY <1>7, RetryEffect
  <2>2. UNCHANGED <<msgs, published, up, down, delivered>>
    BY <1>7 DEF RetryAll, broker
  <2>3. \A r \in Reports, q \in Retried : Retry(q) = Packet("PUBREL", r) => Released(r)
    BY <1>a DEF Retry, Retried, Released
  <2>4. QED
    BY <1>b, <2>1, <2>2, <2>3, SameStates DEF UnreleasedInv
<1>8. ASSUME NEW m \in Reports, Pubrec(m) PROVE UnreleasedInv'
  <2>1. /\ Range(down') \subseteq Range(down) /\ UNCHANGED <<up, delivered>>
        /\ out' = Append(out, Packet("PUBREL", m))
    BY <1>8, ReadsEffect DEF Pubrec, Reads, broker
  <2>2. Range(out') = Range(out) \cup {Packet("PUBREL", m)}
    <3>1. Packet("PUBREL", m) \in Packets
      BY PacketType DEF Types
    <3>2. QED
      BY <1>0, <2>1, <3>1, AppendPacket
  <2>3. Released(m)' /\ \A r \in Reports : r # m => (Released(r)' <=> Released(r))
    BY <1>8, PubrecStates
  <2>4. QED
    BY <1>a, <1>b, <2>1, <2>2, <2>3 DEF UnreleasedInv
<1>9. ASSUME NEW c \in Conns, Receive(c) \/ Forget(c) PROVE UnreleasedInv'
  <2>0. UNCHANGED <<msgs, published, out>>
    BY <1>9, ReceiveForms DEF client
  <2>1. CASE Close(c)
    <3>1. /\ \A d \in Conns : Range(up'[d]) \subseteq Range(up[d])
          /\ UNCHANGED <<down, delivered>>
      BY <1>0, <2>1, CloseEffect
    <3>2. QED
      BY <1>b, <2>0, <3>1, SameStates DEF UnreleasedInv
  <2>2. ASSUME ~Close(c) PROVE UnreleasedInv'
    <3>1. PICK t \in Types, m \in Reports \cup {0}, a \in Types :
            /\ Takes(c, t, m, a)
            /\ \/ t = "CONNECT" /\ a = "CONNACK" /\ m = 0
               \/ t = "PUBLISH" /\ a = "PUBREC" /\ m \in Reports
               \/ t = "PUBREL" /\ a = "PUBCOMP" /\ m \in Reports
            /\ Range(delivered') \subseteq Range(delivered) \cup {m}
            /\ t # "PUBREL" => delivered' = delivered
      BY <1>9, <2>2, ReceiveForms, TakesForms
    <3>2. /\ Packet(t, m) \in Range(up[c])
          /\ \A d \in Conns : Range(up'[d]) \subseteq Range(up[d])
          /\ Range(down') \subseteq Range(down) \cup {Packet(a, m)}
      BY <3>1, TakesEffect
    <3>3. ASSUME NEW r \in Reports, ~Released(r)
          PROVE  Packet("PUBCOMP", r) \notin Range(down') /\ r \notin Range(delivered')
      <4>1. ~(t = "PUBREL" /\ m = r)
        BY <1>b, <3>2, <3>3 DEF UnreleasedInv
      <4>2. Packet(a, m) # Packet("PUBCOMP", r)
        BY <1>a, <3>1, <4>1
      <4>3. QED
        BY <1>b, <3>1, <3>2, <3>3, <4>1, <4>2 DEF UnreleasedInv
    <3>4. QED
      BY <1>b, <2>0, <3>2, <3>3, SameStates DEF UnreleasedInv
  <2>3. QED
    BY <2>1, <2>2
<1>10. CASE PublishOrFill
  BY <1>1, <1>10, PublishSends DEF Places
<1>11. ASSUME NEW m \in Reports, Pubcomp(m) PROVE UnreleasedInv'
  BY <1>1, <1>b, <1>11, PubcompSends DEF Places
<1>12. QED
  BY <1>2, <1>3, <1>4, <1>5, <1>6, <1>7, <1>8, <1>9, <1>10, <1>11 DEF Next, Network, PublishOrFill

LEMMA ReleasedStep ==
  ASSUME TypeOK, Places, Once, Next, ~crowded' PROVE ReleasedInv'
<1>0. /\ conn \in Conns /\ out \in Seq(Packets) /\ down \in Seq(Packets)
      /\ Range(<<>>) = {} /\ \A r \in Reports : r \in Nat /\ r # 0
      /\ published \in Nat
  BY NoPackets, ReportsType DEF TypeOK, Reports
<1>a. \A t, u, m, r : Packet(t, m) = Packet(u, r) => t = u /\ m = r
  BY DEF Packet
<1>b. ReleasedInv
  BY DEF Once
<1>1. CASE Sending
  <2>1. PICK now \in SUBSET Reports :
          /\ \A r \in now : Fresh(r)
          /\ \A r \in Reports : Released(r)' <=> Released(r)
          /\ Range(out') \subseteq Range(out) \cup {Packet("PUBLISH", r) : r \in now}
          /\ Range(down') \subseteq Range(down)
          /\ UNCHANGED <<up, conn>>
    BY <1>1 DEF Sending
  <2>2. \A r \in now : ~Released(r)
    BY <1>0, <2>1 DEF Fresh, Released, Places, ListInv
  <2>3. \A r \in Reports : Released(r) /\ Packet("PUBLISH", r) \in Range(out') =>
          Packet("PUBLISH", r) \in Range(out)
    BY <1>a, <2>1, <2>2
  <2>4. QED
    BY <1>b, <2>1, <2>3 DEF ReleasedInv
<1>2. CASE Write
  <2>1. /\ Head(out) \in Range(out) /\ Range(out') \subseteq Range(out)
        /\ Range(up'[conn]) \subseteq Range(up[conn]) \cup {Head(out)}
    BY <1>2, WriteEffect
  <2>2. UNCHANGED <<msgs, published, down, conn>>
    BY <1>2 DEF Write
  <2>3. QED
    BY <1>b, <2>1, <2>2, SameStates DEF ReleasedInv
<1>3. CASE LoseConnection \/ OpenSocket \/ ConnectFails
  <2>1. UNCHANGED <<msgs, published, out, up, conn>> /\ down' \in {down, <<>>}
    BY <1>3 DEF LoseConnection, OpenSocket, ConnectFails, broker
  <2>2. QED
    BY <1>b, <1>0, <2>1, SameStates DEF ReleasedInv
<1>4. CASE Reconnect
  <2>1. out' = <<>> /\ UNCHANGED <<down, up, conn>>
    BY <1>4 DEF Reconnect, broker
  <2>2. QED
    BY <1>b, <1>0, <1>4, <2>1, ReconnectStates DEF ReleasedInv
<1>5. CASE SendConnect
  <2>1. /\ conn' = conn + 1 /\ conn' \in Conns /\ conn \in Nat
        /\ out' = Append(out, Packet("CONNECT", 0))
        /\ UNCHANGED <<msgs, published, down, up>>
    BY <1>0, <1>5, SessionAssumption DEF SendConnect, Conns, broker
  <2>2. Range(out') = Range(out) \cup {Packet("CONNECT", 0)}
    <3>1. Packet("CONNECT", 0) \in Packets
      BY PacketType DEF Types
    <3>2. QED
      BY <1>0, <2>1, <3>1, AppendPacket
  <2>3. up'[conn'] = <<>>
    BY <2>1 DEF Places, AheadInv
  <2>4. QED
    BY <1>0, <1>a, <1>b, <2>1, <2>2, <2>3, SameStates DEF ReleasedInv
<1>6. CASE Connack
  <2>1. Range(down') \subseteq Range(down) /\ UNCHANGED <<out, up, conn>>
    BY <1>6, ReadsEffect DEF Connack, broker
  <2>2. QED
    BY <1>b, <1>6, <2>1, ConnackStates DEF ReleasedInv
<1>7. CASE RetryAll
  <2>1. Range(out') \subseteq Range(out) \cup {Retry(r) : r \in Retried}
    BY <1>7, RetryEffect
  <2>2. UNCHANGED <<msgs, published, up, down, conn>>
    BY <1>7 DEF RetryAll, broker
  <2>3. \A r \in Reports, q \in Retried : Retry(q) = Packet("PUBLISH", r) => ~Released(r)
    BY <1>a DEF Retry, Retried, Released
  <2>4. QED
    BY <1>b, <2>1, <2>2, <2>3, SameStates DEF ReleasedInv
<1>8. ASSUME NEW m \in Reports, Pubrec(m) PROVE ReleasedInv'
  <2>1. /\ Range(down') \subseteq Range(down) /\ UNCHANGED <<up, conn>>
        /\ Single(down) => m \notin Mids(down')
        /\ m \in Mids(down) /\ net = "loop"
        /\ out' = Append(out, Packet("PUBREL", m))
    BY <1>8, ReadsEffect DEF Pubrec, Reads, broker
  <2>2. Range(out') = Range(out) \cup {Packet("PUBREL", m)}
    <3>1. Packet("PUBREL", m) \in Packets
      BY PacketType DEF Types
    <3>2. QED
      BY <1>0, <2>1, <3>1, AppendPacket
  <2>3. \A r \in Reports : r # m => (Released(r)' <=> Released(r))
    BY <1>8, PubrecStates
  <2>4. m \notin Mids(down') /\ m \notin Mids(out) /\ m \notin Mids(up[conn])
    BY <2>1 DEF Once, TokenInv, On
  <2>5. \A t, s : m \notin Mids(s) => Packet(t, m) \notin Range(s)
    BY DEF Mids, Packet
  <2>6. QED
    BY <1>a, <1>b, <2>1, <2>2, <2>3, <2>4, <2>5 DEF ReleasedInv
<1>9. ASSUME NEW c \in Conns, Receive(c) \/ Forget(c) PROVE ReleasedInv'
  <2>0. UNCHANGED <<msgs, published, out, conn>>
    BY <1>9, ReceiveForms DEF client
  <2>1. CASE Close(c)
    <3>1. Range(up'[conn]) \subseteq Range(up[conn]) /\ down' = down
      BY <1>0, <2>1, CloseEffect
    <3>2. QED
      BY <1>b, <2>0, <3>1, SameStates DEF ReleasedInv
  <2>2. ASSUME ~Close(c) PROVE ReleasedInv'
    <3>1. PICK t \in Types, m \in Reports \cup {0}, a \in Types :
            /\ Takes(c, t, m, a)
            /\ \/ t = "CONNECT" /\ a = "CONNACK" /\ m = 0
               \/ t = "PUBLISH" /\ a = "PUBREC" /\ m \in Reports
               \/ t = "PUBREL" /\ a = "PUBCOMP" /\ m \in Reports
      BY <1>9, <2>2, ReceiveForms, TakesForms
    <3>2. /\ Packet(t, m) \in Range(up[c])
          /\ Range(up'[conn]) \subseteq Range(up[conn])
          /\ ~Reading(c) => down' = down
          /\ Range(down') \subseteq Range(down) \cup {Packet(a, m)}
      BY <1>0, <3>1, TakesEffect
    <3>3. Reading(c) => c = conn
      BY DEF Reading
    <3>4. ASSUME NEW r \in Reports, Released(r) PROVE Packet("PUBREC", r) \notin Range(down')
      <4>1. CASE Packet(a, m) = Packet("PUBREC", r)
        <5>1. t = "PUBLISH" /\ m = r
          BY <1>a, <3>1, <4>1
        <5>2. c # conn
          BY <1>b, <3>2, <3>4, <5>1 DEF ReleasedInv
        <5>3. QED
          BY <1>b, <3>2, <3>3, <3>4, <5>2 DEF ReleasedInv
      <4>2. CASE Packet(a, m) # Packet("PUBREC", r)
        BY <1>b, <3>2, <3>4, <4>2 DEF ReleasedInv
      <4>3. QED
        BY <4>1, <4>2
    <3>5. QED
      BY <1>b, <2>0, <3>2, <3>4, SameStates DEF ReleasedInv
  <2>3. QED
    BY <2>1, <2>2
<1>10. CASE PublishOrFill
  BY <1>1, <1>10, PublishSends DEF Places
<1>11. ASSUME NEW m \in Reports, Pubcomp(m) PROVE ReleasedInv'
  BY <1>1, <1>11, PubcompSends DEF Places, Once
<1>12. QED
  BY <1>2, <1>3, <1>4, <1>5, <1>6, <1>7, <1>8, <1>9, <1>10, <1>11 DEF Next, Network, PublishOrFill

\* A step that delivers nothing and makes no message live.
LEMMA StillLive ==
  ASSUME LiveInv, delivered' = delivered,
         \A r \in Reports : \A c \in Conns : Live(c, r)' => Live(c, r)
  PROVE  LiveInv'
BY Zenon DEF LiveInv

LEMMA DeliverOnce ==
  ASSUME NEW s \in Seq(Reports), IsInjective(s), NEW m \in Reports, m \notin Range(s)
  PROVE  /\ IsInjective(Append(s, m))
         /\ Range(Append(s, m)) = Range(s) \cup {m}
<1>1. /\ DOMAIN s = 1..Len(s) /\ DOMAIN Append(s, m) = 1..(Len(s) + 1)
      /\ Len(s) \in Nat
  OBVIOUS
<1>2. /\ \A i \in DOMAIN s : i \in DOMAIN Append(s, m) /\ Append(s, m)[i] = s[i]
      /\ \A i \in DOMAIN Append(s, m) : i \in DOMAIN s \/ i = Len(s) + 1
      /\ Len(s) + 1 \in DOMAIN Append(s, m) /\ Append(s, m)[Len(s) + 1] = m
  BY <1>1
<1>3. Range(Append(s, m)) = Range(s) \cup {m}
  BY <1>2 DEF Range
<1>4. \A i \in DOMAIN s : s[i] # m
  BY DEF Range
<1>5. ASSUME NEW i \in DOMAIN Append(s, m), NEW j \in DOMAIN Append(s, m),
             Append(s, m)[i] = Append(s, m)[j]
      PROVE  i = j
  BY <1>2, <1>4, <1>5 DEF IsInjective
<1>6. QED
  BY <1>3, <1>5 DEF IsInjective

LEMMA LiveStep ==
  ASSUME TypeOK, Places, Once, Next, ~crowded' PROVE LiveInv'
<1>0. /\ conn \in Conns /\ up \in [Conns -> Seq(Packets)]
      /\ stored \in [Conns -> SUBSET Reports] /\ delivered \in Seq(Reports)
      /\ {"CONNECT", "CONNACK", "PUBLISH", "PUBREC", "PUBREL", "PUBCOMP"} = Types
  BY DEF TypeOK, Types
<1>a. \A t, u, m, r : Packet(t, m) = Packet(u, r) => t = u /\ m = r
  BY DEF Packet
<1>b. LiveInv
  BY DEF Once
<1>1. CASE Sending
  <2>1. /\ \A r \in Reports : Released(r)' <=> Released(r)
        /\ UNCHANGED <<up, stored, delivered, conn>>
    BY <1>1 DEF Sending
  <2>2. QED
    BY <1>b, <2>1, StillLive DEF Live
<1>2. CASE Write
  <2>1. /\ Head(out) \in Range(out)
        /\ \A d \in Conns \ {conn} : up'[d] = up[d]
        /\ Range(up'[conn]) \subseteq Range(up[conn]) \cup {Head(out)}
    BY <1>2, WriteEffect
  <2>2. UNCHANGED <<msgs, published, stored, delivered, conn>>
    BY <1>2 DEF Write, broker
  <2>3. \A r \in Reports : Packet("PUBREL", r) \in Range(out) => Released(r)
    BY DEF Once, UnreleasedInv
  <2>4. ASSUME NEW r \in Reports, NEW c \in Conns, Live(c, r)' PROVE Live(c, r)
    <3>1. Released(r)' <=> Released(r)
      BY <2>2, SameStates
    <3>2. CASE c = conn
      BY <2>1, <2>2, <2>3, <2>4, <3>1, <3>2 DEF Live
    <3>3. CASE c # conn
      BY <2>1, <2>2, <2>4, <3>1, <3>3 DEF Live
    <3>4. QED
      BY <3>2, <3>3
  <2>5. QED
    BY <1>b, <2>2, <2>4, StillLive
<1>3. CASE LoseConnection \/ OpenSocket \/ ConnectFails \/ RetryAll
  <2>1. UNCHANGED <<msgs, published, up, stored, delivered, conn>>
    BY <1>3 DEF LoseConnection, OpenSocket, ConnectFails, RetryAll, broker
  <2>2. QED
    BY <1>b, <2>1, SameStates, StillLive DEF Live
<1>4. CASE Reconnect
  <2>1. UNCHANGED <<up, stored, delivered, conn>>
    BY <1>4 DEF Reconnect, broker
  <2>2. QED
    BY <1>b, <1>4, <2>1, ReconnectStates, StillLive DEF Live
<1>5. CASE SendConnect
  <2>1. /\ conn' = conn + 1 /\ conn' \in Conns /\ conn \in Nat /\ conn' > conn
        /\ UNCHANGED <<msgs, published, up, stored, delivered>>
    BY <1>0, <1>5, SessionAssumption DEF SendConnect, Conns, broker
  <2>2. stored[conn'] = {}
    BY <2>1 DEF Places, AheadInv
  <2>3. QED
    BY <1>b, <2>1, <2>2, StillLive DEF Live
<1>6. CASE Connack
  <2>1. UNCHANGED <<up, stored, delivered, conn>>
    BY <1>6 DEF Connack, broker
  <2>2. QED
    BY <1>b, <1>6, <2>1, ConnackStates, StillLive DEF Live
<1>7. ASSUME NEW m \in Reports, Pubrec(m) PROVE LiveInv'
  <2>1. UNCHANGED <<up, stored, delivered, conn>>
    BY <1>7 DEF Pubrec, broker
  <2>2. ~Released(m) /\ \A r \in Reports : r # m => (Released(r)' <=> Released(r))
    BY <1>7, PubrecStates
  <2>3. m \notin Range(delivered) /\ \A c \in Conns : Packet("PUBREL", m) \notin Range(up[c])
    BY <2>2 DEF Once, UnreleasedInv
  <2>4. \A r \in Reports, c \in Conns : r # m /\ Live(c, r)' => Live(c, r)
    BY <2>1, <2>2 DEF Live
  <2>5. \A c \in Conns : Live(c, m)' => c = conn
    BY <2>1, <2>3 DEF Live
  <2>6. ASSUME NEW r \in Reports, NEW c \in Conns, Live(c, r)'
        PROVE  r \notin Range(delivered') /\ \A d \in Conns : Live(d, r)' => c = d
    <3>1. CASE r = m
      BY <2>1, <2>3, <2>5, <2>6, <3>1
    <3>2. CASE r # m
      BY <1>b, <2>1, <2>4, <2>6, <3>2 DEF LiveInv
    <3>3. QED
      BY <3>1, <3>2
  <2>7. IsInjective(delivered')
    BY <1>b, <2>1 DEF LiveInv
  <2>8. QED
    BY <2>6, <2>7 DEF LiveInv
<1>8. ASSUME NEW c \in Conns, Close(c), UNCHANGED client PROVE LiveInv'
  <2>1. /\ up'[c] = <<>> /\ stored'[c] = {} /\ delivered' = delivered
        /\ \A d \in Conns \ {c} : up'[d] = up[d] /\ stored'[d] = stored[d]
    BY <1>8, CloseEffect
  <2>2. UNCHANGED <<msgs, published, conn>>
    BY <1>8 DEF client
  <2>3. QED
    BY <1>b, <2>1, <2>2, SameStates, StillLive DEF Live
<1>9. ASSUME NEW c \in Conns, TakeConnect(c) PROVE LiveInv'
  <2>1. \A d \in Conns : Range(up'[d]) \subseteq Range(up[d])
    BY <1>0, <1>9, TakesEffect DEF TakeConnect
  <2>2. UNCHANGED <<msgs, published, conn, stored, delivered>>
    BY <1>9 DEF TakeConnect, client
  <2>3. QED
    BY <1>b, <2>1, <2>2, SameStates, StillLive DEF Live
<1>10. ASSUME NEW c \in Conns, NEW m \in Reports, TakePublish(c, m) PROVE LiveInv'
  <2>1. Takes(c, "PUBLISH", m, "PUBREC")
    BY <1>10 DEF TakePublish
  <2>2. /\ Packet("PUBLISH", m) \in Range(up[c])
        /\ \A d \in Conns : Range(up'[d]) \subseteq Range(up[d])
        /\ m \notin Mids(up'[c])
    BY <1>0, <2>1, TakesEffect DEF Once, TokenInv
  <2>3. /\ stored'[c] = stored[c] \cup {m}
        /\ \A d \in Conns \ {c} : stored'[d] = stored[d]
        /\ UNCHANGED <<msgs, published, conn, delivered>>
    BY <1>0, <1>10 DEF TakePublish, client
  <2>4. \A r \in Reports : Released(r)' <=> Released(r)
    BY <2>3, SameStates
  <2>5. ~Live(c, m)'
    <3>1. Packet("PUBREL", m) \notin Range(up'[c])
      BY <2>2 DEF Mids, Packet
    <3>2. c = conn => ~Released(m)
      BY <2>2 DEF Once, ReleasedInv
    <3>3. QED
      BY <2>3, <2>4, <3>1, <3>2 DEF Live
  <2>6. ASSUME NEW r \in Reports, NEW d \in Conns, Live(d, r)' PROVE Live(d, r)
    <3>1. r \in stored[d]
      BY <2>3, <2>5, <2>6 DEF Live
    <3>2. QED
      BY <2>2, <2>3, <2>4, <2>6, <3>1 DEF Live
  <2>7. QED
    BY <1>b, <2>3, <2>6, StillLive
<1>11. ASSUME NEW c \in Conns, NEW m \in Reports, TakePubrel(c, m) PROVE LiveInv'
  <2>1. Takes(c, "PUBREL", m, "PUBCOMP")
    BY <1>11 DEF TakePubrel
  <2>2. /\ Packet("PUBREL", m) \in Range(up[c])
        /\ \A d \in Conns : Range(up'[d]) \subseteq Range(up[d])
    BY <1>0, <2>1, TakesEffect
  <2>3. /\ stored'[c] = stored[c] \ {m}
        /\ \A d \in Conns \ {c} : stored'[d] = stored[d]
        /\ UNCHANGED <<msgs, published, conn>>
        /\ m \in stored[c] => delivered' = Append(delivered, m)
        /\ m \notin stored[c] => delivered' = delivered
    BY <1>0, <1>11 DEF TakePubrel, client
  <2>4. \A r \in Reports : Released(r)' <=> Released(r)
    BY <2>3, SameStates
  <2>5. \A r \in Reports, d \in Conns : Live(d, r)' => Live(d, r)
    BY <2>2, <2>3, <2>4 DEF Live
  <2>6. CASE m \in stored[c]
    <3>1. Live(c, m)
      BY <2>2, <2>6 DEF Live
    <3>2. m \notin Range(delivered) /\ \A d \in Conns : Live(d, m) => c = d
      BY <1>b, <3>1 DEF LiveInv
    <3>3. IsInjective(delivered') /\ Range(delivered') = Range(delivered) \cup {m}
      BY <1>0, <1>b, <2>3, <2>6, <3>2, DeliverOnce DEF LiveInv
    <3>4. \A d \in Conns : ~Live(d, m)'
      BY <2>3, <2>5, <3>2 DEF Live
    <3>5. ASSUME NEW r \in Reports, NEW d \in Conns, Live(d, r)'
          PROVE  r \notin Range(delivered') /\ \A e \in Conns : Live(e, r)' => d = e
      <4>1. r # m /\ Live(d, r)
        BY <2>5, <3>4, <3>5
      <4>2. QED
        BY <1>b, <2>5, <3>3, <4>1 DEF LiveInv
    <3>6. QED
      BY <3>3, <3>5 DEF LiveInv
  <2>7. CASE m \notin stored[c]
    BY <1>b, <2>3, <2>5, <2>7, StillLive
  <2>8. QED
    BY <2>6, <2>7
<1>12. ASSUME NEW c \in Conns, Receive(c) \/ Forget(c) PROVE LiveInv'
  BY <1>8, <1>9, <1>10, <1>11, <1>12, ReceiveForms
<1>13. CASE PublishOrFill
  BY <1>1, <1>13, PublishSends DEF Places
<1>14. ASSUME NEW m \in Reports, Pubcomp(m) PROVE LiveInv'
  BY <1>1, <1>14, PubcompSends DEF Places, Once
<1>15. QED
  BY <1>2, <1>3, <1>4, <1>5, <1>6, <1>7, <1>12, <1>13, <1>14 DEF Next, Network, PublishOrFill

LEMMA StaysUncrowded == TypeOK /\ [Next]_vars /\ ~crowded' => ~crowded
<1> SUFFICES ASSUME TypeOK, [Next]_vars, ~crowded' PROVE ~crowded
  OBVIOUS
<1>1. CASE Reconnect \/ Connack
  BY <1>1, ResetEffect DEF Reconnect, Connack
<1>2. CASE crowded' = crowded
  BY <1>2
<1>3. ASSUME NEW m \in Reports, Pubrec(m) \/ Pubcomp(m) PROVE crowded' = crowded
  BY <1>3 DEF Pubrec, Pubcomp
<1>4. ASSUME NEW c \in Conns, Receive(c) \/ Forget(c) PROVE crowded' = crowded
  BY <1>4, ReceiveForms DEF client
<1>5. CASE PublishOrFill \/ Write \/ LoseConnection \/ OpenSocket \/ ConnectFails
           \/ SendConnect \/ RetryAll \/ UNCHANGED vars
  BY <1>5 DEF PublishOrFill, Publish, FillQuota, FillDuringPublish, Write, LoseConnection,
              OpenSocket, ConnectFails, SendConnect, RetryAll, vars, client
<1>6. QED
  BY <1>1, <1>2, <1>3, <1>4, <1>5 DEF Next, Network, PublishOrFill

LEMMA OnceStep ==
  TypeOK /\ Places /\ (crowded \/ Once) /\ [Next]_vars => (crowded \/ Once)'
<1> SUFFICES ASSUME TypeOK, Places, crowded \/ Once, [Next]_vars, ~crowded' PROVE Once'
  OBVIOUS
<1>1. Once
  BY StaysUncrowded
<1>2. CASE Next
  BY <1>1, <1>2, OutStep, TokenStep, FreshStep, RetryStep, UnreleasedStep, ReleasedStep,
     LiveStep DEF Once
<1>3. CASE UNCHANGED vars
  <2>1. UNCHANGED <<published, msgs, net, active, conn, out, up, down, stored, delivered>>
    BY <1>3 DEF vars, client, broker
  <2>2. /\ \A r \in Reports : (Fresh(r)' <=> Fresh(r)) /\ (Released(r)' <=> Released(r))
        /\ (BeforeRetry' <=> BeforeRetry) /\ (On' <=> On)
    BY <2>1, SameStates DEF BeforeRetry, On
  <2>3. \A r \in Reports : \A c \in Conns : Live(c, r)' => Live(c, r)
    BY <2>1, <2>2 DEF Live
  <2>4. LiveInv'
    BY <1>1, <2>1, <2>3, StillLive DEF Once
  <2>5. OutInv' /\ TokenInv'
    BY <1>1, <2>1, <2>2 DEF Once, OutInv, TokenInv
  <2>6. FreshInv' /\ RetryInv'
    BY <1>1, <2>1, <2>2 DEF Once, FreshInv, RetryInv
  <2>7. UnreleasedInv' /\ ReleasedInv'
    BY <1>1, <2>1, <2>2 DEF Once, UnreleasedInv, ReleasedInv
  <2>8. QED
    BY <2>4, <2>5, <2>6, <2>7 DEF Once
<1>4. QED
  BY <1>2, <1>3

LEMMA InitOnce == Init => Once
<1> SUFFICES ASSUME Init PROVE Once
  OBVIOUS
<1>1. /\ published = 0 /\ out = <<>> /\ down = <<>> /\ delivered = <<>>
      /\ net = "loop" /\ conn = 1 /\ conn \in Conns
      /\ \A r \in Reports : msgs[r] = "none" /\ r # 0 /\ r \in Nat
      /\ \A c \in Conns : stored[c] = {}
      /\ \A c \in Conns : up[c] = <<>> \/ up[c] = <<Packet("CONNECT", 0)>>
  BY SessionAssumption DEF Init, Conns, Reports
<1>2. /\ Range(<<>>) = {} /\ Mids(<<>>) = {} /\ Single(<<>>)
  BY NoPackets
<1>3. /\ Range(<<Packet("CONNECT", 0)>>) = {Packet("CONNECT", 0)}
      /\ Mids(<<Packet("CONNECT", 0)>>) = {0}
      /\ Single(<<Packet("CONNECT", 0)>>)
  <2>1. Packet("CONNECT", 0).mid = 0
    BY DEF Packet
  <2>2. Range(<<Packet("CONNECT", 0)>>) = {Packet("CONNECT", 0)}
    BY DEF Range
  <2>3. Mids(<<Packet("CONNECT", 0)>>) = {0}
    BY <2>1, <2>2 DEF Mids
  <2>4. Single(<<Packet("CONNECT", 0)>>)
    BY DEF Single
  <2>5. QED
    BY <2>2, <2>3, <2>4
<1>4. \A r \in Reports : ~Released(r) /\ \A c \in Conns : r \notin Mids(up[c])
  BY <1>1, <1>2, <1>3 DEF Released, Reports
<1>5. \A r \in Reports, c \in Conns : Packet("PUBREL", r) \notin Range(up[c])
  BY <1>1, <1>2, <1>3 DEF Packet
<1>6. OutInv /\ TokenInv
  BY <1>1, <1>2, <1>3 DEF OutInv, TokenInv, On
<1>7. FreshInv /\ RetryInv
  BY <1>1, <1>2, <1>4 DEF FreshInv, RetryInv
<1>8. UnreleasedInv /\ ReleasedInv
  BY <1>1, <1>2, <1>4, <1>5 DEF UnreleasedInv, ReleasedInv
<1>9. LiveInv
  <2>1. IsInjective(delivered)
    BY <1>1 DEF IsInjective
  <2>2. QED
    BY <1>1, <2>1 DEF LiveInv, Live
<1>10. QED
  BY <1>6, <1>7, <1>8, <1>9 DEF Once

(* Whatever connections are lost, and whichever side notices first: as     *)
(* long as no connection begins with more unfinished messages than may be  *)
(* in flight, a report is delivered at most once.                          *)
THEOREM SessionAtMostOnce == Spec => []AtMostOnce
<1>1. Init => Places /\ (crowded \/ Once)
  BY InitPlaces, InitOnce DEF Places
<1>2. TypeOK /\ Places /\ (crowded \/ Once) /\ [Next]_vars => (Places /\ (crowded \/ Once))'
  BY SocketStep, ListStep, AheadStep, FirstStep, OnceStep DEF Places
<1>3. crowded \/ Once => AtMostOnce
  BY DEF Once, LiveInv, AtMostOnce
<1>4. QED
  BY <1>1, <1>2, <1>3, SessionTypeOK, PTL DEF Spec
=============================================================================
