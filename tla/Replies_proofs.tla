---------------------------- MODULE Replies_proofs ----------------------------
(***************************************************************************)
(* Messages: what messages.c writes it reads back, for messages of every    *)
(* length and octets of any size.                                          *)
(*                                                                         *)
(* Replies: every request of a host takes one course, whatever crosses on  *)
(* the line, and what a cassette holds arrives whole.  The inductive       *)
(* invariant is RobotTyped, HostTyped, FlowInv and TapeInv.                *)
(***************************************************************************)
EXTENDS Replies, SequenceTheorems, FiniteSetTheorems, WellFoundedInduction,
        TLAPS

-----------------------------------------------------------------------------
(* Numbers of several octets.                                              *)

\* A number is its high part and its low octet.
LEMMA Divided ==
    ASSUME NEW n \in Nat
    PROVE  /\ High(n) \in Nat /\ Low(n) \in Octet
           /\ n = High(n) * Base + Low(n)
<1>1. Base \in Nat \ {0}
  BY MessagesAssumption
<1>2. n \div Base \in Nat /\ n % Base \in 0 .. Base - 1
      /\ n = (n \div Base) * Base + (n % Base)
  BY <1>1, Z3
<1>. QED
  BY <1>2 DEF High, Low, Octet

LEMMA NumberAgain ==
    ASSUME NEW n \in Nat
    PROVE  Number(High(n), Low(n)) = n
BY Divided DEF Number

\* Numbers of one octet more have a high part that fits.
LEMMA HighBelow ==
    ASSUME NEW n \in Nat, NEW k \in Nat, n < k * Base
    PROVE  High(n) < k
<1>1. Base \in Nat
  BY MessagesAssumption
<1>2. PICK h \in Nat : h = High(n)
  BY Divided
<1>3. PICK l \in Octet : l = Low(n)
  BY Divided
<1>4. n = h * Base + l /\ l >= 0
  BY <1>1, <1>2, <1>3, Divided DEF Octet
<1>5. SUFFICES ASSUME h >= k PROVE FALSE
  BY <1>2
<1>6. PICK d \in Nat : h = k + d
  <2>1. h - k \in Nat /\ h = k + (h - k)
    BY <1>5
  <2>. QED
    BY <2>1
<1>7. h * Base = k * Base + d * Base /\ d * Base >= 0
  BY <1>1, <1>6
<1>. QED
  BY <1>1, <1>3, <1>4, <1>7 DEF Octet

LEMMA ShortOctets ==
    ASSUME NEW n \in Short
    PROVE  High(n) \in Octet /\ Low(n) \in Octet
<1>1. Base \in Nat /\ n \in Nat /\ n < Base * Base
  BY MessagesAssumption DEF Short
<1>. QED
  BY <1>1, HighBelow, Divided DEF Octet

LEMMA LongDivided ==
    ASSUME NEW n \in Long
    PROVE  /\ High(High(High(n))) \in Octet
           /\ Low(High(High(n))) \in Octet
           /\ Low(High(n)) \in Octet
           /\ Low(n) \in Octet
<1>1. /\ Base \in Nat /\ Base * Base \in Nat /\ Base * Base * Base \in Nat
      /\ n \in Nat /\ n < (Base * Base * Base) * Base
  BY MessagesAssumption DEF Long
<1>2. High(n) \in Nat /\ High(n) < (Base * Base) * Base
  BY <1>1, HighBelow, Divided
<1>3. High(High(n)) \in Nat /\ High(High(n)) < Base * Base
  BY <1>1, <1>2, HighBelow, Divided
<1>4. High(High(High(n))) \in Nat /\ High(High(High(n))) < Base
  BY <1>1, <1>3, HighBelow, Divided
<1>. QED
  BY <1>1, <1>2, <1>3, <1>4, Divided DEF Octet

-----------------------------------------------------------------------------
(* A header and a value.                                                   *)

LEMMA Joined ==
    ASSUME NEW S, NEW header \in Seq(S), NEW v \in Seq(S)
    PROVE  /\ header \o v \in Seq(S)
           /\ Len(header \o v) = Len(header) + Len(v)
           /\ \A i \in 1 .. Len(header) : (header \o v)[i] = header[i]
           /\ \A i \in 1 .. Len(v) : (header \o v)[Len(header) + i] = v[i]
OBVIOUS

\* The value that follows a header is found again.
LEMMA Behind ==
    ASSUME NEW header \in Seq(Octet), NEW v \in Values, header # <<>>,
           header[Len(header)] = Len(v)
    PROVE  ValueBehind(Len(header), header \o v) = v
<1>. DEFINE h == Len(header)
            p == header \o v
<1>1. v \in Seq(Octet) /\ Len(v) \in Nat /\ h \in Nat \ {0}
  BY DEF Values
<1>2. /\ Len(p) = h + Len(v)
      /\ p[h] = header[h]
      /\ \A i \in 1 .. Len(v) : p[h + i] = v[i]
  BY <1>1, Joined
<1>3. p[h] = Len(v)
  BY <1>2
<1>. HIDE DEF p, h
<1>4. ValueBehind(h, p) = [i \in 1 .. Len(v) |-> v[i]]
  BY <1>1, <1>2, <1>3 DEF ValueBehind
<1>5. v = [i \in 1 .. Len(v) |-> v[i]]
  BY <1>1
<1>. QED
  BY <1>4, <1>5 DEF h, p

LEMMA Assembled ==
    ASSUME NEW n \in Nat \ {0}, NEW header \in Seq(Octet), NEW v \in Values,
           Len(header) = n, header[n] = Len(v)
    PROVE  /\ header \o v \in Seq(Octet)
           /\ Len(header \o v) = n + Len(v)
           /\ \A i \in 1 .. n : (header \o v)[i] = header[i]
           /\ ValueBehind(n, header \o v) = v
<1>1. v \in Seq(Octet)
  BY DEF Values
<1>2. header # <<>>
  OBVIOUS
<1>3. /\ header \o v \in Seq(Octet)
      /\ Len(header \o v) = n + Len(v)
      /\ \A i \in 1 .. n : (header \o v)[i] = header[i]
  BY <1>1, Joined
<1>4. ValueBehind(n, header \o v) = v
  BY <1>2, Behind
<1>. QED
  BY <1>3, <1>4

-----------------------------------------------------------------------------
(* The kinds of messages.                                                  *)

\* What is written is the message's octets, as long as message_getsizeof says.
WellFormed(m) ==
    /\ Octets(m) \in Seq(Octet)
    /\ Len(Octets(m)) = GetSizeOf(m)
    /\ GetSizeOf(m) >= HeaderLength(m.op) /\ HeaderLength(m.op) \in 2 .. 11
    /\ Octets(m)[1] = m.op /\ m.op \in Op
    /\ Fields(Octets(m)) = m

\* A message with a value has a header that ends with the length of it.
Ending(m) ==
    m.op \in WithValue =>
        /\ Octets(m)[HeaderLength(m.op)] \in Octet
        /\ GetSizeOf(m) = HeaderLength(m.op) + Octets(m)[HeaderLength(m.op)]

LEMMA OpOctets ==
    /\ Op = 1 .. 8 /\ Op \subseteq Octet
    /\ \A v \in Values : v \in Seq(Octet) /\ Len(v) \in Octet
BY MessagesAssumption
   DEF Op, Octet, Values, WithSeqId, WithValue, WithTopic, MESSAGES_OP_PING,
       MESSAGES_OP_PONG, MESSAGES_OP_INFO, MESSAGES_OP_DATA, MESSAGES_OP_READ,
       MESSAGES_OP_WRITE, MESSAGES_OP_SUBSCRIBE, MESSAGES_OP_UNSUBSCRIBE

LEMMA Plain ==
    ASSUME NEW m \in [op : WithSeqId, seq_id : Octet]
    PROVE  WellFormed(m) /\ Ending(m)
<1>. USE DEF WithSeqId, WithValue, WithTopic, MESSAGES_OP_PING,
             MESSAGES_OP_PONG, MESSAGES_OP_INFO, MESSAGES_OP_DATA,
             MESSAGES_OP_READ, MESSAGES_OP_WRITE, MESSAGES_OP_SUBSCRIBE,
             MESSAGES_OP_UNSUBSCRIBE
<1>1. m.op \in {1, 2} /\ m.seq_id \in Octet /\ m.op \in Octet /\ m.op \in Op
  BY OpOctets
<1>2. Octets(m) = <<m.op, m.seq_id>>
  BY <1>1 DEF Octets
<1>3. HeaderLength(m.op) = 2 /\ GetSizeOf(m) = 2
  BY <1>1 DEF HeaderLength, GetSizeOf
<1>4. Fields(<<m.op, m.seq_id>>) = [op |-> m.op, seq_id |-> m.seq_id]
  BY <1>1 DEF Fields
<1>5. m = [op |-> m.op, seq_id |-> m.seq_id]
  OBVIOUS
<1>. QED
  BY <1>1, <1>2, <1>3, <1>4, <1>5 DEF WellFormed, Ending

LEMMA Info ==
    ASSUME NEW m \in [op : {MESSAGES_OP_INFO}, topic : Octet,
                      subtopic : Octet, value : Values]
    PROVE  WellFormed(m) /\ Ending(m)
<1>. USE DEF WithSeqId, WithValue, WithTopic, MESSAGES_OP_PING,
             MESSAGES_OP_PONG, MESSAGES_OP_INFO, MESSAGES_OP_DATA,
             MESSAGES_OP_READ, MESSAGES_OP_WRITE, MESSAGES_OP_SUBSCRIBE,
             MESSAGES_OP_UNSUBSCRIBE
<1>1. /\ m.op = 3 /\ m.topic \in Octet /\ m.subtopic \in Octet
      /\ m.value \in Values /\ m.op \in Octet /\ m.op \in Op
      /\ m.value \in Seq(Octet) /\ Len(m.value) \in Octet
  BY OpOctets
<1>2. PICK header : header = <<m.op, m.topic, m.subtopic, Len(m.value)>>
  OBVIOUS
<1>3. /\ header \in Seq(Octet) /\ Len(header) = 4 /\ header # <<>>
      /\ header[1] = m.op /\ header[2] = m.topic /\ header[3] = m.subtopic
      /\ header[4] = Len(m.value)
  BY <1>1, <1>2
<1>4. PICK p : p = header \o m.value
  OBVIOUS
<1>5. Octets(m) = p
  BY <1>1, <1>2, <1>4 DEF Octets
<1>6. /\ p \in Seq(Octet) /\ Len(p) = 4 + Len(m.value)
      /\ \A i \in 1 .. 4 : p[i] = header[i]
      /\ ValueBehind(4, p) = m.value
  <2>1. /\ header \o m.value \in Seq(Octet)
        /\ Len(header \o m.value) = 4 + Len(m.value)
        /\ \A i \in 1 .. 4 : (header \o m.value)[i] = header[i]
        /\ ValueBehind(4, header \o m.value) = m.value
    BY <1>1, <1>3, 4 \in Nat \ {0}, Assembled
  <2>. QED
    BY <1>4, <2>1
<1>8. Fields(p) = InfoFrame(m.topic, m.subtopic, m.value)
  BY <1>1, <1>3, <1>6 DEF Fields
<1>9. InfoFrame(m.topic, m.subtopic, m.value) = m
  BY <1>1 DEF InfoFrame
<1>10. HeaderLength(m.op) = 4 /\ GetSizeOf(m) = 4 + Len(m.value)
  BY <1>1 DEF HeaderLength, GetSizeOf
<1>. QED
  BY <1>1, <1>3, <1>5, <1>6, <1>8, <1>9, <1>10 DEF WellFormed, Ending, Octet

LEMMA Data ==
    ASSUME NEW m \in [op : {MESSAGES_OP_DATA}, req_id : Short, topic : Octet,
                      subtopic : Octet, flag : Octet, timestamp : Long,
                      value : Values]
    PROVE  WellFormed(m) /\ Ending(m)
<1>. USE DEF WithSeqId, WithValue, WithTopic, MESSAGES_OP_PING,
             MESSAGES_OP_PONG, MESSAGES_OP_INFO, MESSAGES_OP_DATA,
             MESSAGES_OP_READ, MESSAGES_OP_WRITE, MESSAGES_OP_SUBSCRIBE,
             MESSAGES_OP_UNSUBSCRIBE
<1>1. /\ m.op = 4 /\ m.topic \in Octet /\ m.subtopic \in Octet
      /\ m.flag \in Octet /\ m.req_id \in Short /\ m.timestamp \in Long
      /\ m.value \in Values /\ m.op \in Octet /\ m.op \in Op
      /\ m.value \in Seq(Octet) /\ Len(m.value) \in Octet
  BY OpOctets
<1>2. PICK header : header =
        <<m.op, High(m.req_id), Low(m.req_id), m.topic, m.subtopic, m.flag,
          High(High(High(m.timestamp))), Low(High(High(m.timestamp))),
          Low(High(m.timestamp)), Low(m.timestamp), Len(m.value)>>
  OBVIOUS
<1>3. /\ header \in Seq(Octet) /\ Len(header) = 11
      /\ header[1] = m.op /\ header[2] = High(m.req_id)
      /\ header[3] = Low(m.req_id) /\ header[4] = m.topic
      /\ header[5] = m.subtopic /\ header[6] = m.flag
      /\ header[7] = High(High(High(m.timestamp)))
      /\ header[8] = Low(High(High(m.timestamp)))
      /\ header[9] = Low(High(m.timestamp)) /\ header[10] = Low(m.timestamp)
      /\ header[11] = Len(m.value)
  BY <1>1, <1>2, ShortOctets, LongDivided
<1>4. PICK p : p = header \o m.value
  OBVIOUS
<1>5. Octets(m) = p
  BY <1>1, <1>2, <1>4 DEF Octets
<1>6. /\ p \in Seq(Octet) /\ Len(p) = 11 + Len(m.value)
      /\ \A i \in 1 .. 11 : p[i] = header[i]
      /\ ValueBehind(11, p) = m.value
  <2>1. /\ header \o m.value \in Seq(Octet)
        /\ Len(header \o m.value) = 11 + Len(m.value)
        /\ \A i \in 1 .. 11 : (header \o m.value)[i] = header[i]
        /\ ValueBehind(11, header \o m.value) = m.value
    BY <1>1, <1>3, 11 \in Nat \ {0}, Assembled
  <2>. QED
    BY <1>4, <2>1
<1>7. /\ Number(High(m.req_id), Low(m.req_id)) = m.req_id
      /\ Number(Number(Number(High(High(High(m.timestamp))),
                              Low(High(High(m.timestamp)))),
                       Low(High(m.timestamp))), Low(m.timestamp))
            = m.timestamp
  <2>1. m.req_id \in Nat /\ m.timestamp \in Nat
    BY <1>1 DEF Short, Long
  <2>2. High(m.timestamp) \in Nat /\ High(High(m.timestamp)) \in Nat
    BY <2>1, Divided
  <2>. QED
    BY <2>1, <2>2, NumberAgain
<1>8. Fields(p) = DataFrame(m.req_id, m.topic, m.subtopic, m.flag,
                            m.timestamp, m.value)
  <2>1. /\ p[1] = 4 /\ p[2] = High(m.req_id) /\ p[3] = Low(m.req_id)
        /\ p[4] = m.topic /\ p[5] = m.subtopic /\ p[6] = m.flag
        /\ p[7] = High(High(High(m.timestamp)))
        /\ p[8] = Low(High(High(m.timestamp)))
        /\ p[9] = Low(High(m.timestamp)) /\ p[10] = Low(m.timestamp)
    BY <1>1, <1>3, <1>6
  <2>2. Fields(p) = DataFrame(Number(p[2], p[3]), p[4], p[5], p[6],
                      Number(Number(Number(p[7], p[8]), p[9]), p[10]),
                      ValueBehind(11, p))
    BY <2>1 DEF Fields
  <2>. QED
    BY <1>6, <1>7, <2>1, <2>2
<1>9. DataFrame(m.req_id, m.topic, m.subtopic, m.flag, m.timestamp, m.value)
        = m
  BY <1>1 DEF DataFrame
<1>10. HeaderLength(m.op) = 11 /\ GetSizeOf(m) = 11 + Len(m.value)
  BY <1>1 DEF HeaderLength, GetSizeOf
<1>. QED
  BY <1>1, <1>3, <1>5, <1>6, <1>8, <1>9, <1>10 DEF WellFormed, Ending, Octet

LEMMA Write ==
    ASSUME NEW m \in [op : {MESSAGES_OP_WRITE}, req_id : Short, topic : Octet,
                      subtopic : Octet, value : Values]
    PROVE  WellFormed(m) /\ Ending(m)
<1>. USE DEF WithSeqId, WithValue, WithTopic, MESSAGES_OP_PING,
             MESSAGES_OP_PONG, MESSAGES_OP_INFO, MESSAGES_OP_DATA,
             MESSAGES_OP_READ, MESSAGES_OP_WRITE, MESSAGES_OP_SUBSCRIBE,
             MESSAGES_OP_UNSUBSCRIBE
<1>1. /\ m.op = 6 /\ m.topic \in Octet /\ m.subtopic \in Octet
      /\ m.req_id \in Short
      /\ m.value \in Values /\ m.op \in Octet /\ m.op \in Op
      /\ m.value \in Seq(Octet) /\ Len(m.value) \in Octet
  BY OpOctets
<1>2. PICK header : header =
        <<m.op, High(m.req_id), Low(m.req_id), m.topic, m.subtopic,
          Len(m.value)>>
  OBVIOUS
<1>3. /\ header \in Seq(Octet) /\ Len(header) = 6
      /\ header[1] = m.op /\ header[2] = High(m.req_id)
      /\ header[3] = Low(m.req_id) /\ header[4] = m.topic
      /\ header[5] = m.subtopic /\ header[6] = Len(m.value)
  BY <1>1, <1>2, ShortOctets
<1>4. PICK p : p = header \o m.value
  OBVIOUS
<1>5. Octets(m) = p
  BY <1>1, <1>2, <1>4 DEF Octets
<1>6. /\ p \in Seq(Octet) /\ Len(p) = 6 + Len(m.value)
      /\ \A i \in 1 .. 6 : p[i] = header[i]
      /\ ValueBehind(6, p) = m.value
  <2>1. /\ header \o m.value \in Seq(Octet)
        /\ Len(header \o m.value) = 6 + Len(m.value)
        /\ \A i \in 1 .. 6 : (header \o m.value)[i] = header[i]
        /\ ValueBehind(6, header \o m.value) = m.value
    BY <1>1, <1>3, 6 \in Nat \ {0}, Assembled
  <2>. QED
    BY <1>4, <2>1
<1>7. Number(High(m.req_id), Low(m.req_id)) = m.req_id
  BY <1>1, NumberAgain DEF Short
<1>8. Fields(p) = WriteFrame(m.req_id, m.topic, m.subtopic, m.value)
  <2>1. /\ p[1] = 6 /\ p[2] = High(m.req_id) /\ p[3] = Low(m.req_id)
        /\ p[4] = m.topic /\ p[5] = m.subtopic
    BY <1>1, <1>3, <1>6
  <2>2. Fields(p) = WriteFrame(Number(p[2], p[3]), p[4], p[5],
                               ValueBehind(6, p))
    BY <2>1 DEF Fields
  <2>. QED
    BY <1>6, <1>7, <2>1, <2>2
<1>9. WriteFrame(m.req_id, m.topic, m.subtopic, m.value) = m
  BY <1>1 DEF WriteFrame
<1>10. HeaderLength(m.op) = 6 /\ GetSizeOf(m) = 6 + Len(m.value)
  BY <1>1 DEF HeaderLength, GetSizeOf
<1>. QED
  BY <1>1, <1>3, <1>5, <1>6, <1>8, <1>9, <1>10 DEF WellFormed, Ending, Octet

LEMMA Topic ==
    ASSUME NEW m \in [op : WithTopic, req_id : Short, topic : Octet,
                      subtopic : Octet]
    PROVE  WellFormed(m) /\ Ending(m)
<1>. USE DEF WithSeqId, WithValue, WithTopic, MESSAGES_OP_PING,
             MESSAGES_OP_PONG, MESSAGES_OP_INFO, MESSAGES_OP_DATA,
             MESSAGES_OP_READ, MESSAGES_OP_WRITE, MESSAGES_OP_SUBSCRIBE,
             MESSAGES_OP_UNSUBSCRIBE
<1>1. /\ m.op \in {5, 7} /\ m.topic \in Octet /\ m.subtopic \in Octet
      /\ m.req_id \in Short /\ m.op \in Octet /\ m.op \in Op
  BY OpOctets
<1>2. PICK p : p = <<m.op, High(m.req_id), Low(m.req_id), m.topic, m.subtopic>>
  OBVIOUS
<1>3. /\ p \in Seq(Octet) /\ Len(p) = 5 /\ p[1] = m.op
      /\ p[2] = High(m.req_id) /\ p[3] = Low(m.req_id)
      /\ p[4] = m.topic /\ p[5] = m.subtopic
  BY <1>1, <1>2, ShortOctets
<1>4. Octets(m) = p
  BY <1>1, <1>2 DEF Octets
<1>5. Number(High(m.req_id), Low(m.req_id)) = m.req_id
  BY <1>1, NumberAgain DEF Short
<1>6. Fields(p) = [op |-> m.op, req_id |-> m.req_id, topic |-> m.topic,
                   subtopic |-> m.subtopic]
  <2>1. Fields(p) = [op |-> p[1], req_id |-> Number(p[2], p[3]),
                     topic |-> p[4], subtopic |-> p[5]]
    BY <1>1, <1>3 DEF Fields
  <2>. QED
    BY <1>3, <1>5, <2>1
<1>7. m = [op |-> m.op, req_id |-> m.req_id, topic |-> m.topic,
           subtopic |-> m.subtopic]
  OBVIOUS
<1>8. HeaderLength(m.op) = 5 /\ GetSizeOf(m) = 5
  BY <1>1 DEF HeaderLength, GetSizeOf
<1>. QED
  BY <1>1, <1>3, <1>4, <1>6, <1>7, <1>8 DEF WellFormed, Ending

LEMMA Unsubscribe ==
    ASSUME NEW m \in [op : {MESSAGES_OP_UNSUBSCRIBE}, req_id : Short]
    PROVE  WellFormed(m) /\ Ending(m)
<1>. USE DEF WithSeqId, WithValue, WithTopic, MESSAGES_OP_PING,
             MESSAGES_OP_PONG, MESSAGES_OP_INFO, MESSAGES_OP_DATA,
             MESSAGES_OP_READ, MESSAGES_OP_WRITE, MESSAGES_OP_SUBSCRIBE,
             MESSAGES_OP_UNSUBSCRIBE
<1>1. m.op = 8 /\ m.req_id \in Short /\ m.op \in Octet /\ m.op \in Op
  BY OpOctets
<1>2. PICK p : p = <<m.op, High(m.req_id), Low(m.req_id)>>
  OBVIOUS
<1>3. /\ p \in Seq(Octet) /\ Len(p) = 3 /\ p[1] = m.op
      /\ p[2] = High(m.req_id) /\ p[3] = Low(m.req_id)
  BY <1>1, <1>2, ShortOctets
<1>4. Octets(m) = p
  BY <1>1, <1>2 DEF Octets
<1>5. Number(High(m.req_id), Low(m.req_id)) = m.req_id
  BY <1>1, NumberAgain DEF Short
<1>6. Fields(p) = UnsubscribeFrame(Number(p[2], p[3]))
  BY <1>1, <1>3 DEF Fields
<1>7. UnsubscribeFrame(m.req_id) = m
  BY <1>1 DEF UnsubscribeFrame
<1>8. HeaderLength(m.op) = 3 /\ GetSizeOf(m) = 3
  BY <1>1 DEF HeaderLength, GetSizeOf
<1>. QED
  BY <1>1, <1>3, <1>4, <1>5, <1>6, <1>7, <1>8 DEF WellFormed, Ending

LEMMA EveryMessage ==
    ASSUME NEW m \in Message
    PROVE  WellFormed(m) /\ Ending(m)
BY Plain, Info, Data, Write, Topic, Unsubscribe DEF Message

-----------------------------------------------------------------------------
(* Theorems.                                                               *)

LEMMA OpWithLength ==
    ASSUME NEW p \in Seq(Octet), Len(p) >= 2, p[1] \in Op
    PROVE  HeaderLength(p[1]) \in 2 .. 11
BY DEF HeaderLength, Op, WithSeqId, WithValue, WithTopic, MESSAGES_OP_PING,
       MESSAGES_OP_PONG, MESSAGES_OP_INFO, MESSAGES_OP_DATA, MESSAGES_OP_READ,
       MESSAGES_OP_WRITE, MESSAGES_OP_SUBSCRIBE, MESSAGES_OP_UNSUBSCRIBE

\* The remainder of a natural number is not greater than it.
LEMMA RemainderBelow ==
    ASSUME NEW n \in Nat
    PROVE  /\ n % Base \in Nat /\ n % Base <= n
           /\ n < Base => n % Base = n
<1>1. Base \in Nat \ {0}
  BY MessagesAssumption
<1>2. /\ n \div Base \in Nat /\ n % Base \in 0 .. Base - 1
      /\ n = (n \div Base) * Base + (n % Base)
  BY <1>1, Z3
<1>3. (n \div Base) * Base \in Nat
  BY <1>1, <1>2
<1>4. n % Base \in Nat /\ n % Base <= n
  BY <1>1, <1>2, <1>3
<1>5. ASSUME n < Base PROVE n % Base = n
  BY <1>1, <1>5
<1>. QED
  BY <1>4, <1>5

\* For every kind of message, what message_serialize stores, field by field, is
\* exactly as long as message_getsizeof said beforehand: it stays inside of a
\* buffer that passed the test of mlen, and every octet that is sent was stored.
THEOREM FitsBuffer ==
    ASSUME NEW m \in Message, NEW len \in Nat
    PROVE  /\ Serialize(m, len) \in Seq(Octet)
           /\ Len(Serialize(m, len)) <= len
           /\ Len(Octets(m)) = GetSizeOf(m)
<1>1. /\ Octets(m) \in Seq(Octet) /\ Len(Octets(m)) = GetSizeOf(m)
  BY EveryMessage DEF WellFormed
<1>2. CASE GetSizeOf(m) > len
  BY <1>1, <1>2 DEF Serialize, NoPacket
<1>3. CASE ~(GetSizeOf(m) > len)
  <2>1. Serialize(m, len) = Octets(m)
    BY <1>3 DEF Serialize
  <2>. QED
    BY <1>1, <1>3, <2>1
<1>. QED
  BY <1>2, <1>3

\* message_deserialize finds in a packet what message_serialize has put there,
\* for every message that fits the buffer.
THEOREM RoundTrip ==
    ASSUME NEW m \in Message, NEW len \in Nat, GetSizeOf(m) <= len
    PROVE  Deserialize(Serialize(m, len)) = m
<1>. DEFINE p == Octets(m)
<1>1. WellFormed(m) /\ Ending(m)
  BY EveryMessage
<1>2. /\ p \in Seq(Octet) /\ Len(p) = GetSizeOf(m) /\ p[1] = m.op
      /\ m.op \in Op /\ HeaderLength(m.op) \in 2 .. 11
      /\ Len(p) >= HeaderLength(m.op) /\ Fields(p) = m
  BY <1>1 DEF WellFormed
<1>3. Serialize(m, len) = p
  BY <1>2 DEF Serialize
<1>4. ~TooShort(p)
  <2>1. ASSUME m.op \in WithValue PROVE Len(p) >= ValueEnd(p)
    <3>1. /\ p[HeaderLength(p[1])] \in Nat
          /\ Len(p) = p[HeaderLength(p[1])] + HeaderLength(p[1])
      BY <1>1, <1>2, <2>1 DEF Ending, Octet
    <3>. QED
      BY <1>2, <3>1, RemainderBelow DEF ValueEnd
  <2>2. ASSUME m.op \in WithValue PROVE ~(Len(p) < ValueEnd(p))
    <3>1. ValueEnd(p) \in Nat
      <4>1. p[HeaderLength(p[1])] + HeaderLength(p[1]) \in Nat
        BY <1>1, <1>2, <2>2 DEF Ending, Octet
      <4>. QED
        BY <4>1, RemainderBelow DEF ValueEnd
    <3>. QED
      BY <1>2, <2>1, <2>2, <3>1
  <2>. QED
    BY <1>2, <2>2 DEF TooShort
<1>. HIDE DEF p
<1>. QED
  BY <1>2, <1>3, <1>4 DEF Deserialize

\* The value of a message that is accepted lies within the packet, unless the
\* end of it is so far behind that vlen, of eight bits, has started anew.
THEOREM ValueInside ==
    ASSUME NEW p \in Seq(Octet), Deserialize(p) # Failed,
           p[1] \in WithValue,
           p[HeaderLength(p[1])] + HeaderLength(p[1]) < Base
    PROVE  ValueBehind(HeaderLength(p[1]), p) \in Values
<1>1. Len(p) >= 2 /\ p[1] \in Op /\ ~TooShort(p)
  BY DEF Deserialize
<1>2. PICK h \in 2 .. 11 : h = HeaderLength(p[1])
  BY <1>1, OpWithLength
<1>3. ~(Len(p) < h)
  BY <1>1, <1>2 DEF TooShort
<1>4. PICK v \in Octet : v = p[h]
  BY <1>2, <1>3
<1>5. v \in Nat /\ v < Base
  BY <1>4, MessagesAssumption DEF Octet
<1>6. ValueEnd(p) = v + h
  <2>1. v + h \in Nat /\ v + h < Base
    BY <1>2, <1>4, <1>5
  <2>2. (v + h) % Base = v + h
    BY <2>1, RemainderBelow
  <2>. QED
    BY <1>2, <1>4, <2>2 DEF ValueEnd
<1>7. v + h <= Len(p)
  BY <1>1, <1>2, <1>5, <1>6 DEF TooShort
<1>8. ValueBehind(h, p) = [i \in 1 .. v |-> p[h + i]]
  BY <1>2, <1>4, <1>5, <1>7 DEF ValueBehind
<1>9. \A i \in 1 .. v : p[h + i] \in Octet
  BY <1>2, <1>5, <1>7
<1>10. [i \in 1 .. v |-> p[h + i]] \in Seq(Octet)
       /\ Len([i \in 1 .. v |-> p[h + i]]) = v
  BY <1>5, <1>9
<1>. QED
  BY <1>2, <1>5, <1>8, <1>10 DEF Values

\* A packet that ends before its message does is refused, at the octet it
\* ends: with messages shorter than vlen can count.
THEOREM CutRefused ==
    ASSUME NEW m \in Message, NEW k \in Nat, k < GetSizeOf(m),
           GetSizeOf(m) < Base
    PROVE  Deserialize(SubSeq(Octets(m), 1, k)) = Failed
<1>1. WellFormed(m) /\ Ending(m)
  BY EveryMessage
<1>2. /\ Octets(m) \in Seq(Octet) /\ Len(Octets(m)) = GetSizeOf(m)
      /\ Octets(m)[1] = m.op
      /\ m.op \in Op /\ HeaderLength(m.op) \in 2 .. 11
      /\ GetSizeOf(m) >= HeaderLength(m.op)
  BY <1>1 DEF WellFormed
<1>3. PICK p : p = SubSeq(Octets(m), 1, k)
  OBVIOUS
<1>4. /\ p \in Seq(Octet) /\ Len(p) = k
      /\ \A i \in 1 .. k : p[i] = Octets(m)[i]
  BY <1>2, <1>3
<1>5. CASE k < HeaderLength(m.op)
  <2>1. CASE k < 2
    BY <1>3, <1>4, <2>1 DEF Deserialize
  <2>2. CASE k >= 2
    <3>1. p[1] = m.op
      BY <1>2, <1>4, <2>2
    <3>2. TooShort(p)
      BY <1>4, <1>5, <3>1 DEF TooShort
    <3>. QED
      BY <1>3, <1>4, <2>2, <3>2 DEF Deserialize
  <2>. QED
    BY <2>1, <2>2
<1>6. CASE k >= HeaderLength(m.op)
  <2>1. /\ p[1] = m.op
        /\ p[HeaderLength(m.op)] = Octets(m)[HeaderLength(m.op)]
    BY <1>2, <1>4, <1>6
  <2>2. m.op \in WithValue
    <3>1. SUFFICES ASSUME m.op \notin WithValue PROVE FALSE
      OBVIOUS
    <3>2. GetSizeOf(m) = HeaderLength(m.op)
      BY <1>2, <3>1 DEF GetSizeOf
    <3>. QED
      BY <1>2, <1>6, <3>2
  <2>3. /\ p[HeaderLength(p[1])] \in Nat
        /\ p[HeaderLength(p[1])] + HeaderLength(p[1]) = GetSizeOf(m)
    BY <1>1, <1>2, <2>1, <2>2 DEF Ending, Octet
  <2>4. ValueEnd(p) = GetSizeOf(m)
    BY <1>2, <2>1, <2>3, RemainderBelow DEF ValueEnd
  <2>5. TooShort(p)
    BY <1>4, <2>1, <2>2, <2>4 DEF TooShort
  <2>. QED
    BY <1>2, <1>3, <1>4, <1>6, <2>5 DEF Deserialize
<1>. QED
  BY <1>2, <1>5, <1>6

-----------------------------------------------------------------------------
(* Induction over the numbers, and what is defined by recursion.           *)

\* The order of the numbers.
LessThan == {p \in Nat \X Nat : p[1] < p[2]}

\* The library orders the numbers by a relation, and it is well-founded.
LEMMA LessThanWellFounded == IsWellFoundedOn(LessThan, Nat)
<1>1. IsWellFoundedOn(OpToRel(<, Nat), Nat)
  BY NatLessThanWellFounded
<1>2. LessThan \cap (Nat \X Nat) \subseteq OpToRel(<, Nat)
  BY Zenon DEF LessThan, OpToRel
<1>. QED
  BY <1>1, <1>2, IsWellFoundedOnSubrelation, Zenon

\* A set of numbers that is not empty has a least one.
LEMMA LeastIn ==
    ASSUME NEW S, S \subseteq Nat, S # {}
    PROVE  \E i \in S : \A j \in S : i <= j
<1>1. PICK x \in S : \A y \in S : ~(<<y, x>> \in LessThan)
  BY LessThanWellFounded, WFMin
<1>2. ASSUME NEW y \in S PROVE x <= y
  <2>1. x \in Nat /\ y \in Nat /\ ~(<<y, x>> \in LessThan)
    BY <1>1
  <2>. QED
    BY <2>1 DEF LessThan
<1>. QED
  BY <1>2

\* Induction: over a set, which the provers can instantiate.
LEMMA UpTo ==
    ASSUME NEW n \in Nat, NEW S, 0 \in S,
           \A i \in 1 .. n : i - 1 \in S => i \in S
    PROVE  \A i \in 0 .. n : i \in S
<1>. SUFFICES ASSUME NEW j \in 0 .. n, j \notin S PROVE FALSE
  OBVIOUS
<1>. DEFINE T == {i \in 0 .. n : i \notin S}
<1>1. PICK i \in T : \A k \in T : i <= k
  <2>1. T \subseteq Nat /\ T # {}
    OBVIOUS
  <2>. QED
    BY <2>1, LeastIn
<1>2. i \in 0 .. n /\ i \notin S /\ i # 0
  BY <1>1
<1>3. i - 1 \in 0 .. n /\ i - 1 \notin T
  BY <1>1, <1>2
<1>. QED
  BY <1>2, <1>3

\* What Max and Min of the library return.
LEMMA GreatestIn ==
    ASSUME NEW n \in Nat, NEW S, S \subseteq 0 .. n, S # {}
    PROVE  Max(S) \in S
<1>. DEFINE T == {i \in 0 .. n : n - i \in S}
<1>1. PICK x \in S : TRUE
  OBVIOUS
<1>2. n - x \in T
  <2>1. x \in 0 .. n /\ n - x \in 0 .. n /\ n - (n - x) = x
    BY <1>1
  <2>. QED
    BY <1>1, <2>1
<1>3. PICK i \in T : \A j \in T : i <= j
  <2>1. T \subseteq Nat
    OBVIOUS
  <2>2. T # {}
    BY <1>2
  <2>. HIDE DEF T
  <2>. QED
    BY <2>1, <2>2, LeastIn
<1>4. n - i \in S
  BY <1>3
<1>5. ASSUME NEW y \in S PROVE n - i >= y
  <2>1. y \in 0 .. n /\ n - y \in 0 .. n /\ n - (n - y) = y
    OBVIOUS
  <2>2. n - y \in T
    BY <2>1
  <2>3. i \in 0 .. n /\ i <= n - y
    BY <1>3, <2>2
  <2>. QED
    BY <2>1, <2>3
<1>6. \E m \in S : \A y \in S : m >= y
  BY <1>4, <1>5
<1>. QED
  BY <1>6, Zenon DEF Max

LEMMA SmallestIn ==
    ASSUME NEW S, S \subseteq Nat, S # {}
    PROVE  Min(S) \in S
<1>1. \E m \in S : \A y \in S : m <= y
  BY LeastIn
<1>. QED
  BY <1>1, Zenon DEF Min

\* g is made from x, step by step.
Steps(g, n, X, x, F) ==
    /\ g \in [0 .. n -> X] /\ g[0] = x
    /\ \A i \in 1 .. n : g[i] = F[<<g[i - 1], i>>]

\* There is such a function, for every step F that stays in X.
LEMMA StepByStep ==
    ASSUME NEW n \in Nat, NEW X, NEW x \in X, NEW F,
           \A a \in X : \A i \in 1 .. n : F[<<a, i>>] \in X
    PROVE  \E g : Steps(g, n, X, x, F)
<1>. DEFINE S == {m \in 0 .. n :
                    \E g \in [0 .. m -> X] :
                       g[0] = x /\ \A i \in 1 .. m : g[i] = F[<<g[i - 1], i>>]}
<1>1. 0 \in S
  <2>1. PICK g : g = [i \in 0 .. 0 |-> x]
    OBVIOUS
  <2>2. g \in [0 .. 0 -> X] /\ g[0] = x
    BY <2>1
  <2>3. \A i \in 1 .. 0 : g[i] = F[<<g[i - 1], i>>]
    OBVIOUS
  <2>. QED
    BY <2>2, <2>3
<1>2. ASSUME NEW m \in 1 .. n, m - 1 \in S PROVE m \in S
  <2>1. PICK g \in [0 .. m - 1 -> X] :
           g[0] = x /\ \A i \in 1 .. m - 1 : g[i] = F[<<g[i - 1], i>>]
    BY <1>2
  <2>. DEFINE h == [i \in 0 .. m |->
                        IF i = m THEN F[<<g[m - 1], m>>] ELSE g[i]]
  <2>2. h \in [0 .. m -> X]
    OBVIOUS
  <2>3. h[0] = x
    <3>1. 0 \in 0 .. m /\ 0 # m
      OBVIOUS
    <3>. QED
      BY <2>1, <3>1
  <2>4. ASSUME NEW i \in 1 .. m PROVE h[i] = F[<<h[i - 1], i>>]
    <3>1. CASE i = m
      <4>1. m - 1 \in 0 .. m /\ m - 1 # m /\ m \in 0 .. m
        OBVIOUS
      <4>2. h[m - 1] = g[m - 1]
        BY <4>1
      <4>3. h[m] = F[<<g[m - 1], m>>]
        BY <4>1
      <4>. QED
        BY <3>1, <4>2, <4>3
    <3>2. CASE i # m
      <4>1. i \in 1 .. m - 1 /\ h[i] = g[i] /\ h[i - 1] = g[i - 1]
        BY <3>2
      <4>. QED
        BY <2>1, <4>1
    <3>. QED
      BY <3>1, <3>2
  <2>. HIDE DEF h
  <2>. QED
    BY <2>2, <2>3, <2>4
<1>3. n \in S
  <2>. HIDE DEF S
  <2>. QED
    BY <1>1, <1>2, UpTo
<1>. QED
  BY <1>3 DEF Steps

-----------------------------------------------------------------------------
(* The constants.                                                          *)

\* What the assumptions say of the sizes.
LEMMA Constants ==
    /\ Base \in Nat /\ Base > 11
    /\ SFP_CONFIG_MAX_PACKET_SIZE \in Nat
    /\ SFP_CONFIG_MAX_PACKET_SIZE <= Base
    /\ RPC_SUB_MAX \in Nat /\ 11 + 5 * RPC_SUB_MAX <= SFP_CONFIG_MAX_PACKET_SIZE
    /\ kVexMotorNum \in Nat
    /\ 11 + 2 * kVexMotorNum <= SFP_CONFIG_MAX_PACKET_SIZE
    /\ CASSETTE_MAX \in Nat /\ CASSETTE_MAX <= Base - 8
    /\ ChunkSize \in Nat \ {0}
    /\ 11 + ChunkSize <= SFP_CONFIG_MAX_PACKET_SIZE
    /\ 11 + 8 <= SFP_CONFIG_MAX_PACKET_SIZE
<1>1. HeaderLength(MESSAGES_OP_DATA) = 11
  BY OpWithLength DEF HeaderLength, WithSeqId, WithTopic, MESSAGES_OP_PING,
     MESSAGES_OP_PONG, MESSAGES_OP_INFO, MESSAGES_OP_DATA, MESSAGES_OP_READ,
     MESSAGES_OP_WRITE, MESSAGES_OP_SUBSCRIBE, MESSAGES_OP_UNSUBSCRIBE
<1>. QED
  BY <1>1, MessagesAssumption, RepliesAssumption

\* The octets that stand for something.
LEMMA Named ==
    /\ {PUBSUB, CLOCK, MOTOR, NETWORK, ROBOT, CASSETTE, ALL, NOW, WRITE, CLOSE,
        OPEN, COUNT, FREE, MAX, LIST, NoCassette} \subseteq Octet
    /\ 0 .. 11 \subseteq Octet
    /\ Slot \subseteq Octet /\ MotorIndex \subseteq Octet
    /\ CassetteIndex \subseteq Octet
    /\ {WRITE, CLOSE, OPEN, COUNT, FREE, MAX, LIST, ALL, NoCassette}
         \cap CassetteIndex = {}
BY Constants DEF Octet, PUBSUB, CLOCK, MOTOR, NETWORK, ROBOT, CASSETTE, ALL,
   NOW, WRITE, CLOSE, OPEN, COUNT, FREE, MAX, LIST, NoCassette, Slot,
   MotorIndex, CassetteIndex

\* The ids of a host are short, and not the 0 of a message about none.
LEMMA Ids ==
    ASSUME NEW id \in ReqId
    PROVE  id \in Short /\ id # 0
BY HostAssumption

-----------------------------------------------------------------------------
(* Values.                                                                 *)

\* What a frame with DATA can hold.
Sendable == {v \in Seq(Octet) : 11 + Len(v) <= SFP_CONFIG_MAX_PACKET_SIZE}

\* The values that rpc.c sends are among them.
LEMMA EmptySendable == <<>> \in Sendable
BY Constants DEF Sendable

LEMMA OneSendable ==
    ASSUME NEW o \in Octet
    PROVE  <<o>> \in Sendable
BY Constants DEF Sendable

LEMMA ErrorsSendable ==
    {BAD_REQ_ID, BAD_TOPIC, BAD_SUBTOPIC, SUB_MAX} \subseteq Sendable
<1>1. 1 \in Octet /\ 2 \in Octet /\ 3 \in Octet /\ 4 \in Octet
  BY Named
<1>. QED
  BY <1>1, OneSendable DEF BAD_REQ_ID, BAD_TOPIC, BAD_SUBTOPIC, SUB_MAX

LEMMA ClockSendable == Clock \in Sendable
<1>1. 0 \in Octet
  BY Named
<1>2. Clock \in [1 .. 8 -> Octet]
  BY <1>1 DEF Clock
<1>3. Clock \in Seq(Octet) /\ Len(Clock) = 8
  BY <1>1 DEF Clock
<1>. QED
  BY <1>3, Constants DEF Sendable

\* The octets of a length.
LEMMA LowOctet ==
    ASSUME NEW n \in Nat
    PROVE  Low(n) \in Octet /\ High(n) \in Nat
BY Divided

LEMMA LengthOctets ==
    ASSUME NEW n \in Nat
    PROVE  LongOctets(n) \in Seq(Octet) /\ Len(LongOctets(n)) = 4
<1>1. High(n) \in Nat /\ Low(n) \in Octet
  BY LowOctet
<1>2. High(High(n)) \in Nat /\ Low(High(n)) \in Octet
  BY <1>1, LowOctet
<1>3. High(High(High(n))) \in Nat /\ Low(High(High(n))) \in Octet
  BY <1>2, LowOctet
<1>4. Low(High(High(High(n)))) \in Octet
  BY <1>3, LowOctet
<1>. QED
  BY <1>1, <1>2, <1>3, <1>4 DEF LongOctets

LEMMA LengthSendable ==
    ASSUME NEW n \in Nat
    PROVE  /\ LongOctets(n) \in Sendable /\ LongOctets(n) # <<>>
           /\ \A c \in Octet : <<c>> \o LongOctets(n) \in Sendable
<1>1. LongOctets(n) \in Seq(Octet) /\ Len(LongOctets(n)) = 4
  BY LengthOctets
<1>2. ASSUME NEW c \in Octet
      PROVE  /\ <<c>> \o LongOctets(n) \in Seq(Octet)
             /\ Len(<<c>> \o LongOctets(n)) = 5
  <2>1. PICK t : t = <<c>>
    OBVIOUS
  <2>2. t \in Seq(Octet) /\ Len(t) = 1
    BY <2>1
  <2>3. PICK u : u = LongOctets(n)
    OBVIOUS
  <2>4. u \in Seq(Octet) /\ Len(u) = 4
    BY <1>1, <2>3
  <2>5. t \o u \in Seq(Octet) /\ Len(t \o u) = Len(t) + Len(u)
    BY ONLY <2>2, <2>4, ConcatProperties
  <2>. QED
    BY <2>1, <2>2, <2>3, <2>4, <2>5
<1>. QED
  BY <1>1, <1>2, Constants DEF Sendable

\* Pieces of at most k octets make up k times as many at most.
LEMMA Flattened ==
    ASSUME NEW n \in Nat, NEW k \in Nat, NEW f \in [1 .. n -> Seq(Octet)],
           \A i \in 1 .. n : Len(f[i]) <= k
    PROVE  FlattenSeq(f) \in Seq(Octet) /\ Len(FlattenSeq(f)) <= k * n
<1>0. f \in Seq(Seq(Octet)) /\ Len(f) = n
  OBVIOUS
<1>1. CASE n = 0
  <2>1. f = <<>>
    BY <1>0, <1>1
  <2>2. FlattenSeq(f) = f
    BY <1>0, <1>1, Zenon DEF FlattenSeq
  <2>3. k * n = 0
    BY <1>1
  <2>4. <<>> \in Seq(Octet) /\ Len(<<>>) = 0
    OBVIOUS
  <2>5. FlattenSeq(f) = <<>>
    BY <2>1, <2>2, Zenon
  <2>. QED
    BY <2>3, <2>4, <2>5
<1>2. CASE n # 0
  <2>. DEFINE Flat(g) == [i \in 1 .. Len(f) |->
                            IF i = 1 THEN f[i] ELSE g[i - 1] \o f[i]]
  <2>1. PICK g \in [0 .. n -> Seq(Octet)] :
           g[0] = <<>> /\ \A i \in 1 .. n : g[i] = g[i - 1] \o f[i]
    <3>0. PICK F : F = [p \in Seq(Octet) \X (1 .. n) |-> p[1] \o f[p[2]]]
      OBVIOUS
    <3>1. \A a \in Seq(Octet) : \A i \in 1 .. n : F[<<a, i>>] \in Seq(Octet)
      BY <3>0
    <3>2. ASSUME NEW a \in Seq(Octet), NEW i \in 1 .. n
          PROVE  F[<<a, i>>] = a \o f[i]
      BY <3>0
    <3>3. <<>> \in Seq(Octet)
      OBVIOUS
    <3>4. PICK g \in [0 .. n -> Seq(Octet)] :
             g[0] = <<>> /\ \A i \in 1 .. n : g[i] = F[<<g[i - 1], i>>]
      <4>1. \E g : Steps(g, n, Seq(Octet), <<>>, F)
        BY <3>1, <3>3, StepByStep
      <4>. QED
        BY <4>1 DEF Steps
    <3>5. ASSUME NEW i \in 1 .. n PROVE g[i] = g[i - 1] \o f[i]
      <4>1. i - 1 \in 0 .. n
        OBVIOUS
      <4>. QED
        BY <3>2, <3>4, <4>1
    <3>. QED
      BY <3>4, <3>5
  <2>. DEFINE h == [i \in 1 .. n |-> g[i]]
  <2>2. h = Flat(h)
    <3>1. ASSUME NEW i \in 1 .. n
          PROVE  g[i] = IF i = 1 THEN f[i] ELSE h[i - 1] \o f[i]
      <4>1. CASE i = 1
        <5>1. f[i] \in Seq(Octet)
          OBVIOUS
        <5>2. <<>> \o f[i] = f[i]
          BY <5>1, ConcatEmptySeq
        <5>3. g[i] = g[i - 1] \o f[i]
          BY <2>1
        <5>4. g[i - 1] = <<>>
          BY <2>1, <4>1
        <5>. QED
          BY <4>1, <5>2, <5>3, <5>4
      <4>2. CASE i # 1
        <5>1. h[i - 1] = g[i - 1]
          BY <4>2
        <5>. QED
          BY <2>1, <4>2, <5>1
      <4>. QED
        BY <4>1, <4>2
    <3>. QED
      BY <1>0, <3>1
  <2>. DEFINE c == CHOOSE e : e = Flat(e)
  <2>3. c = Flat(c)
    <3>. HIDE DEF h, Flat
    <3>. QED
      BY <2>2, Zenon
  <2>4. FlattenSeq(f) = c[n]
    <3>1. Len(f) = n /\ Len(f) # 0
      BY <1>0, <1>2
    <3>. QED
      BY <3>1, Zenon DEF FlattenSeq
  <2>. HIDE DEF c
  <2>5. \A i \in 1 .. n : c[i] = IF i = 1 THEN f[i] ELSE c[i - 1] \o f[i]
    BY <1>0, <2>3
  <2>. DEFINE S == {i \in 0 .. n :
                      i # 0 => c[i] \in Seq(Octet) /\ Len(c[i]) <= k * i}
  <2>6. \A i \in 0 .. n : i \in S
    <3>1. 0 \in S
      OBVIOUS
    <3>2. ASSUME NEW i \in 1 .. n, i - 1 \in S PROVE i \in S
      <4>1. f[i] \in Seq(Octet) /\ Len(f[i]) <= k /\ Len(f[i]) \in Nat
        OBVIOUS
      <4>2. CASE i = 1
        BY <2>5, <4>1, <4>2
      <4>3. CASE i # 1
        <5>1. c[i] = c[i - 1] \o f[i]
          BY <2>5, <4>3
        <5>2. c[i - 1] \in Seq(Octet) /\ Len(c[i - 1]) <= k * (i - 1)
          BY <3>2, <4>3
        <5>3. k * (i - 1) + k = k * i /\ k * i \in Nat /\ k * (i - 1) \in Nat
          OBVIOUS
        <5>4. /\ c[i] \in Seq(Octet)
              /\ Len(c[i]) = Len(c[i - 1]) + Len(f[i])
          BY <4>1, <5>1, <5>2
        <5>5. Len(c[i - 1]) \in Nat
          BY <5>2
        <5>. QED
          BY <4>1, <5>2, <5>3, <5>4, <5>5
      <4>. QED
        BY <4>2, <4>3
    <3>. HIDE DEF S
    <3>. QED
      BY <3>1, <3>2, UpTo
  <2>. QED
    BY <1>2, <2>4, <2>6
<1>. QED
  BY <1>1, <1>2

-----------------------------------------------------------------------------
(* What is on its way to the host, and the state of rpc.c.                 *)

\* DATA of any topic.
DataMessage ==
    [op : {MESSAGES_OP_DATA}, req_id : Short, topic : Octet, subtopic : Octet,
     flag : Octet, timestamp : Long, value : Values]

\* A reply to nothing the host waits for is an error.
Frame ==
    {m \in Message : m.op \in {MESSAGES_OP_PONG, MESSAGES_OP_INFO}}
    \cup {m \in DataMessage : m.req_id \in ReqId \/ m.flag = 5}

\* Octets of a cassette, or the length of one that has been read.
AboutTape(m) ==
    /\ m.op = MESSAGES_OP_DATA /\ m.topic = CASSETTE
    /\ \/ ~Ends(m)
       \/ /\ m.subtopic \in CassetteIndex
          /\ m.flag = MESSAGES_DATA_FLAG_END /\ m.value # <<>>

\* A packet on its way to the host.
Entry ==
    {e \in [packet : Seq(Octet), meant : Frame] :
        Deserialize(e.packet) = e.meant}

PlainEntry == {e \in Entry : ~AboutTape(e.meant)}

\* A slot, and all of them.
Sub == [active : BOOLEAN, req_id : Short, topic : Octet, subtopic : Octet]

Subs == {f \in [Slot -> Sub] :
            \A i \in Slot : f[i].active => f[i].req_id \in ReqId}

\* READ as a host sends it.
Asking == [op : {MESSAGES_OP_READ}, req_id : ReqId, topic : Octet,
           subtopic : Octet]

\* The loop of rpcRecvReadCassette.
Loop == {r \in [file : CassetteIndex, read : Asking, rlen : Nat,
                tmp : Seq(Octet)] :
            r.read.topic = CASSETTE /\ r.read.subtopic = r.file}

\* rpc_t between two steps: nothing in out is about a tape.
Rpc == [subs : Subs, motor : [MotorIndex -> Octet],
        cassette : CassetteIndex \cup {NoCassette}, open : BOOLEAN,
        reading : {NotReading} \cup Loop, out : Seq(PlainEntry)]

\* What the motors and the files can be.
WorldType ==
    /\ motors \in [MotorIndex -> Octet]
    /\ files \in [CassetteIndex -> Seq(Octet) \cup {Absent}]

\* A loop that reads is a loop that has begun.
LEMMA LoopIsNot ==
    ASSUME NEW r \in Loop
    PROVE  r # NotReading
<1>1. "read" \in DOMAIN r
  BY DEF Loop
<1>2. "read" \notin DOMAIN NotReading
  BY DEF NotReading
<1>. QED
  BY <1>1, <1>2

-----------------------------------------------------------------------------
(* The frames for a request id.                                            *)

\* No frame answers id, or none ends it.
NoFrame(t, id) == \A i \in 1 .. Len(t) : ~IsFor(t[i].meant, id)

Unended(t, id) ==
    \A i \in 1 .. Len(t) : IsFor(t[i].meant, id) => ~Ends(t[i].meant)

\* One of them ends the request, and is the last.
EndsAt(t, id, e) ==
    /\ IsFor(t[e].meant, id) /\ Ends(t[e].meant)
    /\ \A i \in 1 .. Len(t) :
          IsFor(t[i].meant, id) => i <= e /\ (Ends(t[i].meant) => i = e)

Ended(t, id) == \E e \in 1 .. Len(t) : EndsAt(t, id, e)

\* The loop reads a cassette for id.
Reads(s, id) == s.reading # NotReading /\ s.reading.read.req_id = id

\* What a handler does about an id: nothing, it adds frames, it adds the last.
Holds(s, s2, id) ==
    SubFind(s2, id) = SubFind(s, id) /\ (Reads(s2, id) <=> Reads(s, id))

Keeps(s, s2, id) ==
    /\ Holds(s, s2, id)
    /\ NoFrame(s.out, id) => NoFrame(s2.out, id)
    /\ Unended(s.out, id) => Unended(s2.out, id)
    /\ Ended(s.out, id) => Ended(s2.out, id)

\* More frames, or the last one.
Adds(s, s2, id) ==
    Holds(s, s2, id) /\ (Unended(s.out, id) => Unended(s2.out, id))

Answers(s, s2, id) ==
    Holds(s, s2, id) /\ (Unended(s.out, id) => Ended(s2.out, id))

\* Neither the loop nor the cassette changes.
Calm(s, s2) ==
    /\ s2 \in Rpc
    /\ s2.reading = s.reading /\ s2.cassette = s.cassette /\ s2.open = s.open

\* Frames for q only, or its last one.
Continues(s, s2, q) ==
    /\ Calm(s, s2)
    /\ \A id \in ReqId : IF id = q THEN Adds(s, s2, id) ELSE Keeps(s, s2, id)

Replied(s, s2, q) ==
    /\ Calm(s, s2)
    /\ \A id \in ReqId : IF id = q THEN Answers(s, s2, id) ELSE Keeps(s, s2, id)

\* One more frame behind others.
LEMMA Appended ==
    ASSUME NEW o \in Seq(Entry), NEW e \in Entry, NEW id
    PROVE  /\ ~IsFor(e.meant, id) =>
                  /\ NoFrame(o, id) => NoFrame(Append(o, e), id)
                  /\ Ended(o, id) => Ended(Append(o, e), id)
           /\ (IsFor(e.meant, id) => ~Ends(e.meant)) /\ Unended(o, id) =>
                  Unended(Append(o, e), id)
           /\ IsFor(e.meant, id) /\ Ends(e.meant) /\ Unended(o, id) =>
                  Ended(Append(o, e), id)
<1>. DEFINE a == Append(o, e)
            n == Len(o)
<1>1. /\ n \in Nat /\ Len(a) = n + 1 /\ a[n + 1] = e
      /\ \A i \in 1 .. n : a[i] = o[i]
  BY AppendProperties
<1>. HIDE DEF a, n
<1>2. \A i \in 1 .. n + 1 : i \in 1 .. n \/ i = n + 1
  BY <1>1
<1>3. ASSUME ~IsFor(e.meant, id), NoFrame(o, id) PROVE NoFrame(a, id)
  BY <1>1, <1>2, <1>3 DEF NoFrame, n
<1>4. ASSUME ~IsFor(e.meant, id), Ended(o, id) PROVE Ended(a, id)
  <2>1. PICK k \in 1 .. n : EndsAt(o, id, k)
    BY <1>4 DEF Ended, n
  <2>2. k \in 1 .. n + 1 /\ a[k] = o[k]
    BY <1>1
  <2>3. EndsAt(a, id, k)
    BY <1>1, <1>2, <1>4, <2>1, <2>2 DEF EndsAt, n
  <2>. QED
    BY <1>1, <2>2, <2>3 DEF Ended
<1>5. ASSUME IsFor(e.meant, id) => ~Ends(e.meant), Unended(o, id)
      PROVE  Unended(a, id)
  BY <1>1, <1>2, <1>5 DEF Unended, n
<1>6. ASSUME IsFor(e.meant, id), Ends(e.meant), Unended(o, id)
      PROVE  Ended(a, id)
  <2>1. EndsAt(a, id, n + 1)
    BY <1>1, <1>2, <1>6 DEF EndsAt, Unended, n
  <2>. QED
    BY <1>1, <2>1 DEF Ended
<1>. QED
  BY <1>3, <1>4, <1>5, <1>6 DEF a

\* What several calls do, one after the other.
LEMMA KeepsTrans ==
    ASSUME NEW a, NEW b, NEW c, NEW id, Keeps(a, b, id), Keeps(b, c, id)
    PROVE  Keeps(a, c, id)
BY DEF Keeps, Holds

LEMMA ContinuesTrans ==
    ASSUME NEW a, NEW b, NEW c, NEW q, Continues(a, b, q)
    PROVE  /\ Continues(b, c, q) => Continues(a, c, q)
           /\ Replied(b, c, q) => Replied(a, c, q)
<1>1. ASSUME NEW id, Adds(a, b, id)
      PROVE  /\ Adds(b, c, id) => Adds(a, c, id)
             /\ Answers(b, c, id) => Answers(a, c, id)
  BY <1>1 DEF Adds, Answers, Holds
<1>2. Calm(b, c) => Calm(a, c)
  BY DEF Continues, Calm
<1>. QED
  BY <1>1, <1>2, KeepsTrans DEF Continues, Replied

LEMMA ContinuesOther ==
    ASSUME NEW s, NEW s2, NEW q, Calm(s, s2), \A id \in ReqId : Keeps(s, s2, id)
    PROVE  Continues(s, s2, q)
BY DEF Continues, Keeps, Adds

-----------------------------------------------------------------------------
(* rpcSend.                                                                *)

\* A frame to send.
Added(s, e) == [s EXCEPT !.out = Append(@, e)]

\* The state with one more frame to send.
LEMMA AddedOne ==
    ASSUME NEW s \in Rpc, NEW e
    PROVE  /\ Added(s, e).out = Append(s.out, e)
           /\ Added(s, e).subs = s.subs /\ Added(s, e).motor = s.motor
           /\ Added(s, e).reading = s.reading
           /\ Added(s, e).cassette = s.cassette /\ Added(s, e).open = s.open
           /\ e \in PlainEntry => Added(s, e) \in Rpc
<1>1. /\ s.subs \in Subs /\ s.motor \in [MotorIndex -> Octet]
      /\ s.cassette \in CassetteIndex \cup {NoCassette} /\ s.open \in BOOLEAN
      /\ s.reading \in {NotReading} \cup Loop /\ s.out \in Seq(PlainEntry)
  BY DEF Rpc
<1>2. /\ Added(s, e).out = Append(s.out, e)
      /\ Added(s, e).subs = s.subs /\ Added(s, e).motor = s.motor
      /\ Added(s, e).reading = s.reading
      /\ Added(s, e).cassette = s.cassette /\ Added(s, e).open = s.open
  BY DEF Added, Rpc
<1>3. e \in PlainEntry => Append(s.out, e) \in Seq(PlainEntry)
  BY <1>1
<1>4. e \in PlainEntry => Added(s, e) \in Rpc
  <2>1. SUFFICES ASSUME NEW o \in Seq(PlainEntry)
                 PROVE  [s EXCEPT !.out = o] \in Rpc
    BY <1>3 DEF Added
  <2>. QED
    BY DEF Rpc
<1>. QED
  BY <1>2, <1>4

LEMMA OutEntries ==
    ASSUME NEW s \in Rpc
    PROVE  s.out \in Seq(Entry) /\ s.out \in Seq(PlainEntry)
<1>1. s.out \in Seq(PlainEntry)
  BY DEF Rpc
<1>2. PlainEntry \subseteq Entry
  BY DEF PlainEntry
<1>. QED
  BY <1>1, <1>2, SeqMonotonic

\* A message that fits is understood.
LEMMA WholeIs ==
    ASSUME NEW m \in Message, GetSizeOf(m) <= SFP_CONFIG_MAX_PACKET_SIZE
    PROVE  /\ Whole(m) \in [packet : Seq(Octet), meant : {m}]
           /\ Whole(m).meant = m
           /\ Deserialize(Whole(m).packet) = m
           /\ Whole(m).packet # NoPacket
           /\ \A s : Send(s, m) = Added(s, Whole(m))
<1>1. Deserialize(Serialize(m, SFP_CONFIG_MAX_PACKET_SIZE)) = m
  BY RoundTrip, Constants
<1>2. Serialize(m, SFP_CONFIG_MAX_PACKET_SIZE) \in Seq(Octet)
  BY FitsBuffer, Constants
<1>3. Serialize(m, SFP_CONFIG_MAX_PACKET_SIZE) # NoPacket
  <2>1. Deserialize(NoPacket) = Failed
    BY DEF Deserialize, NoPacket
  <2>2. Failed.op = 0 /\ m.op # 0
    BY EveryMessage, OpOctets DEF Failed, WellFormed
  <2>. QED
    BY <1>1, <2>1, <2>2
<1>4. Whole(m) = [packet |-> Serialize(m, SFP_CONFIG_MAX_PACKET_SIZE),
                  meant |-> m]
  BY DEF Whole
<1>5. ASSUME NEW s PROVE Send(s, m) = Added(s, Whole(m))
  BY <1>3, <1>4, Zenon DEF Send, Added
<1>. QED
  BY <1>1, <1>2, <1>3, <1>4, <1>5

\* A DATA message with a value that fits.
LEMMA DataIs ==
    ASSUME NEW q \in Short, NEW t \in Octet, NEW st \in Octet, NEW fl \in Octet,
           NEW v \in Sendable, NEW m, m = DataFrame(q, t, st, fl, 0, v)
    PROVE  /\ m \in DataMessage /\ m \in Message
           /\ m.op = MESSAGES_OP_DATA /\ m.req_id = q /\ m.topic = t
           /\ m.subtopic = st /\ m.flag = fl /\ m.value = v
           /\ GetSizeOf(m) <= SFP_CONFIG_MAX_PACKET_SIZE
<1>1. v \in Values /\ 11 + Len(v) <= SFP_CONFIG_MAX_PACKET_SIZE
  BY Constants DEF Sendable, Values
<1>2. 0 \in Long
  <2>1. PICK b \in Nat : b = Base
    BY Constants
  <2>2. b > 11
    BY <2>1, Constants
  <2>3. b * b > 0 /\ b * b \in Nat
    BY <2>2
  <2>4. b * b * b > 0 /\ b * b * b \in Nat
    BY <2>2, <2>3
  <2>5. b * b * b * b > 0 /\ b * b * b * b \in Nat
    BY <2>2, <2>4
  <2>. QED
    BY <2>1, <2>5 DEF Long
<1>3. /\ m = [op |-> MESSAGES_OP_DATA, req_id |-> q, topic |-> t,
              subtopic |-> st, flag |-> fl, timestamp |-> 0, value |-> v]
  BY DEF DataFrame
<1>4. /\ m \in DataMessage
      /\ m.op = MESSAGES_OP_DATA /\ m.req_id = q /\ m.topic = t
      /\ m.subtopic = st /\ m.flag = fl /\ m.value = v
  BY <1>1, <1>2, <1>3 DEF DataMessage
<1>5. m \in Message
  BY <1>4 DEF Message, DataMessage
<1>6. GetSizeOf(m) = 11 + Len(v)
  <2>1. HeaderLength(m.op) = 11 /\ m.op \in WithValue
    BY <1>4 DEF HeaderLength, WithSeqId, WithTopic, WithValue, MESSAGES_OP_PING,
     MESSAGES_OP_PONG, MESSAGES_OP_INFO, MESSAGES_OP_DATA, MESSAGES_OP_READ,
     MESSAGES_OP_WRITE, MESSAGES_OP_SUBSCRIBE, MESSAGES_OP_UNSUBSCRIBE
  <2>. QED
    BY <1>4, <2>1 DEF GetSizeOf
<1>7. GetSizeOf(m) <= SFP_CONFIG_MAX_PACKET_SIZE
  BY <1>1, <1>6
<1>. QED
  BY <1>4, <1>5, <1>7

LEMMA SendDataIs ==
    ASSUME NEW s, NEW q \in Short, NEW t \in Octet, NEW st \in Octet,
           NEW fl \in Octet, NEW v \in Sendable,
           NEW m, m = DataFrame(q, t, st, fl, 0, v)
    PROVE  SendData(s, q, t, st, fl, v) = Added(s, Whole(m))
<1>1. m \in Message /\ GetSizeOf(m) <= SFP_CONFIG_MAX_PACKET_SIZE
  BY DataIs
<1>2. SendData(s, q, t, st, fl, v) = Send(s, m)
  BY DEF SendData
<1>. QED
  BY <1>1, <1>2, WholeIs

\* Where it is put.
LEMMA EntryIs ==
    ASSUME NEW m \in Message, GetSizeOf(m) <= SFP_CONFIG_MAX_PACKET_SIZE
    PROVE  /\ m \in Frame => Whole(m) \in Entry
           /\ m \in Frame /\ ~AboutTape(m) => Whole(m) \in PlainEntry
<1>1. /\ Whole(m) \in [packet : Seq(Octet), meant : {m}]
      /\ Whole(m).meant = m /\ Deserialize(Whole(m).packet) = m
  BY WholeIs
<1>2. m \in Frame => Whole(m) \in Entry
  BY <1>1 DEF Entry
<1>. QED
  BY <1>1, <1>2 DEF PlainEntry

\* A reply ends a request with FLAG_END, and leaves the others alone.
LEMMA SendsData ==
    ASSUME NEW s \in Rpc, NEW q \in Short, NEW t \in Octet, NEW st \in Octet,
           NEW fl \in Octet, NEW v \in Sendable, q \in ReqId \/ fl = 5,
           t = CASSETTE => /\ fl % 2 = 1
                           /\ st \in CassetteIndex /\ v # <<>> => fl # 1,
           NEW s2, s2 = SendData(s, q, t, st, fl, v)
    PROVE  /\ s2.subs = s.subs
           /\ fl % 2 = 0 => Continues(s, s2, q)
           /\ fl % 2 = 1 => Replied(s, s2, q)
<1>1. PICK m : m = DataFrame(q, t, st, fl, 0, v)
  OBVIOUS
<1>2. /\ m \in DataMessage /\ m \in Message
      /\ m.op = MESSAGES_OP_DATA /\ m.req_id = q /\ m.topic = t
      /\ m.subtopic = st /\ m.flag = fl /\ m.value = v
  BY <1>1, DataIs
<1>3. PICK e : e = Whole(m)
  OBVIOUS
<1>4. s2 = Added(s, e)
  BY <1>1, <1>3, SendDataIs
<1>5. e \in PlainEntry /\ e \in Entry /\ e.meant = m
  <2>1. GetSizeOf(m) <= SFP_CONFIG_MAX_PACKET_SIZE
    BY <1>1, DataIs
  <2>2. m \in Frame
    BY <1>2 DEF Frame
  <2>3. ~AboutTape(m)
    BY <1>2 DEF AboutTape, Ends, MESSAGES_DATA_FLAG_END
  <2>. QED
    BY <1>2, <1>3, <2>1, <2>2, <2>3, EntryIs, WholeIs
<1>6. /\ s2.out = Append(s.out, e) /\ s2.subs = s.subs
      /\ s2.reading = s.reading /\ s2.cassette = s.cassette /\ s2.open = s.open
      /\ s2 \in Rpc
  BY <1>4, <1>5, AddedOne
<1>7. ASSUME NEW id PROVE Holds(s, s2, id)
  BY <1>6 DEF Holds, SubFind, Reads
<1>8. Calm(s, s2)
  BY <1>6 DEF Calm
<1>9. /\ \A id : IsFor(e.meant, id) <=> id = q
      /\ Ends(e.meant) <=> fl % 2 = 1
  BY <1>2, <1>5 DEF IsFor, Ends, MESSAGES_DATA_FLAG_END
<1>10. fl % 2 = 0 => fl % 2 # 1
  OBVIOUS
<1>11. s.out \in Seq(Entry)
  BY OutEntries
<1>12. ASSUME NEW id, id # q PROVE Keeps(s, s2, id)
  <2>1. /\ NoFrame(s.out, id) => NoFrame(s2.out, id)
        /\ Ended(s.out, id) => Ended(s2.out, id)
        /\ Unended(s.out, id) => Unended(s2.out, id)
    BY <1>5, <1>6, <1>9, <1>11, <1>12, Appended
  <2>. QED
    BY <1>7, <2>1 DEF Keeps
<1>13. /\ fl % 2 = 0 => Adds(s, s2, q)
       /\ fl % 2 = 1 => Answers(s, s2, q)
  BY <1>5, <1>6, <1>7, <1>9, <1>10, <1>11, Appended DEF Adds, Answers
<1>. QED
  BY <1>6, <1>8, <1>12, <1>13 DEF Continues, Replied

-----------------------------------------------------------------------------
(* The subscriptions.                                                      *)

\* The fields of a slot.
LEMMA SubFields ==
    ASSUME NEW s \in Rpc, NEW i \in Slot
    PROVE  /\ s.subs \in Subs
           /\ s.subs[i] \in Sub
           /\ s.subs[i].active \in BOOLEAN /\ s.subs[i].req_id \in Short
           /\ s.subs[i].topic \in Octet /\ s.subs[i].subtopic \in Octet
           /\ s.subs[i].active => s.subs[i].req_id \in ReqId
BY DEF Rpc, Subs, Sub

\* A slot is given another subscription.
SetSub(s, i, sub) == [s EXCEPT !.subs[i] = sub]

\* The slots where an id is found, when one slot is written.
LEMMA SubSet ==
    ASSUME NEW s \in Rpc, NEW i \in Slot, NEW sub \in Sub,
           sub.active => sub.req_id \in ReqId,
           NEW s2, s2 = SetSub(s, i, sub)
    PROVE  /\ Calm(s, s2) /\ s2.out = s.out
           /\ s2.subs = [s.subs EXCEPT ![i] = sub]
           /\ \A id : SubFind(s2, id) =
                 IF sub.active /\ sub.req_id = id THEN SubFind(s, id) \cup {i}
                                                  ELSE SubFind(s, id) \ {i}
<1>0. s2 = [s EXCEPT !.subs[i] = sub]
  BY DEF SetSub
<1>1. s.subs \in Subs
  BY DEF Rpc
<1>2. [s.subs EXCEPT ![i] = sub] \in Subs
  BY <1>1 DEF Subs
<1>3. /\ s2.subs = [s.subs EXCEPT ![i] = sub] /\ s2.out = s.out
      /\ s2.reading = s.reading /\ s2.cassette = s.cassette /\ s2.open = s.open
  BY <1>0 DEF Rpc
<1>4. s2 \in Rpc
  <2>1. SUFFICES ASSUME NEW f \in Subs PROVE [s EXCEPT !.subs = f] \in Rpc
    BY <1>0, <1>2
  <2>. QED
    BY DEF Rpc
<1>5. ASSUME NEW id, NEW j \in Slot
      PROVE  j \in SubFind(s2, id) <=>
                IF j = i THEN sub.active /\ sub.req_id = id
                         ELSE j \in SubFind(s, id)
  <2>1. s2.subs[j] = IF j = i THEN sub ELSE s.subs[j]
    BY <1>1, <1>3 DEF Subs
  <2>. QED
    BY <2>1 DEF SubFind
<1>6. \A id : SubFind(s2, id) \subseteq Slot /\ SubFind(s, id) \subseteq Slot
  BY DEF SubFind
<1>7. ASSUME NEW id
      PROVE  SubFind(s2, id) =
                 IF sub.active /\ sub.req_id = id THEN SubFind(s, id) \cup {i}
                                                  ELSE SubFind(s, id) \ {i}
  BY <1>5, <1>6
<1>. QED
  BY <1>3, <1>4, <1>7 DEF Calm

\* A slot that is reset is found under no id.
LEMMA FreeSlotIs ==
    FreeSlot \in Sub /\ FreeSlot.active = FALSE
<1>1. 0 \in Octet
  BY Named
<1>2. 0 \in Short
  <2>1. PICK b \in Nat : b = Base
    BY Constants
  <2>2. b > 11
    BY <2>1, Constants
  <2>3. b * b > 0 /\ b * b \in Nat
    BY <2>2
  <2>. QED
    BY <2>1, <2>3 DEF Short
<1>. QED
  BY <1>1, <1>2 DEF FreeSlot, Sub

LEMMA SubResetIs ==
    ASSUME NEW s \in Rpc, NEW i \in Slot, NEW s2, s2 = SubReset(s, i)
    PROVE  /\ Calm(s, s2) /\ s2.out = s.out
           /\ \A id : SubFind(s2, id) = SubFind(s, id) \ {i}
<1>1. PICK sub : sub = FreeSlot
  OBVIOUS
<1>2. /\ sub \in Sub /\ (sub.active => sub.req_id \in ReqId) /\ ~sub.active
      /\ s2 = SetSub(s, i, sub)
  BY <1>1, FreeSlotIs DEF SubReset, SetSub
<1>3. /\ Calm(s, s2) /\ s2.out = s.out
      /\ s2.subs = [s.subs EXCEPT ![i] = sub]
      /\ \A id : SubFind(s2, id) =
                 IF sub.active /\ sub.req_id = id THEN SubFind(s, id) \cup {i}
                                                  ELSE SubFind(s, id) \ {i}
  BY ONLY <1>2, s \in Rpc, i \in Slot, SubSet
<1>. QED
  BY <1>2, <1>3

\* In a slot that keeps its id.
LEMMA SameOut ==
    ASSUME NEW s, NEW s2, Calm(s, s2), s2.out = s.out, NEW id,
           SubFind(s2, id) = SubFind(s, id)
    PROVE  Keeps(s, s2, id)
BY DEF Calm, Keeps, Holds, Reads

\* A publication about a topic.
SubAs(s, i, topic, subtopic) ==
    [s EXCEPT !.subs[i].topic = topic, !.subs[i].subtopic = subtopic]

\* rpcPublishAll writes the topic into the slot, and no id changes.
LEMMA SubAsIs ==
    ASSUME NEW s \in Rpc, NEW i \in Slot, NEW a \in Octet, NEW b \in Octet,
           NEW s2, s2 = SubAs(s, i, a, b)
    PROVE  /\ Calm(s, s2)
           /\ \A id : Keeps(s, s2, id)
           /\ s2.subs[i].topic = a /\ s2.subs[i].subtopic = b
           /\ s2.subs[i].active = s.subs[i].active
           /\ s2.subs[i].req_id = s.subs[i].req_id
<1>0. PICK sub : sub = [s.subs[i] EXCEPT !.topic = a, !.subtopic = b]
  OBVIOUS
<1>1. /\ sub \in Sub /\ sub.topic = a /\ sub.subtopic = b
      /\ sub.active = s.subs[i].active /\ sub.req_id = s.subs[i].req_id
  BY <1>0, SubFields DEF Sub
<1>2. s2 = SetSub(s, i, sub)
  <2>1. s.subs \in [Slot -> Sub] /\ s \in Rpc
    BY DEF Rpc, Subs
  <2>. QED
    BY <1>0, <2>1 DEF SubAs, Rpc, SetSub
<1>3. sub.active => sub.req_id \in ReqId
  BY <1>1, SubFields
<1>4. /\ Calm(s, s2) /\ s2.out = s.out
      /\ s2.subs = [s.subs EXCEPT ![i] = sub]
      /\ \A id : SubFind(s2, id) =
                 IF sub.active /\ sub.req_id = id THEN SubFind(s, id) \cup {i}
                                                  ELSE SubFind(s, id) \ {i}
  BY ONLY <1>1, <1>2, <1>3, s \in Rpc, i \in Slot, SubSet
<1>5. \A id : i \in SubFind(s, id) <=> sub.active /\ sub.req_id = id
  BY <1>1 DEF SubFind
<1>6. \A id : SubFind(s2, id) = SubFind(s, id)
  BY <1>4, <1>5
<1>7. s2.subs[i] = sub
  BY <1>4, SubFields DEF Subs
<1>. QED
  BY <1>1, <1>4, <1>6, <1>7, SameOut

-----------------------------------------------------------------------------
(* rpcPublish.                                                             *)

\* A subscription gets its last frame and is no more.
Finishes(s, s2, id, i) ==
    /\ SubFind(s2, id) = SubFind(s, id) \ {i} /\ (Reads(s2, id) <=> Reads(s, id))
    /\ Unended(s.out, id) => Ended(s2.out, id)

\* The others are left alone.
Drops(s, s2, q, i) ==
    /\ Calm(s, s2)
    /\ \A id \in ReqId : IF id = q THEN Finishes(s, s2, id, i)
                                   ELSE Keeps(s, s2, id)

\* A frame with FLAG_END, then the slot is free.
LEMMA RepliedDrops ==
    ASSUME NEW s \in Rpc, NEW i \in Slot, s.subs[i].active,
           NEW q, q = s.subs[i].req_id, NEW s1, Replied(s, s1, q),
           NEW s2, s2 = SubReset(s1, i)
    PROVE  Drops(s, s2, q, i)
<1>1. Calm(s, s1) /\ s1 \in Rpc
  BY DEF Replied, Calm
<1>2. /\ Calm(s1, s2) /\ s2.out = s1.out
      /\ \A id : SubFind(s2, id) = SubFind(s1, id) \ {i}
  BY <1>1, SubResetIs
<1>3. Calm(s, s2)
  BY <1>1, <1>2 DEF Calm
<1>4. \A id : Reads(s2, id) <=> Reads(s1, id)
  BY <1>2 DEF Calm, Reads
<1>5. q \in ReqId
  BY SubFields
<1>6. Finishes(s, s2, q, i)
  BY <1>2, <1>4, <1>5 DEF Replied, Answers, Holds, Finishes
<1>7. ASSUME NEW id \in ReqId, id # q PROVE Keeps(s, s2, id)
  <2>1. Keeps(s, s1, id)
    BY <1>7 DEF Replied
  <2>2. i \notin SubFind(s, id)
    BY <1>7 DEF SubFind
  <2>3. SubFind(s2, id) = SubFind(s1, id)
    BY <1>2, <2>1, <2>2 DEF Keeps, Holds
  <2>4. Keeps(s1, s2, id)
    BY <1>2, <2>3, SameOut
  <2>. QED
    BY <2>1, <2>4, KeepsTrans
<1>. QED
  BY <1>3, <1>6, <1>7 DEF Drops

\* The flags, and which of them end a request.
LEMMA Flags ==
    /\ MESSAGES_DATA_FLAG_END = 1 /\ MESSAGES_DATA_FLAG_PUB = 2
    /\ MESSAGES_DATA_FLAG_PUB + MESSAGES_DATA_FLAG_ERROR
            + MESSAGES_DATA_FLAG_END = 7
    /\ MESSAGES_DATA_FLAG_PUB + MESSAGES_DATA_FLAG_END = 3
    /\ MESSAGES_DATA_FLAG_ERROR + MESSAGES_DATA_FLAG_END = 5
    /\ {1, 2, 3, 5, 7} \subseteq Octet
    /\ 1 % 2 = 1 /\ 2 % 2 = 0 /\ 3 % 2 = 1 /\ 5 % 2 = 1 /\ 7 % 2 = 1
    /\ 0 % 2 = 0
BY Named DEF MESSAGES_DATA_FLAG_END, MESSAGES_DATA_FLAG_PUB,
   MESSAGES_DATA_FLAG_ERROR

\* A publication, one that fails, and the end of it.
LEMMA PublishFrames ==
    ASSUME NEW s \in Rpc, NEW sub \in Sub, sub.req_id \in ReqId,
           NEW v \in Sendable
    PROVE  /\ /\ Replied(s, SendPubError(s, sub, v), sub.req_id)
              /\ SendPubError(s, sub, v).subs = s.subs
           /\ /\ Replied(s, SendPubEnd(s, sub), sub.req_id)
              /\ SendPubEnd(s, sub).subs = s.subs
           /\ sub.topic # CASSETTE =>
                 /\ Continues(s, SendPub(s, sub, v), sub.req_id)
                 /\ SendPub(s, sub, v).subs = s.subs
<1>1. /\ sub.req_id \in Short /\ sub.topic \in Octet /\ sub.subtopic \in Octet
  BY DEF Sub
<1>2. PICK q, t, st : q = sub.req_id /\ t = sub.topic /\ st = sub.subtopic
  OBVIOUS
<1>3. q \in Short /\ t \in Octet /\ st \in Octet /\ q \in ReqId
  BY <1>1, <1>2
<1>4. /\ Replied(s, SendData(s, q, t, st, 7, v), q)
      /\ SendData(s, q, t, st, 7, v).subs = s.subs
  <2>1. PICK fl : fl = 7
    OBVIOUS
  <2>2. fl \in Octet /\ fl % 2 = 1 /\ fl # 1
    BY <2>1, Flags
  <2>. QED
    BY <1>3, <2>1, <2>2, SendsData
<1>5. /\ Replied(s, SendData(s, q, t, st, 3, <<>>), q)
      /\ SendData(s, q, t, st, 3, <<>>).subs = s.subs
  <2>1. PICK fl : fl = 3
    OBVIOUS
  <2>2. fl \in Octet /\ fl % 2 = 1 /\ fl # 1
    BY <2>1, Flags
  <2>3. <<>> \in Sendable
    BY EmptySendable
  <2>. QED
    BY <1>3, <2>1, <2>2, <2>3, SendsData
<1>6. t # CASSETTE =>
        /\ Continues(s, SendData(s, q, t, st, 2, v), q)
        /\ SendData(s, q, t, st, 2, v).subs = s.subs
  <2>1. PICK fl : fl = 2
    OBVIOUS
  <2>2. fl \in Octet /\ fl % 2 = 0
    BY <2>1, Flags
  <2>. QED
    BY <1>3, <2>1, <2>2, SendsData
<1>. QED
  BY <1>2, <1>4, <1>5, <1>6, Flags DEF SendPubError, SendPubEnd, SendPub

\* A subscription that is dropped gets its last frame.
LEMMA DropDrops ==
    ASSUME NEW s \in Rpc, NEW i \in Slot, s.subs[i].active, NEW v \in Sendable
    PROVE  Drops(s, Drop(s, i, v), s.subs[i].req_id, i)
<1>1. s.subs[i] \in Sub /\ s.subs[i].req_id \in ReqId
  BY SubFields
<1>2. Replied(s, SendPubError(s, s.subs[i], v), s.subs[i].req_id)
  BY <1>1, PublishFrames
<1>. QED
  BY <1>2, RepliedDrops DEF Drop

\* The values of the motors that are remembered have been read.
LEMMA RememberIs ==
    ASSUME WorldType, NEW s \in Rpc, NEW set, NEW q
    PROVE  /\ Continues(s, Remember(s, set), q)
           /\ Remember(s, set).subs = s.subs
           /\ Remember(s, set).out = s.out
           /\ Remember(s, set).reading = s.reading
<1>1. /\ motors \in [MotorIndex -> Octet] /\ s.motor \in [MotorIndex -> Octet]
  BY DEF WorldType, Rpc
<1>2. PICK g : g = [m \in MotorIndex |-> IF m \in set THEN motors[m]
                                                      ELSE s.motor[m]]
  OBVIOUS
<1>3. g \in [MotorIndex -> Octet]
  BY <1>1, <1>2
<1>4. Remember(s, set) = [s EXCEPT !.motor = g]
  BY <1>2 DEF Remember
<1>5. PICK s2 : s2 = [s EXCEPT !.motor = g]
  OBVIOUS
<1>6. /\ s2 \in Rpc /\ s2.subs = s.subs /\ s2.out = s.out
      /\ s2.reading = s.reading /\ s2.cassette = s.cassette /\ s2.open = s.open
  BY <1>3, <1>5 DEF Rpc
<1>7. Calm(s, s2) /\ \A id : Keeps(s, s2, id)
  BY <1>6, SameOut DEF Calm, SubFind
<1>8. Continues(s, s2, q)
  BY <1>7, ContinuesOther
<1>. QED
  BY <1>4, <1>5, <1>6, <1>8

\* The values of all motors fit a frame.
LEMMA ListedSendable ==
    ASSUME WorldType, NEW set
    PROVE  Listed(set) \in Sendable
<1>. DEFINE f == [i \in 1 .. kVexMotorNum |->
                    IF i - 1 \in set THEN <<i - 1, motors[i - 1]>> ELSE <<>>]
<1>1. ASSUME NEW i \in 1 .. kVexMotorNum
      PROVE  f[i] \in Seq(Octet) /\ Len(f[i]) <= 2
  <2>1. i - 1 \in MotorIndex /\ i - 1 \in Octet
    BY Named, Constants DEF MotorIndex
  <2>2. motors[i - 1] \in Octet
    BY <2>1 DEF WorldType
  <2>. QED
    BY <2>1, <2>2
<1>2. f \in [1 .. kVexMotorNum -> Seq(Octet)]
  BY <1>1
<1>3. Listed(set) = FlattenSeq(f)
  BY DEF Listed
<1>. HIDE DEF f
<1>4. FlattenSeq(f) \in Seq(Octet) /\ Len(FlattenSeq(f)) <= 2 * kVexMotorNum
  BY <1>1, <1>2, Flattened, Constants
<1>. QED
  BY <1>3, <1>4, Constants DEF Sendable

\* The topics differ.
LEMMA Topics ==
    /\ CLOCK # CASSETTE /\ MOTOR # CASSETTE /\ PUBSUB # CASSETTE
    /\ CLOCK \in Octet /\ MOTOR \in Octet /\ NOW \in Octet /\ ALL \in Octet
    /\ CASSETTE \in Octet /\ PUBSUB \in Octet
    /\ ALL \notin MotorIndex /\ MotorIndex \subseteq Octet
BY Named, Constants DEF CLOCK, MOTOR, PUBSUB, CASSETTE, ALL, MotorIndex

\* rpcPublishClock, rpcPublishMotor, rpcPublishAll: on, or dropped.
LEMMA PublishClockIs ==
    ASSUME NEW s \in Rpc, NEW i \in Slot, s.subs[i].active,
           s.subs[i].topic = CLOCK,
           NEW q, q = s.subs[i].req_id,
           NEW s2, s2 = PublishClock(s, i)
    PROVE  /\ Drops(s, s2, q, i) \/ (Continues(s, s2, q) /\ s2.subs = s.subs)
           /\ s.subs[i].subtopic = NOW =>
                 Continues(s, s2, q) /\ s2.subs = s.subs
<1>1. s.subs[i] \in Sub /\ s.subs[i].req_id \in ReqId
  BY SubFields
<1>2. CASE s.subs[i].subtopic = NOW
  <2>1. s2 = SendPub(s, s.subs[i], Clock)
    BY <1>2 DEF PublishClock
  <2>. QED
    BY <1>1, <2>1, PublishFrames, ClockSendable, Topics
<1>3. CASE s.subs[i].subtopic # NOW
  <2>1. s2 = Drop(s, i, BAD_SUBTOPIC)
    BY <1>3 DEF PublishClock
  <2>. QED
    BY <1>3, <2>1, DropDrops, ErrorsSendable
<1>. QED
  BY <1>2, <1>3

LEMMA PublishMotorIs ==
    ASSUME WorldType, NEW s \in Rpc, NEW i \in Slot, s.subs[i].active,
           s.subs[i].topic = MOTOR,
           NEW q, q = s.subs[i].req_id,
           NEW s2, s2 = PublishMotor(s, i)
    PROVE  /\ Drops(s, s2, q, i) \/ (Continues(s, s2, q) /\ s2.subs = s.subs)
           /\ s.subs[i].subtopic = ALL =>
                 Continues(s, s2, q) /\ s2.subs = s.subs
<1>1. PICK sub : sub = s.subs[i]
  OBVIOUS
<1>2. sub \in Sub /\ sub.req_id \in ReqId /\ sub.topic # CASSETTE
  BY <1>1, SubFields, Topics
<1>3. PICK changed : changed = {m \in MotorIndex : motors[m] # s.motor[m]}
  OBVIOUS
<1>4. ASSUME NEW set, NEW v \in Sendable
      PROVE  /\ Continues(s, SendPub(Remember(s, set), sub, v), q)
             /\ SendPub(Remember(s, set), sub, v).subs = s.subs
  <2>1. PICK t : t = Remember(s, set)
    OBVIOUS
  <2>2. Continues(s, t, q) /\ t.subs = s.subs /\ t \in Rpc
    BY <2>1, RememberIs DEF Continues, Calm
  <2>3. Continues(t, SendPub(t, sub, v), q) /\ SendPub(t, sub, v).subs = t.subs
    BY <1>1, <1>2, <2>2, PublishFrames
  <2>. QED
    BY <2>1, <2>2, <2>3, ContinuesTrans
<1>5. CASE sub.subtopic \in changed
  <2>1. s2 = SendPub(Remember(s, {sub.subtopic}), sub,
                     <<motors[sub.subtopic]>>)
    <3>1. sub.subtopic # ALL /\ sub.subtopic \in MotorIndex \cup {ALL}
      BY <1>3, <1>5, Topics
    <3>. QED
      BY <1>1, <1>3, <1>5, <3>1 DEF PublishMotor
  <2>2. motors[sub.subtopic] \in Octet
    BY <1>3, <1>5 DEF WorldType
  <2>3. <<motors[sub.subtopic]>> \in Sendable
    BY <2>2, OneSendable
  <2>. QED
    BY <1>4, <2>1, <2>3
<1>6. CASE sub.subtopic \notin changed /\ sub.subtopic = ALL /\ changed # {}
  <2>1. s2 = SendPub(Remember(s, changed), sub, Listed(changed))
    BY <1>1, <1>3, <1>6 DEF PublishMotor
  <2>. QED
    BY <1>4, <2>1, ListedSendable
<1>7. CASE sub.subtopic \notin MotorIndex \cup {ALL}
  <2>1. s2 = Drop(s, i, BAD_SUBTOPIC)
    BY <1>1, <1>3, <1>7 DEF PublishMotor
  <2>. QED
    BY <1>1, <1>7, <2>1, DropDrops, ErrorsSendable
<1>8. CASE /\ sub.subtopic \notin changed /\ ~(sub.subtopic = ALL /\ changed # {})
           /\ sub.subtopic \in MotorIndex \cup {ALL}
  <2>1. s2 = s
    BY <1>1, <1>3, <1>8 DEF PublishMotor
  <2>2. Calm(s, s) /\ \A id : Keeps(s, s, id)
    BY DEF Calm, Keeps, Holds
  <2>. QED
    BY <2>1, <2>2, ContinuesOther
<1>. QED
  BY <1>5, <1>6, <1>7, <1>8

LEMMA PublishAllIs ==
    ASSUME WorldType, NEW s \in Rpc, NEW i \in Slot, s.subs[i].active,
           NEW q, q = s.subs[i].req_id,
           NEW s2, s2 = PublishAll(s, i)
    PROVE  Drops(s, s2, q, i) \/ Continues(s, s2, q)
<1>1. CASE s.subs[i].subtopic # ALL
  <2>1. s2 = Drop(s, i, BAD_SUBTOPIC)
    BY <1>1 DEF PublishAll
  <2>. QED
    BY <2>1, DropDrops, ErrorsSendable
<1>2. CASE s.subs[i].subtopic = ALL
  <2>1. PICK a : a = SubAs(s, i, CLOCK, NOW)
    OBVIOUS
  <2>2. PICK b : b = PublishClock(a, i)
    OBVIOUS
  <2>3. PICK c : c = SubAs(b, i, MOTOR, ALL)
    OBVIOUS
  <2>4. PICK d : d = PublishMotor(c, i)
    OBVIOUS
  <2>5. s2 = SubAs(d, i, ALL, ALL)
    BY <1>2, <2>1, <2>2, <2>3, <2>4, Zenon DEF PublishAll, SubAs
  <2>6. /\ Calm(s, a) /\ (\A id : Keeps(s, a, id)) /\ a \in Rpc
        /\ a.subs[i].topic = CLOCK /\ a.subs[i].subtopic = NOW
        /\ a.subs[i].active /\ a.subs[i].req_id = q
    <3>1. /\ Calm(s, a) /\ (\A id : Keeps(s, a, id))
          /\ a.subs[i].topic = CLOCK /\ a.subs[i].subtopic = NOW
          /\ a.subs[i].active = s.subs[i].active /\ a.subs[i].req_id = q
      BY ONLY s \in Rpc, i \in Slot, q = s.subs[i].req_id, <2>1, SubAsIs, Topics
    <3>. QED
      BY <3>1 DEF Calm
  <2>7. Continues(a, b, q) /\ b.subs = a.subs /\ b \in Rpc
    BY <2>2, <2>6, PublishClockIs DEF Continues, Calm
  <2>8. /\ Calm(b, c) /\ (\A id : Keeps(b, c, id)) /\ c \in Rpc
        /\ c.subs[i].topic = MOTOR /\ c.subs[i].subtopic = ALL
        /\ c.subs[i].active /\ c.subs[i].req_id = q
    <3>1. /\ Calm(b, c) /\ (\A id : Keeps(b, c, id))
          /\ c.subs[i].topic = MOTOR /\ c.subs[i].subtopic = ALL
          /\ c.subs[i].active = b.subs[i].active /\ c.subs[i].req_id = q
      BY <2>3, <2>6, <2>7, SubAsIs, Topics
    <3>. QED
      BY <2>6, <2>7, <3>1 DEF Calm
  <2>9. Continues(c, d, q) /\ d.subs = c.subs /\ d \in Rpc
    BY <2>4, <2>8, PublishMotorIs DEF Continues, Calm
  <2>10. Calm(d, s2) /\ (\A id : Keeps(d, s2, id))
    BY <2>5, <2>9, SubAsIs, Topics
  <2>11. Continues(s, a, q) /\ Continues(b, c, q) /\ Continues(d, s2, q)
    BY <2>6, <2>8, <2>10, ContinuesOther
  <2>12. Continues(s, b, q)
    BY <2>7, <2>11, ContinuesTrans
  <2>13. Continues(s, c, q)
    BY <2>11, <2>12, ContinuesTrans
  <2>14. Continues(s, d, q)
    BY <2>9, <2>13, ContinuesTrans
  <2>. QED
    BY <2>11, <2>14, ContinuesTrans
<1>. QED
  BY <1>1, <1>2

\* A slot that is not active is passed over.
LEMMA PublishIs ==
    ASSUME WorldType, NEW s \in Rpc, NEW i \in Slot,
           NEW s2, s2 = Publish(s, i)
    PROVE  \/ s2 = s
           \/ /\ s.subs[i].active
              /\ \/ Drops(s, s2, s.subs[i].req_id, i)
                 \/ Continues(s, s2, s.subs[i].req_id)
<1>1. s.subs[i].active \in BOOLEAN
  BY SubFields, Zenon
<1>2. CASE ~s.subs[i].active
  BY <1>2 DEF Publish
<1>3. CASE s.subs[i].active /\ s.subs[i].topic = CLOCK
  <2>1. s2 = PublishClock(s, i)
    BY <1>3, Constants DEF Publish, CLOCK, MOTOR, ALL
  <2>. QED
    BY <1>3, <2>1, PublishClockIs
<1>4. CASE s.subs[i].active /\ s.subs[i].topic = MOTOR
  <2>1. s2 = PublishMotor(s, i)
    BY <1>4, Constants DEF Publish, CLOCK, MOTOR, ALL
  <2>. QED
    BY <1>4, <2>1, PublishMotorIs
<1>5. CASE s.subs[i].active /\ s.subs[i].topic = ALL
  <2>1. s2 = PublishAll(s, i)
    BY <1>5, Constants DEF Publish, CLOCK, MOTOR, ALL
  <2>. QED
    BY <1>5, <2>1, PublishAllIs
<1>6. CASE s.subs[i].active /\ s.subs[i].topic \notin {CLOCK, MOTOR, ALL}
  <2>1. s2 = Drop(s, i, BAD_TOPIC)
    BY <1>6 DEF Publish
  <2>. QED
    BY <1>6, <2>1, DropDrops, ErrorsSendable
<1>. QED
  BY <1>1, <1>2, <1>3, <1>4, <1>5, <1>6

-----------------------------------------------------------------------------
(* What a state of rpc.c is about a request id: nothing of it, its reply   *)
(* is made, it is subscribed, its last frame is sent.                      *)

\* The phases of a request, in the state s with the frames t on their way.
Quiet(s, t, id) == SubFind(s, id) = {} /\ ~Reads(s, id) /\ NoFrame(t, id)

Busy(s, t, id) == SubFind(s, id) = {} /\ Reads(s, id) /\ Unended(t, id)

Held(s, t, id) ==
    (\E k \in Slot : SubFind(s, id) = {k}) /\ ~Reads(s, id) /\ Unended(t, id)

Done(s, t, id) == SubFind(s, id) = {} /\ ~Reads(s, id) /\ Ended(t, id)

\* A request that is left alone stays in its phase.
LEMMA KeptPhase ==
    ASSUME NEW s, NEW s2, NEW id, Keeps(s, s2, id)
    PROVE  /\ Quiet(s, s.out, id) => Quiet(s2, s2.out, id)
           /\ Busy(s, s.out, id) => Busy(s2, s2.out, id)
           /\ Held(s, s.out, id) => Held(s2, s2.out, id)
           /\ Done(s, s.out, id) => Done(s2, s2.out, id)
BY DEF Keeps, Holds, Quiet, Busy, Held, Done

\* A publication ends a subscription or goes on with it.
LEMMA PublishPhase ==
    ASSUME WorldType, NEW s \in Rpc, NEW i \in Slot,
           NEW s2, s2 = Publish(s, i), NEW id
    PROVE  /\ s2 \in Rpc /\ s2.reading = s.reading
           /\ s2.cassette = s.cassette /\ s2.open = s.open
           /\ id \in ReqId =>
                 /\ Quiet(s, s.out, id) => Quiet(s2, s2.out, id)
                 /\ Held(s, s.out, id) =>
                       Held(s2, s2.out, id) \/ Done(s2, s2.out, id)
                 /\ Done(s, s.out, id) => Done(s2, s2.out, id)
<1>1. CASE s2 = s
  BY <1>1
<1>2. PICK q : q = s.subs[i].req_id
  OBVIOUS
<1>3. CASE s.subs[i].active /\ Continues(s, s2, q)
  <2>1. s2 \in Rpc /\ s2.reading = s.reading
           /\ s2.cassette = s.cassette /\ s2.open = s.open
    BY <1>3 DEF Continues, Calm
  <2>2. CASE id # q
    BY <1>3, <2>1, <2>2, KeptPhase DEF Continues
  <2>3. CASE id = q
    <3>0. id \in ReqId
      BY <1>2, <1>3, <2>3, SubFields
    <3>1. Adds(s, s2, id) /\ i \in SubFind(s, id)
      BY <1>2, <1>3, <2>3, <3>0 DEF Continues, SubFind
    <3>. QED
      BY <2>1, <3>1 DEF Adds, Holds, Quiet, Held, Done
  <2>. QED
    BY <2>2, <2>3
<1>4. CASE s.subs[i].active /\ Drops(s, s2, q, i)
  <2>1. s2 \in Rpc /\ s2.reading = s.reading
           /\ s2.cassette = s.cassette /\ s2.open = s.open
    BY <1>4 DEF Drops, Calm
  <2>2. CASE id # q
    BY <1>4, <2>1, <2>2, KeptPhase DEF Drops
  <2>3. CASE id = q
    <3>0. id \in ReqId
      BY <1>2, <1>4, <2>3, SubFields
    <3>1. Finishes(s, s2, id, i) /\ i \in SubFind(s, id)
      BY <1>2, <1>4, <2>3, <3>0 DEF Drops, SubFind
    <3>2. ASSUME Held(s, s.out, id) PROVE Done(s2, s2.out, id)
      <4>1. SubFind(s, id) = {i}
        BY <3>1, <3>2 DEF Held
      <4>2. SubFind(s2, id) = {}
        BY <3>1, <4>1 DEF Finishes
      <4>. QED
        BY <3>1, <3>2, <4>2 DEF Finishes, Held, Done
    <3>. QED
      BY <2>1, <3>1, <3>2 DEF Quiet, Done
  <2>. QED
    BY <2>2, <2>3
<1>. QED
  BY <1>1, <1>2, <1>3, <1>4, PublishIs

\* All of them, in order.
LEMMA PublishedIs ==
    ASSUME WorldType, rpc \in Rpc
    PROVE  /\ Published[0] = rpc
           /\ \A k \in 1 .. RPC_SUB_MAX :
                 Published[k] = Publish(Published[k - 1], k - 1)
           /\ \A k \in 0 .. RPC_SUB_MAX : Published[k] \in Rpc
<1>. DEFINE n == RPC_SUB_MAX
            Step(g) == [k \in 0 .. RPC_SUB_MAX |->
                          IF k = 0 THEN rpc ELSE Publish(g[k - 1], k - 1)]
<1>0. n \in Nat
  BY Constants
<1>1. PICK F : F = [p \in Rpc \X (1 .. n) |-> Publish(p[1], p[2] - 1)]
  OBVIOUS
<1>2. ASSUME NEW a \in Rpc, NEW i \in 1 .. n
      PROVE  F[<<a, i>>] = Publish(a, i - 1) /\ F[<<a, i>>] \in Rpc
  <2>1. i - 1 \in Slot
    BY <1>0 DEF Slot
  <2>2. F[<<a, i>>] = Publish(a, i - 1)
    BY <1>1
  <2>3. PICK s2 : s2 = Publish(a, i - 1)
    OBVIOUS
  <2>4. s2 = a \/ Drops(a, s2, a.subs[i - 1].req_id, i - 1)
          \/ Continues(a, s2, a.subs[i - 1].req_id)
    BY <2>1, <2>3, PublishIs
  <2>5. s2 \in Rpc
    BY <2>4 DEF Drops, Continues, Calm
  <2>. QED
    BY <2>2, <2>3, <2>5
<1>3. PICK g : Steps(g, n, Rpc, rpc, F)
  BY <1>0, <1>2, StepByStep
<1>4. /\ g \in [0 .. n -> Rpc] /\ g[0] = rpc
      /\ \A i \in 1 .. n : g[i] = Publish(g[i - 1], i - 1)
  <2>1. ASSUME NEW i \in 1 .. n PROVE g[i] = Publish(g[i - 1], i - 1)
    <3>1. g[i - 1] \in Rpc /\ g[i] = F[<<g[i - 1], i>>]
      BY <1>0, <1>3 DEF Steps
    <3>. QED
      BY <1>2, <3>1
  <2>. QED
    BY <1>3, <2>1 DEF Steps
<1>5. g = Step(g)
  <2>1. ASSUME NEW k \in 0 .. n
        PROVE  g[k] = IF k = 0 THEN rpc ELSE Publish(g[k - 1], k - 1)
    BY <1>0, <1>4
  <2>. QED
    BY <1>4, <2>1
<1>6. Published = CHOOSE f : f = Step(f)
  BY Zenon DEF Published
<1>7. Published = Step(Published)
  <2>. HIDE DEF Step
  <2>. QED
    BY <1>5, <1>6, Zenon
<1>8. /\ Published[0] = rpc
      /\ \A k \in 1 .. n : Published[k] = Publish(Published[k - 1], k - 1)
  BY <1>0, <1>7
<1>. DEFINE S == {k \in 0 .. n : Published[k] \in Rpc}
<1>9. \A k \in 0 .. n : k \in S
  <2>1. 0 \in S
    BY <1>0, <1>8
  <2>2. ASSUME NEW k \in 1 .. n, k - 1 \in S PROVE k \in S
    <3>1. Published[k - 1] \in Rpc
      BY <2>2
    <3>2. Published[k] = F[<<Published[k - 1], k>>]
      BY <1>2, <1>8, <3>1
    <3>. QED
      BY <1>2, <3>1, <3>2
  <2>. HIDE DEF S
  <2>. QED
    BY <1>0, <2>1, <2>2, UpTo
<1>. QED
  BY <1>8, <1>9

\* A pass over the slots ends a subscription or leaves it.
LEMMA PublishedPhase ==
    ASSUME WorldType, rpc \in Rpc, NEW id,
           NEW s, s = Published[RPC_SUB_MAX]
    PROVE  /\ s \in Rpc /\ s.reading = rpc.reading
           /\ s.cassette = rpc.cassette /\ s.open = rpc.open
           /\ id \in ReqId =>
                 /\ Quiet(rpc, rpc.out, id) => Quiet(s, s.out, id)
                 /\ Held(rpc, rpc.out, id) =>
                       Held(s, s.out, id) \/ Done(s, s.out, id)
<1>. DEFINE P(k) == Published[k]
            S == {k \in 0 .. RPC_SUB_MAX :
                    /\ P(k).reading = rpc.reading
                    /\ P(k).cassette = rpc.cassette /\ P(k).open = rpc.open
                    /\ id \in ReqId =>
                          /\ Quiet(rpc, rpc.out, id) =>
                                Quiet(P(k), P(k).out, id)
                          /\ Held(rpc, rpc.out, id) =>
                                \/ Held(P(k), P(k).out, id)
                                \/ Done(P(k), P(k).out, id)}
<1>1. RPC_SUB_MAX \in Nat
  BY Constants
<1>2. 0 \in S
  BY <1>1, PublishedIs
<1>3. ASSUME NEW k \in 1 .. RPC_SUB_MAX, k - 1 \in S PROVE k \in S
  <2>1. PICK a : a = Published[k - 1]
    OBVIOUS
  <2>2. PICK b : b = Published[k]
    OBVIOUS
  <2>3. a \in Rpc /\ k - 1 \in Slot /\ b = Publish(a, k - 1)
    BY <1>1, <2>1, <2>2, PublishedIs DEF Slot
  <2>4. /\ b.reading = a.reading /\ b.cassette = a.cassette /\ b.open = a.open
        /\ id \in ReqId =>
              /\ Quiet(a, a.out, id) => Quiet(b, b.out, id)
              /\ Held(a, a.out, id) => Held(b, b.out, id) \/ Done(b, b.out, id)
              /\ Done(a, a.out, id) => Done(b, b.out, id)
    BY <2>3, PublishPhase
  <2>. QED
    BY <1>3, <2>1, <2>2, <2>4
<1>4. RPC_SUB_MAX \in S
  <2>. HIDE DEF S
  <2>. QED
    BY <1>1, <1>2, <1>3, UpTo
<1>. QED
  BY <1>1, <1>4, PublishedIs

-----------------------------------------------------------------------------
(* What a host sends.                                                      *)

\* SUBSCRIBE, UNSUBSCRIBE and WRITE as a host sends them.
Subscribing ==
    [op : {MESSAGES_OP_SUBSCRIBE}, req_id : ReqId, topic : Octet,
     subtopic : Octet]

Unsubscribing == [op : {MESSAGES_OP_UNSUBSCRIBE}, req_id : ReqId]

Writing == [op : {MESSAGES_OP_WRITE}, req_id : {0}, topic : Octet,
            subtopic : Octet, value : Values]

\* Every id but q is left alone.
Others(s, s2, q) ==
    Calm(s, s2) /\ \A id \in ReqId \ {q} : Keeps(s, s2, id)

LEMMA ReqIdShort == ReqId \subseteq Short /\ 0 \notin ReqId /\ 0 \in Short
<1>1. 0 \in Short
  BY FreeSlotIs DEF FreeSlot, Sub
<1>. QED
  BY <1>1, HostAssumption

-----------------------------------------------------------------------------
(* rpcRecvSubscribe, rpcRecvUnsubscribe.                                   *)

\* SUBSCRIBE takes a slot, or is answered with an error.
LEMMA SubscribePhase ==
    ASSUME NEW s \in Rpc, NEW m \in Subscribing, NEW q, q = m.req_id,
           NEW s2, s2 = RecvSubscribe(s, m)
    PROVE  /\ Others(s, s2, q)
           /\ Quiet(s, s.out, q) => Held(s2, s2.out, q) \/ Done(s2, s2.out, q)
<1>1. PICK sub : sub = [active |-> TRUE, req_id |-> m.req_id,
                        topic |-> m.topic, subtopic |-> m.subtopic]
  OBVIOUS
<1>2. /\ sub \in Sub /\ sub.active /\ sub.req_id = q /\ sub.req_id \in ReqId
  BY <1>1, ReqIdShort DEF Sub, Subscribing
<1>3. CASE FreeSlots(s) = {}
  <2>1. s2 = SendPubError(s, sub, SUB_MAX)
    BY <1>1, <1>3 DEF RecvSubscribe
  <2>2. Replied(s, s2, q)
    BY <1>2, <2>1, PublishFrames, ErrorsSendable
  <2>3. Answers(s, s2, q)
    BY <1>2, <2>2 DEF Replied
  <2>4. Quiet(s, s.out, q) => Done(s2, s2.out, q)
    BY <2>3 DEF Quiet, Done, Answers, Holds, NoFrame, Unended
  <2>. QED
    BY <2>2, <2>4 DEF Replied, Others
<1>4. CASE FreeSlots(s) # {}
  <2>1. PICK i : i = Min(FreeSlots(s))
    OBVIOUS
  <2>2. i \in FreeSlots(s)
    <3>1. FreeSlots(s) \subseteq Nat
      BY Constants DEF FreeSlots, Slot
    <3>. QED
      BY <1>4, <2>1, <3>1, SmallestIn
  <2>3. i \in Slot /\ ~s.subs[i].active
    BY <2>2 DEF FreeSlots
  <2>4. s2 = SetSub(s, i, sub)
    BY <1>1, <1>4, <2>1 DEF RecvSubscribe, SetSub
  <2>5. /\ Calm(s, s2) /\ s2.out = s.out
        /\ s2.subs = [s.subs EXCEPT ![i] = sub]
        /\ \A id : SubFind(s2, id) =
                 IF sub.active /\ sub.req_id = id THEN SubFind(s, id) \cup {i}
                                                  ELSE SubFind(s, id) \ {i}
    BY ONLY <1>2, <2>3, <2>4, s \in Rpc, SubSet
  <2>6. \A id : i \notin SubFind(s, id)
    BY <2>3 DEF SubFind
  <2>7. /\ \A id : id # q => SubFind(s2, id) = SubFind(s, id)
        /\ SubFind(s2, q) = SubFind(s, q) \cup {i}
    BY <1>2, <2>5, <2>6
  <2>8. Others(s, s2, q)
    BY <2>5, <2>7, SameOut DEF Others
  <2>9. Reads(s2, q) <=> Reads(s, q)
    BY <2>5 DEF Calm, Reads
  <2>10. Quiet(s, s.out, q) => Held(s2, s2.out, q)
    BY <2>3, <2>5, <2>7, <2>9 DEF Quiet, Held, NoFrame, Unended
  <2>. QED
    BY <2>8, <2>10
<1>. QED
  BY <1>3, <1>4

\* UNSUBSCRIBE frees the slot and says so.
LEMMA UnsubscribePhase ==
    ASSUME NEW s \in Rpc, NEW m \in Unsubscribing, NEW q, q = m.req_id,
           NEW s2, s2 = RecvUnsubscribe(s, m)
    PROVE  /\ Others(s, s2, q)
           /\ Held(s, s.out, q) => Done(s2, s2.out, q)
<1>1. q \in ReqId
  BY DEF Unsubscribing
<1>2. CASE SubFind(s, q) = {}
  <2>1. PICK none : none = [req_id |-> q, topic |-> ALL, subtopic |-> ALL]
    OBVIOUS
  <2>2. PICK a : a = SendPubError(s, none, BAD_REQ_ID)
    OBVIOUS
  <2>3. s2 = SendPubEnd(a, none)
    BY <1>2, <2>1, <2>2 DEF RecvUnsubscribe
  <2>4. /\ none.req_id = q /\ none.topic = ALL /\ none.subtopic = ALL
        /\ q \in Short /\ q \in ReqId /\ ALL \in Octet
    BY <1>1, <2>1, Topics, ReqIdShort
  <2>5. ALL # CASSETTE
    BY Constants DEF ALL, CASSETTE
  <2>6. Replied(s, a, q)
    <3>1. PICK fl, v : fl = 7 /\ v = BAD_REQ_ID
      OBVIOUS
    <3>2. fl \in Octet /\ fl % 2 = 1 /\ v \in Sendable
      BY <3>1, Flags, ErrorsSendable
    <3>3. a = SendData(s, q, ALL, ALL, fl, v)
      BY <2>2, <2>4, <3>1, Flags DEF SendPubError
    <3>. QED
      BY <2>4, <2>5, <3>2, <3>3, SendsData
  <2>7. a \in Rpc
    BY <2>6 DEF Replied, Calm
  <2>8. Replied(a, s2, q)
    <3>1. PICK fl, v : fl = 3 /\ v = <<>>
      OBVIOUS
    <3>2. fl \in Octet /\ fl % 2 = 1 /\ v \in Sendable
      BY <3>1, Flags, EmptySendable
    <3>3. s2 = SendData(a, q, ALL, ALL, fl, v)
      BY <2>3, <2>4, <3>1, Flags DEF SendPubEnd
    <3>. QED
      BY <2>4, <2>5, <2>7, <3>2, <3>3, SendsData
  <2>9. Others(s, s2, q)
    BY <2>6, <2>8, KeepsTrans DEF Replied, Calm, Others
  <2>. QED
    BY <1>2, <2>9 DEF Held
<1>3. CASE SubFind(s, q) # {}
  <2>1. PICK i : i = Min(SubFind(s, q))
    OBVIOUS
  <2>2. i \in SubFind(s, q)
    <3>1. SubFind(s, q) \subseteq Nat
      BY Constants DEF SubFind, Slot
    <3>. QED
      BY <1>3, <2>1, <3>1, SmallestIn
  <2>3. i \in Slot /\ s.subs[i].active /\ s.subs[i].req_id = q
    BY <2>2 DEF SubFind
  <2>4. PICK a : a = SendPubEnd(s, s.subs[i])
    OBVIOUS
  <2>5. s2 = SubReset(a, i)
    BY <1>3, <2>1, <2>4 DEF RecvUnsubscribe
  <2>6. s.subs[i] \in Sub
    BY <2>3, SubFields
  <2>7. Replied(s, a, q)
    BY <1>1, <2>3, <2>4, <2>6, EmptySendable, PublishFrames
  <2>8. Drops(s, s2, q, i)
    BY <2>3, <2>5, <2>7, RepliedDrops
  <2>9. Others(s, s2, q)
    BY <2>8 DEF Drops, Others
  <2>10. Finishes(s, s2, q, i)
    BY <1>1, <2>8 DEF Drops
  <2>11. ASSUME Held(s, s.out, q) PROVE Done(s2, s2.out, q)
    <3>1. SubFind(s, q) = {i}
      BY <2>2, <2>11 DEF Held
    <3>2. SubFind(s2, q) = {}
      BY <2>10, <3>1 DEF Finishes
    <3>. QED
      BY <2>10, <2>11, <3>2 DEF Finishes, Held, Done
  <2>. QED
    BY <2>9, <2>11
<1>. QED
  BY <1>2, <1>3

-----------------------------------------------------------------------------
(* rpcRecvRead.                                                            *)

\* A reply to a READ ends it.
LEMMA RepIs ==
    ASSUME NEW s \in Rpc, NEW read, read.req_id \in Short,
           read.topic \in Octet, read.subtopic \in Octet, NEW v \in Sendable
    PROVE  /\ Replied(s, SendRepError(s, read, v), read.req_id)
           /\ read.req_id \in ReqId
              /\ (read.topic = CASSETTE =>
                    read.subtopic \notin CassetteIndex \/ v = <<>>)
              => Replied(s, SendRep(s, read, v), read.req_id)
<1>1. PICK q, t, st : q = read.req_id /\ t = read.topic /\ st = read.subtopic
  OBVIOUS
<1>2. q \in Short /\ t \in Octet /\ st \in Octet
  BY <1>1
<1>3. Replied(s, SendData(s, q, t, st, 5, v), q)
  <2>1. PICK fl : fl = 5
    OBVIOUS
  <2>2. fl \in Octet /\ fl % 2 = 1 /\ fl # 1
    BY <2>1, Flags
  <2>. QED
    BY <1>2, <2>1, <2>2, SendsData
<1>4. ASSUME q \in ReqId, t = CASSETTE => st \notin CassetteIndex \/ v = <<>>
      PROVE  Replied(s, SendData(s, q, t, st, 1, v), q)
  <2>1. PICK fl : fl = 1
    OBVIOUS
  <2>2. fl \in Octet /\ fl % 2 = 1
    BY <2>1, Flags
  <2>. QED
    BY <1>2, <1>4, <2>1, <2>2, SendsData
<1>. QED
  BY <1>1, <1>3, <1>4, Flags DEF SendRep, SendRepError

\* What COUNT, FREE and MAX are answered fits an octet.
LEMMA FreeCount ==
    ASSUME NEW s \in Rpc
    PROVE  /\ Cardinality(FreeSlots(s)) \in Octet
           /\ RPC_SUB_MAX - Cardinality(FreeSlots(s)) \in Octet
           /\ RPC_SUB_MAX \in Octet
<1>1. RPC_SUB_MAX \in Nat /\ 0 \in Int /\ RPC_SUB_MAX - 1 \in Int
  BY Constants
<1>2. IsFiniteSet(Slot) /\ Cardinality(Slot) = RPC_SUB_MAX
  BY <1>1, FS_Interval DEF Slot
<1>3. FreeSlots(s) \subseteq Slot
  BY DEF FreeSlots
<1>4. /\ Cardinality(FreeSlots(s)) \in Nat
      /\ Cardinality(FreeSlots(s)) <= RPC_SUB_MAX
  BY <1>2, <1>3, FS_Subset, FS_CardinalityType
<1>. QED
  BY <1>1, <1>4, Constants DEF Octet

LEMMA CassetteCountIs ==
    /\ CassetteCount \in Octet /\ CASSETTE_MAX - CassetteCount \in Octet
    /\ CASSETTE_MAX \in Octet
<1>1. CASSETTE_MAX \in Nat /\ 0 \in Int /\ CASSETTE_MAX - 1 \in Int
  BY Constants
<1>2. IsFiniteSet(CassetteIndex) /\ Cardinality(CassetteIndex) = CASSETTE_MAX
  BY <1>1, FS_Interval DEF CassetteIndex
<1>3. PICK T : T = {c \in CassetteIndex : files[c] # Absent}
  OBVIOUS
<1>4. T \subseteq CassetteIndex
  BY <1>3
<1>5. Cardinality(T) \in Nat /\ Cardinality(T) <= CASSETTE_MAX
  BY <1>2, <1>4, FS_Subset, FS_CardinalityType
<1>6. CassetteCount = Cardinality(T)
  BY <1>3 DEF CassetteCount
<1>. QED
  BY <1>1, <1>5, <1>6, Constants DEF Octet

\* A slot in the listing of the subscriptions: four octets, five with its index.
LEMMA PlaceIs ==
    ASSUME NEW s \in Rpc, NEW i \in Slot
    PROVE  /\ Place(s, i) \in Sendable
           /\ Place(s, i) \in Seq(Octet) /\ Len(Place(s, i)) = 4
           /\ <<i>> \o Place(s, i) \in Seq(Octet)
           /\ Len(<<i>> \o Place(s, i)) = 5
<1>1. /\ s.subs[i].req_id \in Short
      /\ s.subs[i].topic \in Octet /\ s.subs[i].subtopic \in Octet
  BY SubFields
<1>2. High(s.subs[i].req_id) \in Octet /\ Low(s.subs[i].req_id) \in Octet
  BY <1>1, ShortOctets
<1>3. Place(s, i) \in Seq(Octet) /\ Len(Place(s, i)) = 4
  BY <1>1, <1>2 DEF Place
<1>4. i \in Octet
  BY Named
<1>5. PICK t, u : t = <<i>> /\ u = Place(s, i)
  OBVIOUS
<1>6. t \in Seq(Octet) /\ Len(t) = 1 /\ u \in Seq(Octet) /\ Len(u) = 4
  BY <1>3, <1>4, <1>5
<1>7. t \o u \in Seq(Octet) /\ Len(t \o u) = Len(t) + Len(u)
  BY ONLY <1>6, ConcatProperties
<1>8. /\ <<i>> \o Place(s, i) \in Seq(Octet)
      /\ Len(<<i>> \o Place(s, i)) = 5
  BY <1>5, <1>6, <1>7
<1>9. Place(s, i) \in Sendable
  <2>1. 11 + 4 <= SFP_CONFIG_MAX_PACKET_SIZE
    BY Constants
  <2>. QED
    BY <1>3, <2>1 DEF Sendable
<1>. QED
  BY <1>3, <1>8, <1>9

\* The listing of all of them fits a frame.
LEMMA ListingSendable ==
    ASSUME NEW s \in Rpc
    PROVE  Listing(s) \in Sendable
<1>. DEFINE f == [i \in 1 .. RPC_SUB_MAX |->
                    IF s.subs[i - 1].active THEN <<i - 1>> \o Place(s, i - 1)
                                            ELSE <<>>]
<1>1. ASSUME NEW i \in 1 .. RPC_SUB_MAX
      PROVE  f[i] \in Seq(Octet) /\ Len(f[i]) <= 5
  <2>1. i - 1 \in Slot
    BY Constants DEF Slot
  <2>2. PICK p : p = <<i - 1>> \o Place(s, i - 1)
    OBVIOUS
  <2>3. p \in Seq(Octet) /\ Len(p) = 5
    BY <2>1, <2>2, PlaceIs
  <2>4. f[i] = IF s.subs[i - 1].active THEN p ELSE <<>>
    BY <2>2
  <2>5. <<>> \in Seq(Octet) /\ Len(<<>>) = 0
    OBVIOUS
  <2>6. PICK e : e = f[i]
    OBVIOUS
  <2>7. e = p \/ e = <<>>
    BY <2>4, <2>6, Zenon
  <2>8. e \in Seq(Octet) /\ Len(e) <= 5
    <3>1. Len(p) <= 5 /\ Len(<<>>) <= 5
      BY <2>3, <2>5
    <3>. QED
      BY ONLY <2>3, <2>5, <2>7, <3>1, Zenon
  <2>. HIDE DEF f
  <2>. QED
    BY ONLY <2>6, <2>8
<1>2. f \in [1 .. RPC_SUB_MAX -> Seq(Octet)]
  BY <1>1
<1>3. Listing(s) = FlattenSeq(f)
  BY DEF Listing
<1>. HIDE DEF f
<1>4. FlattenSeq(f) \in Seq(Octet) /\ Len(FlattenSeq(f)) <= 5 * RPC_SUB_MAX
  BY <1>1, <1>2, Flattened, Constants
<1>. QED
  BY <1>3, <1>4, Constants DEF Sendable

\* The fields of a READ.
LEMMA AskingFields ==
    ASSUME NEW read \in Asking
    PROVE  /\ read.req_id \in ReqId /\ read.req_id \in Short
           /\ read.topic \in Octet /\ read.subtopic \in Octet
           /\ read.op = MESSAGES_OP_READ
BY ReqIdShort DEF Asking

\* A frame that others follow.
SendPart(s, read, subtopic, value) ==
    SendData(s, read.req_id, read.topic, subtopic, 0, value)

\* A reply in several frames: all but the last.
LEMMA PartIs ==
    ASSUME NEW s \in Rpc, NEW read \in Asking, read.topic # CASSETTE,
           NEW st \in Octet, NEW v \in Sendable
    PROVE  /\ Continues(s, SendPart(s, read, st, v), read.req_id)
           /\ SendPart(s, read, st, v) \in Rpc
<1>1. PICK q, t, fl : q = read.req_id /\ t = read.topic /\ fl = 0
  OBVIOUS
<1>2. /\ q \in Short /\ q \in ReqId /\ t \in Octet /\ fl \in Octet
      /\ fl % 2 = 0 /\ t # CASSETTE
  BY <1>1, AskingFields, Named, Flags
<1>3. Continues(s, SendData(s, q, t, st, fl, v), q)
  BY <1>2, SendsData
<1>. QED
  BY <1>1, <1>3 DEF SendPart, Continues, Calm

\* rpcRecvReadPubsub answers.
LEMMA ReadPubsubIs ==
    ASSUME NEW s \in Rpc, NEW read \in Asking, read.topic = PUBSUB,
           NEW s2, s2 = RecvReadPubsub(s, read)
    PROVE  Replied(s, s2, read.req_id)
<1>1. PICK free : free = Cardinality(FreeSlots(s))
  OBVIOUS
<1>2. /\ <<free>> \in Sendable /\ <<RPC_SUB_MAX - free>> \in Sendable
      /\ <<RPC_SUB_MAX>> \in Sendable
  BY <1>1, FreeCount, OneSendable
<1>3. PICK st : st = read.subtopic
  OBVIOUS
<1>4. /\ COUNT # FREE /\ COUNT # MAX /\ COUNT # LIST /\ COUNT # ALL
      /\ FREE # MAX /\ FREE # LIST /\ FREE # ALL /\ MAX # LIST /\ MAX # ALL
      /\ LIST # ALL
      /\ COUNT \in Octet /\ FREE \in Octet /\ MAX \in Octet /\ LIST \in Octet
      /\ \A i \in Slot : i \notin {COUNT, FREE, MAX, LIST, ALL}
  BY Constants DEF COUNT, FREE, MAX, LIST, ALL, Slot, Octet
<1>5. PUBSUB # CASSETTE
  BY Topics
<1>6. ASSUME NEW t \in Rpc, NEW v \in Sendable
      PROVE  /\ Replied(t, SendRep(t, read, v), read.req_id)
             /\ Replied(t, SendRepError(t, read, v), read.req_id)
  BY <1>5, AskingFields, RepIs
<1>7. CASE st \in Slot
  <2>1. PICK v : v = IF s.subs[st].active THEN Place(s, st) ELSE <<>>
    OBVIOUS
  <2>2. v \in Sendable
    BY <1>7, <2>1, PlaceIs, EmptySendable
  <2>3. s2 = SendRep(s, read, v)
    BY <1>3, <1>4, <1>7, <2>1 DEF RecvReadPubsub
  <2>. QED
    BY <1>6, <2>2, <2>3
<1>8. CASE st = COUNT
  <2>1. s2 = SendRep(s, read, <<RPC_SUB_MAX - free>>)
    BY <1>1, <1>3, <1>4, <1>8 DEF RecvReadPubsub
  <2>. QED
    BY <1>2, <1>6, <2>1
<1>9. CASE st = FREE
  <2>1. s2 = SendRep(s, read, <<free>>)
    BY <1>1, <1>3, <1>4, <1>9 DEF RecvReadPubsub
  <2>. QED
    BY <1>2, <1>6, <2>1
<1>10. CASE st = MAX
  <2>1. s2 = SendRep(s, read, <<RPC_SUB_MAX>>)
    BY <1>3, <1>4, <1>10 DEF RecvReadPubsub
  <2>. QED
    BY <1>2, <1>6, <2>1
<1>11. CASE st = LIST
  <2>1. s2 = SendRep(s, read, Listing(s))
    BY <1>3, <1>4, <1>11 DEF RecvReadPubsub
  <2>. QED
    BY <1>6, <2>1, ListingSendable
<1>12. CASE st = ALL
  <2>1. PICK a : a = SendPart(s, read, LIST, Listing(s))
    OBVIOUS
  <2>2. PICK b : b = SendPart(a, read, COUNT, <<RPC_SUB_MAX - free>>)
    OBVIOUS
  <2>3. PICK c : c = SendPart(b, read, FREE, <<free>>)
    OBVIOUS
  <2>4. PICK d : d = SendPart(c, read, MAX, <<RPC_SUB_MAX>>)
    OBVIOUS
  <2>5. s2 = SendRep(d, read, <<>>)
    BY <1>1, <1>3, <1>4, <1>12, <2>1, <2>2, <2>3, <2>4
       DEF RecvReadPubsub, SendPart
  <2>6. PICK q : q = read.req_id
    OBVIOUS
  <2>7. Continues(s, a, q) /\ a \in Rpc
    BY <1>4, <1>5, <2>1, <2>6, PartIs, ListingSendable
  <2>8. Continues(a, b, q) /\ b \in Rpc
    BY <1>2, <1>4, <1>5, <2>2, <2>6, <2>7, PartIs
  <2>9. Continues(b, c, q) /\ c \in Rpc
    BY <1>2, <1>4, <1>5, <2>3, <2>6, <2>8, PartIs
  <2>10. Continues(c, d, q) /\ d \in Rpc
    BY <1>2, <1>4, <1>5, <2>4, <2>6, <2>9, PartIs
  <2>11. Replied(d, s2, q)
    BY <1>6, <2>5, <2>6, <2>10, EmptySendable
  <2>12. Continues(s, b, q)
    BY <2>7, <2>8, ContinuesTrans
  <2>13. Continues(s, c, q)
    BY <2>9, <2>12, ContinuesTrans
  <2>14. Continues(s, d, q)
    BY <2>10, <2>13, ContinuesTrans
  <2>. QED
    BY <2>6, <2>11, <2>14, ContinuesTrans
<1>13. CASE st \notin Slot \cup {COUNT, FREE, MAX, LIST, ALL}
  <2>1. s2 = SendRepError(s, read, BAD_SUBTOPIC)
    BY <1>3, <1>13 DEF RecvReadPubsub
  <2>. QED
    BY <1>6, <2>1, ErrorsSendable
<1>. QED
  BY <1>7, <1>8, <1>9, <1>10, <1>11, <1>12, <1>13

\* rpcRecvReadClock and rpcRecvReadMotor answer.
LEMMA ReadClockIs ==
    ASSUME NEW s \in Rpc, NEW read \in Asking, read.topic = CLOCK,
           NEW s2, s2 = RecvReadClock(s, read)
    PROVE  Replied(s, s2, read.req_id)
<1>1. read.topic # CASSETTE
  BY Topics
<1>. QED
  BY <1>1, AskingFields, RepIs, ClockSendable, ErrorsSendable
     DEF RecvReadClock

LEMMA ReadMotorIs ==
    ASSUME WorldType, NEW s \in Rpc, NEW read \in Asking, read.topic = MOTOR,
           NEW s2, s2 = RecvReadMotor(s, read)
    PROVE  Replied(s, s2, read.req_id)
<1>1. PICK st, q : st = read.subtopic /\ q = read.req_id
  OBVIOUS
<1>2. ASSUME NEW t \in Rpc, NEW v \in Sendable
      PROVE  /\ Replied(t, SendRep(t, read, v), q)
             /\ Replied(t, SendRepError(t, read, v), q)
  BY <1>1, Topics, AskingFields, RepIs
<1>3. ASSUME NEW set, NEW v \in Sendable
      PROVE  Replied(s, SendRep(Remember(s, set), read, v), q)
  <2>1. PICK t : t = Remember(s, set)
    OBVIOUS
  <2>2. Continues(s, t, q)
    BY <2>1, RememberIs
  <2>3. t \in Rpc
    BY <2>2 DEF Continues, Calm
  <2>4. Replied(t, SendRep(t, read, v), q)
    BY <1>2, <2>3
  <2>. QED
    BY <2>1, <2>2, <2>4, ContinuesTrans
<1>4. CASE st \in MotorIndex
  <2>1. PICK v : v = <<motors[st]>>
    OBVIOUS
  <2>2. st # ALL
    BY <1>4, Topics
  <2>3. s2 = SendRep(Remember(s, {st}), read, v)
    BY <1>1, <1>4, <2>1, <2>2 DEF RecvReadMotor
  <2>4. motors[st] \in Octet
    BY <1>4 DEF WorldType
  <2>5. v \in Sendable
    BY <2>1, <2>4, OneSendable
  <2>. QED
    BY <1>1, <1>3, <2>3, <2>5
<1>5. CASE st = ALL
  <2>1. s2 = SendRep(Remember(s, MotorIndex), read, Listed(MotorIndex))
    BY <1>1, <1>5, Topics DEF RecvReadMotor
  <2>. QED
    BY <1>1, <1>3, <2>1, ListedSendable
<1>6. CASE st \notin MotorIndex \cup {ALL}
  <2>1. s2 = SendRepError(s, read, BAD_SUBTOPIC)
    BY <1>1, <1>6 DEF RecvReadMotor
  <2>. QED
    BY <1>1, <1>2, <2>1, ErrorsSendable
<1>. QED
  BY <1>4, <1>5, <1>6

\* The loop begins.
Begin(s, read) ==
    [s EXCEPT !.reading = [file |-> read.subtopic, read |-> read,
                           rlen |-> 0, tmp |-> <<>>]]

\* READ of a cassette that can be opened.
Begins(s, s2, read) ==
    /\ s2 = Begin(s, read) /\ read.topic = CASSETTE
    /\ read.subtopic \in CassetteIndex /\ files[read.subtopic] \in Seq(Octet)

\* The file that is open can be measured.
OpenFile(s) ==
    /\ s.open <=> s.cassette # NoCassette
    /\ s.cassette # NoCassette => files[s.cassette] \in Seq(Octet)

\* rpcRecvReadCassette answers, or begins to read.
LEMMA ReadCassetteIs ==
    ASSUME WorldType, NEW s \in Rpc, OpenFile(s), NEW read \in Asking,
           read.topic = CASSETTE,
           NEW s2, s2 = RecvReadCassette(s, read)
    PROVE  Replied(s, s2, read.req_id) \/ Begins(s, s2, read)
<1>1. PICK st, q : st = read.subtopic /\ q = read.req_id
  OBVIOUS
<1>2. ASSUME NEW v \in Sendable
      PROVE  /\ st \notin CassetteIndex \/ v = <<>> =>
                  Replied(s, SendRep(s, read, v), q)
             /\ Replied(s, SendRepError(s, read, v), q)
  BY <1>1, AskingFields, RepIs
<1>3. /\ OPEN \notin CassetteIndex /\ COUNT \notin CassetteIndex
      /\ FREE \notin CassetteIndex /\ MAX \notin CassetteIndex
      /\ OPEN # COUNT /\ OPEN # FREE /\ OPEN # MAX
      /\ COUNT # FREE /\ COUNT # MAX /\ FREE # MAX
  BY Constants DEF OPEN, COUNT, FREE, MAX, CassetteIndex
<1>4. CASE st \in CassetteIndex
  <2>1. CASE s.open \/ files[st] = Absent
    <3>1. s2 = SendRep(s, read, <<>>)
      BY <1>1, <1>3, <1>4, <2>1 DEF RecvReadCassette
    <3>. QED
      BY <1>1, <1>2, <3>1, EmptySendable
  <2>2. CASE ~(s.open \/ files[st] = Absent)
    <3>1. s2 = Begin(s, read)
      BY <1>1, <1>3, <1>4, <2>2, Zenon DEF RecvReadCassette, Begin
    <3>2. files[st] \in Seq(Octet)
      BY <1>4, <2>2 DEF WorldType
    <3>. QED
      BY <1>1, <1>4, <3>1, <3>2 DEF Begins
  <2>. QED
    BY <2>1, <2>2
<1>5. CASE st = OPEN
  <2>1. PICK v : v = <<s.cassette>> \o LongOctets(Told(s))
    OBVIOUS
  <2>2. s2 = SendRep(s, read, v)
    BY <1>1, <1>3, <1>5, <2>1 DEF RecvReadCassette
  <2>3. Told(s) \in Nat
    BY DEF Told, OpenFile
  <2>4. s.cassette \in Octet
    BY Named DEF Rpc
  <2>5. v \in Sendable
    BY <2>1, <2>3, <2>4, LengthSendable
  <2>. QED
    BY <1>1, <1>2, <1>3, <1>5, <2>2, <2>5
<1>6. CASE st = COUNT
  <2>1. s2 = SendRep(s, read, <<CassetteCount>>)
    BY <1>1, <1>3, <1>6 DEF RecvReadCassette
  <2>. QED
    BY <1>1, <1>2, <1>3, <1>6, <2>1, CassetteCountIs, OneSendable
<1>7. CASE st = FREE
  <2>1. s2 = SendRep(s, read, <<CASSETTE_MAX - CassetteCount>>)
    BY <1>1, <1>3, <1>7 DEF RecvReadCassette
  <2>. QED
    BY <1>1, <1>2, <1>3, <1>7, <2>1, CassetteCountIs, OneSendable
<1>8. CASE st = MAX
  <2>1. s2 = SendRep(s, read, <<CASSETTE_MAX>>)
    BY <1>1, <1>3, <1>8 DEF RecvReadCassette
  <2>. QED
    BY <1>1, <1>2, <1>3, <1>8, <2>1, CassetteCountIs, OneSendable
<1>9. CASE st \notin CassetteIndex \cup {OPEN, COUNT, FREE, MAX}
  <2>1. s2 = SendRepError(s, read, BAD_SUBTOPIC)
    BY <1>1, <1>9 DEF RecvReadCassette
  <2>. QED
    BY <1>1, <1>2, <2>1, ErrorsSendable
<1>. QED
  BY <1>4, <1>5, <1>6, <1>7, <1>8, <1>9

\* A READ of any topic is answered, or begins a loop.
LEMMA ReadIs ==
    ASSUME WorldType, NEW s \in Rpc, OpenFile(s), NEW read \in Asking,
           NEW s2, s2 = RecvRead(s, read)
    PROVE  Replied(s, s2, read.req_id) \/ Begins(s, s2, read)
<1>1. CASE read.topic = PUBSUB
  BY <1>1, ReadPubsubIs DEF RecvRead, PUBSUB, CLOCK, MOTOR, CASSETTE
<1>2. CASE read.topic = CLOCK
  BY <1>2, ReadClockIs DEF RecvRead, PUBSUB, CLOCK, MOTOR, CASSETTE
<1>3. CASE read.topic = MOTOR
  BY <1>3, ReadMotorIs DEF RecvRead, PUBSUB, CLOCK, MOTOR, CASSETTE
<1>4. CASE read.topic = CASSETTE
  BY <1>4, ReadCassetteIs DEF RecvRead, PUBSUB, CLOCK, MOTOR, CASSETTE
<1>5. CASE read.topic \notin {PUBSUB, CLOCK, MOTOR, CASSETTE}
  <2>1. s2 = SendRepError(s, read, BAD_TOPIC)
    BY <1>5 DEF RecvRead
  <2>. QED
    BY <2>1, AskingFields, RepIs, ErrorsSendable
<1>. QED
  BY <1>1, <1>2, <1>3, <1>4, <1>5

\* The request of a loop that begins is busy.
LEMMA BeginIs ==
    ASSUME NEW s \in Rpc, NEW read \in Asking, NEW s2, Begins(s, s2, read)
    PROVE  /\ s2 \in Rpc /\ s2.out = s.out
           /\ s2.cassette = s.cassette /\ s2.open = s.open
           /\ s2.reading \in Loop /\ s2.reading # NotReading
           /\ s2.reading = [file |-> read.subtopic, read |-> read,
                            rlen |-> 0, tmp |-> <<>>]
           /\ s.reading = NotReading =>
                 /\ \A id \in ReqId \ {read.req_id} : Keeps(s, s2, id)
                 /\ Quiet(s, s.out, read.req_id) =>
                       Busy(s2, s2.out, read.req_id)
<1>1. PICK r : r = [file |-> read.subtopic, read |-> read,
                    rlen |-> 0, tmp |-> <<>>]
  OBVIOUS
<1>2. /\ read.subtopic \in CassetteIndex /\ read.topic = CASSETTE
      /\ s2 = Begin(s, read)
  BY DEF Begins
<1>3. r \in Loop /\ r.read = read
  <2>1. <<>> \in Seq(Octet) /\ 0 \in Nat
    OBVIOUS
  <2>2. r.read.topic = CASSETTE /\ r.read.subtopic = r.file /\ r.read = read
    BY <1>1, <1>2
  <2>3. r \in [file : CassetteIndex, read : Asking, rlen : Nat,
               tmp : Seq(Octet)]
    BY <1>1, <1>2, <2>1
  <2>. QED
    BY <2>2, <2>3 DEF Loop
<1>4. r # NotReading
  BY <1>3, LoopIsNot
<1>5. s2 = [s EXCEPT !.reading = r]
  BY <1>1, <1>2 DEF Begin
<1>6. /\ s2.reading = r /\ s2.out = s.out /\ s2.subs = s.subs
      /\ s2.cassette = s.cassette /\ s2.open = s.open /\ s2 \in Rpc
  BY <1>3, <1>5 DEF Rpc
<1>7. \A id : SubFind(s2, id) = SubFind(s, id)
  BY <1>6 DEF SubFind
<1>8. ASSUME s.reading = NotReading, NEW id, id # read.req_id
      PROVE  Keeps(s, s2, id)
  <2>1. ~Reads(s2, id) /\ ~Reads(s, id)
    BY <1>3, <1>6, <1>8 DEF Reads
  <2>. QED
    BY <1>6, <1>7, <2>1 DEF Keeps, Holds
<1>9. ASSUME Quiet(s, s.out, read.req_id)
      PROVE  Busy(s2, s2.out, read.req_id)
  <2>1. Reads(s2, read.req_id)
    BY <1>3, <1>4, <1>6 DEF Reads
  <2>. QED
    BY <1>6, <1>7, <1>9, <2>1 DEF Quiet, Busy, NoFrame, Unended
<1>. QED
  BY <1>1, <1>3, <1>4, <1>6, <1>8, <1>9

\* The phase of a request when its READ has been handled.
LEMMA ReadPhase ==
    ASSUME WorldType, NEW s \in Rpc, OpenFile(s), s.reading = NotReading,
           NEW read \in Asking, NEW q, q = read.req_id,
           NEW s2, s2 = RecvRead(s, read)
    PROVE  /\ s2 \in Rpc /\ s2.cassette = s.cassette /\ s2.open = s.open
           /\ \A id \in ReqId \ {q} : Keeps(s, s2, id)
           /\ Quiet(s, s.out, q) => Busy(s2, s2.out, q) \/ Done(s2, s2.out, q)
           /\ s2.reading = NotReading \/ Begins(s, s2, read)
<1>1. CASE Replied(s, s2, q)
  <2>1. Answers(s, s2, q)
    BY <1>1, AskingFields DEF Replied
  <2>2. Quiet(s, s.out, q) => Done(s2, s2.out, q)
    BY <2>1 DEF Quiet, Done, Answers, Holds, NoFrame, Unended
  <2>. QED
    BY <1>1, <2>2 DEF Replied, Calm
<1>2. CASE Begins(s, s2, read)
  BY <1>2, BeginIs
<1>. QED
  BY <1>1, <1>2, ReadIs

-----------------------------------------------------------------------------
(* rpcRecvWrite.                                                           *)

-----------------------------------------------------------------------------
(* rpcRecvWrite.                                                           *)

\* The cassette that is open.
SetTape(s, c, o) == [s EXCEPT !.cassette = c, !.open = o]

\* The cassette that is open is another one.
LEMMA TapeSet ==
    ASSUME NEW s \in Rpc, NEW c \in CassetteIndex \cup {NoCassette},
           NEW o \in BOOLEAN, NEW s2, s2 = SetTape(s, c, o)
    PROVE  /\ s2 \in Rpc /\ s2.reading = s.reading /\ s2.out = s.out
           /\ s2.cassette = c /\ s2.open = o
           /\ \A id : Keeps(s, s2, id)
<1>1. s2 = [s EXCEPT !.cassette = c, !.open = o]
  BY DEF SetTape
<1>2. /\ s2.reading = s.reading /\ s2.out = s.out /\ s2.subs = s.subs
      /\ s2.cassette = c /\ s2.open = o
  BY <1>1 DEF Rpc
<1>3. s2 \in Rpc
  BY <1>1 DEF Rpc
<1>4. \A id : Holds(s, s2, id)
  BY <1>2 DEF Holds, SubFind, Reads
<1>. QED
  BY <1>2, <1>3, <1>4 DEF Keeps

\* The fields of a WRITE.
LEMMA WritingFields ==
    ASSUME NEW m \in Writing
    PROVE  /\ m.op = MESSAGES_OP_WRITE /\ m.req_id = 0
           /\ m.topic \in Octet /\ m.subtopic \in Octet
           /\ m.value \in Seq(Octet)
           /\ \A i \in 1 .. Len(m.value) : m.value[i] \in Octet
<1>1. m.value \in Seq(Octet)
  BY DEF Writing, Values
<1>. QED
  BY <1>1 DEF Writing

\* What is left of the cassettes.
Writes(s, s2, f2) ==
    /\ s2 \in Rpc /\ s2.reading = s.reading
    /\ \A id \in ReqId : Keeps(s, s2, id)
    /\ f2 \in [CassetteIndex -> Seq(Octet) \cup {Absent}]
    /\ s2.open <=> s2.cassette # NoCassette
    /\ s2.cassette # NoCassette => f2[s2.cassette] \in Seq(Octet)

\* Opening, writing and closing answer no request.
LEMMA WriteCassetteIs ==
    ASSUME WorldType, NEW s \in Rpc, OpenFile(s), NEW m \in Writing,
           NEW succeeds \in BOOLEAN,
           NEW s2, s2 = RecvWriteCassette(s, m, succeeds),
           NEW f2, f2 = FilesAfter(s, m, succeeds)
    PROVE  Writes(s, s2, f2)
<1>1. /\ files \in [CassetteIndex -> Seq(Octet) \cup {Absent}]
      /\ OPEN # CLOSE /\ OPEN # WRITE /\ CLOSE # WRITE
      /\ NoCassette \notin CassetteIndex
      /\ s.cassette \in CassetteIndex \cup {NoCassette} /\ s.open \in BOOLEAN
  BY Constants DEF WorldType, OPEN, CLOSE, WRITE, NoCassette, CassetteIndex,
     Rpc
<1>2. \A i \in 1 .. Len(m.value) : m.value[i] \in Octet
  BY WritingFields
<1>3. PICK c : c = m.value[1]
  OBVIOUS
<1>8. PICK yes, no : yes = TRUE /\ no = FALSE
  OBVIOUS
<1>4. CASE Opens(s, m) /\ succeeds
  <2>1. /\ ~Closes(s, m) /\ ~Appends(s, m) /\ c \in CassetteIndex
    BY <1>1, <1>3, <1>4 DEF Opens, Closes, Appends
  <2>2. s2 = SetTape(s, c, yes) /\ yes \in BOOLEAN
    BY <1>3, <1>4, <1>8, <2>1, Zenon DEF RecvWriteCassette, SetTape
  <2>3. f2 = [files EXCEPT ![c] = <<>>]
    BY <1>3, <1>4, <2>1 DEF FilesAfter
  <2>4. /\ s2 \in Rpc /\ s2.reading = s.reading
        /\ s2.cassette = c /\ s2.open = yes /\ \A id : Keeps(s, s2, id)
    BY ONLY <2>1, <2>2, s \in Rpc, TapeSet
  <2>5. <<>> \in Seq(Octet)
    OBVIOUS
  <2>6. /\ f2 \in [CassetteIndex -> Seq(Octet) \cup {Absent}]
        /\ f2[c] \in Seq(Octet)
    BY <1>1, <2>1, <2>3, <2>5
  <2>. QED
    BY <1>1, <1>8, <2>1, <2>4, <2>6 DEF Writes
<1>5. CASE Appends(s, m)
  <2>1. /\ ~Opens(s, m) /\ ~Closes(s, m) /\ c \in CassetteIndex
        /\ s.cassette = c /\ m.value[2] \in Octet
    BY <1>1, <1>2, <1>3, <1>5 DEF Opens, Closes, Appends
  <2>2. f2 = [files EXCEPT ![c] = Append(files[c], m.value[2])]
    BY <1>3, <1>5, <2>1 DEF FilesAfter
  <2>3. files[c] \in Seq(Octet)
    BY <1>1, <2>1 DEF OpenFile
  <2>4. Append(files[c], m.value[2]) \in Seq(Octet)
    BY <2>1, <2>3
  <2>5. /\ f2 \in [CassetteIndex -> Seq(Octet) \cup {Absent}]
        /\ f2[c] \in Seq(Octet)
    BY <1>1, <2>1, <2>2, <2>4
  <2>6. CASE succeeds
    <3>1. s2 = s
      BY <1>5, <2>1, <2>6 DEF RecvWriteCassette
    <3>2. \A id : Keeps(s, s, id)
      BY DEF Keeps, Holds
    <3>. QED
      BY <1>1, <2>1, <2>5, <3>1, <3>2 DEF Writes, OpenFile
  <2>7. CASE ~succeeds
    <3>1. s2 = SetTape(s, NoCassette, no) /\ no \in BOOLEAN
      BY <1>8, <1>5, <2>1, <2>7, Zenon DEF RecvWriteCassette, SetTape
    <3>2. /\ s2 \in Rpc /\ s2.reading = s.reading
          /\ s2.cassette = NoCassette /\ s2.open = no
          /\ \A id : Keeps(s, s2, id)
      BY ONLY <3>1, s \in Rpc, TapeSet
    <3>. QED
      BY <1>8, <2>5, <3>2 DEF Writes
  <2>. QED
    BY <2>6, <2>7
<1>6. CASE Closes(s, m)
  <2>1. ~Opens(s, m) /\ ~Appends(s, m)
    BY <1>1, <1>6 DEF Opens, Closes, Appends
  <2>2. s2 = SetTape(s, NoCassette, no) /\ no \in BOOLEAN
    BY <1>8, <1>6, <2>1, Zenon DEF RecvWriteCassette, SetTape
  <2>3. /\ s2 \in Rpc /\ s2.reading = s.reading
        /\ s2.cassette = NoCassette /\ s2.open = no
        /\ \A id : Keeps(s, s2, id)
    BY ONLY <2>2, s \in Rpc, TapeSet
  <2>4. f2 = files
    BY <2>1 DEF FilesAfter
  <2>. QED
    BY <1>1, <1>8, <2>3, <2>4 DEF Writes
<1>7. CASE ~(Opens(s, m) /\ succeeds) /\ ~Appends(s, m) /\ ~Closes(s, m)
  <2>1. s2 = s
    BY <1>7 DEF RecvWriteCassette
  <2>2. f2 = files
    BY <1>7 DEF FilesAfter
  <2>3. \A id : Keeps(s, s, id)
    BY DEF Keeps, Holds
  <2>. QED
    BY <1>1, <2>1, <2>2, <2>3 DEF Writes, OpenFile
<1>. QED
  BY <1>4, <1>5, <1>6, <1>7

\* A WRITE of an unknown topic is answered under id 0.
LEMMA RepliedToNobody ==
    ASSUME NEW s \in Rpc, NEW m \in Writing,
           NEW s2, s2 = SendRepError(s, m, BAD_TOPIC)
    PROVE  Calm(s, s2) /\ \A id \in ReqId : Keeps(s, s2, id)
<1>1. /\ m.req_id \in Short /\ m.topic \in Octet /\ m.subtopic \in Octet
      /\ m.req_id \notin ReqId
  BY WritingFields, ReqIdShort
<1>2. Replied(s, s2, m.req_id)
  BY <1>1, RepIs, ErrorsSendable
<1>. QED
  BY <1>1, <1>2 DEF Replied

\* A WRITE of any topic leaves all requests alone.
LEMMA WriteIs ==
    ASSUME WorldType, NEW s \in Rpc, OpenFile(s), NEW m \in Writing,
           NEW succeeds \in BOOLEAN,
           NEW s2, s2 = RecvWrite(s, m, succeeds),
           NEW f2, f2 = IF m.topic = CASSETTE THEN FilesAfter(s, m, succeeds)
                                              ELSE files
    PROVE  Writes(s, s2, f2)
<1>1. CASE m.topic = CASSETTE
  <2>1. s2 = RecvWriteCassette(s, m, succeeds) /\ f2 = FilesAfter(s, m, succeeds)
    BY <1>1 DEF RecvWrite, CASSETTE, MOTOR
  <2>. QED
    BY <2>1, WriteCassetteIs
<1>2. CASE m.topic # CASSETTE
  <2>1. s2 = s \/ s2 = SendRepError(s, m, BAD_TOPIC)
    BY <1>2 DEF RecvWrite, CASSETTE, MOTOR
  <2>2. Calm(s, s2) /\ \A id \in ReqId : Keeps(s, s2, id)
    <3>1. Calm(s, s) /\ \A id : Keeps(s, s, id)
      BY DEF Calm, Keeps, Holds
    <3>. QED
      BY <2>1, <3>1, RepliedToNobody
  <2>3. f2 = files
    BY <1>2
  <2>. QED
    BY <2>2, <2>3 DEF Calm, Writes, OpenFile, WorldType
<1>. QED
  BY <1>1, <1>2

\* The motors are set to octets.
LEMMA MotorsAfterIs ==
    ASSUME WorldType, NEW m \in Writing
    PROVE  MotorsAfter(m) \in [MotorIndex -> Octet]
<1>1. /\ motors \in [MotorIndex -> Octet]
      /\ m.value \in Seq(Octet) /\ Len(m.value) \in Nat
      /\ \A i \in 1 .. Len(m.value) : m.value[i] \in Octet
  BY WritingFields DEF WorldType
<1>0. PICK l \in Nat : l = Len(m.value)
  BY <1>1
<1>9. l \div 2 \in Nat /\ 2 * (l \div 2) <= l
  BY Z3
<1>2. PICK n \in Nat : n = Len(m.value) \div 2
  BY <1>0, <1>9
<1>3. 2 * n <= Len(m.value)
  BY <1>0, <1>2, <1>9
<1>. DEFINE pairs(k) == {j \in 1 .. n : m.value[2 * j - 1] = k}
<1>4. ASSUME NEW k, pairs(k) # {}
      PROVE  m.value[2 * Max(pairs(k))] \in Octet
  <2>1. pairs(k) \subseteq 0 .. n
    OBVIOUS
  <2>2. PICK j : j = Max(pairs(k))
    OBVIOUS
  <2>3. j \in pairs(k)
    <3>. HIDE DEF pairs
    <3>. QED
      BY <1>4, <2>1, <2>2, GreatestIn
  <2>4. 2 * j \in 1 .. Len(m.value)
    BY <1>1, <1>3, <2>3
  <2>. QED
    BY <1>1, <2>2, <2>4
<1>5. CASE m.subtopic = ALL /\ Len(m.value) % 2 = 0
  <2>1. MotorsAfter(m) =
          [k \in MotorIndex |-> IF pairs(k) = {} THEN motors[k]
                                ELSE m.value[2 * Max(pairs(k))]]
    BY <1>2, <1>5, Zenon DEF MotorsAfter
  <2>. HIDE DEF pairs
  <2>. QED
    BY <1>1, <1>4, <2>1
<1>6. CASE /\ ~(m.subtopic = ALL /\ Len(m.value) % 2 = 0)
           /\ m.subtopic \in MotorIndex /\ Len(m.value) = 1
  <2>1. MotorsAfter(m) = [motors EXCEPT ![m.subtopic] = m.value[1]]
    BY <1>6, Zenon DEF MotorsAfter
  <2>2. m.value[1] \in Octet
    BY <1>1, <1>6
  <2>. QED
    BY <1>1, <1>6, <2>1, <2>2
<1>7. CASE /\ ~(m.subtopic = ALL /\ Len(m.value) % 2 = 0)
           /\ ~(m.subtopic \in MotorIndex /\ Len(m.value) = 1)
  <2>1. MotorsAfter(m) = motors
    BY <1>7, Zenon DEF MotorsAfter
  <2>. QED
    BY <1>1, <2>1
<1>. QED
  BY <1>5, <1>6, <1>7

-----------------------------------------------------------------------------
(* Frames that are no DATA.                                                *)

\* PONG and INFO are about no request.
LEMMA OtherFrame ==
    ASSUME NEW s \in Rpc, NEW m \in Message,
           m.op \in {MESSAGES_OP_PONG, MESSAGES_OP_INFO},
           GetSizeOf(m) <= SFP_CONFIG_MAX_PACKET_SIZE,
           NEW s2, s2 = Send(s, m)
    PROVE  Calm(s, s2) /\ \A id : Keeps(s, s2, id)
<1>1. PICK e : e = Whole(m)
  OBVIOUS
<1>2. s2 = Added(s, e) /\ e.meant = m
  BY <1>1, WholeIs
<1>3. m.op # MESSAGES_OP_DATA
  BY DEF MESSAGES_OP_PONG, MESSAGES_OP_INFO, MESSAGES_OP_DATA
<1>4. m \in Frame /\ ~AboutTape(m)
  BY <1>3 DEF Frame, AboutTape
<1>5. e \in PlainEntry /\ e \in Entry
  BY <1>1, <1>4, EntryIs
<1>6. /\ s2.out = Append(s.out, e) /\ s2.subs = s.subs
      /\ s2.reading = s.reading /\ s2.cassette = s.cassette /\ s2.open = s.open
      /\ s2 \in Rpc
  BY <1>2, <1>5, AddedOne
<1>7. \A id : ~IsFor(e.meant, id)
  BY <1>2, <1>3 DEF IsFor
<1>8. s.out \in Seq(Entry)
  BY OutEntries
<1>9. ASSUME NEW id PROVE Keeps(s, s2, id)
  <2>1. Holds(s, s2, id)
    BY <1>6 DEF Holds, SubFind, Reads
  <2>2. /\ NoFrame(s.out, id) => NoFrame(s2.out, id)
        /\ Ended(s.out, id) => Ended(s2.out, id)
        /\ Unended(s.out, id) => Unended(s2.out, id)
    BY <1>5, <1>6, <1>7, <1>8, Appended
  <2>. QED
    BY <2>1, <2>2 DEF Keeps
<1>. QED
  BY <1>6, <1>9 DEF Calm

LEMMA PongIs ==
    ASSUME NEW n \in Octet, NEW s \in Rpc, NEW s2, s2 = Send(s, PongFrame(n))
    PROVE  Calm(s, s2) /\ \A id : Keeps(s, s2, id)
<1>1. PICK m : m = PongFrame(n)
  OBVIOUS
<1>2. m \in Message /\ m.op = MESSAGES_OP_PONG
  BY <1>1 DEF PongFrame, Message, WithSeqId
<1>3. GetSizeOf(m) = 2
  BY <1>2 DEF GetSizeOf, HeaderLength, WithSeqId, WithValue, MESSAGES_OP_PING,
     MESSAGES_OP_PONG, MESSAGES_OP_INFO, MESSAGES_OP_DATA, MESSAGES_OP_WRITE,
     WithTopic, MESSAGES_OP_READ, MESSAGES_OP_SUBSCRIBE,
     MESSAGES_OP_UNSUBSCRIBE
<1>. QED
  BY <1>1, <1>2, <1>3, Constants, OtherFrame

LEMMA RobotIs ==
    ASSUME NEW s \in Rpc, NEW s2, s2 = Send(s, InfoFrame(ROBOT, NOW, Clock))
    PROVE  Calm(s, s2) /\ \A id : Keeps(s, s2, id)
<1>1. PICK m : m = InfoFrame(ROBOT, NOW, Clock)
  OBVIOUS
<1>2. Clock \in Values /\ Len(Clock) = 8 /\ ROBOT \in Octet /\ NOW \in Octet
  BY ClockSendable, Named, Constants DEF Sendable, Values, Clock
<1>3. m \in Message /\ m.op = MESSAGES_OP_INFO /\ m.value = Clock
  BY <1>1, <1>2 DEF InfoFrame, Message
<1>4. GetSizeOf(m) = 4 + 8
  <2>1. HeaderLength(m.op) = 4 /\ m.op \in WithValue
    BY <1>3 DEF HeaderLength, WithSeqId, WithValue, MESSAGES_OP_PING,
     MESSAGES_OP_PONG, MESSAGES_OP_INFO, MESSAGES_OP_DATA, MESSAGES_OP_WRITE,
     WithTopic, MESSAGES_OP_READ, MESSAGES_OP_SUBSCRIBE,
     MESSAGES_OP_UNSUBSCRIBE
  <2>2. Len(m.value) = 8
    BY <1>2, <1>3
  <2>. QED
    BY <2>1, <2>2 DEF GetSizeOf
<1>. QED
  BY <1>1, <1>3, <1>4, Constants, OtherFrame

-----------------------------------------------------------------------------
(* Frames that come behind others.                                         *)

\* Frames behind those of the line.
LEMMA JoinedFrames ==
    ASSUME NEW t \in Seq(Entry), NEW o \in Seq(Entry), NEW id
    PROVE  /\ NoFrame(t, id) /\ NoFrame(o, id) => NoFrame(t \o o, id)
           /\ Unended(t, id) /\ Unended(o, id) => Unended(t \o o, id)
           /\ Unended(t, id) /\ Ended(o, id) => Ended(t \o o, id)
           /\ Ended(t, id) /\ NoFrame(o, id) => Ended(t \o o, id)
<1>. DEFINE a == t \o o
            n == Len(t)
            k == Len(o)
<1>1. /\ n \in Nat /\ k \in Nat /\ Len(a) = n + k
      /\ \A i \in 1 .. n : a[i] = t[i]
      /\ \A i \in 1 .. k : a[n + i] = o[i]
  BY Joined
<1>. HIDE DEF a
<1>2. ASSUME NEW i \in 1 .. n + k
      PROVE  i \in 1 .. n \/ (i > n /\ i - n \in 1 .. k /\ a[i] = o[i - n])
  <2>1. CASE i > n
    <3>1. i - n \in 1 .. k /\ n + (i - n) = i
      BY <1>1, <2>1
    <3>2. a[n + (i - n)] = o[i - n]
      BY <1>1, <3>1
    <3>. QED
      BY <2>1, <3>1, <3>2
  <2>. QED
    BY <1>1, <2>1
<1>3. ASSUME NoFrame(t, id), NoFrame(o, id) PROVE NoFrame(a, id)
  BY <1>1, <1>2, <1>3 DEF NoFrame
<1>4. ASSUME Unended(t, id), Unended(o, id) PROVE Unended(a, id)
  BY <1>1, <1>2, <1>4 DEF Unended
<1>5. ASSUME Unended(t, id), Ended(o, id) PROVE Ended(a, id)
  <2>1. PICK e \in 1 .. k : EndsAt(o, id, e)
    BY <1>5 DEF Ended
  <2>2. n + e \in 1 .. n + k /\ a[n + e] = o[e]
    BY <1>1
  <2>3. ASSUME NEW i \in 1 .. n + k, IsFor(a[i].meant, id)
        PROVE  i <= n + e /\ (Ends(a[i].meant) => i = n + e)
    <3>1. CASE i \in 1 .. n
      BY <1>1, <1>5, <2>3, <3>1 DEF Unended
    <3>2. CASE i > n /\ i - n \in 1 .. k /\ a[i] = o[i - n]
      <4>1. i - n <= e /\ (Ends(a[i].meant) => i - n = e)
        BY <2>1, <2>3, <3>2 DEF EndsAt
      <4>. QED
        BY <1>1, <3>2, <4>1
    <3>. QED
      BY <1>2, <3>1, <3>2
  <2>4. EndsAt(a, id, n + e)
    BY <1>1, <2>1, <2>2, <2>3 DEF EndsAt
  <2>. QED
    BY <1>1, <2>2, <2>4 DEF Ended
<1>6. ASSUME Ended(t, id), NoFrame(o, id) PROVE Ended(a, id)
  <2>1. PICK e \in 1 .. n : EndsAt(t, id, e)
    BY <1>6 DEF Ended
  <2>2. e \in 1 .. n + k /\ a[e] = t[e]
    BY <1>1
  <2>3. ASSUME NEW i \in 1 .. n + k, IsFor(a[i].meant, id)
        PROVE  i <= e /\ (Ends(a[i].meant) => i = e)
    <3>1. CASE i \in 1 .. n
      BY <1>1, <2>1, <2>3, <3>1 DEF EndsAt
    <3>2. CASE i > n /\ i - n \in 1 .. k /\ a[i] = o[i - n]
      BY <1>6, <2>3, <3>2 DEF NoFrame
    <3>. QED
      BY <1>2, <3>1, <3>2
  <2>4. EndsAt(a, id, e)
    BY <1>1, <2>1, <2>2, <2>3 DEF EndsAt
  <2>. QED
    BY <1>1, <2>2, <2>4 DEF Ended
<1>. QED
  BY <1>3, <1>4, <1>5, <1>6 DEF a

\* The first of them, if only this one is sent.
LEMMA FirstFrame ==
    ASSUME NEW o \in Seq(Entry), o # <<>>, NEW id
    PROVE  /\ <<Head(o)>> \in Seq(Entry)
           /\ NoFrame(o, id) => NoFrame(<<Head(o)>>, id)
           /\ Unended(o, id) => Unended(<<Head(o)>>, id)
           /\ Ended(o, id) =>
                 Unended(<<Head(o)>>, id) \/ Ended(<<Head(o)>>, id)
<1>1. PICK p : p = <<Head(o)>>
  OBVIOUS
<1>2. /\ p \in Seq(Entry) /\ Len(p) = 1 /\ p[1] = o[1] /\ 1 \in 1 .. Len(o)
  BY <1>1
<1>3. NoFrame(o, id) => NoFrame(p, id)
  BY <1>2 DEF NoFrame
<1>4. Unended(o, id) => Unended(p, id)
  BY <1>2 DEF Unended
<1>5. Unended(p, id) \/ Ended(p, id)
  <2>1. SUFFICES ASSUME ~Unended(p, id) PROVE Ended(p, id)
    OBVIOUS
  <2>2. EndsAt(p, id, 1)
    BY <1>2, <2>1 DEF Unended, EndsAt
  <2>. QED
    BY <1>2, <2>2 DEF Ended
<1>. QED
  BY <1>1, <1>2, <1>3, <1>4, <1>5

\* What holds of the frames after the connection has ended.
Settled(s, t, id) == Unended(t, id) \/ (Ended(t, id) /\ ~Reads(s, id))

\* Without a frame there is no end.
LEMMA NoFrameUnended ==
    ASSUME NEW t, NEW id, NoFrame(t, id)
    PROVE  Unended(t, id) /\ ~Ended(t, id)
BY DEF NoFrame, Unended, Ended, EndsAt

\* The phase with the frames of the line in front.
LEMMA JoinedPhase ==
    ASSUME NEW s, NEW t \in Seq(Entry), NEW o \in Seq(Entry), NEW id
    PROVE  /\ NoFrame(t, id) /\ Quiet(s, o, id) => Quiet(s, t \o o, id)
           /\ Unended(t, id) =>
                 /\ Busy(s, o, id) => Busy(s, t \o o, id)
                 /\ Held(s, o, id) => Held(s, t \o o, id)
                 /\ Done(s, o, id) => Done(s, t \o o, id)
           /\ Ended(t, id) /\ Quiet(s, o, id) => Done(s, t \o o, id)
BY JoinedFrames DEF Quiet, Busy, Held, Done

\* The same when only the first frame is sent before the connection ends.
LEMMA JoinedSettled ==
    ASSUME NEW s, NEW t \in Seq(Entry), NEW o \in Seq(Entry), o # <<>>, NEW id
    PROVE  /\ NoFrame(t, id) /\ Quiet(s, o, id) =>
                 NoFrame(t \o <<Head(o)>>, id)
           /\ Unended(t, id)
              /\ (Quiet(s, o, id) \/ Busy(s, o, id) \/ Held(s, o, id)
                    \/ Done(s, o, id)) => Settled(s, t \o <<Head(o)>>, id)
           /\ Ended(t, id) /\ Quiet(s, o, id) =>
                 Settled(s, t \o <<Head(o)>>, id)
<1>1. PICK p : p = <<Head(o)>>
  OBVIOUS
<1>2. /\ p \in Seq(Entry) /\ (NoFrame(o, id) => NoFrame(p, id))
      /\ Unended(o, id) => Unended(p, id)
      /\ Ended(o, id) => Unended(p, id) \/ Ended(p, id)
  BY <1>1, FirstFrame
<1>3. /\ NoFrame(t, id) /\ NoFrame(p, id) => NoFrame(t \o p, id)
      /\ Unended(t, id) /\ Unended(p, id) => Unended(t \o p, id)
      /\ Unended(t, id) /\ Ended(p, id) => Ended(t \o p, id)
      /\ Ended(t, id) /\ NoFrame(p, id) => Ended(t \o p, id)
  BY <1>2, JoinedFrames
<1>4. NoFrame(o, id) => Unended(o, id)
  BY NoFrameUnended
<1>5. /\ NoFrame(t, id) /\ Quiet(s, o, id) => NoFrame(t \o p, id)
      /\ Unended(t, id)
         /\ (Quiet(s, o, id) \/ Busy(s, o, id) \/ Held(s, o, id)
                    \/ Done(s, o, id)) => Settled(s, t \o p, id)
      /\ Ended(t, id) /\ Quiet(s, o, id) => Settled(s, t \o p, id)
  BY <1>2, <1>3, <1>4 DEF Quiet, Busy, Held, Done, Settled
<1>. QED
  BY <1>1, <1>5

\* The state, when what it sends has been sent.
RpcSending == [subs : Subs, motor : [MotorIndex -> Octet],
               cassette : CassetteIndex \cup {NoCassette}, open : BOOLEAN,
               reading : {NotReading} \cup Loop, out : Seq(Entry)]

\* The state while it sends.
LEMMA Sending == Rpc \subseteq RpcSending
<1>. SUFFICES ASSUME NEW s \in Rpc PROVE s \in RpcSending
  OBVIOUS
<1>1. s.out \in Seq(Entry)
  BY OutEntries
<1>. QED
  BY <1>1 DEF Rpc, RpcSending

\* Everything has been sent.
Sent(s) == [s EXCEPT !.out = <<>>]

\* After it has sent.
LEMMA SentIs ==
    ASSUME NEW s \in RpcSending, NEW s2, s2 = Sent(s)
    PROVE  /\ s2 \in Rpc /\ s2.out = <<>> /\ s2.subs = s.subs
           /\ s2.reading = s.reading /\ s2.cassette = s.cassette
           /\ s2.open = s.open
           /\ \A id : SubFind(s2, id) = SubFind(s, id)
           /\ \A id : Reads(s2, id) <=> Reads(s, id)
<1>1. s2 = [s EXCEPT !.out = <<>>] /\ <<>> \in Seq(PlainEntry)
  BY DEF Sent
<1>2. /\ s2.out = <<>> /\ s2.subs = s.subs /\ s2.reading = s.reading
      /\ s2.cassette = s.cassette /\ s2.open = s.open
  BY <1>1 DEF RpcSending
<1>3. s2 \in Rpc
  <2>1. SUFFICES ASSUME NEW o \in Seq(PlainEntry)
                 PROVE  [s EXCEPT !.out = o] \in Rpc
    BY <1>1
  <2>. QED
    BY DEF RpcSending, Rpc
<1>. QED
  BY <1>2, <1>3 DEF SubFind, Reads

\* The phase depends on the frames that are on their way.
LEMMA SamePhase ==
    ASSUME NEW s \in RpcSending, NEW s2, s2 = Sent(s), NEW t, NEW id
    PROVE  /\ Quiet(s2, t, id) <=> Quiet(s, t, id)
           /\ Busy(s2, t, id) <=> Busy(s, t, id)
           /\ Held(s2, t, id) <=> Held(s, t, id)
           /\ Done(s2, t, id) <=> Done(s, t, id)
           /\ Settled(s2, t, id) <=> Settled(s, t, id)
BY SentIs DEF Quiet, Busy, Held, Done, Settled

\* What GoesOn comes to.
LEMMA GoingOn ==
    ASSUME toHost \in Seq(Entry), connected \in BOOLEAN, NEW s \in RpcSending,
           GoesOn(s)
    PROVE  /\ rpc' = Sent(s) /\ toHost' \in Seq(Entry)
           /\ connected' \in BOOLEAN
           /\ ~connected => ~connected' /\ toHost' = toHost
           /\ connected' => toHost' = toHost \o s.out
           /\ connected /\ ~connected' =>
                 s.out # <<>> /\ toHost' = toHost \o <<Head(s.out)>>
<1>1. s.out \in Seq(Entry)
  BY DEF RpcSending
<1>2. rpc' = Sent(s)
  BY DEF GoesOn, Sent
<1>3. CASE ~connected
  BY <1>2, <1>3 DEF GoesOn
<1>4. CASE connected /\ ~(late /\ s.out # <<>>)
  <2>1. toHost' = toHost \o s.out /\ connected'
    BY <1>4 DEF GoesOn
  <2>. QED
    BY <1>1, <1>2, <1>4, <2>1
<1>5. CASE connected /\ late /\ s.out # <<>>
  <2>1. toHost' = toHost \o <<Head(s.out)>> /\ ~connected'
    BY <1>5 DEF GoesOn
  <2>2. <<Head(s.out)>> \in Seq(Entry)
    BY <1>1, <1>5
  <2>3. connected' \in BOOLEAN
    BY DEF GoesOn
  <2>. QED
    BY <1>1, <1>2, <1>5, <2>1, <2>2, <2>3
<1>. QED
  BY <1>3, <1>4, <1>5

\* The phase after a step of the server task.
LEMMA AfterStep ==
    ASSUME toHost \in Seq(Entry), connected \in BOOLEAN, connected,
           NEW s \in RpcSending, GoesOn(s), NEW id
    PROVE  /\ connected' =>
              /\ NoFrame(toHost, id) /\ Quiet(s, s.out, id) =>
                    Quiet(rpc', toHost', id)
              /\ Unended(toHost, id) =>
                    /\ Busy(s, s.out, id) => Busy(rpc', toHost', id)
                    /\ Held(s, s.out, id) => Held(rpc', toHost', id)
                    /\ Done(s, s.out, id) => Done(rpc', toHost', id)
              /\ Ended(toHost, id) /\ Quiet(s, s.out, id) =>
                    Done(rpc', toHost', id)
           /\ ~connected' =>
              /\ NoFrame(toHost, id) /\ Quiet(s, s.out, id) =>
                    NoFrame(toHost', id)
              /\ Unended(toHost, id)
                 /\ (Quiet(s, s.out, id) \/ Busy(s, s.out, id)
                        \/ Held(s, s.out, id) \/ Done(s, s.out, id)) =>
                    Settled(rpc', toHost', id)
              /\ Ended(toHost, id) /\ Quiet(s, s.out, id) =>
                    Settled(rpc', toHost', id)
<1>1. s.out \in Seq(Entry)
  BY DEF RpcSending
<1>2. PICK s2, t : s2 = rpc' /\ t = toHost'
  OBVIOUS
<1>3. s2 = Sent(s)
  BY <1>2, GoingOn
<1>4. CASE connected'
  <2>1. t = toHost \o s.out
    BY <1>2, <1>4, GoingOn
  <2>2. /\ NoFrame(toHost, id) /\ Quiet(s, s.out, id) => Quiet(s, t, id)
        /\ Unended(toHost, id) =>
                 /\ Busy(s, s.out, id) => Busy(s, t, id)
                 /\ Held(s, s.out, id) => Held(s, t, id)
                 /\ Done(s, s.out, id) => Done(s, t, id)
        /\ Ended(toHost, id) /\ Quiet(s, s.out, id) => Done(s, t, id)
    BY <1>1, <2>1, JoinedPhase
  <2>3. /\ Quiet(s2, t, id) <=> Quiet(s, t, id)
        /\ Busy(s2, t, id) <=> Busy(s, t, id)
        /\ Held(s2, t, id) <=> Held(s, t, id)
        /\ Done(s2, t, id) <=> Done(s, t, id)
    BY <1>3, SamePhase
  <2>. QED
    BY <1>2, <1>4, <2>2, <2>3
<1>5. CASE ~connected'
  <2>1. s.out # <<>> /\ t = toHost \o <<Head(s.out)>>
    BY <1>2, <1>5, GoingOn
  <2>2. /\ NoFrame(toHost, id) /\ Quiet(s, s.out, id) => NoFrame(t, id)
        /\ Unended(toHost, id)
                 /\ (Quiet(s, s.out, id) \/ Busy(s, s.out, id)
                        \/ Held(s, s.out, id) \/ Done(s, s.out, id)) =>
                    Settled(s, t, id)
        /\ Ended(toHost, id) /\ Quiet(s, s.out, id) => Settled(s, t, id)
    BY <1>1, <2>1, JoinedSettled
  <2>3. Settled(s2, t, id) <=> Settled(s, t, id)
    BY <1>3, SamePhase
  <2>. QED
    BY <1>2, <1>5, <2>2, <2>3
<1>. QED
  BY <1>4, <1>5

-----------------------------------------------------------------------------
(* What is on its way to the robot.                                        *)

\* What the robot reads from a packet of the host.
HostMessage ==
    {Failed} \cup [op : {MESSAGES_OP_PING}, seq_id : Octet]
    \cup {m \in Message : m.op = MESSAGES_OP_INFO}
    \cup Asking \cup Subscribing \cup Unsubscribing \cup Writing

\* A packet on its way to the robot.
Request ==
    {e \in [packet : Seq(Octet), meant : HostMessage] :
        Deserialize(e.packet) = e.meant}

\* The messages that begin or end a request.
About(m, id) ==
    /\ m.op \in {MESSAGES_OP_READ, MESSAGES_OP_SUBSCRIBE,
                 MESSAGES_OP_UNSUBSCRIBE}
    /\ m.req_id = id

\* f says where in q the messages about id are, and ops what they ask for.
Positions(f, q, id, ops) ==
    /\ f \in [1 .. Len(ops) -> 1 .. Len(q)]
    /\ \A i, j \in 1 .. Len(ops) : i < j => f[i] < f[j]
    /\ \A i \in 1 .. Len(ops) :
          About(q[f[i]].meant, id) /\ q[f[i]].meant.op = ops[i]
    /\ \A k \in 1 .. Len(q) :
          About(q[k].meant, id) => \E i \in 1 .. Len(ops) : f[i] = k

\* ops are the operations of the messages about id in q, in order.
Asks(q, id, ops) == \E f : Positions(f, q, id, ops)

\* A line that is empty.
LEMMA AsksNothing ==
    ASSUME NEW id
    PROVE  Asks(<<>>, id, <<>>)
<1>1. PICK f : f = [i \in 1 .. 0 |-> 0]
  OBVIOUS
<1>2. Len(<<>>) = 0 /\ 1 .. 0 = {}
  OBVIOUS
<1>3. Positions(f, <<>>, id, <<>>)
  BY <1>1, <1>2 DEF Positions
<1>. QED
  BY <1>3 DEF Asks

\* A message that is not about id is sent.
LEMMA AsksStill ==
    ASSUME NEW q \in Seq(Request), NEW e \in Request, NEW id,
           NEW ops \in Seq(Nat), Asks(q, id, ops), ~About(e.meant, id)
    PROVE  Asks(Append(q, e), id, ops)
<1>1. PICK f : Positions(f, q, id, ops)
  BY DEF Asks
<1>2. PICK a : a = Append(q, e)
  OBVIOUS
<1>3. /\ Len(q) \in Nat /\ Len(a) = Len(q) + 1 /\ a[Len(q) + 1] = e
      /\ \A i \in 1 .. Len(q) : a[i] = q[i]
  BY <1>2, AppendProperties
<1>4. Positions(f, a, id, ops)
  <2>1. f \in [1 .. Len(ops) -> 1 .. Len(a)]
    BY <1>1, <1>3 DEF Positions
  <2>2. \A i \in 1 .. Len(ops) : a[f[i]] = q[f[i]]
    BY <1>1, <1>3 DEF Positions
  <2>3. \A k \in 1 .. Len(a) :
          About(a[k].meant, id) => \E i \in 1 .. Len(ops) : f[i] = k
    <3>1. \A k \in 1 .. Len(a) : k \in 1 .. Len(q) \/ k = Len(q) + 1
      BY <1>3
    <3>. QED
      BY <1>1, <1>3, <3>1 DEF Positions
  <2>. QED
    BY <1>1, <2>1, <2>2, <2>3 DEF Positions
<1>. QED
  BY <1>2, <1>4 DEF Asks

\* A message about id is sent.
LEMMA AsksMore ==
    ASSUME NEW q \in Seq(Request), NEW e \in Request, NEW id,
           NEW ops \in Seq(Nat), Asks(q, id, ops), About(e.meant, id),
           NEW more \in Seq(Nat), Len(more) = Len(ops) + 1,
           \A i \in 1 .. Len(ops) : more[i] = ops[i],
           more[Len(ops) + 1] = e.meant.op
    PROVE  Asks(Append(q, e), id, more)
<1>1. PICK f : Positions(f, q, id, ops)
  BY DEF Asks
<1>2. PICK a : a = Append(q, e)
  OBVIOUS
<1>3. /\ Len(q) \in Nat /\ Len(a) = Len(q) + 1 /\ a[Len(q) + 1] = e
      /\ \A i \in 1 .. Len(q) : a[i] = q[i]
  BY <1>2, AppendProperties
<1>4. PICK n \in Nat : n = Len(ops)
  OBVIOUS
<1>5. PICK g : g = [i \in 1 .. n + 1 |-> IF i = n + 1 THEN Len(q) + 1 ELSE f[i]]
  OBVIOUS
<1>6. /\ f \in [1 .. n -> 1 .. Len(q)]
      /\ \A i, j \in 1 .. n : i < j => f[i] < f[j]
      /\ \A i \in 1 .. n : About(q[f[i]].meant, id) /\ q[f[i]].meant.op = ops[i]
      /\ \A k \in 1 .. Len(q) :
            About(q[k].meant, id) => \E i \in 1 .. n : f[i] = k
  BY <1>1, <1>4 DEF Positions
<1>7. /\ \A i \in 1 .. n : i \in 1 .. n + 1 /\ g[i] = f[i]
      /\ g[n + 1] = Len(q) + 1 /\ n + 1 \in 1 .. n + 1
      /\ \A i \in 1 .. n + 1 : i \in 1 .. n \/ i = n + 1
  BY <1>5
<1>8. g \in [1 .. n + 1 -> 1 .. Len(a)]
  BY <1>3, <1>5, <1>6
<1>9. \A i, j \in 1 .. n + 1 : i < j => g[i] < g[j]
  <2>1. SUFFICES ASSUME NEW i \in 1 .. n + 1, NEW j \in 1 .. n + 1, i < j
                 PROVE  g[i] < g[j]
    OBVIOUS
  <2>2. i \in 1 .. n
    BY <2>1
  <2>3. CASE j \in 1 .. n
    BY <1>6, <1>7, <2>1, <2>2, <2>3
  <2>4. CASE j = n + 1
    <3>1. g[i] = f[i] /\ f[i] \in 1 .. Len(q)
      BY <1>6, <1>7, <2>2
    <3>. QED
      BY <1>3, <1>7, <2>4, <3>1
  <2>. QED
    BY <1>7, <2>3, <2>4
<1>10. \A i \in 1 .. n + 1 :
          About(a[g[i]].meant, id) /\ a[g[i]].meant.op = more[i]
  <2>1. SUFFICES ASSUME NEW i \in 1 .. n + 1
                 PROVE  About(a[g[i]].meant, id) /\ a[g[i]].meant.op = more[i]
    OBVIOUS
  <2>2. CASE i \in 1 .. n
    <3>1. g[i] = f[i] /\ f[i] \in 1 .. Len(q) /\ a[f[i]] = q[f[i]]
      BY <1>3, <1>6, <1>7, <2>2
    <3>. QED
      BY <1>4, <1>6, <2>2, <3>1
  <2>3. CASE i = n + 1
    BY <1>3, <1>4, <1>7, <2>3
  <2>. QED
    BY <1>7, <2>2, <2>3
<1>11. \A k \in 1 .. Len(a) :
          About(a[k].meant, id) => \E i \in 1 .. n + 1 : g[i] = k
  <2>1. SUFFICES ASSUME NEW k \in 1 .. Len(a), About(a[k].meant, id)
                 PROVE  \E i \in 1 .. n + 1 : g[i] = k
    OBVIOUS
  <2>2. CASE k \in 1 .. Len(q)
    <3>1. PICK i \in 1 .. n : f[i] = k
      BY <1>3, <1>6, <2>1, <2>2
    <3>. QED
      BY <1>7, <3>1
  <2>3. CASE k = Len(q) + 1
    BY <1>7, <2>3
  <2>. QED
    BY <1>3, <2>2, <2>3
<1>12. Positions(g, a, id, more)
  BY <1>4, <1>8, <1>9, <1>10, <1>11 DEF Positions
<1>. QED
  BY <1>2, <1>12 DEF Asks

\* The rest of a line.
LEMMA TailIs ==
    ASSUME NEW S, NEW q \in Seq(S), q # <<>>, NEW t, t = Tail(q)
    PROVE  /\ Len(q) \in Nat \ {0} /\ t \in Seq(S) /\ Len(t) = Len(q) - 1
           /\ \A i \in 1 .. Len(q) - 1 : t[i] = q[i + 1]
           /\ Head(q) = q[1] /\ q[1] \in S
BY HeadTailProperties

\* A message that is not about id is received.
LEMMA AsksTail ==
    ASSUME NEW q \in Seq(Request), q # <<>>, NEW id, NEW ops \in Seq(Nat),
           Asks(q, id, ops), ~About(Head(q).meant, id)
    PROVE  Asks(Tail(q), id, ops)
<1>1. PICK f : Positions(f, q, id, ops)
  BY DEF Asks
<1>2. PICK t : t = Tail(q)
  OBVIOUS
<1>3. /\ Len(q) \in Nat \ {0} /\ Len(t) = Len(q) - 1 /\ Head(q) = q[1]
      /\ \A i \in 1 .. Len(q) - 1 : t[i] = q[i + 1]
  BY <1>2, TailIs
<1>4. PICK n \in Nat : n = Len(ops)
  OBVIOUS
<1>5. /\ f \in [1 .. n -> 1 .. Len(q)]
      /\ \A i, j \in 1 .. n : i < j => f[i] < f[j]
      /\ \A i \in 1 .. n : About(q[f[i]].meant, id) /\ q[f[i]].meant.op = ops[i]
      /\ \A k \in 1 .. Len(q) :
            About(q[k].meant, id) => \E i \in 1 .. n : f[i] = k
  BY <1>1, <1>4 DEF Positions
<1>6. PICK g : g = [i \in 1 .. n |-> f[i] - 1]
  OBVIOUS
<1>7. ASSUME NEW i \in 1 .. n
      PROVE  /\ g[i] = f[i] - 1 /\ g[i] \in 1 .. Len(t) /\ t[g[i]] = q[f[i]]
             /\ f[i] \in 1 .. Len(q)
  <2>1. f[i] \in 1 .. Len(q) /\ f[i] # 1
    BY <1>3, <1>5
  <2>2. g[i] = f[i] - 1
    BY <1>6
  <2>3. g[i] \in 1 .. Len(q) - 1 /\ g[i] + 1 = f[i]
    BY <1>3, <2>1, <2>2
  <2>. QED
    BY <1>3, <2>1, <2>2, <2>3
<1>8. g \in [1 .. n -> 1 .. Len(t)]
  <2>1. \A i \in 1 .. n : f[i] - 1 \in 1 .. Len(t)
    BY <1>7
  <2>. QED
    BY <1>6, <2>1
<1>9. \A i, j \in 1 .. n : i < j => g[i] < g[j]
  <2>1. SUFFICES ASSUME NEW i \in 1 .. n, NEW j \in 1 .. n, i < j
                 PROVE  g[i] < g[j]
    OBVIOUS
  <2>2. f[i] < f[j] /\ f[i] \in Int /\ f[j] \in Int
    BY <1>5, <1>7, <2>1
  <2>. QED
    BY <1>7, <2>2
<1>10. \A k \in 1 .. Len(t) :
          About(t[k].meant, id) => \E i \in 1 .. n : g[i] = k
  <2>1. SUFFICES ASSUME NEW k \in 1 .. Len(t), About(t[k].meant, id)
                 PROVE  \E i \in 1 .. n : g[i] = k
    OBVIOUS
  <2>2. k + 1 \in 1 .. Len(q) /\ t[k] = q[k + 1]
    BY <1>3
  <2>3. PICK i \in 1 .. n : f[i] = k + 1
    BY <1>5, <2>1, <2>2
  <2>4. g[i] = f[i] - 1 /\ k \in Int
    BY <1>7, <2>3
  <2>5. g[i] = k
    BY <2>3, <2>4
  <2>. QED
    BY <2>5
<1>11. Positions(g, t, id, ops)
  BY <1>4, <1>5, <1>7, <1>8, <1>9, <1>10 DEF Positions
<1>. QED
  BY <1>2, <1>11 DEF Asks

\* A message about id is received: the first of them.
LEMMA AsksFirst ==
    ASSUME NEW q \in Seq(Request), q # <<>>, NEW id, NEW ops \in Seq(Nat),
           Asks(q, id, ops), About(Head(q).meant, id)
    PROVE  /\ ops # <<>> /\ Head(q).meant.op = ops[1]
           /\ \A rest \in Seq(Nat) :
                 /\ Len(rest) = Len(ops) - 1
                 /\ \A i \in 1 .. Len(ops) - 1 : rest[i] = ops[i + 1]
                 => Asks(Tail(q), id, rest)
<1>1. PICK f : Positions(f, q, id, ops)
  BY DEF Asks
<1>2. PICK t : t = Tail(q)
  OBVIOUS
<1>3. /\ Len(q) \in Nat \ {0} /\ Len(t) = Len(q) - 1 /\ Head(q) = q[1]
      /\ \A i \in 1 .. Len(q) - 1 : t[i] = q[i + 1]
  BY <1>2, TailIs
<1>4. PICK n \in Nat : n = Len(ops)
  OBVIOUS
<1>5. /\ f \in [1 .. n -> 1 .. Len(q)]
      /\ \A i, j \in 1 .. n : i < j => f[i] < f[j]
      /\ \A i \in 1 .. n : About(q[f[i]].meant, id) /\ q[f[i]].meant.op = ops[i]
      /\ \A k \in 1 .. Len(q) :
            About(q[k].meant, id) => \E i \in 1 .. n : f[i] = k
  BY <1>1, <1>4 DEF Positions
<1>6. n >= 1 /\ f[1] = 1
  <2>1. PICK i \in 1 .. n : f[i] = 1
    BY <1>3, <1>5
  <2>2. i = 1
    <3>1. SUFFICES ASSUME i # 1 PROVE FALSE
      OBVIOUS
    <3>2. 1 \in 1 .. n /\ 1 < i /\ f[1] \in 1 .. Len(q)
      BY <1>5, <3>1
    <3>3. f[1] < f[i]
      BY <1>5, <3>2
    <3>. QED
      BY <2>1, <3>2, <3>3
  <2>. QED
    BY <2>1, <2>2
<1>7. ops # <<>> /\ Head(q).meant.op = ops[1]
  BY <1>3, <1>4, <1>5, <1>6
<1>8. ASSUME NEW rest \in Seq(Nat), Len(rest) = Len(ops) - 1,
             \A i \in 1 .. Len(ops) - 1 : rest[i] = ops[i + 1]
      PROVE  Asks(t, id, rest)
  <2>1. PICK g : g = [i \in 1 .. n - 1 |-> f[i + 1] - 1]
    OBVIOUS
  <2>2. ASSUME NEW i \in 1 .. n - 1
        PROVE  /\ i + 1 \in 1 .. n /\ g[i] = f[i + 1] - 1
               /\ f[i + 1] \in 2 .. Len(q)
               /\ g[i] \in 1 .. Len(t) /\ t[g[i]] = q[f[i + 1]]
    <3>1. i + 1 \in 1 .. n /\ 1 \in 1 .. n /\ 1 < i + 1
      BY <1>4
    <3>2. f[i + 1] \in 1 .. Len(q) /\ f[1] < f[i + 1]
      BY <1>5, <3>1
    <3>3. g[i] = f[i + 1] - 1
      BY <2>1
    <3>4. PICK p : p = f[i + 1]
      OBVIOUS
    <3>5. p \in 1 .. Len(q) /\ 1 < p
      BY <1>6, <3>2, <3>4
    <3>6. p \in 2 .. Len(q) /\ p - 1 \in 1 .. Len(q) - 1 /\ (p - 1) + 1 = p
      BY <1>3, <3>5
    <3>7. t[p - 1] = q[p]
      BY <1>3, <3>6
    <3>. QED
      BY <1>3, <3>1, <3>3, <3>4, <3>6, <3>7
  <2>3. g \in [1 .. n - 1 -> 1 .. Len(t)]
    <3>1. \A i \in 1 .. n - 1 : f[i + 1] - 1 \in 1 .. Len(t)
      BY <2>2
    <3>. QED
      BY <2>1, <3>1
  <2>4. \A i, j \in 1 .. n - 1 : i < j => g[i] < g[j]
    <3>1. SUFFICES ASSUME NEW i \in 1 .. n - 1, NEW j \in 1 .. n - 1, i < j
                   PROVE  g[i] < g[j]
      OBVIOUS
    <3>5. i + 1 \in 1 .. n /\ j + 1 \in 1 .. n /\ i + 1 < j + 1
      BY <1>4, <3>1
    <3>6. f[i + 1] \in 2 .. Len(q) /\ f[j + 1] \in 2 .. Len(q)
      BY <2>2
    <3>7. f[i + 1] \in Int /\ f[j + 1] \in Int
      BY <1>3, <3>6
    <3>2. /\ i + 1 \in 1 .. n /\ j + 1 \in 1 .. n /\ i + 1 < j + 1
          /\ f[i + 1] \in Int /\ f[j + 1] \in Int
      BY <3>5, <3>7
    <3>3. f[i + 1] < f[j + 1]
      BY <1>5, <3>2
    <3>4. g[i] = f[i + 1] - 1 /\ g[j] = f[j + 1] - 1
      BY <2>2
    <3>. QED
      BY <3>2, <3>3, <3>4
  <2>5. \A i \in 1 .. n - 1 :
          About(t[g[i]].meant, id) /\ t[g[i]].meant.op = rest[i]
    <3>1. SUFFICES ASSUME NEW i \in 1 .. n - 1
                   PROVE  /\ About(t[g[i]].meant, id)
                          /\ t[g[i]].meant.op = rest[i]
      OBVIOUS
    <3>2. t[g[i]] = q[f[i + 1]] /\ i + 1 \in 1 .. n
      BY <2>2
    <3>3. rest[i] = ops[i + 1]
      BY <1>4, <1>8
    <3>4. About(q[f[i + 1]].meant, id) /\ q[f[i + 1]].meant.op = ops[i + 1]
      BY <1>5, <3>2
    <3>. QED
      BY <3>2, <3>3, <3>4
  <2>6. \A k \in 1 .. Len(t) :
          About(t[k].meant, id) => \E i \in 1 .. n - 1 : g[i] = k
    <3>1. SUFFICES ASSUME NEW k \in 1 .. Len(t), About(t[k].meant, id)
                   PROVE  \E i \in 1 .. n - 1 : g[i] = k
      OBVIOUS
    <3>2. k + 1 \in 1 .. Len(q) /\ t[k] = q[k + 1] /\ k + 1 # 1
      BY <1>3
    <3>3. PICK i \in 1 .. n : f[i] = k + 1
      BY <1>5, <3>1, <3>2
    <3>4. i # 1
      BY <1>6, <3>2, <3>3
    <3>5. i - 1 \in 1 .. n - 1 /\ (i - 1) + 1 = i
      BY <3>4
    <3>6. g[i - 1] = f[i] - 1
      BY <2>2, <3>5
    <3>. QED
      BY <3>3, <3>5, <3>6
  <2>7. Positions(g, t, id, rest)
    <3>1. Len(rest) = n - 1
      BY <1>4, <1>8
    <3>. QED
      BY <2>3, <2>4, <2>5, <2>6, <3>1 DEF Positions
  <2>. QED
    BY <2>7 DEF Asks
<1>. QED
  BY <1>2, <1>7, <1>8

-----------------------------------------------------------------------------
(* A message of the host is handled.                                       *)

\* The files.
FileTypes == [CassetteIndex -> Seq(Octet) \cup {Absent}]

\* A file is open while a cassette is.
Tidied(s2, f2) ==
    /\ s2 \in Rpc /\ f2 \in FileTypes
    /\ s2.open <=> s2.cassette # NoCassette
    /\ s2.cassette # NoCassette => f2[s2.cassette] \in Seq(Octet)

\* What a message does: to the request it is about, and to no other.
Received(s, s2, m) ==
    /\ s2.reading = NotReading \/ (m \in Asking /\ Begins(s, s2, m))
    /\ \A id \in ReqId : ~About(m, id) => Keeps(s, s2, id)
    /\ \A id \in ReqId : About(m, id) =>
          /\ m.op = MESSAGES_OP_READ /\ Quiet(s, s.out, id) =>
                Busy(s2, s2.out, id) \/ Done(s2, s2.out, id)
          /\ m.op = MESSAGES_OP_SUBSCRIBE /\ Quiet(s, s.out, id) =>
                Held(s2, s2.out, id) \/ Done(s2, s2.out, id)
          /\ m.op = MESSAGES_OP_UNSUBSCRIBE /\ Held(s, s.out, id) =>
                Done(s2, s2.out, id)

\* Nothing happens.
LEMMA KeepsItself ==
    ASSUME NEW s, NEW id
    PROVE  Keeps(s, s, id)
BY DEF Keeps, Holds

\* Neither cassette nor file changes.
LEMMA Untouched ==
    ASSUME WorldType, NEW s \in Rpc, OpenFile(s), s.reading = NotReading,
           NEW s2, Calm(s, s2)
    PROVE  Tidied(s2, files) /\ s2.reading = NotReading
BY DEF Tidied, WorldType, OpenFile, Calm, FileTypes

\* A READ, a SUBSCRIBE, an UNSUBSCRIBE, a WRITE, or another message.
LEMMA RecvReads ==
    ASSUME WorldType, NEW s \in Rpc, OpenFile(s), s.reading = NotReading,
           NEW m \in Asking, NEW s2, s2 = RecvRead(s, m)
    PROVE  Tidied(s2, files) /\ Received(s, s2, m)
<1>1. PICK q : q = m.req_id
  OBVIOUS
<1>2. m.op = MESSAGES_OP_READ
  BY AskingFields
<1>3. /\ s2 \in Rpc /\ s2.cassette = s.cassette /\ s2.open = s.open
      /\ \A id \in ReqId \ {q} : Keeps(s, s2, id)
      /\ Quiet(s, s.out, q) => Busy(s2, s2.out, q) \/ Done(s2, s2.out, q)
      /\ s2.reading = NotReading \/ Begins(s, s2, m)
  BY <1>1, ReadPhase
<1>4. Tidied(s2, files)
  BY <1>3 DEF Tidied, WorldType, OpenFile, FileTypes
<1>5. \A id : About(m, id) <=> q = id
  BY <1>1, <1>2 DEF About
<1>6. MESSAGES_OP_READ # MESSAGES_OP_SUBSCRIBE
      /\ MESSAGES_OP_READ # MESSAGES_OP_UNSUBSCRIBE
  BY DEF MESSAGES_OP_READ, MESSAGES_OP_SUBSCRIBE, MESSAGES_OP_UNSUBSCRIBE
<1>7. Received(s, s2, m)
  BY <1>2, <1>3, <1>5, <1>6 DEF Received
<1>. QED
  BY <1>4, <1>7

LEMMA RecvSubscribes ==
    ASSUME WorldType, NEW s \in Rpc, OpenFile(s), s.reading = NotReading,
           NEW m \in Subscribing, NEW s2, s2 = RecvSubscribe(s, m)
    PROVE  Tidied(s2, files) /\ Received(s, s2, m)
<1>1. PICK q : q = m.req_id
  OBVIOUS
<1>2. m.op = MESSAGES_OP_SUBSCRIBE
  BY DEF Subscribing
<1>3. /\ Others(s, s2, q)
      /\ Quiet(s, s.out, q) => Held(s2, s2.out, q) \/ Done(s2, s2.out, q)
  BY <1>1, SubscribePhase
<1>4. Calm(s, s2) /\ \A id \in ReqId \ {q} : Keeps(s, s2, id)
  BY <1>3 DEF Others
<1>5. Tidied(s2, files) /\ s2.reading = NotReading
  BY <1>4, Untouched
<1>6. \A id : About(m, id) <=> q = id
  BY <1>1, <1>2 DEF About
<1>7. MESSAGES_OP_READ # MESSAGES_OP_SUBSCRIBE
      /\ MESSAGES_OP_SUBSCRIBE # MESSAGES_OP_UNSUBSCRIBE
  BY DEF MESSAGES_OP_READ, MESSAGES_OP_SUBSCRIBE, MESSAGES_OP_UNSUBSCRIBE
<1>8. Received(s, s2, m)
  BY <1>2, <1>3, <1>4, <1>5, <1>6, <1>7 DEF Received
<1>. QED
  BY <1>5, <1>8

LEMMA RecvUnsubscribes ==
    ASSUME WorldType, NEW s \in Rpc, OpenFile(s), s.reading = NotReading,
           NEW m \in Unsubscribing, NEW s2, s2 = RecvUnsubscribe(s, m)
    PROVE  Tidied(s2, files) /\ Received(s, s2, m)
<1>1. PICK q : q = m.req_id
  OBVIOUS
<1>2. m.op = MESSAGES_OP_UNSUBSCRIBE
  BY DEF Unsubscribing
<1>3. /\ Others(s, s2, q)
      /\ Held(s, s.out, q) => Done(s2, s2.out, q)
  BY <1>1, UnsubscribePhase
<1>4. Calm(s, s2) /\ \A id \in ReqId \ {q} : Keeps(s, s2, id)
  BY <1>3 DEF Others
<1>5. Tidied(s2, files) /\ s2.reading = NotReading
  BY <1>4, Untouched
<1>6. \A id : About(m, id) <=> q = id
  BY <1>1, <1>2 DEF About
<1>7. MESSAGES_OP_READ # MESSAGES_OP_UNSUBSCRIBE
      /\ MESSAGES_OP_SUBSCRIBE # MESSAGES_OP_UNSUBSCRIBE
  BY DEF MESSAGES_OP_READ, MESSAGES_OP_SUBSCRIBE, MESSAGES_OP_UNSUBSCRIBE
<1>8. Received(s, s2, m)
  BY <1>2, <1>3, <1>4, <1>5, <1>6, <1>7 DEF Received
<1>. QED
  BY <1>5, <1>8

LEMMA RecvWrites ==
    ASSUME WorldType, NEW s \in Rpc, OpenFile(s), s.reading = NotReading,
           NEW m \in Writing, NEW succeeds \in BOOLEAN,
           NEW s2, s2 = RecvWrite(s, m, succeeds),
           NEW f2, f2 = IF m.topic = CASSETTE THEN FilesAfter(s, m, succeeds)
                                              ELSE files
    PROVE  Tidied(s2, f2) /\ Received(s, s2, m)
<1>1. Writes(s, s2, f2)
  BY WriteIs
<1>2. Tidied(s2, f2) /\ s2.reading = NotReading
      /\ \A id \in ReqId : Keeps(s, s2, id)
  BY <1>1 DEF Writes, Tidied, FileTypes
<1>3. m.op = MESSAGES_OP_WRITE
  BY WritingFields
<1>4. \A id : ~About(m, id)
  BY <1>3 DEF About, MESSAGES_OP_READ, MESSAGES_OP_SUBSCRIBE,
              MESSAGES_OP_UNSUBSCRIBE, MESSAGES_OP_WRITE
<1>. QED
  BY <1>2, <1>4 DEF Received

LEMMA RecvOthers ==
    ASSUME WorldType, NEW s \in Rpc, OpenFile(s), s.reading = NotReading,
           NEW m, NEW s2,
           m.op \notin {MESSAGES_OP_READ, MESSAGES_OP_SUBSCRIBE,
                        MESSAGES_OP_UNSUBSCRIBE},
           \/ s2 = s
           \/ m.seq_id \in Octet /\ s2 = Send(s, PongFrame(m.seq_id))
    PROVE  Tidied(s2, files) /\ Received(s, s2, m)
<1>1. Calm(s, s2) /\ \A id \in ReqId : Keeps(s, s2, id)
  <2>1. CASE s2 = s
    BY <2>1, KeepsItself DEF Calm
  <2>2. CASE m.seq_id \in Octet /\ s2 = Send(s, PongFrame(m.seq_id))
    <3>1. PICK n \in Octet : n = m.seq_id
      BY <2>2
    <3>. QED
      BY <2>2, <3>1, PongIs
  <2>. QED
    BY <2>1, <2>2
<1>2. Tidied(s2, files) /\ s2.reading = NotReading
  BY <1>1, Untouched
<1>3. \A id : ~About(m, id)
  BY DEF About
<1>. QED
  BY <1>1, <1>2, <1>3 DEF Received

\* rpcRecv handles any message a host sends.
LEMMA RecvIs ==
    ASSUME WorldType, NEW s \in Rpc, OpenFile(s), s.reading = NotReading,
           NEW m \in HostMessage, NEW succeeds \in BOOLEAN,
           NEW s2, s2 = Recv(s, m, succeeds),
           NEW f2, f2 = IF m.op = MESSAGES_OP_WRITE /\ m.topic = CASSETTE
                        THEN FilesAfter(s, m, succeeds) ELSE files
    PROVE  Tidied(s2, f2) /\ Received(s, s2, m)
<1>1. CASE m \in Asking
  <2>1. m.op = MESSAGES_OP_READ
    BY <1>1, AskingFields
  <2>2. s2 = RecvRead(s, m) /\ f2 = files
    BY <2>1 DEF Recv, MESSAGES_OP_PING, MESSAGES_OP_READ, MESSAGES_OP_WRITE,
                MESSAGES_OP_SUBSCRIBE, MESSAGES_OP_UNSUBSCRIBE
  <2>. QED
    BY <1>1, <2>2, RecvReads
<1>2. CASE m \in Subscribing
  <2>1. m.op = MESSAGES_OP_SUBSCRIBE
    BY <1>2 DEF Subscribing
  <2>2. s2 = RecvSubscribe(s, m) /\ f2 = files
    BY <2>1 DEF Recv, MESSAGES_OP_PING, MESSAGES_OP_READ, MESSAGES_OP_WRITE,
                MESSAGES_OP_SUBSCRIBE, MESSAGES_OP_UNSUBSCRIBE
  <2>. QED
    BY <1>2, <2>2, RecvSubscribes
<1>3. CASE m \in Unsubscribing
  <2>1. m.op = MESSAGES_OP_UNSUBSCRIBE
    BY <1>3 DEF Unsubscribing
  <2>2. s2 = RecvUnsubscribe(s, m) /\ f2 = files
    BY <2>1 DEF Recv, MESSAGES_OP_PING, MESSAGES_OP_READ, MESSAGES_OP_WRITE,
                MESSAGES_OP_SUBSCRIBE, MESSAGES_OP_UNSUBSCRIBE
  <2>. QED
    BY <1>3, <2>2, RecvUnsubscribes
<1>4. CASE m \in Writing
  <2>1. m.op = MESSAGES_OP_WRITE
    BY <1>4, WritingFields
  <2>2. /\ s2 = RecvWrite(s, m, succeeds)
        /\ f2 = IF m.topic = CASSETTE THEN FilesAfter(s, m, succeeds)
                                      ELSE files
    BY <2>1 DEF Recv, MESSAGES_OP_PING, MESSAGES_OP_READ, MESSAGES_OP_WRITE,
                MESSAGES_OP_SUBSCRIBE, MESSAGES_OP_UNSUBSCRIBE
  <2>. QED
    BY <1>4, <2>2, RecvWrites
<1>5. CASE \/ m = Failed
           \/ m \in [op : {MESSAGES_OP_PING}, seq_id : Octet]
           \/ m \in {i \in Message : i.op = MESSAGES_OP_INFO}
  <2>1. \/ m.op = MESSAGES_OP_PING /\ m.seq_id \in Octet
        \/ m.op \in {0, MESSAGES_OP_INFO}
    BY <1>5 DEF Failed
  <2>2. \/ s2 = s
        \/ m.seq_id \in Octet /\ s2 = Send(s, PongFrame(m.seq_id))
    BY <2>1 DEF Recv, MESSAGES_OP_PING, MESSAGES_OP_READ, MESSAGES_OP_WRITE,
                MESSAGES_OP_SUBSCRIBE, MESSAGES_OP_UNSUBSCRIBE,
                MESSAGES_OP_INFO
  <2>3. /\ f2 = files
        /\ m.op \notin {MESSAGES_OP_READ, MESSAGES_OP_SUBSCRIBE,
                        MESSAGES_OP_UNSUBSCRIBE}
    BY <2>1 DEF MESSAGES_OP_PING, MESSAGES_OP_READ, MESSAGES_OP_WRITE,
                MESSAGES_OP_SUBSCRIBE, MESSAGES_OP_UNSUBSCRIBE,
                MESSAGES_OP_INFO
  <2>. QED
    BY <2>2, <2>3, RecvOthers
<1>. QED
  BY <1>1, <1>2, <1>3, <1>4, <1>5 DEF HostMessage

-----------------------------------------------------------------------------
(* The types of everything.                                                *)

\* The loop is within the file.
Progress(r) ==
    /\ files[r.file] \in Seq(Octet) /\ r.rlen <= Len(files[r.file])
    /\ Len(r.tmp) < ChunkSize

\* The types of the robot, and of what is on its way from it.
RobotTyped ==
    /\ WorldType
    /\ rpc \in Rpc /\ rpc.out = <<>> /\ OpenFile(rpc)
    /\ rpc.reading # NotReading => Progress(rpc.reading)
    /\ connected \in BOOLEAN
    /\ toHost \in Seq(Entry)

\* The types of the host, and of what is on its way from it.
HostState == {"free", "reading", "subscribed", "cancelling"}

HostTyped ==
    /\ toRobot \in Seq(Request)
    /\ host \in [ReqId -> HostState]
    /\ tape \in [ReqId -> [got : Seq(Octet), recorded : Seq(Octet)]]
    /\ spoiled \subseteq ReqId

-----------------------------------------------------------------------------
(* The loop that reads a cassette.                                         *)

\* Some octets of the file.
Piece(m, r, v) ==
    /\ m \in DataMessage
    /\ m.req_id = r.read.req_id /\ m.topic = CASSETTE /\ m.flag = 0
    /\ m.value = v

\* How many there were.
Length(m, r) ==
    /\ m \in DataMessage
    /\ m.req_id = r.read.req_id /\ m.topic = CASSETTE /\ m.flag = 1
    /\ m.value = LongOctets(r.rlen)

\* Nothing but the loop changes.
Same(s, s2) ==
    s2.subs = s.subs /\ s2.cassette = s.cassette /\ s2.open = s.open

\* The octet that fgetc returns.
OctetRead(r) == files[r.file][r.rlen + 1]

\* It goes to tmp, which is sent when it is full.
TakesOctet(s, r) ==
    /\ Same(rpc, s) /\ s.reading \in Loop
    /\ s.reading.read = r.read /\ s.reading.file = r.file
    /\ s.reading.rlen = r.rlen + 1
    /\ \/ /\ s.reading.tmp = Append(r.tmp, OctetRead(r)) /\ s.out = <<>>
          /\ Len(s.reading.tmp) < ChunkSize
       \/ /\ s.reading.tmp = <<>>
          /\ \E e \in Entry : s.out = <<e>>
                /\ Piece(e.meant, r, Append(r.tmp, OctetRead(r)))

\* What is left in tmp is sent, then the length.
TakesEnd(s, r) ==
    /\ Same(rpc, s) /\ s.reading = NotReading
    /\ \/ /\ r.tmp = <<>>
          /\ \E l \in Entry : s.out = <<l>> /\ Length(l.meant, r)
       \/ \E p, l \in Entry :
             /\ s.out = <<p, l>>
             /\ Piece(p.meant, r, r.tmp) /\ Length(l.meant, r)

\* The state with another loop.
SetReading(s, r) == [s EXCEPT !.reading = r]

\* The loop goes on or ends.
LEMMA ReadingSet ==
    ASSUME NEW s \in Rpc, NEW r \in {NotReading} \cup Loop,
           NEW s2, s2 = SetReading(s, r)
    PROVE  s2 \in Rpc /\ s2 \in RpcSending /\ Same(s, s2) /\ s2.reading = r
           /\ s2.out = s.out
BY Sending DEF SetReading, Rpc, Same

\* One more frame.
LEMMA SendingOne ==
    ASSUME NEW s \in RpcSending, NEW e \in Entry, NEW s2, s2 = Added(s, e)
    PROVE  /\ s2 \in RpcSending /\ Same(s, s2) /\ s2.reading = s.reading
           /\ s2.out = Append(s.out, e)
<1>1. PICK o : o = Append(s.out, e)
  OBVIOUS
<1>2. o \in Seq(Entry)
  BY <1>1 DEF RpcSending
<1>3. s2 = [s EXCEPT !.out = o]
  BY <1>1 DEF Added, RpcSending
<1>. QED
  BY <1>1, <1>2, <1>3 DEF RpcSending, Same

\* Octets of the file are sent, and their number at the end.
LEMMA PieceSent ==
    ASSUME NEW s \in RpcSending, NEW r \in Loop, NEW v \in Sendable,
           NEW s2, s2 = SendData(s, r.read.req_id, r.read.topic,
                                 r.read.subtopic, 0, v)
    PROVE  \E e \in Entry : s2 = Added(s, e) /\ Piece(e.meant, r, v)
<1>1. PICK q \in ReqId : q = r.read.req_id
  BY DEF Loop, Asking
<1>2. r.read.topic = CASSETTE /\ r.read.subtopic = r.file
      /\ r.file \in CassetteIndex
  BY DEF Loop
<1>3. PICK f \in Octet : f = r.file
  BY <1>2, Named
<1>4. CASSETTE \in Octet /\ 0 \in Octet /\ q \in Short
  BY Named, ReqIdShort
<1>5. PICK m : m = DataFrame(q, CASSETTE, f, 0, 0, v)
  OBVIOUS
<1>6. /\ m \in DataMessage /\ m \in Message /\ m.req_id = q
      /\ m.topic = CASSETTE /\ m.flag = 0 /\ m.value = v
      /\ GetSizeOf(m) <= SFP_CONFIG_MAX_PACKET_SIZE
  BY <1>4, <1>5, DataIs
<1>7. s2 = Added(s, Whole(m))
  BY <1>1, <1>2, <1>3, <1>4, <1>5, SendDataIs
<1>8. m \in Frame
  BY <1>6 DEF Frame
<1>9. Whole(m) \in Entry /\ Whole(m).meant = m
  BY <1>6, <1>8, EntryIs, WholeIs
<1>10. Piece(m, r, v)
  BY <1>1, <1>6 DEF Piece
<1>. QED
  BY <1>7, <1>9, <1>10

LEMMA LengthSent ==
    ASSUME NEW s \in RpcSending, NEW r \in Loop,
           NEW s2, s2 = SendRep(s, r.read, LongOctets(r.rlen))
    PROVE  \E e \in Entry : s2 = Added(s, e) /\ Length(e.meant, r)
<1>1. PICK q \in ReqId : q = r.read.req_id
  BY DEF Loop, Asking
<1>2. r.read.topic = CASSETTE /\ r.read.subtopic = r.file
      /\ r.file \in CassetteIndex /\ r.rlen \in Nat
  BY DEF Loop
<1>3. PICK f \in Octet : f = r.file
  BY <1>2, Named
<1>4. PICK v \in Sendable : v = LongOctets(r.rlen)
  BY <1>2, LengthSendable
<1>5. PICK fl \in Octet : fl = 1
  BY Named
<1>6. CASSETTE \in Octet /\ q \in Short
  BY Named, ReqIdShort
<1>7. PICK m : m = DataFrame(q, CASSETTE, f, fl, 0, v)
  OBVIOUS
<1>8. /\ m \in DataMessage /\ m \in Message /\ m.req_id = q
      /\ m.topic = CASSETTE /\ m.flag = 1 /\ m.value = v
      /\ GetSizeOf(m) <= SFP_CONFIG_MAX_PACKET_SIZE
  BY <1>5, <1>6, <1>7, DataIs
<1>9. s2 = SendData(s, q, CASSETTE, f, fl, v)
  BY <1>1, <1>2, <1>3, <1>4, <1>5, Flags DEF SendRep
<1>10. s2 = Added(s, Whole(m))
  BY <1>6, <1>7, <1>9, SendDataIs
<1>11. m \in Frame
  BY <1>8 DEF Frame
<1>12. Whole(m) \in Entry /\ Whole(m).meant = m
  BY <1>8, <1>11, EntryIs, WholeIs
<1>13. Length(m, r)
  BY <1>1, <1>4, <1>8 DEF Length
<1>. QED
  BY <1>10, <1>12, <1>13

\* The fields of the loop.
LEMMA LoopFields ==
    ASSUME RobotTyped, rpc.reading # NotReading
    PROVE  /\ rpc.reading \in Loop /\ Progress(rpc.reading)
           /\ rpc.reading.file \in CassetteIndex
           /\ rpc.reading.rlen \in Nat /\ rpc.reading.tmp \in Seq(Octet)
           /\ rpc.reading.read \in Asking
           /\ rpc.reading.read.topic = CASSETTE
           /\ rpc.reading.read.subtopic = rpc.reading.file
           /\ rpc.reading.read.req_id \in ReqId
BY DEF RobotTyped, Rpc, Loop, Asking

\* As many octets as tmp holds fit a frame.
LEMMA FewSendable ==
    ASSUME NEW v \in Seq(Octet), Len(v) <= ChunkSize
    PROVE  v \in Sendable
<1>1. Len(v) \in Nat
  OBVIOUS
<1>. QED
  BY <1>1, Constants DEF Sendable

\* The loop as it is after an octet.
Later(r, tmp) ==
    [file |-> r.file, read |-> r.read, rlen |-> r.rlen + 1, tmp |-> tmp]

\* The same as the code assigns it.
Advanced(s, tmp) == [s EXCEPT !.reading.rlen = @ + 1, !.reading.tmp = tmp]

\* An octet later it is still a loop.
LEMMA LaterIs ==
    ASSUME NEW s \in Rpc, NEW r \in Loop, s.reading = r, NEW tmp \in Seq(Octet)
    PROVE  /\ Later(r, tmp) \in Loop
           /\ Advanced(s, tmp) = SetReading(s, Later(r, tmp))
<1>1. PICK L : L = Later(r, tmp)
  OBVIOUS
<1>2. r \in [file : CassetteIndex, read : Asking, rlen : Nat, tmp : Seq(Octet)]
      /\ r.read.topic = CASSETTE /\ r.read.subtopic = r.file
  BY DEF Loop
<1>3. r = [file |-> r.file, read |-> r.read, rlen |-> r.rlen, tmp |-> r.tmp]
  BY <1>2
<1>4. L = [file |-> r.file, read |-> r.read, rlen |-> r.rlen + 1, tmp |-> tmp]
  BY <1>1 DEF Later
<1>5. L \in [file : CassetteIndex, read : Asking, rlen : Nat, tmp : Seq(Octet)]
  BY <1>2, <1>4
<1>6. L \in Loop
  BY <1>2, <1>4, <1>5 DEF Loop
<1>7. L = [r EXCEPT !.rlen = @ + 1, !.tmp = tmp]
  <2>1. PICK n : n = r.rlen + 1
    OBVIOUS
  <2>2. [r EXCEPT !.rlen = @ + 1, !.tmp = tmp]
            = [r EXCEPT !.rlen = n, !.tmp = tmp]
    BY <1>2, <2>1
  <2>3. L = [file |-> r.file, read |-> r.read, rlen |-> n, tmp |-> tmp]
    BY <1>4, <2>1
  <2>4. L = [r EXCEPT !.rlen = n, !.tmp = tmp]
    <3>1. PICK X : X = [r EXCEPT !.rlen = n, !.tmp = tmp]
      OBVIOUS
    <3>2. n \in Nat
      BY <1>2, <2>1
    <3>3. PICK Q : Q = Seq(Octet)
      OBVIOUS
    <3>4. /\ r \in [file : CassetteIndex, read : Asking, rlen : Nat, tmp : Q]
          /\ tmp \in Q
      BY <1>2, <3>3
    <3>5. /\ X \in [file : CassetteIndex, read : Asking, rlen : Nat, tmp : Q]
          /\ X.file = r.file /\ X.read = r.read /\ X.rlen = n /\ X.tmp = tmp
      BY <3>1, <3>2, <3>4
    <3>6. X = [file |-> r.file, read |-> r.read, rlen |-> n, tmp |-> tmp]
      BY <3>5
    <3>. QED
      BY <2>3, <3>1, <3>6
  <2>. QED
    BY <2>2, <2>4
<1>8. s \in [subs : Subs, motor : [MotorIndex -> Octet],
        cassette : CassetteIndex \cup {NoCassette}, open : BOOLEAN,
        reading : {NotReading} \cup Loop, out : Seq(PlainEntry)]
  BY DEF Rpc
<1>9. [s EXCEPT !.reading.rlen = @ + 1, !.reading.tmp = tmp]
        = [s EXCEPT !.reading = [s.reading EXCEPT !.rlen = @ + 1, !.tmp = tmp]]
  BY <1>8
<1>. QED
  BY <1>1, <1>6, <1>7, <1>9 DEF SetReading, Advanced

\* What a turn of the loop sends.
LEMMA ReadOctetIs ==
    ASSUME RobotTyped, ReadOctet
    PROVE  \E s \in RpcSending : GoesOn(s) /\ TakesOctet(s, rpc.reading)
<1>1. PICK r : r = rpc.reading
  OBVIOUS
<1>2. PICK octet : octet = OctetRead(r)
  OBVIOUS
<1>3. PICK tmp : tmp = Append(r.tmp, octet)
  OBVIOUS
<1>4. /\ r # NotReading /\ r.rlen < Len(files[r.file])
      /\ GoesOn(IF Len(tmp) >= ChunkSize
                THEN SendData(Advanced(rpc, IF Len(tmp) >= ChunkSize
                                            THEN <<>> ELSE tmp),
                              r.read.req_id, r.read.topic, r.read.subtopic,
                              0, tmp)
                ELSE Advanced(rpc, IF Len(tmp) >= ChunkSize
                                   THEN <<>> ELSE tmp))
  BY <1>1, <1>2, <1>3 DEF ReadOctet, OctetRead, Advanced
<1>5. /\ rpc \in Rpc /\ rpc.out = <<>> /\ r \in Loop /\ Progress(r)
      /\ r.rlen \in Nat /\ r.tmp \in Seq(Octet)
  BY <1>1, <1>4, LoopFields DEF RobotTyped
<1>6. octet \in Octet
  <2>1. PICK f : f = files[r.file]
    OBVIOUS
  <2>2. f \in Seq(Octet) /\ r.rlen + 1 \in 1 .. Len(f)
    BY <1>4, <1>5, <2>1 DEF Progress
  <2>3. f[r.rlen + 1] \in Octet
    BY <2>2
  <2>. QED
    BY <1>2, <2>1, <2>3 DEF OctetRead
<1>7. tmp \in Seq(Octet) /\ Len(tmp) = Len(r.tmp) + 1 /\ Len(r.tmp) \in Nat
  BY <1>3, <1>5, <1>6
<1>8. Len(tmp) <= ChunkSize
  BY <1>5, <1>7, Constants DEF Progress
<1>9. tmp \in Sendable
  BY <1>7, <1>8, FewSendable
<1>10. CASE Len(tmp) >= ChunkSize
  <2>1. PICK e1 : e1 = <<>>
    OBVIOUS
  <2>2. e1 \in Seq(Octet)
    BY <2>1
  <2>13. PICK L : L = Later(r, e1)
    OBVIOUS
  <2>3. PICK a : a = SetReading(rpc, L)
    OBVIOUS
  <2>4. L \in Loop
        /\ Advanced(rpc, e1) = a
    BY <1>1, <1>5, <2>2, <2>3, <2>13, LaterIs
  <2>5. GoesOn(SendData(a, r.read.req_id, r.read.topic, r.read.subtopic, 0,
                        tmp))
    BY <1>4, <1>10, <2>1, <2>4
  <2>6. /\ a \in RpcSending /\ Same(rpc, a) /\ a.reading = L
        /\ a.out = <<>>
    BY <1>5, <2>3, <2>4, ReadingSet
  <2>7. PICK e \in Entry :
            /\ SendData(a, r.read.req_id, r.read.topic, r.read.subtopic, 0,
                        tmp) = Added(a, e)
            /\ Piece(e.meant, r, tmp)
    BY <1>5, <1>9, <2>6, PieceSent
  <2>8. PICK s : s = Added(a, e)
    OBVIOUS
  <2>9. /\ s \in RpcSending /\ Same(a, s) /\ s.reading = a.reading
        /\ s.out = Append(a.out, e)
    BY <2>6, <2>8, SendingOne
  <2>10. s.out = <<e>>
    BY <2>6, <2>9
  <2>11. Same(rpc, s)
    BY <2>6, <2>9 DEF Same
  <2>12. TakesOctet(s, r)
    BY <1>2, <1>3, <2>1, <2>4, <2>6, <2>7, <2>9, <2>10, <2>11, <2>13
       DEF TakesOctet, Later
  <2>. QED
    BY <1>1, <2>5, <2>7, <2>8, <2>9, <2>12
<1>11. CASE ~(Len(tmp) >= ChunkSize)
  <2>13. PICK L : L = Later(r, tmp)
    OBVIOUS
  <2>1. PICK s : s = SetReading(rpc, L)
    OBVIOUS
  <2>2. L \in Loop
        /\ Advanced(rpc, tmp) = s
    BY <1>1, <1>5, <1>7, <2>1, <2>13, LaterIs
  <2>3. GoesOn(s)
    BY <1>4, <1>11, <2>2
  <2>4. /\ s \in RpcSending /\ Same(rpc, s) /\ s.reading = L
        /\ s.out = <<>>
    BY <1>5, <2>1, <2>2, ReadingSet
  <2>5. Len(tmp) < ChunkSize
    BY <1>7, <1>11, Constants
  <2>6. TakesOctet(s, r)
    BY <1>2, <1>3, <2>2, <2>4, <2>5, <2>13 DEF TakesOctet, Later
  <2>. QED
    BY <1>1, <2>3, <2>4, <2>6
<1>. QED
  BY <1>10, <1>11

\* What is sent after it.
LEMMA EndOfFileIs ==
    ASSUME RobotTyped, EndOfFile
    PROVE  \E s \in RpcSending : GoesOn(s) /\ TakesEnd(s, rpc.reading)
<1>1. PICK r : r = rpc.reading
  OBVIOUS
<1>2. PICK a : a = SetReading(rpc, NotReading)
  OBVIOUS
<1>3. /\ r # NotReading
      /\ GoesOn(SendRep(IF r.tmp = <<>> THEN a
                        ELSE SendData(a, r.read.req_id, r.read.topic,
                                      r.read.subtopic, 0, r.tmp),
                        r.read, LongOctets(r.rlen)))
  BY <1>1, <1>2 DEF EndOfFile, SetReading
<1>4. /\ rpc \in Rpc /\ rpc.out = <<>> /\ r \in Loop /\ Progress(r)
      /\ r.rlen \in Nat /\ r.tmp \in Seq(Octet)
  BY <1>1, <1>3, LoopFields DEF RobotTyped
<1>5. /\ a \in RpcSending /\ Same(rpc, a) /\ a.reading = NotReading
      /\ a.out = <<>>
  BY <1>2, <1>4, ReadingSet
<1>6. CASE r.tmp = <<>>
  <2>1. GoesOn(SendRep(a, r.read, LongOctets(r.rlen)))
    BY <1>3, <1>6
  <2>2. PICK l \in Entry :
            /\ SendRep(a, r.read, LongOctets(r.rlen)) = Added(a, l)
            /\ Length(l.meant, r)
    BY <1>4, <1>5, LengthSent
  <2>3. PICK s : s = Added(a, l)
    OBVIOUS
  <2>4. /\ s \in RpcSending /\ Same(a, s) /\ s.reading = a.reading
        /\ s.out = Append(a.out, l)
    BY <1>5, <2>3, SendingOne
  <2>5. s.out = <<l>>
    BY <1>5, <2>4
  <2>6. Same(rpc, s)
    BY <1>5, <2>4 DEF Same
  <2>7. TakesEnd(s, r)
    BY <1>5, <1>6, <2>2, <2>4, <2>5, <2>6 DEF TakesEnd
  <2>. QED
    BY <1>1, <2>1, <2>2, <2>3, <2>4, <2>7
<1>7. CASE r.tmp # <<>>
  <2>1. Len(r.tmp) \in Nat /\ Len(r.tmp) <= ChunkSize
    BY <1>4, Constants DEF Progress
  <2>2. r.tmp \in Sendable
    BY <1>4, <2>1, FewSendable
  <2>3. PICK b : b = SendData(a, r.read.req_id, r.read.topic,
                              r.read.subtopic, 0, r.tmp)
    OBVIOUS
  <2>4. PICK p \in Entry : b = Added(a, p) /\ Piece(p.meant, r, r.tmp)
    BY <1>4, <1>5, <2>2, <2>3, PieceSent
  <2>5. /\ b \in RpcSending /\ Same(a, b) /\ b.reading = a.reading
        /\ b.out = Append(a.out, p)
    BY <1>5, <2>4, SendingOne
  <2>6. GoesOn(SendRep(b, r.read, LongOctets(r.rlen)))
    BY <1>3, <1>7, <2>3
  <2>7. PICK l \in Entry :
            /\ SendRep(b, r.read, LongOctets(r.rlen)) = Added(b, l)
            /\ Length(l.meant, r)
    BY <1>4, <2>5, LengthSent
  <2>8. PICK s : s = Added(b, l)
    OBVIOUS
  <2>9. /\ s \in RpcSending /\ Same(b, s) /\ s.reading = b.reading
        /\ s.out = Append(b.out, l)
    BY <2>5, <2>8, SendingOne
  <2>13. b.out = <<p>>
    BY <1>5, <2>5
  <2>14. Append(<<p>>, l) = <<p, l>>
    <3>1. <<p>> \in Seq({p, l}) /\ <<p, l>> \in Seq({p, l})
      OBVIOUS
    <3>2. PICK v, w : v = Append(<<p>>, l) /\ w = <<p, l>>
      OBVIOUS
    <3>3. v \in Seq({p, l}) /\ Len(v) = 2 /\ v[1] = p /\ v[2] = l
      BY <3>1, <3>2
    <3>4. w \in Seq({p, l}) /\ Len(w) = 2 /\ w[1] = p /\ w[2] = l
      BY <3>1, <3>2
    <3>5. \A i \in 1 .. Len(v) : i = 1 \/ i = 2
      BY <3>3
    <3>6. \A i \in 1 .. Len(v) : v[i] = w[i]
      BY <3>3, <3>4, <3>5
    <3>7. PICK S : S = {p, l}
      OBVIOUS
    <3>8. v = w
      BY <3>3, <3>4, <3>6, <3>7, SeqEqual
    <3>. QED
      BY <3>2, <3>8
  <2>10. s.out = <<p, l>>
    BY <2>9, <2>13, <2>14
  <2>11. Same(rpc, s)
    BY <1>5, <2>5, <2>9 DEF Same
  <2>12. TakesEnd(s, r)
    BY <1>5, <2>4, <2>5, <2>7, <2>9, <2>10, <2>11 DEF TakesEnd
  <2>. QED
    BY <1>1, <2>6, <2>7, <2>8, <2>9, <2>12
<1>. QED
  BY <1>6, <1>7

-----------------------------------------------------------------------------
(* What the host sends is a request.                                       *)

\* A message that fits is understood by the robot.
LEMMA RequestIs ==
    ASSUME NEW m \in Message, m \in HostMessage,
           GetSizeOf(m) <= SFP_CONFIG_MAX_PACKET_SIZE
    PROVE  Whole(m) \in Request /\ Whole(m).meant = m
<1>1. /\ Whole(m) \in [packet : Seq(Octet), meant : {m}]
      /\ Whole(m).meant = m /\ Deserialize(Whole(m).packet) = m
  BY WholeIs
<1>2. Whole(m) \in [packet : Seq(Octet), meant : HostMessage]
  <2>1. PICK Q : Q = Seq(Octet)
    OBVIOUS
  <2>2. PICK w : w = Whole(m)
    OBVIOUS
  <2>3. w \in [packet : Q, meant : {m}]
    BY <1>1, <2>1, <2>2
  <2>4. w \in [packet : Q, meant : HostMessage]
    BY <2>3
  <2>. QED
    BY <2>1, <2>2, <2>4
<1>. QED
  BY <1>1, <1>2 DEF Request

\* Every message of the host is a request.
LEMMA ReadRequest ==
    ASSUME NEW id \in ReqId, NEW t \in Readable
    PROVE  /\ Whole(ReadFrame(id, t[1], t[2])) \in Request
           /\ Whole(ReadFrame(id, t[1], t[2])).meant.op = MESSAGES_OP_READ
           /\ Whole(ReadFrame(id, t[1], t[2])).meant.req_id = id
<1>1. t[1] \in Octet /\ t[2] \in Octet
  BY HostAssumption
<1>2. PICK m : m = ReadFrame(id, t[1], t[2])
  OBVIOUS
<1>3. id \in Short
  BY ReqIdShort
<1>4. /\ m \in [op : WithTopic, req_id : Short, topic : Octet, subtopic : Octet]
      /\ m \in Asking /\ m.op = MESSAGES_OP_READ /\ m.req_id = id
  BY <1>1, <1>2, <1>3 DEF ReadFrame, Asking, WithTopic
<1>5. GetSizeOf(m) = 5
  BY <1>4 DEF GetSizeOf, HeaderLength, WithTopic, WithValue, WithSeqId,
     MESSAGES_OP_READ, MESSAGES_OP_PING, MESSAGES_OP_PONG, MESSAGES_OP_INFO,
     MESSAGES_OP_DATA, MESSAGES_OP_WRITE, MESSAGES_OP_SUBSCRIBE,
     MESSAGES_OP_UNSUBSCRIBE
<1>6. GetSizeOf(m) <= SFP_CONFIG_MAX_PACKET_SIZE
  BY <1>5, Constants
<1>7. m \in Message /\ m \in HostMessage
  BY <1>4 DEF Message, HostMessage
<1>. QED
  BY <1>2, <1>4, <1>6, <1>7, RequestIs

LEMMA SubscribeRequest ==
    ASSUME NEW id \in ReqId, NEW t \in Subscribable
    PROVE  /\ Whole(SubscribeFrame(id, t[1], t[2])) \in Request
           /\ Whole(SubscribeFrame(id, t[1], t[2])).meant.op
                = MESSAGES_OP_SUBSCRIBE
           /\ Whole(SubscribeFrame(id, t[1], t[2])).meant.req_id = id
<1>1. t[1] \in Octet /\ t[2] \in Octet
  BY HostAssumption
<1>2. PICK m : m = SubscribeFrame(id, t[1], t[2])
  OBVIOUS
<1>3. id \in Short
  BY ReqIdShort
<1>4. /\ m \in [op : WithTopic, req_id : Short, topic : Octet, subtopic : Octet]
      /\ m \in Subscribing /\ m.op = MESSAGES_OP_SUBSCRIBE /\ m.req_id = id
  BY <1>1, <1>2, <1>3 DEF SubscribeFrame, Subscribing, WithTopic
<1>5. GetSizeOf(m) = 5
  BY <1>4 DEF GetSizeOf, HeaderLength, WithTopic, WithValue, WithSeqId,
     MESSAGES_OP_READ, MESSAGES_OP_PING, MESSAGES_OP_PONG, MESSAGES_OP_INFO,
     MESSAGES_OP_DATA, MESSAGES_OP_WRITE, MESSAGES_OP_SUBSCRIBE,
     MESSAGES_OP_UNSUBSCRIBE
<1>6. GetSizeOf(m) <= SFP_CONFIG_MAX_PACKET_SIZE
  BY <1>5, Constants
<1>7. m \in Message /\ m \in HostMessage
  BY <1>4 DEF Message, HostMessage
<1>. QED
  BY <1>2, <1>4, <1>6, <1>7, RequestIs

LEMMA UnsubscribeRequest ==
    ASSUME NEW id \in ReqId
    PROVE  /\ Whole(UnsubscribeFrame(id)) \in Request
           /\ Whole(UnsubscribeFrame(id)).meant.op = MESSAGES_OP_UNSUBSCRIBE
           /\ Whole(UnsubscribeFrame(id)).meant.req_id = id
<1>2. PICK m : m = UnsubscribeFrame(id)
  OBVIOUS
<1>3. id \in Short
  BY ReqIdShort
<1>4. /\ m \in [op : {MESSAGES_OP_UNSUBSCRIBE}, req_id : Short]
      /\ m \in Unsubscribing /\ m.op = MESSAGES_OP_UNSUBSCRIBE /\ m.req_id = id
  BY <1>2, <1>3 DEF UnsubscribeFrame, Unsubscribing
<1>5. GetSizeOf(m) = 3
  BY <1>4 DEF GetSizeOf, HeaderLength, WithTopic, WithValue, WithSeqId,
     MESSAGES_OP_READ, MESSAGES_OP_PING, MESSAGES_OP_PONG, MESSAGES_OP_INFO,
     MESSAGES_OP_DATA, MESSAGES_OP_WRITE, MESSAGES_OP_SUBSCRIBE,
     MESSAGES_OP_UNSUBSCRIBE
<1>6. GetSizeOf(m) <= SFP_CONFIG_MAX_PACKET_SIZE
  BY <1>5, Constants
<1>7. m \in Message /\ m \in HostMessage
  BY <1>4 DEF Message, HostMessage
<1>. QED
  BY <1>2, <1>4, <1>6, <1>7, RequestIs

LEMMA PingSize ==
    ASSUME NEW m, m = PingFrame(1)
    PROVE  /\ m \in [op : {MESSAGES_OP_PING}, seq_id : Octet]
           /\ m \in Message /\ GetSizeOf(m) = 2
<1>1. 1 \in Octet
  BY Named
<1>2. m \in [op : {MESSAGES_OP_PING}, seq_id : Octet]
      /\ m \in [op : WithSeqId, seq_id : Octet] /\ m.op = MESSAGES_OP_PING
  BY <1>1 DEF PingFrame, WithSeqId
<1>3. GetSizeOf(m) = 2
  BY <1>2 DEF GetSizeOf, HeaderLength, WithTopic, WithValue, WithSeqId,
     MESSAGES_OP_READ, MESSAGES_OP_PING, MESSAGES_OP_PONG, MESSAGES_OP_INFO,
     MESSAGES_OP_DATA, MESSAGES_OP_WRITE, MESSAGES_OP_SUBSCRIBE,
     MESSAGES_OP_UNSUBSCRIBE
<1>. QED
  BY <1>2, <1>3 DEF Message

LEMMA AddressSize ==
    ASSUME NEW m, m = InfoFrame(NETWORK, 0, <<1, 1, 1, 1>>)
    PROVE  m \in Message /\ m.op = MESSAGES_OP_INFO /\ GetSizeOf(m) = 8
<1>1. PICK v : v = <<1, 1, 1, 1>>
  OBVIOUS
<1>2. 1 \in Octet /\ 0 \in Octet /\ NETWORK \in Octet
  BY Named
<1>7. PICK x \in Octet : x = 1
  BY <1>2
<1>8. PICK Q : Q = Octet
  OBVIOUS
<1>9. <<x, x, x, x>> \in Seq(Q) /\ Len(<<x, x, x, x>>) = 4
  BY ONLY x \in Octet, <1>8
<1>12. v = <<x, x, x, x>>
  BY <1>1, <1>7
<1>3. v \in Seq(Octet) /\ Len(v) = 4
  BY <1>8, <1>9, <1>12
<1>13. Len(v) < Base
  BY <1>3, Constants
<1>4. v \in Values
  BY <1>3, <1>13 DEF Values
<1>10. PICK t \in Octet, st \in Octet : t = NETWORK /\ st = 0
  BY <1>2
<1>11. m = [op |-> MESSAGES_OP_INFO, topic |-> t, subtopic |-> st, value |-> v]
  BY <1>1, <1>10 DEF InfoFrame
<1>5. /\ m \in [op : {MESSAGES_OP_INFO}, topic : Octet, subtopic : Octet,
                value : Values]
      /\ m.op = MESSAGES_OP_INFO /\ m.value = v
  <2>1. PICK q : q = MESSAGES_OP_INFO
    OBVIOUS
  <2>2. PICK O, V : O = Octet /\ V = Values
    OBVIOUS
  <2>3. t \in O /\ st \in O /\ v \in V
    BY <1>4, <1>10, <2>2
  <2>4. m = [op |-> q, topic |-> t, subtopic |-> st, value |-> v]
    BY <1>11, <2>1
  <2>5. m \in [op : {q}, topic : O, subtopic : O, value : V]
        /\ m.op = q /\ m.value = v
    BY ONLY <2>3, <2>4
  <2>. QED
    BY <2>1, <2>2, <2>5
<1>14. HeaderLength(MESSAGES_OP_INFO) = 4 /\ MESSAGES_OP_INFO \in WithValue
  BY DEF HeaderLength, WithTopic, WithValue, WithSeqId,
     MESSAGES_OP_READ, MESSAGES_OP_PING, MESSAGES_OP_PONG, MESSAGES_OP_INFO,
     MESSAGES_OP_DATA, MESSAGES_OP_WRITE, MESSAGES_OP_SUBSCRIBE,
     MESSAGES_OP_UNSUBSCRIBE
<1>15. GetSizeOf(m) = HeaderLength(m.op) + Len(m.value)
  BY <1>5, <1>14 DEF GetSizeOf
<1>16. Len(v) = 4
  BY <1>3
<1>17. GetSizeOf(m) = 4 + Len(v)
  BY <1>5, <1>14, <1>15
<1>6. GetSizeOf(m) = 8
  BY ONLY <1>16, <1>17
<1>. QED
  BY <1>5, <1>6 DEF Message

LEMMA WriteSize ==
    ASSUME NEW w \in Writable, NEW m, m = WriteFrame(0, w[1], w[2], w[3])
    PROVE  /\ m \in Writing /\ m \in Message
           /\ GetSizeOf(m) <= SFP_CONFIG_MAX_PACKET_SIZE /\ GetSizeOf(m) \in Nat
<1>1. w[1] \in Octet /\ w[2] \in Octet /\ w[3] \in Values
  BY HostAssumption
<1>2. HeaderLength(MESSAGES_OP_WRITE) + Len(w[3]) <= SFP_CONFIG_MAX_PACKET_SIZE
  BY HostAssumption
<1>3. 0 \in Short
  BY ReqIdShort
<1>4. /\ m \in [op : {MESSAGES_OP_WRITE}, req_id : Short, topic : Octet,
          subtopic : Octet, value : Values]
      /\ m \in Writing /\ m.op = MESSAGES_OP_WRITE /\ m.value = w[3]
  BY <1>1, <1>3 DEF WriteFrame, Writing
<1>5. HeaderLength(MESSAGES_OP_WRITE) = 6 /\ MESSAGES_OP_WRITE \in WithValue
  BY DEF HeaderLength, WithTopic, WithValue, WithSeqId,
     MESSAGES_OP_READ, MESSAGES_OP_PING, MESSAGES_OP_PONG, MESSAGES_OP_INFO,
     MESSAGES_OP_DATA, MESSAGES_OP_WRITE, MESSAGES_OP_SUBSCRIBE,
     MESSAGES_OP_UNSUBSCRIBE
<1>6. GetSizeOf(m) = 6 + Len(w[3])
  BY <1>4, <1>5 DEF GetSizeOf
<1>7. Len(w[3]) \in Nat
  BY <1>1 DEF Values
<1>. QED
  BY <1>2, <1>4, <1>5, <1>6, <1>7 DEF Message

\* What it tells without an answer.
LEMMA UnansweredIs ==
    ASSUME NEW m \in Unanswered
    PROVE  /\ m \in Message /\ m \in HostMessage /\ GetSizeOf(m) \in Nat \ {0}
           /\ GetSizeOf(m) <= SFP_CONFIG_MAX_PACKET_SIZE
           /\ m.op \notin {MESSAGES_OP_READ, MESSAGES_OP_SUBSCRIBE,
                           MESSAGES_OP_UNSUBSCRIBE}
<1>1. CASE m = PingFrame(1)
  <2>1. /\ m \in [op : {MESSAGES_OP_PING}, seq_id : Octet]
        /\ m \in Message /\ GetSizeOf(m) = 2
    BY <1>1, PingSize
  <2>2. m.op = MESSAGES_OP_PING
    BY <2>1
  <2>. QED
    BY <2>1, <2>2, Constants DEF HostMessage, MESSAGES_OP_PING,
       MESSAGES_OP_READ, MESSAGES_OP_SUBSCRIBE, MESSAGES_OP_UNSUBSCRIBE
<1>2. CASE m = InfoFrame(NETWORK, 0, <<1, 1, 1, 1>>)
  <2>1. m \in Message /\ m.op = MESSAGES_OP_INFO /\ GetSizeOf(m) = 8
    BY <1>2, AddressSize
  <2>2. m \in HostMessage
    BY <2>1 DEF HostMessage
  <2>3. GetSizeOf(m) <= SFP_CONFIG_MAX_PACKET_SIZE
    BY <2>1, Constants
  <2>. QED
    BY <2>1, <2>2, <2>3 DEF MESSAGES_OP_INFO,
       MESSAGES_OP_READ, MESSAGES_OP_SUBSCRIBE, MESSAGES_OP_UNSUBSCRIBE
<1>3. CASE \E w \in Writable : m = WriteFrame(0, w[1], w[2], w[3])
  <2>1. /\ m \in Writing /\ m \in Message
        /\ GetSizeOf(m) <= SFP_CONFIG_MAX_PACKET_SIZE /\ GetSizeOf(m) \in Nat
    BY <1>3, WriteSize
  <2>2. m.op = MESSAGES_OP_WRITE
    BY <2>1, WritingFields
  <2>3. GetSizeOf(m) # 0
    <3>1. HeaderLength(MESSAGES_OP_WRITE) = 6 /\ MESSAGES_OP_WRITE \in WithValue
      BY DEF HeaderLength, WithTopic, WithValue, WithSeqId,
         MESSAGES_OP_READ, MESSAGES_OP_PING, MESSAGES_OP_PONG,
         MESSAGES_OP_INFO, MESSAGES_OP_DATA, MESSAGES_OP_WRITE,
         MESSAGES_OP_SUBSCRIBE, MESSAGES_OP_UNSUBSCRIBE
    <3>2. Len(m.value) \in Nat
      BY <2>1, WritingFields
    <3>. QED
      BY <2>2, <3>1, <3>2 DEF GetSizeOf
  <2>. QED
    BY <2>1, <2>2, <2>3 DEF HostMessage, MESSAGES_OP_WRITE,
       MESSAGES_OP_READ, MESSAGES_OP_SUBSCRIBE, MESSAGES_OP_UNSUBSCRIBE
<1>. QED
  BY <1>1, <1>2, <1>3 DEF Unanswered

\* A packet that has lost its last octet is refused.
LEMMA CutRequest ==
    ASSUME NEW m \in Unanswered, NEW p, p = Whole(m).packet, Len(p) < Base
    PROVE  [packet |-> SubSeq(p, 1, Len(p) - 1), meant |-> Failed] \in Request
<1>1. /\ m \in Message /\ GetSizeOf(m) \in Nat \ {0}
      /\ GetSizeOf(m) <= SFP_CONFIG_MAX_PACKET_SIZE
  BY UnansweredIs
<1>2. PICK n \in Nat \ {0} : n = GetSizeOf(m)
  BY <1>1
<1>3. PICK o : o = Octets(m)
  OBVIOUS
<1>4. WellFormed(m) /\ Ending(m)
  BY <1>1, EveryMessage
<1>5. o \in Seq(Octet) /\ Len(o) = n
  BY <1>2, <1>3, <1>4 DEF WellFormed
<1>6. p = o
  BY <1>1, <1>2, <1>3, Constants DEF Whole, Serialize
<1>8. n < Base
  BY <1>5, <1>6
<1>9. PICK c : c = SubSeq(o, 1, n - 1)
  OBVIOUS
<1>10. n - 1 \in Nat /\ n - 1 < n
  OBVIOUS
<1>11. Deserialize(c) = Failed
  BY <1>1, <1>2, <1>3, <1>8, <1>9, <1>10, CutRefused
<1>12. c \in Seq(Octet)
  BY <1>5, <1>9
<1>13. SubSeq(p, 1, Len(p) - 1) = c
  BY <1>5, <1>6, <1>9
<1>14. Failed \in HostMessage
  BY DEF HostMessage
<1>. QED
  BY <1>11, <1>12, <1>13, <1>14 DEF Request

-----------------------------------------------------------------------------
(* Every step keeps the types.                                             *)

\* The server task goes on as s.
LEMMA GoesOnTyped ==
    ASSUME RobotTyped, NEW s \in RpcSending, GoesOn(s),
           WorldType',
           s.open <=> s.cassette # NoCassette,
           s.cassette # NoCassette => files'[s.cassette] \in Seq(Octet),
           s.reading # NotReading =>
                /\ files'[s.reading.file] \in Seq(Octet)
                /\ s.reading.rlen <= Len(files'[s.reading.file])
                /\ Len(s.reading.tmp) < ChunkSize
    PROVE  RobotTyped'
<1>1. /\ rpc' = Sent(s) /\ toHost' \in Seq(Entry) /\ connected' \in BOOLEAN
  BY GoingOn DEF RobotTyped
<1>2. /\ rpc' \in Rpc /\ rpc'.out = <<>> /\ rpc'.reading = s.reading
      /\ rpc'.cassette = s.cassette /\ rpc'.open = s.open
  BY <1>1, SentIs
<1>3. OpenFile(rpc)'
  BY <1>2 DEF OpenFile
<1>4. (rpc.reading # NotReading => Progress(rpc.reading))'
  BY <1>2 DEF Progress
<1>. QED
  BY <1>1, <1>2, <1>3, <1>4 DEF RobotTyped

\* The message that is handled next.
LEMMA FirstRequest ==
    ASSUME HostTyped, toRobot # <<>>,
           NEW m, m = Deserialize(Head(toRobot).packet)
    PROVE  /\ m \in HostMessage /\ Head(toRobot).meant = m
           /\ Tail(toRobot) \in Seq(Request)
<1>1. toRobot \in Seq(Request)
  BY DEF HostTyped
<1>2. Head(toRobot) \in Request /\ Tail(toRobot) \in Seq(Request)
  BY <1>1
<1>. QED
  BY <1>2 DEF Request

\* What RobotReceives comes to.
Receives(m, s) ==
    /\ GoesOn(s) /\ Tidied(s, files') /\ Received(rpc, s, m)
    /\ motors' \in [MotorIndex -> Octet]
    /\ spoiled' = IF Crossed(m) THEN spoiled \cup {m.req_id} ELSE spoiled
    /\ tape' = IF s.reading = NotReading THEN tape
               ELSE [tape EXCEPT ![m.req_id].recorded = files[m.subtopic]]

\* RobotReceives is a step of rpcRecv that is sent.
LEMMA RobotReceivesIs ==
    ASSUME RobotTyped, HostTyped, NEW succeeds \in BOOLEAN,
           RobotReceives(succeeds)
    PROVE  \E m \in HostMessage :
              /\ m = Head(toRobot).meant
              /\ \E s \in Rpc : Receives(m, s)
<1>1. /\ toRobot # <<>> /\ rpc.reading = NotReading
  BY DEF RobotReceives
<1>2. PICK m : m = Deserialize(Head(toRobot).packet)
  OBVIOUS
<1>3. m \in HostMessage /\ Head(toRobot).meant = m
  BY <1>1, <1>2, FirstRequest
<1>4. PICK s : s = Recv(rpc, m, succeeds)
  OBVIOUS
<1>5. PICK f2 : f2 = IF m.op = MESSAGES_OP_WRITE /\ m.topic = CASSETTE
                     THEN FilesAfter(rpc, m, succeeds) ELSE files
  OBVIOUS
<1>6. /\ GoesOn(s)
      /\ motors' = IF m.op = MESSAGES_OP_WRITE /\ m.topic = MOTOR
                        THEN MotorsAfter(m) ELSE motors
      /\ files' = f2
      /\ spoiled' = IF Crossed(m) THEN spoiled \cup {m.req_id} ELSE spoiled
      /\ tape' = IF s.reading = NotReading THEN tape
                 ELSE [tape EXCEPT ![m.req_id].recorded = files[m.subtopic]]
  BY <1>2, <1>4, <1>5 DEF RobotReceives
<1>7. WorldType /\ rpc \in Rpc /\ OpenFile(rpc)
  BY DEF RobotTyped
<1>8. Tidied(s, f2) /\ Received(rpc, s, m)
  BY <1>1, <1>3, <1>4, <1>5, <1>7, RecvIs
<1>9. s \in Rpc
  BY <1>8 DEF Tidied
<1>10. motors' \in [MotorIndex -> Octet]
  <2>1. CASE m.op = MESSAGES_OP_WRITE /\ m.topic = MOTOR
    <3>1. m \in Writing
      BY <1>3, <2>1 DEF HostMessage, Failed, Asking, Subscribing,
         Unsubscribing, MESSAGES_OP_WRITE, MESSAGES_OP_PING, MESSAGES_OP_INFO,
         MESSAGES_OP_READ, MESSAGES_OP_SUBSCRIBE, MESSAGES_OP_UNSUBSCRIBE
    <3>. QED
      BY <1>6, <1>7, <2>1, <3>1, MotorsAfterIs
  <2>2. CASE ~(m.op = MESSAGES_OP_WRITE /\ m.topic = MOTOR)
    BY <1>6, <1>7, <2>2 DEF WorldType
  <2>. QED
    BY <2>1, <2>2
<1>11. Receives(m, s)
  BY <1>6, <1>8, <1>10 DEF Receives
<1>. QED
  BY <1>3, <1>9, <1>11

\* Each step of the robot keeps the types.
LEMMA RobotReceivesTyped ==
    ASSUME RobotTyped, HostTyped, NEW succeeds \in BOOLEAN,
           RobotReceives(succeeds)
    PROVE  RobotTyped' /\ HostTyped'
<1>1. PICK m \in HostMessage, s \in Rpc :
         m = Head(toRobot).meant /\ Receives(m, s)
  BY RobotReceivesIs
<1>2. /\ toRobot # <<>> /\ toRobot' = Tail(toRobot) /\ host' = host
      /\ rpc.reading = NotReading
  BY DEF RobotReceives
<1>3. /\ GoesOn(s) /\ Tidied(s, files') /\ Received(rpc, s, m)
      /\ motors' \in [MotorIndex -> Octet]
      /\ spoiled' = IF Crossed(m) THEN spoiled \cup {m.req_id} ELSE spoiled
      /\ tape' = IF s.reading = NotReading THEN tape
                 ELSE [tape EXCEPT ![m.req_id].recorded = files[m.subtopic]]
  BY <1>1 DEF Receives
<1>4. WorldType' /\ (s.open <=> s.cassette # NoCassette)
      /\ (s.cassette # NoCassette => files'[s.cassette] \in Seq(Octet))
  BY <1>3 DEF Tidied, WorldType, FileTypes
<1>5. \/ s.reading = NotReading
      \/ /\ m \in Asking /\ m.topic = CASSETTE /\ s = Begin(rpc, m)
         /\ m.subtopic \in CassetteIndex /\ files[m.subtopic] \in Seq(Octet)
  BY <1>3 DEF Received, Begins
<1>6. s.reading # NotReading =>
         /\ files' = files
         /\ s.reading = [file |-> m.subtopic, read |-> m,
                         rlen |-> 0, tmp |-> <<>>]
  <2>1. SUFFICES ASSUME s.reading # NotReading
                 PROVE  /\ files' = files
                        /\ s.reading = [file |-> m.subtopic, read |-> m,
                                        rlen |-> 0, tmp |-> <<>>]
    OBVIOUS
  <2>2. m \in Asking /\ Begins(rpc, s, m)
    BY <1>3, <2>1 DEF Received
  <2>3. m.op = MESSAGES_OP_READ
    BY <2>2, AskingFields
  <2>4. rpc \in Rpc
    BY DEF RobotTyped
  <2>5. m = Deserialize(Head(toRobot).packet)
    BY <1>1, <1>2, FirstRequest
  <2>6. files' = files
    BY <2>3, <2>5 DEF RobotReceives, MESSAGES_OP_READ, MESSAGES_OP_WRITE
  <2>. QED
    BY <2>2, <2>4, <2>6, BeginIs
<1>7. s.reading # NotReading =>
                /\ files'[s.reading.file] \in Seq(Octet)
                /\ s.reading.rlen <= Len(files'[s.reading.file])
                /\ Len(s.reading.tmp) < ChunkSize
  <2>1. SUFFICES ASSUME s.reading # NotReading
                 PROVE  /\ files'[s.reading.file] \in Seq(Octet)
                        /\ s.reading.rlen <= Len(files'[s.reading.file])
                        /\ Len(s.reading.tmp) < ChunkSize
    OBVIOUS
  <2>2. /\ s.reading.file = m.subtopic /\ s.reading.rlen = 0
        /\ s.reading.tmp = <<>> /\ files' = files
    BY <1>6, <2>1
  <2>3. files[m.subtopic] \in Seq(Octet)
    BY <1>5, <2>1
  <2>4. Len(files[m.subtopic]) \in Nat /\ Len(<<>>) = 0
    BY <2>3
  <2>. QED
    BY <2>2, <2>3, <2>4, Constants
<1>8. RobotTyped'
  <2>1. s \in RpcSending
    BY Sending
  <2>. QED
    BY <1>3, <1>4, <1>7, <2>1, GoesOnTyped
<1>9. spoiled' \subseteq ReqId
  <2>1. CASE Crossed(m)
    <3>1. m.op = MESSAGES_OP_UNSUBSCRIBE
      BY <2>1 DEF Crossed
    <3>2. m \in Unsubscribing
      BY <3>1 DEF HostMessage, Failed, Asking, Subscribing,
         Writing, MESSAGES_OP_WRITE, MESSAGES_OP_PING, MESSAGES_OP_INFO,
         MESSAGES_OP_READ, MESSAGES_OP_SUBSCRIBE, MESSAGES_OP_UNSUBSCRIBE
    <3>3. m.req_id \in ReqId
      BY <3>2 DEF Unsubscribing
    <3>. QED
      BY <1>3, <2>1, <3>3 DEF HostTyped
  <2>2. CASE ~Crossed(m)
    BY <1>3, <2>2 DEF HostTyped
  <2>. QED
    BY <2>1, <2>2
<1>10. tape' \in [ReqId -> [got : Seq(Octet), recorded : Seq(Octet)]]
  <2>1. CASE s.reading = NotReading
    BY <1>3, <2>1 DEF HostTyped
  <2>2. CASE s.reading # NotReading
    <3>1. PICK q \in ReqId : q = m.req_id
      BY <1>5, <2>2, AskingFields
    <3>2. PICK f \in Seq(Octet) : f = files[m.subtopic]
      BY <1>5, <2>2
    <3>3. tape' = [tape EXCEPT ![q].recorded = f]
      BY <1>3, <2>2, <3>1, <3>2
    <3>. QED
      BY <3>3 DEF HostTyped
  <2>. QED
    BY <2>1, <2>2
<1>11. toRobot' \in Seq(Request)
  BY <1>1, <1>2, FirstRequest
<1>. QED
  BY <1>2, <1>8, <1>9, <1>10, <1>11 DEF HostTyped

LEMMA ReadOctetTyped ==
    ASSUME RobotTyped, HostTyped, ReadOctet
    PROVE  RobotTyped' /\ HostTyped'
<1>1. PICK s \in RpcSending : GoesOn(s) /\ TakesOctet(s, rpc.reading)
  BY ReadOctetIs
<1>2. /\ rpc.reading # NotReading /\ rpc.reading.rlen < Len(files[rpc.reading.file])
      /\ files' = files /\ motors' = motors /\ toRobot' = toRobot
      /\ host' = host /\ tape' = tape /\ spoiled' = spoiled
  BY DEF ReadOctet, hostVars
<1>3. /\ WorldType /\ OpenFile(rpc) /\ Progress(rpc.reading)
      /\ rpc.reading.rlen \in Nat
  BY <1>2, LoopFields DEF RobotTyped
<1>4. /\ s.open = rpc.open /\ s.cassette = rpc.cassette
      /\ s.reading.file = rpc.reading.file
      /\ s.reading.rlen = rpc.reading.rlen + 1
      /\ Len(s.reading.tmp) < ChunkSize
  <2>1. Len(<<>>) = 0
    OBVIOUS
  <2>. QED
    BY <1>1, <2>1, Constants DEF TakesOctet, Same
<1>5. WorldType'
  BY <1>2, <1>3 DEF WorldType
<1>6. /\ s.open <=> s.cassette # NoCassette
      /\ s.cassette # NoCassette => files'[s.cassette] \in Seq(Octet)
  BY <1>2, <1>3, <1>4 DEF OpenFile
<1>7. /\ files'[s.reading.file] \in Seq(Octet)
      /\ s.reading.rlen <= Len(files'[s.reading.file])
  <2>1. PICK f : f = files[rpc.reading.file]
    OBVIOUS
  <2>2. f \in Seq(Octet) /\ Len(f) \in Nat
    BY <1>3, <2>1 DEF Progress
  <2>3. rpc.reading.rlen + 1 <= Len(f)
    BY <1>2, <1>3, <2>1, <2>2
  <2>. QED
    BY <1>2, <1>4, <2>1, <2>2, <2>3
<1>8. RobotTyped'
  BY <1>1, <1>4, <1>5, <1>6, <1>7, GoesOnTyped
<1>. QED
  BY <1>2, <1>8 DEF HostTyped

LEMMA EndOfFileTyped ==
    ASSUME RobotTyped, HostTyped, EndOfFile
    PROVE  RobotTyped' /\ HostTyped'
<1>1. PICK s \in RpcSending : GoesOn(s) /\ TakesEnd(s, rpc.reading)
  BY EndOfFileIs
<1>2. /\ files' = files /\ motors' = motors /\ toRobot' = toRobot
      /\ host' = host /\ tape' = tape /\ spoiled' = spoiled
  BY DEF EndOfFile, hostVars, world
<1>3. WorldType /\ OpenFile(rpc)
  BY DEF RobotTyped
<1>4. /\ s.open = rpc.open /\ s.cassette = rpc.cassette
      /\ s.reading = NotReading
  BY <1>1 DEF TakesEnd, Same
<1>5. WorldType'
  BY <1>2, <1>3 DEF WorldType
<1>6. /\ s.open <=> s.cassette # NoCassette
      /\ s.cassette # NoCassette => files'[s.cassette] \in Seq(Octet)
  BY <1>2, <1>3, <1>4 DEF OpenFile
<1>7. RobotTyped'
  BY <1>1, <1>4, <1>5, <1>6, GoesOnTyped
<1>. QED
  BY <1>2, <1>7 DEF HostTyped

LEMMA RpcLoopTyped ==
    ASSUME RobotTyped, HostTyped, RpcLoop
    PROVE  RobotTyped' /\ HostTyped'
<1>1. /\ files' = files /\ motors' = motors /\ toRobot' = toRobot
      /\ host' = host /\ tape' = tape /\ spoiled' = spoiled
      /\ rpc.reading = NotReading
  BY DEF RpcLoop, hostVars, world
<1>2. WorldType /\ OpenFile(rpc) /\ rpc \in Rpc
  BY DEF RobotTyped
<1>3. PICK s : /\ GoesOn(s)
               /\ \/ s = Published[RPC_SUB_MAX]
                  \/ s = Send(rpc, InfoFrame(ROBOT, NOW, Clock))
  BY DEF RpcLoop
<1>4. /\ s \in Rpc /\ s.reading = rpc.reading /\ s.cassette = rpc.cassette
      /\ s.open = rpc.open
  <2>1. CASE s = Send(rpc, InfoFrame(ROBOT, NOW, Clock))
    <3>1. Calm(rpc, s)
      BY <1>2, <2>1, RobotIs
    <3>. QED
      BY <3>1 DEF Calm
  <2>2. CASE s = Published[RPC_SUB_MAX]
    BY <1>2, <2>2, PublishedPhase
  <2>. QED
    BY <1>3, <2>1, <2>2
<1>5. WorldType'
  BY <1>1, <1>2 DEF WorldType
<1>6. /\ s.open <=> s.cassette # NoCassette
      /\ s.cassette # NoCassette => files'[s.cassette] \in Seq(Octet)
  BY <1>1, <1>2, <1>4 DEF OpenFile
<1>7. RobotTyped'
  <2>1. s \in RpcSending
    BY <1>4, Sending
  <2>. QED
    BY <1>1, <1>3, <1>4, <1>5, <1>6, <2>1, GoesOnTyped
<1>. QED
  BY <1>1, <1>7 DEF HostTyped

\* Steps of the world, and of the host.
LEMMA RobotSame ==
    ASSUME RobotTyped, UNCHANGED <<rpc, motors, files, connected, toHost>>
    PROVE  RobotTyped'
BY DEF RobotTyped, WorldType, OpenFile, Progress

LEMMA SendsTyped ==
    ASSUME RobotTyped, HostTyped, NEW e \in Request, Sends(e),
           host' \in [ReqId -> HostState], spoiled' \subseteq ReqId
    PROVE  RobotTyped' /\ HostTyped'
<1>1. /\ UNCHANGED <<rpc, motors, files, connected, toHost>>
      /\ tape' = tape /\ toRobot' = Append(toRobot, e)
  BY DEF Sends, world
<1>2. toRobot \in Seq(Request)
  BY DEF HostTyped
<1>3. toRobot' \in Seq(Request)
  BY <1>1, <1>2
<1>. QED
  BY <1>1, <1>3, RobotSame DEF HostTyped

\* The frame that is read next.
LEMMA FirstFrameIs ==
    ASSUME RobotTyped, toHost # <<>>,
           NEW m, m = Deserialize(Head(toHost).packet)
    PROVE  /\ m \in Frame /\ Head(toHost).meant = m /\ toHost[1].meant = m
           /\ Tail(toHost) \in Seq(Entry)
           /\ m.op = MESSAGES_OP_DATA => m \in DataMessage
<1>1. toHost \in Seq(Entry)
  BY DEF RobotTyped
<1>2. Head(toHost) \in Entry /\ Tail(toHost) \in Seq(Entry)
      /\ Head(toHost) = toHost[1]
  BY <1>1
<1>3. m \in Frame /\ Head(toHost).meant = m
  BY <1>2 DEF Entry
<1>4. m.op = MESSAGES_OP_DATA => m \in DataMessage
  BY <1>3 DEF Frame, MESSAGES_OP_DATA, MESSAGES_OP_PONG, MESSAGES_OP_INFO
<1>. QED
  BY <1>2, <1>3, <1>4

\* The fields of DATA.
LEMMA DataFields ==
    ASSUME NEW m \in DataMessage
    PROVE  /\ m.op = MESSAGES_OP_DATA /\ m.value \in Seq(Octet)
           /\ m.flag \in Octet /\ m.topic \in Octet /\ m.subtopic \in Octet
BY DEF DataMessage, Values

LEMMA HostReceivesTyped ==
    ASSUME RobotTyped, HostTyped, HostReceives
    PROVE  RobotTyped' /\ HostTyped'
<1>1. PICK m : m = Deserialize(Head(toHost).packet)
  OBVIOUS
<1>2. /\ toHost # <<>> /\ toHost' = Tail(toHost)
      /\ UNCHANGED <<rpc, motors, files, connected, toRobot, spoiled>>
  BY DEF HostReceives, world
<1>3. /\ m.op # MESSAGES_OP_DATA \/ m.req_id \notin ReqId =>
            host' = host /\ tape' = tape
      /\ m.op = MESSAGES_OP_DATA /\ m.req_id \in ReqId =>
            /\ Ends(m) =>
                  /\ host' = [host EXCEPT ![m.req_id] = "free"]
                  /\ tape' = [tape EXCEPT ![m.req_id] =
                                [got |-> <<>>, recorded |-> <<>>]]
            /\ ~Ends(m) =>
                  /\ tape' = IF m.topic = CASSETTE
                             THEN [tape EXCEPT ![m.req_id].got = @ \o m.value]
                             ELSE tape
                  /\ host' = host
  BY <1>1 DEF HostReceives
<1>4. /\ Tail(toHost) \in Seq(Entry)
      /\ m.op = MESSAGES_OP_DATA => m.value \in Seq(Octet)
  BY <1>1, <1>2, FirstFrameIs, DataFields
<1>5. RobotTyped'
  BY <1>2, <1>4 DEF RobotTyped, WorldType, OpenFile, Progress
<1>6. /\ toRobot' \in Seq(Request) /\ spoiled' \subseteq ReqId
  BY <1>2 DEF HostTyped
<1>7. /\ host' \in [ReqId -> HostState]
      /\ tape' \in [ReqId -> [got : Seq(Octet), recorded : Seq(Octet)]]
  <2>1. /\ host \in [ReqId -> HostState]
        /\ tape \in [ReqId -> [got : Seq(Octet), recorded : Seq(Octet)]]
    BY DEF HostTyped
  <2>2. CASE m.op # MESSAGES_OP_DATA \/ m.req_id \notin ReqId
    BY <1>3, <2>1, <2>2
  <2>3. CASE /\ m.op = MESSAGES_OP_DATA /\ m.req_id \in ReqId
             /\ Ends(m)
    <3>1. PICK q \in ReqId : q = m.req_id
      BY <2>3
    <3>2. host' = [host EXCEPT ![q] = "free"]
          /\ tape' = [tape EXCEPT ![q] = [got |-> <<>>, recorded |-> <<>>]]
      BY <1>3, <2>3, <3>1
    <3>3. <<>> \in Seq(Octet) /\ "free" \in HostState
      BY DEF HostState
    <3>. QED
      BY <2>1, <3>2, <3>3
  <2>4. CASE /\ m.op = MESSAGES_OP_DATA /\ m.req_id \in ReqId
             /\ ~Ends(m)
    <3>1. PICK q \in ReqId : q = m.req_id
      BY <2>4
    <3>2. PICK v : v = tape[q].got \o m.value
      OBVIOUS
    <3>3. v \in Seq(Octet)
      BY <1>4, <2>1, <2>4, <3>2
    <3>4. tape' = [tape EXCEPT ![q].got = v] \/ tape' = tape
      BY <1>3, <2>4, <3>1, <3>2
    <3>5. host' = host
      BY <1>3, <2>4
    <3>. QED
      BY <2>1, <3>3, <3>4, <3>5
  <2>. QED
    BY <2>2, <2>3, <2>4
<1>. QED
  BY <1>5, <1>6, <1>7 DEF HostTyped

LEMMA HostStepTyped ==
    ASSUME RobotTyped, HostTyped, HostStep
    PROVE  RobotTyped' /\ HostTyped'
<1>1. host \in [ReqId -> HostState] /\ spoiled \subseteq ReqId
  BY DEF HostTyped
<1>2. ASSUME NEW id \in ReqId, NEW t \in Readable, HostReads(id, t)
      PROVE  RobotTyped' /\ HostTyped'
  <2>1. PICK e : e = Whole(ReadFrame(id, t[1], t[2]))
    OBVIOUS
  <2>2. e \in Request
    BY <2>1, ReadRequest
  <2>3. Sends(e) /\ host' \in [ReqId -> HostState] /\ spoiled' \subseteq ReqId
    BY <1>1, <1>2, <2>1 DEF HostReads, HostState
  <2>. QED
    BY <2>2, <2>3, SendsTyped
<1>3. ASSUME NEW id \in ReqId, NEW t \in Subscribable, HostSubscribes(id, t)
      PROVE  RobotTyped' /\ HostTyped'
  <2>1. PICK e : e = Whole(SubscribeFrame(id, t[1], t[2]))
    OBVIOUS
  <2>2. e \in Request
    BY <2>1, SubscribeRequest
  <2>3. Sends(e) /\ host' \in [ReqId -> HostState] /\ spoiled' \subseteq ReqId
    BY <1>1, <1>3, <2>1 DEF HostSubscribes, HostState
  <2>. QED
    BY <2>2, <2>3, SendsTyped
<1>4. ASSUME NEW id \in ReqId, NEW t \in Subscribable,
             HostSubscribesAgain(id, t)
      PROVE  RobotTyped' /\ HostTyped'
  <2>1. PICK e : e = Whole(SubscribeFrame(id, t[1], t[2]))
    OBVIOUS
  <2>2. e \in Request
    BY <2>1, SubscribeRequest
  <2>3. Sends(e) /\ host' \in [ReqId -> HostState] /\ spoiled' \subseteq ReqId
    BY <1>1, <1>4, <2>1 DEF HostSubscribesAgain
  <2>. QED
    BY <2>2, <2>3, SendsTyped
<1>5. ASSUME NEW id \in ReqId, HostUnsubscribes(id)
      PROVE  RobotTyped' /\ HostTyped'
  <2>1. PICK e : e = Whole(UnsubscribeFrame(id))
    OBVIOUS
  <2>2. e \in Request
    BY <2>1, UnsubscribeRequest
  <2>3. Sends(e) /\ host' \in [ReqId -> HostState] /\ spoiled' \subseteq ReqId
    BY <1>1, <1>5, <2>1 DEF HostUnsubscribes, HostState
  <2>. QED
    BY <2>2, <2>3, SendsTyped
<1>6. CASE HostTells
  <2>1. PICK m \in Unanswered : Sends(Whole(m))
    BY <1>6 DEF HostTells
  <2>2. Whole(m) \in Request
    BY UnansweredIs, RequestIs
  <2>3. host' \in [ReqId -> HostState] /\ spoiled' \subseteq ReqId
    BY <1>1, <1>6 DEF HostTells
  <2>. QED
    BY <2>1, <2>2, <2>3, SendsTyped
<1>7. CASE HostCutsShort
  <2>0. PICK m \in Unanswered :
           \E p : /\ p = Whole(m).packet /\ Len(p) < Base
                 /\ Sends([packet |-> SubSeq(p, 1, Len(p) - 1),
                           meant |-> Failed])
    BY <1>7 DEF HostCutsShort
  <2>1. PICK p :
           /\ p = Whole(m).packet /\ Len(p) < Base
           /\ Sends([packet |-> SubSeq(p, 1, Len(p) - 1), meant |-> Failed])
    BY <2>0
  <2>2. PICK e :
           e = [packet |-> SubSeq(p, 1, Len(p) - 1), meant |-> Failed]
    OBVIOUS
  <2>3. e \in Request /\ Sends(e)
    BY <2>1, <2>2, CutRequest
  <2>4. host' \in [ReqId -> HostState] /\ spoiled' \subseteq ReqId
    BY <1>1, <1>7 DEF HostCutsShort
  <2>. QED
    BY <2>3, <2>4, SendsTyped
<1>8. CASE HostReceives
  BY <1>8, HostReceivesTyped
<1>. QED
  BY <1>2, <1>3, <1>4, <1>5, <1>6, <1>7, <1>8 DEF HostStep

\* Every step keeps the types.
LEMMA TypedStep ==
    ASSUME RobotTyped, HostTyped, [Next]_vars
    PROVE  RobotTyped' /\ HostTyped'
<1>1. CASE RobotStep
  BY <1>1, RobotReceivesTyped, ReadOctetTyped, EndOfFileTyped DEF RobotStep
<1>2. CASE RpcLoop
  BY <1>2, RpcLoopTyped
<1>3. CASE FileReady \/ Expire \/ UNCHANGED vars
  <2>1. UNCHANGED <<rpc, motors, files, connected, toHost>>
        /\ toRobot' = toRobot /\ host' = host /\ tape' = tape
        /\ spoiled' = spoiled
    BY <1>3 DEF FileReady, Expire, vars, hostVars, world
  <2>. QED
    BY <2>1, RobotSame DEF HostTyped
<1>4. CASE HostStep
  BY <1>4, HostStepTyped
<1>. QED
  BY <1>1, <1>2, <1>3, <1>4 DEF Next

\* rpc_t after rpcInit.
LEMMA FirstRpc ==
    ASSUME NEW s,
           s = [ subs |-> [i \in Slot |-> FreeSlot],
               motor |-> [m \in MotorIndex |-> 0],
               cassette |-> NoCassette,
               open |-> FALSE,
               reading |-> NotReading,
               out |-> <<>> ]
    PROVE  /\ s \in Rpc /\ s.out = <<>> /\ s.reading = NotReading
           /\ s.cassette = NoCassette /\ s.open = FALSE
           /\ s.subs = [i \in Slot |-> FreeSlot]
<1>1. PICK f : f = [i \in Slot |-> FreeSlot]
  OBVIOUS
<1>2. f \in Subs
  BY <1>1, FreeSlotIs DEF Subs
<1>3. PICK g : g = [m \in MotorIndex |-> 0]
  OBVIOUS
<1>4. g \in [MotorIndex -> Octet]
  BY <1>3, Named
<1>5. PICK o : o = <<>>
  OBVIOUS
<1>6. o \in Seq(PlainEntry)
  BY <1>5
<1>7. PICK b \in BOOLEAN : b = FALSE
  OBVIOUS
<1>8. s = [subs |-> f, motor |-> g, cassette |-> NoCassette, open |-> b,
           reading |-> NotReading, out |-> o]
  BY <1>1, <1>3, <1>5, <1>7
<1>9. s \in Rpc
  BY <1>2, <1>4, <1>6, <1>8 DEF Rpc
<1>. QED
  BY <1>1, <1>5, <1>7, <1>8, <1>9

\* The types hold at the start.
LEMMA TypedInit ==
    ASSUME Init
    PROVE  RobotTyped /\ HostTyped
<1>1. /\ rpc \in Rpc /\ rpc.out = <<>> /\ rpc.reading = NotReading
      /\ rpc.cassette = NoCassette /\ rpc.open = FALSE
  BY FirstRpc DEF Init
<1>2. motors \in [MotorIndex -> Octet]
  BY Named DEF Init
<1>3. files \in [CassetteIndex -> Seq(Octet) \cup {Absent}]
  BY HostAssumption DEF Init
<1>4. RobotTyped
  BY <1>1, <1>2, <1>3 DEF Init, RobotTyped, WorldType, OpenFile
<1>5. /\ toRobot \in Seq(Request) /\ spoiled \subseteq ReqId
      /\ host \in [ReqId -> HostState]
  BY DEF Init, HostState
<1>6. tape \in [ReqId -> [got : Seq(Octet), recorded : Seq(Octet)]]
  <2>1. <<>> \in Seq(Octet)
    OBVIOUS
  <2>. QED
    BY <2>1 DEF Init
<1>. QED
  BY <1>4, <1>5, <1>6 DEF HostTyped

\* Both ends read from a packet what the other has written into it.
THEOREM AlwaysUnderstood == Spec => []Understood
<1>1. Init => RobotTyped /\ HostTyped
  BY TypedInit
<1>2. RobotTyped /\ HostTyped /\ [Next]_vars => (RobotTyped /\ HostTyped)'
  BY TypedStep
<1>3. RobotTyped /\ HostTyped => Understood
  <2>1. SUFFICES ASSUME RobotTyped, HostTyped,
                        NEW line \in {toRobot, toHost}, NEW i \in DOMAIN line
                 PROVE  Deserialize(line[i].packet) = line[i].meant
    BY DEF Understood
  <2>2. CASE line = toRobot
    <3>1. line \in Seq(Request) /\ i \in 1 .. Len(line)
      BY <2>1, <2>2 DEF HostTyped
    <3>2. line[i] \in Request
      BY <3>1
    <3>. QED
      BY <3>2 DEF Request
  <2>3. CASE line = toHost
    <3>1. line \in Seq(Entry) /\ i \in 1 .. Len(line)
      BY <2>1, <2>3 DEF RobotTyped
    <3>2. line[i] \in Entry
      BY <3>1
    <3>. QED
      BY <3>2 DEF Entry
  <2>. QED
    BY <2>1, <2>2, <2>3
<1>. QED
  BY <1>1, <1>2, <1>3, PTL DEF Spec

-----------------------------------------------------------------------------
(* The course of a request: what the host has asked for, where the request *)
(* is, and what is on its way.                                             *)

\* What can be on its way to the robot about one id.
JustRead == <<MESSAGES_OP_READ>>
JustSubscribe == <<MESSAGES_OP_SUBSCRIBE>>
JustUnsubscribe == <<MESSAGES_OP_UNSUBSCRIBE>>
OldThenRead == <<MESSAGES_OP_UNSUBSCRIBE, MESSAGES_OP_READ>>
OldThenSubscribe == <<MESSAGES_OP_UNSUBSCRIBE, MESSAGES_OP_SUBSCRIBE>>
Both == <<MESSAGES_OP_SUBSCRIBE, MESSAGES_OP_UNSUBSCRIBE>>
OldThenBoth ==
    <<MESSAGES_OP_UNSUBSCRIBE, MESSAGES_OP_SUBSCRIBE, MESSAGES_OP_UNSUBSCRIBE>>

Ops == {<<>>, JustRead, JustSubscribe, JustUnsubscribe, OldThenRead,
        OldThenSubscribe, Both, OldThenBoth}

\* Where a request is: nowhere, read in the loop, in a slot, or answered.
PhaseName == {"quiet", "busy", "held", "done"}

In(p, s, t, id) ==
    \/ p = "quiet" /\ Quiet(s, t, id)
    \/ p = "busy" /\ Busy(s, t, id)
    \/ p = "held" /\ Held(s, t, id)
    \/ p = "done" /\ Done(s, t, id)

\* An UNSUBSCRIBE of a subscription that has ended comes before what is asked
\* next, if anything is.
Fits(h, ops, p) ==
    \/ /\ p = "quiet"
       /\ \/ h = "free" /\ ops \in {<<>>, JustUnsubscribe}
          \/ h = "reading" /\ ops \in {JustRead, OldThenRead}
          \/ h = "subscribed" /\ ops \in {JustSubscribe, OldThenSubscribe}
          \/ h = "cancelling" /\ ops \in {Both, OldThenBoth}
    \/ p = "busy" /\ h = "reading" /\ ops = <<>>
    \/ /\ p = "held"
       /\ \/ h = "subscribed" /\ ops = <<>>
          \/ h = "cancelling" /\ ops = JustUnsubscribe
    \/ /\ p = "done"
       /\ \/ h \in {"reading", "subscribed", "cancelling"} /\ ops = <<>>
          \/ h = "cancelling" /\ ops = JustUnsubscribe

\* A request while the connection lasts.
Running(id, ops, p) ==
    /\ Asks(toRobot, id, ops) /\ Fits(host[id], ops, p)
    /\ In(p, rpc, toHost, id)
    /\ p = "quiet" => tape[id].got = <<>>

\* After the connection has ended, only frames that were sent before it.
Weak(id) ==
    /\ host[id] = "free" => NoFrame(toHost, id)
    /\ Settled(rpc, toHost, id)

\* The course of the request of one id.
Flow(id) ==
    IF connected THEN \E ops \in Ops, p \in PhaseName : Running(id, ops, p)
    ELSE Weak(id)

FlowInv == \A id \in ReqId \ spoiled : Flow(id)

\* The operations are numbers, and differ.
LEMMA OpNumbers ==
    /\ {MESSAGES_OP_READ, MESSAGES_OP_SUBSCRIBE, MESSAGES_OP_UNSUBSCRIBE}
         \subseteq Nat
    /\ MESSAGES_OP_READ # MESSAGES_OP_SUBSCRIBE
    /\ MESSAGES_OP_READ # MESSAGES_OP_UNSUBSCRIBE
    /\ MESSAGES_OP_SUBSCRIBE # MESSAGES_OP_UNSUBSCRIBE
BY DEF MESSAGES_OP_READ, MESSAGES_OP_SUBSCRIBE, MESSAGES_OP_UNSUBSCRIBE

\* The lengths and the elements of short tuples.
LEMMA Tuples ==
    ASSUME NEW a \in Nat, NEW b \in Nat, NEW c \in Nat
    PROVE  /\ <<a>> \in Seq(Nat) /\ Len(<<a>>) = 1 /\ <<a>>[1] = a
           /\ <<a, b>> \in Seq(Nat) /\ Len(<<a, b>>) = 2
           /\ <<a, b>>[1] = a /\ <<a, b>>[2] = b
           /\ <<a, b, c>> \in Seq(Nat) /\ Len(<<a, b, c>>) = 3
           /\ <<a, b, c>>[1] = a /\ <<a, b, c>>[2] = b /\ <<a, b, c>>[3] = c
OBVIOUS

\* Those of Ops.
LEMMA OpsAre ==
    /\ Ops \subseteq Seq(Nat) /\ <<>> \in Ops /\ Len(<<>>) = 0
    /\ Len(JustRead) = 1 /\ JustRead[1] = MESSAGES_OP_READ
    /\ Len(JustSubscribe) = 1 /\ JustSubscribe[1] = MESSAGES_OP_SUBSCRIBE
    /\ Len(JustUnsubscribe) = 1 /\ JustUnsubscribe[1] = MESSAGES_OP_UNSUBSCRIBE
    /\ Len(OldThenRead) = 2 /\ OldThenRead[1] = MESSAGES_OP_UNSUBSCRIBE
    /\ OldThenRead[2] = MESSAGES_OP_READ
    /\ Len(OldThenSubscribe) = 2
    /\ OldThenSubscribe[1] = MESSAGES_OP_UNSUBSCRIBE
    /\ OldThenSubscribe[2] = MESSAGES_OP_SUBSCRIBE
    /\ Len(Both) = 2 /\ Both[1] = MESSAGES_OP_SUBSCRIBE
    /\ Both[2] = MESSAGES_OP_UNSUBSCRIBE
    /\ Len(OldThenBoth) = 3 /\ OldThenBoth[1] = MESSAGES_OP_UNSUBSCRIBE
    /\ OldThenBoth[2] = MESSAGES_OP_SUBSCRIBE
    /\ OldThenBoth[3] = MESSAGES_OP_UNSUBSCRIBE
<1>1. PICK r \in Nat, s \in Nat, u \in Nat :
         r = MESSAGES_OP_READ /\ s = MESSAGES_OP_SUBSCRIBE
         /\ u = MESSAGES_OP_UNSUBSCRIBE
  BY OpNumbers
<1>2. /\ JustRead = <<r>> /\ JustSubscribe = <<s>> /\ JustUnsubscribe = <<u>>
      /\ OldThenRead = <<u, r>> /\ OldThenSubscribe = <<u, s>>
      /\ Both = <<s, u>> /\ OldThenBoth = <<u, s, u>>
  BY <1>1 DEF JustRead, JustSubscribe, JustUnsubscribe, OldThenRead,
              OldThenSubscribe, Both, OldThenBoth
<1>3. /\ Len(JustRead) = 1 /\ JustRead[1] = r /\ JustRead \in Seq(Nat)
      /\ Len(JustSubscribe) = 1 /\ JustSubscribe[1] = s
      /\ JustSubscribe \in Seq(Nat)
      /\ Len(JustUnsubscribe) = 1 /\ JustUnsubscribe[1] = u
      /\ JustUnsubscribe \in Seq(Nat)
  BY <1>2, Tuples
<1>4. /\ Len(OldThenRead) = 2 /\ OldThenRead[1] = u /\ OldThenRead[2] = r
      /\ OldThenRead \in Seq(Nat)
      /\ Len(OldThenSubscribe) = 2 /\ OldThenSubscribe[1] = u
      /\ OldThenSubscribe[2] = s /\ OldThenSubscribe \in Seq(Nat)
      /\ Len(Both) = 2 /\ Both[1] = s /\ Both[2] = u /\ Both \in Seq(Nat)
  BY <1>2, Tuples
<1>5. /\ Len(OldThenBoth) = 3 /\ OldThenBoth[1] = u /\ OldThenBoth[2] = s
      /\ OldThenBoth[3] = u /\ OldThenBoth \in Seq(Nat)
  BY <1>2, Tuples
<1>6. <<>> \in Seq(Nat) /\ Len(<<>>) = 0
  OBVIOUS
<1>7. Ops \subseteq Seq(Nat) /\ <<>> \in Ops
  BY <1>3, <1>4, <1>5, <1>6 DEF Ops
<1>. QED
  BY <1>1, <1>3, <1>4, <1>5, <1>6, <1>7

-----------------------------------------------------------------------------
(* The robot goes on.                                                      *)

\* Nothing is sent before a step.
LEMMA Start ==
    ASSUME rpc.out = <<>>, NEW id
    PROVE  /\ Quiet(rpc, toHost, id) => Quiet(rpc, rpc.out, id)
           /\ Busy(rpc, toHost, id) => Busy(rpc, rpc.out, id)
           /\ Held(rpc, toHost, id) => Held(rpc, rpc.out, id)
           /\ Done(rpc, toHost, id) => Quiet(rpc, rpc.out, id)
<1>1. \A i \in 1 .. Len(rpc.out) : FALSE
  OBVIOUS
<1>. QED
  BY <1>1 DEF Quiet, Busy, Held, Done, NoFrame, Unended

\* The phase of the request: that of the line, that of what is sent, and both.
Leads(p, p1, p2) ==
    \/ p = "quiet" /\ p1 \in PhaseName /\ p2 = p1
    \/ p \in {"busy", "held"} /\ p1 \in {"busy", "held", "done"} /\ p2 = p1
    \/ p = "done" /\ p1 = "quiet" /\ p2 = "done"

\* The phase after a step of the server task, in its name.
LEMMA Onward ==
    ASSUME RobotTyped, connected, NEW s \in RpcSending, GoesOn(s), NEW id,
           NEW p, In(p, rpc, toHost, id), NEW p1, In(p1, s, s.out, id),
           NEW p2, Leads(p, p1, p2)
    PROVE  /\ connected' => In(p2, rpc', toHost', id)
           /\ ~connected' => /\ Settled(rpc', toHost', id)
                             /\ p1 = "quiet" /\ p = "quiet" =>
                                    NoFrame(toHost', id)
<1>1. toHost \in Seq(Entry) /\ connected \in BOOLEAN
  BY DEF RobotTyped
<1>2. PICK r2, t2 : r2 = rpc' /\ t2 = toHost'
  OBVIOUS
<1>3. /\ p = "quiet" => NoFrame(toHost, id) /\ Unended(toHost, id)
      /\ p \in {"busy", "held"} => Unended(toHost, id)
      /\ p = "done" => Ended(toHost, id)
  BY NoFrameUnended DEF In, Quiet, Busy, Held, Done
<1>4. /\ p1 = "quiet" => Quiet(s, s.out, id)
      /\ p1 = "busy" => Busy(s, s.out, id)
      /\ p1 = "held" => Held(s, s.out, id)
      /\ p1 = "done" => Done(s, s.out, id)
      /\ p1 \in PhaseName
  BY DEF In, PhaseName
<1>5. CASE connected'
  <2>1. /\ NoFrame(toHost, id) /\ Quiet(s, s.out, id) => Quiet(r2, t2, id)
        /\ Unended(toHost, id) =>
              /\ Busy(s, s.out, id) => Busy(r2, t2, id)
              /\ Held(s, s.out, id) => Held(r2, t2, id)
              /\ Done(s, s.out, id) => Done(r2, t2, id)
        /\ Ended(toHost, id) /\ Quiet(s, s.out, id) => Done(r2, t2, id)
    BY <1>1, <1>2, <1>5, AfterStep
  <2>2. In(p2, r2, t2, id)
    BY ONLY <1>3, <1>4, <2>1, Leads(p, p1, p2) DEF In, Leads, PhaseName
  <2>. QED
    BY <1>2, <1>5, <2>2
<1>6. CASE ~connected'
  <2>1. /\ NoFrame(toHost, id) /\ Quiet(s, s.out, id) => NoFrame(t2, id)
        /\ Unended(toHost, id)
           /\ (Quiet(s, s.out, id) \/ Busy(s, s.out, id)
                  \/ Held(s, s.out, id) \/ Done(s, s.out, id)) =>
              Settled(r2, t2, id)
        /\ Ended(toHost, id) /\ Quiet(s, s.out, id) => Settled(r2, t2, id)
    BY <1>1, <1>2, <1>6, AfterStep
  <2>2. /\ Settled(r2, t2, id)
        /\ p1 = "quiet" /\ p = "quiet" => NoFrame(t2, id)
    BY ONLY <1>3, <1>4, <2>1, Leads(p, p1, p2) DEF Leads, PhaseName
  <2>. QED
    BY <1>2, <1>6, <2>2
<1>. QED
  BY <1>5, <1>6

\* The request goes on, or the connection ends.
LEMMA FlowsOn ==
    ASSUME RobotTyped, connected, NEW s \in RpcSending, GoesOn(s), NEW id,
           host'[id] = host[id],
           NEW p \in PhaseName, In(p, rpc, toHost, id),
           NEW p1 \in PhaseName, In(p1, s, s.out, id),
           NEW p2 \in PhaseName, Leads(p, p1, p2),
           NEW ops \in Ops, Asks(toRobot', id, ops), Fits(host[id], ops, p2),
           p2 = "quiet" => tape'[id].got = <<>>
    PROVE  Flow(id)'
<1>1. /\ connected' => In(p2, rpc', toHost', id)
      /\ ~connected' => /\ Settled(rpc', toHost', id)
                        /\ p1 = "quiet" /\ p = "quiet" => NoFrame(toHost', id)
  BY Onward
<1>2. host[id] = "free" => p2 = "quiet"
  BY DEF Fits
<1>3. p2 = "quiet" => p1 = "quiet" /\ p = "quiet"
  BY DEF Leads
<1>4. CASE connected'
  <2>1. Running(id, ops, p2)'
    BY <1>1, <1>4 DEF Running
  <2>. QED
    BY <1>4, <2>1 DEF Flow
<1>5. CASE ~connected'
  <2>1. Weak(id)'
    BY <1>1, <1>2, <1>3, <1>5 DEF Weak
  <2>. QED
    BY <1>5, <2>1 DEF Flow
<1>. QED
  BY <1>4, <1>5

\* A request that a step leaves alone.
LEMMA KeepsIn ==
    ASSUME RobotTyped, NEW id, NEW s, Keeps(rpc, s, id),
           NEW p \in PhaseName, In(p, rpc, toHost, id)
    PROVE  \E p1 \in PhaseName : In(p1, s, s.out, id) /\ Leads(p, p1, p)
<1>1. rpc.out = <<>>
  BY DEF RobotTyped
<1>2. /\ Quiet(rpc, toHost, id) => Quiet(rpc, rpc.out, id)
      /\ Busy(rpc, toHost, id) => Busy(rpc, rpc.out, id)
      /\ Held(rpc, toHost, id) => Held(rpc, rpc.out, id)
      /\ Done(rpc, toHost, id) => Quiet(rpc, rpc.out, id)
  BY <1>1, Start
<1>3. /\ Quiet(rpc, rpc.out, id) => Quiet(s, s.out, id)
      /\ Busy(rpc, rpc.out, id) => Busy(s, s.out, id)
      /\ Held(rpc, rpc.out, id) => Held(s, s.out, id)
  BY KeptPhase
<1>4. PICK r, t, o : r = rpc /\ t = toHost /\ o = s.out
  OBVIOUS
<1>5. CASE p = "done"
  <2>1. Quiet(s, s.out, id)
    BY <1>2, <1>3, <1>5 DEF In
  <2>2. In("quiet", s, s.out, id)
    BY <2>1 DEF In
  <2>. QED
    BY <1>5, <2>2 DEF Leads, PhaseName
<1>6. CASE p # "done"
  <2>1. /\ Quiet(r, t, id) => Quiet(s, o, id)
        /\ Busy(r, t, id) => Busy(s, o, id)
        /\ Held(r, t, id) => Held(s, o, id)
    BY <1>2, <1>3, <1>4
  <2>2. In(p, r, t, id)
    BY <1>4
  <2>3. In(p, s, o, id)
    BY ONLY <1>6, <2>1, <2>2, p \in PhaseName DEF In, PhaseName
  <2>4. Leads(p, p, p)
    BY <1>6 DEF Leads, PhaseName
  <2>. QED
    BY <1>4, <2>3, <2>4
<1>. QED
  BY <1>5, <1>6

\* What is left of the messages about id.
LEMMA Rests ==
    ASSUME toRobot \in Seq(Request), toRobot # <<>>, NEW id, NEW ops \in Ops,
           Asks(toRobot, id, ops), About(Head(toRobot).meant, id)
    PROVE  /\ Head(toRobot).meant.op = ops[1] /\ ops # <<>>
           /\ ops \in {JustRead, JustSubscribe, JustUnsubscribe} =>
                 Asks(Tail(toRobot), id, <<>>)
           /\ ops = Both => Asks(Tail(toRobot), id, JustUnsubscribe)
<1>1. ops \in Seq(Nat) /\ JustUnsubscribe \in Seq(Nat) /\ <<>> \in Seq(Nat)
  BY OpsAre DEF Ops
<1>2. /\ ops # <<>> /\ Head(toRobot).meant.op = ops[1]
      /\ \A rest \in Seq(Nat) :
            /\ Len(rest) = Len(ops) - 1
            /\ \A i \in 1 .. Len(ops) - 1 : rest[i] = ops[i + 1]
            => Asks(Tail(toRobot), id, rest)
  BY <1>1, AsksFirst
<1>3. ASSUME ops \in {JustRead, JustSubscribe, JustUnsubscribe}
      PROVE  Asks(Tail(toRobot), id, <<>>)
  <2>1. Len(ops) = 1
    BY <1>3, OpsAre
  <2>2. PICK rest \in Seq(Nat) : rest = <<>>
    BY <1>1
  <2>3. Len(rest) = Len(ops) - 1 /\ \A i \in 1 .. Len(ops) - 1 : FALSE
    BY <2>1, <2>2, OpsAre
  <2>4. Asks(Tail(toRobot), id, rest)
    BY <1>2, <2>3
  <2>. QED
    BY <2>2, <2>4
<1>4. ASSUME ops = Both PROVE Asks(Tail(toRobot), id, JustUnsubscribe)
  <2>1. Len(ops) = 2 /\ ops[2] = MESSAGES_OP_UNSUBSCRIBE
    BY <1>4, OpsAre
  <2>2. Len(JustUnsubscribe) = Len(ops) - 1
    BY <2>1, OpsAre
  <2>3. \A i \in 1 .. Len(ops) - 1 : i = 1
    BY <2>1
  <2>4. JustUnsubscribe[1] = ops[1 + 1]
    BY <2>1, OpsAre
  <2>5. \A i \in 1 .. Len(ops) - 1 : JustUnsubscribe[i] = ops[i + 1]
    BY <2>3, <2>4
  <2>. QED
    BY <1>1, <1>2, <2>2, <2>5
<1>. QED
  BY <1>2, <1>3, <1>4

\* Which messages come first.
LEMMA FirstOp ==
    ASSUME NEW ops \in Ops, NEW h, NEW p, Fits(h, ops, p), ops # <<>>
    PROVE  /\ ops[1] = MESSAGES_OP_READ =>
                 ops = JustRead /\ h = "reading" /\ p = "quiet"
           /\ ops[1] = MESSAGES_OP_SUBSCRIBE =>
                 /\ p = "quiet"
                 /\ \/ ops = JustSubscribe /\ h = "subscribed"
                    \/ ops = Both /\ h = "cancelling"
           /\ ops[1] = MESSAGES_OP_UNSUBSCRIBE /\ p = "held" =>
                 ops = JustUnsubscribe /\ h = "cancelling"
<1>1. ASSUME ops[1] = MESSAGES_OP_READ PROVE ops = JustRead
  BY <1>1, OpsAre, OpNumbers DEF Ops
<1>2. ASSUME ops[1] = MESSAGES_OP_SUBSCRIBE PROVE ops \in {JustSubscribe, Both}
  BY <1>2, OpsAre, OpNumbers DEF Ops
<1>3. /\ JustRead # <<>> /\ JustSubscribe # <<>> /\ JustUnsubscribe # <<>>
      /\ Both # <<>>
  <2>1. PICK e : e = <<>> /\ Len(e) = 0
    BY OpsAre
  <2>2. /\ Len(JustRead) # Len(e) /\ Len(JustSubscribe) # Len(e)
        /\ Len(JustUnsubscribe) # Len(e) /\ Len(Both) # Len(e)
    BY <2>1, OpsAre
  <2>3. /\ JustRead # e /\ JustSubscribe # e /\ JustUnsubscribe # e
        /\ Both # e
    BY <2>2
  <2>. QED
    BY <2>1, <2>3
<1>4. /\ JustRead # JustUnsubscribe /\ JustSubscribe # JustUnsubscribe
      /\ JustRead # JustSubscribe /\ Both # JustUnsubscribe
      /\ Both # JustRead /\ Both # JustSubscribe /\ OldThenRead # JustRead
      /\ OldThenSubscribe # JustSubscribe /\ OldThenSubscribe # Both
      /\ OldThenBoth # Both /\ OldThenBoth # JustSubscribe
      /\ OldThenRead # JustSubscribe /\ OldThenRead # Both
      /\ OldThenSubscribe # JustRead /\ OldThenBoth # JustRead
  BY OpsAre, OpNumbers
<1>5. ASSUME ops = JustRead PROVE h = "reading" /\ p = "quiet"
  BY <1>3, <1>4, <1>5 DEF Fits
<1>6. ASSUME ops = JustSubscribe PROVE h = "subscribed" /\ p = "quiet"
  BY <1>3, <1>4, <1>6 DEF Fits
<1>7. ASSUME ops = Both PROVE h = "cancelling" /\ p = "quiet"
  BY <1>3, <1>4, <1>7 DEF Fits
<1>8. ASSUME p = "held" PROVE ops = JustUnsubscribe /\ h = "cancelling"
  BY <1>8 DEF Fits
<1>. QED
  BY <1>1, <1>2, <1>5, <1>6, <1>7, <1>8

\* A message is handled: its request goes on, all others stay.
LEMMA RobotReceivesFlow ==
    ASSUME RobotTyped, HostTyped, NEW succeeds \in BOOLEAN,
           RobotReceives(succeeds), NEW id \in ReqId \ spoiled', Flow(id)
    PROVE  Flow(id)'
<1>1. PICK m \in HostMessage, s \in Rpc :
         m = Head(toRobot).meant /\ Receives(m, s)
  BY RobotReceivesIs
<1>2. /\ toRobot # <<>> /\ toRobot' = Tail(toRobot) /\ host' = host
      /\ connected
  BY DEF RobotReceives
<1>3. /\ GoesOn(s) /\ Received(rpc, s, m)
      /\ spoiled' = IF Crossed(m) THEN spoiled \cup {m.req_id} ELSE spoiled
      /\ tape' = IF s.reading = NotReading THEN tape
                 ELSE [tape EXCEPT ![m.req_id].recorded = files[m.subtopic]]
  BY <1>1 DEF Receives
<1>4. PICK ops \in Ops, p \in PhaseName : Running(id, ops, p)
  BY <1>2 DEF Flow
<1>5. /\ Asks(toRobot, id, ops) /\ Fits(host[id], ops, p)
      /\ In(p, rpc, toHost, id)
      /\ p = "quiet" => tape[id].got = <<>>
  BY <1>4 DEF Running
<1>6. tape'[id].got = tape[id].got
  <2>1. tape \in [ReqId -> [got : Seq(Octet), recorded : Seq(Octet)]]
    BY DEF HostTyped
  <2>. QED
    BY <1>3, <2>1
<1>7. toRobot \in Seq(Request) /\ ops \in Seq(Nat)
  BY OpsAre DEF HostTyped
<1>8. s \in RpcSending /\ rpc.out = <<>> /\ host'[id] = host[id]
  BY <1>2, Sending DEF RobotTyped
<1>9. CASE ~About(m, id)
  <2>1. Keeps(rpc, s, id)
    BY <1>3, <1>9 DEF Received
  <2>2. PICK p1 \in PhaseName : In(p1, s, s.out, id) /\ Leads(p, p1, p)
    BY <1>5, <2>1, KeepsIn
  <2>3. Asks(toRobot', id, ops)
    BY <1>1, <1>2, <1>5, <1>7, <1>9, AsksTail
  <2>. QED
    BY <1>2, <1>3, <1>5, <1>6, <1>8, <2>2, <2>3, FlowsOn
<1>10. CASE About(m, id)
  <2>1. /\ m.op = ops[1] /\ ops # <<>>
        /\ ops \in {JustRead, JustSubscribe, JustUnsubscribe} =>
              Asks(toRobot', id, <<>>)
        /\ ops = Both => Asks(toRobot', id, JustUnsubscribe)
    BY <1>1, <1>2, <1>5, <1>7, <1>10, Rests
  <2>2. /\ m.op = MESSAGES_OP_READ /\ Quiet(rpc, rpc.out, id) =>
              Busy(s, s.out, id) \/ Done(s, s.out, id)
        /\ m.op = MESSAGES_OP_SUBSCRIBE /\ Quiet(rpc, rpc.out, id) =>
              Held(s, s.out, id) \/ Done(s, s.out, id)
        /\ m.op = MESSAGES_OP_UNSUBSCRIBE /\ Held(rpc, rpc.out, id) =>
              Done(s, s.out, id)
    BY <1>3, <1>10 DEF Received
  <2>3. /\ p = "quiet" => Quiet(rpc, rpc.out, id)
        /\ p = "held" => Held(rpc, rpc.out, id)
    BY <1>5, <1>8, Start DEF In
  <2>4. <<>> \in Ops /\ JustUnsubscribe \in Ops
        /\ "busy" \in PhaseName /\ "held" \in PhaseName /\ "done" \in PhaseName
    BY DEF Ops, PhaseName
  <2>5. CASE m.op = MESSAGES_OP_READ
    <3>1. ops = JustRead /\ host[id] = "reading" /\ p = "quiet"
      BY <1>5, <2>1, <2>5, FirstOp
    <3>2. PICK p1 \in {"busy", "done"} : In(p1, s, s.out, id)
      BY <2>2, <2>3, <2>5, <3>1 DEF In
    <3>3. Leads(p, p1, p1) /\ Fits(host[id], <<>>, p1) /\ p1 # "quiet"
          /\ p1 \in PhaseName
      BY <3>1, <3>2 DEF Leads, Fits, PhaseName
    <3>4. Asks(toRobot', id, <<>>)
      BY <2>1, <3>1
    <3>. QED
      BY <1>2, <1>3, <1>5, <1>8, <2>4, <3>2, <3>3, <3>4, FlowsOn
  <2>6. CASE m.op = MESSAGES_OP_SUBSCRIBE
    <3>1. /\ p = "quiet"
          /\ \/ ops = JustSubscribe /\ host[id] = "subscribed"
             \/ ops = Both /\ host[id] = "cancelling"
      BY <1>5, <2>1, <2>6, FirstOp
    <3>2. PICK p1 \in {"held", "done"} : In(p1, s, s.out, id)
      BY <2>2, <2>3, <2>6, <3>1 DEF In
    <3>3. PICK rest \in Ops :
             Asks(toRobot', id, rest) /\ Fits(host[id], rest, p1)
      BY <2>1, <2>4, <3>1, <3>2 DEF Fits
    <3>4. Leads(p, p1, p1) /\ p1 # "quiet" /\ p1 \in PhaseName
      BY <3>1, <3>2 DEF Leads, PhaseName
    <3>. QED
      BY <1>2, <1>3, <1>5, <1>8, <3>2, <3>3, <3>4, FlowsOn
  <2>7. CASE m.op = MESSAGES_OP_UNSUBSCRIBE
    <3>1. SubFind(rpc, id) # {}
      <4>1. m.req_id = id
        BY <1>10 DEF About
      <4>2. ~Crossed(m)
        BY <1>3, <4>1
      <4>. QED
        BY <2>7, <4>1, <4>2 DEF Crossed
    <3>2. p = "held"
      BY <1>5, <3>1 DEF In, Quiet, Busy, Done
    <3>3. ops = JustUnsubscribe /\ host[id] = "cancelling"
      BY <1>5, <2>1, <2>7, <3>2, FirstOp
    <3>4. In("done", s, s.out, id)
      BY <2>2, <2>3, <2>7, <3>2 DEF In
    <3>5. Leads(p, "done", "done") /\ Fits(host[id], <<>>, "done")
      BY <3>2, <3>3 DEF Leads, Fits
    <3>6. Asks(toRobot', id, <<>>)
      BY <2>1, <3>3
    <3>7. "done" # "quiet"
      OBVIOUS
    <3>. QED
      BY <1>2, <1>3, <1>5, <1>8, <2>4, <3>4, <3>5, <3>6, <3>7, FlowsOn
  <2>. QED
    BY <1>10, <2>5, <2>6, <2>7 DEF About
<1>. QED
  BY <1>9, <1>10

\* The connection has ended: nothing more is sent.
LEMMA WeakOn ==
    ASSUME RobotTyped, ~connected, NEW s \in RpcSending, GoesOn(s),
           host' = host, NEW id, Flow(id), Reads(s, id) => Reads(rpc, id)
    PROVE  Flow(id)'
<1>1. /\ rpc' = Sent(s) /\ ~connected' /\ toHost' = toHost
  BY GoingOn DEF RobotTyped
<1>2. Reads(rpc', id) <=> Reads(s, id)
  BY <1>1, SentIs
<1>3. Weak(id)
  BY DEF Flow
<1>4. Weak(id)'
  BY <1>1, <1>2, <1>3 DEF Weak, Settled
<1>. QED
  BY <1>1, <1>4 DEF Flow

\* One frame, two frames, none.
LEMMA OneFrame ==
    ASSUME NEW e, NEW id
    PROVE  /\ ~IsFor(e.meant, id) => NoFrame(<<e>>, id)
           /\ (IsFor(e.meant, id) => ~Ends(e.meant)) => Unended(<<e>>, id)
           /\ IsFor(e.meant, id) /\ Ends(e.meant) => Ended(<<e>>, id)
<1>1. PICK o : o = <<e>>
  OBVIOUS
<1>2. Len(o) = 1 /\ o[1] = e /\ \A i \in 1 .. Len(o) : i = 1
  BY <1>1
<1>. QED
  BY <1>1, <1>2 DEF NoFrame, Unended, Ended, EndsAt

LEMMA TwoFrames ==
    ASSUME NEW e, NEW l, NEW id
    PROVE  /\ ~IsFor(e.meant, id) /\ ~IsFor(l.meant, id) => NoFrame(<<e, l>>, id)
           /\ ~Ends(e.meant) /\ IsFor(l.meant, id) /\ Ends(l.meant) =>
                Ended(<<e, l>>, id)
<1>1. PICK o : o = <<e, l>>
  OBVIOUS
<1>2. Len(o) = 2 /\ o[1] = e /\ o[2] = l
      /\ \A i \in 1 .. Len(o) : i = 1 \/ i = 2
  BY <1>1
<1>3. 2 \in 1 .. Len(o) /\ 1 <= 2 /\ 2 <= 2
  BY <1>2
<1>4. ~IsFor(e.meant, id) /\ ~IsFor(l.meant, id) => NoFrame(o, id)
  BY <1>2 DEF NoFrame
<1>5. ~Ends(e.meant) /\ IsFor(l.meant, id) /\ Ends(l.meant) => EndsAt(o, id, 2)
  BY <1>2, <1>3 DEF EndsAt
<1>. QED
  BY <1>1, <1>3, <1>4, <1>5 DEF Ended

\* Octets of a file do not end a request, their number does.
LEMMA PieceIs ==
    ASSUME NEW m, NEW r, NEW v, Piece(m, r, v), NEW id
    PROVE  ~Ends(m) /\ (IsFor(m, id) <=> id = r.read.req_id)
<1>1. m.flag = 0 /\ m.req_id = r.read.req_id /\ m.op = MESSAGES_OP_DATA
  BY DataFields DEF Piece
<1>. QED
  BY <1>1, Flags DEF Ends, IsFor

LEMMA LengthIs ==
    ASSUME NEW m, NEW r, Length(m, r), NEW id
    PROVE  Ends(m) /\ (IsFor(m, id) <=> id = r.read.req_id)
<1>1. m.flag = 1 /\ m.req_id = r.read.req_id /\ m.op = MESSAGES_OP_DATA
  BY DataFields DEF Length
<1>. QED
  BY <1>1, Flags DEF Ends, IsFor

LEMMA EmptyOut ==
    ASSUME NEW o, o = <<>>, NEW id
    PROVE  NoFrame(o, id) /\ Unended(o, id) /\ ~Ended(o, id)
<1>1. \A i \in 1 .. Len(o) : FALSE
  OBVIOUS
<1>. QED
  BY <1>1 DEF NoFrame, Unended, Ended

\* The loop goes on with its request.
LEMMA OctetFlow ==
    ASSUME RobotTyped, rpc.reading # NotReading, NEW s,
           TakesOctet(s, rpc.reading), NEW id
    PROVE  IF id = rpc.reading.read.req_id THEN Adds(rpc, s, id)
                                           ELSE Keeps(rpc, s, id)
<1>1. PICK r : r = rpc.reading
  OBVIOUS
<1>2. r \in Loop /\ s.reading \in Loop /\ s.reading.read = r.read
      /\ s.subs = rpc.subs
  BY <1>1, LoopFields DEF TakesOctet, Same
<1>3. Holds(rpc, s, id)
  BY <1>1, <1>2, LoopIsNot DEF Holds, SubFind, Reads
<1>4. \/ s.out = <<>>
      \/ \E e : s.out = <<e>> /\ Piece(e.meant, r, Append(r.tmp, OctetRead(r)))
  BY <1>1 DEF TakesOctet
<1>5. Unended(s.out, id) /\ (id # r.read.req_id => NoFrame(s.out, id))
  BY <1>4, EmptyOut, OneFrame, PieceIs
<1>6. ~Ended(rpc.out, id)
  BY EmptyOut DEF RobotTyped
<1>. QED
  BY <1>1, <1>3, <1>5, <1>6 DEF Adds, Keeps

\* The end of the file ends the request.
LEMMA EndFlow ==
    ASSUME RobotTyped, rpc.reading # NotReading, NEW s,
           TakesEnd(s, rpc.reading), NEW id
    PROVE  /\ SubFind(s, id) = SubFind(rpc, id) /\ ~Reads(s, id)
           /\ IF id = rpc.reading.read.req_id THEN Ended(s.out, id)
                                              ELSE Keeps(rpc, s, id)
<1>1. PICK r : r = rpc.reading
  OBVIOUS
<1>2. r \in Loop /\ s.reading = NotReading /\ s.subs = rpc.subs
  BY <1>1, LoopFields DEF TakesEnd, Same
<1>3. SubFind(s, id) = SubFind(rpc, id) /\ ~Reads(s, id)
  BY <1>2 DEF SubFind, Reads
<1>4. \/ \E l : s.out = <<l>> /\ Length(l.meant, r)
      \/ \E p, l : s.out = <<p, l>> /\ Piece(p.meant, r, r.tmp)
                   /\ Length(l.meant, r)
  BY <1>1 DEF TakesEnd
<1>5. IF id = r.read.req_id THEN Ended(s.out, id) ELSE NoFrame(s.out, id)
  <2>1. ASSUME NEW l, s.out = <<l>>, Length(l.meant, r)
        PROVE  IF id = r.read.req_id THEN Ended(s.out, id)
                                     ELSE NoFrame(s.out, id)
    <3>1. Ends(l.meant) /\ (IsFor(l.meant, id) <=> id = r.read.req_id)
      BY <2>1, LengthIs
    <3>. QED
      BY <2>1, <3>1, OneFrame
  <2>2. ASSUME NEW p, NEW l, s.out = <<p, l>>, Piece(p.meant, r, r.tmp),
               Length(l.meant, r)
        PROVE  IF id = r.read.req_id THEN Ended(s.out, id)
                                     ELSE NoFrame(s.out, id)
    <3>1. Ends(l.meant) /\ (IsFor(l.meant, id) <=> id = r.read.req_id)
      BY <2>2, LengthIs
    <3>2. ~Ends(p.meant) /\ (IsFor(p.meant, id) <=> id = r.read.req_id)
      BY <2>2, PieceIs
    <3>. QED
      BY <2>2, <3>1, <3>2, TwoFrames
  <2>. QED
    BY <1>4, <2>1, <2>2
<1>6. ~Ended(rpc.out, id)
  BY EmptyOut DEF RobotTyped
<1>7. id # r.read.req_id => Keeps(rpc, s, id)
  <2>1. SUFFICES ASSUME id # r.read.req_id PROVE Keeps(rpc, s, id)
    OBVIOUS
  <2>2. NoFrame(s.out, id)
    BY <1>5, <2>1
  <2>3. ~Reads(rpc, id)
    BY <1>1, <2>1 DEF Reads
  <2>. QED
    BY <1>3, <1>6, <2>2, <2>3, NoFrameUnended DEF Keeps, Holds
<1>. QED
  BY <1>1, <1>3, <1>5, <1>7

\* What is neither received nor sent by the host does not change.
LEMMA SameCourse ==
    ASSUME RobotTyped, connected, toRobot' = toRobot, host' = host, tape' = tape,
           NEW s \in RpcSending, GoesOn(s), NEW id, NEW ops \in Ops,
           NEW p \in PhaseName, Running(id, ops, p),
           NEW p1 \in PhaseName, In(p1, s, s.out, id),
           NEW p2 \in PhaseName, Leads(p, p1, p2), Fits(host[id], ops, p2)
    PROVE  Flow(id)'
<1>1. /\ Asks(toRobot', id, ops) /\ In(p, rpc, toHost, id)
      /\ p = "quiet" => tape'[id].got = <<>>
  BY DEF Running
<1>2. p2 = "quiet" => tape'[id].got = <<>>
  BY <1>1 DEF Leads
<1>3. host'[id] = host[id]
  OBVIOUS
<1>. QED
  BY <1>1, <1>2, <1>3, FlowsOn

\* A turn of the loop, its end, and a turn of the server task.
LEMMA ReadOctetFlow ==
    ASSUME RobotTyped, ReadOctet, NEW id, Flow(id)
    PROVE  Flow(id)'
<1>1. PICK s \in RpcSending : GoesOn(s) /\ TakesOctet(s, rpc.reading)
  BY ReadOctetIs
<1>2. /\ rpc.reading # NotReading
      /\ toRobot' = toRobot /\ host' = host /\ tape' = tape
  BY DEF ReadOctet, hostVars
<1>3. IF id = rpc.reading.read.req_id THEN Adds(rpc, s, id)
                                      ELSE Keeps(rpc, s, id)
  BY <1>1, <1>2, OctetFlow
<1>4. CASE ~connected
  <2>1. Reads(s, id) => Reads(rpc, id)
    BY <1>3 DEF Adds, Keeps, Holds
  <2>. QED
    BY <1>1, <1>2, <1>4, <2>1, WeakOn
<1>5. CASE connected
  <2>1. PICK ops \in Ops, p \in PhaseName : Running(id, ops, p)
    BY <1>5 DEF Flow
  <2>2. In(p, rpc, toHost, id) /\ Fits(host[id], ops, p)
    BY <2>1 DEF Running
  <2>3. PICK p1 \in PhaseName : In(p1, s, s.out, id) /\ Leads(p, p1, p)
    <3>1. CASE id # rpc.reading.read.req_id
      BY <1>3, <2>2, <3>1, KeepsIn
    <3>2. CASE id = rpc.reading.read.req_id
      <4>1. Adds(rpc, s, id) /\ Reads(rpc, id)
        BY <1>2, <1>3, <3>2 DEF Reads
      <4>2. p = "busy" /\ Busy(rpc, toHost, id)
        BY <2>2, <4>1 DEF In, Quiet, Held, Done
      <4>3. Busy(rpc, rpc.out, id)
        BY <4>2, Start DEF RobotTyped
      <4>4. Busy(s, s.out, id)
        BY <4>1, <4>3 DEF Adds, Holds, Busy
      <4>. QED
        BY <4>2, <4>4 DEF In, Leads, PhaseName
    <3>. QED
      BY <3>1, <3>2
  <2>. QED
    BY <1>1, <1>2, <1>5, <2>1, <2>2, <2>3, SameCourse
<1>. QED
  BY <1>4, <1>5

LEMMA EndOfFileFlow ==
    ASSUME RobotTyped, EndOfFile, NEW id, Flow(id)
    PROVE  Flow(id)'
<1>1. PICK s \in RpcSending : GoesOn(s) /\ TakesEnd(s, rpc.reading)
  BY EndOfFileIs
<1>2. /\ rpc.reading # NotReading
      /\ toRobot' = toRobot /\ host' = host /\ tape' = tape
  BY DEF EndOfFile, hostVars
<1>3. /\ SubFind(s, id) = SubFind(rpc, id) /\ ~Reads(s, id)
      /\ IF id = rpc.reading.read.req_id THEN Ended(s.out, id)
                                         ELSE Keeps(rpc, s, id)
  BY <1>1, <1>2, EndFlow
<1>4. CASE ~connected
  BY <1>1, <1>2, <1>3, <1>4, WeakOn
<1>5. CASE connected
  <2>1. PICK ops \in Ops, p \in PhaseName : Running(id, ops, p)
    BY <1>5 DEF Flow
  <2>2. In(p, rpc, toHost, id) /\ Fits(host[id], ops, p)
    BY <2>1 DEF Running
  <2>3. PICK p1 \in PhaseName, p2 \in PhaseName :
           In(p1, s, s.out, id) /\ Leads(p, p1, p2) /\ Fits(host[id], ops, p2)
    <3>1. CASE id # rpc.reading.read.req_id
      BY <1>3, <2>2, <3>1, KeepsIn
    <3>2. CASE id = rpc.reading.read.req_id
      <4>1. Reads(rpc, id)
        BY <1>2, <3>2 DEF Reads
      <4>2. p = "busy" /\ Busy(rpc, toHost, id)
        BY <2>2, <4>1 DEF In, Quiet, Held, Done
      <4>3. Done(s, s.out, id)
        BY <1>3, <3>2, <4>2 DEF Busy, Done
      <4>4. Fits(host[id], ops, "done")
        BY <2>2, <4>2 DEF Fits
      <4>. QED
        BY <4>2, <4>3, <4>4 DEF In, Leads, PhaseName
    <3>. QED
      BY <3>1, <3>2
  <2>. QED
    BY <1>1, <1>2, <1>5, <2>1, <2>3, SameCourse
<1>. QED
  BY <1>4, <1>5

LEMMA RpcLoopFlow ==
    ASSUME RobotTyped, RpcLoop, NEW id \in ReqId, Flow(id)
    PROVE  Flow(id)'
<1>1. /\ toRobot' = toRobot /\ host' = host /\ tape' = tape
      /\ connected /\ rpc.reading = NotReading
  BY DEF RpcLoop, hostVars, world
<1>2. WorldType /\ rpc \in Rpc /\ rpc.out = <<>>
  BY DEF RobotTyped
<1>3. PICK s : /\ GoesOn(s)
               /\ \/ s = Published[RPC_SUB_MAX]
                  \/ s = Send(rpc, InfoFrame(ROBOT, NOW, Clock))
  BY DEF RpcLoop
<1>4. PICK ops \in Ops, p \in PhaseName : Running(id, ops, p)
  BY <1>1 DEF Flow
<1>5. In(p, rpc, toHost, id) /\ Fits(host[id], ops, p)
  BY <1>4 DEF Running
<1>6. CASE s = Send(rpc, InfoFrame(ROBOT, NOW, Clock))
  <2>1. Calm(rpc, s) /\ Keeps(rpc, s, id)
    BY <1>2, <1>6, RobotIs
  <2>2. s \in RpcSending
    BY <2>1, Sending DEF Calm
  <2>3. PICK p1 \in PhaseName : In(p1, s, s.out, id) /\ Leads(p, p1, p)
    BY <1>5, <2>1, KeepsIn
  <2>. QED
    BY <1>1, <1>3, <1>4, <1>5, <2>2, <2>3, SameCourse
<1>7. CASE s = Published[RPC_SUB_MAX]
  <2>1. /\ s \in Rpc /\ s.reading = rpc.reading
        /\ Quiet(rpc, rpc.out, id) => Quiet(s, s.out, id)
        /\ Held(rpc, rpc.out, id) => Held(s, s.out, id) \/ Done(s, s.out, id)
    BY <1>2, <1>7, PublishedPhase
  <2>2. s \in RpcSending
    BY <2>1, Sending
  <2>3. PICK p1 \in PhaseName, p2 \in PhaseName :
           In(p1, s, s.out, id) /\ Leads(p, p1, p2) /\ Fits(host[id], ops, p2)
    <3>1. CASE p = "quiet"
      <4>1. Quiet(s, s.out, id)
        BY <1>2, <1>5, <2>1, <3>1, Start DEF In
      <4>. QED
        BY <1>5, <3>1, <4>1 DEF In, Leads, PhaseName
    <3>2. CASE p = "busy"
      <4>1. Reads(rpc, id)
        BY <1>5, <3>2 DEF In, Busy
      <4>. QED
        BY <1>1, <4>1 DEF Reads
    <3>3. CASE p = "held"
      <4>1. Held(s, s.out, id) \/ Done(s, s.out, id)
        BY <1>2, <1>5, <2>1, <3>3, Start DEF In
      <4>2. Fits(host[id], ops, "held") /\ Fits(host[id], ops, "done")
        BY <1>5, <3>3 DEF Fits
      <4>. QED
        BY <3>3, <4>1, <4>2 DEF In, Leads, PhaseName
    <3>4. CASE p = "done"
      <4>1. Quiet(s, s.out, id)
        BY <1>2, <1>5, <2>1, <3>4, Start DEF In
      <4>. QED
        BY <1>5, <3>4, <4>1 DEF In, Leads, PhaseName
    <3>. QED
      BY <3>1, <3>2, <3>3, <3>4 DEF PhaseName
  <2>. QED
    BY <1>1, <1>3, <1>4, <2>2, <2>3, SameCourse
<1>. QED
  BY <1>3, <1>6, <1>7

-----------------------------------------------------------------------------
(* The host goes on.                                                       *)

\* The host asks for one more thing.
LEMMA GrownOne ==
    ASSUME NEW q \in Seq(Request), NEW e \in Request, NEW id,
           About(e.meant, id), NEW ops \in Seq(Nat), Len(ops) = 0,
           Asks(q, id, ops), NEW more \in Seq(Nat), Len(more) = 1,
           more[1] = e.meant.op
    PROVE  Asks(Append(q, e), id, more)
<1>1. Len(more) = Len(ops) + 1 /\ more[Len(ops) + 1] = e.meant.op
  OBVIOUS
<1>2. \A i \in 1 .. Len(ops) : more[i] = ops[i]
  OBVIOUS
<1>. QED
  BY <1>1, <1>2, AsksMore

LEMMA GrownTwo ==
    ASSUME NEW q \in Seq(Request), NEW e \in Request, NEW id,
           About(e.meant, id), NEW ops \in Seq(Nat), Len(ops) = 1,
           Asks(q, id, ops), NEW more \in Seq(Nat), Len(more) = 2,
           more[1] = ops[1], more[2] = e.meant.op
    PROVE  Asks(Append(q, e), id, more)
<1>1. Len(more) = Len(ops) + 1 /\ more[Len(ops) + 1] = e.meant.op
  OBVIOUS
<1>2. \A i \in 1 .. Len(ops) : i = 1
  OBVIOUS
<1>3. \A i \in 1 .. Len(ops) : more[i] = ops[i]
  BY <1>2
<1>. QED
  BY <1>1, <1>3, AsksMore

LEMMA GrownThree ==
    ASSUME NEW q \in Seq(Request), NEW e \in Request, NEW id,
           About(e.meant, id), NEW ops \in Seq(Nat), Len(ops) = 2,
           Asks(q, id, ops), NEW more \in Seq(Nat), Len(more) = 3,
           more[1] = ops[1], more[2] = ops[2], more[3] = e.meant.op
    PROVE  Asks(Append(q, e), id, more)
<1>1. Len(more) = Len(ops) + 1 /\ more[Len(ops) + 1] = e.meant.op
  OBVIOUS
<1>2. \A i \in 1 .. Len(ops) : i = 1 \/ i = 2
  OBVIOUS
<1>3. \A i \in 1 .. Len(ops) : more[i] = ops[i]
  BY <1>2
<1>. QED
  BY <1>1, <1>3, AsksMore

\* What is asked for when the host has sent READ, SUBSCRIBE, UNSUBSCRIBE.
LEMMA AsksRead ==
    ASSUME NEW q \in Seq(Request), NEW e \in Request, NEW id,
           About(e.meant, id), e.meant.op = MESSAGES_OP_READ
    PROVE  /\ Asks(q, id, <<>>) => Asks(Append(q, e), id, JustRead)
           /\ Asks(q, id, JustUnsubscribe) => Asks(Append(q, e), id, OldThenRead)
<1>1. PICK e1 \in Seq(Nat) : e1 = <<>> /\ Len(e1) = 0
  BY OpsAre
<1>2. PICK u \in Seq(Nat), r \in Seq(Nat), ur \in Seq(Nat) :
         u = JustUnsubscribe /\ r = JustRead /\ ur = OldThenRead
  BY OpsAre DEF Ops
<1>3. /\ Len(u) = 1 /\ Len(r) = 1 /\ r[1] = MESSAGES_OP_READ
      /\ Len(ur) = 2 /\ ur[1] = u[1] /\ ur[2] = MESSAGES_OP_READ
  BY <1>2, OpsAre
<1>4. Asks(q, id, e1) => Asks(Append(q, e), id, r)
  BY <1>1, <1>3, GrownOne
<1>5. Asks(q, id, u) => Asks(Append(q, e), id, ur)
  BY <1>3, GrownTwo
<1>. QED
  BY <1>1, <1>2, <1>4, <1>5

LEMMA AsksSubscribe ==
    ASSUME NEW q \in Seq(Request), NEW e \in Request, NEW id,
           About(e.meant, id), e.meant.op = MESSAGES_OP_SUBSCRIBE
    PROVE  /\ Asks(q, id, <<>>) => Asks(Append(q, e), id, JustSubscribe)
           /\ Asks(q, id, JustUnsubscribe) =>
                 Asks(Append(q, e), id, OldThenSubscribe)
<1>1. PICK e1 \in Seq(Nat) : e1 = <<>> /\ Len(e1) = 0
  BY OpsAre
<1>2. PICK u \in Seq(Nat), r \in Seq(Nat), ur \in Seq(Nat) :
         u = JustUnsubscribe /\ r = JustSubscribe /\ ur = OldThenSubscribe
  BY OpsAre DEF Ops
<1>3. /\ Len(u) = 1 /\ Len(r) = 1 /\ r[1] = MESSAGES_OP_SUBSCRIBE
      /\ Len(ur) = 2 /\ ur[1] = u[1] /\ ur[2] = MESSAGES_OP_SUBSCRIBE
  BY <1>2, OpsAre
<1>4. Asks(q, id, e1) => Asks(Append(q, e), id, r)
  BY <1>1, <1>3, GrownOne
<1>5. Asks(q, id, u) => Asks(Append(q, e), id, ur)
  BY <1>3, GrownTwo
<1>. QED
  BY <1>1, <1>2, <1>4, <1>5

LEMMA AsksUnsubscribe ==
    ASSUME NEW q \in Seq(Request), NEW e \in Request, NEW id,
           About(e.meant, id), e.meant.op = MESSAGES_OP_UNSUBSCRIBE
    PROVE  /\ Asks(q, id, <<>>) => Asks(Append(q, e), id, JustUnsubscribe)
           /\ Asks(q, id, JustSubscribe) => Asks(Append(q, e), id, Both)
           /\ Asks(q, id, OldThenSubscribe) =>
                 Asks(Append(q, e), id, OldThenBoth)
<1>1. PICK e1 \in Seq(Nat) : e1 = <<>> /\ Len(e1) = 0
  BY OpsAre
<1>2. PICK u \in Seq(Nat), r \in Seq(Nat), ru \in Seq(Nat) :
         u = JustUnsubscribe /\ r = JustSubscribe /\ ru = Both
  BY OpsAre DEF Ops
<1>3. /\ Len(u) = 1 /\ u[1] = MESSAGES_OP_UNSUBSCRIBE /\ Len(r) = 1
      /\ Len(ru) = 2 /\ ru[1] = r[1] /\ ru[2] = MESSAGES_OP_UNSUBSCRIBE
  BY <1>2, OpsAre
<1>4. Asks(q, id, e1) => Asks(Append(q, e), id, u)
  BY <1>1, <1>3, GrownOne
<1>5. Asks(q, id, r) => Asks(Append(q, e), id, ru)
  BY <1>3, GrownTwo
<1>6. PICK x \in Seq(Nat), y \in Seq(Nat) :
         x = OldThenSubscribe /\ y = OldThenBoth
  BY OpsAre DEF Ops
<1>7. /\ Len(x) = 2 /\ Len(y) = 3 /\ y[1] = x[1] /\ y[2] = x[2]
      /\ y[3] = MESSAGES_OP_UNSUBSCRIBE
  BY <1>6, OpsAre
<1>8. Asks(q, id, x) => Asks(Append(q, e), id, y)
  BY <1>7, GrownThree
<1>. QED
  BY <1>1, <1>2, <1>4, <1>5, <1>6, <1>8

\* The host has sent something, and the phase is the same.
LEMMA HostGoesOn ==
    ASSUME connected, NEW e, Sends(e), NEW id,
           NEW p \in PhaseName, In(p, rpc, toHost, id),
           p = "quiet" => tape[id].got = <<>>,
           NEW ops \in Ops, Asks(toRobot', id, ops), Fits(host'[id], ops, p)
    PROVE  Flow(id)'
<1>1. rpc' = rpc /\ toHost' = toHost /\ tape' = tape /\ connected'
  BY DEF Sends
<1>2. Running(id, ops, p)'
  BY <1>1 DEF Running
<1>. QED
  BY <1>1, <1>2 DEF Flow

\* It has sent something about another request.
LEMMA SendsOther ==
    ASSUME HostTyped, NEW e \in Request, Sends(e), NEW id, Flow(id),
           ~About(e.meant, id), host'[id] = host[id]
    PROVE  Flow(id)'
<1>1. connected /\ toRobot' = Append(toRobot, e) /\ toRobot \in Seq(Request)
  BY DEF Sends, HostTyped
<1>2. PICK ops \in Ops, p \in PhaseName : Running(id, ops, p)
  BY <1>1 DEF Flow
<1>3. /\ Asks(toRobot, id, ops) /\ Fits(host[id], ops, p)
      /\ In(p, rpc, toHost, id)
      /\ p = "quiet" => tape[id].got = <<>>
  BY <1>2 DEF Running
<1>4. ops \in Seq(Nat)
  BY OpsAre
<1>5. Asks(Append(toRobot, e), id, ops)
  BY <1>1, <1>3, <1>4, AsksStill
<1>6. Asks(toRobot', id, ops)
  BY <1>1, <1>5
<1>. QED
  BY <1>1, <1>3, <1>6, HostGoesOn

\* The host sends READ, SUBSCRIBE (also again), UNSUBSCRIBE, or what has no id.
LEMMA HostReadsFlow ==
    ASSUME HostTyped, NEW q \in ReqId, NEW t \in Readable, HostReads(q, t),
           NEW id \in ReqId, Flow(id)
    PROVE  Flow(id)'
<1>1. PICK e : e = Whole(ReadFrame(q, t[1], t[2]))
  OBVIOUS
<1>2. e \in Request /\ e.meant.op = MESSAGES_OP_READ /\ e.meant.req_id = q
  BY <1>1, ReadRequest
<1>3. /\ Sends(e) /\ connected /\ host[q] = "free"
      /\ host' = [host EXCEPT ![q] = "reading"]
  BY <1>1 DEF HostReads, Sends
<1>4. About(e.meant, id) <=> id = q
  BY <1>2 DEF About
<1>5. CASE id # q
  <2>1. host'[id] = host[id]
    BY <1>3, <1>5 DEF HostTyped
  <2>. QED
    BY <1>2, <1>3, <1>4, <1>5, <2>1, SendsOther
<1>6. CASE id = q
  <2>1. host'[id] = "reading" /\ host[id] = "free"
    BY <1>3, <1>6 DEF HostTyped
  <2>2. /\ toRobot' = Append(toRobot, e) /\ toRobot \in Seq(Request)
    BY <1>3 DEF Sends, HostTyped
  <2>3. PICK ops \in Ops, p \in PhaseName : Running(id, ops, p)
    BY <1>3 DEF Flow
  <2>4. /\ Asks(toRobot, id, ops) /\ Fits(host[id], ops, p)
        /\ In(p, rpc, toHost, id)
        /\ p = "quiet" => tape[id].got = <<>>
    BY <2>3 DEF Running
  <2>5. p = "quiet" /\ ops \in {<<>>, JustUnsubscribe}
    BY <2>1, <2>4 DEF Fits
  <2>6. About(e.meant, id)
    BY <1>4, <1>6
  <2>7. PICK more \in {JustRead, OldThenRead} : Asks(Append(toRobot, e), id, more)
    BY <1>2, <2>2, <2>4, <2>5, <2>6, AsksRead
  <2>8. more \in Ops
    BY <2>7 DEF Ops
  <2>9. Fits(host'[id], more, p)
    BY <2>1, <2>5, <2>7 DEF Fits
  <2>10. Asks(toRobot', id, more)
    BY <2>2, <2>7
  <2>. QED
    BY <1>3, <2>4, <2>8, <2>9, <2>10, HostGoesOn
<1>. QED
  BY <1>5, <1>6

LEMMA HostSubscribesFlow ==
    ASSUME HostTyped, NEW q \in ReqId, NEW t \in Subscribable,
           HostSubscribes(q, t), NEW id \in ReqId, Flow(id)
    PROVE  Flow(id)'
<1>1. PICK e : e = Whole(SubscribeFrame(q, t[1], t[2]))
  OBVIOUS
<1>2. e \in Request /\ e.meant.op = MESSAGES_OP_SUBSCRIBE /\ e.meant.req_id = q
  BY <1>1, SubscribeRequest
<1>3. /\ Sends(e) /\ connected /\ host[q] = "free"
      /\ host' = [host EXCEPT ![q] = "subscribed"]
  BY <1>1 DEF HostSubscribes, Sends
<1>4. About(e.meant, id) <=> id = q
  BY <1>2 DEF About
<1>5. CASE id # q
  <2>1. host'[id] = host[id]
    BY <1>3, <1>5 DEF HostTyped
  <2>. QED
    BY <1>2, <1>3, <1>4, <1>5, <2>1, SendsOther
<1>6. CASE id = q
  <2>1. host'[id] = "subscribed" /\ host[id] = "free"
    BY <1>3, <1>6 DEF HostTyped
  <2>2. /\ toRobot' = Append(toRobot, e) /\ toRobot \in Seq(Request)
    BY <1>3 DEF Sends, HostTyped
  <2>3. PICK ops \in Ops, p \in PhaseName : Running(id, ops, p)
    BY <1>3 DEF Flow
  <2>4. /\ Asks(toRobot, id, ops) /\ Fits(host[id], ops, p)
        /\ In(p, rpc, toHost, id)
        /\ p = "quiet" => tape[id].got = <<>>
    BY <2>3 DEF Running
  <2>5. p = "quiet" /\ ops \in {<<>>, JustUnsubscribe}
    BY <2>1, <2>4 DEF Fits
  <2>6. About(e.meant, id)
    BY <1>4, <1>6
  <2>7. PICK more \in {JustSubscribe, OldThenSubscribe} : Asks(Append(toRobot, e), id, more)
    BY <1>2, <2>2, <2>4, <2>5, <2>6, AsksSubscribe
  <2>8. more \in Ops
    BY <2>7 DEF Ops
  <2>9. Fits(host'[id], more, p)
    BY <2>1, <2>5, <2>7 DEF Fits
  <2>10. Asks(toRobot', id, more)
    BY <2>2, <2>7
  <2>. QED
    BY <1>3, <2>4, <2>8, <2>9, <2>10, HostGoesOn
<1>. QED
  BY <1>5, <1>6

LEMMA HostSubscribesAgainFlow ==
    ASSUME HostTyped, NEW q \in ReqId, NEW t \in Subscribable,
           HostSubscribesAgain(q, t), NEW id \in ReqId \ spoiled', Flow(id)
    PROVE  Flow(id)'
<1>1. PICK e : e = Whole(SubscribeFrame(q, t[1], t[2]))
  OBVIOUS
<1>2. e \in Request /\ e.meant.req_id = q
  BY <1>1, SubscribeRequest
<1>3. Sends(e) /\ host' = host /\ id # q
  BY <1>1 DEF HostSubscribesAgain
<1>4. ~About(e.meant, id)
  BY <1>2, <1>3 DEF About
<1>. QED
  BY <1>2, <1>3, <1>4, SendsOther

LEMMA HostUnsubscribesFlow ==
    ASSUME HostTyped, NEW q \in ReqId, HostUnsubscribes(q),
           NEW id \in ReqId, Flow(id)
    PROVE  Flow(id)'
<1>1. PICK e : e = Whole(UnsubscribeFrame(q))
  OBVIOUS
<1>2. /\ e \in Request /\ e.meant.op = MESSAGES_OP_UNSUBSCRIBE
      /\ e.meant.req_id = q
  BY <1>1, UnsubscribeRequest
<1>3. /\ Sends(e) /\ connected /\ host[q] = "subscribed"
      /\ host' = [host EXCEPT ![q] = "cancelling"]
  BY <1>1 DEF HostUnsubscribes, Sends
<1>4. About(e.meant, id) <=> id = q
  BY <1>2 DEF About
<1>5. CASE id # q
  <2>1. host'[id] = host[id]
    BY <1>3, <1>5 DEF HostTyped
  <2>. QED
    BY <1>2, <1>3, <1>4, <1>5, <2>1, SendsOther
<1>6. CASE id = q
  <2>1. host'[id] = "cancelling" /\ host[id] = "subscribed"
    BY <1>3, <1>6 DEF HostTyped
  <2>2. /\ toRobot' = Append(toRobot, e) /\ toRobot \in Seq(Request)
    BY <1>3 DEF Sends, HostTyped
  <2>3. PICK ops \in Ops, p \in PhaseName : Running(id, ops, p)
    BY <1>3 DEF Flow
  <2>4. /\ Asks(toRobot, id, ops) /\ Fits(host[id], ops, p)
        /\ In(p, rpc, toHost, id)
        /\ p = "quiet" => tape[id].got = <<>>
    BY <2>3 DEF Running
  <2>5. \/ p = "quiet" /\ ops \in {JustSubscribe, OldThenSubscribe}
        \/ p \in {"held", "done"} /\ ops = <<>>
    BY <2>1, <2>4 DEF Fits
  <2>6. About(e.meant, id)
    BY <1>4, <1>6
  <2>7. PICK more \in {Both, OldThenBoth, JustUnsubscribe} :
            /\ Asks(Append(toRobot, e), id, more)
            /\ \/ more = JustUnsubscribe /\ p \in {"held", "done"}
               \/ more \in {Both, OldThenBoth} /\ p = "quiet"
    BY <1>2, <2>2, <2>4, <2>5, <2>6, AsksUnsubscribe
  <2>8. more \in Ops
    BY <2>7 DEF Ops
  <2>9. Fits(host'[id], more, p)
    BY <2>1, <2>7 DEF Fits
  <2>10. Asks(toRobot', id, more)
    BY <2>2, <2>7
  <2>. QED
    BY <1>3, <2>4, <2>8, <2>9, <2>10, HostGoesOn
<1>. QED
  BY <1>5, <1>6

LEMMA HostTellsFlow ==
    ASSUME HostTyped, HostTells \/ HostCutsShort, NEW id \in ReqId, Flow(id)
    PROVE  Flow(id)'
<1>1. host' = host
  BY DEF HostTells, HostCutsShort
<1>2. CASE HostTells
  <2>1. PICK m \in Unanswered : Sends(Whole(m))
    BY <1>2 DEF HostTells
  <2>2. Whole(m) \in Request /\ Whole(m).meant = m
    BY UnansweredIs, RequestIs
  <2>3. ~About(Whole(m).meant, id)
    BY <2>2, UnansweredIs DEF About
  <2>. QED
    BY <1>1, <2>1, <2>2, <2>3, SendsOther
<1>3. CASE HostCutsShort
  <2>0. PICK m \in Unanswered :
           \E p : /\ p = Whole(m).packet /\ Len(p) < Base
                 /\ Sends([packet |-> SubSeq(p, 1, Len(p) - 1),
                           meant |-> Failed])
    BY <1>3 DEF HostCutsShort
  <2>1. PICK p :
           /\ p = Whole(m).packet /\ Len(p) < Base
           /\ Sends([packet |-> SubSeq(p, 1, Len(p) - 1), meant |-> Failed])
    BY <2>0
  <2>2. PICK e :
           e = [packet |-> SubSeq(p, 1, Len(p) - 1), meant |-> Failed]
    OBVIOUS
  <2>3. e \in Request /\ Sends(e)
    BY <2>1, <2>2, CutRequest
  <2>4. e.meant.op = 0
    BY <2>2 DEF Failed
  <2>5. ~About(e.meant, id)
    BY <2>4 DEF About, MESSAGES_OP_READ, MESSAGES_OP_SUBSCRIBE,
                MESSAGES_OP_UNSUBSCRIBE
  <2>. QED
    BY <1>1, <2>3, <2>5, SendsOther
<1>. QED
  BY <1>2, <1>3

\* The frames when the first one has been read.
LEMMA TailFrames ==
    ASSUME NEW t \in Seq(Entry), t # <<>>, NEW m, m = t[1].meant, NEW id,
           NEW u, u = Tail(t)
    PROVE  /\ NoFrame(t, id) => NoFrame(u, id) /\ ~IsFor(m, id)
           /\ Unended(t, id) =>
                 Unended(u, id) /\ (IsFor(m, id) => ~Ends(m))
           /\ Ended(t, id) /\ ~(IsFor(m, id) /\ Ends(m)) => Ended(u, id)
           /\ Ended(t, id) /\ IsFor(m, id) /\ Ends(m) => NoFrame(u, id)
<1>1. PICK n \in Nat \ {0} : n = Len(t)
  BY TailIs
<1>2. /\ Len(u) = n - 1 /\ \A i \in 1 .. n - 1 : u[i] = t[i + 1]
      /\ \A i \in 1 .. n - 1 : i + 1 \in 1 .. n /\ i + 1 # 1
      /\ 1 \in 1 .. n
  BY <1>1, TailIs
<1>3. NoFrame(t, id) => NoFrame(u, id) /\ ~IsFor(m, id)
  BY <1>1, <1>2 DEF NoFrame
<1>4. Unended(t, id) => Unended(u, id) /\ (IsFor(m, id) => ~Ends(m))
  BY <1>1, <1>2 DEF Unended
<1>5. ASSUME Ended(t, id), ~(IsFor(m, id) /\ Ends(m)) PROVE Ended(u, id)
  <2>1. PICK e \in 1 .. n : EndsAt(t, id, e)
    BY <1>1, <1>5 DEF Ended
  <2>2. e # 1
    BY <1>5, <2>1 DEF EndsAt
  <2>3. e - 1 \in 1 .. n - 1 /\ u[e - 1] = t[e]
    <3>1. e - 1 \in 1 .. n - 1 /\ (e - 1) + 1 = e
      BY <2>2
    <3>. QED
      BY <1>2, <3>1
  <2>4. ASSUME NEW i \in 1 .. n - 1, IsFor(u[i].meant, id)
        PROVE  i <= e - 1 /\ (Ends(u[i].meant) => i = e - 1)
    <3>1. u[i] = t[i + 1] /\ i + 1 \in 1 .. n
      BY <1>2
    <3>2. i + 1 <= e /\ (Ends(u[i].meant) => i + 1 = e)
      BY <1>1, <2>1, <2>4, <3>1 DEF EndsAt
    <3>3. i <= e - 1
      BY <3>2
    <3>4. i + 1 = e => i = e - 1
      OBVIOUS
    <3>. QED
      BY <3>2, <3>3, <3>4
  <2>5. EndsAt(u, id, e - 1)
    BY <1>2, <2>1, <2>3, <2>4 DEF EndsAt
  <2>. QED
    BY <1>2, <2>3, <2>5 DEF Ended
<1>6. ASSUME Ended(t, id), IsFor(m, id), Ends(m) PROVE NoFrame(u, id)
  <2>1. PICK e \in 1 .. n : EndsAt(t, id, e)
    BY <1>1, <1>6 DEF Ended
  <2>2. e = 1
    BY <1>1, <1>2, <1>6, <2>1 DEF EndsAt
  <2>3. ASSUME NEW i \in 1 .. n - 1 PROVE ~IsFor(u[i].meant, id)
    <3>1. u[i] = t[i + 1] /\ i + 1 \in 1 .. n /\ ~(i + 1 <= 1)
      BY <1>2
    <3>. QED
      BY <1>1, <2>1, <2>2, <3>1 DEF EndsAt
  <2>. QED
    BY <1>2, <2>3 DEF NoFrame
<1>. QED
  BY <1>3, <1>4, <1>5, <1>6

\* What HostReceives comes to for one request.
Takes(m, id) ==
    IF ~IsFor(m, id) THEN host'[id] = host[id] /\ tape'[id] = tape[id]
    ELSE IF Ends(m)
    THEN /\ host'[id] = "free"
         /\ tape'[id].got = <<>> /\ tape'[id].recorded = <<>>
    ELSE /\ host'[id] = host[id]
         /\ tape'[id].recorded = tape[id].recorded
         /\ tape'[id].got = IF m.topic = CASSETTE THEN tape[id].got \o m.value
                                                  ELSE tape[id].got

\* HostReceives, seen from one request.
LEMMA HostReceivesIs ==
    ASSUME RobotTyped, HostTyped, HostReceives, NEW id \in ReqId
    PROVE  Takes(toHost[1].meant, id)
<1>1. PICK m : m = Deserialize(Head(toHost).packet)
  OBVIOUS
<1>2. toHost # <<>>
  BY DEF HostReceives
<1>3. m = toHost[1].meant
  BY <1>1, <1>2, FirstFrameIs
<1>4. /\ DOMAIN host = ReqId /\ tape \in [ReqId -> [got : Seq(Octet), recorded : Seq(Octet)]]
      /\ host \in [ReqId -> HostState]
  BY DEF HostTyped
<1>5. IF m.op # MESSAGES_OP_DATA \/ m.req_id \notin ReqId
      THEN host' = host /\ tape' = tape
      ELSE IF Ends(m)
      THEN /\ host' = [host EXCEPT ![m.req_id] = "free"]
           /\ tape' = [tape EXCEPT ![m.req_id] =
                           [got |-> <<>>, recorded |-> <<>>]]
      ELSE /\ tape' = IF m.topic = CASSETTE
                      THEN [tape EXCEPT ![m.req_id].got = @ \o m.value]
                      ELSE tape
           /\ host' = host
  BY <1>1 DEF HostReceives
<1>6. CASE m.op # MESSAGES_OP_DATA \/ m.req_id \notin ReqId
  BY <1>3, <1>5, <1>6 DEF Takes, IsFor
<1>7. CASE m.op = MESSAGES_OP_DATA /\ m.req_id \in ReqId /\ Ends(m)
  <2>1. CASE m.req_id = id
    BY <1>3, <1>4, <1>5, <1>7, <2>1 DEF Takes, IsFor
  <2>2. CASE m.req_id # id
    BY <1>3, <1>4, <1>5, <1>7, <2>2 DEF Takes, IsFor
  <2>. QED
    BY <2>1, <2>2
<1>8. CASE m.op = MESSAGES_OP_DATA /\ m.req_id \in ReqId /\ ~Ends(m)
  <2>1. CASE m.req_id = id
    BY <1>3, <1>4, <1>5, <1>8, <2>1 DEF Takes, IsFor
  <2>2. CASE m.req_id # id
    BY <1>3, <1>4, <1>5, <1>8, <2>2 DEF Takes, IsFor
  <2>. QED
    BY <2>1, <2>2
<1>. QED
  BY <1>6, <1>7, <1>8

\* The phase of a request when the host has read the first frame.
LEMMA TailPhase ==
    ASSUME toHost \in Seq(Entry), toHost # <<>>, toHost' = Tail(toHost),
           NEW id, NEW p \in PhaseName, In(p, rpc, toHost, id),
           NEW m, m = toHost[1].meant
    PROVE  /\ ~(IsFor(m, id) /\ Ends(m)) => In(p, rpc, toHost', id)
           /\ IsFor(m, id) /\ Ends(m) =>
                 p = "done" /\ In("quiet", rpc, toHost', id)
           /\ p = "quiet" => ~IsFor(m, id)
<1>1. PICK t, u : t = toHost /\ u = toHost' /\ u = Tail(t)
  OBVIOUS
<1>2. /\ NoFrame(t, id) => NoFrame(u, id) /\ ~IsFor(m, id)
      /\ Unended(t, id) => Unended(u, id) /\ (IsFor(m, id) => ~Ends(m))
      /\ Ended(t, id) /\ ~(IsFor(m, id) /\ Ends(m)) => Ended(u, id)
      /\ Ended(t, id) /\ IsFor(m, id) /\ Ends(m) => NoFrame(u, id)
  BY <1>1, TailFrames
<1>3. In(p, rpc, t, id)
  BY <1>1
<1>4. CASE p = "quiet"
  BY <1>1, <1>2, <1>3, <1>4 DEF In, Quiet
<1>5. CASE p = "busy"
  BY <1>1, <1>2, <1>3, <1>5 DEF In, Busy
<1>6. CASE p = "held"
  BY <1>1, <1>2, <1>3, <1>6 DEF In, Held
<1>7. CASE p = "done"
  BY <1>1, <1>2, <1>3, <1>7 DEF In, Done, Quiet
<1>. QED
  BY <1>4, <1>5, <1>6, <1>7 DEF PhaseName

\* The host reads a frame: its request ends with the last.
LEMMA HostReceivesFlow ==
    ASSUME RobotTyped, HostTyped, HostReceives, NEW id \in ReqId, Flow(id)
    PROVE  Flow(id)'
<1>1. PICK m : m = toHost[1].meant
  OBVIOUS
<1>2. /\ toHost # <<>> /\ toHost' = Tail(toHost) /\ rpc' = rpc
      /\ connected' = connected /\ toRobot' = toRobot
  BY DEF HostReceives
<1>3. Takes(m, id) /\ toHost \in Seq(Entry)
  BY <1>1, HostReceivesIs DEF RobotTyped
<1>4. CASE ~connected
  <2>1. host[id] = "free" => NoFrame(toHost, id)
    BY <1>4 DEF Flow, Weak
  <2>2. Unended(toHost, id) \/ (Ended(toHost, id) /\ ~Reads(rpc, id))
    BY <1>4 DEF Flow, Weak, Settled
  <2>3. PICK t, u : t = toHost /\ u = toHost' /\ u = Tail(t)
    BY <1>2
  <2>4. /\ NoFrame(t, id) => NoFrame(u, id) /\ ~IsFor(m, id)
        /\ Unended(t, id) => Unended(u, id) /\ (IsFor(m, id) => ~Ends(m))
        /\ Ended(t, id) /\ ~(IsFor(m, id) /\ Ends(m)) => Ended(u, id)
        /\ Ended(t, id) /\ IsFor(m, id) /\ Ends(m) => NoFrame(u, id)
    BY <1>1, <1>2, <1>3, <2>3, TailFrames
  <2>5. NoFrame(u, id) => Unended(u, id)
    BY NoFrameUnended
  <2>6. host'[id] = "free" => NoFrame(u, id)
    BY <1>3, <2>1, <2>2, <2>3, <2>4 DEF Takes
  <2>7. Unended(u, id) \/ (Ended(u, id) /\ ~Reads(rpc, id))
    BY <2>2, <2>3, <2>4, <2>5
  <2>8. Weak(id)'
    BY <1>2, <2>3, <2>6, <2>7 DEF Weak, Settled
  <2>. QED
    BY <1>2, <1>4, <2>8 DEF Flow
<1>5. CASE connected
  <2>1. PICK ops \in Ops, p \in PhaseName : Running(id, ops, p)
    BY <1>5 DEF Flow
  <2>2. /\ Asks(toRobot, id, ops) /\ Fits(host[id], ops, p)
        /\ In(p, rpc, toHost, id)
        /\ p = "quiet" => tape[id].got = <<>>
    BY <2>1 DEF Running
  <2>3. /\ ~(IsFor(m, id) /\ Ends(m)) => In(p, rpc, toHost', id)
        /\ IsFor(m, id) /\ Ends(m) =>
              p = "done" /\ In("quiet", rpc, toHost', id)
        /\ p = "quiet" => ~IsFor(m, id)
    BY <1>1, <1>2, <1>3, <2>2, TailPhase
  <2>4. CASE IsFor(m, id) /\ Ends(m)
    <3>1. host'[id] = "free" /\ tape'[id].got = <<>>
      BY <1>3, <2>4 DEF Takes
    <3>2. p = "done"
      BY <2>3, <2>4
    <3>3. ops \in {<<>>, JustUnsubscribe}
      BY <2>2, <3>2 DEF Fits
    <3>4. Fits(host'[id], ops, "quiet") /\ "quiet" \in PhaseName
      BY <3>1, <3>3 DEF Fits, PhaseName
    <3>5. Running(id, ops, "quiet")'
      BY <1>2, <2>2, <2>3, <2>4, <3>1, <3>4 DEF Running
    <3>. QED
      BY <1>2, <1>5, <3>4, <3>5 DEF Flow
  <2>5. CASE ~(IsFor(m, id) /\ Ends(m))
    <3>1. host'[id] = host[id]
      BY <1>3, <2>5 DEF Takes
    <3>2. p = "quiet" => tape'[id].got = <<>>
      BY <1>3, <2>2, <2>3 DEF Takes
    <3>3. Running(id, ops, p)'
      BY <1>2, <2>2, <2>3, <2>5, <3>1, <3>2 DEF Running
    <3>. QED
      BY <1>2, <1>5, <3>3 DEF Flow
  <2>. QED
    BY <2>4, <2>5
<1>. QED
  BY <1>4, <1>5

\* Neither end does anything.
LEMMA FlowSame ==
    ASSUME UNCHANGED <<rpc, connected, toRobot, toHost, host, tape>>,
           NEW id, Flow(id)
    PROVE  Flow(id)'
<1>1. /\ rpc' = rpc /\ connected' = connected /\ toRobot' = toRobot
      /\ toHost' = toHost /\ host' = host /\ tape' = tape
  OBVIOUS
<1>2. \A ops, p : Running(id, ops, p) => Running(id, ops, p)'
  BY <1>1 DEF Running
<1>3. Weak(id) => Weak(id)'
  BY <1>1 DEF Weak
<1>. QED
  BY <1>1, <1>2, <1>3 DEF Flow

\* Any step of the host.
LEMMA HostStepFlow ==
    ASSUME RobotTyped, HostTyped, HostStep, NEW id \in ReqId \ spoiled',
           Flow(id)
    PROVE  Flow(id)'
<1>1. ASSUME NEW q \in ReqId, NEW t \in Readable, HostReads(q, t)
      PROVE  Flow(id)'
  BY <1>1, HostReadsFlow
<1>2. ASSUME NEW q \in ReqId, NEW t \in Subscribable, HostSubscribes(q, t)
      PROVE  Flow(id)'
  BY <1>2, HostSubscribesFlow
<1>3. ASSUME NEW q \in ReqId, NEW t \in Subscribable, HostSubscribesAgain(q, t)
      PROVE  Flow(id)'
  BY <1>3, HostSubscribesAgainFlow
<1>4. ASSUME NEW q \in ReqId, HostUnsubscribes(q)
      PROVE  Flow(id)'
  BY <1>4, HostUnsubscribesFlow
<1>5. ASSUME HostTells \/ HostCutsShort PROVE Flow(id)'
  BY <1>5, HostTellsFlow
<1>6. ASSUME HostReceives PROVE Flow(id)'
  BY <1>6, HostReceivesFlow
<1>. QED
  BY <1>1, <1>2, <1>3, <1>4, <1>5, <1>6 DEF HostStep

\* An id that is out of turn stays so.
LEMMA SpoiledStays ==
    ASSUME [Next]_vars
    PROVE  spoiled \subseteq spoiled'
<1>1. CASE RobotStep
  BY <1>1 DEF RobotStep, RobotReceives, ReadOctet, EndOfFile, hostVars
<1>2. CASE RpcLoop \/ FileReady \/ Expire
  BY <1>2 DEF RpcLoop, FileReady, Expire, hostVars
<1>3. CASE HostStep
  BY <1>3 DEF HostStep, HostReads, HostSubscribes, HostSubscribesAgain,
              HostUnsubscribes, HostTells, HostCutsShort, HostReceives
<1>4. CASE UNCHANGED vars
  BY <1>4 DEF vars, hostVars
<1>. QED
  BY <1>1, <1>2, <1>3, <1>4 DEF Next

\* Every step keeps the course of every request in turn.
LEMMA FlowStep ==
    ASSUME RobotTyped, HostTyped, FlowInv, [Next]_vars
    PROVE  FlowInv'
<1>1. SUFFICES ASSUME NEW id \in ReqId \ spoiled' PROVE Flow(id)'
  BY DEF FlowInv
<1>2. Flow(id)
  BY SpoiledStays DEF FlowInv
<1>3. ASSUME NEW succeeds \in BOOLEAN, RobotReceives(succeeds)
      PROVE  Flow(id)'
  BY <1>2, <1>3, RobotReceivesFlow
<1>4. CASE ReadOctet
  BY <1>2, <1>4, ReadOctetFlow
<1>5. CASE EndOfFile
  BY <1>2, <1>5, EndOfFileFlow
<1>6. CASE RpcLoop
  BY <1>2, <1>6, RpcLoopFlow
<1>7. CASE FileReady \/ Expire \/ UNCHANGED vars
  <2>1. UNCHANGED <<rpc, connected, toRobot, toHost, host, tape>>
    BY <1>7 DEF FileReady, Expire, vars, hostVars
  <2>. QED
    BY <1>2, <2>1, FlowSame
<1>8. CASE HostStep
  BY <1>2, <1>8, HostStepFlow
<1>. QED
  BY <1>3, <1>4, <1>5, <1>6, <1>7, <1>8 DEF Next, RobotStep

\* No request has begun.
LEMMA FlowInit ==
    ASSUME Init
    PROVE  FlowInv
<1>1. SUFFICES ASSUME NEW id \in ReqId PROVE Flow(id)
  BY DEF FlowInv
<1>2. /\ rpc.reading = NotReading /\ rpc.subs = [i \in Slot |-> FreeSlot]
      /\ connected /\ toRobot = <<>> /\ toHost = <<>>
      /\ host[id] = "free" /\ tape[id].got = <<>>
  BY FirstRpc DEF Init
<1>3. SubFind(rpc, id) = {}
  BY <1>2 DEF SubFind, FreeSlot
<1>4. ~Reads(rpc, id)
  BY <1>2 DEF Reads
<1>5. NoFrame(toHost, id)
  BY <1>2, EmptyOut
<1>6. In("quiet", rpc, toHost, id)
  BY <1>3, <1>4, <1>5 DEF In, Quiet
<1>7. Asks(toRobot, id, <<>>)
  BY <1>2, AsksNothing
<1>8. Fits(host[id], <<>>, "quiet")
  BY <1>2 DEF Fits
<1>9. Running(id, <<>>, "quiet") /\ <<>> \in Ops /\ "quiet" \in PhaseName
  BY <1>2, <1>6, <1>7, <1>8 DEF Running, Ops, PhaseName
<1>. QED
  BY <1>2, <1>9 DEF Flow

\* The types, and the course of all requests.
Course == RobotTyped /\ HostTyped /\ FlowInv

\* It is an invariant.
LEMMA AlwaysCourse == Spec => []Course
<1>1. Init => Course
  BY TypedInit, FlowInit DEF Course
<1>2. Course /\ [Next]_vars => Course'
  BY TypedStep, FlowStep DEF Course
<1>. QED
  BY <1>1, <1>2, PTL DEF Spec

\* A frame with FLAG_END is the last of its request.
LEMMA CourseEnds ==
    ASSUME Course
    PROVE  EndIsLast
<1>1. SUFFICES ASSUME NEW id \in ReqId \ spoiled, NEW i \in DOMAIN toHost,
                      IsFor(toHost[i].meant, id), host[id] = "free"
               PROVE  FALSE
  BY DEF EndIsLast
<1>2. Flow(id) /\ toHost \in Seq(Entry)
  BY DEF Course, FlowInv, RobotTyped
<1>3. ~NoFrame(toHost, id)
  BY <1>1, <1>2 DEF NoFrame
<1>4. CASE connected
  <2>1. PICK ops \in Ops, p \in PhaseName : Running(id, ops, p)
    BY <1>2, <1>4 DEF Flow
  <2>2. Fits("free", ops, p) /\ In(p, rpc, toHost, id)
    BY <1>1, <2>1 DEF Running
  <2>. QED
    BY <1>3, <2>2 DEF Fits, In, Quiet
<1>5. CASE ~connected
  BY <1>1, <1>2, <1>3, <1>5 DEF Flow, Weak
<1>. QED
  BY <1>4, <1>5

\* A frame with MESSAGES_DATA_FLAG_END is the last of its request: rpc.c sends
\* none for an id that the host has been told is free.
THEOREM AlwaysEndIsLast == Spec => []EndIsLast
BY AlwaysCourse, CourseEnds, PTL

\* The places in q where op is asked for.
Asked(q, id, op) ==
    {i \in DOMAIN q : q[i].meant.op = op /\ q[i].meant.req_id = id}

\* The operations about a request.
AskOp == {MESSAGES_OP_READ, MESSAGES_OP_SUBSCRIBE, MESSAGES_OP_UNSUBSCRIBE}

\* f says where in q op is asked for.
Located(f, q, id, ops, op) ==
    \A i : i \in Asked(q, id, op) <=>
              \E k \in 1 .. Len(ops) : ops[k] = op /\ f[k] = i

\* Positions finds all of them.
LEMMA AskedAt ==
    ASSUME NEW q \in Seq(Request), NEW id, NEW ops \in Seq(Nat),
           NEW f, Positions(f, q, id, ops), NEW op \in AskOp
    PROVE  Located(f, q, id, ops, op)
<1>1. DOMAIN q = 1 .. Len(q)
  OBVIOUS
<1>2. ASSUME NEW i \in Asked(q, id, op)
      PROVE  \E k \in 1 .. Len(ops) : ops[k] = op /\ f[k] = i
  <2>1. i \in 1 .. Len(q) /\ About(q[i].meant, id) /\ q[i].meant.op = op
    BY <1>1, <1>2 DEF Asked, About, AskOp
  <2>2. PICK k \in 1 .. Len(ops) : f[k] = i
    BY <2>1 DEF Positions
  <2>3. ops[k] = op
    BY <2>1, <2>2 DEF Positions
  <2>. QED
    BY <2>2, <2>3
<1>3. ASSUME NEW k \in 1 .. Len(ops), ops[k] = op
      PROVE  f[k] \in Asked(q, id, op)
  <2>1. f[k] \in 1 .. Len(q) /\ About(q[f[k]].meant, id)
        /\ q[f[k]].meant.op = op
    BY <1>3 DEF Positions
  <2>. QED
    BY <1>1, <2>1 DEF Asked, About
<1>. QED
  BY <1>2, <1>3 DEF Located

\* The cardinality of one and of none.
LEMMA OneSet ==
    ASSUME NEW x
    PROVE  Cardinality({x}) = 1 /\ Cardinality({}) = 0
BY FS_Singleton, FS_EmptySet

\* The same for each of Ops.
LEMMA AskedNone ==
    ASSUME NEW q \in Seq(Request), NEW id, NEW op \in AskOp,
           NEW ops \in Seq(Nat), Asks(q, id, ops),
           \A k \in 1 .. Len(ops) : ops[k] # op
    PROVE  Asked(q, id, op) = {}
<1>1. PICK f : Positions(f, q, id, ops)
  BY DEF Asks
<1>2. PICK a : a = Asked(q, id, op)
  OBVIOUS
<1>3. Located(f, q, id, ops, op)
  BY <1>1, AskedAt
<1>4. \A i : i \notin a
  BY <1>2, <1>3 DEF Located
<1>. QED
  BY <1>2, <1>4

\* It is asked for in one place.
LEMMA AskedOnce ==
    ASSUME NEW q \in Seq(Request), NEW id, NEW op \in AskOp,
           NEW ops \in Seq(Nat), Asks(q, id, ops),
           NEW j \in 1 .. Len(ops), ops[j] = op,
           \A k \in 1 .. Len(ops) : ops[k] = op => k = j
    PROVE  \E i : Asked(q, id, op) = {i}
<1>1. PICK f : Positions(f, q, id, ops)
  BY DEF Asks
<1>2. PICK a : a = Asked(q, id, op)
  OBVIOUS
<1>3. Located(f, q, id, ops, op)
  BY <1>1, AskedAt
<1>4. \A i : i \in a <=> i = f[j]
  BY <1>2, <1>3 DEF Located
<1>5. \A i : i \in a => i \in DOMAIN q
  BY <1>2 DEF Asked
<1>6. a = {f[j]}
  BY <1>4
<1>. QED
  BY <1>2, <1>6

\* It is asked for.
LEMMA AskedSome ==
    ASSUME NEW q \in Seq(Request), NEW id, NEW op \in AskOp,
           NEW ops \in Seq(Nat), Asks(q, id, ops),
           NEW j \in 1 .. Len(ops), ops[j] = op
    PROVE  Asked(q, id, op) # {}
<1>1. PICK f : Positions(f, q, id, ops)
  BY DEF Asks
<1>2. Located(f, q, id, ops, op)
  BY <1>1, AskedAt
<1>. QED
  BY <1>2 DEF Located

\* Where READ, SUBSCRIBE and UNSUBSCRIBE are asked for.
LEMMA AskedOps ==
    ASSUME NEW q \in Seq(Request), NEW id
    PROVE  /\ \A ops \in {<<>>, JustUnsubscribe} : Asks(q, id, ops) =>
                 /\ Asked(q, id, MESSAGES_OP_READ) = {}
                 /\ Asked(q, id, MESSAGES_OP_SUBSCRIBE) = {}
           /\ \A ops \in {JustRead, OldThenRead} : Asks(q, id, ops) =>
                 \E i : Asked(q, id, MESSAGES_OP_READ) = {i}
           /\ \A ops \in {JustSubscribe, OldThenSubscribe, Both, OldThenBoth} :
                 Asks(q, id, ops) => Asked(q, id, MESSAGES_OP_SUBSCRIBE) # {}
           /\ \A ops \in {JustUnsubscribe, Both, OldThenBoth} :
                 Asks(q, id, ops) => Asked(q, id, MESSAGES_OP_UNSUBSCRIBE) # {}
<1>0. AskOp = {MESSAGES_OP_READ, MESSAGES_OP_SUBSCRIBE, MESSAGES_OP_UNSUBSCRIBE}
  BY DEF AskOp
<1>1. ASSUME NEW ops \in {<<>>, JustUnsubscribe}, Asks(q, id, ops)
      PROVE  /\ Asked(q, id, MESSAGES_OP_READ) = {}
             /\ Asked(q, id, MESSAGES_OP_SUBSCRIBE) = {}
  <2>1. CASE ops = <<>>
    <3>1. PICK e \in Seq(Nat) : e = <<>> /\ Len(e) = 0
      BY OpsAre
    <3>2. \A k \in 1 .. Len(e) : FALSE
      BY <3>1
    <3>3. Asks(q, id, e)
      BY <1>1, <2>1, <3>1
    <3>. QED
      BY <1>0, <3>2, <3>3, AskedNone
  <2>2. CASE ops = JustUnsubscribe
    <3>1. PICK u \in Seq(Nat) : u = JustUnsubscribe
      BY OpsAre DEF Ops
    <3>2. Len(u) = 1 /\ u[1] = MESSAGES_OP_UNSUBSCRIBE
      BY <3>1, OpsAre
    <3>3. \A k \in 1 .. Len(u) : k = 1
      BY <3>2
    <3>4. \A k \in 1 .. Len(u) : u[k] # MESSAGES_OP_READ
                                 /\ u[k] # MESSAGES_OP_SUBSCRIBE
      BY <3>2, <3>3, OpNumbers
    <3>5. Asks(q, id, u)
      BY <1>1, <2>2, <3>1
    <3>. QED
      BY <1>0, <3>4, <3>5, AskedNone
  <2>. QED
    BY <1>1, <2>1, <2>2
<1>2. ASSUME Asks(q, id, JustRead)
      PROVE  \E i : Asked(q, id, MESSAGES_OP_READ) = {i}
  <2>1. PICK u \in Seq(Nat) : u = JustRead
    BY OpsAre DEF Ops
  <2>2. Len(u) = 1 /\ u[1] = MESSAGES_OP_READ
    BY <2>1, OpsAre
  <2>3. 1 \in 1 .. Len(u) /\ \A k \in 1 .. Len(u) : k = 1
    BY <2>2
  <2>4. Asks(q, id, u)
    BY <1>2, <2>1
  <2>. QED
    BY <1>0, <2>2, <2>3, <2>4, AskedOnce
<1>3. ASSUME Asks(q, id, OldThenRead)
      PROVE  \E i : Asked(q, id, MESSAGES_OP_READ) = {i}
  <2>1. PICK u \in Seq(Nat) : u = OldThenRead
    BY OpsAre DEF Ops
  <2>2. Len(u) = 2 /\ u[1] = MESSAGES_OP_UNSUBSCRIBE /\ u[2] = MESSAGES_OP_READ
    BY <2>1, OpsAre
  <2>3. 2 \in 1 .. Len(u) /\ \A k \in 1 .. Len(u) : k = 1 \/ k = 2
    BY <2>2
  <2>4. \A k \in 1 .. Len(u) : u[k] = MESSAGES_OP_READ => k = 2
    BY <2>2, <2>3, OpNumbers
  <2>5. Asks(q, id, u)
    BY <1>3, <2>1
  <2>. QED
    BY <1>0, <2>2, <2>3, <2>4, <2>5, AskedOnce
<1>4. ASSUME NEW ops \in {JustSubscribe, OldThenSubscribe, Both, OldThenBoth},
             Asks(q, id, ops)
      PROVE  Asked(q, id, MESSAGES_OP_SUBSCRIBE) # {}
  <2>1. ops \in Ops
    BY <1>4 DEF Ops
  <2>2. ops \in Seq(Nat)
    BY <2>1, OpsAre
  <2>3. \/ 1 \in 1 .. Len(ops) /\ ops[1] = MESSAGES_OP_SUBSCRIBE
        \/ 2 \in 1 .. Len(ops) /\ ops[2] = MESSAGES_OP_SUBSCRIBE
    <3>1. CASE ops = JustSubscribe
      <4>1. Len(ops) = 1 /\ ops[1] = MESSAGES_OP_SUBSCRIBE
        BY <3>1, OpsAre
      <4>. QED
        BY <4>1
    <3>2. CASE ops = OldThenSubscribe
      <4>1. Len(ops) = 2 /\ ops[2] = MESSAGES_OP_SUBSCRIBE
        BY <3>2, OpsAre
      <4>. QED
        BY <4>1
    <3>3. CASE ops = Both
      <4>1. Len(ops) = 2 /\ ops[1] = MESSAGES_OP_SUBSCRIBE
        BY <3>3, OpsAre
      <4>. QED
        BY <4>1
    <3>4. CASE ops = OldThenBoth
      <4>1. Len(ops) = 3 /\ ops[2] = MESSAGES_OP_SUBSCRIBE
        BY <3>4, OpsAre
      <4>. QED
        BY <4>1
    <3>. QED
      BY <1>4, <3>1, <3>2, <3>3, <3>4
  <2>. QED
    BY <1>0, <1>4, <2>2, <2>3, AskedSome
<1>5. ASSUME NEW ops \in {JustUnsubscribe, Both, OldThenBoth},
             Asks(q, id, ops)
      PROVE  Asked(q, id, MESSAGES_OP_UNSUBSCRIBE) # {}
  <2>1. ops \in Ops
    BY <1>5 DEF Ops
  <2>2. ops \in Seq(Nat)
    BY <2>1, OpsAre
  <2>3. \/ 1 \in 1 .. Len(ops) /\ ops[1] = MESSAGES_OP_UNSUBSCRIBE
        \/ 2 \in 1 .. Len(ops) /\ ops[2] = MESSAGES_OP_UNSUBSCRIBE
    <3>1. CASE ops = JustUnsubscribe
      <4>1. Len(ops) = 1 /\ ops[1] = MESSAGES_OP_UNSUBSCRIBE
        BY <3>1, OpsAre
      <4>. QED
        BY <4>1
    <3>3. CASE ops = Both
      <4>1. Len(ops) = 2 /\ ops[2] = MESSAGES_OP_UNSUBSCRIBE
        BY <3>3, OpsAre
      <4>. QED
        BY <4>1
    <3>4. CASE ops = OldThenBoth
      <4>1. Len(ops) = 3 /\ ops[1] = MESSAGES_OP_UNSUBSCRIBE
        BY <3>4, OpsAre
      <4>. QED
        BY <4>1
    <3>. QED
      BY <1>5, <3>1, <3>3, <3>4
  <2>. QED
    BY <1>0, <1>5, <2>2, <2>3, AskedSome
<1>. QED
  BY <1>1, <1>2, <1>3, <1>4, <1>5

\* The places of the frames that end a request.
EndFrames(t, id) == {i \in DOMAIN t : IsFor(t[i].meant, id) /\ Ends(t[i].meant)}

\* At most one frame ends a request.
LEMMA EndingIs ==
    ASSUME NEW t \in Seq(Entry), NEW id
    PROVE  /\ Unended(t, id) => EndFrames(t, id) = {}
           /\ Ended(t, id) => \E i : EndFrames(t, id) = {i}
<1>1. DOMAIN t = 1 .. Len(t)
  OBVIOUS
<1>2. Unended(t, id) => EndFrames(t, id) = {}
  BY <1>1 DEF Unended, EndFrames
<1>3. ASSUME NEW e \in 1 .. Len(t), EndsAt(t, id, e)
      PROVE  EndFrames(t, id) = {e}
  BY <1>1, <1>3 DEF EndsAt, EndFrames
<1>. QED
  BY <1>2, <1>3 DEF Ended

\* What the state of a request comes to.
Counts(id) ==
    LET asking(op) == Asked(toRobot, id, op)
    IN  \/ /\ SubFind(rpc, id) = {} /\ ~Reads(rpc, id)
           /\ EndFrames(toHost, id) = {}
           /\ host[id] = "reading" =>
                 \E i : asking(MESSAGES_OP_READ) = {i}
           /\ host[id] \in {"subscribed", "cancelling"} =>
                 asking(MESSAGES_OP_SUBSCRIBE) # {}
           /\ host[id] = "cancelling" =>
                 asking(MESSAGES_OP_UNSUBSCRIBE) # {}
        \/ /\ SubFind(rpc, id) = {} /\ Reads(rpc, id)
           /\ EndFrames(toHost, id) = {} /\ host[id] = "reading"
           /\ asking(MESSAGES_OP_READ) = {}
        \/ /\ \E k : SubFind(rpc, id) = {k}
           /\ EndFrames(toHost, id) = {}
           /\ host[id] \in {"subscribed", "cancelling"}
           /\ asking(MESSAGES_OP_SUBSCRIBE) = {}
           /\ host[id] = "cancelling" =>
                 asking(MESSAGES_OP_UNSUBSCRIBE) # {}
        \/ /\ SubFind(rpc, id) = {} /\ ~Reads(rpc, id)
           /\ \E i : EndFrames(toHost, id) = {i}
           /\ asking(MESSAGES_OP_READ) = {}

\* The phases, counted.
LEMMA CourseCounts ==
    ASSUME Course, NEW id \in ReqId \ spoiled, connected
    PROVE  Counts(id)
<1>1. toHost \in Seq(Entry) /\ toRobot \in Seq(Request)
  BY DEF Course, RobotTyped, HostTyped
<1>2. PICK ops \in Ops, p \in PhaseName : Running(id, ops, p)
  BY DEF Course, FlowInv, Flow
<1>3. /\ Asks(toRobot, id, ops) /\ Fits(host[id], ops, p)
      /\ In(p, rpc, toHost, id)
  BY <1>2 DEF Running
<1>4. /\ Unended(toHost, id) => EndFrames(toHost, id) = {}
      /\ Ended(toHost, id) => \E i : EndFrames(toHost, id) = {i}
  BY <1>1, EndingIs
<1>5. /\ ops \in {<<>>, JustUnsubscribe} =>
            /\ Asked(toRobot, id, MESSAGES_OP_READ) = {}
            /\ Asked(toRobot, id, MESSAGES_OP_SUBSCRIBE) = {}
      /\ ops \in {JustRead, OldThenRead} =>
            \E i : Asked(toRobot, id, MESSAGES_OP_READ) = {i}
      /\ ops \in {JustSubscribe, OldThenSubscribe, Both, OldThenBoth} =>
            Asked(toRobot, id, MESSAGES_OP_SUBSCRIBE) # {}
      /\ ops \in {JustUnsubscribe, Both, OldThenBoth} =>
            Asked(toRobot, id, MESSAGES_OP_UNSUBSCRIBE) # {}
  BY <1>1, <1>3, AskedOps
<1>6. CASE p = "quiet"
  <2>1. SubFind(rpc, id) = {} /\ ~Reads(rpc, id) /\ Unended(toHost, id)
    BY <1>3, <1>6, NoFrameUnended DEF In, Quiet
  <2>2. /\ host[id] = "reading" => ops \in {JustRead, OldThenRead}
        /\ host[id] \in {"subscribed", "cancelling"} =>
              ops \in {JustSubscribe, OldThenSubscribe, Both, OldThenBoth}
        /\ host[id] = "cancelling" => ops \in {Both, OldThenBoth}
    BY <1>3, <1>6 DEF Fits
  <2>. QED
    BY <1>4, <1>5, <2>1, <2>2 DEF Counts
<1>7. CASE p = "busy"
  <2>1. SubFind(rpc, id) = {} /\ Reads(rpc, id) /\ Unended(toHost, id)
    BY <1>3, <1>7 DEF In, Busy
  <2>2. host[id] = "reading" /\ ops = <<>>
    BY <1>3, <1>7 DEF Fits
  <2>. QED
    BY <1>4, <1>5, <2>1, <2>2 DEF Counts
<1>8. CASE p = "held"
  <2>1. (\E k : SubFind(rpc, id) = {k}) /\ Unended(toHost, id)
    BY <1>3, <1>8 DEF In, Held
  <2>2. /\ host[id] \in {"subscribed", "cancelling"}
        /\ ops \in {<<>>, JustUnsubscribe}
        /\ host[id] = "cancelling" => ops = JustUnsubscribe
    BY <1>3, <1>8 DEF Fits
  <2>. QED
    BY <1>4, <1>5, <2>1, <2>2 DEF Counts
<1>9. CASE p = "done"
  <2>1. SubFind(rpc, id) = {} /\ ~Reads(rpc, id) /\ Ended(toHost, id)
    BY <1>3, <1>9 DEF In, Done
  <2>2. ops \in {<<>>, JustUnsubscribe}
    BY <1>3, <1>9 DEF Fits
  <2>. QED
    BY <1>4, <1>5, <2>1, <2>2 DEF Counts
<1>. QED
  BY <1>6, <1>7, <1>8, <1>9 DEF PhaseName

\* Host and robot agree on whether there is a subscription.
LEMMA CourseAgrees ==
    ASSUME Course
    PROVE  SubscriptionsAgree
<1>1. SUFFICES ASSUME NEW id \in ReqId \ spoiled, connected
               PROVE  Cardinality(SubFind(rpc, id)) =
                        IF /\ host[id] \in {"subscribed", "cancelling"}
                           /\ ~ \E i \in DOMAIN toRobot :
                                  /\ toRobot[i].meant.op = MESSAGES_OP_SUBSCRIBE
                                  /\ toRobot[i].meant.req_id = id
                           /\ ~ \E i \in DOMAIN toHost :
                                  /\ IsFor(toHost[i].meant, id)
                                  /\ Ends(toHost[i].meant)
                        THEN 1 ELSE 0
  BY DEF SubscriptionsAgree
<1>2. Counts(id)
  BY <1>1, CourseCounts
<1>3. (\E i \in DOMAIN toRobot :
         /\ toRobot[i].meant.op = MESSAGES_OP_SUBSCRIBE
         /\ toRobot[i].meant.req_id = id)
      <=> Asked(toRobot, id, MESSAGES_OP_SUBSCRIBE) # {}
  BY DEF Asked
<1>4. (\E i \in DOMAIN toHost :
         IsFor(toHost[i].meant, id) /\ Ends(toHost[i].meant))
      <=> EndFrames(toHost, id) # {}
  BY DEF EndFrames
<1>5. /\ SubFind(rpc, id) = {} => Cardinality(SubFind(rpc, id)) = 0
      /\ \A k : SubFind(rpc, id) = {k} => Cardinality(SubFind(rpc, id)) = 1
  BY OneSet
<1>6. /\ \/ SubFind(rpc, id) = {}
         \/ \E k : SubFind(rpc, id) = {k}
      /\ (\E k : SubFind(rpc, id) = {k}) <=>
            /\ host[id] \in {"subscribed", "cancelling"}
            /\ Asked(toRobot, id, MESSAGES_OP_SUBSCRIBE) = {}
            /\ EndFrames(toHost, id) = {}
  BY <1>2 DEF Counts
<1>. QED
  BY <1>3, <1>4, <1>5, <1>6

\* What the host waits for is on its way once.
LEMMA CourseAnswers ==
    ASSUME Course
    PROVE  OneAnswer
<1>1. SUFFICES ASSUME NEW id \in ReqId \ spoiled, connected
               PROVE  /\ host[id] = "reading" =>
                           Cardinality(Asked(toRobot, id, MESSAGES_OP_READ))
                             + Cardinality(EndFrames(toHost, id))
                             + (IF Reads(rpc, id) THEN 1 ELSE 0) = 1
                      /\ host[id] = "cancelling" =>
                           \/ Asked(toRobot, id, MESSAGES_OP_UNSUBSCRIBE) # {}
                           \/ EndFrames(toHost, id) # {}
  BY DEF OneAnswer, Asked, EndFrames, Reads
<1>2. Counts(id)
  BY <1>1, CourseCounts
<1>3. host[id] = "cancelling" =>
         \/ Asked(toRobot, id, MESSAGES_OP_UNSUBSCRIBE) # {}
         \/ EndFrames(toHost, id) # {}
  BY <1>2 DEF Counts
<1>4. PICK a, b : a = Asked(toRobot, id, MESSAGES_OP_READ)
                  /\ b = EndFrames(toHost, id)
  OBVIOUS
<1>5. ASSUME host[id] = "reading"
      PROVE  \/ (\E i : a = {i}) /\ b = {} /\ ~Reads(rpc, id)
             \/ a = {} /\ b = {} /\ Reads(rpc, id)
             \/ a = {} /\ (\E i : b = {i}) /\ ~Reads(rpc, id)
  BY <1>2, <1>4, <1>5 DEF Counts
<1>6. /\ a = {} => Cardinality(a) = 0
      /\ b = {} => Cardinality(b) = 0
      /\ (\E i : a = {i}) => Cardinality(a) = 1
      /\ (\E i : b = {i}) => Cardinality(b) = 1
  BY OneSet
<1>7. ASSUME host[id] = "reading"
      PROVE  Cardinality(a) + Cardinality(b)
                + (IF Reads(rpc, id) THEN 1 ELSE 0) = 1
  <2>1. \/ Cardinality(a) = 1 /\ Cardinality(b) = 0 /\ ~Reads(rpc, id)
        \/ Cardinality(a) = 0 /\ Cardinality(b) = 0 /\ Reads(rpc, id)
        \/ Cardinality(a) = 0 /\ Cardinality(b) = 1 /\ ~Reads(rpc, id)
    BY <1>5, <1>6, <1>7
  <2>. QED
    BY <2>1
<1>. QED
  BY <1>3, <1>4, <1>7

\* Host and robot agree on a subscription once nothing about it is on its way:
\* no slot of rpc.subs is held for nobody, and no subscriber waits for a slot.
THEOREM AlwaysAgree == Spec => []SubscriptionsAgree
BY AlwaysCourse, CourseAgrees, PTL

\* What the host waits for is on its way once: as the READ, in the loop that
\* reads the file, or as the one frame that ends it.
THEOREM AlwaysOneAnswer == Spec => []OneAnswer
BY AlwaysCourse, CourseAnswers, PTL

-----------------------------------------------------------------------------
(* The octets of a cassette that are on their way.  What has been recorded *)
(* is cut at places that every frame moves on or leaves where they are.    *)

\* The octets from one place to another.
Between(rec, a, b) == SubSeq(rec, a + 1, b)

\* A frame takes the place from a to b.
Moves(m, id, rec, a, b) ==
    /\ IF IsFor(m, id) /\ m.topic = CASSETTE /\ ~Ends(m)
       THEN a <= b /\ m.value = Between(rec, a, b)
       ELSE b = a
    /\ /\ IsFor(m, id) /\ m.topic = CASSETTE /\ m.subtopic \in CassetteIndex
       /\ m.flag = MESSAGES_DATA_FLAG_END /\ m.value # <<>>
       => b = Len(rec) /\ m.value = LongOctets(Len(rec))

\* c is the place after each frame.
Cut(c, t, id, rec) ==
    /\ c \in [0 .. Len(t) -> 0 .. Len(rec)]
    /\ \A i \in 1 .. Len(t) : Moves(t[i].meant, id, rec, c[i - 1], c[i])

\* All frames together take the place from a to b.
Carries(t, id, rec, a, b) ==
    \E c : Cut(c, t, id, rec) /\ c[0] = a /\ c[Len(t)] = b

\* Frames that leave it.
Still(t, id, rec) ==
    \A i \in 1 .. Len(t) : \A a \in 0 .. Len(rec) :
        Moves(t[i].meant, id, rec, a, a)

\* The place after frames that leave it.
LEMMA CutStill ==
    ASSUME NEW t \in Seq(Entry), NEW id, NEW rec \in Seq(Octet),
           Still(t, id, rec), NEW a \in 0 .. Len(rec)
    PROVE  Carries(t, id, rec, a, a)
<1>1. PICK n \in Nat : n = Len(t)
  OBVIOUS
<1>2. PICK c : c = [i \in 0 .. n |-> a]
  OBVIOUS
<1>3. \A i \in 0 .. n : c[i] = a
  BY <1>2
<1>4. \A i \in 1 .. n : i \in 0 .. n /\ i - 1 \in 0 .. n
  OBVIOUS
<1>5. ASSUME NEW i \in 1 .. n
      PROVE  Moves(t[i].meant, id, rec, c[i - 1], c[i])
  <2>1. c[i - 1] = a /\ c[i] = a
    BY <1>3, <1>4
  <2>2. Moves(t[i].meant, id, rec, a, a)
    BY <1>1 DEF Still
  <2>. QED
    BY <2>1, <2>2
<1>6. c \in [0 .. n -> 0 .. Len(rec)]
  BY <1>2
<1>7. c[0] = a /\ c[n] = a
  BY <1>3
<1>8. Cut(c, t, id, rec)
  BY <1>1, <1>5, <1>6 DEF Cut
<1>. QED
  BY <1>1, <1>7, <1>8 DEF Carries

\* The place after one frame.
LEMMA CutOne ==
    ASSUME NEW e \in Entry, NEW id, NEW rec \in Seq(Octet),
           NEW a \in 0 .. Len(rec), NEW b \in 0 .. Len(rec),
           Moves(e.meant, id, rec, a, b)
    PROVE  Carries(<<e>>, id, rec, a, b)
<1>1. PICK t : t = <<e>>
  OBVIOUS
<1>2. Len(t) = 1 /\ t[1] = e
  BY <1>1
<1>3. PICK c : c = [i \in 0 .. 1 |-> IF i = 0 THEN a ELSE b]
  OBVIOUS
<1>4. c[0] = a /\ c[1] = b /\ c \in [0 .. 1 -> 0 .. Len(rec)]
  BY <1>3
<1>5. \A i \in 1 .. Len(t) : i = 1 /\ i - 1 = 0
  BY <1>2
<1>6. \A i \in 1 .. Len(t) : Moves(t[i].meant, id, rec, c[i - 1], c[i])
  BY <1>2, <1>4, <1>5
<1>7. Cut(c, t, id, rec)
  BY <1>2, <1>4, <1>6 DEF Cut
<1>. QED
  BY <1>1, <1>2, <1>4, <1>7 DEF Carries

\* Frames behind others.
LEMMA CutJoin ==
    ASSUME NEW t \in Seq(Entry), NEW o \in Seq(Entry), NEW id,
           NEW rec \in Seq(Octet), NEW a, NEW b, NEW d,
           Carries(t, id, rec, a, b), Carries(o, id, rec, b, d)
    PROVE  Carries(t \o o, id, rec, a, d)
<1>1. PICK n \in Nat, k \in Nat : n = Len(t) /\ k = Len(o)
  OBVIOUS
<1>2. PICK u : u = t \o o
  OBVIOUS
<1>3. /\ Len(u) = n + k
      /\ \A i \in 1 .. n : u[i] = t[i]
      /\ \A i \in 1 .. k : u[n + i] = o[i]
  BY <1>1, <1>2
<1>4. PICK c1 : Cut(c1, t, id, rec) /\ c1[0] = a /\ c1[n] = b
  BY <1>1 DEF Carries
<1>5. PICK c2 : Cut(c2, o, id, rec) /\ c2[0] = b /\ c2[k] = d
  BY <1>1 DEF Carries
<1>6. PICK c : c = [i \in 0 .. n + k |-> IF i <= n THEN c1[i] ELSE c2[i - n]]
  OBVIOUS
<1>7. /\ c1 \in [0 .. n -> 0 .. Len(rec)]
      /\ \A i \in 1 .. n : Moves(t[i].meant, id, rec, c1[i - 1], c1[i])
      /\ c2 \in [0 .. k -> 0 .. Len(rec)]
      /\ \A i \in 1 .. k : Moves(o[i].meant, id, rec, c2[i - 1], c2[i])
  BY <1>1, <1>4, <1>5 DEF Cut
<1>8. \A i \in 0 .. n : c[i] = c1[i]
  BY <1>6
<1>9. \A i \in 0 .. k : c[n + i] = c2[i]
  <2>1. SUFFICES ASSUME NEW i \in 0 .. k PROVE c[n + i] = c2[i]
    OBVIOUS
  <2>2. CASE i = 0
    BY <1>4, <1>5, <1>8, <2>2
  <2>3. CASE i # 0
    <3>1. n + i \in 0 .. n + k /\ ~(n + i <= n) /\ (n + i) - n = i
      BY <2>3
    <3>. QED
      BY <1>6, <3>1
  <2>. QED
    BY <2>2, <2>3
<1>10. c \in [0 .. n + k -> 0 .. Len(rec)]
  <2>1. ASSUME NEW i \in 0 .. n + k
        PROVE  (IF i <= n THEN c1[i] ELSE c2[i - n]) \in 0 .. Len(rec)
    <3>1. CASE i <= n
      BY <1>7, <3>1
    <3>2. CASE ~(i <= n)
      <4>1. i - n \in 0 .. k
        BY <3>2
      <4>. QED
        BY <1>7, <3>2, <4>1
    <3>. QED
      BY <3>1, <3>2
  <2>. QED
    BY <1>6, <2>1
<1>11. ASSUME NEW i \in 1 .. n + k
       PROVE  Moves(u[i].meant, id, rec, c[i - 1], c[i])
  <2>1. CASE i <= n
    <3>1. i \in 1 .. n /\ i \in 0 .. n /\ i - 1 \in 0 .. n
      BY <2>1
    <3>. QED
      BY <1>3, <1>7, <1>8, <3>1
  <2>2. CASE ~(i <= n)
    <3>1. PICK j \in 1 .. k : i = n + j
      <4>1. i - n \in 1 .. k /\ i = n + (i - n)
        BY <2>2
      <4>. QED
        BY <4>1
    <3>2. j \in 0 .. k /\ j - 1 \in 0 .. k /\ i - 1 = n + (j - 1)
      BY <3>1
    <3>3. u[i] = o[j] /\ c[i] = c2[j] /\ c[i - 1] = c2[j - 1]
      BY <1>3, <1>9, <3>1, <3>2
    <3>. QED
      BY <1>7, <3>3
  <2>. QED
    BY <2>1, <2>2
<1>12. Cut(c, u, id, rec)
  BY <1>3, <1>10, <1>11 DEF Cut
<1>13. c[0] = a /\ c[n + k] = d
  BY <1>4, <1>5, <1>8, <1>9
<1>. QED
  BY <1>2, <1>3, <1>12, <1>13 DEF Carries

\* The first of them has been read.
LEMMA CutTail ==
    ASSUME NEW t \in Seq(Entry), t # <<>>, NEW id, NEW rec \in Seq(Octet),
           NEW a, NEW b, Carries(t, id, rec, a, b)
    PROVE  /\ a \in 0 .. Len(rec)
           /\ \E d \in 0 .. Len(rec) :
                 /\ Moves(t[1].meant, id, rec, a, d)
                 /\ Carries(Tail(t), id, rec, d, b)
<1>1. PICK n \in Nat \ {0} : n = Len(t)
  BY TailIs
<1>2. PICK u : u = Tail(t)
  OBVIOUS
<1>3. Len(u) = n - 1 /\ \A i \in 1 .. n - 1 : u[i] = t[i + 1]
  BY <1>1, <1>2, TailIs
<1>4. PICK c : Cut(c, t, id, rec) /\ c[0] = a /\ c[n] = b
  BY <1>1 DEF Carries
<1>5. /\ c \in [0 .. n -> 0 .. Len(rec)]
      /\ \A i \in 1 .. n : Moves(t[i].meant, id, rec, c[i - 1], c[i])
  BY <1>1, <1>4 DEF Cut
<1>6. PICK g : g = [i \in 0 .. n - 1 |-> c[i + 1]]
  OBVIOUS
<1>7. \A i \in 0 .. n - 1 : g[i] = c[i + 1] /\ i + 1 \in 0 .. n
  BY <1>6
<1>8. g \in [0 .. n - 1 -> 0 .. Len(rec)]
  BY <1>5, <1>6
<1>9. ASSUME NEW i \in 1 .. n - 1
      PROVE  Moves(u[i].meant, id, rec, g[i - 1], g[i])
  <2>1. i + 1 \in 1 .. n /\ (i + 1) - 1 = i /\ i \in 0 .. n - 1
        /\ i - 1 \in 0 .. n - 1 /\ (i - 1) + 1 = i
    OBVIOUS
  <2>2. g[i] = c[i + 1] /\ g[i - 1] = c[i]
    BY <1>7, <2>1
  <2>3. Moves(t[i + 1].meant, id, rec, c[(i + 1) - 1], c[i + 1])
    BY <1>5, <2>1
  <2>. QED
    BY <1>3, <2>1, <2>2, <2>3
<1>10. Cut(g, u, id, rec)
  BY <1>3, <1>8, <1>9 DEF Cut
<1>11. g[0] = c[1] /\ g[n - 1] = c[n] /\ c[1] \in 0 .. Len(rec)
  <2>1. 0 \in 0 .. n - 1 /\ n - 1 \in 0 .. n - 1 /\ 0 + 1 = 1
        /\ (n - 1) + 1 = n /\ 1 \in 0 .. n
    OBVIOUS
  <2>. QED
    BY <1>5, <1>7, <2>1
<1>12. Carries(u, id, rec, c[1], b)
  BY <1>3, <1>4, <1>10, <1>11 DEF Carries
<1>13. Moves(t[1].meant, id, rec, a, c[1]) /\ a \in 0 .. Len(rec)
  <2>1. 1 \in 1 .. n /\ 1 - 1 = 0 /\ 0 \in 0 .. n
    OBVIOUS
  <2>. QED
    BY <1>4, <1>5, <2>1
<1>. QED
  BY <1>2, <1>11, <1>12, <1>13

\* Where it is afterwards is a place.
LEMMA CutPlaces ==
    ASSUME NEW t \in Seq(Entry), NEW id, NEW rec \in Seq(Octet), NEW a, NEW b,
           Carries(t, id, rec, a, b)
    PROVE  a \in 0 .. Len(rec) /\ b \in 0 .. Len(rec)
<1>1. PICK n \in Nat : n = Len(t)
  OBVIOUS
<1>2. PICK c : Cut(c, t, id, rec) /\ c[0] = a /\ c[n] = b
  BY <1>1 DEF Carries
<1>3. c \in [0 .. n -> 0 .. Len(rec)]
  BY <1>1, <1>2 DEF Cut
<1>4. 0 \in 0 .. n /\ n \in 0 .. n
  OBVIOUS
<1>. QED
  BY <1>2, <1>3, <1>4

\* Frames that are not about it.
LEMMA StillIs ==
    ASSUME NEW t, NEW id, NEW rec
    PROVE  /\ NoFrame(t, id) => Still(t, id, rec)
           /\ (\A i \in 1 .. Len(t) : ~AboutTape(t[i].meant)) =>
                 Still(t, id, rec)
BY DEF NoFrame, Still, Moves, AboutTape, IsFor

\* What is not about a tape does not move the place.
LEMMA PlainStill ==
    ASSUME NEW o \in Seq(PlainEntry), NEW id, NEW rec
    PROVE  o \in Seq(Entry) /\ Still(o, id, rec)
<1>1. \A i \in 1 .. Len(o) : o[i] \in PlainEntry
  OBVIOUS
<1>2. \A i \in 1 .. Len(o) : ~AboutTape(o[i].meant)
  BY <1>1 DEF PlainEntry
<1>3. PlainEntry \subseteq Entry
  BY DEF PlainEntry
<1>4. o \in Seq(Entry)
  BY <1>3
<1>. QED
  BY <1>2, <1>4, StillIs

\* The octets that have been read, and those that have not been sent yet.
JoinsAt(rec, z, a, b) ==
    Between(rec, z, a) \o Between(rec, a, b) = Between(rec, z, b)

\* They are the octets up to the second place.
LEMMA SplitJoins ==
    ASSUME NEW rec \in Seq(Octet), NEW a \in Nat, NEW b \in Nat,
           a <= b, b <= Len(rec), NEW z, z = 0
    PROVE  JoinsAt(rec, z, a, b)
<1>0. /\ Between(rec, z, a) = SubSeq(rec, z + 1, a)
      /\ Between(rec, a, b) = SubSeq(rec, a + 1, b)
      /\ Between(rec, z, b) = SubSeq(rec, z + 1, b)
  BY DEF Between
<1>1. PICK n \in Nat : n = Len(rec)
  OBVIOUS
<1>2. PICK k \in 1 .. n + 1 : k = z + 1
  BY <1>1
<1>3. a \in k - 1 .. n /\ b \in a .. n
  BY <1>1, <1>2
<1>4. SubSeq(rec, k, a) \o SubSeq(rec, a + 1, b) = SubSeq(rec, k, b)
  BY <1>1, <1>3, ConcatAdjacentSubSeq
<1>5. Between(rec, z, a) \o Between(rec, a, b) = Between(rec, z, b)
  BY <1>0, <1>2, <1>4
<1>. QED
  BY <1>5 DEF JoinsAt

\* As many as lie between the places.
LEMMA BetweenLength ==
    ASSUME NEW rec \in Seq(Octet), NEW a \in Nat, NEW b \in Nat,
           a <= b, b <= Len(rec), NEW v, v = Between(rec, a, b)
    PROVE  v \in Seq(Octet) /\ Len(v) = b - a
<1>1. \A i \in a + 1 .. b : i \in 1 .. Len(rec)
  OBVIOUS
<1>2. \A i \in a + 1 .. b : rec[i] \in Octet
  BY <1>1
<1>3. a + 1 \in Int /\ b \in Int
  OBVIOUS
<1>4. /\ SubSeq(rec, a + 1, b) \in Seq(Octet)
      /\ Len(SubSeq(rec, a + 1, b)) =
            IF a + 1 <= b THEN b - (a + 1) + 1 ELSE 0
  BY <1>2, <1>3, SubSeqProperties
<1>. QED
  BY <1>4 DEF Between

\* One octet more has been read.
LEMMA OneFurther ==
    ASSUME NEW rec \in Seq(Octet), NEW a \in Nat, NEW b \in Nat,
           a <= b, b < Len(rec), NEW d, d = b + 1
    PROVE  Append(Between(rec, a, b), rec[d]) = Between(rec, a, d)
<1>1. a + 1 \in 1 .. Len(rec) /\ d \in a + 1 .. Len(rec) /\ d - 1 = b
  OBVIOUS
<1>2. SubSeq(rec, a + 1, d) = SubSeq(rec, a + 1, d - 1) \o <<rec[d]>>
  BY <1>1, SubSeqRecursiveSecond
<1>3. PICK x \in Octet : x = rec[d]
  BY <1>1
<1>4. PICK q \in Seq(Octet) : q = Between(rec, a, b)
  BY BetweenLength
<1>5. Append(q, x) = q \o <<x>>
  OBVIOUS
<1>. QED
  BY <1>1, <1>2, <1>3, <1>4, <1>5 DEF Between

\* Nothing lies between a place and itself.
LEMMA NoneBetween ==
    ASSUME NEW rec, NEW b \in Nat
    PROVE  Between(rec, b, b) = <<>>
BY SubSeqEmpty DEF Between

\* The loop that reads the file has sent the first n octets.
ReadTo(r, rec, n) ==
    rec = files[r.file] /\ n <= r.rlen /\ r.tmp = Between(rec, n, r.rlen)

\* What the host has got is the first part of what has been recorded.  What
\* is on its way follows it, and what the loop holds follows that.
TapeAt(id) ==
    LET got == tape[id].got
        rec == tape[id].recorded
    IN  /\ got = Between(rec, 0, Len(got))
        /\ \E n : /\ Carries(toHost, id, rec, Len(got), n)
                  /\ connected /\ Reads(rpc, id) => ReadTo(rpc.reading, rec, n)

TapeInv == \A id \in ReqId \ spoiled : TapeAt(id)

\* What is sent does not move the place.
LEMMA LineOn ==
    ASSUME RobotTyped, NEW s \in RpcSending, GoesOn(s), NEW id,
           NEW rec \in Seq(Octet), NEW a, NEW n,
           Carries(toHost, id, rec, a, n), Still(s.out, id, rec)
    PROVE  Carries(toHost', id, rec, a, n)
<1>1. PICK o \in Seq(Entry) : o = s.out
  BY DEF RpcSending
<1>2. /\ ~connected => toHost' = toHost
      /\ connected' => toHost' = toHost \o o
      /\ connected /\ ~connected' =>
            o # <<>> /\ toHost' = toHost \o <<Head(o)>>
      /\ toHost \in Seq(Entry)
  BY <1>1, GoingOn DEF RobotTyped
<1>3. n \in 0 .. Len(rec)
  BY <1>2, CutPlaces
<1>4. CASE ~connected
  BY <1>2, <1>4
<1>5. CASE connected'
  <2>1. Carries(o, id, rec, n, n)
    BY <1>1, <1>3, CutStill
  <2>. QED
    BY <1>2, <1>5, <2>1, CutJoin
<1>6. CASE connected /\ ~connected'
  <2>1. PICK h : h = <<Head(o)>>
    OBVIOUS
  <2>2. o # <<>>
    BY <1>2, <1>6
  <2>3. h \in Seq(Entry) /\ Len(h) = 1 /\ h[1] = o[1] /\ 1 \in 1 .. Len(o)
    BY <2>1, <2>2
  <2>4. Still(h, id, rec)
    <3>1. \A i \in 1 .. Len(h) : i = 1
      BY <2>3
    <3>. QED
      BY <1>1, <2>3, <3>1 DEF Still
  <2>5. Carries(h, id, rec, n, n)
    BY <1>3, <2>3, <2>4, CutStill
  <2>. QED
    BY <1>2, <1>6, <2>1, <2>3, <2>5, CutJoin
<1>. QED
  BY <1>4, <1>5, <1>6

\* Nothing of it is read now.
LEMMA TapeOn ==
    ASSUME RobotTyped, HostTyped, NEW s \in RpcSending, GoesOn(s),
           NEW id \in ReqId, TapeAt(id), tape'[id] = tape[id],
           Still(s.out, id, tape[id].recorded), ~Reads(s, id)
    PROVE  TapeAt(id)'
<1>1. PICK got \in Seq(Octet), rec \in Seq(Octet) :
         got = tape[id].got /\ rec = tape[id].recorded
  BY DEF HostTyped
<1>2. got = Between(rec, 0, Len(got))
  BY <1>1 DEF TapeAt
<1>3. PICK n : Carries(toHost, id, rec, Len(got), n)
  BY <1>1 DEF TapeAt
<1>4. Carries(toHost', id, rec, Len(got), n)
  BY <1>1, <1>3, LineOn
<1>5. ~Reads(rpc', id)
  <2>1. rpc' = Sent(s)
    BY GoingOn DEF RobotTyped
  <2>. QED
    BY <2>1, SentIs
<1>. QED
  BY <1>1, <1>2, <1>4, <1>5 DEF TapeAt

\* Its loop begins.
LEMMA TapeBegins ==
    ASSUME RobotTyped, HostTyped, NEW s \in Rpc, GoesOn(s), NEW id \in ReqId,
           NEW m \in Asking, Begins(rpc, s, m), files' = files,
           NoFrame(toHost, id), tape[id].got = <<>>,
           tape'[id] = [tape[id] EXCEPT !.recorded = files[m.subtopic]]
    PROVE  TapeAt(id)'
<1>1. PICK rec \in Seq(Octet) : rec = files[m.subtopic]
  BY DEF Begins
<1>2. tape'[id].got = <<>> /\ tape'[id].recorded = rec
  BY <1>1 DEF HostTyped
<1>3. toHost \in Seq(Entry)
  BY DEF RobotTyped
<1>4. PICK z \in 0 .. Len(rec) : z = 0
  OBVIOUS
<1>5. Carries(toHost, id, rec, z, z)
  BY <1>3, StillIs, CutStill
<1>6. s \in RpcSending /\ Still(s.out, id, rec)
  BY Sending, PlainStill DEF Rpc
<1>7. Carries(toHost', id, rec, z, z)
  BY <1>5, <1>6, LineOn
<1>8. /\ rpc'.reading = s.reading
      /\ s.reading = [file |-> m.subtopic, read |-> m, rlen |-> 0, tmp |-> <<>>]
  <2>1. rpc' = Sent(s)
    BY <1>6, GoingOn DEF RobotTyped
  <2>. QED
    BY <1>6, <2>1, SentIs, BeginIs DEF RobotTyped
<1>9. Between(rec, z, z) = <<>>
  BY <1>4, SubSeqEmpty DEF Between
<1>10. ReadTo(rpc.reading, rec, z)'
  <2>1. PICK r : r = rpc'.reading
    OBVIOUS
  <2>2. r.file = m.subtopic /\ r.rlen = 0 /\ r.tmp = <<>>
    BY <1>8, <2>1
  <2>3. Between(rec, z, r.rlen) = <<>> /\ z <= r.rlen
    BY <1>4, <1>9, <2>2
  <2>4. rec = files'[r.file]
    BY <1>1, <2>2
  <2>. QED
    BY <2>1, <2>2, <2>3, <2>4 DEF ReadTo
<1>11. Len(tape'[id].got) = z
  BY <1>2, <1>4
<1>12. tape'[id].got = Between(rec, 0, Len(tape'[id].got))
  BY <1>2, <1>4, <1>9, <1>11
<1>13. Carries(toHost', id, rec, Len(tape'[id].got), z)
  BY <1>7, <1>11
<1>. QED
  BY <1>2, <1>10, <1>12, <1>13 DEF TapeAt

\* A message is handled: only a loop that begins changes a tape.
LEMMA RobotReceivesTape ==
    ASSUME RobotTyped, HostTyped, NEW succeeds \in BOOLEAN,
           RobotReceives(succeeds), NEW id \in ReqId \ spoiled', Flow(id),
           TapeAt(id)
    PROVE  TapeAt(id)'
<1>1. PICK m \in HostMessage, s \in Rpc :
         m = Head(toRobot).meant /\ Receives(m, s)
  BY RobotReceivesIs
<1>2. toRobot # <<>> /\ connected /\ rpc.out = <<>>
  BY DEF RobotReceives, RobotTyped
<1>3. /\ GoesOn(s) /\ Received(rpc, s, m)
      /\ tape' = IF s.reading = NotReading THEN tape
                 ELSE [tape EXCEPT ![m.req_id].recorded = files[m.subtopic]]
  BY <1>1 DEF Receives
<1>4. s \in RpcSending
  BY Sending
<1>5. Still(s.out, id, tape[id].recorded)
  BY PlainStill DEF Rpc
<1>6. s.reading = NotReading \/ (m \in Asking /\ Begins(rpc, s, m))
  BY <1>3 DEF Received
<1>7. CASE s.reading = NotReading
  <2>1. tape'[id] = tape[id] /\ ~Reads(s, id)
    BY <1>3, <1>7 DEF Reads
  <2>. QED
    BY <1>3, <1>4, <1>5, <2>1, TapeOn
<1>8. CASE m \in Asking /\ Begins(rpc, s, m) /\ s.reading # NotReading
  <2>1. s.reading = [file |-> m.subtopic, read |-> m, rlen |-> 0,
                     tmp |-> <<>>]
        /\ s.out = rpc.out
    BY <1>8, BeginIs DEF RobotTyped
  <2>2. m.op = MESSAGES_OP_READ /\ m.req_id \in ReqId
    BY <1>8, AskingFields
  <2>3. tape \in [ReqId -> [got : Seq(Octet), recorded : Seq(Octet)]]
    BY DEF HostTyped
  <2>4. CASE m.req_id # id
    <3>1. tape'[id] = tape[id]
      BY <1>3, <2>2, <2>3, <2>4
    <3>2. s.reading.read = m
      BY <2>1
    <3>3. ~Reads(s, id)
      BY <2>4, <3>2 DEF Reads
    <3>. QED
      BY <1>3, <1>4, <1>5, <3>1, <3>3, TapeOn
  <2>5. CASE m.req_id = id
    <3>1. PICK ops \in Ops, p \in PhaseName : Running(id, ops, p)
      BY <1>2 DEF Flow
    <3>2. /\ Asks(toRobot, id, ops) /\ Fits(host[id], ops, p)
          /\ In(p, rpc, toHost, id)
          /\ p = "quiet" => tape[id].got = <<>>
      BY <3>1 DEF Running
    <3>3. About(m, id)
      BY <2>2, <2>5 DEF About
    <3>4. toRobot \in Seq(Request)
      BY DEF HostTyped
    <3>5. m.op = ops[1] /\ ops # <<>>
      BY <1>1, <1>2, <3>2, <3>3, <3>4, Rests
    <3>6. p = "quiet"
      BY <2>2, <3>2, <3>5, FirstOp
    <3>7. NoFrame(toHost, id) /\ tape[id].got = <<>>
      BY <3>2, <3>6 DEF In, Quiet
    <3>8. tape'[id] = [tape[id] EXCEPT !.recorded = files[m.subtopic]]
      BY <1>3, <1>8, <2>3, <2>5
    <3>9. files' = files
      <4>1. PICK d : d = Deserialize(Head(toRobot).packet)
        OBVIOUS
      <4>2. d = m
        BY <1>1, <1>2, <4>1, FirstRequest
      <4>3. files' = IF d.op = MESSAGES_OP_WRITE /\ d.topic = CASSETTE
                     THEN FilesAfter(rpc, d, succeeds) ELSE files
        BY <4>1 DEF RobotReceives
      <4>. QED
        BY <2>2, <4>2, <4>3 DEF MESSAGES_OP_READ, MESSAGES_OP_WRITE
    <3>. QED
      BY <1>3, <1>8, <3>7, <3>8, <3>9, TapeBegins
  <2>. QED
    BY <2>4, <2>5
<1>. QED
  BY <1>6, <1>7, <1>8

\* The server task publishes.
LEMMA RpcLoopTape ==
    ASSUME RobotTyped, HostTyped, RpcLoop, NEW id \in ReqId, TapeAt(id)
    PROVE  TapeAt(id)'
<1>1. tape' = tape /\ rpc.reading = NotReading
  BY DEF RpcLoop, hostVars
<1>2. WorldType /\ rpc \in Rpc
  BY DEF RobotTyped
<1>3. PICK s : /\ GoesOn(s)
               /\ \/ s = Published[RPC_SUB_MAX]
                  \/ s = Send(rpc, InfoFrame(ROBOT, NOW, Clock))
  BY DEF RpcLoop
<1>4. s \in Rpc /\ s.reading = rpc.reading
  <2>1. CASE s = Published[RPC_SUB_MAX]
    BY <1>2, <2>1, PublishedPhase
  <2>2. CASE s = Send(rpc, InfoFrame(ROBOT, NOW, Clock))
    BY <1>2, <2>2, RobotIs DEF Calm
  <2>. QED
    BY <1>3, <2>1, <2>2
<1>5. s \in RpcSending /\ ~Reads(s, id)
  BY <1>1, <1>4, Sending DEF Reads
<1>6. Still(s.out, id, tape[id].recorded)
  BY <1>4, PlainStill DEF Rpc
<1>. QED
  BY <1>1, <1>3, <1>5, <1>6, TapeOn

\* Nothing about a tape changes.
LEMMA TapeSame ==
    ASSUME UNCHANGED <<rpc, files, connected, toHost, tape>>, NEW id, TapeAt(id)
    PROVE  TapeAt(id)'
<1>1. /\ rpc' = rpc /\ files' = files /\ connected' = connected
      /\ toHost' = toHost /\ tape' = tape
  OBVIOUS
<1>2. \A r, rec, n : ReadTo(r, rec, n) => ReadTo(r, rec, n)'
  BY <1>1 DEF ReadTo
<1>. QED
  BY <1>1, <1>2 DEF TapeAt, Reads

\* A piece of it, and its length.
LEMMA PieceMoves ==
    ASSUME NEW m, NEW r, NEW rec \in Seq(Octet), NEW a \in 0 .. Len(rec),
           NEW b \in a .. Len(rec), Piece(m, r, Between(rec, a, b)),
           NEW id, id = r.read.req_id
    PROVE  Moves(m, id, rec, a, b)
<1>1. /\ m.flag = 0 /\ m.topic = CASSETTE /\ m.value = Between(rec, a, b)
      /\ ~Ends(m) /\ IsFor(m, id)
  BY PieceIs DEF Piece
<1>. QED
  BY <1>1, Flags DEF Moves

\* The length comes at the end.
LEMMA LengthMoves ==
    ASSUME NEW m, NEW r, NEW rec \in Seq(Octet), Length(m, r),
           r.rlen = Len(rec), NEW id, id = r.read.req_id
    PROVE  Moves(m, id, rec, Len(rec), Len(rec))
<1>1. Ends(m) /\ IsFor(m, id) /\ m.value = LongOctets(Len(rec))
  BY LengthIs DEF Length
<1>. QED
  BY <1>1 DEF Moves

\* Frames of another request.
LEMMA OtherStill ==
    ASSUME NEW e, NEW id, ~IsFor(e.meant, id), NEW rec
    PROVE  Still(<<e>>, id, rec)
<1>1. NoFrame(<<e>>, id)
  BY OneFrame
<1>. QED
  BY <1>1, StillIs

\* Lines of one and of two frames.
LEMMA OneEntry ==
    ASSUME NEW e \in Entry
    PROVE  <<e>> \in Seq(Entry) /\ Head(<<e>>) = e
OBVIOUS

LEMMA TwoEntries ==
    ASSUME NEW p \in Entry, NEW l \in Entry
    PROVE  <<p, l>> \in Seq(Entry) /\ <<p>> \o <<l>> = <<p, l>>
<1>1. PICK x, y, z : x = <<p>> /\ y = <<l>> /\ z = <<p, l>>
  OBVIOUS
<1>2. /\ x \in Seq(Entry) /\ Len(x) = 1 /\ x[1] = p
      /\ y \in Seq(Entry) /\ Len(y) = 1 /\ y[1] = l
      /\ z \in Seq(Entry) /\ Len(z) = 2 /\ z[1] = p /\ z[2] = l
  BY <1>1
<1>3. PICK u : u = x \o y
  OBVIOUS
<1>4. /\ u \in Seq(Entry) /\ Len(u) = 1 + 1
      /\ \A i \in 1 .. 1 + 1 : u[i] = IF i <= 1 THEN x[i] ELSE y[i - 1]
  BY <1>2, <1>3, ConcatProperties
<1>5. Len(u) = 2 /\ u[1] = p /\ u[2] = l
  BY <1>2, <1>4
<1>6. \A i \in 1 .. Len(u) : i = 1 \/ i = 2
  BY <1>5
<1>7. Len(u) = Len(z) /\ \A i \in 1 .. Len(u) : u[i] = z[i]
  BY <1>2, <1>5, <1>6
<1>8. u = z
  BY <1>2, <1>4, <1>7, SeqEqual
<1>. QED
  BY <1>1, <1>2, <1>3, <1>8

LEMMA FirstOfTwo ==
    ASSUME NEW p \in Entry, NEW l \in Entry, NEW z, z = <<p, l>>
    PROVE  Head(z) = p
OBVIOUS

\* Two frames of another request, and none.
LEMMA TwoStill ==
    ASSUME NEW e, NEW l, NEW id, ~IsFor(e.meant, id), ~IsFor(l.meant, id),
           NEW rec
    PROVE  Still(<<e, l>>, id, rec)
<1>1. NoFrame(<<e, l>>, id)
  BY TwoFrames
<1>. QED
  BY <1>1, StillIs

LEMMA EmptyStill ==
    ASSUME NEW o, o = <<>>, NEW id, NEW rec
    PROVE  Still(o, id, rec)
BY EmptyOut, StillIs

\* No frame that is sent is about the tape of another request.
LEMMA OctetStill ==
    ASSUME RobotTyped, NEW s, NEW r, r \in Loop, TakesOctet(s, r), NEW id,
           NEW rec
    PROVE  /\ s.out = <<>> \/ id # r.read.req_id => Still(s.out, id, rec)
           /\ id # r.read.req_id => ~Reads(s, id)
<1>1. s.reading.read = r.read
  BY DEF TakesOctet
<1>2. \/ s.out = <<>>
      \/ \E e : s.out = <<e>> /\ Piece(e.meant, r, Append(r.tmp, OctetRead(r)))
  BY DEF TakesOctet
<1>3. s.out = <<>> => Still(s.out, id, rec)
  BY EmptyStill
<1>4. ASSUME id # r.read.req_id, NEW e, s.out = <<e>>,
             Piece(e.meant, r, Append(r.tmp, OctetRead(r)))
      PROVE  Still(s.out, id, rec)
  <2>1. ~IsFor(e.meant, id)
    BY <1>4, PieceIs
  <2>. QED
    BY <1>4, <2>1, OtherStill
<1>. QED
  BY <1>1, <1>2, <1>3, <1>4 DEF Reads

\* The end of another file.
LEMMA EndStill ==
    ASSUME NEW s, NEW r, TakesEnd(s, r), NEW id, id # r.read.req_id, NEW rec
    PROVE  Still(s.out, id, rec)
<1>1. \/ \E l : s.out = <<l>> /\ Length(l.meant, r)
      \/ \E p, l : s.out = <<p, l>> /\ Piece(p.meant, r, r.tmp)
                   /\ Length(l.meant, r)
  BY DEF TakesEnd
<1>2. ASSUME NEW l, s.out = <<l>>, Length(l.meant, r)
      PROVE  Still(s.out, id, rec)
  <2>1. ~IsFor(l.meant, id)
    BY <1>2, LengthIs
  <2>. QED
    BY <1>2, <2>1, OtherStill
<1>3. ASSUME NEW p, NEW l, s.out = <<p, l>>, Piece(p.meant, r, r.tmp),
             Length(l.meant, r)
      PROVE  Still(s.out, id, rec)
  <2>1. ~IsFor(l.meant, id) /\ ~IsFor(p.meant, id)
    BY <1>3, LengthIs, PieceIs
  <2>. QED
    BY <1>3, <2>1, TwoStill
<1>. QED
  BY <1>1, <1>2, <1>3

\* Its tape, when the connection has ended.
LEMMA TapeEnded ==
    ASSUME RobotTyped, ~connected, NEW s \in RpcSending, GoesOn(s),
           tape' = tape, NEW id, TapeAt(id)
    PROVE  TapeAt(id)'
<1>1. ~connected' /\ toHost' = toHost
  BY GoingOn DEF RobotTyped
<1>. QED
  BY <1>1 DEF TapeAt

\* An octet is read, and perhaps sent.
LEMMA ReadOctetTape ==
    ASSUME RobotTyped, HostTyped, ReadOctet, NEW id \in ReqId, TapeAt(id)
    PROVE  TapeAt(id)'
<1>1. PICK s \in RpcSending : GoesOn(s) /\ TakesOctet(s, rpc.reading)
  BY ReadOctetIs
<1>2. PICK r : r = rpc.reading
  OBVIOUS
<1>3. /\ r # NotReading /\ tape' = tape /\ files' = files
      /\ r.rlen < Len(files[r.file])
  BY <1>2 DEF ReadOctet, hostVars
<1>4. r \in Loop /\ r.rlen \in Nat /\ r.tmp \in Seq(Octet)
  BY <1>2, <1>3, LoopFields
<1>5. TakesOctet(s, r)
  BY <1>1, <1>2
<1>6. CASE ~connected
  BY <1>1, <1>3, <1>6, TapeEnded
<1>7. CASE connected /\ id # r.read.req_id
  <2>1. Still(s.out, id, tape[id].recorded) /\ ~Reads(s, id)
    BY <1>4, <1>5, <1>7, OctetStill
  <2>. QED
    BY <1>1, <1>3, <2>1, TapeOn
<1>8. CASE connected /\ id = r.read.req_id
  <2>1. PICK got \in Seq(Octet), rec \in Seq(Octet) :
           got = tape[id].got /\ rec = tape[id].recorded
    BY DEF HostTyped
  <2>2. Reads(rpc, id)
    BY <1>2, <1>3, <1>8 DEF Reads
  <2>3. /\ got = Between(rec, 0, Len(got))
        /\ \E n : /\ Carries(toHost, id, rec, Len(got), n)
                  /\ connected /\ Reads(rpc, id) => ReadTo(rpc.reading, rec, n)
    BY <2>1 DEF TapeAt
  <2>4. PICK n : Carries(toHost, id, rec, Len(got), n) /\ ReadTo(r, rec, n)
    BY <1>2, <1>8, <2>2, <2>3
  <2>5. toHost \in Seq(Entry) /\ n \in 0 .. Len(rec)
    BY <2>4, CutPlaces DEF RobotTyped
  <2>6. /\ rec = files[r.file] /\ r.rlen \in n .. Len(rec)
        /\ r.rlen < Len(rec) /\ r.tmp = Between(rec, n, r.rlen)
    BY <1>3, <1>4, <2>4, <2>5 DEF ReadTo
  <2>7. Append(r.tmp, OctetRead(r)) = Between(rec, n, r.rlen + 1)
    <3>1. PICK k \in n .. Len(rec) : k = r.rlen
      BY <2>6
    <3>2. k < Len(rec) /\ OctetRead(r) = rec[k + 1]
      BY <2>6, <3>1 DEF OctetRead
    <3>3. Append(Between(rec, n, k), rec[k + 1]) = Between(rec, n, k + 1)
      <4>1. n \in Nat /\ k \in Nat /\ n <= k
        BY <2>5, <3>1
      <4>. QED
        BY <3>2, <4>1, OneFurther
    <3>. QED
      BY <2>6, <3>1, <3>2, <3>3
  <2>8. /\ s.reading.file = r.file /\ s.reading.rlen = r.rlen + 1
        /\ \/ /\ s.reading.tmp = Append(r.tmp, OctetRead(r)) /\ s.out = <<>>
           \/ /\ s.reading.tmp = <<>>
              /\ \E e \in Entry : s.out = <<e>>
                    /\ Piece(e.meant, r, Append(r.tmp, OctetRead(r)))
    BY <1>5 DEF TakesOctet
  <2>9. rpc'.reading = s.reading
    <3>1. rpc' = Sent(s)
      BY <1>1, GoingOn DEF RobotTyped
    <3>. QED
      BY <3>1, SentIs
  <2>10. PICK b : b = r.rlen + 1
    OBVIOUS
  <2>11. b \in n .. Len(rec) /\ n <= b
    BY <1>4, <2>5, <2>6, <2>10
  <2>12. CASE s.reading.tmp = Append(r.tmp, OctetRead(r)) /\ s.out = <<>>
    <3>1. Carries(toHost', id, rec, Len(got), n)
      <4>1. Still(s.out, id, rec)
        BY <2>12, EmptyStill
      <4>. QED
        BY <1>1, <2>4, <4>1, LineOn
    <3>2. ReadTo(rpc.reading, rec, n)'
      BY <1>3, <2>6, <2>7, <2>8, <2>9, <2>10, <2>11, <2>12 DEF ReadTo
    <3>. QED
      BY <1>3, <2>1, <2>3, <3>1, <3>2 DEF TapeAt
  <2>13. ASSUME s.reading.tmp = <<>>, NEW e \in Entry, s.out = <<e>>,
                Piece(e.meant, r, Append(r.tmp, OctetRead(r)))
         PROVE  TapeAt(id)'
    <3>1. Piece(e.meant, r, Between(rec, n, b))
      BY <2>7, <2>10, <2>13
    <3>2. Moves(e.meant, id, rec, n, b)
      BY <1>8, <2>5, <2>11, <3>1, PieceMoves
    <3>3. Carries(<<e>>, id, rec, n, b)
      BY <2>5, <2>11, <3>2, CutOne
    <3>4. toHost' = toHost \o <<e>>
      <4>1. PICK o : o = s.out
        OBVIOUS
      <4>2. o = <<e>> /\ Head(o) = e
        BY <2>13, <4>1
      <4>3. /\ connected' \in BOOLEAN
            /\ connected' => toHost' = toHost \o o
            /\ connected /\ ~connected' => toHost' = toHost \o <<Head(o)>>
        BY <1>1, <4>1, GoingOn DEF RobotTyped
      <4>. QED
        BY <1>8, <4>2, <4>3
    <3>5. Carries(toHost', id, rec, Len(got), b)
      <4>1. PICK o \in Seq(Entry) : o = <<e>>
        BY OneEntry
      <4>. QED
        BY <2>4, <2>5, <3>3, <3>4, <4>1, CutJoin
    <3>6. ReadTo(rpc.reading, rec, b)'
      <4>1. Between(rec, b, b) = <<>>
        BY <1>4, <2>10, NoneBetween
      <4>. QED
        BY <1>3, <2>6, <2>8, <2>9, <2>10, <2>11, <2>13, <4>1 DEF ReadTo
    <3>. QED
      BY <1>3, <2>1, <2>3, <3>5, <3>6 DEF TapeAt
  <2>. QED
    BY <2>8, <2>12, <2>13
<1>. QED
  BY <1>6, <1>7, <1>8

\* The rest is sent, and the length.
LEMMA EndOfFileTape ==
    ASSUME RobotTyped, HostTyped, EndOfFile, NEW id \in ReqId, TapeAt(id)
    PROVE  TapeAt(id)'
<1>1. PICK s \in RpcSending : GoesOn(s) /\ TakesEnd(s, rpc.reading)
  BY EndOfFileIs
<1>2. PICK r : r = rpc.reading
  OBVIOUS
<1>3. /\ r # NotReading /\ tape' = tape
      /\ r.rlen = Len(files[r.file])
  BY <1>2 DEF EndOfFile, hostVars
<1>4. r \in Loop /\ r.rlen \in Nat /\ r.tmp \in Seq(Octet)
  BY <1>2, <1>3, LoopFields
<1>5. TakesEnd(s, r)
  BY <1>1, <1>2
<1>6. ~Reads(s, id)
  BY <1>5 DEF TakesEnd, Reads
<1>7. CASE ~connected
  BY <1>1, <1>3, <1>7, TapeEnded
<1>8. CASE connected /\ id # r.read.req_id
  <2>1. Still(s.out, id, tape[id].recorded)
    BY <1>5, <1>8, EndStill
  <2>. QED
    BY <1>1, <1>3, <1>6, <2>1, TapeOn
<1>9. CASE connected /\ id = r.read.req_id
  <2>1. PICK got \in Seq(Octet), rec \in Seq(Octet) :
           got = tape[id].got /\ rec = tape[id].recorded
    BY DEF HostTyped
  <2>2. Reads(rpc, id)
    BY <1>2, <1>3, <1>9 DEF Reads
  <2>3. /\ got = Between(rec, 0, Len(got))
        /\ \E n : /\ Carries(toHost, id, rec, Len(got), n)
                  /\ connected /\ Reads(rpc, id) => ReadTo(rpc.reading, rec, n)
    BY <2>1 DEF TapeAt
  <2>4. PICK n : Carries(toHost, id, rec, Len(got), n) /\ ReadTo(r, rec, n)
    BY <1>2, <1>9, <2>2, <2>3
  <2>5. toHost \in Seq(Entry) /\ n \in 0 .. Len(rec)
    BY <2>4, CutPlaces DEF RobotTyped
  <2>6. PICK b \in n .. Len(rec) : b = Len(rec) /\ r.rlen = b
    BY <1>3, <2>4, <2>5 DEF ReadTo
  <2>7. r.tmp = Between(rec, n, b)
    BY <2>4, <2>6 DEF ReadTo
  <2>8. ~Reads(rpc', id)
    <3>1. rpc' = Sent(s)
      BY <1>1, GoingOn DEF RobotTyped
    <3>. QED
      BY <1>6, <3>1, SentIs
  <2>9. SUFFICES ASSUME TRUE PROVE \E d : Carries(toHost', id, rec, Len(got), d)
    BY <1>3, <2>1, <2>3, <2>8 DEF TapeAt
  <2>10. /\ connected' \in BOOLEAN
         /\ connected' => toHost' = toHost \o s.out
         /\ connected /\ ~connected' => toHost' = toHost \o <<Head(s.out)>>
    BY <1>1, GoingOn DEF RobotTyped
  <2>11. ASSUME NEW l \in Entry, Length(l.meant, r)
         PROVE  Carries(<<l>>, id, rec, b, b) /\ <<l>> \in Seq(Entry)
    <3>1. Moves(l.meant, id, rec, b, b)
      BY <1>9, <2>6, <2>11, LengthMoves
    <3>2. Carries(<<l>>, id, rec, b, b)
      BY <2>5, <2>6, <3>1, CutOne
    <3>. QED
      BY <3>2
  <2>12. ASSUME r.tmp = <<>>, NEW l \in Entry, s.out = <<l>>,
                Length(l.meant, r)
         PROVE  \E d : Carries(toHost', id, rec, Len(got), d)
    <3>1. n = b
      <4>1. Len(r.tmp) = b - n
        <5>1. n \in Nat /\ b \in Nat /\ n <= b /\ b <= Len(rec)
          BY <2>5, <2>6
        <5>. QED
          BY <2>7, <5>1, BetweenLength
      <4>2. Len(r.tmp) = 0
        BY <2>12
      <4>. QED
        BY <2>5, <2>6, <2>7, <4>1, <4>2
    <3>2. PICK o \in Seq(Entry) : o = <<l>> /\ Head(o) = l
      BY OneEntry
    <3>3. toHost' = toHost \o o
      BY <1>9, <2>10, <2>12, <3>2
    <3>4. Carries(o, id, rec, n, b)
      BY <2>11, <2>12, <3>1, <3>2
    <3>. QED
      BY <2>4, <2>5, <3>3, <3>4, CutJoin
  <2>13. ASSUME NEW p \in Entry, NEW l \in Entry, s.out = <<p, l>>,
                Piece(p.meant, r, r.tmp), Length(l.meant, r)
         PROVE  \E d : Carries(toHost', id, rec, Len(got), d)
    <3>1. Moves(p.meant, id, rec, n, b)
      BY <1>9, <2>5, <2>6, <2>7, <2>13, PieceMoves
    <3>2. PICK o \in Seq(Entry) : o = <<p>>
      BY OneEntry
    <3>3. PICK u \in Seq(Entry) : u = <<l>>
      BY OneEntry
    <3>4. Carries(o, id, rec, n, b)
      BY <2>5, <2>6, <3>1, <3>2, CutOne
    <3>5. Carries(u, id, rec, b, b)
      BY <2>11, <2>13, <3>3
    <3>6. <<p, l>> = o \o u /\ Head(<<p, l>>) = p
      BY <3>2, <3>3, TwoEntries, FirstOfTwo
    <3>7. o \o u \in Seq(Entry) /\ Carries(o \o u, id, rec, n, b)
      BY <3>4, <3>5, CutJoin
    <3>8. toHost' = toHost \o (o \o u) \/ toHost' = toHost \o o
      <4>1. PICK x : x = s.out
        OBVIOUS
      <4>2. x = o \o u /\ <<Head(x)>> = o
        BY <2>13, <3>2, <3>6, <4>1
      <4>3. /\ connected' \in BOOLEAN
            /\ connected' => toHost' = toHost \o x
            /\ connected /\ ~connected' => toHost' = toHost \o <<Head(x)>>
        BY <2>10, <4>1
      <4>4. connected' => toHost' = toHost \o (o \o u)
        BY <4>2, <4>3
      <4>5. ~connected' => toHost' = toHost \o o
        BY <1>9, <4>2, <4>3
      <4>. QED
        BY <4>3, <4>4, <4>5
    <3>9. PICK w \in Seq(Entry) :
             toHost' = toHost \o w /\ \E d : Carries(w, id, rec, n, d)
      <4>1. CASE toHost' = toHost \o (o \o u)
        BY <3>7, <4>1
      <4>2. CASE toHost' = toHost \o o
        BY <3>4, <4>2
      <4>. QED
        BY <3>8, <4>1, <4>2
    <3>10. PICK d : Carries(w, id, rec, n, d)
      BY <3>9
    <3>. QED
      BY <2>4, <2>5, <3>9, <3>10, CutJoin
  <2>14. \/ /\ r.tmp = <<>>
            /\ \E l \in Entry : s.out = <<l>> /\ Length(l.meant, r)
         \/ \E p, l \in Entry :
               /\ s.out = <<p, l>>
               /\ Piece(p.meant, r, r.tmp) /\ Length(l.meant, r)
    BY <1>5 DEF TakesEnd
  <2>. QED
    BY <2>12, <2>13, <2>14
<1>. QED
  BY <1>7, <1>8, <1>9

\* The empty sequence of octets.
LEMMA NoOctets == \E e \in Seq(Octet) : e = <<>> /\ Len(e) = 0
<1>1. <<>> \in Seq(Octet)
  OBVIOUS
<1>2. PICK e \in Seq(Octet) : e = <<>>
  BY <1>1
<1>3. Len(e) = 0
  BY <1>2
<1>. QED
  BY <1>2, <1>3

\* Nothing about it is on its way when it is free.
LEMMA FreeNext ==
    ASSUME NEW id, Flow(id)', NEW h, h = host', h[id] = "free"
    PROVE  NoFrame(toHost', id) /\ (connected' => ~Reads(rpc', id))
<1>1. CASE connected'
  <2>1. PICK ops \in Ops, p \in PhaseName : Running(id, ops, p)'
    BY <1>1 DEF Flow
  <2>2. Fits(host'[id], ops, p) /\ In(p, rpc', toHost', id)
    BY <2>1 DEF Running
  <2>. QED
    BY <2>2 DEF Fits, In, Quiet
<1>2. CASE ~connected'
  BY <1>2 DEF Flow, Weak
<1>. QED
  BY <1>1, <1>2

\* The host appends what it has read, or is done.
LEMMA HostReceivesTape ==
    ASSUME RobotTyped, HostTyped, HostReceives, NEW id \in ReqId, TapeAt(id),
           Flow(id)'
    PROVE  TapeAt(id)'
<1>1. PICK m : m = toHost[1].meant
  OBVIOUS
<1>2. /\ toHost # <<>> /\ toHost' = Tail(toHost) /\ rpc' = rpc
      /\ connected' = connected /\ files' = files
  BY DEF HostReceives, world
<1>3. Takes(m, id) /\ toHost \in Seq(Entry)
  BY <1>1, HostReceivesIs DEF RobotTyped
<1>4. PICK got \in Seq(Octet), rec \in Seq(Octet) :
         got = tape[id].got /\ rec = tape[id].recorded
  BY DEF HostTyped
<1>5. /\ got = Between(rec, 0, Len(got))
      /\ \E n : /\ Carries(toHost, id, rec, Len(got), n)
                /\ connected /\ Reads(rpc, id) => ReadTo(rpc.reading, rec, n)
  BY <1>4 DEF TapeAt
<1>6. PICK n : /\ Carries(toHost, id, rec, Len(got), n)
               /\ connected /\ Reads(rpc, id) => ReadTo(rpc.reading, rec, n)
  BY <1>5
<1>7. PICK a : a = Len(got)
  OBVIOUS
<1>8. /\ a \in 0 .. Len(rec)
      /\ \E d \in 0 .. Len(rec) :
            Moves(m, id, rec, a, d) /\ Carries(Tail(toHost), id, rec, d, n)
  BY <1>1, <1>2, <1>3, <1>6, <1>7, CutTail
<1>9. PICK d \in 0 .. Len(rec) :
         Moves(m, id, rec, a, d) /\ Carries(toHost', id, rec, d, n)
  BY <1>2, <1>8
<1>10. \A r : ReadTo(r, rec, n) => ReadTo(r, rec, n)'
  BY <1>2 DEF ReadTo
<1>11. connected' /\ Reads(rpc', id) => ReadTo(rpc.reading, rec, n)'
  BY <1>2, <1>6, <1>10
<1>12. CASE IsFor(m, id) /\ Ends(m)
  <2>1. /\ host'[id] = "free"
        /\ tape'[id].got = <<>> /\ tape'[id].recorded = <<>>
    BY <1>3, <1>12 DEF Takes
  <2>2. NoFrame(toHost', id) /\ (connected' => ~Reads(rpc', id))
    BY <2>1, FreeNext
  <2>3. PICK e \in Seq(Octet) : e = <<>> /\ Len(e) = 0
    BY NoOctets
  <2>4. PICK z \in 0 .. Len(e) : z = 0
    BY <2>3
  <2>5. toHost' \in Seq(Entry)
    BY <1>2, <1>3, TailIs
  <2>6. Carries(toHost', id, e, z, z)
    BY <2>2, <2>5, StillIs, CutStill
  <2>7. Between(e, z, z) = e
    BY <2>3, <2>4, NoneBetween
  <2>8. tape'[id].got = e /\ tape'[id].recorded = e
    BY <2>1, <2>3
  <2>9. e = Between(e, 0, Len(e)) /\ Carries(toHost', id, e, Len(e), z)
    BY <2>3, <2>4, <2>6, <2>7
  <2>. QED
    BY <2>2, <2>8, <2>9 DEF TapeAt
<1>13. CASE IsFor(m, id) /\ m.topic = CASSETTE /\ ~Ends(m)
  <2>1. /\ tape'[id].recorded = rec
        /\ tape'[id].got = got \o m.value
    BY <1>3, <1>4, <1>13 DEF Takes
  <2>2. a <= d /\ m.value = Between(rec, a, d)
    BY <1>9, <1>13 DEF Moves
  <2>3. a \in Nat /\ d \in Nat /\ d <= Len(rec)
    BY <1>8
  <2>6. PICK z \in Nat : z = 0
    OBVIOUS
  <2>4. PICK v : v = m.value
    OBVIOUS
  <2>5. tape'[id].got = Between(rec, 0, d)
    <3>1. got = Between(rec, z, a) /\ v = Between(rec, a, d)
      <4>1. Between(rec, 0, a) = Between(rec, z, a)
        BY <2>6
      <4>2. got = Between(rec, 0, a)
        BY <1>5, <1>7
      <4>3. v = Between(rec, a, d)
        BY <2>2, <2>4
      <4>. QED
        BY <4>1, <4>2, <4>3
    <3>2. got \o v = Between(rec, z, d)
      <4>1. PICK c \in Nat, b \in Nat : c = d /\ b = a
        BY <2>3
      <4>2. /\ z = 0 /\ b <= c /\ c <= Len(rec) /\ rec \in Seq(Octet)
            /\ v = Between(rec, b, c) /\ got = Between(rec, z, b)
            /\ b \in Nat /\ c \in Nat
        BY <2>2, <2>3, <2>6, <3>1, <4>1
      <4>3. JoinsAt(rec, z, b, c)
        BY <4>2, SplitJoins
      <4>4. got \o v = Between(rec, z, c)
        BY <4>2, <4>3 DEF JoinsAt
      <4>. QED
        BY <4>1, <4>4
    <3>3. tape'[id].got = Between(rec, z, d)
      BY <2>1, <2>4, <3>2
    <3>. QED
      BY <2>6, <3>3
  <2>7. z <= d /\ tape'[id].got = Between(rec, z, d) /\ d - z = d
    BY <2>3, <2>5, <2>6
  <2>8. Len(tape'[id].got) = d
    BY <2>3, <2>7, BetweenLength
  <2>. QED
    BY <1>9, <1>11, <2>1, <2>5, <2>8 DEF TapeAt
<1>14. CASE ~(IsFor(m, id) /\ Ends(m))
            /\ ~(IsFor(m, id) /\ m.topic = CASSETTE /\ ~Ends(m))
  <2>1. tape'[id].recorded = rec /\ tape'[id].got = got
    BY <1>3, <1>4, <1>14 DEF Takes
  <2>2. d = a
    BY <1>9, <1>14 DEF Moves
  <2>. QED
    BY <1>5, <1>7, <1>9, <1>11, <2>1, <2>2 DEF TapeAt
<1>. QED
  BY <1>12, <1>13, <1>14

\* What the host sends changes no tape.
LEMMA SendsSame ==
    ASSUME NEW e, Sends(e)
    PROVE  UNCHANGED <<rpc, files, connected, toHost, tape>>
BY DEF Sends, world

\* Any step of the host.
LEMMA HostStepTape ==
    ASSUME RobotTyped, HostTyped, HostStep, NEW id \in ReqId, TapeAt(id),
           Flow(id)'
    PROVE  TapeAt(id)'
<1>1. CASE HostReceives
  BY <1>1, HostReceivesTape
<1>2. CASE ~HostReceives
  <2>1. \E e : Sends(e)
    BY <1>2 DEF HostStep, HostReads, HostSubscribes, HostSubscribesAgain,
                HostUnsubscribes, HostTells, HostCutsShort
  <2>2. UNCHANGED <<rpc, files, connected, toHost, tape>>
    BY <2>1, SendsSame
  <2>. QED
    BY <2>2, TapeSame
<1>. QED
  BY <1>1, <1>2

\* Every step keeps the tapes of all requests in turn.
LEMMA TapeStep ==
    ASSUME RobotTyped, HostTyped, FlowInv, TapeInv, [Next]_vars
    PROVE  TapeInv'
<1>1. SUFFICES ASSUME NEW id \in ReqId \ spoiled' PROVE TapeAt(id)'
  BY DEF TapeInv
<1>2. Flow(id) /\ TapeAt(id)
  BY SpoiledStays DEF FlowInv, TapeInv
<1>3. ASSUME NEW succeeds \in BOOLEAN, RobotReceives(succeeds)
      PROVE  TapeAt(id)'
  BY <1>2, <1>3, RobotReceivesTape
<1>4. CASE ReadOctet
  BY <1>2, <1>4, ReadOctetTape
<1>5. CASE EndOfFile
  BY <1>2, <1>5, EndOfFileTape
<1>6. CASE RpcLoop
  BY <1>2, <1>6, RpcLoopTape
<1>7. CASE FileReady \/ Expire \/ UNCHANGED vars
  <2>1. UNCHANGED <<rpc, files, connected, toHost, tape>>
    BY <1>7 DEF FileReady, Expire, vars, hostVars, world
  <2>. QED
    BY <1>2, <2>1, TapeSame
<1>8. CASE HostStep
  <2>1. Flow(id)'
    BY FlowStep DEF FlowInv
  <2>. QED
    BY <1>2, <1>8, <2>1, HostStepTape
<1>. QED
  BY <1>3, <1>4, <1>5, <1>6, <1>7, <1>8 DEF Next, RobotStep

\* Nothing has been recorded.
LEMMA TapeInit ==
    ASSUME Init
    PROVE  TapeInv
<1>1. SUFFICES ASSUME NEW id \in ReqId PROVE TapeAt(id)
  BY DEF TapeInv
<1>2. /\ rpc.reading = NotReading /\ toHost = <<>>
      /\ tape[id].got = <<>> /\ tape[id].recorded = <<>>
  <2>1. rpc.reading = NotReading
    BY FirstRpc DEF Init
  <2>2. toHost = <<>> /\ tape = [i \in ReqId |-> [got |-> <<>>, recorded |-> <<>>]]
    BY DEF Init
  <2>3. tape[id] = [got |-> <<>>, recorded |-> <<>>]
    BY <2>2
  <2>. QED
    BY <2>1, <2>2, <2>3
<1>3. PICK e \in Seq(Octet) : e = <<>> /\ Len(e) = 0
  BY NoOctets
<1>4. PICK z \in 0 .. Len(e) : z = 0
  BY <1>3
<1>5. toHost \in Seq(Entry) /\ Still(toHost, id, e)
  BY <1>2, EmptyStill
<1>6. Carries(toHost, id, e, z, z)
  BY <1>5, CutStill
<1>7. Between(e, z, z) = e
  BY <1>3, <1>4, NoneBetween
<1>8. e = Between(e, 0, Len(e)) /\ Carries(toHost, id, e, Len(e), z)
  BY <1>3, <1>4, <1>6, <1>7
<1>9. ~Reads(rpc, id)
  BY <1>2 DEF Reads
<1>. QED
  BY <1>2, <1>3, <1>8, <1>9 DEF TapeAt

\* Where the length comes next, all octets have been read.
LEMMA TapeWhole ==
    ASSUME RobotTyped, HostTyped, TapeInv
    PROVE  CassetteWhole
<1>1. PICK m : m = Head(toHost).meant
  OBVIOUS
<1>2. PICK id : id = m.req_id
  OBVIOUS
<1>3. SUFFICES ASSUME toHost # <<>>, m.op = MESSAGES_OP_DATA,
                      m.topic = CASSETTE, m.subtopic \in CassetteIndex,
                      m.flag = MESSAGES_DATA_FLAG_END, m.value # <<>>,
                      id \notin spoiled
               PROVE  /\ tape[id].got = tape[id].recorded
                      /\ m.value = LongOctets(Len(tape[id].got))
  BY <1>1, <1>2 DEF CassetteWhole
<1>4. toHost \in Seq(Entry) /\ Head(toHost) = toHost[1] /\ toHost[1] \in Entry
  BY <1>3, TailIs DEF RobotTyped
<1>5. m \in Frame
  BY <1>1, <1>4 DEF Entry
<1>6. m.req_id \in ReqId
  <2>1. m.op \notin {MESSAGES_OP_PONG, MESSAGES_OP_INFO}
    BY <1>3 DEF MESSAGES_OP_PONG, MESSAGES_OP_INFO, MESSAGES_OP_DATA
  <2>2. m.flag # 5
    BY <1>3, Flags
  <2>. QED
    BY <1>5, <2>1, <2>2 DEF Frame
<1>7. TapeAt(id)
  BY <1>2, <1>3, <1>6 DEF TapeInv
<1>8. PICK got \in Seq(Octet), rec \in Seq(Octet) :
         got = tape[id].got /\ rec = tape[id].recorded
  BY <1>2, <1>6 DEF HostTyped
<1>9. got = Between(rec, 0, Len(got)) /\ \E n : Carries(toHost, id, rec, Len(got), n)
  BY <1>7, <1>8 DEF TapeAt
<1>10. PICK d \in 0 .. Len(rec) : Moves(m, id, rec, Len(got), d)
  BY <1>1, <1>3, <1>4, <1>9, CutTail
<1>11. IsFor(m, id) /\ Ends(m)
  BY <1>2, <1>3, Flags DEF IsFor, Ends
<1>12. d = Len(got) /\ d = Len(rec) /\ m.value = LongOctets(Len(rec))
  BY <1>3, <1>10, <1>11 DEF Moves
<1>13. Between(rec, 0, Len(rec)) = rec
  <2>1. PICK k \in Nat : k = 0 /\ k + 1 = 1
    OBVIOUS
  <2>2. Between(rec, k, Len(rec)) = SubSeq(rec, 1, Len(rec))
    BY <2>1 DEF Between
  <2>. QED
    BY <2>1, <2>2, SubSeqFull
<1>. QED
  BY <1>8, <1>9, <1>12, <1>13

\* A reply that ends with the length of a cassette follows all of its octets.
THEOREM AlwaysCassetteWhole == Spec => []CassetteWhole
<1>1. Init => Course /\ TapeInv
  BY TypedInit, FlowInit, TapeInit DEF Course
<1>2. Course /\ TapeInv /\ [Next]_vars => (Course /\ TapeInv)'
  BY TypedStep, FlowStep, TapeStep DEF Course
<1>3. Course /\ TapeInv => CassetteWhole
  BY TapeWhole DEF Course
<1>. QED
  BY <1>1, <1>2, <1>3, PTL DEF Spec
=============================================================================
