------------------------------ MODULE Messages ------------------------------
(***************************************************************************)
(* The messages of messages.h, and how messages.c turns them into octets   *)
(* and back.                                                               *)
(*                                                                         *)
(* Every message is a header of a fixed number of octets, and some have a  *)
(* value of variable length behind it; the last octet of the header is     *)
(* then the length of the value.  len and value are one sequence here.     *)
(***************************************************************************)
EXTENDS Naturals, Sequences

CONSTANTS
    Base,       \* number of values of an octet (256)
    Stray       \* what is read behind the end of a packet

Octet == 0 .. Base - 1

ASSUME MessagesAssumption ==
    /\ Base \in Nat /\ Base > 11    \* a length fits behind the longest header
    /\ Stray \notin Octet

MESSAGES_OP_PING        == 1
MESSAGES_OP_PONG        == 2
MESSAGES_OP_INFO        == 3
MESSAGES_OP_DATA        == 4
MESSAGES_OP_READ        == 5
MESSAGES_OP_WRITE       == 6
MESSAGES_OP_SUBSCRIBE   == 7
MESSAGES_OP_UNSUBSCRIBE == 8

WithSeqId == {MESSAGES_OP_PING, MESSAGES_OP_PONG}
WithValue == {MESSAGES_OP_INFO, MESSAGES_OP_DATA, MESSAGES_OP_WRITE}
WithTopic == {MESSAGES_OP_READ, MESSAGES_OP_SUBSCRIBE}
Op == WithSeqId \cup WithValue \cup WithTopic \cup {MESSAGES_OP_UNSUBSCRIBE}

\* uint16_t and uint32_t.
Short == 0 .. Base * Base - 1
Long == 0 .. Base * Base * Base * Base - 1

Values == {v \in Seq(Octet) : Len(v) < Base}

\* message_any_t
Message ==
    [op : WithSeqId, seq_id : Octet]
    \cup [op : {MESSAGES_OP_INFO}, topic : Octet, subtopic : Octet,
          value : Values]
    \cup [op : {MESSAGES_OP_DATA}, req_id : Short, topic : Octet,
          subtopic : Octet, flag : Octet, timestamp : Long, value : Values]
    \cup [op : WithTopic, req_id : Short, topic : Octet, subtopic : Octet]
    \cup [op : {MESSAGES_OP_WRITE}, req_id : Short, topic : Octet,
          subtopic : Octet, value : Values]
    \cup [op : {MESSAGES_OP_UNSUBSCRIBE}, req_id : Short]

\* What deserialising and serialising come to when they fail.
Failed == [op |-> 0]
NoPacket == <<>>

-----------------------------------------------------------------------------
(* The functions that fill a message in, message_..._frame.                *)

PingFrame(seq_id) == [op |-> MESSAGES_OP_PING, seq_id |-> seq_id]

PongFrame(seq_id) == [op |-> MESSAGES_OP_PONG, seq_id |-> seq_id]

InfoFrame(topic, subtopic, value) ==
    [op |-> MESSAGES_OP_INFO, topic |-> topic, subtopic |-> subtopic,
     value |-> value]

DataFrame(req_id, topic, subtopic, flag, timestamp, value) ==
    [op |-> MESSAGES_OP_DATA, req_id |-> req_id, topic |-> topic,
     subtopic |-> subtopic, flag |-> flag, timestamp |-> timestamp,
     value |-> value]

ReadFrame(req_id, topic, subtopic) ==
    [op |-> MESSAGES_OP_READ, req_id |-> req_id, topic |-> topic,
     subtopic |-> subtopic]

WriteFrame(req_id, topic, subtopic, value) ==
    [op |-> MESSAGES_OP_WRITE, req_id |-> req_id, topic |-> topic,
     subtopic |-> subtopic, value |-> value]

SubscribeFrame(req_id, topic, subtopic) ==
    [op |-> MESSAGES_OP_SUBSCRIBE, req_id |-> req_id, topic |-> topic,
     subtopic |-> subtopic]

UnsubscribeFrame(req_id) ==
    [op |-> MESSAGES_OP_UNSUBSCRIBE, req_id |-> req_id]

-----------------------------------------------------------------------------
(* Lengths.                                                                *)

HeaderLength(op) ==
    CASE op \in WithSeqId -> 2
      [] op = MESSAGES_OP_INFO -> 4
      [] op = MESSAGES_OP_DATA -> 11
      [] op = MESSAGES_OP_WRITE -> 6
      [] op \in WithTopic -> 5
      [] op = MESSAGES_OP_UNSUBSCRIBE -> 3

\* message_getsizeof
GetSizeOf(m) ==
    HeaderLength(m.op) + (IF m.op \in WithValue THEN Len(m.value) ELSE 0)

-----------------------------------------------------------------------------
(* message_serialize                                                       *)

\* Numbers are sent with the octet of highest order first (htons, htonl).
High(n) == n \div Base
Low(n) == n % Base

\* What is stored in buf, octet by octet and by memcpy.
Octets(m) ==
    CASE m.op \in WithSeqId -> <<m.op, m.seq_id>>
      [] m.op = MESSAGES_OP_INFO ->
            <<m.op, m.topic, m.subtopic, Len(m.value)>> \o m.value
      [] m.op = MESSAGES_OP_DATA ->
            <<m.op, High(m.req_id), Low(m.req_id), m.topic, m.subtopic, m.flag,
              High(High(High(m.timestamp))), Low(High(High(m.timestamp))),
              Low(High(m.timestamp)), Low(m.timestamp), Len(m.value)>>
            \o m.value
      [] m.op \in WithTopic ->
            <<m.op, High(m.req_id), Low(m.req_id), m.topic, m.subtopic>>
      [] m.op = MESSAGES_OP_WRITE ->
            <<m.op, High(m.req_id), Low(m.req_id), m.topic, m.subtopic,
              Len(m.value)>> \o m.value
      [] m.op = MESSAGES_OP_UNSUBSCRIBE ->
            <<m.op, High(m.req_id), Low(m.req_id)>>

\* The octets that are stored from buf on, if mlen, computed before any of them
\* is stored, is no more than len.  Nothing but mlen bounds what is stored, and
\* mlen octets of buf are sent.
Serialize(m, len) == IF GetSizeOf(m) > len THEN NoPacket ELSE Octets(m)

-----------------------------------------------------------------------------
(* message_deserialize                                                     *)

Number(high, low) == high * Base + low

\* The value points into the packet, and is as long as the header says.
ValueBehind(header, p) ==
    [i \in 1 .. p[header] |->
        IF header + i <= Len(p) THEN p[header + i] ELSE Stray]

Fields(p) ==
    CASE p[1] \in WithSeqId -> [op |-> p[1], seq_id |-> p[2]]
      [] p[1] = MESSAGES_OP_INFO ->
            InfoFrame(p[2], p[3], ValueBehind(4, p))
      [] p[1] = MESSAGES_OP_DATA ->
            DataFrame(Number(p[2], p[3]), p[4], p[5], p[6],
                      Number(Number(Number(p[7], p[8]), p[9]), p[10]),
                      ValueBehind(11, p))
      [] p[1] \in WithTopic ->
            [op |-> p[1], req_id |-> Number(p[2], p[3]), topic |-> p[4],
             subtopic |-> p[5]]
      [] p[1] = MESSAGES_OP_WRITE ->
            WriteFrame(Number(p[2], p[3]), p[4], p[5], ValueBehind(6, p))
      [] p[1] = MESSAGES_OP_UNSUBSCRIBE -> UnsubscribeFrame(Number(p[2], p[3]))

\* vlen, which is an octet.
ValueEnd(p) ==
    (p[HeaderLength(p[1])] + HeaderLength(p[1])) % Base

\* Faulty variant: the value is not compared with the packet.
TooShortForHeader(p) == Len(p) < HeaderLength(p[1])

TooShort(p) ==
    \/ Len(p) < HeaderLength(p[1])
    \/ p[1] \in WithValue /\ Len(p) < ValueEnd(p)

Deserialize(p) ==
    IF Len(p) < 2 THEN Failed
    ELSE IF p[1] \notin Op \/ TooShort(p) THEN Failed
    ELSE Fields(p)
=============================================================================
