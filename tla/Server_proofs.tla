---------------------------- MODULE Server_proofs ----------------------------
(***************************************************************************)
(* Proofs about the server, for every set of motors, values, requests and  *)
(* cassettes, every number of subscriptions and every bound: type          *)
(* correctness, and that files, subscriptions and the cache of motor       *)
(* values belong to the connection under way.                              *)
(*                                                                         *)
(* The remote procedure calls are functions on server_t, so most of the    *)
(* proof is about what each of them keeps of a predicate on it; all that   *)
(* they do to a connection goes through Checked.                           *)
(***************************************************************************)
EXTENDS Server, SequenceTheorems, FiniteSetTheorems, TLAPS

\* The first of some slots is one of them.  If each had a smaller one, the
\* number of smaller ones would be different for each and positive, and there
\* are too few such numbers.
LEMMA FirstSlot ==
    ASSUME NEW slots \in SUBSET Slot, slots # {}
    PROVE  Min(slots) \in slots
<1>. DEFINE below(i) == {j \in slots : j < i}
            rank == [i \in slots |-> Cardinality(below(i))]
            n == Cardinality(slots)
<1>1. slots \subseteq Nat
  BY RpcAssumption DEF Slot
<1>2. IsFiniteSet(slots) /\ n \in Nat /\ n # 0
  <2>1. IsFiniteSet(Slot)
    BY RpcAssumption, FS_Interval DEF Slot
  <2>. QED
    BY <2>1, FS_Subset, FS_CardinalityType, FS_EmptySet
<1>3. \A i \in slots : /\ IsFiniteSet(below(i))
                       /\ Cardinality(below(i)) \in Nat
                       /\ Cardinality(below(i)) < n
  <2>1. TAKE i \in slots
  <2>2. below(i) \in SUBSET slots /\ below(i) # slots
    BY <1>1
  <2>3. IsFiniteSet(below(i)) /\ Cardinality(below(i)) <= n
             /\ Cardinality(below(i)) # n
    BY <1>2, <2>2, FS_Subset
  <2>4. Cardinality(below(i)) \in Nat
    BY <2>3, FS_CardinalityType
  <2>. QED
    BY <1>2, <2>3, <2>4
<1>4. \A i, j \in slots : i < j => rank[i] # rank[j]
  <2>1. SUFFICES ASSUME NEW i \in slots, NEW j \in slots, i < j
                 PROVE  rank[i] # rank[j]
    OBVIOUS
  <2>a. i \in Nat /\ j \in Nat
    BY <1>1
  <2>b. i \in below(j) /\ i \notin below(i)
    BY <2>1, <2>a
  <2>c. \A k \in below(i) : k \in below(j)
    BY <1>1, <2>1, <2>a
  <2>2. below(i) \in SUBSET below(j) /\ below(i) # below(j)
    BY <2>b, <2>c
  <2>3. Cardinality(below(i)) # Cardinality(below(j))
    <3>. HIDE DEF below
    <3>. QED BY <1>3, <2>2, FS_Subset
  <2>. QED
    BY <2>3
<1>5. \E i \in slots : below(i) = {}
  <2>1. SUFFICES ASSUME \A i \in slots : below(i) # {} PROVE FALSE
    OBVIOUS
  <2>2. rank \in [slots -> 1 .. (n - 1)]
    <3>1. \A i \in slots : Cardinality(below(i)) # 0
      BY <1>3, <2>1, FS_EmptySet
    <3>2. \A i \in slots : Cardinality(below(i)) \in 1 .. (n - 1)
      <4>. HIDE DEF below, n
      <4>. QED BY <1>2, <1>3, <3>1
    <3>. QED BY <3>2
  <2>3. IsFiniteSet(1 .. (n - 1)) /\ Cardinality(1 .. (n - 1)) = n - 1
    <3>. HIDE DEF n
    <3>. QED BY <1>2, FS_Interval
  <2>4. \E i, j \in slots : i # j /\ rank[i] = rank[j]
    <3>. HIDE DEF rank
    <3>1. n - 1 < n
      BY <1>2
    <3>. QED BY <1>2, <2>2, <2>3, <3>1, FS_PigeonHole
  <2>. QED
    BY <1>1, <1>4, <2>4
<1>6. \E i \in slots : \A j \in slots : i <= j
  BY <1>1, <1>5
<1>. QED
  BY <1>6 DEF Min

-----------------------------------------------------------------------------
(* What every function keeps, whatever the host does and whenever the      *)
(* heartbeat expires.                                                      *)

\* Nothing older than the connection is in use.
Clean(s) ==
    /\ \A i \in s.oldSubs : ~s.subs[i].active
    /\ ~(s.oldFp /\ s.fp)

Sound(s) ==
    /\ s \in ServerType
    /\ s.files = IF s.fp THEN 1 ELSE 0
    /\ s.fp <=> s.cassette # "none"
    /\ s.state = "Connected" /\ ~s.unseen => Clean(s)
    /\ \A id \in s.accepted : SubsWith(s, id) # {}
    /\ s.state = "Disconnected" => s.accepted = {}

\* The constants of the type are of it.
LEMMA Constants ==
    /\ FreeSlot \in [active : {TRUE}, req_id : ReqId, topic : Topic] \cup {FreeSlot}
    /\ NoSubs \in [Slot -> [active : {TRUE}, req_id : ReqId, topic : Topic]
                                \cup {FreeSlot}]
    /\ Still \in [Motor -> Value]
BY RpcAssumption DEF NoSubs, Still

\* Sound does not look at the rest of a server.
Same(r, s) ==
    /\ r.state = s.state /\ r.subs = s.subs /\ r.cassette = s.cassette
    /\ r.fp = s.fp /\ r.accepted = s.accepted /\ r.files = s.files
    /\ r.oldSubs = s.oldSubs /\ r.oldFp = s.oldFp /\ r.unseen = s.unseen

LEMMA SoundIfSame ==
    ASSUME NEW s, Sound(s), NEW r, r \in ServerType,
           Same(r, s)
    PROVE  Sound(r)
BY DEF Sound, SubsWith, Same, Clean

LEMMA InitialSound == Sound(InitialServer)
BY Constants DEF Sound, InitialServer, ServerType

LEMMA ResetSound ==
    ASSUME NEW s, Sound(s)
    PROVE  Sound(Reset(s))
BY Constants DEF Sound, Reset, ServerType, SubsWith

LEMMA OpenedSound ==
    ASSUME NEW s, Sound(s), s.state = "Disconnected"
    PROVE  Sound(Opened(s))
<1>. DEFINE r == Opened(s)
<1>1. s \in ServerType
  BY DEF Sound
<1>2. r.files = 0 /\ ~r.fp /\ r.cassette = "none"
  BY <1>1 DEF Sound, Opened, ServerType
<1>3. r.files \in Nat
  BY <1>2
<1>4. r \in ServerType
  BY <1>1, <1>3, Constants DEF Opened, ServerType
<1>5. Clean(r) /\ r.state = "Connected"
  <2>1. r.subs = NoSubs /\ r.fp = FALSE /\ r.oldSubs = s.oldSubs
    BY <1>1 DEF Opened, ServerType
  <2>2. s.oldSubs \subseteq Slot
    BY <1>1 DEF ServerType
  <2>3. r.state = "Connected"
    BY <1>1 DEF Opened, ServerType
  <2>. HIDE DEF r
  <2>. QED
    BY <2>1, <2>2, <2>3 DEF Clean, NoSubs, FreeSlot
<1>6. r.accepted = {}
  BY <1>1 DEF Sound, Opened, ServerType
<1>. QED
  <2>. HIDE DEF r
  <2>1. Sound(r)
    BY <1>2, <1>4, <1>5, <1>6 DEF Sound
  <2>. QED BY <2>1 DEF r

LEMMA CheckedSound ==
    ASSUME NEW s, Sound(s)
    PROVE  Sound(Checked(s))
<1>1. Checked(s) \in {Opened(s), Reset(s), s}
  BY DEF Checked
<1>2. Checked(s) = Opened(s) => s.state = "Disconnected" \/ Opened(s) \in {Reset(s), s}
  BY DEF Checked
<1>. QED
  BY <1>1, <1>2, ResetSound, OpenedSound

LEMMA WroteSound ==
    ASSUME NEW s, Sound(s), NEW expires \in BOOLEAN
    PROVE  Sound(Wrote(s, expires))
<1>. DEFINE r == [s EXCEPT !.expired = @ \/ expires]
<1>1. r \in ServerType
  BY DEF Sound, ServerType
<1>2. Same(r, s)
  BY DEF Sound, ServerType, Same
<1>3. Sound(r)
  <2>. HIDE DEF r
  <2>. QED BY <1>1, <1>2, SoundIfSame
<1>. QED
  BY <1>3, CheckedSound DEF Wrote

LEMMA SendSound ==
    ASSUME NEW s, Sound(s), NEW expires \in BOOLEAN
    PROVE  Sound(Send(s, expires))
BY WroteSound DEF Send

LEMMA SendMotorsSound ==
    ASSUME NEW s, Sound(s), NEW set, NEW now \in [Motor -> Value],
           NEW expires \in BOOLEAN
    PROVE  Sound(SendMotors(s, set, now, expires))
<1>. DEFINE values(known) == [m \in Motor |-> IF m \in set THEN now[m]
                                                             ELSE known[m]]
            r == [s EXCEPT !.motor = values(@),
                           !.told = IF s.sfp = "CONNECTED" THEN values(@) ELSE @]
<1>1. s.motor \in [Motor -> Value] /\ s.told \in [Motor -> Value]
  BY DEF Sound, ServerType
<1>2. values(s.motor) \in [Motor -> Value] /\ values(s.told) \in [Motor -> Value]
  BY <1>1
<1>3. Sound(r)
  <2>. HIDE DEF values
  <2>1. r \in ServerType
    BY <1>2 DEF Sound, ServerType
  <2>2. Same(r, s)
    BY DEF Sound, ServerType, Same
  <2>. HIDE DEF r
  <2>. QED BY <2>1, <2>2, SoundIfSame
<1>. QED
  BY <1>3, SendSound DEF SendMotors

\* Slots are of their type.
LEMMA SubType ==
    ASSUME NEW s, Sound(s), NEW i \in Slot
    PROVE  /\ s.subs[i] \in [active : {TRUE}, req_id : ReqId, topic : Topic]
                                 \cup {FreeSlot}
           /\ s.subs[i].active \in BOOLEAN
           /\ s.subs[i].active => /\ s.subs[i].req_id \in ReqId
                                  /\ s.subs[i].topic \in Topic
<1>1. s.subs[i] \in [active : {TRUE}, req_id : ReqId, topic : Topic] \cup {FreeSlot}
  BY DEF Sound, ServerType
<1>2. CASE s.subs[i] = FreeSlot
  BY <1>2 DEF FreeSlot
<1>3. CASE s.subs[i] \in [active : {TRUE}, req_id : ReqId, topic : Topic]
  <2>1. /\ s.subs[i].active = TRUE
        /\ s.subs[i].req_id \in ReqId /\ s.subs[i].topic \in Topic
    BY <1>3
  <2>. QED
    BY <1>3, <2>1
<1>. QED
  BY <1>1, <1>2, <1>3

\* Resetting a slot leaves every other request its subscription.
LEMMA SubResetSound ==
    ASSUME NEW s, Sound(s), NEW i \in Slot
    PROVE  Sound(SubReset(s, i))
<1>. DEFINE r == SubReset(s, i)
<1>1. /\ r \in ServerType
      /\ r.subs = [s.subs EXCEPT ![i] = FreeSlot]
      /\ r.accepted = s.accepted \ {s.subs[i].req_id}
  BY Constants DEF Sound, ServerType, SubReset
<1>2. /\ r.state = s.state /\ r.cassette = s.cassette /\ r.fp = s.fp
      /\ r.files = s.files /\ r.oldSubs = s.oldSubs /\ r.oldFp = s.oldFp
      /\ r.unseen = s.unseen /\ s.oldSubs \subseteq Slot
  BY DEF Sound, ServerType, SubReset
<1>. HIDE DEF r
<1>3. \A id \in r.accepted : SubsWith(r, id) # {}
  <2>1. TAKE id \in r.accepted
  <2>2. id \in s.accepted /\ id # s.subs[i].req_id
    BY <1>1
  <2>3. PICK j \in Slot : s.subs[j].active /\ s.subs[j].req_id = id
    BY <2>2 DEF Sound, SubsWith
  <2>4. r.subs[j] = s.subs[j]
    BY <1>1, <2>2, <2>3 DEF Sound, ServerType
  <2>. QED
    BY <2>3, <2>4 DEF SubsWith
<1>4. Clean(s) => Clean(r)
  <2>1. \A j \in Slot : r.subs[j] = IF j = i THEN FreeSlot ELSE s.subs[j]
    BY <1>1 DEF Sound, ServerType
  <2>. QED
    BY <1>2, <2>1 DEF Clean, FreeSlot
<1>5. Sound(r)
  BY <1>1, <1>2, <1>3, <1>4 DEF Sound
<1>. QED
  BY <1>5 DEF r

\* A subscription takes a slot that is free.
LEMMA RecvSubscribeSound ==
    ASSUME NEW s, Sound(s), NEW id \in ReqId, NEW topic \in Topic,
           NEW expires \in BOOLEAN
    PROVE  Sound(RecvSubscribe(s, id, topic, expires))
<1>. DEFINE sub == [active |-> TRUE, req_id |-> id, topic |-> topic]
            first == Min(FreeSlots(s))
            r == [s EXCEPT !.subs[first] = sub,
                           !.oldSubs = @ \ {first},
                           !.accepted = IF s.state = "Connected"
                                        THEN @ \cup {id} ELSE @]
<1>1. CASE FreeSlots(s) = {}
  BY <1>1, SendSound DEF RecvSubscribe
<1>2. CASE FreeSlots(s) # {}
  <2>1. first \in Slot /\ ~s.subs[first].active
    BY <1>2, FirstSlot DEF FreeSlots
  <2>2. sub \in [active : {TRUE}, req_id : ReqId, topic : Topic]
    OBVIOUS
  <2>. HIDE DEF first, sub
  <2>3. /\ r \in ServerType
        /\ r.subs = [s.subs EXCEPT ![first] = sub]
        /\ r.accepted = IF s.state = "Connected"
                        THEN s.accepted \cup {id} ELSE s.accepted
    BY <2>1, <2>2 DEF Sound, ServerType
  <2>4. /\ r.state = s.state /\ r.cassette = s.cassette /\ r.fp = s.fp
        /\ r.files = s.files /\ r.oldSubs = s.oldSubs \ {first}
        /\ r.oldFp = s.oldFp /\ r.unseen = s.unseen /\ s.oldSubs \subseteq Slot
    BY DEF Sound, ServerType
  <2>. HIDE DEF r
  <2>5. \A other \in r.accepted : SubsWith(r, other) # {}
    <3>1. TAKE other \in r.accepted
    <3>2. CASE other \in s.accepted
      <4>1. PICK j \in Slot : s.subs[j].active /\ s.subs[j].req_id = other
        BY <3>2 DEF Sound, SubsWith
      <4>2. r.subs[j] = s.subs[j]
        BY <2>1, <2>3, <4>1 DEF Sound, ServerType
      <4>. QED
        BY <4>1, <4>2 DEF SubsWith
    <3>3. CASE other = id
      <4>1. r.subs[first] = sub
        BY <2>1, <2>3 DEF Sound, ServerType
      <4>. QED
        BY <2>1, <3>3, <4>1 DEF SubsWith, sub
    <3>. QED
      BY <2>3, <3>2, <3>3
  <2>6. Clean(s) => Clean(r)
    <3>1. \A i \in r.oldSubs : i \in s.oldSubs /\ r.subs[i] = s.subs[i]
      BY <2>3, <2>4 DEF Sound, ServerType
    <3>. QED
      BY <2>4, <3>1 DEF Clean
  <2>7. Sound(r)
    BY <2>3, <2>4, <2>5, <2>6 DEF Sound
  <2>. QED
    BY <1>2, <2>7 DEF RecvSubscribe, r, first, sub
<1>. QED
  BY <1>1, <1>2

LEMMA RecvUnsubscribeSound ==
    ASSUME NEW s, Sound(s), NEW id, NEW expires \in BOOLEAN
    PROVE  Sound(RecvUnsubscribe(s, id, expires))
<1>1. Sound(Send(Send(s, expires), FALSE))
  BY SendSound
<1>2. CASE SubsWith(s, id) # {}
  <2>1. Min(SubsWith(s, id)) \in Slot
    BY <1>2, FirstSlot DEF SubsWith
  <2>2. Sound(Send(s, expires))
    BY SendSound
  <2>. QED
    BY <1>2, <2>1, <2>2, SubResetSound DEF RecvUnsubscribe
<1>. QED
  BY <1>1, <1>2 DEF RecvUnsubscribe

LEMMA PublishMotorsSound ==
    ASSUME NEW s, Sound(s), NEW set, NEW now \in [Motor -> Value],
           NEW expires \in BOOLEAN
    PROVE  Sound(PublishMotors(s, set, now, expires))
BY SendMotorsSound DEF PublishMotors

LEMMA PublishedSound ==
    ASSUME NEW s, Sound(s), NEW i \in Slot, NEW now \in [Motor -> Value],
           NEW when \in Publication
    PROVE  Sound(Published(s, i, now, when))
<1>. DEFINE first == when = "first"
            second == when = "second"
<1>1. first \in BOOLEAN /\ second \in BOOLEAN
  OBVIOUS
<1>. HIDE DEF first, second
<1>2. Sound(Send(s, first))
  BY <1>1, SendSound
<1>3. Sound(SubReset(Send(s, first), i))
  BY <1>2, SubResetSound
<1>4. \A set : Sound(PublishMotors(s, set, now, first))
  BY <1>1, PublishMotorsSound
<1>5. Sound(PublishMotors(Send(s, first), Motor, now, second))
  BY <1>1, <1>2, PublishMotorsSound
<1>6. s.subs[i].active => s.subs[i].topic \in Topic
  BY SubType
<1>7. Published(s, i, now, when) \in
          {s, Send(s, first), SubReset(Send(s, first), i),
           PublishMotors(s, {s.subs[i].topic}, now, first),
           PublishMotors(s, Motor, now, first),
           PublishMotors(Send(s, first), Motor, now, second)}
  BY <1>6 DEF Published, Topic, first, second
<1>. QED
  BY <1>2, <1>3, <1>4, <1>5, <1>7

\* A file is opened if none is, and closed if it is open.
LEMMA OpenCassetteSound ==
    ASSUME NEW s, Sound(s), NEW c \in Cassette, NEW succeeds \in BOOLEAN
    PROVE  Sound(OpenCassette(s, c, succeeds))
<1>. DEFINE r == [s EXCEPT !.cassette = IF succeeds THEN c ELSE "none",
                           !.fp = succeeds,
                           !.oldFp = FALSE,
                           !.files = IF succeeds THEN @ + 1 ELSE @]
<1>1. CASE s.cassette # "none"
  BY <1>1 DEF OpenCassette
<1>2. CASE s.cassette = "none"
  <2>1. s.files = 0 /\ s \in ServerType
    BY <1>2 DEF Sound, ServerType
  <2>2. /\ r.cassette = IF succeeds THEN c ELSE "none"
        /\ r.fp = succeeds
        /\ r.files = IF succeeds THEN 1 ELSE 0
    BY <2>1 DEF ServerType
  <2>3. r.files \in Nat /\ r.cassette \in Cassette \cup {"none"} /\ r.fp \in BOOLEAN
    BY <2>2
  <2>4. /\ r.state = s.state /\ r.subs = s.subs /\ r.accepted = s.accepted
        /\ r.oldSubs = s.oldSubs /\ r.oldFp = FALSE /\ r.unseen = s.unseen
    BY <2>1 DEF ServerType
  <2>5. r \in ServerType
    BY <2>1, <2>3 DEF ServerType
  <2>. HIDE DEF r
  <2>6. r.fp <=> r.cassette # "none"
    BY <2>2, RpcAssumption
  <2>7. Sound(r)
    BY <2>2, <2>4, <2>5, <2>6 DEF Sound, SubsWith, Clean
  <2>. QED
    BY <1>2, <2>7 DEF OpenCassette, r
<1>. QED
  BY <1>1, <1>2

\* What closing an open file does.
LEMMA ClosedSound ==
    ASSUME NEW s, Sound(s), s.fp
    PROVE  Sound([s EXCEPT !.cassette = "none", !.fp = FALSE, !.files = @ - 1])
<1>. DEFINE r == [s EXCEPT !.cassette = "none", !.fp = FALSE, !.files = @ - 1]
<1>1. s \in ServerType /\ s.files = 1
  BY DEF Sound
<1>2. r.cassette = "none" /\ r.fp = FALSE /\ r.files = 0
  BY <1>1 DEF ServerType
<1>3. r \in ServerType
  <2>1. r.files \in Nat
    BY <1>2
  <2>. QED
    BY <1>1, <2>1 DEF ServerType
<1>4. /\ r.state = s.state /\ r.subs = s.subs /\ r.accepted = s.accepted
      /\ r.oldSubs = s.oldSubs /\ r.oldFp = s.oldFp /\ r.unseen = s.unseen
  BY <1>1 DEF ServerType
<1>5. Sound(r)
  <2>. HIDE DEF r
  <2>. QED BY <1>2, <1>3, <1>4 DEF Sound, SubsWith, Clean
<1>. QED
  BY <1>5

LEMMA CassettesSound ==
    ASSUME NEW s, Sound(s), NEW c \in Cassette, NEW succeeds \in BOOLEAN
    PROVE  /\ Sound(CloseCassette(s, c))
           /\ Sound(WriteCassette(s, c, succeeds))
<1>1. s.cassette = c => s.fp
  BY RpcAssumption DEF Sound
<1>. QED
  BY <1>1, ClosedSound DEF CloseCassette, WriteCassette

\* The fields a message has.
LEMMA MessageFields ==
    ASSUME NEW msg \in Message
    PROVE  /\ msg.op = "READ" => msg.topic \in Motor \cup {"motors", "other"}
           /\ msg.op = "WRITE" => msg.motor \in Motor /\ msg.value \in Value
           /\ msg.op \in {"OPEN", "CLOSE", "APPEND"} => msg.cassette \in Cassette
           /\ msg.op = "SUBSCRIBE" => msg.req_id \in ReqId /\ msg.topic \in Topic
BY DEF Message

LEMMA RecvReadSound ==
    ASSUME NEW s, Sound(s), NEW topic \in Motor \cup {"motors", "other"},
           NEW now \in [Motor -> Value], NEW expires \in BOOLEAN
    PROVE  Sound(RecvRead(s, topic, now, expires))
<1>1. RecvRead(s, topic, now, expires) \in
          {SendMotors(s, {topic}, now, expires), SendMotors(s, Motor, now, expires),
           Send(s, expires)}
  BY DEF RecvRead
<1>. QED
  BY <1>1, SendSound, SendMotorsSound

LEMMA HandledSound ==
    ASSUME NEW s, Sound(s), NEW msg \in Message, NEW now \in [Motor -> Value],
           NEW succeeds \in BOOLEAN, NEW expires \in BOOLEAN
    PROVE  Sound(Handled(s, msg, now, succeeds, expires))
<1>1. CASE msg.op \in {"PING", "WRITE_OTHER"}
  BY <1>1, SendSound DEF Handled
<1>2. CASE msg.op = "INFO"
  <2>. DEFINE r == [s EXCEPT !.ipv4 = TRUE]
  <2>1. r \in ServerType /\ Same(r, s)
    BY DEF Sound, ServerType, Same
  <2>. HIDE DEF r
  <2>2. Sound(r)
    BY <2>1, SoundIfSame
  <2>. QED
    BY <1>2, <2>2 DEF Handled, r
<1>3. CASE msg.op = "READ"
  BY <1>3, MessageFields, RecvReadSound DEF Handled
<1>4. CASE msg.op \in {"OPEN", "CLOSE", "APPEND"}
  BY <1>4, MessageFields, OpenCassetteSound, CassettesSound DEF Handled
<1>5. CASE msg.op = "SUBSCRIBE"
  BY <1>5, MessageFields, RecvSubscribeSound DEF Handled
<1>6. CASE msg.op = "UNSUBSCRIBE"
  BY <1>6, RecvUnsubscribeSound DEF Handled
<1>7. CASE msg.op \notin {"PING", "INFO", "READ", "WRITE_OTHER", "OPEN", "CLOSE",
                          "APPEND", "SUBSCRIBE", "UNSUBSCRIBE"}
  BY <1>7 DEF Handled
<1>. QED
  BY <1>1, <1>2, <1>3, <1>4, <1>5, <1>6, <1>7

LEMMA RecvSound ==
    ASSUME NEW s, Sound(s), NEW msg \in Message, NEW now \in [Motor -> Value],
           NEW succeeds \in BOOLEAN, NEW expires \in BOOLEAN
    PROVE  Sound(Recv(s, msg, now, succeeds, expires))
<1>. DEFINE h == Handled(s, msg, now, succeeds, expires)
            r == [h EXCEPT !.expired = FALSE]
<1>1. Sound(h)
  BY HandledSound
<1>. HIDE DEF h
<1>2. r \in ServerType /\ Same(r, h)
  BY <1>1 DEF Sound, ServerType, Same
<1>. HIDE DEF r
<1>3. Sound(r)
  BY <1>1, <1>2, SoundIfSame
<1>. QED
  BY <1>3 DEF Recv, r, h

-----------------------------------------------------------------------------
(* What is remembered of the motors.                                       *)

\* The cache and what the host was told.  A server may be excused on a
\* connection, but not from starting the next one properly.
Agrees(s, excused) ==
    IF s.state = "Disconnected" THEN s.motor = Still /\ s.told = Still
                                ELSE ~excused /\ ~s.unseen => s.motor = s.told

\* Agrees looks at nothing else.
SameMotors(r, s) ==
    /\ r.state = s.state /\ r.motor = s.motor
    /\ r.told = s.told /\ r.unseen = s.unseen

LEMMA AgreesIfSame ==
    ASSUME NEW excused \in BOOLEAN, NEW s, Agrees(s, excused), NEW r, SameMotors(r, s)
    PROVE  Agrees(r, excused)
BY DEF Agrees, SameMotors

LEMMA ResetAgrees ==
    ASSUME NEW excused \in BOOLEAN, NEW s \in ServerType
    PROVE  Agrees(Reset(s), excused)
BY DEF Agrees, Reset, ServerType

\* A connection starts with what was remembered.
LEMMA OpenedFields ==
    ASSUME NEW s \in ServerType
    PROVE  /\ Opened(s).state = "Connected"
           /\ Opened(s).motor = s.motor /\ Opened(s).told = s.told
BY DEF Opened, ServerType

LEMMA CheckedAgrees ==
    ASSUME NEW excused \in BOOLEAN, NEW s \in ServerType, Agrees(s, excused)
    PROVE  Agrees(Checked(s), excused)
<1>1. CASE s.state = "Disconnected" /\ s.sfp = "CONNECTED"
  BY <1>1, OpenedFields DEF Checked, Agrees
<1>2. CASE s.state = "Connected" /\ (s.sfp # "CONNECTED" \/ s.expired)
  BY <1>2, ResetAgrees DEF Checked
<1>3. CASE ~ \/ s.state = "Disconnected" /\ s.sfp = "CONNECTED"
             \/ s.state = "Connected" /\ (s.sfp # "CONNECTED" \/ s.expired)
  BY <1>3 DEF Checked
<1>. QED
  BY <1>1, <1>2, <1>3

\* What is checked after a write.
LEMMA WrittenFields ==
    ASSUME NEW s \in ServerType, NEW expires \in BOOLEAN
    PROVE  LET r == [s EXCEPT !.expired = @ \/ expires]
           IN  /\ r \in ServerType
               /\ SameMotors(r, s)
               /\ r.sfp = s.sfp
BY DEF ServerType, SameMotors

LEMMA SendAgrees ==
    ASSUME NEW excused \in BOOLEAN,
           NEW s \in ServerType, Agrees(s, excused), NEW expires \in BOOLEAN
    PROVE  Agrees(Send(s, expires), excused)
<1>. DEFINE r == [s EXCEPT !.expired = @ \/ expires]
<1>1. r \in ServerType /\ SameMotors(r, s)
  BY WrittenFields
<1>. HIDE DEF r
<1>2. Agrees(Checked(r), excused)
  BY <1>1, AgreesIfSame, CheckedAgrees
<1>. QED
  BY <1>2 DEF Send, Wrote, r

\* Values are remembered and sent together, if there is a link or the server
\* finds out that there is none.
LEMMA SendMotorsAgrees ==
    ASSUME NEW excused \in BOOLEAN, NEW s \in ServerType, Agrees(s, excused),
           s.state = "Connected" \/ s.sfp = "CONNECTED",
           NEW set, NEW now \in [Motor -> Value], NEW expires \in BOOLEAN
    PROVE  Agrees(SendMotors(s, set, now, expires), excused)
<1>. DEFINE values(known) == [m \in Motor |-> IF m \in set THEN now[m]
                                                             ELSE known[m]]
            r == [s EXCEPT !.motor = values(@),
                           !.told = IF s.sfp = "CONNECTED" THEN values(@) ELSE @]
            w == [r EXCEPT !.expired = @ \/ expires]
<1>1. s.motor \in [Motor -> Value] /\ s.told \in [Motor -> Value]
  BY DEF ServerType
<1>2. values(s.motor) \in [Motor -> Value] /\ values(s.told) \in [Motor -> Value]
  BY <1>1
<1>3. s.motor = s.told => values(s.motor) = values(s.told)
  OBVIOUS
<1>. HIDE DEF values
<1>4. /\ r \in ServerType
      /\ r.state = s.state /\ r.sfp = s.sfp /\ r.unseen = s.unseen
      /\ r.motor = values(s.motor)
      /\ s.sfp = "CONNECTED" => r.told = values(s.told)
  BY <1>2 DEF ServerType
<1>. HIDE DEF r
<1>5. w \in ServerType /\ SameMotors(w, r) /\ w.sfp = r.sfp
  BY <1>4, WrittenFields
<1>6. s.state \in {"Connected", "Disconnected"}
  BY DEF ServerType
<1>7. Agrees(Checked(w), excused)
  <2>. HIDE DEF w
  <2>1. CASE s.sfp # "CONNECTED"
    <3>1. Checked(w) = Reset(w)
      BY <1>4, <1>5, <2>1 DEF Checked, SameMotors
    <3>. QED BY <1>5, <3>1, ResetAgrees
  <2>2. CASE s.sfp = "CONNECTED" /\ s.state = "Connected"
    <3>1. ~excused /\ ~w.unseen => w.motor = w.told
      BY <1>3, <1>4, <1>5, <2>2 DEF Agrees, SameMotors
    <3>2. Agrees(w, excused)
      BY <1>4, <1>5, <2>2, <3>1 DEF Agrees, SameMotors
    <3>. QED BY <1>5, <3>2, CheckedAgrees
  <2>3. CASE s.sfp = "CONNECTED" /\ s.state = "Disconnected"
    <3>1. w.motor = w.told
      BY <1>3, <1>4, <1>5, <2>3 DEF Agrees, SameMotors
    <3>2. Checked(w) = Opened(w)
      BY <1>4, <1>5, <2>3 DEF Checked, SameMotors
    <3>. QED BY <1>5, <3>1, <3>2, OpenedFields DEF Agrees
  <2>. QED
    BY <1>6, <2>1, <2>2, <2>3
<1>. QED
  BY <1>7 DEF SendMotors, Send, Wrote, r, w, values

\* What has nothing to do with motors.
LEMMA SubResetAgrees ==
    ASSUME NEW excused \in BOOLEAN, NEW s \in ServerType, Agrees(s, excused), NEW i
    PROVE  Agrees(SubReset(s, i), excused)
<1>1. SameMotors(SubReset(s, i), s)
  BY DEF ServerType, SameMotors, SubReset
<1>. QED
  BY <1>1, AgreesIfSame

LEMMA SubscribeAgrees ==
    ASSUME NEW excused \in BOOLEAN,
           NEW s, Sound(s), Agrees(s, excused), NEW id, NEW topic,
           NEW expires \in BOOLEAN
    PROVE  /\ Agrees(RecvSubscribe(s, id, topic, expires), excused)
           /\ Agrees(RecvUnsubscribe(s, id, expires), excused)
<1>1. Agrees(Send(s, expires), excused) /\ Sound(Send(s, expires))
  BY SendAgrees, SendSound DEF Sound
<1>2. Agrees(Send(Send(s, expires), FALSE), excused)
  BY <1>1, SendAgrees DEF Sound
<1>3. \A i : Agrees(SubReset(Send(s, expires), i), excused)
  BY <1>1, SubResetAgrees DEF Sound
<1>4. Agrees(RecvUnsubscribe(s, id, expires), excused)
  BY <1>2, <1>3 DEF RecvUnsubscribe
<1>. DEFINE r == [s EXCEPT !.subs[Min(FreeSlots(s))] =
                              [active |-> TRUE, req_id |-> id, topic |-> topic],
                           !.oldSubs = @ \ {Min(FreeSlots(s))},
                           !.accepted = IF s.state = "Connected"
                                        THEN @ \cup {id} ELSE @]
<1>5. SameMotors(r, s)
  BY DEF Sound, ServerType, SameMotors
<1>6. Agrees(r, excused)
  BY <1>5, AgreesIfSame
<1>7. Agrees(RecvSubscribe(s, id, topic, expires), excused)
  BY <1>1, <1>6 DEF RecvSubscribe
<1>. QED
  BY <1>4, <1>7

LEMMA CassettesAgree ==
    ASSUME NEW excused \in BOOLEAN,
           NEW s \in ServerType, Agrees(s, excused), NEW c, NEW succeeds
    PROVE  /\ Agrees(OpenCassette(s, c, succeeds), excused)
           /\ Agrees(CloseCassette(s, c), excused)
           /\ Agrees(WriteCassette(s, c, succeeds), excused)
<1>1. SameMotors(OpenCassette(s, c, succeeds), s)
  BY DEF ServerType, SameMotors, OpenCassette
<1>2. SameMotors(CloseCassette(s, c), s)
  BY DEF ServerType, SameMotors, CloseCassette
<1>3. SameMotors(WriteCassette(s, c, succeeds), s)
  BY DEF ServerType, SameMotors, WriteCassette
<1>. QED
  BY <1>1, <1>2, <1>3, AgreesIfSame

\* A message is handled when the link is connected.
LEMMA RecvAgrees ==
    ASSUME NEW excused \in BOOLEAN,
           NEW s, Sound(s), Agrees(s, excused), s.sfp = "CONNECTED",
           NEW msg \in Message, NEW now \in [Motor -> Value],
           NEW succeeds \in BOOLEAN, NEW expires \in BOOLEAN
    PROVE  Agrees(Recv(s, msg, now, succeeds, expires), excused)
<1>. DEFINE h == Handled(s, msg, now, succeeds, expires)
            r == [h EXCEPT !.expired = FALSE]
<1>1. Agrees(h, excused)
  <2>0. s \in ServerType
    BY DEF Sound
  <2>1. CASE msg.op \in {"PING", "WRITE_OTHER"}
    BY <2>0, <2>1, SendAgrees DEF Handled
  <2>2. CASE msg.op = "INFO"
    <3>1. SameMotors([s EXCEPT !.ipv4 = TRUE], s)
      BY <2>0 DEF ServerType, SameMotors
    <3>. QED BY <2>2, <3>1, AgreesIfSame DEF Handled
  <2>3. CASE msg.op = "READ"
    <3>1. RecvRead(s, msg.topic, now, expires) \in
              {SendMotors(s, {msg.topic}, now, expires),
               SendMotors(s, Motor, now, expires), Send(s, expires)}
      BY <2>3, MessageFields DEF RecvRead
    <3>2. Agrees(RecvRead(s, msg.topic, now, expires), excused)
      BY <2>0, <3>1, SendAgrees, SendMotorsAgrees
    <3>. QED BY <2>3, <3>2 DEF Handled
  <2>4. CASE msg.op \in {"OPEN", "CLOSE", "APPEND"}
    BY <2>0, <2>4, CassettesAgree DEF Handled
  <2>5. CASE msg.op \in {"SUBSCRIBE", "UNSUBSCRIBE"}
    BY <2>5, SubscribeAgrees DEF Handled
  <2>6. CASE msg.op \notin {"PING", "INFO", "READ", "WRITE_OTHER", "OPEN", "CLOSE",
                            "APPEND", "SUBSCRIBE", "UNSUBSCRIBE"}
    BY <2>6 DEF Handled
  <2>. QED
    BY <2>1, <2>2, <2>3, <2>4, <2>5, <2>6
<1>2. h \in ServerType
  BY HandledSound DEF Sound
<1>. HIDE DEF h
<1>3. SameMotors(r, h)
  BY <1>2 DEF ServerType, SameMotors
<1>. HIDE DEF r
<1>4. Agrees(r, excused)
  BY <1>1, <1>3, AgreesIfSame
<1>. QED
  BY <1>1, <1>4 DEF Recv, r, h

\* A server whose link is down does not come back by itself.
LEMMA StaysDown ==
    ASSUME NEW s \in ServerType, s.state = "Disconnected", s.sfp # "CONNECTED",
           NEW set, NEW now, NEW expires \in BOOLEAN
    PROVE  SendMotors(s, set, now, expires).state = "Disconnected"
<1>. DEFINE values(known) == [m \in Motor |-> IF m \in set THEN now[m]
                                                             ELSE known[m]]
            r == [s EXCEPT !.motor = values(@),
                           !.told = IF s.sfp = "CONNECTED" THEN values(@) ELSE @]
            w == [r EXCEPT !.expired = @ \/ expires]
<1>. HIDE DEF values
<1>1. w.state = "Disconnected" /\ w.sfp # "CONNECTED"
  BY DEF ServerType
<1>. HIDE DEF w
<1>2. Checked(w) = w
  BY <1>1 DEF Checked
<1>. QED
  BY <1>1, <1>2 DEF SendMotors, Send, Wrote, r, w, values

\* A connected server that is reset has no link.
LEMMA SendDown ==
    ASSUME NEW s \in ServerType, s.state = "Connected", NEW expires \in BOOLEAN
    PROVE  Send(s, expires).state = "Connected" \/ Send(s, expires).sfp # "CONNECTED"
<1>. DEFINE r == [s EXCEPT !.expired = @ \/ expires]
<1>1. r \in ServerType /\ r.state = "Connected"
  BY WrittenFields DEF SameMotors
<1>. HIDE DEF r
<1>2. Checked(r).state = "Connected" \/ Checked(r).sfp # "CONNECTED"
  BY <1>1 DEF Checked, Reset, ServerType
<1>. QED
  BY <1>2 DEF Send, Wrote, r

\* A publication that does not end in a reset.
LEMMA PublishedAgrees ==
    ASSUME NEW excused \in BOOLEAN,
           NEW s, Sound(s), Agrees(s, excused), s.state = "Connected",
           NEW i \in Slot, NEW now \in [Motor -> Value], NEW when \in Publication,
           Published(s, i, now, when).state = "Connected"
    PROVE  Agrees(Published(s, i, now, when), excused)
<1>. DEFINE first == when = "first"
            second == when = "second"
            sent == Send(s, first)
            p == Published(s, i, now, when)
<1>1. first \in BOOLEAN /\ second \in BOOLEAN
  OBVIOUS
<1>2. s \in ServerType
  BY DEF Sound
<1>. HIDE DEF first, second
<1>3. sent \in ServerType /\ Agrees(sent, excused)
  BY <1>1, <1>2, SendSound, SendAgrees DEF Sound
<1>4. \A set : Agrees(PublishMotors(s, set, now, first), excused)
  BY <1>1, <1>2, SendMotorsAgrees DEF PublishMotors
<1>5. Agrees(SubReset(sent, i), excused)
  BY <1>3, SubResetAgrees
<1>6. p = PublishMotors(sent, Motor, now, second) => Agrees(p, excused)
  <2>1. CASE sent.state = "Connected"
    BY <1>1, <1>3, <2>1, SendMotorsAgrees DEF PublishMotors
  <2>2. CASE sent.state # "Connected"
    <3>1. sent.state = "Disconnected" /\ sent.sfp # "CONNECTED"
      BY <1>1, <1>2, <1>3, <2>2, SendDown DEF ServerType
    <3>. HIDE DEF sent
    <3>2. PublishMotors(sent, Motor, now, second).state = "Disconnected"
      BY <1>1, <1>3, <3>1, StaysDown DEF PublishMotors
    <3>. QED BY <3>2
  <2>. QED
    BY <2>1, <2>2
<1>7. s.subs[i].active => s.subs[i].topic \in Topic
  BY SubType
<1>8. p \in {s, sent, SubReset(sent, i),
             PublishMotors(s, {s.subs[i].topic}, now, first),
             PublishMotors(s, Motor, now, first),
             PublishMotors(sent, Motor, now, second)}
  BY <1>7 DEF Published, Topic, first, second
<1>. HIDE DEF p, sent
<1>9. Agrees(p, excused)
  BY <1>3, <1>4, <1>5, <1>6, <1>8
<1>. QED
  BY <1>9 DEF p

-----------------------------------------------------------------------------
(* The task and the host.                                                  *)

\* The inductive invariant.
Inv ==
    /\ TypeOK
    /\ Sound(server)
    /\ pc = "publishing" /\ server.state = "Disconnected" => stained
    /\ Agrees(server, FALSE) \/ stained

LEMMA InvInit == Init => Inv
<1>. SUFFICES ASSUME Init PROVE Inv
  OBVIOUS
<1>1. InitialServer \in ServerType
  BY InitialSound DEF Sound
<1>2. 1 \in Slot
  BY RpcAssumption DEF Slot
<1>3. Len(toRobot) = 0 /\ messages \in 0 .. MaxMessages /\ upsets \in 0 .. MaxUpsets
  BY ServerAssumption DEF Init
<1>4. TypeOK
  <2>1. server \in ServerType /\ motors \in [Motor -> Value]
    BY <1>1, Constants DEF Init
  <2>2. batch \in Seq(HostFrame) /\ toRobot \in Seq(HostFrame)
        /\ toHost \in Seq([type : {"SYN1", "DIS"}])
    BY DEF Init
  <2>3. /\ pc \in {"asleep", "delivering", "publishing", "informing"}
        /\ slot \in Slot
        /\ host \in {"DISCONNECTED", "SENT_SYN0", "CONNECTED", "GONE"}
        /\ stained \in BOOLEAN
    BY <1>2 DEF Init
  <2>4. Len(toRobot) <= MaxLine
    BY <1>3, ServerAssumption
  <2>. QED
    BY <1>3, <2>1, <2>2, <2>3, <2>4 DEF TypeOK
<1>5. Agrees(InitialServer, FALSE)
  BY DEF Agrees, InitialServer
<1>6. Sound(server) /\ Agrees(server, FALSE) /\ pc = "asleep"
  BY <1>5, InitialSound DEF Init
<1>. QED
  BY <1>4, <1>6 DEF Inv

\* A step of the task whose result is known.
LEMMA StepKeeps ==
    ASSUME Inv, NEW s, Sound(s), Steps(s),
           \A excused \in BOOLEAN :
               Agrees(server, excused) =>
                   \/ Agrees(s, excused)
                   \/ /\ pc = "publishing"
                      /\ server.state = "Connected" /\ s.state = "Disconnected",
           pc' = "publishing" => pc = "publishing" \/ s.state = "Connected"
    PROVE  /\ server' \in ServerType /\ Sound(server')
           /\ stained' \in BOOLEAN
           /\ pc' = "publishing" /\ server'.state = "Disconnected" => stained'
           /\ Agrees(server', FALSE) \/ stained'
<1>1. server' = s /\ s \in ServerType
  BY DEF Steps, Sound
<1>2. /\ server.state \in {"Connected", "Disconnected"}
      /\ s.state \in {"Connected", "Disconnected"} /\ stained \in BOOLEAN
  BY <1>1 DEF Inv, TypeOK, ServerType
<1>3. CASE server.state = "Connected" /\ s.state = "Disconnected"
  <2>1. stained' = (pc = "publishing")
    BY <1>3 DEF Steps
  <2>2. Agrees(server, TRUE)
    BY <1>3 DEF Agrees
  <2>3. pc # "publishing" => Agrees(s, TRUE)
    BY <2>2
  <2>4. pc # "publishing" => Agrees(s, FALSE)
    BY <1>3, <2>3 DEF Agrees
  <2>5. stained' \in BOOLEAN /\ (stained' <=> pc = "publishing")
    BY <2>1
  <2>. QED
    BY <1>1, <1>3, <2>4, <2>5
<1>4. CASE ~(server.state = "Connected" /\ s.state = "Disconnected")
  <2>1. stained' = stained
    BY <1>4 DEF Steps
  <2>2. Agrees(s, FALSE) \/ stained
    BY <1>4 DEF Inv
  <2>3. pc' = "publishing" /\ s.state = "Disconnected" => stained
    BY <1>2, <1>4 DEF Inv
  <2>. QED
    BY <1>1, <1>2, <2>1, <2>2, <2>3
<1>. QED
  BY <1>3, <1>4

\* The rest of the invariant.
LEMMA InvIs ==
    ASSUME server' \in ServerType, Sound(server'), stained' \in BOOLEAN,
           pc' = "publishing" /\ server'.state = "Disconnected" => stained',
           Agrees(server', FALSE) \/ stained',
           batch' \in Seq(HostFrame),
           pc' \in {"asleep", "delivering", "publishing", "informing"},
           slot' \in Slot, motors' \in [Motor -> Value],
           host' \in {"DISCONNECTED", "SENT_SYN0", "CONNECTED", "GONE"},
           toRobot' \in Seq(HostFrame), Len(toRobot') <= MaxLine,
           toHost' \in Seq([type : {"SYN1", "DIS"}]),
           messages' \in 0 .. MaxMessages, upsets' \in 0 .. MaxUpsets
    PROVE  Inv'
BY DEF Inv, TypeOK, Sound, Agrees, SubsWith

\* The first of the frames read, and the others.
LEMMA Delivered ==
    ASSUME Inv, NEW types, Delivers(types)
    PROVE  /\ Head(batch) \in HostFrame
           /\ Head(batch).type \in types
           /\ batch' \in Seq(HostFrame)
           /\ pc = "delivering" /\ pc' = pc /\ slot' = slot
           /\ host' = host /\ toRobot' = toRobot
BY HeadTailProperties DEF Inv, TypeOK, Delivers

\* Whether a heartbeat expires is counted.
LEMMA Expirations ==
    ASSUME Inv, NEW expires \in BOOLEAN, MayExpire(expires)
    PROVE  messages' \in 0 .. MaxMessages /\ upsets' \in 0 .. MaxUpsets
BY ServerAssumption DEF Inv, TypeOK, MayExpire

\* A frame to the host.
LEMMA ToHost ==
    ASSUME Inv, NEW type \in {"SYN1", "DIS"}
    PROVE  Append(toHost, Syn(type)) \in Seq([type : {"SYN1", "DIS"}])
BY DEF Inv, TypeOK, Syn

LEMMA ReadStep == Inv /\ Read => Inv'
<1>. SUFFICES ASSUME Inv, Read PROVE Inv'
  OBVIOUS
<1>1. toRobot \in Seq(HostFrame) /\ Len(toRobot) <= MaxLine /\ Len(toRobot) \in Nat
  BY DEF Inv, TypeOK
<1>2. PICK n \in 0 .. Len(toRobot) :
          /\ batch' = SubSeq(toRobot, 1, n)
          /\ toRobot' = SubSeq(toRobot, n + 1, Len(toRobot))
  BY <1>1 DEF Read
<1>3. batch' \in Seq(HostFrame)
  BY <1>1, <1>2, SubSeqProperties
<1>4. toRobot' \in Seq(HostFrame) /\ Len(toRobot') <= Len(toRobot)
  BY <1>1, <1>2, SubSeqProperties
<1>5. Len(toRobot') <= MaxLine
  BY <1>1, <1>4, ServerAssumption
<1>6. /\ server' = server /\ stained' = stained /\ slot' = slot /\ host' = host
      /\ motors' = motors /\ toHost' = toHost /\ messages' = messages
      /\ upsets' = upsets /\ pc' = "delivering"
  BY DEF Read, budget
<1>. QED
  BY <1>3, <1>4, <1>5, <1>6 DEF Inv, TypeOK

\* What all deliveries have in common.
LEMMA DeliveryStep ==
    ASSUME Inv, NEW types, Delivers(types), NEW s, Sound(s), Steps(s),
           \A excused \in BOOLEAN :
               Agrees(server, excused) => Agrees(s, excused),
           motors' \in [Motor -> Value],
           toHost' \in Seq([type : {"SYN1", "DIS"}]),
           messages' \in 0 .. MaxMessages, upsets' \in 0 .. MaxUpsets
    PROVE  Inv'
<1>1. /\ batch' \in Seq(HostFrame) /\ pc = "delivering" /\ pc' = pc
      /\ slot' = slot /\ host' = host /\ toRobot' = toRobot
  BY Delivered
<1>2. /\ server' \in ServerType /\ Sound(server') /\ stained' \in BOOLEAN
      /\ pc' = "publishing" /\ server'.state = "Disconnected" => stained'
      /\ Agrees(server', FALSE) \/ stained'
  BY <1>1, StepKeeps
<1>3. /\ slot \in Slot
      /\ host \in {"DISCONNECTED", "SENT_SYN0", "CONNECTED", "GONE"}
      /\ toRobot \in Seq(HostFrame) /\ Len(toRobot) <= MaxLine
  BY DEF Inv, TypeOK
<1>4. pc' \in {"asleep", "delivering", "publishing", "informing"}
  BY <1>1
<1>. QED
  BY <1>1, <1>2, <1>3, <1>4, InvIs

\* A write, after which connectState may be assigned.
LEMMA WroteKeeps ==
    ASSUME NEW s, Sound(s), NEW expires \in BOOLEAN,
           NEW sfp \in {"DISCONNECTED", "SENT_SYN1", "CONNECTED"}
    PROVE  LET w == Wrote(s, expires)
               r == [w EXCEPT !.sfp = sfp]
           IN  /\ Sound(w) /\ Sound(r)
               /\ \A excused \in BOOLEAN : Agrees(s, excused) =>
                      Agrees(w, excused) /\ Agrees(r, excused)
<1>. DEFINE w == Wrote(s, expires)
            r == [w EXCEPT !.sfp = sfp]
<1>1. Sound(w)
  BY WroteSound
<1>2. \A excused \in BOOLEAN : Agrees(s, excused) => Agrees(w, excused)
  BY SendAgrees DEF Send, Sound
<1>. HIDE DEF w
<1>3. r \in ServerType /\ Same(r, w) /\ SameMotors(r, w)
  BY <1>1 DEF Sound, ServerType, Same, SameMotors
<1>. HIDE DEF r
<1>4. Sound(r)
  BY <1>1, <1>3, SoundIfSame
<1>5. \A excused \in BOOLEAN : Agrees(w, excused) => Agrees(r, excused)
  BY <1>3, AgreesIfSame
<1>6. Sound(w) /\ Sound(r) /\ \A excused \in BOOLEAN :
          Agrees(s, excused) => Agrees(w, excused) /\ Agrees(r, excused)
  BY <1>1, <1>2, <1>4, <1>5
<1>. QED
  BY <1>6 DEF r, w

\* connectState alone is assigned.
LEMMA SfpKeeps ==
    ASSUME NEW s, Sound(s), NEW sfp \in {"DISCONNECTED", "SENT_SYN1", "CONNECTED"}
    PROVE  LET r == [s EXCEPT !.sfp = sfp]
           IN  /\ Sound(r)
               /\ \A excused \in BOOLEAN : Agrees(s, excused) => Agrees(r, excused)
<1>. DEFINE r == [s EXCEPT !.sfp = sfp]
<1>1. r \in ServerType /\ Same(r, s) /\ SameMotors(r, s)
  BY DEF Sound, ServerType, Same, SameMotors
<1>. HIDE DEF r
<1>2. Sound(r) /\ \A excused \in BOOLEAN : Agrees(s, excused) => Agrees(r, excused)
  BY <1>1, SoundIfSame, AgreesIfSame
<1>. QED
  BY <1>2 DEF r

LEMMA DeliverSYN0Step ==
    ASSUME Inv, NEW expires \in BOOLEAN, DeliverSYN0(expires)
    PROVE  Inv'
<1>. DEFINE s == [Wrote(server, expires) EXCEPT !.sfp = "SENT_SYN1"]
<1>1. /\ Delivers({"SYN0"}) /\ MayExpire(expires) /\ Steps(s)
      /\ toHost' = Append(toHost, Syn("SYN1")) /\ motors' = motors
  BY DEF DeliverSYN0, Answers
<1>2. Sound(s) /\ \A excused \in BOOLEAN : Agrees(server, excused) => Agrees(s, excused)
  BY WroteKeeps DEF Inv
<1>. HIDE DEF s
<1>3. motors' \in [Motor -> Value] /\ toHost' \in Seq([type : {"SYN1", "DIS"}])
  BY <1>1, ToHost DEF Inv, TypeOK
<1>4. messages' \in 0 .. MaxMessages /\ upsets' \in 0 .. MaxUpsets
  BY <1>1, Expirations
<1>. QED
  BY <1>1, <1>2, <1>3, <1>4, DeliveryStep

LEMMA RefuseStep ==
    ASSUME Inv, NEW expires \in BOOLEAN, Refuse(expires)
    PROVE  Inv'
<1>. DEFINE s == Wrote(server, expires)
<1>1. PICK types \in {{"USR", "NAK"}, {"SYN2"}} : Delivers(types)
  BY DEF Refuse
<1>2. PICK type \in {"SYN1", "DIS"} :
          /\ MayExpire(expires) /\ Steps(s)
          /\ toHost' = Append(toHost, Syn(type)) /\ motors' = motors
  BY DEF Refuse
<1>3. Sound(s) /\ \A excused \in BOOLEAN : Agrees(server, excused) => Agrees(s, excused)
  BY WroteKeeps DEF Inv
<1>. HIDE DEF s
<1>4. motors' \in [Motor -> Value] /\ toHost' \in Seq([type : {"SYN1", "DIS"}])
  BY <1>2, ToHost DEF Inv, TypeOK
<1>5. messages' \in 0 .. MaxMessages /\ upsets' \in 0 .. MaxUpsets
  BY <1>2, Expirations
<1>. QED
  BY <1>1, <1>2, <1>3, <1>4, <1>5, DeliveryStep

\* A handshake ends: what the server has is of no connection it has noticed,
\* or it is excused until the next one.
LEMMA DeliverSYN2Step ==
    ASSUME Inv, DeliverSYN2
    PROVE  Inv'
<1>. DEFINE s == [server EXCEPT
                     !.sfp = "CONNECTED",
                     !.told = Still,
                     !.accepted = {},
                     !.oldSubs = {i \in Slot : server.subs[i].active},
                     !.oldFp = server.fp,
                     !.unseen = server.state = "Connected"]
<1>1. Delivers({"SYN2"}) /\ Steps(s) /\ motors' = motors /\ toHost' = toHost
      /\ messages' = messages /\ upsets' = upsets
  BY DEF DeliverSYN2, budget
<1>2. server \in ServerType /\ server.fp \in BOOLEAN
  BY DEF Inv, TypeOK, ServerType
<1>3. /\ s.state = server.state /\ s.cassette = server.cassette
      /\ s.fp = server.fp /\ s.files = server.files /\ s.motor = server.motor
      /\ s.told = Still /\ s.accepted = {}
      /\ s.unseen = (server.state = "Connected")
  BY <1>2 DEF ServerType
<1>4. s \in ServerType
  <2>1. {i \in Slot : server.subs[i].active} \in SUBSET Slot
    OBVIOUS
  <2>2. (server.state = "Connected") \in BOOLEAN
    OBVIOUS
  <2>. QED
    BY <1>2, <2>1, <2>2, Constants DEF ServerType
<1>. HIDE DEF s
<1>5. Sound(s)
  BY <1>3, <1>4 DEF Inv, Sound
<1>6. \A excused \in BOOLEAN : Agrees(server, excused) => Agrees(s, excused)
  BY <1>2, <1>3 DEF Agrees, ServerType
<1>7. /\ motors \in [Motor -> Value] /\ toHost \in Seq([type : {"SYN1", "DIS"}])
      /\ messages \in 0 .. MaxMessages /\ upsets \in 0 .. MaxUpsets
  BY DEF Inv, TypeOK
<1>. QED
  BY <1>1, <1>5, <1>6, <1>7, DeliveryStep

LEMMA RetransmitStep ==
    ASSUME Inv, NEW some \in BOOLEAN, NEW expires \in BOOLEAN,
           Retransmit(some, expires)
    PROVE  Inv'
<1>. DEFINE w == Wrote(server, expires)
            sent == IF some THEN w ELSE server
            s == IF Head(batch).type = "SYN2"
                 THEN [sent EXCEPT !.sfp = "CONNECTED"] ELSE sent
<1>1. /\ Delivers({"SYN2", "NAK"}) /\ MayExpire(expires) /\ Steps(s)
      /\ motors' = motors /\ toHost' = toHost
  BY DEF Retransmit
<1>2. Sound(w) /\ \A excused \in BOOLEAN : Agrees(server, excused) => Agrees(w, excused)
  BY WroteKeeps DEF Inv
<1>. HIDE DEF w
<1>3. Sound(sent)
      /\ \A excused \in BOOLEAN : Agrees(server, excused) => Agrees(sent, excused)
  BY <1>2 DEF Inv
<1>. HIDE DEF sent
<1>4. Sound(s) /\ \A excused \in BOOLEAN : Agrees(server, excused) => Agrees(s, excused)
  BY <1>3, SfpKeeps
<1>. HIDE DEF s
<1>5. motors' \in [Motor -> Value] /\ toHost' \in Seq([type : {"SYN1", "DIS"}])
  BY <1>1 DEF Inv, TypeOK
<1>6. messages' \in 0 .. MaxMessages /\ upsets' \in 0 .. MaxUpsets
  BY <1>1, Expirations
<1>. QED
  BY <1>1, <1>4, <1>5, <1>6, DeliveryStep

LEMMA DeliverDISStep ==
    ASSUME Inv, DeliverDIS
    PROVE  Inv'
<1>. DEFINE s == [server EXCEPT !.sfp = "DISCONNECTED"]
<1>1. Delivers({"DIS"}) /\ Steps(s) /\ motors' = motors /\ toHost' = toHost
      /\ messages' = messages /\ upsets' = upsets
  BY DEF DeliverDIS, budget
<1>2. Sound(s) /\ \A excused \in BOOLEAN : Agrees(server, excused) => Agrees(s, excused)
  BY SfpKeeps DEF Inv
<1>. HIDE DEF s
<1>3. /\ motors \in [Motor -> Value] /\ toHost \in Seq([type : {"SYN1", "DIS"}])
      /\ messages \in 0 .. MaxMessages /\ upsets \in 0 .. MaxUpsets
  BY DEF Inv, TypeOK
<1>. QED
  BY <1>1, <1>2, <1>3, DeliveryStep

LEMMA DeliverUSRStep ==
    ASSUME Inv, NEW succeeds \in BOOLEAN, NEW expires \in BOOLEAN,
           DeliverUSR(succeeds, expires)
    PROVE  Inv'
<1>. DEFINE msg == Head(batch).msg
            r == Recv(server, msg, motors, succeeds, expires)
            s == Checked(r)
<1>1. /\ Delivers({"USR"}) /\ server.sfp = "CONNECTED" /\ MayExpire(expires)
      /\ Steps(s) /\ motors' = MotorsAfter(msg, motors) /\ toHost' = toHost
  BY DEF DeliverUSR
<1>2. msg \in Message
  BY <1>1, Delivered DEF HostFrame
<1>3. Sound(server) /\ motors \in [Motor -> Value]
      /\ toHost \in Seq([type : {"SYN1", "DIS"}])
  BY DEF Inv, TypeOK
<1>4. motors' \in [Motor -> Value]
  BY <1>1, <1>2, <1>3, MessageFields DEF MotorsAfter
<1>5. messages' \in 0 .. MaxMessages /\ upsets' \in 0 .. MaxUpsets
  BY <1>1, Expirations
<1>6. Sound(r)
  BY <1>2, <1>3, RecvSound
<1>7. \A excused \in BOOLEAN : Agrees(server, excused) => Agrees(r, excused)
  BY <1>1, <1>2, <1>3, RecvAgrees
<1>. HIDE DEF r
<1>8. Sound(s) /\ \A excused \in BOOLEAN : Agrees(server, excused) => Agrees(s, excused)
  BY <1>6, <1>7, CheckedSound, CheckedAgrees DEF Sound
<1>. HIDE DEF s
<1>. QED
  BY <1>1, <1>3, <1>4, <1>5, <1>8, DeliveryStep

LEMMA AfterDeliveryStep == Inv /\ AfterDelivery => Inv'
<1>. SUFFICES ASSUME Inv, AfterDelivery PROVE Inv'
  OBVIOUS
<1>. DEFINE s == Checked(server)
<1>1. /\ Steps(s) /\ slot' = 1 /\ batch' = batch /\ motors' = motors
      /\ host' = host /\ toRobot' = toRobot /\ toHost' = toHost
      /\ messages' = messages /\ upsets' = upsets
      /\ pc' \in IF server'.state = "Connected"
                 THEN {"publishing", "informing", "asleep"} ELSE {"asleep"}
  BY DEF AfterDelivery, budget
<1>2. Sound(s) /\ \A excused \in BOOLEAN : Agrees(server, excused) => Agrees(s, excused)
  BY CheckedSound, CheckedAgrees DEF Inv, Sound
<1>. HIDE DEF s
<1>3. pc' = "publishing" => s.state = "Connected"
  BY <1>1 DEF Steps
<1>4. /\ server' \in ServerType /\ Sound(server') /\ stained' \in BOOLEAN
      /\ pc' = "publishing" /\ server'.state = "Disconnected" => stained'
      /\ Agrees(server', FALSE) \/ stained'
  BY <1>1, <1>2, <1>3, StepKeeps
<1>5. 1 \in Slot
  BY RpcAssumption DEF Slot
<1>6. /\ batch' \in Seq(HostFrame) /\ motors' \in [Motor -> Value]
      /\ host' \in {"DISCONNECTED", "SENT_SYN0", "CONNECTED", "GONE"}
      /\ toRobot' \in Seq(HostFrame) /\ Len(toRobot') <= MaxLine
      /\ toHost' \in Seq([type : {"SYN1", "DIS"}])
      /\ messages' \in 0 .. MaxMessages /\ upsets' \in 0 .. MaxUpsets
  BY <1>1 DEF Inv, TypeOK
<1>7. pc' \in {"asleep", "delivering", "publishing", "informing"} /\ slot' \in Slot
  BY <1>1, <1>5
<1>. QED
  BY <1>4, <1>6, <1>7, InvIs

\* A reset in the middle of rpcLoop stains what is remembered.
LEMMA PublishStep ==
    ASSUME Inv, NEW when \in Publication, Publish(when)
    PROVE  Inv'
<1>. DEFINE s == Published(server, slot, motors, when)
<1>1. /\ pc = "publishing" /\ MayExpire(when # "never") /\ Steps(s)
      /\ slot' = IF slot < RPC_SUB_MAX THEN slot + 1 ELSE 1
      /\ pc' \in IF slot < RPC_SUB_MAX THEN {pc} ELSE {"informing", "asleep"}
      /\ batch' = batch /\ motors' = motors /\ host' = host
      /\ toRobot' = toRobot /\ toHost' = toHost
  BY DEF Publish
<1>2. Sound(server) /\ slot \in Slot /\ motors \in [Motor -> Value]
  BY DEF Inv, TypeOK
<1>3. Sound(s)
  BY <1>2, PublishedSound
<1>4. server.state \in {"Connected", "Disconnected"}
      /\ s.state \in {"Connected", "Disconnected"}
  BY <1>2, <1>3 DEF Sound, ServerType
<1>5. server.state = "Connected" => \A excused \in BOOLEAN :
          Agrees(server, excused) => Agrees(s, excused) \/ s.state = "Disconnected"
  BY <1>2, <1>4, PublishedAgrees
<1>. HIDE DEF s
<1>6. /\ server' \in ServerType /\ Sound(server') /\ stained' \in BOOLEAN
      /\ pc' = "publishing" /\ server'.state = "Disconnected" => stained'
      /\ Agrees(server', FALSE) \/ stained'
  <2>1. CASE server.state = "Connected"
    BY <1>1, <1>3, <1>5, <2>1, StepKeeps
  <2>2. CASE server.state = "Disconnected"
    <3>1. stained = TRUE
      BY <1>1, <2>2 DEF Inv, TypeOK
    <3>2. stained' = TRUE /\ server' = s
      BY <1>1, <2>2, <3>1 DEF Steps
    <3>. QED BY <1>3, <3>2 DEF Sound
  <2>. QED
    BY <1>4, <2>1, <2>2
<1>7. slot' \in Slot
  BY <1>1, <1>2, RpcAssumption DEF Slot
<1>8. pc' \in {"asleep", "delivering", "publishing", "informing"}
  BY <1>1
<1>9. messages' \in 0 .. MaxMessages /\ upsets' \in 0 .. MaxUpsets
  BY <1>1, Expirations
<1>10. /\ batch' \in Seq(HostFrame) /\ motors' \in [Motor -> Value]
       /\ host' \in {"DISCONNECTED", "SENT_SYN0", "CONNECTED", "GONE"}
       /\ toRobot' \in Seq(HostFrame) /\ Len(toRobot') <= MaxLine
       /\ toHost' \in Seq([type : {"SYN1", "DIS"}])
  BY <1>1 DEF Inv, TypeOK
<1>. QED
  BY <1>6, <1>7, <1>8, <1>9, <1>10, InvIs

LEMMA InformStep ==
    ASSUME Inv, NEW expires \in BOOLEAN, Inform(expires)
    PROVE  Inv'
<1>. DEFINE s == Send(server, expires)
<1>1. /\ MayExpire(expires) /\ Steps(s) /\ pc' = "asleep"
      /\ batch' = batch /\ slot' = slot /\ motors' = motors /\ host' = host
      /\ toRobot' = toRobot /\ toHost' = toHost
  BY DEF Inform
<1>2. Sound(s) /\ \A excused \in BOOLEAN : Agrees(server, excused) => Agrees(s, excused)
  BY SendSound, SendAgrees DEF Inv, Sound
<1>. HIDE DEF s
<1>3. /\ server' \in ServerType /\ Sound(server') /\ stained' \in BOOLEAN
      /\ pc' = "publishing" /\ server'.state = "Disconnected" => stained'
      /\ Agrees(server', FALSE) \/ stained'
  BY <1>1, <1>2, StepKeeps
<1>4. messages' \in 0 .. MaxMessages /\ upsets' \in 0 .. MaxUpsets
  BY <1>1, Expirations
<1>5. /\ batch' \in Seq(HostFrame) /\ slot' \in Slot /\ motors' \in [Motor -> Value]
      /\ host' \in {"DISCONNECTED", "SENT_SYN0", "CONNECTED", "GONE"}
      /\ toRobot' \in Seq(HostFrame) /\ Len(toRobot') <= MaxLine
      /\ toHost' \in Seq([type : {"SYN1", "DIS"}])
  BY <1>1 DEF Inv, TypeOK
<1>6. pc' \in {"asleep", "delivering", "publishing", "informing"}
  BY <1>1
<1>. QED
  BY <1>3, <1>4, <1>5, <1>6, InvIs

\* Steps that leave the server and its task alone.
LEMMA TaskSame ==
    ASSUME Inv, task' = task,
           motors' \in [Motor -> Value],
           host' \in {"DISCONNECTED", "SENT_SYN0", "CONNECTED", "GONE"},
           toRobot' \in Seq(HostFrame), Len(toRobot') <= MaxLine,
           toHost' \in Seq([type : {"SYN1", "DIS"}]),
           messages' \in 0 .. MaxMessages, upsets' \in 0 .. MaxUpsets
    PROVE  Inv'
<1>1. /\ server' = server /\ batch' = batch /\ pc' = pc /\ slot' = slot
      /\ stained' = stained
  BY DEF task
<1>. QED
  BY <1>1 DEF Inv, TypeOK

\* A counter that is below its bound.
LEMMA Counters ==
    ASSUME Inv
    PROVE  /\ messages < MaxMessages => messages + 1 \in 0 .. MaxMessages
           /\ upsets < MaxUpsets => upsets + 1 \in 0 .. MaxUpsets
BY ServerAssumption DEF Inv, TypeOK

LEMMA ExpireStep == Inv /\ Expire => Inv'
<1>. SUFFICES ASSUME Inv, Expire PROVE Inv'
  OBVIOUS
<1>. DEFINE s == [server EXCEPT !.expired = TRUE]
<1>1. Sound(server)
  BY DEF Inv
<1>2. s \in ServerType /\ Same(s, server) /\ SameMotors(s, server)
  BY <1>1 DEF Sound, ServerType, Same, SameMotors
<1>3. /\ server' = s /\ batch' = batch /\ pc' = pc /\ slot' = slot
      /\ stained' = stained /\ motors' = motors /\ host' = host
      /\ toRobot' = toRobot /\ toHost' = toHost /\ messages' = messages
  BY DEF Expire
<1>4. upsets' \in 0 .. MaxUpsets
  <2>1. upsets \in 0 .. MaxUpsets
    BY DEF Inv, TypeOK
  <2>. QED BY <2>1, Counters DEF Expire
<1>. HIDE DEF s
<1>5. Sound(s) /\ (Agrees(s, FALSE) \/ stained) /\ s.state = server.state
  BY <1>1, <1>2, SoundIfSame, AgreesIfSame DEF Inv, SameMotors
<1>6. /\ batch \in Seq(HostFrame)
      /\ pc \in {"asleep", "delivering", "publishing", "informing"}
      /\ slot \in Slot /\ motors \in [Motor -> Value] /\ stained \in BOOLEAN
      /\ host \in {"DISCONNECTED", "SENT_SYN0", "CONNECTED", "GONE"}
      /\ toRobot \in Seq(HostFrame) /\ Len(toRobot) <= MaxLine
      /\ toHost \in Seq([type : {"SYN1", "DIS"}])
      /\ messages \in 0 .. MaxMessages
      /\ pc = "publishing" /\ server.state = "Disconnected" => stained
  BY DEF Inv, TypeOK
<1>. QED
  BY <1>2, <1>3, <1>4, <1>5, <1>6, InvIs

LEMMA MoveStep ==
    ASSUME Inv, NEW m \in Motor, NEW value \in Value, Move(m, value)
    PROVE  Inv'
<1>1. /\ task' = task /\ host' = host /\ toRobot' = toRobot /\ toHost' = toHost
      /\ upsets' = upsets /\ messages' = messages + 1 /\ messages < MaxMessages
      /\ motors' = [motors EXCEPT ![m] = value]
  BY DEF Move
<1>2. messages' \in 0 .. MaxMessages
  BY <1>1, Counters
<1>3. motors' \in [Motor -> Value]
  BY <1>1 DEF Inv, TypeOK
<1>. QED
  BY <1>1, <1>2, <1>3, TaskSame DEF Inv, TypeOK

\* What a frame of the host changes.
LEMMA HostSendsKeeps ==
    ASSUME Inv, NEW frame \in HostFrame, HostSends(frame)
    PROVE  /\ task' = task /\ motors' \in [Motor -> Value]
           /\ toRobot' \in Seq(HostFrame) /\ Len(toRobot') <= MaxLine
<1>1. /\ Len(toRobot) < MaxLine /\ toRobot' = Append(toRobot, frame)
      /\ task' = task /\ motors' = motors
  BY DEF HostSends
<1>2. toRobot \in Seq(HostFrame) /\ motors \in [Motor -> Value]
  BY DEF Inv, TypeOK
<1>3. toRobot' \in Seq(HostFrame) /\ Len(toRobot') = Len(toRobot) + 1
  BY <1>1, <1>2
<1>4. Len(toRobot') <= MaxLine
  BY <1>1, <1>2, <1>3, ServerAssumption
<1>. QED
  BY <1>1, <1>2, <1>3, <1>4

\* A step of the host that sends a frame.
LEMMA HostStep ==
    ASSUME Inv, NEW frame \in HostFrame, HostSends(frame),
           host' \in {"DISCONNECTED", "SENT_SYN0", "CONNECTED", "GONE"},
           toHost' \in Seq([type : {"SYN1", "DIS"}]),
           messages' \in 0 .. MaxMessages, upsets' \in 0 .. MaxUpsets
    PROVE  Inv'
BY HostSendsKeeps, TaskSame

\* Frames of the host.
LEMMA HostFrames ==
    /\ \A seq \in {"SYN0", "SYN2", "DIS", "NAK"} : Syn(seq) \in HostFrame
    /\ \A msg \in Message : Data(msg) \in HostFrame
    /\ Data([op |-> "PING"]) \in HostFrame
BY DEF HostFrame, Syn, Data, Message

\* What the host reads.
LEMMA HostReads ==
    ASSUME Inv, NEW type, HostReceives(type)
    PROVE  toHost' \in Seq([type : {"SYN1", "DIS"}])
BY HeadTailProperties DEF Inv, TypeOK, HostReceives

\* Every step of the host.
LEMMA HostSteps ==
    ASSUME Inv,
           \/ HostConnects \/ HostConnectsHastily \/ HostLeaves
           \/ HostReceivesSYN1 \/ HostReceivesDIS
           \/ HostPings \/ HostReminds
           \/ \E msg \in Message : HostRequests(msg)
    PROVE  Inv'
<1>1. /\ host \in {"DISCONNECTED", "SENT_SYN0", "CONNECTED", "GONE"}
      /\ toHost \in Seq([type : {"SYN1", "DIS"}])
      /\ toRobot \in Seq(HostFrame) /\ Len(toRobot) <= MaxLine
      /\ messages \in 0 .. MaxMessages /\ upsets \in 0 .. MaxUpsets
      /\ motors \in [Motor -> Value]
  BY DEF Inv, TypeOK
<1>2. CASE HostConnects
  <2>1. /\ HostSends(Syn("SYN0")) /\ host' = "SENT_SYN0" /\ toHost' = toHost
        /\ messages' = messages /\ upsets' = upsets
    BY <1>2 DEF HostConnects
  <2>. QED BY <1>1, <2>1, HostFrames, HostStep
<1>3. CASE HostConnectsHastily
  <2>1. /\ HostSends(Syn("SYN0")) /\ host' = "SENT_SYN0" /\ toHost' = toHost
        /\ messages' = messages /\ upsets' = upsets + 1 /\ upsets < MaxUpsets
    BY <1>3 DEF HostConnectsHastily
  <2>. QED BY <1>1, <2>1, HostFrames, HostStep, Counters
<1>4. CASE HostLeaves
  <2>1. /\ task' = task /\ motors' = motors /\ toRobot' = toRobot
        /\ toHost' = toHost /\ messages' = messages /\ host' = "GONE"
        /\ upsets' = upsets + 1 /\ upsets < MaxUpsets
    BY <1>4 DEF HostLeaves
  <2>. QED BY <1>1, <2>1, TaskSame, Counters
<1>5. CASE HostReceivesSYN1
  <2>1. PICK seq \in {"DIS", "SYN2"} : HostSends(Syn(seq))
    BY <1>5 DEF HostReceivesSYN1
  <2>2. /\ HostReceives("SYN1") /\ host' \in {host, "CONNECTED"}
        /\ messages' = messages /\ upsets' = upsets
    BY <1>5 DEF HostReceivesSYN1, HostReceives
  <2>3. toHost' \in Seq([type : {"SYN1", "DIS"}])
    BY <2>2, HostReads
  <2>. QED BY <1>1, <2>1, <2>2, <2>3, HostFrames, HostStep
<1>6. CASE HostReceivesDIS
  <2>1. /\ HostReceives("DIS") /\ host' = "DISCONNECTED" /\ task' = task
        /\ motors' = motors /\ toRobot' = toRobot
        /\ messages' = messages /\ upsets' = upsets
    BY <1>6 DEF HostReceivesDIS, HostReceives
  <2>2. toHost' \in Seq([type : {"SYN1", "DIS"}])
    BY <2>1, HostReads
  <2>. QED BY <1>1, <2>1, <2>2, TaskSame
<1>7. CASE HostPings
  <2>1. /\ HostSends(Data([op |-> "PING"])) /\ host' = host /\ toHost' = toHost
        /\ messages' = messages /\ upsets' = upsets
    BY <1>7 DEF HostPings
  <2>. QED BY <1>1, <2>1, HostFrames, HostStep
<1>8. CASE HostReminds
  <2>1. PICK seq \in {"DIS", "SYN0", "NAK"} : HostSends(Syn(seq))
    BY <1>1, <1>8 DEF HostReminds
  <2>2. /\ host' = host /\ toHost' = toHost /\ upsets' = upsets
        /\ messages' = messages + 1 /\ messages < MaxMessages
    BY <1>8 DEF HostReminds
  <2>. QED BY <1>1, <2>1, <2>2, HostFrames, HostStep, Counters
<1>9. ASSUME NEW msg \in Message, HostRequests(msg) PROVE Inv'
  <2>1. /\ HostSends(Data(msg)) /\ host' = host /\ toHost' = toHost
        /\ upsets' = upsets /\ messages' = messages + 1 /\ messages < MaxMessages
    BY <1>9 DEF HostRequests
  <2>. QED BY <1>1, <2>1, HostFrames, HostStep, Counters
<1>. QED
  BY <1>2, <1>3, <1>4, <1>5, <1>6, <1>7, <1>8, <1>9

LEMMA InvStep == Inv /\ [Next]_vars => Inv'
<1>. SUFFICES ASSUME Inv, [Next]_vars PROVE Inv'
  OBVIOUS
<1>1. CASE Task
  <2>1. ASSUME NEW expires \in BOOLEAN,
               \/ DeliverSYN0(expires) \/ Refuse(expires) \/ Inform(expires)
               \/ \E some \in BOOLEAN : Retransmit(some, expires)
               \/ \E succeeds \in BOOLEAN : DeliverUSR(succeeds, expires)
        PROVE  Inv'
    BY <2>1, DeliverSYN0Step, RefuseStep, InformStep, RetransmitStep, DeliverUSRStep
  <2>. QED
    BY <1>1, <2>1, ReadStep, DeliverSYN2Step, DeliverDISStep, AfterDeliveryStep,
       PublishStep DEF Task
<1>2. CASE Expire
  BY <1>2, ExpireStep
<1>3. ASSUME NEW m \in Motor, NEW value \in Value, Move(m, value) PROVE Inv'
  BY <1>3, MoveStep
<1>4. CASE \/ HostConnects \/ HostConnectsHastily \/ HostLeaves
           \/ HostReceivesSYN1 \/ HostReceivesDIS
           \/ HostPings \/ HostReminds
           \/ \E msg \in Message : HostRequests(msg)
  BY <1>4, HostSteps
<1>5. CASE UNCHANGED vars
  <2>1. /\ task' = task /\ motors' = motors /\ host' = host /\ toRobot' = toRobot
        /\ toHost' = toHost /\ messages' = messages /\ upsets' = upsets
    BY <1>5 DEF vars, budget
  <2>. QED
    BY <2>1, TaskSame DEF Inv, TypeOK
<1>. QED
  BY <1>1, <1>2, <1>3, <1>4, <1>5 DEF Next

LEMMA InvHolds == Spec => []Inv
BY InvInit, InvStep, PTL DEF Spec

-----------------------------------------------------------------------------

\* Whatever host, task and clock do, every variable keeps its type: no
\* publication runs past the last subscription.
THEOREM TypeCorrect == Spec => []TypeOK
<1>1. Inv => TypeOK
  BY DEF Inv
<1>. QED
  BY <1>1, InvHolds, PTL

\* The server knows of the file that is open, and of no other.
THEOREM FileKnown == Spec => []OneFile
<1>1. Inv => OneFile
  BY DEF Inv, Sound, OneFile
<1>. QED
  BY <1>1, InvHolds, PTL

\* The cache of motor values is what the host was told on this connection.
THEOREM CacheIsTold == Spec => []NothingHidden
<1>1. Inv => NothingHidden
  BY DEF Inv, Agrees, NothingHidden
<1>. QED
  BY <1>1, InvHolds, PTL

\* Nothing that was active or open when the handshake of a connection was
\* completed is so when the server has noticed the connection.
THEOREM StartsClean == Spec => []NothingInherited
<1>1. Inv => NothingInherited
  BY DEF Inv, Sound, Clean, NothingInherited
<1>. QED
  BY <1>1, InvHolds, PTL

\* A subscription that was accepted stays until it is cancelled or refused, or
\* the connection is lost.
THEOREM SubscriptionsStay == Spec => []AcceptedIsActive
<1>1. Inv => AcceptedIsActive
  BY DEF Inv, Sound, AcceptedIsActive
<1>. QED
  BY <1>1, InvHolds, PTL

=============================================================================
