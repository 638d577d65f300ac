------------------------------ MODULE Replies -------------------------------
(***************************************************************************)
(* What rpc.c answers, message by message and octet by octet: the replies  *)
(* to READ, which end in one DATA with FLAG_END, the publications of a     *)
(* subscription, which end it with FLAG_END, and the cassettes.            *)
(*                                                                         *)
(* This is one connection, over a line that loses nothing (SfpLink); the   *)
(* ways a connection begins and ends are in Server.  rpc_t is a record,    *)
(* and a handler a function from it to itself, as in Rpc; out collects     *)
(* what the handler sends.                                                 *)
(***************************************************************************)
EXTENDS Messages, FiniteSetsExt, SequencesExt

CONSTANTS
    SFP_CONFIG_MAX_PACKET_SIZE,
    RPC_SUB_MAX,
    kVexMotorNum,
    CASSETTE_MAX,
    ChunkSize,      \* octets of a cassette sent at once (128)
    Recording,      \* what cassettes hold when the connection begins
    ReqId,          \* request ids a host uses for what is answered
    Readable,       \* pairs of topic and subtopic a host reads
    Subscribable,   \* and subscribes to
    Writable,       \* triples of topic, subtopic and value it writes
    MaxMessages,    \* bound: messages of the host
    MaxLine         \* bound: messages on their way in each direction

Absent == "absent"

\* All replies fit, and the length of a value in an octet: this is what the
\* constants of the code satisfy.
ASSUME RepliesAssumption ==
    /\ {SFP_CONFIG_MAX_PACKET_SIZE, RPC_SUB_MAX, kVexMotorNum, CASSETTE_MAX}
            \subseteq Nat
    /\ ChunkSize \in Nat \ {0}
    /\ \A len \in {8, ChunkSize, 5 * RPC_SUB_MAX, 2 * kVexMotorNum} :
            HeaderLength(MESSAGES_OP_DATA) + len <= SFP_CONFIG_MAX_PACKET_SIZE
    /\ SFP_CONFIG_MAX_PACKET_SIZE <= Base
    /\ CASSETTE_MAX <= Base - 8

\* A host sends what rpc_t.in can hold.
ASSUME HostAssumption ==
    /\ ReqId \subseteq Short \ {0}
    /\ \A r \in Recording : r = Absent \/ r \in Seq(Octet)
    /\ Readable \cup Subscribable \subseteq Octet \X Octet
    /\ Writable \subseteq Octet \X Octet \X Values
    /\ \A w \in Writable :
            HeaderLength(MESSAGES_OP_WRITE) + Len(w[3])
                <= SFP_CONFIG_MAX_PACKET_SIZE

Slot == 0 .. RPC_SUB_MAX - 1
MotorIndex == 0 .. kVexMotorNum - 1
CassetteIndex == 0 .. CASSETTE_MAX - 1

MESSAGES_DATA_FLAG_END   == 1
MESSAGES_DATA_FLAG_PUB   == 2
MESSAGES_DATA_FLAG_ERROR == 4

BAD_REQ_ID   == <<1>>
BAD_TOPIC    == <<2>>
BAD_SUBTOPIC == <<3>>
SUB_MAX      == <<4>>

PUBSUB   == 0
CLOCK    == 1
MOTOR    == 2
NETWORK  == 4
ROBOT    == 5
CASSETTE == 6
ALL      == Base - 1

\* Subtopics; 0 is that of the clock, of the address and of the batteries.
NOW    == 0
WRITE  == Base - 8
CLOSE  == Base - 7
OPEN   == Base - 6
COUNT  == Base - 5
FREE   == Base - 4
MAX    == Base - 3
LIST   == Base - 2

NoCassette == Base - 1
NotReading == [file |-> Absent]

VARIABLES
    rpc,        \* rpc_t
    motors,     \* what vexMotorGet returns
    files,      \* what each cassette holds
    available,  \* whether fcount and fgetc have an octet of the file read
    late,       \* whether the heartbeat has expired during a long reply
    connected,
    toRobot, toHost,    \* packets on their way, with the message meant
    host,       \* what the host thinks of each request id
    tape,       \* the octets it has read of a cassette, and should read
    spoiled,    \* request ids the host has used out of turn
    messages

world == <<motors, files, available>>
hostVars == <<host, tape, spoiled, messages>>
vars == <<rpc, world, late, connected, toRobot, toHost, hostVars>>

FreeSlot == [active |-> FALSE, req_id |-> 0, topic |-> 0, subtopic |-> 0]

Init ==
    /\ rpc = [ subs |-> [i \in Slot |-> FreeSlot],
               motor |-> [m \in MotorIndex |-> 0],  \* the values last sent
               cassette |-> NoCassette,
               open |-> FALSE,                      \* whether fp is not NULL
               reading |-> NotReading,
               out |-> <<>> ]
    /\ motors = [m \in MotorIndex |-> 0]
    /\ files \in [CassetteIndex -> Recording]
    /\ available = TRUE /\ late = FALSE /\ connected = TRUE
    /\ toRobot = <<>> /\ toHost = <<>>
    /\ host = [id \in ReqId |-> "free"]
    /\ tape = [id \in ReqId |-> [got |-> <<>>, recorded |-> <<>>]]
    /\ spoiled = {}
    /\ messages = 0

-----------------------------------------------------------------------------
(* rpcSend and the functions that call it.                                 *)

\* What does not fit is not sent.
Send(s, m) ==
    LET packet == Serialize(m, SFP_CONFIG_MAX_PACKET_SIZE)
    IN  IF packet = NoPacket THEN s
        ELSE [s EXCEPT !.out = Append(@, [packet |-> packet, meant |-> m])]

\* rpcSendData.  The time is left out.
SendData(s, req_id, topic, subtopic, flag, value) ==
    Send(s, DataFrame(req_id, topic, subtopic, flag, 0, value))

SendPub(s, sub, value) ==
    SendData(s, sub.req_id, sub.topic, sub.subtopic,
             MESSAGES_DATA_FLAG_PUB, value)

SendPubError(s, sub, error) ==
    SendData(s, sub.req_id, sub.topic, sub.subtopic,
             MESSAGES_DATA_FLAG_PUB + MESSAGES_DATA_FLAG_ERROR
                + MESSAGES_DATA_FLAG_END,
             error)

SendRep(s, read, value) ==
    SendData(s, read.req_id, read.topic, read.subtopic,
             MESSAGES_DATA_FLAG_END, value)

SendRepError(s, m, error) ==
    SendData(s, m.req_id, m.topic, m.subtopic,
             MESSAGES_DATA_FLAG_ERROR + MESSAGES_DATA_FLAG_END, error)

\* A number of 32 bits, as it is sent.
LongOctets(n) ==
    <<Low(High(High(High(n)))), Low(High(High(n))), Low(High(n)), Low(n)>>

\* A clock of 64 bits: 0, as nothing depends on it.
Clock == [i \in 1 .. 8 |-> 0]

-----------------------------------------------------------------------------
(* Subscriptions.                                                          *)

\* rpcSubFree
FreeSlots(s) == {i \in Slot : ~s.subs[i].active}

\* rpcSubFind, if it is given a place for what it finds.  Without one it says
\* that there is none: so it does in rpcRecvSubscribe.
SubFind(s, id) == {i \in Slot : s.subs[i].active /\ s.subs[i].req_id = id}

SubReset(s, i) == [s EXCEPT !.subs[i] = FreeSlot]

RecvSubscribe(s, m) ==
    LET sub == [active |-> TRUE, req_id |-> m.req_id, topic |-> m.topic,
                subtopic |-> m.subtopic]
        free == FreeSlots(s)
    IN  IF free = {} THEN SendPubError(s, sub, SUB_MAX)
        ELSE [s EXCEPT !.subs[Min(free)] = sub]

\* The last frame of a subscription.
SendPubEnd(s, sub) ==
    SendData(s, sub.req_id, sub.topic, sub.subtopic,
             MESSAGES_DATA_FLAG_PUB + MESSAGES_DATA_FLAG_END, <<>>)

\* Faulty variant: the subscription stays.
RecvUnsubscribeStays(s, m) ==
    LET found == SubFind(s, m.req_id)
        none == [req_id |-> m.req_id, topic |-> ALL, subtopic |-> ALL]
    IN  IF found = {} THEN SendPubEnd(SendPubError(s, none, BAD_REQ_ID), none)
        ELSE SendPubEnd(s, s.subs[Min(found)])

\* If there is no such subscription, the end follows an error that is one too.
RecvUnsubscribe(s, m) ==
    LET found == SubFind(s, m.req_id)
        none == [req_id |-> m.req_id, topic |-> ALL, subtopic |-> ALL]
    IN  IF found = {} THEN SendPubEnd(SendPubError(s, none, BAD_REQ_ID), none)
        ELSE SubReset(SendPubEnd(s, s.subs[Min(found)]), Min(found))

\* Faulty variant: the subscription stays after its error.
DropLater(s, i, error) == SendPubError(s, s.subs[i], error)

\* rpcPublish with an error
Drop(s, i, error) == SubReset(SendPubError(s, s.subs[i], error), i)

PublishClock(s, i) ==
    IF s.subs[i].subtopic = NOW THEN SendPub(s, s.subs[i], Clock)
    ELSE Drop(s, i, BAD_SUBTOPIC)

\* Index and value of the motors of a set, in order.
Listed(set) ==
    FlattenSeq([i \in 1 .. kVexMotorNum |->
                    IF i - 1 \in set THEN <<i - 1, motors[i - 1]>> ELSE <<>>])

\* The values of these motors are about to be sent.
Remember(s, set) ==
    [s EXCEPT !.motor = [m \in MotorIndex |-> IF m \in set THEN motors[m]
                                                            ELSE @[m]]]

PublishMotor(s, i) ==
    LET sub == s.subs[i]
        changed == {m \in MotorIndex : motors[m] # s.motor[m]}
    IN  CASE sub.subtopic \in changed ->
                SendPub(Remember(s, {sub.subtopic}), sub,
                        <<motors[sub.subtopic]>>)
          [] sub.subtopic = ALL /\ changed # {} ->
                SendPub(Remember(s, changed), sub, Listed(changed))
          [] sub.subtopic \notin MotorIndex \cup {ALL} ->
                Drop(s, i, BAD_SUBTOPIC)
          [] OTHER -> s

\* While it is published, a subscription to everything is one to the clock,
\* then one to all motors.
PublishAll(s, i) ==
    LET as(t, topic, subtopic) ==
            [t EXCEPT !.subs[i].topic = topic, !.subs[i].subtopic = subtopic]
    IN  IF s.subs[i].subtopic # ALL THEN Drop(s, i, BAD_SUBTOPIC)
        ELSE as(PublishMotor(as(PublishClock(as(s, CLOCK, NOW), i),
                                MOTOR, ALL), i),
                ALL, ALL)

Publish(s, i) ==
    IF ~s.subs[i].active THEN s
    ELSE CASE s.subs[i].topic = CLOCK -> PublishClock(s, i)
           [] s.subs[i].topic = MOTOR -> PublishMotor(s, i)
           [] s.subs[i].topic = ALL -> PublishAll(s, i)
           [] OTHER -> Drop(s, i, BAD_TOPIC)

-----------------------------------------------------------------------------
(* rpcRecvRead.                                                            *)

Place(s, i) ==
    <<High(s.subs[i].req_id), Low(s.subs[i].req_id), s.subs[i].topic,
      s.subs[i].subtopic>>

Listing(s) ==
    FlattenSeq([i \in 1 .. RPC_SUB_MAX |->
                    IF s.subs[i - 1].active THEN <<i - 1>> \o Place(s, i - 1)
                                            ELSE <<>>])

RecvReadPubsub(s, read) ==
    LET free == Cardinality(FreeSlots(s))
        part(t, subtopic, value) ==
            SendData(t, read.req_id, read.topic, subtopic, 0, value)
    IN  CASE read.subtopic \in Slot ->
                SendRep(s, read, IF s.subs[read.subtopic].active
                                 THEN Place(s, read.subtopic) ELSE <<>>)
          [] read.subtopic = COUNT -> SendRep(s, read, <<RPC_SUB_MAX - free>>)
          [] read.subtopic = FREE -> SendRep(s, read, <<free>>)
          [] read.subtopic = MAX -> SendRep(s, read, <<RPC_SUB_MAX>>)
          [] read.subtopic = LIST -> SendRep(s, read, Listing(s))
          [] read.subtopic = ALL ->
                SendRep(part(part(part(part(s, LIST, Listing(s)),
                                       COUNT, <<RPC_SUB_MAX - free>>),
                                  FREE, <<free>>),
                             MAX, <<RPC_SUB_MAX>>),
                        read, <<>>)
          [] OTHER -> SendRepError(s, read, BAD_SUBTOPIC)

RecvReadClock(s, read) ==
    IF read.subtopic = NOW THEN SendRep(s, read, Clock)
    ELSE SendRepError(s, read, BAD_SUBTOPIC)

\* Faulty variant: as in rpcPublishMotor, what has not changed is not sent.
RecvReadMotorChanged(s, read) ==
    LET changed == {m \in MotorIndex : motors[m] # s.motor[m]}
    IN  CASE read.subtopic \in changed ->
                SendRep(Remember(s, {read.subtopic}), read,
                        <<motors[read.subtopic]>>)
          [] read.subtopic = ALL /\ changed # {} ->
                SendRep(Remember(s, changed), read, Listed(changed))
          [] read.subtopic \notin MotorIndex \cup {ALL} ->
                SendRepError(s, read, BAD_SUBTOPIC)
          [] OTHER -> s

RecvReadMotor(s, read) ==
    CASE read.subtopic \in MotorIndex ->
            SendRep(Remember(s, {read.subtopic}), read,
                    <<motors[read.subtopic]>>)
      [] read.subtopic = ALL ->
            SendRep(Remember(s, MotorIndex), read, Listed(MotorIndex))
      [] OTHER -> SendRepError(s, read, BAD_SUBTOPIC)

\* cassetteCount
CassetteCount == Cardinality({c \in CassetteIndex : files[c] # Absent})

\* How far the open cassette has been written (ftell).
Told(s) == IF s.open THEN Len(files[s.cassette]) ELSE 0

\* A file that exists is read in the steps of a loop, ReadOctet to EndOfFile.
RecvReadCassette(s, read) ==
    CASE read.subtopic \in CassetteIndex ->
            IF s.open \/ files[read.subtopic] = Absent
            THEN SendRep(s, read, <<>>)
            ELSE [s EXCEPT !.reading = [file |-> read.subtopic, read |-> read,
                                        rlen |-> 0, tmp |-> <<>>]]
      [] read.subtopic = OPEN ->
            SendRep(s, read, <<s.cassette>> \o LongOctets(Told(s)))
      [] read.subtopic = COUNT -> SendRep(s, read, <<CassetteCount>>)
      [] read.subtopic = FREE ->
            SendRep(s, read, <<CASSETTE_MAX - CassetteCount>>)
      [] read.subtopic = MAX -> SendRep(s, read, <<CASSETTE_MAX>>)
      [] OTHER -> SendRepError(s, read, BAD_SUBTOPIC)

RecvRead(s, read) ==
    CASE read.topic = PUBSUB -> RecvReadPubsub(s, read)
      [] read.topic = CLOCK -> RecvReadClock(s, read)
      [] read.topic = MOTOR -> RecvReadMotor(s, read)
      [] read.topic = CASSETTE -> RecvReadCassette(s, read)
      [] OTHER -> SendRepError(s, read, BAD_TOPIC)

-----------------------------------------------------------------------------
(* rpcRecvWrite.  Nothing is answered but that a topic is unknown.         *)

\* rpcRecvWriteMotor: what the motors are set to.
MotorsAfter(m) ==
    LET pairs(k) == {j \in 1 .. Len(m.value) \div 2 : m.value[2 * j - 1] = k}
    IN  IF m.subtopic = ALL /\ Len(m.value) % 2 = 0
        THEN [k \in MotorIndex |-> IF pairs(k) = {} THEN motors[k]
                                   ELSE m.value[2 * Max(pairs(k))]]
        ELSE IF m.subtopic \in MotorIndex /\ Len(m.value) = 1
        THEN [motors EXCEPT ![m.subtopic] = m.value[1]]
        ELSE motors

\* The conditions of rpcRecvWriteCassette.  A WRITE of no octets is left out.
Opens(s, m) ==
    /\ m.subtopic = OPEN /\ Len(m.value) = 1 /\ m.value[1] \in CassetteIndex
    /\ s.cassette = NoCassette

Closes(s, m) ==
    /\ m.subtopic = CLOSE /\ Len(m.value) = 1
    /\ m.value[1] \in CassetteIndex /\ s.cassette = m.value[1]

Appends(s, m) ==
    /\ m.subtopic = WRITE /\ Len(m.value) = 2
    /\ m.value[1] \in CassetteIndex /\ s.cassette = m.value[1]

\* rpcRecvWriteCassette, cassetteOpenWrite.  The file may not be opened, or
\* not be flushed; then it is closed.
RecvWriteCassette(s, m, succeeds) ==
    CASE Opens(s, m) /\ succeeds ->
            [s EXCEPT !.cassette = m.value[1], !.open = TRUE]
      [] Closes(s, m) \/ (Appends(s, m) /\ ~succeeds) ->
            [s EXCEPT !.cassette = NoCassette, !.open = FALSE]
      [] OTHER -> s

\* Opening a file destroys what it held (API.h).
FilesAfter(s, m, succeeds) ==
    CASE Opens(s, m) /\ succeeds -> [files EXCEPT ![m.value[1]] = <<>>]
      [] Appends(s, m) ->
            [files EXCEPT ![m.value[1]] = Append(@, m.value[2])]
      [] OTHER -> files

RecvWrite(s, m, succeeds) ==
    CASE m.topic = MOTOR -> s
      [] m.topic = CASSETTE -> RecvWriteCassette(s, m, succeeds)
      [] OTHER -> SendRepError(s, m, BAD_TOPIC)

-----------------------------------------------------------------------------
(* The server task.                                                        *)

\* rpcRecv
Recv(s, m, succeeds) ==
    CASE m.op = MESSAGES_OP_PING -> Send(s, PongFrame(m.seq_id))
      [] m.op = MESSAGES_OP_READ -> RecvRead(s, m)
      [] m.op = MESSAGES_OP_WRITE -> RecvWrite(s, m, succeeds)
      [] m.op = MESSAGES_OP_SUBSCRIBE -> RecvSubscribe(s, m)
      [] m.op = MESSAGES_OP_UNSUBSCRIBE -> RecvUnsubscribe(s, m)
      [] OTHER -> s

\* The task goes on as s.  A heartbeat that has expired ends the connection
\* at the first write: nothing that follows reaches the host.
GoesOn(s) ==
    LET breaks == late /\ s.out # <<>>
    IN  /\ rpc' = [s EXCEPT !.out = <<>>]
        /\ connected' = (connected /\ ~breaks)
        /\ toHost' = IF ~connected THEN toHost
                     ELSE toHost \o (IF breaks THEN <<Head(s.out)>> ELSE s.out)

\* An UNSUBSCRIBE that crosses the end of the subscription.
Crossed(m) ==
    m.op = MESSAGES_OP_UNSUBSCRIBE /\ SubFind(rpc, m.req_id) = {}

\* serverRead
RobotReceives(succeeds) ==
    /\ connected /\ toRobot # <<>> /\ Len(toHost) < MaxLine
    /\ rpc.reading = NotReading
    /\ toRobot' = Tail(toRobot)
    /\ LET m == Deserialize(Head(toRobot).packet)
           s == Recv(rpc, m, succeeds)
       IN  /\ GoesOn(s)
           /\ motors' = IF m.op = MESSAGES_OP_WRITE /\ m.topic = MOTOR
                        THEN MotorsAfter(m) ELSE motors
           /\ files' = IF m.op = MESSAGES_OP_WRITE /\ m.topic = CASSETTE
                       THEN FilesAfter(rpc, m, succeeds) ELSE files
           /\ spoiled' = IF Crossed(m) THEN spoiled \cup {m.req_id}
                                         ELSE spoiled
           /\ tape' = IF s.reading = NotReading THEN tape
                      ELSE [tape EXCEPT ![m.req_id].recorded =
                                files[m.subtopic]]
    /\ UNCHANGED <<available, late, host, messages>>

\* The loop of rpcRecvReadCassette: one octet of the file, and a message when
\* tmp is full.
ReadOctet ==
    LET r == rpc.reading
        octet == files[r.file][r.rlen + 1]
        tmp == Append(r.tmp, octet)
        full == Len(tmp) >= ChunkSize
        after == [rpc EXCEPT !.reading.rlen = @ + 1,
                             !.reading.tmp = IF full THEN <<>> ELSE tmp]
    IN  /\ r # NotReading /\ available
        /\ r.rlen < Len(files[r.file])
        /\ Len(toHost) < MaxLine
        /\ GoesOn(IF full
                  THEN SendData(after, r.read.req_id, r.read.topic,
                                r.read.subtopic, 0, tmp)
                  ELSE after)
        /\ available' \in BOOLEAN
        /\ UNCHANGED <<motors, files, late, toRobot, hostVars>>

\* fcount or fgetc have nothing, though the file is not at its end: the loop
\* sleeps and asks again.
FileReady ==
    /\ ~available
    /\ available' = TRUE
    /\ UNCHANGED <<rpc, motors, files, late, connected, toRobot, toHost,
                   hostVars>>

\* Faulty variant: octets left in tmp are not sent.
EndOfFileDropsRest ==
    LET r == rpc.reading
    IN  /\ r # NotReading /\ r.rlen = Len(files[r.file])
        /\ Len(toHost) < MaxLine
        /\ GoesOn(SendRep([rpc EXCEPT !.reading = NotReading], r.read,
                          LongOctets(r.rlen)))
        /\ late' = FALSE
        /\ UNCHANGED <<world, toRobot, hostVars>>

\* The end of that loop, and of rpcRecv, which renews the heartbeat.
EndOfFile ==
    LET r == rpc.reading
        after == [rpc EXCEPT !.reading = NotReading]
        rest == IF r.tmp = <<>> THEN after
                ELSE SendData(after, r.read.req_id, r.read.topic,
                              r.read.subtopic, 0, r.tmp)
    IN  /\ r # NotReading /\ r.rlen = Len(files[r.file])
        /\ Len(toHost) < MaxLine
        /\ GoesOn(SendRep(rest, r.read, LongOctets(r.rlen)))
        /\ late' = FALSE
        /\ UNCHANGED <<world, toRobot, hostVars>>

\* Five seconds pass since the last message while a cassette is read: none is
\* handled before the loop ends.
Expire ==
    /\ rpc.reading # NotReading /\ ~late
    /\ late' = TRUE
    /\ UNCHANGED <<rpc, world, connected, toRobot, toHost, hostVars>>

\* The subscriptions are published in order: after k of them.
Published[k \in 0 .. RPC_SUB_MAX] ==
    IF k = 0 THEN rpc ELSE Publish(Published[k - 1], k - 1)

\* rpcLoop every 25 ms, and every second.
RpcLoop ==
    /\ connected /\ rpc.reading = NotReading /\ Len(toHost) < MaxLine
    /\ \/ GoesOn(Published[RPC_SUB_MAX])
       \/ GoesOn(Send(rpc, InfoFrame(ROBOT, NOW, Clock)))
    /\ UNCHANGED <<world, late, toRobot, hostVars>>

-----------------------------------------------------------------------------
(* The host.                                                               *)

Sends(e) ==
    /\ connected /\ messages < MaxMessages /\ Len(toRobot) < MaxLine
    /\ toRobot' = Append(toRobot, e)
    /\ messages' = messages + 1
    /\ UNCHANGED <<rpc, world, late, connected, toHost, tape>>

Whole(m) == [packet |-> Serialize(m, SFP_CONFIG_MAX_PACKET_SIZE), meant |-> m]

HostReads(id, t) ==
    /\ host[id] = "free"
    /\ host' = [host EXCEPT ![id] = "reading"]
    /\ Sends(Whole(ReadFrame(id, t[1], t[2])))
    /\ UNCHANGED spoiled

HostSubscribes(id, t) ==
    /\ host[id] = "free"
    /\ host' = [host EXCEPT ![id] = "subscribed"]
    /\ Sends(Whole(SubscribeFrame(id, t[1], t[2])))
    /\ UNCHANGED spoiled

\* Out of turn: it is subscribed already.
HostSubscribesAgain(id, t) ==
    /\ host[id] = "subscribed"
    /\ spoiled' = spoiled \cup {id}
    /\ UNCHANGED host
    /\ Sends(Whole(SubscribeFrame(id, t[1], t[2])))

HostUnsubscribes(id) ==
    /\ host[id] = "subscribed"
    /\ host' = [host EXCEPT ![id] = "cancelling"]
    /\ Sends(Whole(UnsubscribeFrame(id)))
    /\ UNCHANGED spoiled

\* Messages with no answer to wait for: id 0 is that of all of them.
Unanswered ==
    {PingFrame(1), InfoFrame(NETWORK, 0, <<1, 1, 1, 1>>)}
    \cup {WriteFrame(0, w[1], w[2], w[3]) : w \in Writable}

HostTells ==
    /\ \E m \in Unanswered : Sends(Whole(m))
    /\ UNCHANGED <<host, spoiled>>

\* A packet that is an octet shorter than the message in it.
HostCutsShort ==
    /\ \E m \in Unanswered :
          LET p == Whole(m).packet
          IN  /\ Len(p) < Base
              /\ Sends([packet |-> SubSeq(p, 1, Len(p) - 1), meant |-> Failed])
    /\ UNCHANGED <<host, spoiled>>

Ends(m) == m.flag % 2 = MESSAGES_DATA_FLAG_END

HostReceives ==
    /\ toHost # <<>>
    /\ toHost' = Tail(toHost)
    /\ LET m == Deserialize(Head(toHost).packet)
       IN  IF m.op # MESSAGES_OP_DATA \/ m.req_id \notin ReqId
           THEN UNCHANGED <<host, tape>>
           ELSE IF Ends(m)
           THEN /\ host' = [host EXCEPT ![m.req_id] = "free"]
                /\ tape' = [tape EXCEPT ![m.req_id] =
                                [got |-> <<>>, recorded |-> <<>>]]
           ELSE /\ tape' = IF m.topic = CASSETTE
                           THEN [tape EXCEPT ![m.req_id].got = @ \o m.value]
                           ELSE tape
                /\ UNCHANGED host
    /\ UNCHANGED <<rpc, world, late, connected, toRobot, spoiled, messages>>

-----------------------------------------------------------------------------

RobotStep ==
    \/ \E succeeds \in BOOLEAN : RobotReceives(succeeds)
    \/ ReadOctet
    \/ EndOfFile

HostStep ==
    \/ \E id \in ReqId :
          \/ \E t \in Readable : HostReads(id, t)
          \/ \E t \in Subscribable : HostSubscribes(id, t)
          \/ \E t \in Subscribable : HostSubscribesAgain(id, t)
          \/ HostUnsubscribes(id)
    \/ HostTells
    \/ HostCutsShort
    \/ HostReceives

Next == RobotStep \/ RpcLoop \/ FileReady \/ Expire \/ HostStep

Spec == Init /\ [][Next]_vars

-----------------------------------------------------------------------------
(* Properties.                                                             *)

\* Both ends read from a packet what the other has written into it, at the
\* greatest length as well, and refuse a packet that has been cut short.
Understood ==
    \A line \in {toRobot, toHost} : \A i \in DOMAIN line :
        Deserialize(line[i].packet) = line[i].meant

IsFor(m, id) == m.op = MESSAGES_OP_DATA /\ m.req_id = id

\* A frame with FLAG_END is the last of its request: the host can use the id
\* again and what comes then is meant for the new request, unless it was out of
\* turn with this id before.
EndIsLast ==
    \A id \in ReqId \ spoiled : \A i \in DOMAIN toHost :
        IsFor(toHost[i].meant, id) => host[id] # "free"

\* Once nothing about it is on its way, host and robot agree on whether there
\* is a subscription, of which there is one at most.
SubscriptionsAgree ==
    \A id \in ReqId \ spoiled :
        LET asked == \E i \in DOMAIN toRobot :
                        LET m == toRobot[i].meant
                        IN  m.op = MESSAGES_OP_SUBSCRIBE /\ m.req_id = id
            ended == \E i \in DOMAIN toHost :
                        LET m == toHost[i].meant
                        IN  IsFor(m, id) /\ Ends(m)
            holds == host[id] \in {"subscribed", "cancelling"}
        IN  connected =>
                Cardinality(SubFind(rpc, id)) =
                    IF holds /\ ~asked /\ ~ended THEN 1 ELSE 0

\* A reply that ends with the length of a cassette follows all of its octets,
\* in order, however they were divided.
CassetteWhole ==
    toHost # <<>> =>
        LET m == Head(toHost).meant
        IN  /\ m.op = MESSAGES_OP_DATA
            /\ m.topic = CASSETTE /\ m.subtopic \in CassetteIndex
            /\ m.flag = MESSAGES_DATA_FLAG_END /\ m.value # <<>>
            /\ m.req_id \notin spoiled
            => /\ tape[m.req_id].got = tape[m.req_id].recorded
               /\ m.value = LongOctets(Len(tape[m.req_id].got))

\* What the host waits for is on its way once: the request, the loop that reads
\* the cassette for it, or the frame that ends it.
OneAnswer ==
    \A id \in ReqId \ spoiled :
        LET asking(op) == {i \in DOMAIN toRobot :
                              /\ toRobot[i].meant.op = op
                              /\ toRobot[i].meant.req_id = id}
            ending == {i \in DOMAIN toHost :
                          IsFor(toHost[i].meant, id) /\ Ends(toHost[i].meant)}
            read == rpc.reading # NotReading /\ rpc.reading.read.req_id = id
        IN  connected =>
                /\ host[id] = "reading" =>
                        Cardinality(asking(MESSAGES_OP_READ))
                            + Cardinality(ending) + (IF read THEN 1 ELSE 0) = 1
                /\ host[id] = "cancelling" =>
                        asking(MESSAGES_OP_UNSUBSCRIBE) # {} \/ ending # {}
=============================================================================
