-------------------------------- MODULE Rpc --------------------------------
(***************************************************************************)
(* The remote procedure calls of rpc.c, as functions on server_t: what a   *)
(* message from the host does, and what is published.  now is what         *)
(* motorGet returns for each motor.                                        *)
(***************************************************************************)
EXTENDS ServerContext

-----------------------------------------------------------------------------
(* Frames to the host.                                                     *)

\* rpcSend, sfpWritePacket and serverWrite.  The frame goes out in every
\* state; it reaches the host as data if the link is connected.
Send(s, expires) == Wrote(s, expires)

\* A frame with the values of some motors, which are remembered first.
SendMotors(s, motors, now, expires) ==
    LET values(known) == [m \in Motor |-> IF m \in motors THEN now[m]
                                                          ELSE known[m]]
    IN  Send([s EXCEPT !.motor = values(@),
                       !.told = IF s.sfp = "CONNECTED" THEN values(@) ELSE @],
             expires)

-----------------------------------------------------------------------------
(* Subscriptions.                                                          *)

\* rpcSubFree.
FreeSlots(s) == {i \in Slot : ~s.subs[i].active}

\* rpcSubFind, when it is asked for the subscription.
SubsWith(s, id) == {i \in Slot : s.subs[i].active /\ s.subs[i].req_id = id}

\* Faulty variant: the first subscription is reset, whatever its id.
SubResetFirst(s, i) ==
    [s EXCEPT !.subs[1] = FreeSlot,
              !.accepted = @ \ {s.subs[i].req_id}]

SubReset(s, i) ==
    [s EXCEPT !.subs[i] = FreeSlot,
              !.accepted = @ \ {s.subs[i].req_id}]

\* rpcRecvSubscribe.  rpcSubFind is not asked for the subscription here and
\* then always answers that there is none.
RecvSubscribe(s, id, topic, expires) ==
    LET free == FreeSlots(s)
        sub == [active |-> TRUE, req_id |-> id, topic |-> topic]
    IN  IF free = {} THEN Send(s, expires)
        ELSE [s EXCEPT !.subs[Min(free)] = sub,
                       !.oldSubs = @ \ {Min(free)},
                       !.accepted = IF s.state = "Connected" THEN @ \cup {id}
                                                             ELSE @]

\* rpcRecvUnsubscribe: an error and an end if there is no such subscription.
RecvUnsubscribe(s, id, expires) ==
    LET subs == SubsWith(s, id)
    IN  IF subs = {} THEN Send(Send(s, expires), FALSE)
        ELSE SubReset(Send(s, expires), Min(subs))

-----------------------------------------------------------------------------
(* rpcPublish for the subscription in a slot.  The heartbeat may expire    *)
(* in the first write, in the second, or not.                              *)

Publication == {"first", "second", "never"}

\* rpcPublishMotor: nothing if no value has changed.
PublishMotors(s, motors, now, expires) ==
    LET changed == {m \in motors : now[m] # s.motor[m]}
    IN  IF changed = {} THEN s ELSE SendMotors(s, changed, now, expires)

Published(s, i, now, when) ==
    LET topic == s.subs[i].topic
        first == when = "first"
    IN  CASE ~s.subs[i].active -> s
          [] topic = "clock" -> Send(s, first)
          [] topic \in Motor -> PublishMotors(s, {topic}, now, first)
          [] topic = "motors" -> PublishMotors(s, Motor, now, first)
          [] topic = "all" ->
                PublishMotors(Send(s, first), Motor, now, when = "second")
          [] topic = "unknown" -> SubReset(Send(s, first), i)

-----------------------------------------------------------------------------
(* rpcRecvWriteCassette.                                                   *)

OpenCassette(s, c, succeeds) ==
    IF s.cassette # "none" THEN s
    ELSE [s EXCEPT !.cassette = IF succeeds THEN c ELSE "none",
                   !.fp = succeeds,
                   !.oldFp = FALSE,
                   !.files = IF succeeds THEN @ + 1 ELSE @]

CloseCassette(s, c) ==
    IF s.cassette # c THEN s
    ELSE [s EXCEPT !.cassette = "none", !.fp = FALSE, !.files = @ - 1]

\* The file is closed if it cannot be flushed.
WriteCassette(s, c, succeeds) ==
    IF s.cassette # c \/ succeeds THEN s
    ELSE [s EXCEPT !.cassette = "none", !.fp = FALSE, !.files = @ - 1]

-----------------------------------------------------------------------------
(* rpcRecv.                                                                *)

\* An INFO is the address of the host.  Any other INFO, DATA, and a WRITE that
\* is not well formed have the effect of a PONG: none but on the heartbeat.
Message ==
    [op : {"PING", "INFO", "PONG", "UNKNOWN"}]
    \cup [op : {"READ"}, topic : Motor \cup {"motors", "other"}]
    \cup [op : {"WRITE"}, motor : Motor, value : Value]
    \cup [op : {"WRITE_OTHER"}]
    \cup [op : {"OPEN", "CLOSE", "APPEND"}, cassette : Cassette]
    \cup [op : {"SUBSCRIBE"}, req_id : ReqId, topic : Topic]
    \cup [op : {"UNSUBSCRIBE"}, req_id : ReqId]

\* rpcRecvRead.  A read of a motor refreshes the shared cache; the others
\* (subscriptions, clock, cassettes, unknown topics) only answer.
RecvRead(s, topic, now, expires) ==
    CASE topic \in Motor -> SendMotors(s, {topic}, now, expires)
      [] topic = "motors" -> SendMotors(s, Motor, now, expires)
      [] topic = "other" -> Send(s, expires)

Handled(s, msg, now, succeeds, expires) ==
    CASE msg.op = "PING" -> Send(s, expires)
      [] msg.op = "INFO" -> [s EXCEPT !.ipv4 = TRUE]
      [] msg.op = "READ" -> RecvRead(s, msg.topic, now, expires)
      [] msg.op = "WRITE_OTHER" -> Send(s, expires)
      [] msg.op = "OPEN" -> OpenCassette(s, msg.cassette, succeeds)
      [] msg.op = "CLOSE" -> CloseCassette(s, msg.cassette)
      [] msg.op = "APPEND" -> WriteCassette(s, msg.cassette, succeeds)
      [] msg.op = "SUBSCRIBE" ->
            RecvSubscribe(s, msg.req_id, msg.topic, expires)
      [] msg.op = "UNSUBSCRIBE" -> RecvUnsubscribe(s, msg.req_id, expires)
      [] OTHER -> s

\* Every message that can be read renews the heartbeat, after it is handled.
Recv(s, msg, now, succeeds, expires) ==
    IF msg.op = "UNKNOWN" THEN s
    ELSE [Handled(s, msg, now, succeeds, expires) EXCEPT !.expired = FALSE]

\* rpcRecvWriteMotor.
MotorsAfter(msg, now) ==
    IF msg.op = "WRITE" THEN [now EXCEPT ![msg.motor] = msg.value] ELSE now
=============================================================================
