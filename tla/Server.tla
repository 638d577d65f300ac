------------------------------- MODULE Server -------------------------------
(***************************************************************************)
(* The server task (server.c) with the remote procedure calls on one side  *)
(* of the link and a host on the other.  The host runs the same framing    *)
(* protocol and starts every handshake.                                    *)
(*                                                                         *)
(* The line is a pair of queues of frames here: SfpTransfer and SfpLink    *)
(* are about what it loses.  Of the frames to the host only those that     *)
(* answer a handshake or refuse a frame are kept; what the host answers to *)
(* data is HostReminds.  An action of the task is one frame delivered, one *)
(* subscription published, or one check: all it does before it next looks  *)
(* at anything that another task may have changed.                         *)
(***************************************************************************)
EXTENDS Rpc, Sequences

CONSTANTS
    MaxMessages,    \* bound: messages of the host, pings apart, and changes
                    \* of motors by other tasks
    MaxUpsets,      \* bound: departures of the host, hasty handshakes, and
                    \* heartbeats that expire although the host is alive
    MaxLine         \* bound: frames on their way to the robot

ASSUME ServerAssumption == MaxMessages \in Nat /\ MaxUpsets \in Nat /\ MaxLine \in Nat

VARIABLES
    server,     \* server_t
    batch,      \* frames read but not yet delivered
    pc,         \* where the task is
    slot,       \* the subscription to be published next
    motors,     \* what motorGet returns
    host,       \* connectState of the host, or "GONE"
    toRobot,    \* frames on their way to the robot
    toHost,     \* frames on their way to the host
    stained,    \* whether rpcLoop was interrupted by the last reset
    messages, upsets

budget == <<messages, upsets>>
task == <<server, batch, pc, slot, stained>>
vars == <<task, motors, host, toRobot, toHost, budget>>

Syn(seq) == [type |-> seq]
Data(msg) == [type |-> "USR", msg |-> msg]

HostFrame ==
    [type : {"SYN0", "SYN2", "DIS", "NAK"}] \cup [type : {"USR"}, msg : Message]

\* serverInit has run and the task has begun.
Init ==
    /\ server = InitialServer
    /\ batch = <<>>
    /\ pc = "asleep" /\ slot = 1
    /\ motors = Still
    /\ host = "DISCONNECTED"
    /\ toRobot = <<>> /\ toHost = <<>>
    /\ stained = FALSE
    /\ messages = 0 /\ upsets = 0

-----------------------------------------------------------------------------
(* The server task.                                                        *)

\* Whether the heartbeat may expire during a write.
MayExpire(expires) ==
    /\ expires => upsets < MaxUpsets
    /\ upsets' = IF expires THEN upsets + 1 ELSE upsets
    /\ UNCHANGED messages

\* A step takes the server to s.
Steps(s) ==
    /\ server' = s
    /\ stained' = IF server.state = "Connected" /\ s.state = "Disconnected"
                  THEN pc = "publishing" ELSE stained

\* Everything that has arrived is read, up to a buffer full: the rest of it
\* arrives later.
Read ==
    /\ pc = "asleep"
    /\ pc' = "delivering"
    /\ \E n \in (IF toRobot = <<>> THEN {0} ELSE 1 .. Len(toRobot)) :
          /\ batch' = SubSeq(toRobot, 1, n)
          /\ toRobot' = SubSeq(toRobot, n + 1, Len(toRobot))
    /\ UNCHANGED <<server, stained, slot, motors, host, toHost, budget>>

Delivers(types) ==
    /\ pc = "delivering"
    /\ batch # <<>> /\ Head(batch).type \in types
    /\ batch' = Tail(batch)
    /\ UNCHANGED <<pc, slot, host, toRobot>>

\* Writes a frame of type seq, then connectState becomes sfp.
Answers(seq, expires, sfp) ==
    /\ MayExpire(expires)
    /\ Steps([Wrote(server, expires) EXCEPT !.sfp = sfp])
    /\ toHost' = Append(toHost, Syn(seq))
    /\ UNCHANGED motors

\* sfpHandleSYN0: connectState is assigned after the write.
DeliverSYN0(expires) ==
    /\ Delivers({"SYN0"})
    /\ Answers("SYN1", expires, "SENT_SYN1")

\* Faulty variant: a server that is not connected ignores the frame.
RefuseSilently(expires) ==
    /\ \/ Delivers({"USR", "NAK"}) /\ server.sfp # "CONNECTED"
       \/ Delivers({"SYN2"}) /\ server.sfp = "DISCONNECTED"
    /\ LET s == Wrote(server, expires)
       IN  IF server.sfp = "SENT_SYN1"
           THEN /\ MayExpire(expires)
                /\ Steps(s)
                /\ toHost' = Append(toHost, Syn("SYN1"))
           ELSE UNCHANGED <<server, stained, toHost, budget>>
    /\ UNCHANGED motors

\* What every state but CONNECTED answers to a frame it does not expect.
Refuse(expires) ==
    /\ \/ Delivers({"USR", "NAK"}) /\ server.sfp # "CONNECTED"
       \/ Delivers({"SYN2"}) /\ server.sfp = "DISCONNECTED"
    /\ LET s == Wrote(server, expires)
       IN  /\ MayExpire(expires)
           /\ Steps(s)
           /\ toHost' = Append(toHost, Syn(IF server.sfp = "SENT_SYN1"
                                           THEN "SYN1" ELSE "DIS"))
           /\ UNCHANGED motors

\* sfpHandleSYN2 at the end of a handshake: nothing was written since SYN0.
DeliverSYN2 ==
    /\ Delivers({"SYN2"})
    /\ server.sfp = "SENT_SYN1"
    /\ Steps([server EXCEPT
                 !.sfp = "CONNECTED",
                 !.told = Still,
                 !.accepted = {},
                 !.oldSubs = {i \in Slot : server.subs[i].active},
                 !.oldFp = server.fp,
                 !.unseen = server.state = "Connected"])
    /\ UNCHANGED <<motors, toHost, budget>>

\* sfpHandleSYN2 and sfpHandleNAK on a link that is connected: the history is
\* sent again, if there is any.
Retransmit(some, expires) ==
    /\ Delivers({"SYN2", "NAK"})
    /\ server.sfp = "CONNECTED"
    /\ expires => some
    /\ MayExpire(expires)
    /\ LET s == IF some THEN Wrote(server, expires) ELSE server
       IN  Steps(IF Head(batch).type = "SYN2"
                 THEN [s EXCEPT !.sfp = "CONNECTED"] ELSE s)
    /\ UNCHANGED <<motors, toHost>>

DeliverDIS ==
    /\ Delivers({"DIS"})
    /\ Steps([server EXCEPT !.sfp = "DISCONNECTED"])
    /\ UNCHANGED <<motors, toHost, budget>>

\* serverRead: the message is handled, then the connection is checked.
DeliverUSR(succeeds, expires) ==
    /\ Delivers({"USR"})
    /\ server.sfp = "CONNECTED"
    /\ MayExpire(expires)
    /\ LET msg == Head(batch).msg
       IN  /\ Steps(Checked(Recv(server, msg, motors, succeeds, expires)))
           /\ motors' = MotorsAfter(msg, motors)
    /\ UNCHANGED toHost

\* The buffer is empty: the connection is checked, and rpcLoop called if there
\* is one, which publishes if it is time.
AfterDelivery ==
    /\ pc = "delivering" /\ batch = <<>>
    /\ Steps(Checked(server))
    /\ pc' \in IF server'.state = "Connected"
               THEN {"publishing", "informing", "asleep"} ELSE {"asleep"}
    /\ slot' = 1
    /\ UNCHANGED <<batch, motors, host, toRobot, toHost, budget>>

\* One round of the loop over the subscriptions in rpcLoop.
Publish(when) ==
    /\ pc = "publishing"
    /\ MayExpire(when # "never")
    /\ Steps(Published(server, slot, motors, when))
    /\ slot' = IF slot < RPC_SUB_MAX THEN slot + 1 ELSE 1
    /\ pc' \in IF slot < RPC_SUB_MAX THEN {pc} ELSE {"informing", "asleep"}
    /\ UNCHANGED <<batch, motors, host, toRobot, toHost>>

\* The statistics at the end of rpcLoop.
Inform(expires) ==
    /\ pc = "informing"
    /\ MayExpire(expires)
    /\ Steps(Send(server, expires))
    /\ pc' = "asleep"
    /\ UNCHANGED <<batch, slot, motors, host, toRobot, toHost>>

Task ==
    \/ Read
    \/ \E expires \in BOOLEAN :
          \/ DeliverSYN0(expires)
          \/ Refuse(expires)
          \/ \E some \in BOOLEAN : Retransmit(some, expires)
          \/ \E succeeds \in BOOLEAN : DeliverUSR(succeeds, expires)
          \/ Inform(expires)
    \/ DeliverSYN2
    \/ DeliverDIS
    \/ AfterDelivery
    \/ \E when \in Publication : Publish(when)

\* Five seconds go by without a message.
Expire ==
    /\ server.state = "Connected" /\ ~server.expired
    /\ host = "GONE" \/ upsets < MaxUpsets
    /\ server' = [server EXCEPT !.expired = TRUE]
    /\ upsets' = IF host = "GONE" THEN upsets ELSE upsets + 1
    /\ UNCHANGED <<batch, pc, slot, stained, motors, host, toRobot, toHost,
                   messages>>

\* Another task sets a motor.
Move(m, value) ==
    /\ messages < MaxMessages
    /\ messages' = messages + 1
    /\ motors' = [motors EXCEPT ![m] = value]
    /\ UNCHANGED <<task, host, toRobot, toHost, upsets>>

-----------------------------------------------------------------------------
(* The host.                                                               *)

HostSends(frame) ==
    /\ Len(toRobot) < MaxLine
    /\ toRobot' = Append(toRobot, frame)
    /\ UNCHANGED <<task, motors>>

Quiet == toRobot = <<>> /\ batch = <<>> /\ toHost = <<>>

\* sfpConnect, when nothing more is to come.
HostConnects ==
    /\ host = "DISCONNECTED" /\ Quiet
    /\ host' = "SENT_SYN0"
    /\ HostSends(Syn("SYN0"))
    /\ UNCHANGED <<toHost, messages, upsets>>

\* sfpConnect at any time, also by a host that has just restarted.
HostConnectsHastily ==
    /\ host # "GONE"
    /\ upsets < MaxUpsets
    /\ upsets' = upsets + 1
    /\ host' = "SENT_SYN0"
    /\ HostSends(Syn("SYN0"))
    /\ UNCHANGED <<toHost, messages>>

\* The host leaves for good, without a word.
HostLeaves ==
    /\ host # "GONE"
    /\ upsets < MaxUpsets
    /\ upsets' = upsets + 1
    /\ host' = "GONE"
    /\ UNCHANGED <<task, motors, toRobot, toHost, messages>>

HostReceives(type) ==
    /\ host # "GONE"
    /\ toHost # <<>> /\ Head(toHost).type = type
    /\ toHost' = Tail(toHost)
    /\ UNCHANGED <<messages, upsets>>

HostReceivesSYN1 ==
    /\ HostReceives("SYN1")
    /\ HostSends(Syn(IF host = "DISCONNECTED" THEN "DIS" ELSE "SYN2"))
    /\ host' = IF host = "DISCONNECTED" THEN host ELSE "CONNECTED"

HostReceivesDIS ==
    /\ HostReceives("DIS")
    /\ host' = "DISCONNECTED"
    /\ UNCHANGED <<task, motors, toRobot>>

\* The heartbeat.
HostPings ==
    /\ host = "CONNECTED" /\ Quiet
    /\ HostSends(Data([op |-> "PING"]))
    /\ UNCHANGED <<host, toHost, messages, upsets>>

HostRequests(msg) ==
    /\ host = "CONNECTED"
    /\ messages < MaxMessages
    /\ messages' = messages + 1
    /\ HostSends(Data(msg))
    /\ UNCHANGED <<host, toHost, upsets>>

\* Data of a robot that is connected: a host that is not says so, one that is
\* connecting repeats itself, and one that is connected may ask for more.
HostReminds ==
    /\ server.sfp = "CONNECTED" /\ toRobot = <<>> /\ host # "GONE"
    /\ messages < MaxMessages
    /\ messages' = messages + 1
    /\ HostSends(Syn(CASE host = "DISCONNECTED" -> "DIS"
                       [] host = "SENT_SYN0" -> "SYN0"
                       [] host = "CONNECTED" -> "NAK"))
    /\ UNCHANGED <<host, toHost, upsets>>

Next ==
    \/ Task
    \/ Expire
    \/ \E m \in Motor, value \in Value : Move(m, value)
    \/ HostConnects \/ HostConnectsHastily \/ HostLeaves
    \/ HostReceivesSYN1 \/ HostReceivesDIS
    \/ HostPings \/ HostReminds
    \/ \E msg \in Message : HostRequests(msg)

Spec == Init /\ [][Next]_vars

\* The task goes round for ever, frames arrive, the host tries again and sends
\* its heartbeat, and five seconds pass.
FairSpec ==
    /\ Spec
    /\ WF_vars(Task)
    /\ WF_vars(HostReceivesSYN1) /\ WF_vars(HostReceivesDIS)
    /\ WF_vars(HostConnects) /\ WF_vars(HostPings)
    /\ WF_vars(host = "GONE" /\ Expire)

-----------------------------------------------------------------------------
ServerType ==
    [ state : {"Connected", "Disconnected"},
      sfp : {"DISCONNECTED", "SENT_SYN1", "CONNECTED"},
      subs : [Slot -> [active : {TRUE}, req_id : ReqId, topic : Topic]
                          \cup {FreeSlot}],
      motor : [Motor -> Value],
      ipv4 : BOOLEAN,
      cassette : Cassette \cup {"none"},
      fp : BOOLEAN,
      expired : BOOLEAN,
      told : [Motor -> Value],
      accepted : SUBSET ReqId,
      files : Nat,
      oldSubs : SUBSET Slot,
      oldFp : BOOLEAN,
      unseen : BOOLEAN ]

TypeOK ==
    /\ server \in ServerType
    /\ batch \in Seq(HostFrame)
    /\ pc \in {"asleep", "delivering", "publishing", "informing"}
    /\ slot \in Slot
    /\ motors \in [Motor -> Value]
    /\ host \in {"DISCONNECTED", "SENT_SYN0", "CONNECTED", "GONE"}
    /\ toRobot \in Seq(HostFrame) /\ Len(toRobot) <= MaxLine
    /\ toHost \in Seq([type : {"SYN1", "DIS"}])
    /\ stained \in BOOLEAN
    /\ messages \in 0 .. MaxMessages /\ upsets \in 0 .. MaxUpsets

\* A cassette is open exactly if it is the one the server knows of: requests,
\* resets and new connections, in any order, neither lose an open file nor
\* write to a closed one.
OneFile ==
    /\ server.files = IF server.fp THEN 1 ELSE 0
    /\ server.fp <=> server.cassette # "none"

\* What the shared cache hides from the host is what the host was told on this
\* connection, unless the reset before it came in the middle of rpcLoop, or
\* there was none.
NothingHidden ==
    server.state = "Connected" /\ ~stained /\ ~server.unseen
        => server.motor = server.told

\* No subscription accepted before the handshake of this connection is active
\* on it, and no file opened before is still open, if the server has noticed
\* that the earlier connection was lost: serverReset leaves both, and whatever
\* the host does until serverCheckConnection finds the link connected again,
\* nothing of them reaches the next session.
NothingInherited ==
    server.state = "Connected" /\ ~server.unseen =>
        /\ \A i \in server.oldSubs : ~server.subs[i].active
        /\ ~(server.oldFp /\ server.fp)

\* A subscription accepted by a connected server is active as long as the
\* connection, unless it was cancelled or refused.
AcceptedIsActive ==
    \A id \in server.accepted : SubsWith(server, id) # {}

\* A host that leaves without a word is noticed.
DeparturesNoticed ==
    <>[](host = "GONE" => server.state = "Disconnected")

\* However often it restarts, and whatever state the server is in then, a host
\* that stays gets a connection and keeps it.
HostGetsThrough ==
    <>[](host # "GONE" => /\ host = "CONNECTED"
                          /\ server.sfp = "CONNECTED"
                          /\ server.state = "Connected")
=============================================================================
