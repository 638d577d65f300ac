------------------------------ MODULE SfpLink ------------------------------
(***************************************************************************)
(* Two endpoints of the serial framing protocol: the three-way handshake,  *)
(* data in both directions and recovery, over lines that lose and damage   *)
(* frames, with endpoints that are reset.  serial_framing_protocol.c is    *)
(* the code of both ends; only the host calls sfpConnect, the robot        *)
(* (server.c) answers.                                                     *)
(*                                                                         *)
(* A handler runs to its end before the next octet is read: each is one    *)
(* action, with every frame it sends.  serverWrite, which the robot's end  *)
(* calls for every frame, may reset that end; the handler then goes on     *)
(* with what is left of it.                                                *)
(***************************************************************************)
EXTENDS Sfp

CONSTANT
    MaxUpsets   \* bound: sfpInit on a running endpoint, and handshakes started
                \* while frames are on their way

Endpoint == {"host", "robot"}

Peer(e) == IF e = "host" THEN "robot" ELSE "host"

VARIABLES
    ep,         \* the SFPcontext of each endpoint
    line,       \* the frames on their way to each endpoint
    unwinding,  \* the robot was reset in a write, and what called for it is
                \* not over: rpcLoop, or a reply of several packets
    upsets,
    rough       \* for the properties: what has happened that the protocol is not
                \* made for: see below

budget == <<faults, upsets>>

linkVars == <<ep, line, unwinding, budget, rough>>

(***************************************************************************)
(* Besides the state of the code, an endpoint remembers what its streams   *)
(* did.  A session of a transmitter ends when its sequence number and      *)
(* history are cleared; a packet is named by the session it was written in *)
(* and its place there.                                                    *)
(***************************************************************************)
SFPstate == {"DISCONNECTED", "SENT_SYN0", "SENT_SYN1", "CONNECTED"}

InitialEndpoint ==
    [ state     |-> "DISCONNECTED",
      txSeq     |-> SFP_INITIAL_SEQ,
      history   |-> <<>>,
      rxSeq     |-> SFP_INITIAL_SEQ,
      session   |-> 0,      \* sessions this transmitter has ended
      place     |-> 0,      \* packets written in this session
      resynced  |-> {},     \* sessions in which the numbers were shifted
      delivered |-> <<>> ]  \* packets handed to the deliver callback

LinkInit ==
    /\ ep = [e \in Endpoint |-> InitialEndpoint]
    /\ line = [e \in Endpoint |-> <<>>]
    /\ unwinding = FALSE
    /\ faults = 0
    /\ upsets = 0
    /\ rough = {}

-----------------------------------------------------------------------------
(* What the handlers do to an endpoint p.                                  *)

\* Faulty variant: the receiver keeps its sequence number.
RestartedKeepsRx(p, state) ==
    [p EXCEPT !.state = state,
              !.txSeq = SFP_INITIAL_SEQ,
              !.history = <<>>,
              !.session = @ + 1,
              !.place = 0]

\* Both sequence numbers restart and the history is cleared.
Restarted(p, state) ==
    [p EXCEPT !.state = state,
              !.txSeq = SFP_INITIAL_SEQ,
              !.rxSeq = SFP_INITIAL_SEQ,
              !.history = <<>>,
              !.session = @ + 1,
              !.place = 0]

\* sfpTransmitHistoryFromSeq: what is left of p, and what it sends.
Rewound(p, seq) ==
    LET kept == HistoryFrom(p.history, p.txSeq, seq)
    IN  [p EXCEPT !.history = kept,
                  !.txSeq = SeqAfter(kept, seq),
                  !.resynced = IF InHistory(p.history, p.txSeq, seq)
                               THEN @ ELSE @ \cup {p.session}]

Resent(p, seq) == Retransmission(HistoryFrom(p.history, p.txSeq, seq), seq)

\* Completing a handshake sends again what was written in the session.
Connected(p) ==
    [(IF p.txSeq = SFP_INITIAL_SEQ THEN p ELSE Rewound(p, SFP_INITIAL_SEQ))
        EXCEPT !.state = "CONNECTED"]

ResentOnConnecting(p) ==
    IF p.txSeq = SFP_INITIAL_SEQ THEN <<>> ELSE Resent(p, SFP_INITIAL_SEQ)

\* What an endpoint that is not connected answers to data and to NAKs.
Reminder(p) ==
    SynFrame(CASE p.state = "DISCONNECTED" -> "DIS"
               [] p.state = "SENT_SYN0"    -> "SYN0"
               [] p.state = "SENT_SYN1"    -> "SYN1")

\* The heartbeat's packet; nothing else is written in session 0, which ends
\* before an endpoint can be connected.
PingPacket == [session |-> 0, place |-> 0]

NextPacket(p) == [session |-> p.session, place |-> p.place]

\* sfpTransmitUSR.
Wrote(p) ==
    [p EXCEPT !.history = Remember(@, NextPacket(p)),
              !.txSeq = nextSeq(@),
              !.place = @ + 1]

(***************************************************************************)
(* sfpInit in the midst of a handler of the robot.  A frame whose write    *)
(* made the reset is counted after it, so that tx.seq is one ahead of a    *)
(* history that is empty; and so is the packet under whose delivery the    *)
(* reset came (rx is 1 then).  The receiver has agreed to no number of     *)
(* what the transmitter sends from here to the next handshake.             *)
(***************************************************************************)
Interrupted(p, tx, rx) ==
    [Restarted(p, "DISCONNECTED")
        EXCEPT !.txSeq = tx % SEQ_RANGE,
               !.rxSeq = rx,
               !.resynced = @ \cup {p.session + 1}]

EitherCount == {SFP_INITIAL_SEQ, nextSeq(SFP_INITIAL_SEQ)}

\* sfpTransmitHistory interrupted after some of its frames: it goes on to the
\* count it began with, and sends what the slots of the ring hold.  Whatever
\* that is, an earlier packet or nothing, is taken for one of no session.
ResentWithBreak(p, seq, some) ==
    LET junk == [session |-> p.session + 1, place |-> 0]
    IN  [i \in DOMAIN Resent(p, seq) |->
            IF i <= some THEN Resent(p, seq)[i]
            ELSE RtxFrame((i - some) % SEQ_RANGE, junk)]

AfterBreak(p, seq, some) ==
    Interrupted(Rewound(p, seq), Len(Resent(p, seq)) - some + 1,
                SFP_INITIAL_SEQ)

\* Its receiver does not begin where p began.
Shifted(p) == [p EXCEPT !.resynced = @ \cup 0 .. p.session]

-----------------------------------------------------------------------------
(***************************************************************************)
(* What the protocol is not made for, and the code does nothing against:   *)
(*   haste  the host makes an attempt to connect without waiting for the   *)
(*          frames of the one before;                                      *)
(*   burst  a packet is written a lap of numbers ahead of what the         *)
(*          receiver expects;                                              *)
(*   deaf   so is a heartbeat, which waits for the frames under way.       *)
(***************************************************************************)

\* Frames on their way to e may yet be accepted there.
Listens(e) ==
    \/ ep[e].state \in {"SENT_SYN1", "CONNECTED"}
    \/ \E i \in DOMAIN line[e] : line[e][i].type = "SYN0"

\* One more packet of e, not its first, and as many are outstanding as there
\* are numbers.
LapAhead(e) ==
    /\ nextSeq(ep[e].txSeq) = ep[Peer(e)].rxSeq
    /\ ep[e].history # <<>>
    /\ ep[e].session \notin ep[e].resynced
    /\ Listens(Peer(e))

-----------------------------------------------------------------------------
(* Calls from the application.                                             *)

Send(e, frame) == line' = [line EXCEPT ![Peer(e)] = Append(@, frame)]

\* sfpConnect.
StartHandshake ==
    /\ ep' = [ep EXCEPT !["host"] = Restarted(@, "SENT_SYN0")]
    /\ Send("host", SynFrame("SYN0"))
    /\ UNCHANGED <<unwinding, faults>>

\* The host tries again when an attempt has come to nothing, after a time in
\* which all frames have arrived.
Connect ==
    /\ ep["host"].state # "CONNECTED"
    /\ \A e \in Endpoint : line[e] = <<>>
    /\ StartHandshake
    /\ UNCHANGED <<upsets, rough>>

\* The host starts again without waiting, connected or not.
ConnectHastily ==
    /\ upsets < MaxUpsets
    /\ upsets' = upsets + 1
    /\ rough' = rough \cup {"haste"}
    /\ StartHandshake

\* The bound on the packets of the sessions under way.
MayWrite == ep["host"].place + ep["robot"].place < MaxWritten

Transmit(e, packet, lap) ==
    /\ Send(e, UsrFrame(ep[e].txSeq, packet))
    /\ rough' = IF LapAhead(e) THEN rough \cup {lap} ELSE rough

\* sfpWritePacket, which does not look at the state.  Both applications begin
\* to write when they are connected; the robot also writes what is left after
\* a reset in a write.
WritePacket(e) ==
    /\ \/ ep[e].state = "CONNECTED"
       \/ e = "robot" /\ unwinding
    /\ MayWrite
    /\ ep' = [ep EXCEPT ![e] = Wrote(@)]
    /\ Transmit(e, NextPacket(ep[e]), "burst")
    /\ UNCHANGED <<unwinding, budget>>

\* The check at the end of serverWrite resets the robot under sfpWritePacket.
WriteInterrupted ==
    /\ ep["robot"].state = "CONNECTED"
    /\ MayWrite
    /\ upsets < MaxUpsets
    /\ upsets' = upsets + 1
    /\ \E rx \in EitherCount :
          ep' = [ep EXCEPT !["robot"] = Interrupted(Wrote(@), 1, rx)]
    /\ Transmit("robot", NextPacket(ep["robot"]), "burst")
    /\ unwinding' = TRUE
    /\ UNCHANGED faults

\* The host's heartbeat: it goes on for ever, and slowly.
Ping ==
    /\ ep["host"].state = "CONNECTED"
    /\ \A e \in Endpoint : line[e] = <<>>
    /\ ep' = [ep EXCEPT !["host"].history = Remember(@, PingPacket),
                        !["host"].txSeq = nextSeq(@)]
    /\ Transmit("host", PingPacket, "deaf")
    /\ UNCHANGED <<unwinding, budget>>

\* sfpInit on an endpoint in use: a host that starts again, or serverReset
\* after the last write of a handler, or in the check after it.
Reset(e) ==
    /\ upsets < MaxUpsets
    /\ upsets' = upsets + 1
    /\ \E rx \in IF e = "robot" /\ ep[e].state = "CONNECTED"
                 THEN EitherCount ELSE {SFP_INITIAL_SEQ} :
          ep' = [ep EXCEPT ![e] = [Restarted(@, "DISCONNECTED")
                                      EXCEPT !.rxSeq = rx]]
    /\ unwinding' = (unwinding /\ e # "robot")
    /\ UNCHANGED <<line, faults, rough>>

-----------------------------------------------------------------------------
(* Frames that arrive at e.                                                *)

Arrives(e, types) == line[e] # <<>> /\ Head(line[e]).type \in types

\* What called for a write has returned when the next frame is read.
Replies(e, frames) ==
    /\ line' = [line EXCEPT ![e] = Tail(@), ![Peer(e)] = @ \o frames]
    /\ unwinding' = (unwinding /\ e # "robot")
    /\ UNCHANGED <<faults, rough>>

Answer(e, frames) == Replies(e, frames) /\ UNCHANGED upsets

\* sfpHandleFrame on a frame too short or with a bad CRC: in every state.
HandleBad(e) ==
    /\ Arrives(e, {"BAD"})
    /\ Answer(e, <<NakFrame(ep[e].rxSeq)>>)
    /\ UNCHANGED ep

HandleSYN0(e) ==
    /\ Arrives(e, {"SYN0"})
    /\ ep' = [ep EXCEPT ![e] = Restarted(@, "SENT_SYN1")]
    /\ Answer(e, <<SynFrame("SYN1")>>)

HandleSYN1(e) ==
    /\ Arrives(e, {"SYN1"})
    /\ IF ep[e].state = "DISCONNECTED"
       THEN /\ Answer(e, <<SynFrame("DIS")>>)
            /\ UNCHANGED ep
       ELSE /\ ep' = [ep EXCEPT ![e] = Connected(@)]
            /\ Answer(e, <<SynFrame("SYN2")>> \o ResentOnConnecting(ep[e]))

HandleSYN2(e) ==
    /\ Arrives(e, {"SYN2"})
    /\ IF ep[e].state \in {"DISCONNECTED", "SENT_SYN0"}
       THEN /\ Answer(e, <<Reminder(ep[e])>>)
            /\ UNCHANGED ep
       ELSE /\ ep' = [ep EXCEPT ![e] = Connected(@)]
            /\ Answer(e, ResentOnConnecting(ep[e]))

HandleDIS(e) ==
    /\ Arrives(e, {"DIS"})
    /\ ep' = [ep EXCEPT ![e].state = "DISCONNECTED"]
    /\ Answer(e, <<>>)

HandleNAK(e) ==
    /\ Arrives(e, {"NAK"})
    /\ LET seq == Head(line[e]).seq
       IN  CASE ep[e].state # "CONNECTED" ->
                   Answer(e, <<Reminder(ep[e])>>) /\ UNCHANGED ep
             [] ep[e].state = "CONNECTED" /\ seq = ep[e].txSeq ->
                   Answer(e, <<>>) /\ UNCHANGED ep
             [] OTHER ->
                   /\ ep' = [ep EXCEPT ![e] = Rewound(@, seq)]
                   /\ Answer(e, Resent(ep[e], seq))

\* Faulty variant: an endpoint that is not connected says nothing.
RefuseWithoutReminder(e) ==
    /\ Arrives(e, {"USR", "RTX"})
    /\ \/ /\ ep[e].state # "CONNECTED"
          /\ Answer(e, <<>>)
       \/ /\ ep[e].state = "CONNECTED"
          /\ Head(line[e]).seq # ep[e].rxSeq
          /\ Answer(e, <<NakFrame(ep[e].rxSeq)>>)
    /\ UNCHANGED ep

\* Faulty variant: a frame with another number is dropped in silence.
RefuseWithoutNak(e) ==
    /\ Arrives(e, {"USR", "RTX"})
    /\ \/ /\ ep[e].state # "CONNECTED"
          /\ Answer(e, <<Reminder(ep[e])>>)
       \/ /\ ep[e].state = "CONNECTED"
          /\ Head(line[e]).seq # ep[e].rxSeq
          /\ Answer(e, <<>>)
    /\ UNCHANGED ep

\* sfpHandleUSR when not connected, and with a number that is not expected.
RefuseUSR(e) ==
    /\ Arrives(e, {"USR", "RTX"})
    /\ \/ /\ ep[e].state # "CONNECTED"
          /\ Answer(e, <<Reminder(ep[e])>>)
       \/ /\ ep[e].state = "CONNECTED"
          /\ Head(line[e]).seq # ep[e].rxSeq
          /\ Answer(e, IF Head(line[e]).type = "USR"
                       THEN <<NakFrame(ep[e].rxSeq)>> ELSE <<>>)
    /\ UNCHANGED ep

\* sfpHandleUSR with the number that is expected.
AcceptUSR(e) ==
    /\ Arrives(e, {"USR", "RTX"})
    /\ ep[e].state = "CONNECTED"
    /\ Head(line[e]).seq = ep[e].rxSeq
    /\ LET packet == Head(line[e]).packet
       IN  ep' = [ep EXCEPT ![e].rxSeq = nextSeq(@),
                            ![e].delivered = IF packet = PingPacket THEN @
                                             ELSE Append(@, packet)]
    /\ Answer(e, <<>>)

Receive(e) ==
    \/ HandleBad(e)
    \/ HandleSYN0(e) \/ HandleSYN1(e) \/ HandleSYN2(e) \/ HandleDIS(e)
    \/ HandleNAK(e)
    \/ RefuseUSR(e) \/ AcceptUSR(e)

\* The check at the end of serverWrite resets the robot while it sends its
\* history again.
ResendInterrupted(seq, some) ==
    /\ ep["robot"].state = "CONNECTED"
    /\ ep["robot"].txSeq # seq
    /\ some \in DOMAIN Resent(ep["robot"], seq)
    /\ upsets < MaxUpsets
    /\ upsets' = upsets + 1
    /\ Replies("robot", ResentWithBreak(ep["robot"], seq, some))

HandleNAKInterrupted(some) ==
    /\ Arrives("robot", {"NAK"})
    /\ LET seq == Head(line["robot"]).seq
       IN  /\ ResendInterrupted(seq, some)
           /\ ep' = [ep EXCEPT !["robot"] = AfterBreak(@, seq, some)]

\* connectState is assigned after the reset: the robot is connected, and begins
\* again with the numbers of a host that does not.
HandleSYN2Interrupted(some) ==
    /\ Arrives("robot", {"SYN2"})
    /\ ResendInterrupted(SFP_INITIAL_SEQ, some)
    /\ ep' = [ep EXCEPT
                 !["robot"] = [AfterBreak(@, SFP_INITIAL_SEQ, some)
                                  EXCEPT !.state = "CONNECTED"],
                 !["host"] = Shifted(@)]

-----------------------------------------------------------------------------
(* The lines.                                                              *)

Lose(e) ==
    /\ line[e] # <<>>
    /\ faults < MaxFaults
    /\ faults' = faults + 1
    /\ line' = [line EXCEPT ![e] = Tail(@)]
    /\ UNCHANGED <<ep, unwinding, upsets, rough>>

Damage(e) ==
    /\ line[e] # <<>> /\ Head(line[e]) # Bad
    /\ faults < MaxFaults
    /\ faults' = faults + 1
    /\ \E debris \in Debris : line' = [line EXCEPT ![e] = debris \o Tail(@)]
    /\ UNCHANGED <<ep, unwinding, upsets, rough>>

LinkNext ==
    \/ Connect \/ ConnectHastily \/ Ping
    \/ WriteInterrupted
    \/ \E some \in 1 .. HISTORY_CAPACITY :
          HandleNAKInterrupted(some) \/ HandleSYN2Interrupted(some)
    \/ \E e \in Endpoint :
          \/ WritePacket(e) \/ Reset(e) \/ Receive(e)
          \/ Lose(e) \/ Damage(e)

LinkSpec == LinkInit /\ [][LinkNext]_linkVars

\* The server task polls its line for ever, as the host does; the host sends
\* its heartbeat and tries to connect again and again.
FairLink ==
    /\ LinkSpec
    /\ \A e \in Endpoint : WF_linkVars(Receive(e))
    /\ WF_linkVars(Connect)
    /\ WF_linkVars(Ping)

-----------------------------------------------------------------------------
OfSession(packets, s) == SelectSeq(packets, LAMBDA p : p.session = s)

\* Packet i comes after those of earlier sessions, and after all those of its
\* session with smaller places.
ComesNext(packets, i) ==
    packets[i].place =
        IF i > 1 /\ packets[i - 1].session = packets[i].session
        THEN packets[i - 1].place + 1 ELSE 0

\* In a link that has seen nothing rough, whatever is lost or damaged and whenever
\* an end is reset, also in the midst of a write or a retransmission, a receiver is
\* given the packets of one session after those of another, and those of a
\* session in the order they were written, none twice and none left out, unless
\* its numbers were shifted: by a transmitter that resynchronised in it, or by a
\* reset under a handler that went on sending.  No frame of an earlier session
\* or handshake is taken for one of the session under way.
SessionInOrder ==
    rough = {} =>
        \A e \in Endpoint :
            LET got == ep[e].delivered
            IN  \A i \in DOMAIN got :
                    /\ i > 1 => got[i - 1].session <= got[i].session
                    /\ \/ got[i].session \in ep[Peer(e)].resynced
                       \/ ComesNext(got, i)

\* However a handshake is disturbed, both ends are connected in the end.
EventuallyConnected ==
    <>[](\A e \in Endpoint : ep[e].state = "CONNECTED")

\* The heartbeat reveals what was lost: after the last fault every packet the
\* host wrote in the session that lasts is delivered, unless its numbers were
\* shifted, the host was hasty, a packet was written a lap ahead, or nearly as
\* many frames were lost as there are numbers.
HostHeard ==
    LET host == ep["host"]
    IN  <>[](\/ rough \cap {"haste", "burst"} # {}
             \/ faults >= SEQ_RANGE - 1
             \/ host.session \in host.resynced
             \/ Len(OfSession(ep["robot"].delivered, host.session))
                   = host.place)
=============================================================================
