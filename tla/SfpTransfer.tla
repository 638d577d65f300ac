---------------------------- MODULE SfpTransfer ----------------------------
(***************************************************************************)
(* Data transfer in one direction of a connected link                      *)
(* (serial_framing_protocol.c): the transmitter numbers its packets and    *)
(* keeps the last of them, the receiver accepts the number it expects and  *)
(* asks with a NAK for anything else.  There are no acknowledgements and   *)
(* no timers.                                                              *)
(*                                                                         *)
(* Both lines deliver in order but may lose or damage a frame.  What the   *)
(* NAK line carries for the other direction, and the NAK a damaged NAK     *)
(* provokes, concern the other direction and are left out.                 *)
(*                                                                         *)
(* Packets are numbered in the order in which they are written; the        *)
(* numbers are payloads the code never looks at.                           *)
(***************************************************************************)
EXTENDS Sfp

CONSTANTS
    Window      \* bound: packets written and not yet delivered

\* A transmitter without acknowledgements can be understood only while fewer
\* packets are outstanding than there are sequence numbers.
ASSUME TransferAssumption == Window \in Nat /\ Window < SEQ_RANGE

VARIABLES
    txSeq,      \* ctx->tx.seq of the transmitter
    history,    \* ctx->tx.history of the transmitter
    rxSeq,      \* ctx->rx.seq of the receiver
    data,       \* frames on their way to the receiver
    naks,       \* frames on their way to the transmitter
    written,    \* packets written so far
    delivered,  \* packets handed to the deliver callback
    resynced    \* the transmitter resynchronised: numbers shifted

vars == <<txSeq, history, rxSeq, data, naks, written, delivered, resynced,
          faults>>

txVars == <<txSeq, history, written, resynced>>
rxVars == <<rxSeq, delivered>>

Packet == 0 .. MaxWritten - 1

Data == [type : {"USR", "RTX"}, seq : SFPseq, packet : Packet] \cup {Bad}

\* "waiting" is the packet the receiver waited for when it sent the NAK; it
\* is not in the frame.
Nak == [type : {"NAK"}, seq : SFPseq, waiting : Nat] \cup {Bad}

ReceiverNak ==
    [type |-> "NAK", seq |-> rxSeq, waiting |-> Len(delivered)]

-----------------------------------------------------------------------------
Init ==
    /\ txSeq = SFP_INITIAL_SEQ
    /\ history = <<>>
    /\ rxSeq = SFP_INITIAL_SEQ
    /\ data = <<>>
    /\ naks = <<>>
    /\ written = 0
    /\ delivered = <<>>
    /\ resynced = FALSE
    /\ faults = 0

\* sfpWritePacket: the packet is remembered, then sent.
WriteUSR ==
    /\ written < MaxWritten
    /\ written - Len(delivered) < Window
    /\ history' = Remember(history, written)
    /\ data' = Append(data, UsrFrame(txSeq, written))
    /\ txSeq' = nextSeq(txSeq)
    /\ written' = written + 1
    /\ UNCHANGED <<rxVars, naks, resynced, faults>>

\* sfpHandleNAK and sfpTransmitHistoryFromSeq: a NAK for the next number is
\* ignored, any other makes the transmitter go back to that number, with the
\* packets that had it and followed it, or with all it has.
AnswerNAK ==
    /\ naks # <<>> /\ Head(naks).type = "NAK"
    /\ naks' = Tail(naks)
    /\ LET seq == Head(naks).seq
           kept == HistoryFrom(history, txSeq, seq)
       IN  IF seq = txSeq
           THEN UNCHANGED <<data, txVars>>
           ELSE /\ history' = kept
                /\ data' = data \o Retransmission(kept, seq)
                /\ txSeq' = SeqAfter(kept, seq)
                /\ resynced' = (resynced \/ ~InHistory(history, txSeq, seq))
                /\ UNCHANGED written
    /\ UNCHANGED <<rxVars, faults>>

DropBadNAK ==
    /\ naks # <<>> /\ Head(naks).type = "BAD"
    /\ naks' = Tail(naks)
    /\ UNCHANGED <<txVars, rxVars, data, faults>>

-----------------------------------------------------------------------------
\* Faulty variant: any user frame is accepted.
AcceptAnySeq ==
    /\ data # <<>> /\ Head(data).type \in {"USR", "RTX"}
    /\ delivered' = Append(delivered, Head(data).packet)
    /\ rxSeq' = nextSeq(rxSeq)
    /\ data' = Tail(data)
    /\ UNCHANGED <<txVars, naks, faults>>

\* sfpHandleUSR, the expected number: the packet is delivered.
Accept ==
    /\ data # <<>> /\ Head(data).type \in {"USR", "RTX"}
    /\ Head(data).seq = rxSeq
    /\ delivered' = Append(delivered, Head(data).packet)
    /\ rxSeq' = nextSeq(rxSeq)
    /\ data' = Tail(data)
    /\ UNCHANGED <<txVars, naks, faults>>

\* Faulty variant: the receiver does not ask for what is missing.
RejectSilently ==
    /\ data # <<>> /\ Head(data).type \in {"USR", "RTX"}
    /\ Head(data).seq # rxSeq
    /\ data' = Tail(data)
    /\ UNCHANGED <<txVars, rxVars, naks, faults>>

\* sfpHandleUSR, another number: a first transmission is answered with a
\* NAK, a retransmission is dropped in silence.
Reject ==
    /\ data # <<>> /\ Head(data).type \in {"USR", "RTX"}
    /\ Head(data).seq # rxSeq
    /\ naks' = IF Head(data).type = "USR" THEN Append(naks, ReceiverNak)
                                          ELSE naks
    /\ data' = Tail(data)
    /\ UNCHANGED <<txVars, rxVars, faults>>

\* sfpHandleFrame on a frame too short or with a bad CRC.
RejectBad ==
    /\ data # <<>> /\ Head(data).type = "BAD"
    /\ naks' = Append(naks, ReceiverNak)
    /\ data' = Tail(data)
    /\ UNCHANGED <<txVars, rxVars, faults>>

-----------------------------------------------------------------------------
(* The lines.  A frame that is lost or damaged on the way makes the same   *)
(* difference as one that is lost or damaged on arrival.                   *)

LoseFrame ==
    /\ faults < MaxFaults
    /\ faults' = faults + 1
    /\ \/ data # <<>> /\ data' = Tail(data) /\ UNCHANGED naks
       \/ naks # <<>> /\ naks' = Tail(naks) /\ UNCHANGED data
    /\ UNCHANGED <<txVars, rxVars>>

DamageFrame ==
    /\ faults < MaxFaults
    /\ faults' = faults + 1
    /\ \E debris \in Debris :
          \/ data # <<>> /\ data' = debris \o Tail(data) /\ UNCHANGED naks
          \/ naks # <<>> /\ naks' = debris \o Tail(naks) /\ UNCHANGED data
    /\ UNCHANGED <<txVars, rxVars>>

Transmitter == WriteUSR \/ AnswerNAK \/ DropBadNAK

Receiver == Accept \/ Reject \/ RejectBad

Next == Transmitter \/ Receiver \/ LoseFrame \/ DamageFrame

Spec == Init /\ [][Next]_vars

\* The tasks at both ends poll their line for ever.
FairSpec ==
    /\ Spec
    /\ WF_vars(AnswerNAK \/ DropBadNAK)
    /\ WF_vars(Receiver)

-----------------------------------------------------------------------------
TypeOK ==
    /\ txSeq \in SFPseq
    /\ history \in Seq(Packet) /\ Len(history) <= HISTORY_CAPACITY
    /\ rxSeq \in SFPseq
    /\ data \in Seq(Data)
    /\ naks \in Seq(Nak)
    /\ written \in 0 .. MaxWritten
    /\ delivered \in Seq(Packet)
    /\ resynced \in BOOLEAN
    /\ faults \in 0 .. MaxFaults

\* Until the transmitter resynchronises, the receiver has been given the
\* packets in the order they were written, none twice and none left out:
\* no frame that is old, repeated or behind a lost one is taken for the
\* expected one although the sequence numbers wrap.
DeliveredInOrder ==
    ~resynced => \A i \in 1 .. Len(delivered) : delivered[i] = i - 1

\* The transmitter resynchronises (forgets which packet had which number)
\* only if the packet the NAK asked for really has left the history: the
\* wrapping subtraction in sfpTransmitHistoryFromSeq never misses a packet
\* that is still there.
ResyncOnlyIfForgotten ==
    [][~resynced /\ resynced' =>
          Head(naks).waiting < written - Len(history)]_vars

\* sfpTransmitHistoryFromSeq says that it resynchronises "even if we lost
\* frames" (serial_framing_protocol.c:449): that it does so only when the
\* packet the receiver still needs is gone.
ResyncOnlyAfterLoss ==
    [][~resynced /\ resynced' => Head(naks).waiting >= Len(delivered)]_vars

Stream == INSTANCE ReliableStream

\* One direction of the link is the stream it promises to be.
ImplementsReliableStream == Stream!Spec

\* If no fault is left to happen and the frame of the last packet written is
\* still on its way for the first time, every packet is delivered: the
\* receiver notices what is missing when that frame arrives, and the NAKs
\* and retransmissions that follow are enough although no timer runs.
LastFrameComing ==
    /\ faults = MaxFaults
    /\ written = MaxWritten
    /\ \E i \in 1 .. Len(data) :
          data[i].type = "USR" /\ data[i].packet = MaxWritten - 1

AllDelivered == Len(delivered) = MaxWritten

CatchesUp == LastFrameComing ~> (AllDelivered \/ resynced)
=============================================================================
