-------------------------------- MODULE Sfp --------------------------------
(***************************************************************************)
(* Sequence numbers and the transmit history of the serial framing         *)
(* protocol (serial_framing_protocol.c): the arithmetic shared by the      *)
(* specification of data transfer (SfpTransfer) and that of a whole link   *)
(* (SfpLink).                                                              *)
(*                                                                         *)
(* A frame is a record.  A damaged frame, one that arrives too short or    *)
(* with a bad CRC, is Bad whatever it was.  The history is the queue of    *)
(* HistoryQueue, which PotRingbuffer implements.                           *)
(***************************************************************************)
EXTENDS Integers, Sequences

CONSTANTS
    SEQ_RANGE,          \* SFP_SEQ_RANGE: sequence numbers are modulo this
    HISTORY_CAPACITY,   \* SFP_CONFIG_HISTORY_CAPACITY
    MaxWritten,         \* bound: packets an endpoint writes
    MaxFaults           \* bound: frames lost or damaged

ASSUME SfpAssumption ==
    /\ SEQ_RANGE \in Nat
    /\ HISTORY_CAPACITY \in Nat \ {0}
    /\ HISTORY_CAPACITY < SEQ_RANGE
    /\ MaxWritten \in Nat
    /\ MaxFaults \in Nat

VARIABLE faults         \* frames lost or damaged so far

SFPseq == 0 .. SEQ_RANGE - 1

SFP_INITIAL_SEQ == 0

nextSeq(seq) == (seq + 1) % SEQ_RANGE

-----------------------------------------------------------------------------
(* Frames.                                                                 *)

UsrFrame(seq, packet) == [type |-> "USR", seq |-> seq, packet |-> packet]

RtxFrame(seq, packet) == [type |-> "RTX", seq |-> seq, packet |-> packet]

NakFrame(seq) == [type |-> "NAK", seq |-> seq]

SynFrame(code) == [type |-> code]   \* SYN0, SYN1, SYN2 or DIS

Bad == [type |-> "BAD"]

\* What a damaged frame may be to the receiver: an octet that turns into a
\* FLAG cuts it in two (SfpFraming).
Debris == {<<Bad>>, <<Bad, Bad>>}

-----------------------------------------------------------------------------
(* The history of the transmitter.                                         *)

\* potRingbufferPushBack: a full history forgets its oldest packet.
Remember(history, packet) ==
    Append(IF Len(history) = HISTORY_CAPACITY THEN Tail(history) ELSE history,
           packet)

\* Faulty variant: one too many.
fastforwardOneMore(history, txSeq, seq) ==
    (seq - (txSeq - Len(history)) + 1) % SEQ_RANGE

\* How many of the oldest packets precede the one numbered seq, if the
\* transmitter is about to use txSeq.  The subtraction wraps.
fastforward(history, txSeq, seq) ==
    (seq - (txSeq - Len(history))) % SEQ_RANGE

\* The packet numbered seq is still in the history.
InHistory(history, txSeq, seq) ==
    Len(history) > fastforward(history, txSeq, seq)

\* Faulty variant: nothing is dropped to get to seq.
HistoryFromOldest(history, txSeq, seq) == history

\* sfpTransmitHistoryFromSeq leaves the history from seq on, or all of it
\* when the packet numbered seq is not there ...
HistoryFrom(history, txSeq, seq) ==
    IF InHistory(history, txSeq, seq)
    THEN SubSeq(history, fastforward(history, txSeq, seq) + 1, Len(history))
    ELSE history

\* ... sends it with consecutive numbers from seq on ...
Retransmission(history, seq) ==
    [i \in 1 .. Len(history) |->
        RtxFrame((seq + (i - 1)) % SEQ_RANGE, history[i])]

\* ... and goes on with the number after the last.
SeqAfter(history, seq) == (seq + Len(history)) % SEQ_RANGE
=============================================================================
