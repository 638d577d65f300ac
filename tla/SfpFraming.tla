----------------------------- MODULE SfpFraming -----------------------------
(***************************************************************************)
(* Frames as octets (serial_framing_protocol.c): the transmitter escapes   *)
(* reserved octets, appends a CRC and writes through a buffer; the         *)
(* receiver finds the frames again, one octet at a time, on a line that    *)
(* loses and damages octets.                                               *)
(***************************************************************************)
EXTENDS Integers, Sequences

CONSTANTS
    Frame,              \* frames to send: [header, packet], all of octets
    Noise,              \* what a damaged octet may become
    WRITEBUF_SIZE,      \* SFP_CONFIG_WRITEBUF_SIZE
    MAX_PACKET_SIZE,    \* SFP_CONFIG_MAX_PACKET_SIZE
    MaxFrames,          \* bound: frames sent
    MaxFaults           \* bound: octets lost or damaged

Octet == 0 .. 255

SFP_CRC_SIZE == 2

\* The packet buffer of the receiver takes a packet and its CRC.
ASSUME FramingAssumption ==
    /\ Frame \subseteq [header : Octet, packet : Seq(Octet)]
    /\ \A frame \in Frame : Len(frame.packet) + SFP_CRC_SIZE <= MAX_PACKET_SIZE
    /\ Noise \subseteq Octet
    /\ WRITEBUF_SIZE \in Nat \ {0}
    /\ MAX_PACKET_SIZE \in Nat
    /\ MaxFrames \in Nat
    /\ MaxFaults \in Nat

VARIABLES
    toWrite,    \* octets of the frame being sent, not yet in the buffer
    writebuf,   \* ctx->tx.writebuf
    line,       \* octets on their way
    rx,         \* ctx->rx
    overflow,   \* whether the octet before overflowed the packet buffer ("last"),
                \* or ever the last one of a frame ("silent"): for the
                \* properties only
    sent,       \* frames sent
    handled,    \* frames that passed both checks, in order
    naks,       \* NAKs sent for those that did not
    faults

vars == <<toWrite, writebuf, line, rx, overflow, sent, handled, naks, faults>>

tx == <<toWrite, writebuf, sent>>

SFP_ESC == 125
SFP_FLAG == 126
SFP_ESC_FLIP_BIT == 32
SFP_CRC_PRESET == 65535
SFP_CRC_GOOD == 61624

\* The exclusive or of two octets: the bits in which they differ.
Xor(a, b) ==
    LET differ(bit) == IF (a \div bit) % 2 = (b \div bit) % 2 THEN 0 ELSE bit
    IN  differ(1) + differ(2) + differ(4) + differ(8)
            + differ(16) + differ(32) + differ(64) + differ(128)

\* The two octets of the CRC are computed one by one.
_crc_ccitt_update(crc, octet) ==
    LET low == Xor(octet, crc % 256)
        mix == Xor(low, (low * 16) % 256)
    IN  256 * Xor(mix, mix \div 32)
            + Xor(Xor(crc \div 256, mix \div 16), (mix * 8) % 256)

\* The rolling CRC after all octets.
Crc(octets) ==
    LET crc[n \in 0 .. Len(octets)] ==
            IF n = 0 THEN SFP_CRC_PRESET
                     ELSE _crc_ccitt_update(crc[n - 1], octets[n])
    IN  crc[Len(octets)]

-----------------------------------------------------------------------------
(* The transmitter.                                                        *)

\* Faulty variant: ESC itself is not escaped.
EscapedFlagOnly(octet) ==
    IF octet = SFP_FLAG THEN <<SFP_ESC, Xor(octet, SFP_ESC_FLIP_BIT)>>
                        ELSE <<octet>>

\* sfpWriteNoCRC.
Escaped(octet) ==
    IF octet \in {SFP_ESC, SFP_FLAG}
    THEN <<SFP_ESC, Xor(octet, SFP_ESC_FLIP_BIT)>>
    ELSE <<octet>>

\* A frame with its CRC: the complement goes last, low octet first.
Checked(frame) ==
    LET octets == <<frame.header>> \o frame.packet
        crc == 65535 - Crc(octets)
    IN  octets \o <<crc % 256, crc \div 256>>

\* sfpTransmitFrameWithHeader.
Encoded(frame) ==
    LET all == Checked(frame)
        written[n \in 0 .. Len(all)] ==
            IF n = 0 THEN <<SFP_FLAG>> ELSE written[n - 1] \o Escaped(all[n])
    IN  Append(written[Len(all)], SFP_FLAG)

Transmit(frame) ==
    /\ toWrite = <<>>
    /\ Len(sent) < MaxFrames
    /\ toWrite' = Encoded(frame)
    /\ sent' = Append(sent, frame)
    /\ UNCHANGED <<writebuf, line, rx, overflow, handled, naks, faults>>

\* Faulty variant: the buffer is flushed one octet late.
BufferedWriteLate ==
    /\ toWrite # <<>>
    /\ LET full == Len(writebuf) > WRITEBUF_SIZE
           buffer == Append(IF full THEN <<>> ELSE writebuf, Head(toWrite))
           flushed == IF full THEN line \o writebuf ELSE line
       IN  IF Tail(toWrite) = <<>>
           THEN line' = flushed \o buffer /\ writebuf' = <<>>
           ELSE line' = flushed /\ writebuf' = buffer
    /\ toWrite' = Tail(toWrite)
    /\ UNCHANGED <<rx, overflow, sent, handled, naks, faults>>

\* sfpBufferedWrite: a full buffer is flushed first; sfpFlushWriteBuffer
\* follows the last octet of a frame.
BufferedWrite ==
    /\ toWrite # <<>>
    /\ LET full == Len(writebuf) >= WRITEBUF_SIZE
           buffer == Append(IF full THEN <<>> ELSE writebuf, Head(toWrite))
           flushed == IF full THEN line \o writebuf ELSE line
       IN  IF Tail(toWrite) = <<>>
           THEN line' = flushed \o buffer /\ writebuf' = <<>>
           ELSE line' = flushed /\ writebuf' = buffer
    /\ toWrite' = Tail(toWrite)
    /\ UNCHANGED <<rx, overflow, sent, handled, naks, faults>>

-----------------------------------------------------------------------------
(* The receiver.                                                           *)

\* sfpResetReceiver; the header stays, but is not looked at again.
NewReceiver ==
    [crc |-> SFP_CRC_PRESET, escaping |-> FALSE, receiving |-> FALSE,
     header |-> 0, packet |-> <<>>]

Init ==
    /\ toWrite = <<>>
    /\ writebuf = <<>>
    /\ line = <<>>
    /\ rx = NewReceiver
    /\ overflow = "none"
    /\ sent = <<>>
    /\ handled = <<>>
    /\ naks = 0
    /\ faults = 0

Take == line # <<>> /\ line' = Tail(line) /\ UNCHANGED <<tx, faults>>

\* sfpDeliverOctet on a FLAG; between frames it is ignored.
IgnoreFlag ==
    /\ Take /\ Head(line) = SFP_FLAG
    /\ ~rx.receiving
    /\ rx' = NewReceiver
    /\ overflow' = IF overflow = "last" THEN "silent" ELSE overflow
    /\ UNCHANGED <<handled, naks>>

\* Faulty variant: the CRC is not looked at.
GoodLength == Len(rx.packet) >= SFP_CRC_SIZE

\* At the end of a frame it makes sfpHandleFrame check the length, then the
\* CRC ...
GoodFrame ==
    /\ Len(rx.packet) >= SFP_CRC_SIZE
    /\ rx.crc = SFP_CRC_GOOD

\* Faulty variant: a bad frame is dropped in silence.
RejectSilently ==
    /\ Take /\ Head(line) = SFP_FLAG
    /\ rx.receiving /\ ~GoodFrame
    /\ rx' = NewReceiver
    /\ UNCHANGED <<overflow, handled, naks>>

RejectFrame ==
    /\ Take /\ Head(line) = SFP_FLAG
    /\ rx.receiving /\ ~GoodFrame
    /\ naks' = naks + 1
    /\ rx' = NewReceiver
    /\ UNCHANGED <<overflow, handled>>

\* ... and handle the frame without it.
HandleFrame ==
    /\ Take /\ Head(line) = SFP_FLAG
    /\ rx.receiving /\ GoodFrame
    /\ handled' = Append(handled,
          [ header |-> rx.header,
            packet |-> SubSeq(rx.packet, 1, Len(rx.packet) - SFP_CRC_SIZE) ])
    /\ rx' = NewReceiver
    /\ UNCHANGED <<overflow, naks>>

DeliverEsc ==
    /\ Take /\ Head(line) = SFP_ESC
    /\ rx' = [rx EXCEPT !.escaping = TRUE]
    /\ UNCHANGED <<overflow, handled, naks>>

\* Any other octet: the first of a frame is its header, the others go to
\* sfpBufferOctet, which forgets the frame if there are too many.
DeliverOther ==
    /\ Take /\ Head(line) \notin {SFP_FLAG, SFP_ESC}
    /\ LET octet == IF rx.escaping THEN Xor(Head(line), SFP_ESC_FLIP_BIT)
                                   ELSE Head(line)
           next == [rx EXCEPT !.crc = _crc_ccitt_update(@, octet),
                              !.escaping = FALSE]
       IN  \/ /\ ~rx.receiving
              /\ rx' = [next EXCEPT !.header = octet, !.receiving = TRUE]
              /\ overflow' = IF overflow = "last" THEN "none" ELSE overflow
           \/ /\ rx.receiving /\ Len(rx.packet) < MAX_PACKET_SIZE
              /\ rx' = [next EXCEPT !.packet = Append(@, octet)]
              /\ UNCHANGED overflow
           \/ /\ rx.receiving /\ Len(rx.packet) >= MAX_PACKET_SIZE
              /\ rx' = NewReceiver
              /\ overflow' = IF overflow = "none" THEN "last" ELSE overflow
    /\ UNCHANGED <<handled, naks>>

-----------------------------------------------------------------------------
(* The line.                                                               *)

LoseOctet ==
    /\ faults < MaxFaults
    /\ line # <<>> /\ line' = Tail(line)
    /\ faults' = faults + 1
    /\ UNCHANGED <<tx, rx, overflow, handled, naks>>

DamageOctet(octet) ==
    /\ faults < MaxFaults
    /\ line # <<>> /\ Head(line) # octet
    /\ line' = <<octet>> \o Tail(line)
    /\ faults' = faults + 1
    /\ UNCHANGED <<tx, rx, overflow, handled, naks>>

Next ==
    \/ \E frame \in Frame : Transmit(frame)
    \/ BufferedWrite
    \/ IgnoreFlag \/ RejectFrame \/ HandleFrame
    \/ DeliverEsc \/ DeliverOther
    \/ LoseOctet
    \/ \E octet \in Noise : DamageOctet(octet)

Spec == Init /\ [][Next]_vars

-----------------------------------------------------------------------------
TypeOK ==
    /\ toWrite \in Seq(Octet)
    /\ writebuf \in Seq(Octet) /\ Len(writebuf) <= WRITEBUF_SIZE
    /\ line \in Seq(Octet)
    /\ rx \in [crc : 0 .. SFP_CRC_PRESET, escaping : BOOLEAN, receiving : BOOLEAN,
               header : Octet, packet : Seq(Octet)]
    /\ Len(rx.packet) <= MAX_PACKET_SIZE
    /\ overflow \in {"none", "last", "silent"}
    /\ sent \in Seq(Frame)
    /\ handled \in Seq([header : Octet, packet : Seq(Octet)])
    /\ naks \in Nat
    /\ faults \in 0 .. MaxFaults

\* The frames handled are frames that were sent, in that order: no run of
\* octets that faults pieced together passes for a frame.
NothingInvented ==
    \E place \in [DOMAIN handled -> DOMAIN sent] :
        /\ \A i \in DOMAIN handled : handled[i] = sent[place[i]]
        /\ \A i, j \in DOMAIN handled : i < j => place[i] < place[j]

Drained == toWrite = <<>> /\ line = <<>>

\* A lost or damaged octet costs one frame at most, even where it makes two
\* of one or one of two, and provokes two NAKs at most, as a frame that it
\* cuts in two has two ends.  Without one nothing is lost or asked for.
FaultsContained ==
    /\ Drained => Len(sent) - Len(handled) <= faults
    /\ naks <= 2 * faults

\* "If this was caused by a corrupt FLAG octet, then our forthcoming NAK
\* should resynchronize everything" (serial_framing_protocol.c:486): unless it
\* was the very last octet of what ran together that overflowed the packet
\* buffer, a receiver that has lost a frame and waits for the next has asked
\* for it.
LossIsAnswered ==
    Drained /\ ~rx.receiving /\ Len(handled) < Len(sent)
        => naks > 0 \/ overflow # "none"
=============================================================================
