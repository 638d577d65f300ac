---------------------------- MODULE PotRingbuffer ----------------------------
(***************************************************************************)
(* The ring buffer of potringbuffer.c, in which the serial framing         *)
(* protocol keeps the packets it may have to retransmit.                   *)
(*                                                                         *)
(* Both indices run over 0 .. 2*Capacity-1, twice the number of slots, so  *)
(* that "full" (equal but for the top bit) and "empty" (equal) differ; the *)
(* low bits select the slot.  Capacity is a power of two: the masks of the *)
(* code are remainders, and the exclusive or with Capacity toggles the top *)
(* bit, that is, adds or subtracts Capacity.                               *)
(***************************************************************************)
EXTENDS Integers, Sequences

CONSTANTS
    SFPpacket,  \* the packets that can be stored
    Capacity    \* SFP_CONFIG_HISTORY_CAPACITY

ASSUME CapacityAssumption ==
    /\ Capacity \in Nat \ {0}
    /\ \E k \in 0 .. Capacity : Capacity = 2 ^ k

VARIABLES
    mBegin,     \* index of the first packet
    mEnd,       \* index one past the last packet
    mData       \* the slots

ringVars == <<mBegin, mEnd, mData>>

Index == 0 .. 2 * Capacity - 1
Slot == 0 .. Capacity - 1

-----------------------------------------------------------------------------
\* size_t arithmetic wraps at a multiple of 2*Capacity, so adding size_t -1
\* under the mask is subtracting one.
Incr(index) == (index + 1) % (2 * Capacity)

Decr(index) == (index - 1) % (2 * Capacity)

SlotOf(index) == index % Capacity

FlipTopBit(index) ==
    IF index < Capacity THEN index + Capacity ELSE index - Capacity

Empty == mBegin = mEnd

Full == FlipTopBit(mBegin) = mEnd

Size == IF Full THEN Capacity ELSE (mEnd - mBegin) % Capacity

At(i) == mData[SlotOf(mBegin + i)]

-----------------------------------------------------------------------------
RingInit ==
    /\ mBegin = 0
    /\ mEnd = 0
    /\ mData \in [Slot -> SFPpacket]   \* the memory is not cleared

\* potRingbufferInit at run time, when the link is reset.
Reinit ==
    /\ mBegin' = 0
    /\ mEnd' = 0
    /\ UNCHANGED mData

\* Faulty variant: the slot is that of the end, not of the last packet.
PushBackAtEnd(packet) ==
    /\ mBegin' = IF Full THEN Incr(mBegin) ELSE mBegin
    /\ mEnd' = Incr(mEnd)
    /\ mData' = [mData EXCEPT ![SlotOf(mEnd')] = packet]

\* The packet is written behind the advanced end: ReverseAt(1) is slot end-1.
PushBack(packet) ==
    /\ mBegin' = IF Full THEN Incr(mBegin) ELSE mBegin
    /\ mEnd' = Incr(mEnd)
    /\ mData' = [mData EXCEPT ![SlotOf(mEnd' - 1)] = packet]

PushFront(packet) ==
    /\ mEnd' = IF Full THEN Decr(mEnd) ELSE mEnd
    /\ mBegin' = Decr(mBegin)
    /\ mData' = [mData EXCEPT ![SlotOf(mBegin')] = packet]

\* The pops do not check for emptiness; every caller does (sfpClearHistory
\* tests it, sfpTransmitHistoryFromSeq pops fewer packets than there are).
PopFront ==
    /\ ~Empty
    /\ mBegin' = Incr(mBegin)
    /\ UNCHANGED <<mEnd, mData>>

PopBack ==
    /\ ~Empty
    /\ mEnd' = Decr(mEnd)
    /\ UNCHANGED <<mBegin, mData>>

RingNext ==
    \/ Reinit \/ PopFront \/ PopBack
    \/ \E packet \in SFPpacket : PushBack(packet) \/ PushFront(packet)

RingSpec == RingInit /\ [][RingNext]_ringVars

-----------------------------------------------------------------------------
\* The indices stay inside the two laps and the slots hold packets.
RingTypeOK ==
    /\ mBegin \in Index
    /\ mEnd \in Index
    /\ mData \in [Slot -> SFPpacket]

\* The two indices are never more than Capacity apart: the buffer cannot be
\* driven, by any sequence of pushes at either end and guarded pops, into one
\* of the index pairs in which Size and At would describe packets that were
\* never stored (the buffer would report more packets than it has slots).
AtMostCapacityApart == (mEnd - mBegin) % (2 * Capacity) <= Capacity

\* The packets the buffer holds, oldest first.
Contents == [i \in 1 .. Size |-> At(i - 1)]

Queue == INSTANCE HistoryQueue WITH Packet <- SFPpacket, queue <- Contents

\* The buffer is a queue that forgets the packet at the far end when full.
ImplementsHistoryQueue == Queue!Spec
=============================================================================
