---------------------------- MODULE HistoryQueue ----------------------------
(***************************************************************************)
(* What the transmit history promises its user: a double-ended queue of at *)
(* most Capacity packets in which a push onto a full queue makes room by   *)
(* forgetting the packet at the far end.  PotRingbuffer implements it.     *)
(***************************************************************************)
EXTENDS Naturals, Sequences

CONSTANTS
    Packet,     \* the packets that can be stored
    Capacity    \* the most packets the queue remembers

VARIABLE queue

Full == Len(queue) = Capacity

Front == SubSeq(queue, 1, Len(queue) - 1)

Init == queue = <<>>

Clear == queue' = <<>>

PushBack(packet) ==
    queue' = Append(IF Full THEN Tail(queue) ELSE queue, packet)

PushFront(packet) ==
    queue' = <<packet>> \o (IF Full THEN Front ELSE queue)

PopFront == queue # <<>> /\ queue' = Tail(queue)

PopBack == queue # <<>> /\ queue' = Front

Next ==
    \/ Clear \/ PopFront \/ PopBack
    \/ \E packet \in Packet : PushBack(packet) \/ PushFront(packet)

Spec == Init /\ [][Next]_queue
=============================================================================
