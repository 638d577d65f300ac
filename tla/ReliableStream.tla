--------------------------- MODULE ReliableStream ---------------------------
(***************************************************************************)
(* What one direction of a connected link promises: packets are delivered  *)
(* in the order they were written, each once, until the transmitter        *)
(* resynchronises because the packet it was asked for has left its         *)
(* history.  From then on only written packets are delivered, but some may *)
(* be missing and some may come twice.                                     *)
(***************************************************************************)
EXTENDS Naturals, Sequences

VARIABLES
    written,    \* how many packets were written: they are 0 .. written-1
    delivered,  \* the packets delivered so far, in order of delivery
    resynced    \* the transmitter has given up on the order

vars == <<written, delivered, resynced>>

Init ==
    /\ written = 0
    /\ delivered = <<>>
    /\ resynced = FALSE

Write ==
    /\ written' = written + 1
    /\ UNCHANGED <<delivered, resynced>>

\* The packet after the last one delivered.
Deliver ==
    /\ Len(delivered) < written
    /\ delivered' = Append(delivered, Len(delivered))
    /\ UNCHANGED <<written, resynced>>

Resynchronise ==
    /\ resynced' = TRUE
    /\ UNCHANGED <<written, delivered>>

DeliverAny ==
    /\ resynced
    /\ \E packet \in 0 .. written - 1 : delivered' = Append(delivered, packet)
    /\ UNCHANGED <<written, resynced>>

Next == Write \/ Deliver \/ Resynchronise \/ DeliverAny

Spec == Init /\ [][Next]_vars
=============================================================================
