------------------------------- MODULE MCSfp -------------------------------
(***************************************************************************)
(* The ring that holds the history, put to every use there is, and then a  *)
(* transfer that begins when sfpInit has emptied it and knows it as the    *)
(* queue it implements.                                                    *)
(*                                                                         *)
(* Four slots and two packets: every fill level at every rotation.  In the *)
(* transfer the sequence numbers wrap once and the history overflows while *)
(* frames are lost and damaged on both lines.                              *)
(***************************************************************************)
EXTENDS SfpTransfer, PotRingbuffer

sfpVars == <<vars, ringVars>>

\* The slots are not cleared; one content stands for all.
Initialised ==
    /\ Empty /\ mBegin = 0
    /\ \E packet \in SFPpacket : \A slot \in Slot : mData[slot] = packet

Begun == written > 0 \/ faults > 0

SfpInit == Init /\ RingInit

SfpNext ==
    \/ ~Begun /\ RingNext /\ UNCHANGED vars
    \/ Initialised /\ Next /\ UNCHANGED ringVars

FairSfp ==
    /\ SfpInit /\ [][SfpNext]_sfpVars
    /\ WF_vars(AnswerNAK \/ DropBadNAK)
    /\ WF_vars(Receiver)
=============================================================================
