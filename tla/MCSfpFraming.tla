---------------------------- MODULE MCSfpFraming ----------------------------
(***************************************************************************)
(* Frames with reserved octets in their header, packet and CRC, on a line  *)
(* that may turn an octet into a reserved one or into anything else.       *)
(***************************************************************************)
EXTENDS SfpFraming

MCFrame == {
    [header |-> 126, packet |-> <<126, 0>>],    \* RTX 62
    [header |-> 190, packet |-> <<>>],          \* NAK 62
    [header |-> 1,   packet |-> <<125, 7>>] }   \* USR 1

MCNoise == {0, 93, 94, 125, 126, 127, 190, 255}
=============================================================================
