----------------------------- MODULE MCSfpLink -----------------------------
(***************************************************************************)
(* Both ends write while frames are lost or damaged and an end is reset.   *)
(***************************************************************************)
EXTENDS SfpLink
=============================================================================
