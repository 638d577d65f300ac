--------------------------- MODULE MCSfpTransfer ---------------------------
(***************************************************************************)
(* One packet more than the history holds, and one fault: enough for a NAK *)
(* that is read too late.                                                  *)
(***************************************************************************)
EXTENDS SfpTransfer
=============================================================================
