------------------------------ MODULE MCServer ------------------------------
(***************************************************************************)
(* One motor, one cassette and two subscriptions.                          *)
(***************************************************************************)
EXTENDS Server

MCValue == {0, 1}
=============================================================================
