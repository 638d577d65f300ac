----------------------------- MODULE MCOperator -----------------------------
(***************************************************************************)
(* A task polls JOY2_8R or the left button of the LCD.                     *)
(***************************************************************************)
EXTENDS Operator

MCCallers == {{22}, {24}}

MCHostWrites == {<<3, 50>>}

\* Before the first motor is stopped, and with one side set and the other not.
MCCuts == {<<1, 0>>, <<8, 2>>, <<15, 0>>}
=============================================================================
