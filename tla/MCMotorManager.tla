--------------------------- MODULE MCMotorManager ---------------------------
(***************************************************************************)
(* A motor whose range takes several periods to cross, with recalculation  *)
(* functions that do nothing and that halve the speed.                     *)
(***************************************************************************)
EXTENDS MotorManager

Reversed == -1

Halved == [speed \in Speed |->
              IF speed < 0 THEN -((-speed) \div 2) ELSE speed \div 2]

OnlyHalved == {Halved}
=============================================================================
