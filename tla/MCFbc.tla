------------------------------- MODULE MCFbc -------------------------------
(***************************************************************************)
(* One output that is raised to the deadband, and one that drives.         *)
(***************************************************************************)
EXTENDS Fbc

MCOutput == {-1, 3}

MCNegDeadband == -2

MCCalls == {"fbcRunCompletion", "fbcRunContinuous", "fbcSetGoal", "fbcReset",
            "fbcIsConfident"}
=============================================================================
