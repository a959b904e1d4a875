----------------------------- MODULE MCStepMotor -----------------------------
(* Instances of StepMotor for TLC.  With 16 pulses a turn, 45 degrees are two *)
(* pulses, 225 degrees more than one round of the coil table, and 0 degrees a *)
(* command that makes no pulse at all.                                        *)
EXTENDS StepMotor

MCAngles == {-45, 0, 45, 225}
=============================================================================
