---------------------------- MODULE MCUltrasonic -----------------------------
(* Instances of Ultrasonic for TLC: no measure, one, two, and for ever.       *)
EXTENDS Ultrasonic

MCCounts == {-1, 0, 1, 2}
=============================================================================
