---------------------------- MODULE MCQuadcopter -----------------------------
(* Instances of Quadcopter for TLC: a craft at rest, tilted, and turning;     *)
(* gains that saturate each stage within two sets of data.                    *)
EXTENDS Quadcopter

Reading(pitch, roll, rate) ==
    [euler |-> [a \in Tilts |-> IF a = "PITCH" THEN pitch ELSE roll],
     gyro |-> [a \in Axes |-> IF a = "YAW" THEN rate ELSE 0]]

MCReadings == {Reading(0, 0, 0), Reading(1, -1, 1), Reading(-2, 0, -1)}
MCAngleK == [kp |-> 1, ki |-> 1, kd |-> 1, min |-> -3, max |-> 4]
MCRateK == [kp |-> 1, ki |-> 1, kd |-> 0, min |-> -3, max |-> 5]
MCTimes == 3..9
MCAngles == {2}
MCAmounts == {-1, 6}
=============================================================================
