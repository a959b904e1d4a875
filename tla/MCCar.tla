-------------------------------- MODULE MCCar --------------------------------
(* An instance of Car for TLC: two gears of two units, speeds at, below and   *)
(* beyond the range, a pwm range of 0 and steps of both signs,               *)
(* distances on both sides of the script's two limits.                       *)
EXTENDS Car

MCPins == {led_warn, laster}
MCCounts == {-1, 0, 2}
MCDistances == {20, 21, 30, 31}
MCSpeeds == {-5, 3}
MCDeltas == {0, 6}
MCRanges == {0, 6}
MCDatas == {3}
MCSteps == {-4, 4}
MCBudgets == {<<3, 0>>, <<0, 2>>}
=============================================================================
