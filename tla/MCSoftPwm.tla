------------------------------ MODULE MCSoftPwm ------------------------------
(* Instances of SoftPwm for TLC: a value that deletes a channel, one that    *)
(* clears it, one duty and one beyond the last sample.                       *)
EXTENDS SoftPwm

MCData == {-1, 0, 1, 5}
=============================================================================
