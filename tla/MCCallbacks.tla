---------------------------- MODULE MCCallbacks ------------------------------
(* Instances of Callbacks for TLC: two addresses for three requests, so that  *)
(* one is given out again; no call, one, two, and -1.                         *)
EXTENDS Callbacks

MCCounts == {-1, 0, 1, 2}
=============================================================================
