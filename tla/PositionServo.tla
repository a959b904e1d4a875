---------------------------- MODULE PositionServo ----------------------------
(***************************************************************************)
(* What a motor driven by src/raspd/motor.c promises its callers: a command  *)
(* names a goal, the position moves towards it one pulse at a time without   *)
(* ever turning back or overshooting, and the motor is done exactly when the *)
(* goal is reached, unless the caller asked to be called and names the next  *)
(* goal at once; a command may be replaced or cancelled on the way.          *)
(***************************************************************************)
EXTENDS Integers

VARIABLES
    pos,   \* pulses issued so far, signed
    goal,  \* where the command in progress ends; pos when there is none
    busy,  \* a command is in progress
    again  \* the caller names the next goal when this one is reached

servoVars == <<pos, goal, busy, again>>

Init ==
    /\ pos = 0
    /\ goal = 0
    /\ busy = FALSE
    /\ again = FALSE

\* A new command, from rest or in place of the one in progress.
Command ==
    /\ busy' = TRUE
    /\ goal' \in Int
    /\ again' \in BOOLEAN
    /\ pos' = pos

Advance ==
    /\ busy
    /\ \/ pos + 1 < goal /\ pos' = pos + 1
       \/ pos - 1 > goal /\ pos' = pos - 1
    /\ UNCHANGED <<goal, busy, again>>

\* The last pulse.
Arrive ==
    /\ busy
    /\ goal \in pos - 1 .. pos + 1
    /\ pos' = goal
    /\ busy' = again
    /\ IF again THEN goal' \in Int ELSE goal' = goal
    /\ again' = again

\* The motor stops where it is, if it moves at all.
Cancel ==
    /\ busy' = FALSE
    /\ again' \in BOOLEAN
    /\ pos' = pos
    /\ goal' = pos

Next == Command \/ Advance \/ Arrive \/ Cancel

Spec == Init /\ [][Next]_servoVars
=============================================================================
