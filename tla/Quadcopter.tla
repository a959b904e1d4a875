----------------------------- MODULE Quadcopter ------------------------------
(***************************************************************************)
(* The attitude controller of src/raspd/quadcopter.c and pid.c.  Each set of *)
(* IMU data runs imu_ready_cb: two cascaded PID stages per axis, then a mix  *)
(* of their outputs is added to the throttles of the four ESCs.  Between two *)
(* sets of data the commands euler and throttle change the targets and the   *)
(* throttles.                                                                *)
(*                                                                          *)
(* A double is a multiple of 1/Scale; a quotient is rounded down.  Throttles *)
(* are C ints, so adding a double to one drops the fraction.  The altitude   *)
(* stage is left out: get_altitude_from_ultrasonic returns -1 (luaenv.c 370) *)
(* and no other altimeter exists, so imu_ready_cb never calls it.            *)
(***************************************************************************)
EXTENDS Integers

CONSTANTS
    Scale,         \* doubles are multiples of 1/Scale
    AngleK, RateK, \* kp, ki, kd, min, max of the two stages
    MinThrottle, MaxThrottle,
    ClockRange,    \* an unsigned long holds 0..ClockRange-1 milliseconds
    Times,         \* what the clock of the day may say, in milliseconds
    Readings,      \* what the IMU may report: euler angles and gyro rates
    Angles,        \* targets given to the command euler; 0 is the default
    Amounts,       \* arguments of the command throttle
    Reach,         \* no reading and no target is larger
    MaxReady, MaxCommands  \* bounds: sets of IMU data, commands

Axes == {"PITCH", "ROLL", "YAW"}
Tilts == {"PITCH", "ROLL"}
Escs == {"front", "rear", "left", "right"}

Gains == [kp : Nat, ki : Nat, kd : Nat, min : Int, max : Int]

ASSUME ScaleAssumption == Scale \in Nat \ {0}
ASSUME GainsAssumption ==
    \A k \in {AngleK, RateK} : k \in Gains /\ k.min <= k.max
ASSUME ThrottleAssumption ==
    MinThrottle \in Nat /\ MaxThrottle \in Nat /\ MinThrottle <= MaxThrottle
\* Wide enough that 1 is not taken for a negative number.
ASSUME ClockAssumption == ClockRange \in Nat /\ ClockRange > 2
ASSUME TimesAssumption == Times \subseteq Nat
ASSUME ReachAssumption == Reach \in Nat
ASSUME ReadingsAssumption ==
    Readings \subseteq [euler : [Tilts -> -Reach..Reach],
                       gyro : [Axes -> -Reach..Reach]]
ASSUME InputsAssumption == Angles \subseteq -Reach..Reach /\ Amounts \subseteq Int
ASSUME MaxAssumption == MaxReady \in Nat /\ MaxCommands \in Nat

VARIABLES
    configured,      \* pidctrl_init was called: the callback is registered
    pid_euler,       \* per tilt: sum_err and last_error
    pid_euler_rate,  \* per axis
    throttle,        \* per ESC
    dst_euler,       \* per axis: the target
    prev_timestamp,
    ready, commands, \* counts of callbacks and of commands
    first, latest,   \* history: the times of the first data and of the last; -1: none
    given,           \* history: the sum of the dt's that the stages were given
    steady,          \* history: the clock was never set back
    whole            \* history: all data ran the stages, none long after the last

pids    == <<pid_euler, pid_euler_rate>>
history == <<first, latest, given, steady, whole>>
vars    == <<configured, pids, throttle, dst_euler, prev_timestamp, ready, commands, history>>

Lesser(a, b)  == IF a < b THEN a ELSE b
Greater(a, b) == IF a > b THEN a ELSE b

-----------------------------------------------------------------------------
(* pid.c                                                                    *)

Quotient(a, b) == IF b > 0 THEN a \div b ELSE (-a) \div (-b)

Raw(pid, k, error, dt) ==
    k.kp * error + k.ki * (pid.sum_err + error * dt)
                 + k.kd * Quotient(error - pid.last_error, dt)

MutSaturated(out, k) == FALSE

\* Lines 46-52: beyond the bounds the integral starts anew.
Saturated(out, k) == out > k.max \/ out < k.min

\* pid_update: what the call returns, and the state it leaves.
Output(pid, k, error, dt) ==
    Greater(k.min, Lesser(k.max, Raw(pid, k, error, dt)))

Updated(pid, k, error, dt) ==
    [sum_err |-> IF Saturated(Raw(pid, k, error, dt), k) THEN 0
                 ELSE pid.sum_err + error * dt,
     last_error |-> error]

-----------------------------------------------------------------------------
\* pidctrl_init, before the event loop starts; a configuration without the
\* devtree's quadcopter never calls it, and the throttles are 0.
Init ==
    /\ pid_euler = [a \in Tilts |-> [sum_err |-> 0, last_error |-> 0]]
    /\ pid_euler_rate = [a \in Axes |-> [sum_err |-> 0, last_error |-> 0]]
    /\ configured \in BOOLEAN
    /\ throttle = [e \in Escs |-> IF configured THEN MinThrottle ELSE 0]
    /\ dst_euler = [a \in Axes |-> 0]
    /\ prev_timestamp = 0
    /\ ready = 0
    /\ commands = 0
    /\ first = -1
    /\ latest = -1
    /\ given = 0
    /\ steady = TRUE
    /\ whole = TRUE

-----------------------------------------------------------------------------
MutClamped(t) == Greater(t, MinThrottle)

\* update_pwm, lines 121-124.
Clamped(t) == Greater(Lesser(MaxThrottle, t), MinThrottle)

\* int += double: the sum is cut off towards 0.
Added(t, x) ==
    LET sum == t * Scale + x
    IN  IF sum >= 0 THEN sum \div Scale ELSE -((-sum) \div Scale)

MutMix(p) ==
    [front |->  p["PITCH"] + p["YAW"],
     rear  |-> -p["PITCH"] + p["YAW"],
     left  |->  p["ROLL"] - p["YAW"],
     right |-> -p["ROLL"] + p["YAW"]]

\* Lines 180-183.
Mix(p) ==
    [front |->  p["PITCH"] + p["YAW"],
     rear  |-> -p["PITCH"] + p["YAW"],
     left  |->  p["ROLL"] - p["YAW"],
     right |-> -p["ROLL"] - p["YAW"]]

\* The error of the first stage, and of the second, whose set point is the
\* output of the first, but for the yaw, which has the target itself.
AngleError(a, reading) == (dst_euler[a] - reading.euler[a]) * Scale

RateError(a, reading, dt) ==
    (IF a = "YAW" THEN dst_euler[a] * Scale
     ELSE Output(pid_euler[a], AngleK, AngleError(a, reading), dt))
    - reading.gyro[a] * Scale

AttitudeControl(reading, dt) ==
    LET out == [a \in Axes |-> Output(pid_euler_rate[a], RateK,
                                      RateError(a, reading, dt), dt)]
    IN
    /\ pid_euler' = [a \in Tilts |-> Updated(pid_euler[a], AngleK,
                                             AngleError(a, reading), dt)]
    /\ pid_euler_rate' = [a \in Axes |-> Updated(pid_euler_rate[a], RateK,
                                                 RateError(a, reading, dt), dt)]
    /\ throttle' = [e \in Escs |-> Clamped(Added(throttle[e], Mix(out)[e]))]

\* What is left of a time of the clock in an unsigned long (inv_imu.c 103).
Stamp(time) == time % ClockRange

MutElapsed(timestamp) ==
    IF prev_timestamp = 0 \/ timestamp < prev_timestamp THEN 1
    ELSE timestamp - prev_timestamp

\* The time since the last set of data: unsigned, then taken as a long; a
\* previous timestamp of 0 means that there was none (lines 325-328).
Elapsed(timestamp) ==
    IF prev_timestamp = 0 THEN 1
    ELSE (timestamp - prev_timestamp + ClockRange) % ClockRange

Signed(dt) == IF 2 * dt >= ClockRange THEN dt - ClockRange ELSE dt

\* imu_ready_cb, data of a timestamp already seen: dropped.
ImuDropped(time) ==
    /\ configured
    /\ ready < MaxReady
    /\ Elapsed(Stamp(time)) = 0
    /\ ready' = ready + 1
    /\ UNCHANGED <<configured, pids, throttle, dst_euler, prev_timestamp, commands,
                   history>>

\* A time at most half a turn of the clock from the last, either way: no other
\* difference fits into the long.
Near(time) == -ClockRange <= 2 * (time - latest) /\ 2 * (time - latest) < ClockRange

\* What the clock did, for the properties; a timestamp of 0 spoils both.
Clocked(time, complete) ==
    /\ latest' = time
    /\ first' = IF first = -1 THEN time ELSE first
    /\ steady' = (steady /\ latest <= time /\ Stamp(time) # 0)
    /\ whole' = (whole /\ complete /\ Stamp(time) # 0 /\ (first # -1 => Near(time)))

\* imu_ready_cb, other data: the stages run only on a complete set, that is, one
\* with gyro and quaternion; the time of another is the last one all the same.
ImuReady(time, complete, reading) ==
    LET dt == Elapsed(Stamp(time))
    IN
    /\ configured
    /\ ready < MaxReady
    /\ dt # 0
    /\ ready' = ready + 1
    /\ prev_timestamp' = Stamp(time)
    /\ IF complete
       THEN /\ AttitudeControl(reading, Signed(dt))
            /\ given' = given + Signed(dt)
       ELSE UNCHANGED <<pids, throttle, given>>
    /\ Clocked(time, complete)
    /\ UNCHANGED <<configured, dst_euler, commands>>

\* euler_main, lines 541-546: an angle of 0 leaves the target as it is.
Euler(target) ==
    /\ commands < MaxCommands
    /\ commands' = commands + 1
    /\ dst_euler' = [a \in Axes |-> IF target[a] # 0 THEN target[a] ELSE dst_euler[a]]
    /\ UNCHANGED <<configured, pids, throttle, prev_timestamp, ready, history>>

\* throttle_main
Throttle(amount) ==
    /\ commands < MaxCommands
    /\ commands' = commands + 1
    /\ throttle' = [e \in Escs |-> Clamped(throttle[e] + amount)]
    /\ UNCHANGED <<configured, pids, dst_euler, prev_timestamp, ready, history>>

Next ==
    \/ \E t \in Times :
           \/ ImuDropped(t)
           \/ \E complete \in BOOLEAN, r \in Readings : ImuReady(t, complete, r)
    \/ \E target \in [Axes -> Angles \cup {0}] : Euler(target)
    \/ \E amount \in Amounts : Throttle(amount)

Spec == Init /\ [][Next]_vars

-----------------------------------------------------------------------------
(* Properties.                                                              *)

Limits == MinThrottle..MaxThrottle

PidState == [sum_err : Int, last_error : Int]

\* A throttle that is not within the limits is one nobody has set yet.
TypeOK ==
    /\ configured \in BOOLEAN
    /\ pid_euler \in [Tilts -> PidState]
    /\ pid_euler_rate \in [Axes -> PidState]
    /\ \/ throttle \in [Escs -> Limits]
       \/ throttle = [e \in Escs |-> 0]
    /\ dst_euler \in [Axes -> -Reach..Reach]
    /\ prev_timestamp \in 0..ClockRange - 1
    /\ ready \in 0..MaxReady /\ commands \in 0..MaxCommands
    /\ first \in Nat \cup {-1} /\ latest \in Nat \cup {-1} /\ given \in Int
    /\ steady \in BOOLEAN /\ whole \in BOOLEAN

Lift == throttle["front"] + throttle["rear"] + throttle["left"] + throttle["right"]

\* The attitude stages turn the craft without lifting it: as long as no ESC ends
\* at a limit, what they add to one pair of ESCs they take from the other, and
\* the cut-off fractions cost at most three units and never add any.
LiftKept ==
    [][ready' # ready /\ (\A e \in Escs : MinThrottle < throttle'[e]
                                         /\ throttle'[e] < MaxThrottle)
       => Lift' \in Lift - 3 .. Lift]_vars

Magnitude(k) == Greater(-k.min, k.max)

\* How large an error of either stage may be.
AngleReach == 2 * Reach * Scale
RateReach == Greater(Magnitude(AngleK), Reach * Scale) + Reach * Scale

Bounded(pid, k, reach) ==
    LET most == Magnitude(k) + (k.kp + 2 * k.kd) * reach
    IN  k.ki * pid.sum_err \in -most..most

\* No integral winds up: whatever the readings, the gaps between them and the
\* changes of target, its weight in the output stays within what the bounds of
\* the output and the largest errors account for.
IntegralsBounded ==
    /\ \A a \in Tilts : Bounded(pid_euler[a], AngleK, AngleReach)
    /\ \A a \in Axes : Bounded(pid_euler_rate[a], RateK, RateReach)

\* What the stages integrate over is the time of the clock.  While the clock is
\* not set back, no stretch of it is given to them twice, whatever wraps and
\* whatever data are dropped or incomplete.  When moreover all data were complete
\* and none came more than half a turn after the last, they are given all of it,
\* and then even over a clock that is set back: the millisecond they start with
\* and the time since the first data.  The time of an incomplete set is lost.
TimeAddsUp ==
    first # -1 =>
        /\ steady => given <= latest - first + 1
        /\ whole => given = latest - first + 1
=============================================================================
