--------------------------- MODULE QuadcopterProofs --------------------------
(***************************************************************************)
(* What the quadcopter promises.  Its controller, Quadcopter, for every gain,  *)
(* limit, clock and reading: types and limits of the throttles, the lift the  *)
(* attitude stages leave alone, and the integrals that never wind up.  Its    *)
(* motion sensor, Imu, for every FIFO and every number of failures and        *)
(* self-tests: types, and that the chip does at rest what the driver          *)
(* believes.                                                                 *)
(***************************************************************************)
EXTENDS Quadcopter, Imu, FiniteSetTheorems, SequenceTheorems, TLAPS

-----------------------------------------------------------------------------
(* Arithmetic of the helpers.                                               *)

\* Clamping ends within the limits, and changes nothing strictly inside them.
LEMMA ClampedFacts ==
    ASSUME NEW t \in Int
    PROVE  /\ Clamped(t) \in Limits
           /\ MinThrottle < Clamped(t) /\ Clamped(t) < MaxThrottle => Clamped(t) = t
BY ThrottleAssumption DEF Clamped, Greater, Lesser, Limits

\* The two roundings give integers.
LEMMA QuotientType ==
    ASSUME NEW a \in Int, NEW b \in Int, b # 0 PROVE Quotient(a, b) \in Int
<1>1. CASE b > 0
  BY <1>1 DEF Quotient
<1>2. CASE b < 0
  BY <1>2 DEF Quotient
<1> QED
  BY <1>1, <1>2

LEMMA AddedType == ASSUME NEW t \in Int, NEW x \in Int PROVE Added(t, x) \in Int
<1>1. t * Scale + x \in Int
  BY ScaleAssumption
<1>2. \A s \in Int : s \div Scale \in Int
  BY ScaleAssumption
<1> DEFINE sum == t * Scale + x
<1>3. (IF sum >= 0 THEN sum \div Scale ELSE -((-sum) \div Scale)) \in Int
  <2> HIDE DEF sum
  <2>1. sum \in Int
    BY <1>1 DEF sum
  <2> QED
    BY <2>1, <1>2
<1> QED
  BY <1>3 DEF Added

\* A sum that is cut off to a positive number is rounded down.
LEMMA AddedRoundsDown ==
    ASSUME NEW t \in Int, NEW x \in Int, Added(t, x) > 0
    PROVE  /\ Added(t, x) * Scale <= t * Scale + x
           /\ t * Scale + x < (Added(t, x) + 1) * Scale
<1> DEFINE sum == t * Scale + x
<1>1. sum \in Int /\ Scale \in Nat /\ Scale > 0
  BY ScaleAssumption
<1>2. Added(t, x) = IF sum >= 0 THEN sum \div Scale ELSE -((-sum) \div Scale)
  BY DEF Added
<1> HIDE DEF sum
<1>3. sum >= 0
  <2> SUFFICES ASSUME sum < 0 PROVE FALSE
    BY <1>1
  <2>1. (-sum) \div Scale >= 0
    BY <1>1
  <2>2. (-sum) \div Scale \in Int
    BY <1>1
  <2> QED
    BY <1>1, <1>2, <2>1, <2>2
<1>4. Added(t, x) = sum \div Scale
  BY <1>1, <1>2, <1>3
<1>5. (sum \div Scale) * Scale <= sum /\ sum < (sum \div Scale + 1) * Scale
  BY <1>1
<1> QED
  BY <1>4, <1>5 DEF sum

\* What the gains are, one by one.
LEMMA GainsFacts ==
    ASSUME NEW k \in {AngleK, RateK}
    PROVE  /\ k.kp \in Nat /\ k.ki \in Nat /\ k.kd \in Nat
           /\ k.min \in Int /\ k.max \in Int /\ k.min <= k.max
BY GainsAssumption DEF Gains

\* pid_update on typed arguments: an integer, an output within its bounds, and
\* a typed state.
LEMMA PidType ==
    ASSUME NEW k \in {AngleK, RateK}, NEW pid \in PidState,
           NEW error \in Int, NEW dt \in Int, dt # 0
    PROVE  /\ Raw(pid, k, error, dt) \in Int
           /\ Output(pid, k, error, dt) \in k.min..k.max
           /\ Updated(pid, k, error, dt) \in PidState
<1>1. /\ k.kp \in Nat /\ k.ki \in Nat /\ k.kd \in Nat
      /\ k.min \in Int /\ k.max \in Int /\ k.min <= k.max
  BY GainsFacts
<1>2. pid.sum_err \in Int /\ pid.last_error \in Int
  BY DEF PidState
<1>3. error - pid.last_error \in Int
  BY <1>2
<1>4. Quotient(error - pid.last_error, dt) \in Int
  BY <1>3, QuotientType
<1>5. pid.sum_err + error * dt \in Int
  BY <1>2
<1>6. Raw(pid, k, error, dt) \in Int
  BY <1>1, <1>4, <1>5 DEF Raw
<1>7. Output(pid, k, error, dt) \in k.min..k.max
  BY <1>1, <1>6 DEF Output, Greater, Lesser
<1>8. Updated(pid, k, error, dt) \in PidState
  BY <1>5 DEF Updated, PidState
<1> QED
  BY <1>6, <1>7, <1>8

\* The time since the last data, and its signed reading: 0 only for 0.
LEMMA ElapsedType ==
    ASSUME NEW t \in 0..ClockRange - 1, prev_timestamp \in 0..ClockRange - 1
    PROVE  /\ Elapsed(t) \in 0..ClockRange - 1
           /\ Signed(Elapsed(t)) \in Int
           /\ Elapsed(t) # 0 => Signed(Elapsed(t)) # 0
<1>1. ClockRange \in Nat /\ ClockRange > 2
  BY ClockAssumption
<1>2. \A x \in Nat : x % ClockRange \in 0..ClockRange - 1
  BY <1>1
<1>3. t - prev_timestamp + ClockRange \in Nat
  BY <1>1
<1>4. Elapsed(t) \in 0..ClockRange - 1
  BY <1>1, <1>2, <1>3 DEF Elapsed
<1> QED
  BY <1>1, <1>4 DEF Signed

LEMMA StampType == ASSUME NEW t \in Times PROVE t \in Nat /\ Stamp(t) \in 0..ClockRange - 1
<1>1. ClockRange \in Nat /\ ClockRange > 2 /\ t \in Nat
  BY ClockAssumption, TimesAssumption
<1> QED
  BY <1>1 DEF Stamp

\* A product with a natural number keeps symmetric bounds.
LEMMA ProductBound ==
    ASSUME NEW m \in Nat, NEW x \in -m..m, NEW s \in Nat
    PROVE  x * s \in -(m * s)..(m * s) /\ s * x \in -(s * m)..(s * m)
<1>1. (m - x) * s >= 0 /\ (x + m) * s >= 0
  BY Z3
<1>2. (m - x) * s = m * s - x * s /\ (x + m) * s = x * s + m * s
  OBVIOUS
<1>3. m * s \in Int /\ x * s \in Int /\ m * s = s * m /\ x * s = s * x
  OBVIOUS
<1> QED
  BY <1>1, <1>2, <1>3

\* A quotient is not larger than its numerator.
LEMMA QuotientBound ==
    ASSUME NEW m \in Nat, NEW a \in -m..m, NEW b \in Int, b # 0
    PROVE  Quotient(a, b) \in -m..m
<1>1. ASSUME NEW c \in -m..m, NEW d \in Nat, d > 0
      PROVE  c \div d \in -m..m
  <2> DEFINE q == c \div d
  <2>1. q \in Int /\ q * d <= c /\ c < (q + 1) * d
    BY <1>1
  <2> HIDE DEF q
  <2>2. q <= m
    <3> SUFFICES ASSUME q > m PROVE FALSE
      BY <2>1
    <3>1. q * d >= q
      BY <1>1, <2>1
    <3> QED
      BY <1>1, <2>1, <3>1
  <2>3. q >= -m
    <3> SUFFICES ASSUME q < -m PROVE FALSE
      BY <2>1
    <3>1. (q + 1) * d <= q + 1
      BY <1>1, <2>1
    <3> QED
      BY <1>1, <2>1, <3>1
  <2> QED
    BY <2>1, <2>2, <2>3 DEF q
<1>2. CASE b > 0
  BY <1>1, <1>2 DEF Quotient
<1>3. CASE b < 0
  <2>1. -a \in -m..m /\ -b \in Nat /\ -b > 0
    BY <1>3
  <2>2. (-a) \div (-b) \in -m..m
    BY <1>1, <2>1
  <2> QED
    BY <1>3, <2>2 DEF Quotient
<1> QED
  BY <1>2, <1>3

-----------------------------------------------------------------------------
(* One set of IMU data.                                                     *)

\* The part of TypeOK that the stages read.
StageOK ==
    /\ pid_euler \in [Tilts -> PidState]
    /\ pid_euler_rate \in [Axes -> PidState]
    /\ dst_euler \in [Axes -> -Reach..Reach]

\* What a reading is, one part at a time.
LEMMA ReadingFacts ==
    ASSUME NEW r \in Readings
    PROVE  /\ r.euler \in [Tilts -> -Reach..Reach]
           /\ r.gyro \in [Axes -> -Reach..Reach]
BY ReadingsAssumption

LEMMA ReachFacts ==
    /\ Reach \in Nat /\ Scale \in Nat /\ Scale > 0
    /\ Reach * Scale \in Nat /\ AngleReach \in Nat
    /\ AngleReach = Reach * Scale + Reach * Scale
<1>1. Reach \in Nat /\ Scale \in Nat /\ Scale > 0
  BY ReachAssumption, ScaleAssumption
<1>2. Reach * Scale \in Nat
  BY <1>1
<1>3. 2 * Reach * Scale = Reach * Scale + Reach * Scale
  BY <1>1
<1> QED
  BY <1>1, <1>2, <1>3 DEF AngleReach

\* A stage's bounds have a magnitude that no output exceeds.
LEMMA MagnitudeFacts ==
    ASSUME NEW k \in {AngleK, RateK}
    PROVE  /\ Magnitude(k) \in Nat
           /\ \A x \in k.min..k.max : x \in -Magnitude(k)..Magnitude(k)
BY GainsFacts DEF Magnitude, Greater

LEMMA RateReachFacts ==
    /\ RateReach \in Nat
    /\ RateReach >= Magnitude(AngleK) + Reach * Scale
    /\ RateReach >= AngleReach
<1>1. Magnitude(AngleK) \in Nat
  BY MagnitudeFacts
<1> QED
  BY <1>1, ReachFacts DEF RateReach, Greater

\* The error of the first stage is at most as large as two readings apart.
LEMMA AngleErrorBound ==
    ASSUME StageOK, NEW r \in Readings, NEW a \in Tilts
    PROVE  AngleError(a, r) \in -AngleReach..AngleReach
<1>1. a \in Axes
  BY DEF Tilts, Axes
<1>2. dst_euler[a] \in -Reach..Reach /\ r.euler[a] \in -Reach..Reach
  BY <1>1, ReadingFacts DEF StageOK
<1>3. 2 * Reach \in Nat /\ dst_euler[a] - r.euler[a] \in -(2 * Reach)..(2 * Reach)
  BY <1>2, ReachFacts
<1>4. (dst_euler[a] - r.euler[a]) * Scale \in -(2 * Reach * Scale)..(2 * Reach * Scale)
  BY <1>3, ReachFacts, ProductBound
<1> QED
  BY <1>4 DEF AngleError, AngleReach

\* So is that of the second, whose set point is an output of the first.
LEMMA RateErrorBound ==
    ASSUME StageOK, NEW r \in Readings, NEW a \in Axes, NEW dt \in Int, dt # 0
    PROVE  RateError(a, r, dt) \in -RateReach..RateReach
<1>1. dst_euler[a] \in -Reach..Reach /\ r.gyro[a] \in -Reach..Reach
  BY ReadingFacts DEF StageOK
<1>2. /\ dst_euler[a] * Scale \in -(Reach * Scale)..(Reach * Scale)
      /\ r.gyro[a] * Scale \in -(Reach * Scale)..(Reach * Scale)
  BY <1>1, ReachFacts, ProductBound
<1>3. CASE a = "YAW"
  <2>1. RateError(a, r, dt) = dst_euler[a] * Scale - r.gyro[a] * Scale
    BY <1>3 DEF RateError
  <2> QED
    BY <2>1, <1>2, ReachFacts, RateReachFacts
<1>4. CASE a # "YAW"
  <2> DEFINE out == Output(pid_euler[a], AngleK, AngleError(a, r), dt)
  <2>1. a \in Tilts
    BY <1>4 DEF Tilts, Axes
  <2>2. pid_euler[a] \in PidState
    BY <2>1 DEF StageOK
  <2>3. AngleError(a, r) \in Int
    BY <2>1, AngleErrorBound, ReachFacts
  <2>4. out \in AngleK.min..AngleK.max
    BY <2>2, <2>3, PidType
  <2>5. RateError(a, r, dt) = out - r.gyro[a] * Scale
    BY <1>4 DEF RateError
  <2> HIDE DEF out
  <2>6. Magnitude(AngleK) \in Nat /\ out \in -Magnitude(AngleK)..Magnitude(AngleK)
    BY <2>4, MagnitudeFacts
  <2> QED
    BY <2>5, <2>6, <1>2, ReachFacts, RateReachFacts
<1> QED
  BY <1>3, <1>4

\* The outputs of the second stage, and what it adds to the ESCs.
LEMMA MixType ==
    ASSUME NEW p, \A a \in Axes : p[a] \in Int
    PROVE  \A e \in Escs : Mix(p)[e] \in Int
BY DEF Mix, Escs, Axes

LEMMA StageType ==
    ASSUME StageOK, NEW r \in Readings, NEW dt \in Int, dt # 0
    PROVE  \A a \in Axes :
             /\ RateError(a, r, dt) \in Int
             /\ Output(pid_euler_rate[a], RateK, RateError(a, r, dt), dt) \in Int
             /\ Updated(pid_euler_rate[a], RateK, RateError(a, r, dt), dt) \in PidState
<1> TAKE a \in Axes
<1>1. RateError(a, r, dt) \in Int
  BY RateErrorBound, RateReachFacts
<1>2. pid_euler_rate[a] \in PidState
  BY DEF StageOK
<1>3. /\ Output(pid_euler_rate[a], RateK, RateError(a, r, dt), dt) \in RateK.min..RateK.max
      /\ Updated(pid_euler_rate[a], RateK, RateError(a, r, dt), dt) \in PidState
  BY <1>1, <1>2, PidType
<1> QED
  BY <1>1, <1>3, GainsFacts

LEMMA AttitudeType ==
    ASSUME StageOK, throttle \in [Escs -> Int],
           NEW r \in Readings, NEW dt \in Int, dt # 0, AttitudeControl(r, dt)
    PROVE  /\ pid_euler' \in [Tilts -> PidState]
           /\ pid_euler_rate' \in [Axes -> PidState]
           /\ throttle' \in [Escs -> Limits]
<1>1. \A a \in Tilts : Updated(pid_euler[a], AngleK, AngleError(a, r), dt) \in PidState
  <2> TAKE a \in Tilts
  <2>1. pid_euler[a] \in PidState
    BY DEF StageOK
  <2>2. AngleError(a, r) \in Int
    BY AngleErrorBound, ReachFacts
  <2> QED
    BY <2>1, <2>2, PidType
<1>2. pid_euler' \in [Tilts -> PidState]
  BY <1>1 DEF AttitudeControl
<1>3. pid_euler_rate' \in [Axes -> PidState]
  BY StageType DEF AttitudeControl
<1> DEFINE out == [a \in Axes |-> Output(pid_euler_rate[a], RateK,
                                         RateError(a, r, dt), dt)]
<1>4. throttle' = [e \in Escs |-> Clamped(Added(throttle[e], Mix(out)[e]))]
  BY DEF AttitudeControl
<1>5. \A a \in Axes : out[a] \in Int
  BY StageType
<1> HIDE DEF out
<1>6. \A e \in Escs : Clamped(Added(throttle[e], Mix(out)[e])) \in Limits
  <2> TAKE e \in Escs
  <2>1. Mix(out)[e] \in Int
    BY <1>5, MixType
  <2>2. Added(throttle[e], Mix(out)[e]) \in Int
    BY <2>1, AddedType
  <2> QED
    BY <2>2, ClampedFacts
<1>7. throttle' \in [Escs -> Limits]
  BY <1>4, <1>6
<1> QED
  BY <1>2, <1>3, <1>7

-----------------------------------------------------------------------------
(* Types.                                                                   *)

LEMMA InitType == Init => TypeOK
<1> SUFFICES ASSUME Init PROVE TypeOK
  OBVIOUS
<1> USE DEF Init
<1>1. /\ pid_euler \in [Tilts -> PidState]
      /\ pid_euler_rate \in [Axes -> PidState]
  BY DEF PidState
<1>2. throttle \in [Escs -> Limits] \/ throttle = [e \in Escs |-> 0]
  BY ThrottleAssumption DEF Limits
<1>3. dst_euler \in [Axes -> -Reach..Reach]
  BY ReachAssumption
<1>5. /\ prev_timestamp \in 0..ClockRange - 1
      /\ first \in Nat \cup {-1} /\ latest \in Nat \cup {-1} /\ given \in Int
  BY ClockAssumption
<1>6. ready \in 0..MaxReady /\ commands \in 0..MaxCommands
  BY MaxAssumption
<1>7. configured \in BOOLEAN /\ steady \in BOOLEAN /\ whole \in BOOLEAN
  OBVIOUS
<1> QED
  BY <1>1, <1>2, <1>3, <1>5, <1>6, <1>7 DEF TypeOK

\* The throttles are numbers, set or not.
LEMMA ThrottleType == TypeOK => throttle \in [Escs -> Int]
BY ThrottleAssumption DEF TypeOK, Limits

LEMMA StageIsTyped == TypeOK => StageOK
BY DEF TypeOK, StageOK

\* What a set of data finds, whichever stage it runs.
LEMMA ReadyFacts ==
    ASSUME TypeOK, NEW t \in Times
    PROVE  /\ Elapsed(Stamp(t)) \in 0..ClockRange - 1
           /\ Signed(Elapsed(Stamp(t))) \in Int
           /\ Elapsed(Stamp(t)) # 0 => Signed(Elapsed(Stamp(t))) # 0
BY ElapsedType, StampType DEF TypeOK

LEMMA ReadyType ==
    ASSUME TypeOK, NEW t \in Times, NEW complete \in BOOLEAN,
           NEW r \in Readings, ImuReady(t, complete, r)
    PROVE  TypeOK'
<1> USE DEF ImuReady
<1> DEFINE dt == Elapsed(Stamp(t))
<1>1. dt \in 0..ClockRange - 1 /\ Signed(dt) \in Int /\ Signed(dt) # 0
  BY ReadyFacts
<1> HIDE DEF dt
<1>2. /\ pid_euler' \in [Tilts -> PidState]
      /\ pid_euler_rate' \in [Axes -> PidState]
      /\ throttle' \in [Escs -> Limits] \/ throttle' = [e \in Escs |-> 0]
  <2>1. CASE complete
    <3>1. AttitudeControl(r, Signed(dt))
      BY <2>1 DEF dt
    <3> QED
      BY <3>1, <1>1, AttitudeType, ThrottleType, StageIsTyped
  <2>2. CASE ~complete
    BY <2>2 DEF TypeOK, pids
  <2> QED
    BY <2>1, <2>2
<1>3. prev_timestamp' \in 0..ClockRange - 1
  BY StampType
<1>4. ready' \in 0..MaxReady /\ commands' \in 0..MaxCommands
  BY MaxAssumption DEF TypeOK
<1>5. steady' \in BOOLEAN /\ whole' \in BOOLEAN
  BY Zenon DEF Clocked
<1>6. first' \in Nat \cup {-1} /\ latest' \in Nat \cup {-1}
  BY StampType DEF Clocked, TypeOK
<1>7. given' \in Int
  <2>1. given' = given + Signed(dt) \/ given' = given
    BY DEF dt
  <2> QED
    BY <1>1, <2>1 DEF TypeOK
<1>8. configured' \in BOOLEAN /\ dst_euler' \in [Axes -> -Reach..Reach]
  BY DEF TypeOK
<1> QED
  BY <1>2, <1>3, <1>4, <1>5, <1>6, <1>7, <1>8 DEF TypeOK

LEMMA NextType == TypeOK /\ [Next]_vars => TypeOK'
<1> SUFFICES ASSUME TypeOK, [Next]_vars PROVE TypeOK'
  OBVIOUS
<1>1. ASSUME NEW t \in Times, ImuDropped(t) PROVE TypeOK'
  BY <1>1, MaxAssumption DEF TypeOK, ImuDropped, pids, history
<1>2. ASSUME NEW t \in Times, NEW complete \in BOOLEAN,
             NEW r \in Readings, ImuReady(t, complete, r)
      PROVE  TypeOK'
  BY <1>2, ReadyType
<1>3. ASSUME NEW target \in [Axes -> Angles \cup {0}], Euler(target) PROVE TypeOK'
  <2>1. dst_euler' \in [Axes -> -Reach..Reach]
    BY <1>3, InputsAssumption, ReachAssumption DEF Euler, TypeOK
  <2> QED
    BY <1>3, <2>1, MaxAssumption DEF Euler, TypeOK, pids, history
<1>4. ASSUME NEW amount \in Amounts, Throttle(amount) PROVE TypeOK'
  <2>1. throttle' \in [Escs -> Limits]
    <3>1. \A e \in Escs : throttle[e] + amount \in Int
      BY ThrottleType, InputsAssumption
    <3> QED
      BY <1>4, <3>1, ClampedFacts DEF Throttle
  <2> QED
    BY <1>4, <2>1, MaxAssumption DEF Throttle, TypeOK, pids, history
<1>5. CASE UNCHANGED vars
  BY <1>5 DEF TypeOK, vars, pids, history
<1> QED
  BY <1>1, <1>2, <1>3, <1>4, <1>5 DEF Next

\* Throttles that were ever set stay within the limits, and every variable has
\* its type: the cascade of divisions and cut-offs never leaves the integers,
\* as no set of data that runs it has an elapsed time of 0.
THEOREM TypeCorrect == Spec => []TypeOK
BY InitType, NextType, PTL DEF Spec

-----------------------------------------------------------------------------
(* The integrals.                                                           *)

\* The errors a stage keeps are as bounded as those it computes.
ErrorsBounded ==
    /\ \A a \in Tilts : pid_euler[a].last_error \in -AngleReach..AngleReach
    /\ \A a \in Axes : pid_euler_rate[a].last_error \in -RateReach..RateReach

IntegralInv == TypeOK /\ ErrorsBounded /\ IntegralsBounded

\* One call of pid_update: either the output is beyond its bounds and the
\* integral starts anew, or its weight is the output less the other two terms.
LEMMA UpdateIsBounded ==
    ASSUME NEW k \in {AngleK, RateK}, NEW pid \in PidState,
           NEW reach \in Nat, NEW error \in -reach..reach,
           pid.last_error \in -reach..reach, NEW dt \in Int, dt # 0
    PROVE  /\ Updated(pid, k, error, dt).last_error \in -reach..reach
           /\ Bounded(Updated(pid, k, error, dt), k, reach)
<1> DEFINE new == pid.sum_err + error * dt
           q == Quotient(error - pid.last_error, dt)
           most == Magnitude(k) + (k.kp + 2 * k.kd) * reach
<1>1. /\ k.kp \in Nat /\ k.ki \in Nat /\ k.kd \in Nat
      /\ k.min \in Int /\ k.max \in Int /\ k.min <= k.max
  BY GainsFacts
<1>2. new \in Int
  BY DEF PidState
<1>3. q \in -(2 * reach)..(2 * reach)
  <2>1. 2 * reach \in Nat /\ error - pid.last_error \in -(2 * reach)..(2 * reach)
    OBVIOUS
  <2> QED
    BY <2>1, QuotientBound
<1>4. Raw(pid, k, error, dt) = k.kp * error + k.ki * new + k.kd * q
  BY DEF Raw
<1>5. Updated(pid, k, error, dt).last_error = error
  BY DEF Updated
<1>6. Updated(pid, k, error, dt).sum_err
        = IF Saturated(Raw(pid, k, error, dt), k) THEN 0 ELSE new
  BY DEF Updated
<1> HIDE DEF new, q
<1>7. Magnitude(k) \in Nat
  BY MagnitudeFacts
<1>8. /\ k.kp * reach \in Nat /\ k.kd * (2 * reach) \in Nat
      /\ k.kp * error \in -(k.kp * reach)..(k.kp * reach)
      /\ k.kd * q \in -(k.kd * (2 * reach))..(k.kd * (2 * reach))
  <2>1. k.kp * error \in -(k.kp * reach)..(k.kp * reach)
    BY <1>1, ProductBound
  <2>2. 2 * reach \in Nat
    OBVIOUS
  <2>3. k.kd * q \in -(k.kd * (2 * reach))..(k.kd * (2 * reach))
    BY <1>1, <1>3, <2>2, ProductBound
  <2> QED
    BY <1>1, <2>1, <2>3
<1>9. most = Magnitude(k) + k.kp * reach + k.kd * (2 * reach)
  BY <1>1, <1>7
<1> HIDE DEF most
<1>10. CASE Saturated(Raw(pid, k, error, dt), k)
  <2>1. Updated(pid, k, error, dt).sum_err = 0 /\ k.ki * 0 = 0
    BY <1>1, <1>6, <1>10
  <2>2. 0 \in -most..most
    BY <1>7, <1>8, <1>9
  <2>3. Bounded(Updated(pid, k, error, dt), k, reach)
    BY <2>1, <2>2 DEF Bounded, most
  <2> QED
    BY <1>5, <2>3
<1>11. CASE ~Saturated(Raw(pid, k, error, dt), k)
  <2>1. k.ki * new \in Int
    BY <1>1, <1>2
  <2>2. Raw(pid, k, error, dt) \in Int
    BY <1>4, <1>8, <2>1
  <2>3. Raw(pid, k, error, dt) \in k.min..k.max
    BY <1>1, <1>11, <2>2 DEF Saturated
  <2>4. Raw(pid, k, error, dt) \in -Magnitude(k)..Magnitude(k)
    BY <2>3, MagnitudeFacts
  <2>5. k.ki * new \in -most..most
    BY <1>4, <1>7, <1>8, <1>9, <2>1, <2>4
  <2>6. Updated(pid, k, error, dt).sum_err = new
    BY <1>6, <1>11
  <2>7. Bounded(Updated(pid, k, error, dt), k, reach)
    BY <2>5, <2>6 DEF Bounded, most
  <2> QED
    BY <1>5, <2>7
<1> QED
  BY <1>10, <1>11

LEMMA StagesAreBounded ==
    ASSUME IntegralInv, NEW r \in Readings, NEW dt \in Int, dt # 0,
           AttitudeControl(r, dt)
    PROVE  ErrorsBounded' /\ IntegralsBounded'
<1>0. StageOK /\ ErrorsBounded
  BY StageIsTyped DEF IntegralInv
<1>1. ASSUME NEW a \in Tilts
      PROVE  /\ pid_euler'[a].last_error \in -AngleReach..AngleReach
             /\ Bounded(pid_euler'[a], AngleK, AngleReach)
  <2>1. pid_euler[a] \in PidState /\ pid_euler[a].last_error \in -AngleReach..AngleReach
    BY <1>0 DEF StageOK, ErrorsBounded
  <2>2. AngleError(a, r) \in -AngleReach..AngleReach
    BY <1>0, AngleErrorBound
  <2>3. pid_euler'[a] = Updated(pid_euler[a], AngleK, AngleError(a, r), dt)
    BY DEF AttitudeControl
  <2> QED
    BY <2>1, <2>2, <2>3, ReachFacts, UpdateIsBounded
<1>2. ASSUME NEW a \in Axes
      PROVE  /\ pid_euler_rate'[a].last_error \in -RateReach..RateReach
             /\ Bounded(pid_euler_rate'[a], RateK, RateReach)
  <2>1. /\ pid_euler_rate[a] \in PidState
        /\ pid_euler_rate[a].last_error \in -RateReach..RateReach
    BY <1>0 DEF StageOK, ErrorsBounded
  <2>2. RateError(a, r, dt) \in -RateReach..RateReach
    BY <1>0, RateErrorBound
  <2>3. pid_euler_rate'[a] = Updated(pid_euler_rate[a], RateK, RateError(a, r, dt), dt)
    BY DEF AttitudeControl
  <2> QED
    BY <2>1, <2>2, <2>3, RateReachFacts, UpdateIsBounded
<1>3. ErrorsBounded'
  BY <1>1, <1>2 DEF ErrorsBounded
<1>4. IntegralsBounded'
  BY <1>1, <1>2 DEF IntegralsBounded
<1> QED
  BY <1>3, <1>4

LEMMA InitIntegral == Init => IntegralInv
<1> SUFFICES ASSUME Init PROVE IntegralInv
  OBVIOUS
<1>1. AngleReach \in Nat /\ RateReach \in Nat
  BY ReachFacts, RateReachFacts
<1>2. /\ \A a \in Tilts : pid_euler[a] = [sum_err |-> 0, last_error |-> 0]
      /\ \A a \in Axes : pid_euler_rate[a] = [sum_err |-> 0, last_error |-> 0]
  BY DEF Init
<1>3. ErrorsBounded
  BY <1>1, <1>2 DEF ErrorsBounded
<1>4. ASSUME NEW k \in {AngleK, RateK}, NEW reach \in Nat, NEW pid \in PidState,
             pid.sum_err = 0
      PROVE  Bounded(pid, k, reach)
  <2> DEFINE most == Magnitude(k) + (k.kp + 2 * k.kd) * reach
  <2>1. k.kp \in Nat /\ k.ki \in Nat /\ k.kd \in Nat /\ Magnitude(k) \in Nat
    BY GainsFacts, MagnitudeFacts
  <2>2. (k.kp + 2 * k.kd) * reach \in Nat /\ k.ki * 0 = 0
    BY <2>1
  <2>3. 0 \in -most..most
    BY <2>1, <2>2
  <2> QED
    BY <1>4, <2>2, <2>3 DEF Bounded
<1>5. [sum_err |-> 0, last_error |-> 0] \in PidState
  BY DEF PidState
<1>6. IntegralsBounded
  BY <1>1, <1>2, <1>4, <1>5 DEF IntegralsBounded
<1> QED
  BY <1>3, <1>6, InitType DEF IntegralInv

LEMMA NextIntegral == IntegralInv /\ [Next]_vars => IntegralInv'
<1> SUFFICES ASSUME IntegralInv, [Next]_vars PROVE IntegralInv'
  OBVIOUS
<1>1. TypeOK'
  BY NextType DEF IntegralInv
<1>2. ASSUME UNCHANGED pids PROVE ErrorsBounded' /\ IntegralsBounded'
  BY <1>2 DEF IntegralInv, ErrorsBounded, IntegralsBounded, pids
<1>3. ASSUME NEW t \in Times, NEW complete \in BOOLEAN,
             NEW r \in Readings, ImuReady(t, complete, r)
      PROVE  ErrorsBounded' /\ IntegralsBounded'
  <2>1. CASE complete
    <3>1. AttitudeControl(r, Signed(Elapsed(Stamp(t)))) /\ Elapsed(Stamp(t)) # 0
      BY <1>3, <2>1 DEF ImuReady
    <3>2. Signed(Elapsed(Stamp(t))) \in Int /\ Signed(Elapsed(Stamp(t))) # 0
      BY <3>1, ReadyFacts DEF IntegralInv
    <3> QED
      BY <3>1, <3>2, StagesAreBounded
  <2>2. CASE ~complete
    BY <1>2, <1>3, <2>2 DEF ImuReady
  <2> QED
    BY <2>1, <2>2
<1>4. UNCHANGED pids \/ \E t \in Times, complete \in BOOLEAN, r \in Readings :
                            ImuReady(t, complete, r)
  BY DEF Next, vars, ImuDropped, Euler, Throttle
<1> QED
  BY <1>1, <1>2, <1>3, <1>4 DEF IntegralInv

\* No integral winds up, for all gains and all readings within Reach: its weight
\* never exceeds what the output bounds and the largest errors account for.
THEOREM IntegralsNeverWindUp == Spec => []IntegralsBounded
<1>1. IntegralInv => IntegralsBounded
  BY DEF IntegralInv
<1> QED
  BY <1>1, InitIntegral, NextIntegral, PTL DEF Spec

-----------------------------------------------------------------------------
(* The lift.                                                                *)

\* Four sums cut off, whose exact total the mix leaves as it was.
LEMMA FourCutOffs ==
    ASSUME NEW old \in Int, NEW new \in Int,
           Scale * new <= Scale * old, Scale * old < Scale * (new + 4)
    PROVE  new \in old - 3 .. old
<1>1. Scale \in Nat /\ Scale > 0
  BY ScaleAssumption
<1>2. new <= old
  <2> SUFFICES ASSUME new >= old + 1 PROVE FALSE
    OBVIOUS
  <2>1. Scale * (new - old) >= 1
    BY <1>1
  <2>2. Scale * (new - old) = Scale * new - Scale * old
    BY <1>1
  <2> QED
    BY <1>1, <2>1, <2>2
<1>3. old < new + 4
  <2> SUFFICES ASSUME old >= new + 4 PROVE FALSE
    OBVIOUS
  <2>1. Scale * (old - (new + 4)) >= 0
    BY <1>1
  <2>2. Scale * (old - (new + 4)) = Scale * old - Scale * (new + 4)
    BY <1>1
  <2> QED
    BY <1>1, <2>1, <2>2
<1> QED
  BY <1>2, <1>3

\* One ESC that ends strictly within the limits.
LEMMA OneEsc ==
    ASSUME NEW t \in Int, NEW x \in Int, NEW new, new = Clamped(Added(t, x)),
           MinThrottle < new, new < MaxThrottle
    PROVE  new \in Int /\ new * Scale <= t * Scale + x /\ t * Scale + x < (new + 1) * Scale
<1>1. Added(t, x) \in Int
  BY AddedType
<1>2. new = Added(t, x)
  BY <1>1, ClampedFacts
<1>3. new > 0
  BY <1>1, <1>2, ThrottleAssumption
<1> QED
  BY <1>1, <1>2, <1>3, AddedRoundsDown

LEMMA StageKeepsLift ==
    ASSUME TypeOK, NEW r \in Readings, NEW dt \in Int, dt # 0, AttitudeControl(r, dt),
           \A e \in Escs : MinThrottle < throttle'[e] /\ throttle'[e] < MaxThrottle
    PROVE  Lift' \in Lift - 3 .. Lift
<1> DEFINE out == [a \in Axes |-> Output(pid_euler_rate[a], RateK,
                                         RateError(a, r, dt), dt)]
<1>1. \A e \in Escs : throttle'[e] = Clamped(Added(throttle[e], Mix(out)[e]))
  BY DEF AttitudeControl
<1>2. \A a \in Axes : out[a] \in Int
  BY StageType, StageIsTyped
<1>3. throttle \in [Escs -> Int]
  BY ThrottleType
<1> HIDE DEF out
<1> DEFINE p == out["PITCH"]
           q == out["ROLL"]
           y == out["YAW"]
           After(e, x) == /\ throttle[e] \in Int /\ throttle'[e] \in Int
                          /\ throttle'[e] * Scale <= throttle[e] * Scale + x
                          /\ throttle[e] * Scale + x < (throttle'[e] + 1) * Scale
<1>4. p \in Int /\ q \in Int /\ y \in Int
  BY <1>2 DEF Axes
<1>5. \A e \in Escs : After(e, Mix(out)[e])
  <2> TAKE e \in Escs
  <2>1. Mix(out)[e] \in Int /\ throttle[e] \in Int
    BY <1>2, <1>3, MixType
  <2> QED
    BY <1>1, <2>1, OneEsc
<1>6. /\ "front" \in Escs /\ "rear" \in Escs /\ "left" \in Escs /\ "right" \in Escs
      /\ Mix(out)["front"] = p + y /\ Mix(out)["rear"] = -p + y
      /\ Mix(out)["left"] = q - y /\ Mix(out)["right"] = -q - y
  BY DEF Mix, Escs
<1>7. After("front", p + y) /\ After("rear", -p + y)
      /\ After("left", q - y) /\ After("right", -q - y)
  BY <1>5, <1>6
<1> HIDE DEF p, q, y
<1> DEFINE f == throttle["front"]   f1 == throttle'["front"]
           b == throttle["rear"]    b1 == throttle'["rear"]
           l == throttle["left"]    l1 == throttle'["left"]
           s == throttle["right"]   s1 == throttle'["right"]
<1>8. /\ f \in Int /\ b \in Int /\ l \in Int /\ s \in Int
      /\ f1 \in Int /\ b1 \in Int /\ l1 \in Int /\ s1 \in Int
  BY <1>7
<1>9. Lift = f + b + l + s /\ Lift' = f1 + b1 + l1 + s1
  BY DEF Lift
<1>10. /\ f1 * Scale <= f * Scale + (p + y) /\ f * Scale + (p + y) < (f1 + 1) * Scale
       /\ b1 * Scale <= b * Scale + (-p + y) /\ b * Scale + (-p + y) < (b1 + 1) * Scale
       /\ l1 * Scale <= l * Scale + (q - y) /\ l * Scale + (q - y) < (l1 + 1) * Scale
       /\ s1 * Scale <= s * Scale + (-q - y) /\ s * Scale + (-q - y) < (s1 + 1) * Scale
  BY <1>7
<1> HIDE DEF f, b, l, s, f1, b1, l1, s1
<1>11. Scale \in Nat
  BY ScaleAssumption
<1>12. /\ \A n \in Int : n * Scale \in Int /\ (n + 1) * Scale = n * Scale + Scale
       /\ Scale * (f + b + l + s) = f * Scale + b * Scale + l * Scale + s * Scale
       /\ Scale * (f1 + b1 + l1 + s1) = f1 * Scale + b1 * Scale + l1 * Scale + s1 * Scale
       /\ Scale * (f1 + b1 + l1 + s1 + 4)
            = f1 * Scale + b1 * Scale + l1 * Scale + s1 * Scale + 4 * Scale
  BY <1>8, <1>11
<1>13. /\ Scale * (f1 + b1 + l1 + s1) <= Scale * (f + b + l + s)
       /\ Scale * (f + b + l + s) < Scale * (f1 + b1 + l1 + s1 + 4)
  BY <1>4, <1>8, <1>10, <1>11, <1>12
<1>14. f + b + l + s \in Int /\ f1 + b1 + l1 + s1 \in Int
  BY <1>8
<1> QED
  BY <1>9, <1>13, <1>14, FourCutOffs

\* The attitude stages never add lift, and what they lose to the cut-off
\* fractions is at most three units a set of data: for all gains, limits and
\* readings, as long as no ESC ends at a limit.
THEOREM LiftIsKept == Spec => LiftKept
<1> DEFINE Kept == ready' # ready
                     /\ (\A e \in Escs : MinThrottle < throttle'[e]
                                         /\ throttle'[e] < MaxThrottle)
                     => Lift' \in Lift - 3 .. Lift
<1>1. TypeOK /\ [Next]_vars => [Kept]_vars
  <2> SUFFICES ASSUME TypeOK, Next, ready' # ready,
                      \A e \in Escs : MinThrottle < throttle'[e]
                                      /\ throttle'[e] < MaxThrottle
               PROVE  Lift' \in Lift - 3 .. Lift
    OBVIOUS
  <2>1. ready \in Int /\ \A e \in Escs : throttle[e] \in Int
    BY ThrottleType DEF TypeOK
  <2>2. ASSUME UNCHANGED throttle PROVE Lift' \in Lift - 3 .. Lift
    BY <2>1, <2>2 DEF Lift, Escs
  <2>3. ASSUME NEW t \in Times, NEW complete \in BOOLEAN,
               NEW r \in Readings, ImuReady(t, complete, r)
        PROVE  Lift' \in Lift - 3 .. Lift
    <3>1. CASE complete
      <4>1. AttitudeControl(r, Signed(Elapsed(Stamp(t)))) /\ Elapsed(Stamp(t)) # 0
        BY <2>3, <3>1 DEF ImuReady
      <4>2. Signed(Elapsed(Stamp(t))) \in Int /\ Signed(Elapsed(Stamp(t))) # 0
        BY <4>1, ReadyFacts
      <4> QED
        BY <4>1, <4>2, StageKeepsLift
    <3>2. CASE ~complete
      BY <2>2, <2>3, <3>2 DEF ImuReady
    <3> QED
      BY <3>1, <3>2
  <2>4. \/ \E t \in Times : ImuDropped(t)
        \/ \E t \in Times, complete \in BOOLEAN, r \in Readings :
               ImuReady(t, complete, r)
    BY DEF Next, Euler, Throttle
  <2> QED
    BY <2>2, <2>3, <2>4 DEF ImuDropped, pids, history
<1> QED
  BY <1>1, TypeCorrect, PTL DEF Spec, LiftKept

-----------------------------------------------------------------------------
(* The time.                                                                *)

\* What two stamps are apart, around the clock, is what is left of the times'
\* own distance: it falls short of the distance by whole turns.
LEMMA StampsApart ==
    ASSUME NEW a \in Nat, NEW b \in Nat
    PROVE  /\ (Stamp(b) - Stamp(a) + ClockRange) % ClockRange \in 0..ClockRange - 1
           /\ \E q \in Int :
                b - a = q * ClockRange
                          + ((Stamp(b) - Stamp(a) + ClockRange) % ClockRange)
<1> DEFINE c == ClockRange
           u == a \div c
           v == b \div c
           x == a % c
           y == b % c
           w == y - x + c
           p == w \div c
           d == w % c
<1>1. c \in Nat /\ c > 2
  BY ClockAssumption
<1>2. u \in Int /\ x \in 0..c - 1 /\ a = u * c + x
  BY <1>1, Z3
<1>3. v \in Int /\ y \in 0..c - 1 /\ b = v * c + y
  BY <1>1, Z3
<1>4. Stamp(a) = x /\ Stamp(b) = y
  BY DEF Stamp
<1> HIDE DEF u, v, x, y
<1>5. w \in Int
  BY <1>1, <1>2, <1>3
<1> HIDE DEF w
<1>6. p \in Int /\ d \in 0..c - 1 /\ w = p * c + d
  BY <1>1, <1>5, Z3
<1> HIDE DEF p, d
<1>7. v - u + p - 1 \in Int
  BY <1>2, <1>3, <1>6
<1>8. (v - u + p - 1) * c = v * c - u * c + p * c - c
  BY <1>1, <1>2, <1>3, <1>6
<1>9. b - a = (v - u + p - 1) * c + d
  <2>1. y - x + c = p * c + d
    BY <1>6 DEF w
  <2>2. u * c \in Int /\ v * c \in Int /\ p * c \in Int
    BY <1>1, <1>2, <1>3, <1>6
  <2> QED
    BY <1>1, <1>2, <1>3, <1>6, <1>8, <2>1, <2>2
<1>10. (Stamp(b) - Stamp(a) + ClockRange) % ClockRange = d
  BY <1>4 DEF d, w
<1> QED
  BY <1>6, <1>7, <1>9, <1>10

\* The time since the last data, whose stamp is not 0: never more than it is
\* when the clock was not set back, and exactly what it is when that fits.
LEMMA ElapsedFacts ==
    ASSUME NEW t \in Times, latest \in Nat, prev_timestamp = Stamp(latest), prev_timestamp # 0
    PROVE  LET dt == Signed(Elapsed(Stamp(t)))
           IN  /\ dt \in Int
               /\ latest <= t => dt <= t - latest
               /\ Near(t) => dt = t - latest
<1> DEFINE c == ClockRange
           d == Elapsed(Stamp(t))
<1>1. c \in Nat /\ c > 2 /\ t \in Nat
  BY ClockAssumption, StampType
<1>2. d = (Stamp(t) - Stamp(latest) + c) % c
  BY DEF Elapsed
<1>3. d \in 0..c - 1 /\ \E q \in Int : t - latest = q * c + d
  BY <1>1, <1>2, StampsApart
<1>4. PICK q \in Int : t - latest = q * c + d
  BY <1>3
<1> HIDE DEF d
<1>5. q * c \in Int
  BY <1>1
<1>6. /\ q >= 0 => q * c >= 0
      /\ q >= 1 => q * c >= c
      /\ q <= -1 => q * c <= -c
      /\ q <= -2 => q * c <= -(2 * c)
  BY <1>1
<1>7. q = 0 => q * c = 0
  BY <1>1
<1>8. q = -1 => q * c = -c
  BY <1>1
<1>9. Signed(d) \in Int /\ (Signed(d) = d \/ Signed(d) = d - c) /\ Signed(d) <= d
  BY <1>1, <1>3 DEF Signed
<1>10. ASSUME latest <= t PROVE Signed(d) <= t - latest
  <2>1. q >= 0
    BY <1>1, <1>3, <1>4, <1>5, <1>6, <1>10
  <2> QED
    BY <1>1, <1>3, <1>4, <1>5, <1>6, <1>9, <2>1
<1>11. ASSUME Near(t) PROVE Signed(d) = t - latest
  <2>1. -c <= 2 * (t - latest) /\ 2 * (t - latest) < c
    BY <1>11 DEF Near
  <2>2. q = 0 \/ q = -1
    BY <1>1, <1>3, <1>4, <1>5, <1>6, <2>1
  <2>3. CASE q = 0
    BY <1>1, <1>3, <1>4, <1>7, <2>1, <2>3 DEF Signed
  <2>4. CASE q = -1
    BY <1>1, <1>3, <1>4, <1>8, <2>1, <2>4 DEF Signed
  <2> QED
    BY <2>2, <2>3, <2>4
<1> QED
  BY <1>9, <1>10, <1>11 DEF d

\* The stages are given nothing before the first data; then the last timestamp is
\* that of the last data, and not 0 unless a property is off anyway.
TimeInv ==
    /\ TypeOK
    /\ first = -1 => prev_timestamp = 0 /\ given = 0 /\ latest = -1
    /\ first # -1 => latest # -1 /\ prev_timestamp = Stamp(latest)
    /\ first # -1 /\ (steady \/ whole) => prev_timestamp # 0
    /\ TimeAddsUp

LEMMA ReadyTime ==
    ASSUME TimeInv, NEW t \in Times, NEW complete \in BOOLEAN,
           NEW r \in Readings, ImuReady(t, complete, r)
    PROVE  TimeInv'
<1> DEFINE dt == Elapsed(Stamp(t))
           d  == Signed(dt)
<1>1. ClockRange \in Nat /\ ClockRange > 2 /\ t \in Nat
  BY ClockAssumption, StampType
<1>2. /\ TypeOK' /\ given \in Int
      /\ first \in Nat \cup {-1} /\ latest \in Nat \cup {-1}
  BY ReadyType DEF TimeInv, TypeOK
<1>3. /\ prev_timestamp' = Stamp(t) /\ latest' = t
      /\ first' = IF first = -1 THEN t ELSE first
  BY DEF ImuReady, Clocked
<1>4. first' # -1 /\ latest' # -1 /\ prev_timestamp' = Stamp(latest')
  BY <1>1, <1>2, <1>3
<1>5. /\ steady' => steady /\ latest <= t /\ Stamp(t) # 0
      /\ whole' => whole /\ complete /\ Stamp(t) # 0 /\ (first # -1 => Near(t))
  BY Zenon DEF ImuReady, Clocked
<1>6. IF complete THEN given' = given + d ELSE given' = given
  BY DEF ImuReady
<1>7. /\ steady' => given' <= t - first' + 1
      /\ whole' => given' = t - first' + 1
  <2>1. CASE first = -1
    <3>1. d = 1 /\ given = 0 /\ first' = t
      BY <1>1, <1>3, <2>1 DEF TimeInv, Elapsed, Signed
    <3> QED
      BY <1>1, <1>5, <1>6, <3>1
  <2>2. CASE first # -1
    <3> SUFFICES ASSUME steady' \/ whole'
                 PROVE  /\ steady' => given' <= t - first' + 1
                        /\ whole' => given' = t - first' + 1
      OBVIOUS
    <3>1. latest \in Nat /\ prev_timestamp = Stamp(latest) /\ prev_timestamp # 0
      BY <1>2, <1>5, <2>2 DEF TimeInv
    <3>2. d \in Int /\ (latest <= t => d <= t - latest) /\ (Near(t) => d = t - latest)
      BY <3>1, ElapsedFacts
    <3>3. first \in Nat /\ first' = first
      BY <1>2, <1>3, <2>2
    <3>4. (steady => given <= latest - first + 1) /\ (whole => given = latest - first + 1)
      BY <2>2 DEF TimeInv, TimeAddsUp
    <3> HIDE DEF d
    <3>5. steady' => given' <= t - first + 1
      BY <1>1, <1>2, <1>5, <1>6, <3>1, <3>2, <3>3, <3>4
    <3>6. whole' => given' = t - first + 1
      BY <1>1, <1>2, <1>5, <1>6, <2>2, <3>1, <3>2, <3>3, <3>4
    <3> QED
      BY <3>3, <3>5, <3>6
  <2> QED
    BY <2>1, <2>2
<1>8. steady' \/ whole' => prev_timestamp' # 0
  BY <1>3, <1>5
<1>9. TimeAddsUp'
  BY <1>3, <1>7 DEF TimeAddsUp
<1> QED
  BY <1>2, <1>4, <1>8, <1>9 DEF TimeInv

\* While the clock is not set back the stages are never given more time than has
\* passed since the first data, and when no data were incomplete or late they are
\* given exactly that (quadcopter.c 325-345), for every range of the clock and any
\* number of its wraps.
THEOREM TimeIsKept == Spec => []TimeAddsUp
<1>1. Init => TimeInv
  BY InitType DEF Init, TimeInv, TimeAddsUp
<1>2. TimeInv /\ [Next]_vars => TimeInv'
  <2> SUFFICES ASSUME TimeInv, [Next]_vars PROVE TimeInv'
    OBVIOUS
  <2>1. TypeOK'
    BY NextType DEF TimeInv
  <2>2. CASE UNCHANGED <<prev_timestamp, history>>
    BY <2>1, <2>2 DEF TimeInv, TimeAddsUp, history
  <2>3. ASSUME NEW t \in Times, NEW complete \in BOOLEAN,
               NEW r \in Readings, ImuReady(t, complete, r)
        PROVE  TimeInv'
    BY <2>3, ReadyTime
  <2> QED
    BY <2>2, <2>3 DEF Next, ImuDropped, Euler, Throttle, vars
<1>3. TimeInv => TimeAddsUp
  BY DEF TimeInv
<1> QED
  BY <1>1, <1>2, <1>3, PTL DEF Spec

-----------------------------------------------------------------------------
(* What is still to do, by kinds of steps: X and Y are sets of them.         *)

None(w, X) == \A i \in DOMAIN w : w[i] \notin X
\* A step of X comes, and none of Y after it.
Ahead(w, X, Y) == \E i \in DOMAIN w : w[i] \in X /\ \A j \in DOMAIN w : i < j => w[j] \notin Y
\* After every step of X comes one of Y, comes none of Y; before it one of Y.
Follows(w, X, Y) == \A i \in DOMAIN w : w[i] \in X => \E j \in DOMAIN w : i < j /\ w[j] \in Y
Order(w, X, Y) == \A i, j \in DOMAIN w : i < j /\ w[i] \in X => w[j] \notin Y
Led(w, X, Y) == \A i \in DOMAIN w : w[i] \in X => \E j \in DOMAIN w : j < i /\ w[j] \in Y

\* Where the steps of two sequences are in the one made of them.
LEMMA CatPlaces ==
    ASSUME NEW S, NEW u \in Seq(S), NEW t \in Seq(S)
    PROVE  /\ u \o t \in Seq(S) /\ Len(u) \in Nat /\ Len(t) \in Nat
           /\ DOMAIN u = 1..Len(u) /\ DOMAIN t = 1..Len(t)
           /\ DOMAIN (u \o t) = 1..Len(u) + Len(t)
           /\ \A i \in DOMAIN u : i \in DOMAIN (u \o t) /\ (u \o t)[i] = u[i]
           /\ \A j \in DOMAIN t : Len(u) + j \in DOMAIN (u \o t) /\ (u \o t)[Len(u) + j] = t[j]
           /\ \A k \in DOMAIN (u \o t) : k \in DOMAIN u \/ (k - Len(u) \in DOMAIN t /\ Len(u) < k)
<1>1. u \o t \in Seq(S) /\ Len(u \o t) = Len(u) + Len(t) /\ Len(u) \in Nat /\ Len(t) \in Nat
  OBVIOUS
<1>2. DOMAIN u = 1..Len(u) /\ DOMAIN t = 1..Len(t) /\ DOMAIN (u \o t) = 1..Len(u) + Len(t)
  BY <1>1
<1>3. \A k \in 1..Len(u) + Len(t) : (u \o t)[k] = IF k <= Len(u) THEN u[k] ELSE t[k - Len(u)]
  BY ConcatProperties
<1>4. \A i \in DOMAIN u : i \in DOMAIN (u \o t) /\ (u \o t)[i] = u[i]
  BY <1>1, <1>2, <1>3
<1>5. ASSUME NEW j \in DOMAIN t
      PROVE  Len(u) + j \in DOMAIN (u \o t) /\ (u \o t)[Len(u) + j] = t[j]
  <2>1. j \in 1..Len(t) /\ Len(u) + j \in 1..Len(u) + Len(t) /\ ~(Len(u) + j <= Len(u))
        /\ (Len(u) + j) - Len(u) = j
    BY <1>1, <1>2
  <2> QED BY <1>2, <1>3, <2>1
<1>6. \A k \in DOMAIN (u \o t) : k \in DOMAIN u \/ (k - Len(u) \in DOMAIN t /\ Len(u) < k)
  BY <1>1, <1>2
<1> QED BY <1>1, <1>2, <1>4, <1>5, <1>6

\* One list of steps after another: each of the five, read off its two parts.
LEMMA NoneCat ==
    ASSUME NEW S, NEW u \in Seq(S), NEW t \in Seq(S), NEW X
    PROVE  None(u \o t, X) <=> None(u, X) /\ None(t, X)
<1>1. ASSUME None(u \o t, X) PROVE None(u, X) /\ None(t, X)
  <2>1. \A i \in DOMAIN u : u[i] \notin X
    BY <1>1, CatPlaces DEF None
  <2>2. \A j \in DOMAIN t : t[j] \notin X
    <3>1. \A j \in DOMAIN t : Len(u) + j \in DOMAIN (u \o t) /\ (u \o t)[Len(u) + j] = t[j]
      BY CatPlaces
    <3> QED BY <1>1, <3>1 DEF None
  <2> QED BY <2>1, <2>2 DEF None
<1>2. ASSUME None(u, X), None(t, X) PROVE None(u \o t, X)
  <2> SUFFICES ASSUME NEW k \in DOMAIN (u \o t) PROVE (u \o t)[k] \notin X
    BY DEF None
  <2>1. CASE k \in DOMAIN u
    BY <1>2, <2>1, CatPlaces DEF None
  <2>2. CASE k - Len(u) \in DOMAIN t
    <3>1. (u \o t)[Len(u) + (k - Len(u))] = t[k - Len(u)] /\ Len(u) \in Nat /\ k \in Int
      BY <2>2, CatPlaces
    <3>2. Len(u) + (k - Len(u)) = k
      BY <3>1
    <3> QED BY <1>2, <2>2, <3>1, <3>2 DEF None
  <2> QED BY <2>1, <2>2, CatPlaces
<1> QED BY <1>1, <1>2

\* What a place behind u holds.
LEMMA CatBehind ==
    ASSUME NEW S, NEW u \in Seq(S), NEW t \in Seq(S), NEW k \in DOMAIN (u \o t), k \notin DOMAIN u
    PROVE  k \in Int /\ k - Len(u) \in DOMAIN t /\ (u \o t)[k] = t[k - Len(u)] /\ Len(u) < k
<1>1. k - Len(u) \in DOMAIN t /\ Len(u) < k /\ Len(u) \in Nat /\ k \in Int
  BY CatPlaces
<1>2. (u \o t)[Len(u) + (k - Len(u))] = t[k - Len(u)]
  BY <1>1, CatPlaces
<1>3. Len(u) + (k - Len(u)) = k
  BY <1>1
<1> QED BY <1>1, <1>2, <1>3

LEMMA AheadCat ==
    ASSUME NEW S, NEW u \in Seq(S), NEW t \in Seq(S), NEW X, NEW Y
    PROVE  Ahead(u \o t, X, Y) <=> Ahead(t, X, Y) \/ (Ahead(u, X, Y) /\ None(t, Y))
<1>t. Len(u) \in Nat /\ Len(t) \in Nat /\ DOMAIN u = 1..Len(u) /\ DOMAIN t = 1..Len(t)
  BY CatPlaces
<1>1. ASSUME Ahead(t, X, Y) PROVE Ahead(u \o t, X, Y)
  <2>1. PICK i \in DOMAIN t : t[i] \in X /\ \A j \in DOMAIN t : i < j => t[j] \notin Y
    BY <1>1 DEF Ahead
  <2>2. Len(u) + i \in DOMAIN (u \o t) /\ (u \o t)[Len(u) + i] \in X
    BY <2>1, CatPlaces
  <2>3. ASSUME NEW k \in DOMAIN (u \o t), Len(u) + i < k PROVE (u \o t)[k] \notin Y
    <3>1. k \notin DOMAIN u
      BY <1>t, <2>3, CatPlaces
    <3>2. k \in Int /\ k - Len(u) \in DOMAIN t /\ (u \o t)[k] = t[k - Len(u)]
      BY <3>1, CatBehind
    <3>3. i < k - Len(u)
      BY <1>t, <2>3, <3>2
    <3> QED BY <2>1, <3>2, <3>3
  <2> QED BY <2>2, <2>3 DEF Ahead
<1>2. ASSUME Ahead(u, X, Y), None(t, Y) PROVE Ahead(u \o t, X, Y)
  <2>1. PICK i \in DOMAIN u : u[i] \in X /\ \A j \in DOMAIN u : i < j => u[j] \notin Y
    BY <1>2 DEF Ahead
  <2>2. i \in DOMAIN (u \o t) /\ (u \o t)[i] \in X
    BY <2>1, CatPlaces
  <2>3. ASSUME NEW k \in DOMAIN (u \o t), i < k PROVE (u \o t)[k] \notin Y
    <3>1. CASE k \in DOMAIN u
      BY <2>1, <2>3, <3>1, CatPlaces
    <3>2. CASE k \notin DOMAIN u
      BY <1>2, <3>2, CatBehind DEF None
    <3> QED BY <3>1, <3>2
  <2> QED BY <2>2, <2>3 DEF Ahead
<1>3. ASSUME Ahead(u \o t, X, Y) PROVE Ahead(t, X, Y) \/ (Ahead(u, X, Y) /\ None(t, Y))
  <2>1. PICK k \in DOMAIN (u \o t) :
          (u \o t)[k] \in X /\ \A j \in DOMAIN (u \o t) : k < j => (u \o t)[j] \notin Y
    BY <1>3 DEF Ahead
  <2>2. CASE k \in DOMAIN u
    <3>1. u[k] \in X /\ \A j \in DOMAIN u : k < j => u[j] \notin Y
      BY <2>1, <2>2, CatPlaces
    <3>2. ASSUME NEW j \in DOMAIN t PROVE t[j] \notin Y
      <4>1. k < Len(u) + j
        BY <1>t, <2>2
      <4> QED BY <2>1, <4>1, CatPlaces
    <3> QED BY <2>2, <3>1, <3>2 DEF Ahead, None
  <2>3. CASE k \notin DOMAIN u
    <3>1. k \in Int /\ k - Len(u) \in DOMAIN t /\ t[k - Len(u)] \in X
      BY <2>1, <2>3, CatBehind
    <3>2. ASSUME NEW j \in DOMAIN t, k - Len(u) < j PROVE t[j] \notin Y
      <4>1. k < Len(u) + j
        BY <1>t, <3>1, <3>2
      <4> QED BY <2>1, <4>1, CatPlaces
    <3> QED BY <3>1, <3>2 DEF Ahead
  <2> QED BY <2>2, <2>3
<1> QED BY <1>1, <1>2, <1>3

LEMMA OrderCat ==
    ASSUME NEW S, NEW u \in Seq(S), NEW t \in Seq(S), NEW X, NEW Y
    PROVE  Order(u \o t, X, Y) <=> Order(u, X, Y) /\ Order(t, X, Y) /\ (None(u, X) \/ None(t, Y))
<1>t. Len(u) \in Nat /\ Len(t) \in Nat /\ DOMAIN u = 1..Len(u) /\ DOMAIN t = 1..Len(t)
  BY CatPlaces
<1>1. ASSUME Order(u \o t, X, Y) PROVE Order(u, X, Y) /\ Order(t, X, Y) /\ (None(u, X) \/ None(t, Y))
  <2>1. Order(u, X, Y)
    <3>1. \A k \in DOMAIN u : k \in DOMAIN (u \o t) /\ (u \o t)[k] = u[k]
      BY CatPlaces
    <3> QED BY <1>1, <3>1 DEF Order
  <2>2. ASSUME NEW i \in DOMAIN t, NEW j \in DOMAIN t, i < j, t[i] \in X PROVE t[j] \notin Y
    <3>1. Len(u) + i < Len(u) + j
      BY <1>t, <2>2
    <3>2. \A k \in DOMAIN t : Len(u) + k \in DOMAIN (u \o t) /\ (u \o t)[Len(u) + k] = t[k]
      BY CatPlaces
    <3> QED BY <1>1, <2>2, <3>1, <3>2 DEF Order
  <2>3. ASSUME NEW i \in DOMAIN u, NEW j \in DOMAIN t, u[i] \in X PROVE t[j] \notin Y
    <3>1. i < Len(u) + j
      BY <1>t
    <3>2. /\ i \in DOMAIN (u \o t) /\ (u \o t)[i] = u[i]
          /\ Len(u) + j \in DOMAIN (u \o t) /\ (u \o t)[Len(u) + j] = t[j]
      BY CatPlaces
    <3> QED BY <1>1, <2>3, <3>1, <3>2 DEF Order
  <2> QED BY <2>1, <2>2, <2>3 DEF Order, None
<1>2. ASSUME Order(u, X, Y), Order(t, X, Y), None(u, X) \/ None(t, Y) PROVE Order(u \o t, X, Y)
  <2> SUFFICES ASSUME NEW i \in DOMAIN (u \o t), NEW j \in DOMAIN (u \o t), i < j, (u \o t)[i] \in X
               PROVE  (u \o t)[j] \notin Y
    BY DEF Order
  <2>1. CASE i \in DOMAIN u /\ j \in DOMAIN u
    BY <1>2, <2>1, CatPlaces DEF Order
  <2>2. CASE i \in DOMAIN u /\ j \notin DOMAIN u
    <3>1. u[i] \in X
      BY <2>2, CatPlaces
    <3>2. None(t, Y)
      BY <1>2, <2>2, <3>1 DEF None
    <3> QED BY <2>2, <3>2, CatBehind DEF None
  <2>3. CASE i \notin DOMAIN u
    <3>1. i \in Int /\ j \in Int /\ i - Len(u) \in DOMAIN t /\ Len(u) < i /\ t[i - Len(u)] \in X
      BY <2>3, CatBehind, CatPlaces
    <3>2. j \notin DOMAIN u
      BY <1>t, <3>1
    <3>3. j - Len(u) \in DOMAIN t /\ (u \o t)[j] = t[j - Len(u)]
      BY <3>2, CatBehind
    <3>4. i - Len(u) < j - Len(u)
      BY <1>t, <3>1
    <3> QED BY <1>2, <3>1, <3>3, <3>4 DEF Order
  <2> QED BY <2>1, <2>2, <2>3
<1> QED BY <1>1, <1>2

LEMMA FollowsCat ==
    ASSUME NEW S, NEW u \in Seq(S), NEW t \in Seq(S), NEW X, NEW Y
    PROVE  Follows(u \o t, X, Y) <=> Follows(t, X, Y) /\ (Follows(u, X, Y) \/ ~None(t, Y))
<1>t. Len(u) \in Nat /\ Len(t) \in Nat /\ DOMAIN u = 1..Len(u) /\ DOMAIN t = 1..Len(t)
  BY CatPlaces
<1>1. ASSUME Follows(u \o t, X, Y) PROVE Follows(t, X, Y) /\ (Follows(u, X, Y) \/ ~None(t, Y))
  <2>1. ASSUME NEW i \in DOMAIN t, t[i] \in X PROVE \E j \in DOMAIN t : i < j /\ t[j] \in Y
    <3>1. Len(u) + i \in DOMAIN (u \o t) /\ (u \o t)[Len(u) + i] \in X
      BY <2>1, CatPlaces
    <3>2. PICK k \in DOMAIN (u \o t) : Len(u) + i < k /\ (u \o t)[k] \in Y
      BY <1>1, <3>1 DEF Follows
    <3>3. k \notin DOMAIN u
      BY <1>t, <3>2
    <3>4. k \in Int /\ k - Len(u) \in DOMAIN t /\ t[k - Len(u)] \in Y
      BY <3>2, <3>3, CatBehind
    <3>5. i < k - Len(u)
      BY <1>t, <3>2, <3>4
    <3> QED BY <3>4, <3>5
  <2>2. ASSUME None(t, Y), NEW i \in DOMAIN u, u[i] \in X PROVE \E j \in DOMAIN u : i < j /\ u[j] \in Y
    <3>1. i \in DOMAIN (u \o t) /\ (u \o t)[i] \in X
      BY <2>2, CatPlaces
    <3>2. PICK k \in DOMAIN (u \o t) : i < k /\ (u \o t)[k] \in Y
      BY <1>1, <3>1 DEF Follows
    <3>3. k \in DOMAIN u
      BY <2>2, <3>2, CatBehind DEF None
    <3> QED BY <3>2, <3>3, CatPlaces
  <2> QED BY <2>1, <2>2 DEF Follows
<1>2. ASSUME Follows(t, X, Y), Follows(u, X, Y) \/ ~None(t, Y) PROVE Follows(u \o t, X, Y)
  <2> SUFFICES ASSUME NEW k \in DOMAIN (u \o t), (u \o t)[k] \in X
               PROVE  \E j \in DOMAIN (u \o t) : k < j /\ (u \o t)[j] \in Y
    BY DEF Follows
  <2>1. CASE k \in DOMAIN u
    <3>1. u[k] \in X
      BY <2>1, CatPlaces
    <3>2. CASE Follows(u, X, Y)
      <4>1. PICK j \in DOMAIN u : k < j /\ u[j] \in Y
        BY <2>1, <3>1, <3>2 DEF Follows
      <4> QED BY <4>1, CatPlaces
    <3>3. CASE ~None(t, Y)
      <4>1. PICK j \in DOMAIN t : t[j] \in Y
        BY <3>3 DEF None
      <4>2. k < Len(u) + j
        BY <1>t, <2>1
      <4> QED BY <4>1, <4>2, CatPlaces
    <3> QED BY <1>2, <3>2, <3>3
  <2>2. CASE k \notin DOMAIN u
    <3>1. k \in Int /\ k - Len(u) \in DOMAIN t /\ t[k - Len(u)] \in X
      BY <2>2, CatBehind
    <3>2. PICK j \in DOMAIN t : k - Len(u) < j /\ t[j] \in Y
      BY <1>2, <3>1 DEF Follows
    <3>3. k < Len(u) + j
      BY <1>t, <3>1, <3>2
    <3> QED BY <3>2, <3>3, CatPlaces
  <2> QED BY <2>1, <2>2
<1> QED BY <1>1, <1>2

LEMMA LedCat ==
    ASSUME NEW S, NEW u \in Seq(S), NEW t \in Seq(S), NEW X, NEW Y
    PROVE  Led(u \o t, X, Y) <=> Led(u, X, Y) /\ (Led(t, X, Y) \/ ~None(u, Y))
<1>t. Len(u) \in Nat /\ Len(t) \in Nat /\ DOMAIN u = 1..Len(u) /\ DOMAIN t = 1..Len(t)
  BY CatPlaces
<1>1. ASSUME Led(u \o t, X, Y) PROVE Led(u, X, Y) /\ (Led(t, X, Y) \/ ~None(u, Y))
  <2>1. ASSUME NEW i \in DOMAIN u, u[i] \in X PROVE \E j \in DOMAIN u : j < i /\ u[j] \in Y
    <3>1. i \in DOMAIN (u \o t) /\ (u \o t)[i] \in X
      BY <2>1, CatPlaces
    <3>2. PICK k \in DOMAIN (u \o t) : k < i /\ (u \o t)[k] \in Y
      BY <1>1, <3>1 DEF Led
    <3>3. k \in DOMAIN u
      BY <1>t, <3>2, CatPlaces
    <3> QED BY <3>2, <3>3, CatPlaces
  <2>2. ASSUME None(u, Y), NEW i \in DOMAIN t, t[i] \in X PROVE \E j \in DOMAIN t : j < i /\ t[j] \in Y
    <3>1. Len(u) + i \in DOMAIN (u \o t) /\ (u \o t)[Len(u) + i] \in X
      BY <2>2, CatPlaces
    <3>2. PICK k \in DOMAIN (u \o t) : k < Len(u) + i /\ (u \o t)[k] \in Y
      BY <1>1, <3>1 DEF Led
    <3>3. k \notin DOMAIN u
      BY <2>2, <3>2, CatPlaces DEF None
    <3>4. k \in Int /\ k - Len(u) \in DOMAIN t /\ t[k - Len(u)] \in Y
      BY <3>2, <3>3, CatBehind
    <3>5. k - Len(u) < i
      BY <1>t, <3>2, <3>4
    <3> QED BY <3>4, <3>5
  <2> QED BY <2>1, <2>2 DEF Led
<1>2. ASSUME Led(u, X, Y), Led(t, X, Y) \/ ~None(u, Y) PROVE Led(u \o t, X, Y)
  <2> SUFFICES ASSUME NEW k \in DOMAIN (u \o t), (u \o t)[k] \in X
               PROVE  \E j \in DOMAIN (u \o t) : j < k /\ (u \o t)[j] \in Y
    BY DEF Led
  <2>1. CASE k \in DOMAIN u
    <3>1. PICK j \in DOMAIN u : j < k /\ u[j] \in Y
      BY <1>2, <2>1, CatPlaces DEF Led
    <3> QED BY <3>1, CatPlaces
  <2>2. CASE k \notin DOMAIN u
    <3>1. k \in Int /\ k - Len(u) \in DOMAIN t /\ t[k - Len(u)] \in X /\ Len(u) < k
      BY <2>2, CatBehind
    <3>2. CASE Led(t, X, Y)
      <4>1. PICK j \in DOMAIN t : j < k - Len(u) /\ t[j] \in Y
        BY <3>1, <3>2 DEF Led
      <4>2. Len(u) + j < k
        BY <1>t, <3>1, <4>1
      <4> QED BY <4>1, <4>2, CatPlaces
    <3>3. CASE ~None(u, Y)
      <4>1. PICK j \in DOMAIN u : u[j] \in Y
        BY <3>3 DEF None
      <4>2. j < k
        BY <1>t, <3>1
      <4> QED BY <4>1, <4>2, CatPlaces
    <3> QED BY <1>2, <3>2, <3>3
  <2> QED BY <2>1, <2>2
<1> QED BY <1>1, <1>2

\* The five of a single step, and of none.
LEMMA OneLaws ==
    ASSUME NEW h, NEW X, NEW Y
    PROVE  /\ None(<<h>>, X) <=> h \notin X
           /\ Ahead(<<h>>, X, Y) <=> h \in X
           /\ Order(<<h>>, X, Y)
           /\ Follows(<<h>>, X, Y) <=> h \notin X
           /\ Led(<<h>>, X, Y) <=> h \notin X
<1>1. DOMAIN <<h>> = {1} /\ <<h>>[1] = h
  OBVIOUS
<1> QED
  <2>1. (None(<<h>>, X) <=> h \notin X) /\ (Ahead(<<h>>, X, Y) <=> h \in X) /\ Order(<<h>>, X, Y)
    BY <1>1 DEF None, Ahead, Order
  <2>2. (Follows(<<h>>, X, Y) <=> h \notin X) /\ (Led(<<h>>, X, Y) <=> h \notin X)
    BY <1>1 DEF Follows, Led
  <2> QED BY <2>1, <2>2

LEMMA EmptyLaws ==
    ASSUME NEW X, NEW Y
    PROVE  /\ None(<<>>, X) /\ ~Ahead(<<>>, X, Y) /\ Order(<<>>, X, Y)
           /\ Follows(<<>>, X, Y) /\ Led(<<>>, X, Y)
BY DEF None, Ahead, Order, Follows, Led

\* The same with one step before the others.
LEMMA ConsLaws ==
    ASSUME NEW S, NEW h \in S, NEW t \in Seq(S), NEW X, NEW Y
    PROVE  /\ None(<<h>> \o t, X) <=> h \notin X /\ None(t, X)
           /\ Ahead(<<h>> \o t, X, Y) <=> Ahead(t, X, Y) \/ (h \in X /\ None(t, Y))
           /\ Order(<<h>> \o t, X, Y) <=> Order(t, X, Y) /\ (h \notin X \/ None(t, Y))
           /\ Follows(<<h>> \o t, X, Y) <=> Follows(t, X, Y) /\ (h \notin X \/ ~None(t, Y))
           /\ Led(<<h>> \o t, X, Y) <=> h \notin X /\ (Led(t, X, Y) \/ h \in Y)
<1>1. <<h>> \in Seq(S)
  OBVIOUS
<1>2. None(<<h>> \o t, X) <=> h \notin X /\ None(t, X)
  BY <1>1, NoneCat, OneLaws
<1>3. Ahead(<<h>> \o t, X, Y) <=> Ahead(t, X, Y) \/ (h \in X /\ None(t, Y))
  BY <1>1, AheadCat, OneLaws
<1>4. Order(<<h>> \o t, X, Y) <=> Order(t, X, Y) /\ (h \notin X \/ None(t, Y))
  BY <1>1, OrderCat, OneLaws
<1>5. Follows(<<h>> \o t, X, Y) <=> Follows(t, X, Y) /\ (h \notin X \/ ~None(t, Y))
  BY <1>1, FollowsCat, OneLaws
<1>6. Led(<<h>> \o t, X, Y) <=> h \notin X /\ (Led(t, X, Y) \/ h \in Y)
  BY <1>1, LedCat, OneLaws
<1> QED BY <1>2, <1>3, <1>4, <1>5, <1>6

\* Sets that hold less are met less.
LEMMA Smaller ==
    ASSUME NEW w, NEW X, NEW Y, NEW Z
    PROVE  /\ None(w, Y) /\ X \subseteq Y => None(w, X)
           /\ None(w, X \cup Y) <=> None(w, X) /\ None(w, Y)
           /\ None(w, X) => Order(w, X, Z) /\ Follows(w, X, Z) /\ Led(w, X, Z) /\ ~Ahead(w, X, Z)
           /\ None(w, Z) => Order(w, X, Z)
           /\ ~None(w, X) /\ None(w, Z) => Ahead(w, X, Z)
           /\ Ahead(w, X, Z) => ~None(w, X)
BY DEF None, Order, Follows, Led, Ahead

-----------------------------------------------------------------------------
(* The steps there are.                                                     *)

Good(reg) == CASE reg = "gyro_cfg" -> {Dps2000} [] reg = "accel_cfg" -> {G2}
               [] reg = "lpf" -> 1..6 [] reg = "rate_div" -> {4, 19, 49}

DmpOns == {Call("DmpOn"), Call("DmpIsOn")}
DmpOffs == {Call("DmpOff"), Call("DmpIsOff")}
DmpIsS == {Call("DmpIsOn"), Call("DmpIsOff")}
Rates == {"rate"} \X {20, 50, 200}
SetSteps == {"set"} \X {r \in [reg : Settings, v : 0..254] : r.v \in Good(r.reg)}
Biases == {"bias", "counted"} \X [hw : BOOLEAN, tries : {1, 2}]
Setters(reg) == {s \in SetSteps : s[2].reg = reg} \cup (IF reg = "rate_div" THEN Rates ELSE {})

\* What needs the DMP off.
Off == Rates \cup SetSteps \cup Biases \cup {Call("FifoAll"), Call("FifoNone"), Call("Forget")}

\* Writes of a register.
Values(reg) == CASE reg = "int_enable" -> {"off", "data", "dmp"}
                 [] reg = "user_ctrl" -> {"off", "fifo", "dmp", "reset"}
                 [] reg = "fifo_en" -> {"on", "off"}
                 [] reg = "pwr_mgmt" -> {"reset", "awake", "asleep"}
                 [] reg = "mem" -> {"feature"}
                 [] reg \in Settings -> 0..254
Writes(reg) == {reg} \X Values(reg)
Modes == Writes("int_enable") \cup Writes("user_ctrl") \cup Writes("fifo_en")

OtherCalls == {"Reset", "Features", "Load", "Started", "Wait"}
Reads == {"read"} \X {"count", "status", "packet"}
Bypasses == {Bypass(<<>>), Bypass(<<Power("asleep")>>)}

Steps == (UNION {Writes(reg) : reg \in Registers}) \cup Off \cup DmpOns \cup DmpOffs
         \cup {Call("IntOn"), Call("IntOff")} \cup {Call(f) : f \in OtherCalls}
         \cup Reads \cup Bypasses

\* What changes what the driver believes, or decides what comes next.
Marks == Off \cup DmpOns \cup DmpOffs \cup {Call("IntOn"), Call("IntOff")}

-----------------------------------------------------------------------------
(* The driver: w is what it has still to do, c is what it believes.          *)

Wrong == (Rates \ {SampleRate(200)}) \cup (SetSteps \ {Setting("lpf", Lpf(100))}) \cup {Call("Forget")}

DmpInv(w, c) ==
    /\ Order(w, DmpOns, Off) /\ Order(w, DmpOns, DmpOffs) /\ Order(w, DmpOns, DmpOns)
    /\ Order(w, DmpOns, {Call("IntOff")})
    /\ c.dmp_on => Led(w, Off, DmpOffs) /\ c.set = ForDmp

\* While the DMP is being switched on, its rate and filter are set.
RateInv(w, c) ==
    ~None(w, {Call("DmpIsOn")}) =>
        /\ None(w, Wrong)
        /\ \/ ~None(w, Rates)
           \/ /\ c.set["rate_div"] = 4
              /\ c.set["lpf"] = Lpf(100) \/ ~None(w, Setters("lpf"))

KnownInv(w, c) ==
    \A reg \in Settings :
        /\ c.set[reg] \in Good(reg) \/ ~None(w, Setters(reg))
        /\ Follows(w, {Call("Forget")}, Setters(reg))

IntInv(w, c) ==
    /\ c.int \in {"off", IF c.dmp_on THEN "dmp" ELSE "data"}
    /\ c.int = "off" \/ Led(w, DmpIsS, {Call("IntOff")})
    /\ Order(w, {Call("IntOn"), Call("FifoAll")}, DmpIsS)
    /\ c.dmp_on /\ c.int = "off" => ~None(w, {Call("IntOn"), Call("DmpIsOff")})
    /\ c.dmp_on => Follows(w, {Call("IntOff")}, {Call("DmpIsOff")})
    /\ Follows(w, {Call("DmpIsOn")}, {Call("IntOn")})

CfgInv(w, c) == DmpInv(w, c) /\ RateInv(w, c) /\ KnownInv(w, c) /\ IntInv(w, c)

CfgType == [dmp_on : BOOLEAN, int : {"off", "data", "dmp"}, fifo : BOOLEAN, loaded : BOOLEAN,
            bypass : BOOLEAN, set : [Settings -> 0..255]]

CfgTo(c, reg, v) == [c EXCEPT !.set[reg] = v]

\* What is in a set of marks is a mark.
LEMMA MarkSets ==
    /\ Off \subseteq Marks /\ DmpOns \subseteq Marks /\ DmpOffs \subseteq Marks /\ DmpIsS \subseteq Marks
    /\ {Call("IntOff")} \subseteq Marks /\ {Call("IntOn")} \subseteq Marks
    /\ {Call("IntOn"), Call("FifoAll")} \subseteq Marks /\ {Call("IntOn"), Call("DmpIsOff")} \subseteq Marks
    /\ {Call("DmpIsOff")} \subseteq Marks /\ {Call("DmpIsOn")} \subseteq Marks /\ {Call("Forget")} \subseteq Marks
    /\ Rates \subseteq Off /\ SetSteps \subseteq Off /\ Wrong \subseteq Off /\ Biases \subseteq Off
    /\ {Call("Forget")} \subseteq Off /\ {Call("FifoAll")} \subseteq Off /\ {Call("FifoNone")} \subseteq Off
    /\ Rates \subseteq Marks /\ SetSteps \subseteq Marks /\ Wrong \subseteq Marks
    /\ \A reg : Setters(reg) \subseteq Off /\ Setters(reg) \subseteq Marks
<1>1. /\ Off \subseteq Marks /\ DmpOns \subseteq Marks /\ DmpOffs \subseteq Marks
      /\ {Call("IntOff")} \subseteq Marks /\ {Call("IntOn")} \subseteq Marks
  BY DEF Marks
<1>2. /\ Rates \subseteq Off /\ SetSteps \subseteq Off /\ Biases \subseteq Off
      /\ {Call("Forget")} \subseteq Off /\ {Call("FifoAll")} \subseteq Off /\ {Call("FifoNone")} \subseteq Off
  BY DEF Off
<1>3. DmpIsS \subseteq Marks /\ {Call("DmpIsOff")} \subseteq Marks /\ {Call("DmpIsOn")} \subseteq Marks
  BY <1>1 DEF DmpIsS, DmpOns, DmpOffs
<1>4. Wrong \subseteq Off
  BY <1>2 DEF Wrong
<1>5. \A reg : Setters(reg) \subseteq Off
  BY <1>2 DEF Setters
<1> QED BY <1>1, <1>2, <1>3, <1>4, <1>5

\* A step that is no mark gives way to others that are none.
LEMMA CfgNeutral ==
    ASSUME NEW h \in Steps, NEW t \in Seq(Steps), NEW ops \in Seq(Steps), NEW c, NEW d,
           h \notin Marks, None(ops, Marks), CfgInv(<<h>> \o t, c),
           d.dmp_on = c.dmp_on, d.int = c.int, d.set = c.set
    PROVE  CfgInv(ops \o t, d)
<1>1. ASSUME NEW X, X \subseteq Marks, NEW Y
      PROVE  /\ h \notin X
             /\ None(ops \o t, X) <=> None(<<h>> \o t, X)
             /\ Order(ops \o t, X, Y) <=> Order(<<h>> \o t, X, Y)
             /\ Follows(ops \o t, X, Y) <=> Follows(<<h>> \o t, X, Y)
  <2>1. h \notin X /\ None(ops, X)
    BY <1>1, Smaller
  <2>2. Order(ops, X, Y) /\ Follows(ops, X, Y)
    BY <2>1, Smaller
  <2>3. None(ops \o t, X) <=> None(<<h>> \o t, X)
    BY <2>1, NoneCat, ConsLaws
  <2>4. Order(ops \o t, X, Y) <=> Order(<<h>> \o t, X, Y)
    BY <2>1, <2>2, OrderCat, ConsLaws
  <2>5. Follows(ops \o t, X, Y) <=> Follows(<<h>> \o t, X, Y)
    BY <2>1, <2>2, FollowsCat, ConsLaws
  <2> QED BY <2>1, <2>3, <2>4, <2>5
<1>2. ASSUME NEW X, X \subseteq Marks, NEW Y, Y \subseteq Marks
      PROVE  Led(ops \o t, X, Y) <=> Led(<<h>> \o t, X, Y)
  <2>1. h \notin X /\ h \notin Y /\ None(ops, X) /\ None(ops, Y)
    BY <1>2, Smaller
  <2>2. Led(ops, X, Y)
    BY <2>1, Smaller
  <2> QED BY <2>1, <2>2, LedCat, ConsLaws
<1>3. DmpInv(ops \o t, d)
  BY <1>1, <1>2, MarkSets DEF CfgInv, DmpInv
<1>4. RateInv(ops \o t, d)
  BY <1>1, <1>2, MarkSets DEF CfgInv, RateInv
<1>5. KnownInv(ops \o t, d)
  BY <1>1, <1>2, MarkSets DEF CfgInv, KnownInv
<1>6. IntInv(ops \o t, d)
  BY <1>1, <1>2, MarkSets DEF CfgInv, IntInv
<1> QED BY <1>3, <1>4, <1>5, <1>6 DEF CfgInv

-----------------------------------------------------------------------------
(* The kinds, step by step.                                                 *)

\* A pair's words tell which kinds it is of.
LEMMA PairKinds ==
    ASSUME NEW a, NEW b
    PROVE  /\ <<a, b>> \in Rates <=> a = "rate" /\ b \in {20, 50, 200}
           /\ <<a, b>> \in SetSteps <=>
                a = "set" /\ b \in [reg : Settings, v : 0..254] /\ b.v \in Good(b.reg)
           /\ <<a, b>> \in Biases <=> a \in {"bias", "counted"} /\ b \in [hw : BOOLEAN, tries : {1, 2}]
           /\ <<a, b>> \in DmpOns <=> a = "call" /\ b \in {"DmpOn", "DmpIsOn"}
           /\ <<a, b>> \in DmpOffs <=> a = "call" /\ b \in {"DmpOff", "DmpIsOff"}
           /\ <<a, b>> \in DmpIsS <=> a = "call" /\ b \in {"DmpIsOn", "DmpIsOff"}
           /\ <<a, b>> \in Reads <=> a = "read" /\ b \in {"count", "status", "packet"}
           /\ \A reg : <<a, b>> \in Writes(reg) <=> a = reg /\ b \in Values(reg)
BY DEF Rates, SetSteps, Biases, DmpOns, DmpOffs, DmpIsS, Reads, Writes, Call

LEMMA PairMarks ==
    ASSUME NEW a, NEW b
    PROVE  /\ <<a, b>> \in Off <=>
                \/ <<a, b>> \in Rates \cup SetSteps \cup Biases
                \/ a = "call" /\ b \in {"FifoAll", "FifoNone", "Forget"}
           /\ <<a, b>> \in Marks <=>
                \/ <<a, b>> \in Off \cup DmpOns \cup DmpOffs
                \/ a = "call" /\ b \in {"IntOn", "IntOff"}
           /\ <<a, b>> \in Modes <=>
                a \in {"int_enable", "user_ctrl", "fifo_en"} /\ b \in Values(a)
           /\ \A reg : <<a, b>> \in Setters(reg) <=>
                \/ <<a, b>> \in SetSteps /\ b.reg = reg
                \/ reg = "rate_div" /\ <<a, b>> \in Rates
           /\ <<a, b>> \in Wrong <=>
                \/ <<a, b>> \in Rates /\ b # 200
                \/ <<a, b>> \in SetSteps /\ <<a, b>> # Setting("lpf", Lpf(100))
                \/ a = "call" /\ b = "Forget"
           /\ \A f : <<a, b>> = Call(f) <=> a = "call" /\ b = f
<1>1. \A f : <<a, b>> = Call(f) <=> a = "call" /\ b = f
  BY DEF Call
<1>2. <<a, b>> \in Off <=>
                \/ <<a, b>> \in Rates \cup SetSteps \cup Biases
                \/ a = "call" /\ b \in {"FifoAll", "FifoNone", "Forget"}
  BY <1>1 DEF Off
<1>3. <<a, b>> \in Marks <=>
                \/ <<a, b>> \in Off \cup DmpOns \cup DmpOffs
                \/ a = "call" /\ b \in {"IntOn", "IntOff"}
  BY <1>1 DEF Marks
<1>4. <<a, b>> \in Modes <=> a \in {"int_enable", "user_ctrl", "fifo_en"} /\ b \in Values(a)
  BY PairKinds DEF Modes
<1>5. \A reg : <<a, b>> \in Setters(reg) <=>
                \/ <<a, b>> \in SetSteps /\ b.reg = reg
                \/ reg = "rate_div" /\ <<a, b>> \in Rates
  BY DEF Setters
<1>6. <<a, b>> \in Wrong <=>
                \/ <<a, b>> \in Rates /\ b # 200
                \/ <<a, b>> \in SetSteps /\ <<a, b>> # Setting("lpf", Lpf(100))
                \/ a = "call" /\ b = "Forget"
  BY <1>1, PairKinds DEF Wrong, SampleRate
<1> QED BY <1>1, <1>2, <1>3, <1>4, <1>5, <1>6

LEMMA StepKinds ==
    ASSUME NEW s
    PROVE  s \in Steps <=>
             \/ \E reg \in Registers : s \in Writes(reg)
             \/ s \in Off \/ s \in DmpOns \/ s \in DmpOffs \/ s \in Reads \/ s \in Bypasses
             \/ s = Call("IntOn") \/ s = Call("IntOff")
             \/ \E f \in OtherCalls : s = Call(f)
<1> DEFINE U == UNION {Writes(reg) : reg \in Registers}
<1> DEFINE O == {Call(f) : f \in OtherCalls}
<1>1. s \in U <=> \E reg \in Registers : s \in Writes(reg)
  BY Zenon
<1>2. s \in O <=> \E f \in OtherCalls : s = Call(f)
  BY Zenon
<1>3. Steps = U \cup Off \cup DmpOns \cup DmpOffs \cup {Call("IntOn"), Call("IntOff")}
              \cup O \cup Reads \cup Bypasses
  BY DEF Steps
<1> HIDE DEF U, O
<1> QED BY <1>1, <1>2, <1>3

\* What a call is, by its name.
LEMMA CallKinds ==
    ASSUME NEW f
    PROVE  /\ Call(f) \in Off <=> f \in {"FifoAll", "FifoNone", "Forget"}
           /\ Call(f) \in DmpOns <=> f \in {"DmpOn", "DmpIsOn"}
           /\ Call(f) \in DmpOffs <=> f \in {"DmpOff", "DmpIsOff"}
           /\ Call(f) \in DmpIsS <=> f \in {"DmpIsOn", "DmpIsOff"}
           /\ Call(f) \in Wrong <=> f = "Forget"
           /\ Call(f) \notin Rates /\ Call(f) \notin SetSteps /\ Call(f) \notin Biases
           /\ Call(f) \notin Reads /\ Call(f) \notin Modes
           /\ \A reg : Call(f) \notin Setters(reg)
           /\ \A reg \in Registers : Call(f) \notin Writes(reg)
           /\ \A g : Call(f) = Call(g) <=> f = g
           /\ Call(f) \in Steps <=>
                f \in {"FifoAll", "FifoNone", "Forget", "DmpOn", "DmpIsOn", "DmpOff", "DmpIsOff",
                       "IntOn", "IntOff"} \cup OtherCalls
<1>1. /\ Call(f) \notin Rates /\ Call(f) \notin SetSteps /\ Call(f) \notin Biases /\ Call(f) \notin Reads
      /\ Call(f) \in DmpOns <=> f \in {"DmpOn", "DmpIsOn"}
      /\ Call(f) \in DmpOffs <=> f \in {"DmpOff", "DmpIsOff"}
      /\ Call(f) \in DmpIsS <=> f \in {"DmpIsOn", "DmpIsOff"}
  BY PairKinds DEF Call
<1>2. \A reg \in Registers : Call(f) \notin Writes(reg)
  BY PairKinds DEF Call, Registers, Settings
<1>3. /\ Call(f) \in Off <=> f \in {"FifoAll", "FifoNone", "Forget"}
      /\ Call(f) \notin Modes
      /\ Call(f) \in Wrong <=> f = "Forget"
      /\ \A reg : Call(f) \notin Setters(reg)
  BY <1>1, PairMarks DEF Call
<1>4. \A g : Call(f) = Call(g) <=> f = g
  BY DEF Call
<1>5. Call(f) \notin Bypasses
  BY DEF Call, Bypasses, Bypass
<1>6. Call(f) \in Steps <=>
        f \in {"FifoAll", "FifoNone", "Forget", "DmpOn", "DmpIsOn", "DmpOff", "DmpIsOff",
               "IntOn", "IntOff"} \cup OtherCalls
  BY <1>1, <1>2, <1>3, <1>4, <1>5, StepKinds
<1> QED BY <1>1, <1>2, <1>3, <1>4, <1>6

\* A write is no mark; a mode when it is of one of three registers.
LEMMA WriteKinds ==
    ASSUME NEW reg \in Registers, NEW v
    PROVE  /\ <<reg, v>> \notin Marks /\ <<reg, v>> \notin Reads
           /\ <<reg, v>> \in Steps <=> v \in Values(reg)
           /\ <<reg, v>> \in Modes <=> reg \in {"int_enable", "user_ctrl", "fifo_en"} /\ v \in Values(reg)
<1>1. reg \notin {"call", "rate", "set", "bias", "counted", "read", "bypass"}
  BY DEF Registers, Settings
<1>2. /\ <<reg, v>> \notin Rates /\ <<reg, v>> \notin SetSteps /\ <<reg, v>> \notin Biases
      /\ <<reg, v>> \notin DmpOns /\ <<reg, v>> \notin DmpOffs /\ <<reg, v>> \notin Reads
  BY <1>1, PairKinds
<1>3. <<reg, v>> \notin Off
  BY <1>1, <1>2, PairMarks
<1>4. <<reg, v>> \notin Marks
  BY <1>1, <1>2, <1>3, PairMarks
<1>5. <<reg, v>> \notin Bypasses
  BY <1>1 DEF Bypasses, Bypass
<1>6. <<reg, v>> \in Steps <=> v \in Values(reg)
  BY <1>1, <1>2, <1>3, <1>5, PairKinds, StepKinds DEF Call
<1>7. <<reg, v>> \in Modes <=> reg \in {"int_enable", "user_ctrl", "fifo_en"} /\ v \in Values(reg)
  BY PairMarks
<1> QED BY <1>2, <1>4, <1>6, <1>7

\* What reads and bypasses are not.
LEMMA OtherKinds ==
    /\ Bypasses \cap Marks = {} /\ Bypasses \cap Reads = {} /\ Bypasses \cap Modes = {}
    /\ Reads \cap Marks = {} /\ Reads \cap Modes = {}
    /\ Reads \subseteq Steps /\ Bypasses \subseteq Steps /\ Off \subseteq Steps
    /\ \A f \in OtherCalls : Call(f) \notin Marks
<1>1. ASSUME NEW b PROVE <<"bypass", b>> \notin Marks \cup Reads \cup Modes
  BY PairKinds, PairMarks
<1>2. Bypasses \cap Marks = {} /\ Bypasses \cap Reads = {} /\ Bypasses \cap Modes = {}
  BY <1>1 DEF Bypasses, Bypass
<1>3. ASSUME NEW b PROVE <<"read", b>> \notin Marks \cup Modes
  BY PairKinds, PairMarks
<1>4. Reads \cap Marks = {} /\ Reads \cap Modes = {}
  BY <1>3 DEF Reads
<1>5. \A f \in OtherCalls : Call(f) \notin Marks
  BY CallKinds, PairMarks DEF Call, OtherCalls
<1>6. Reads \subseteq Steps /\ Bypasses \subseteq Steps /\ Off \subseteq Steps
  BY StepKinds
<1> QED BY <1>2, <1>4, <1>5, <1>6

-----------------------------------------------------------------------------
(* The four parts of what holds of the driver, where a head gives way to     *)
(* other steps and has nothing to do with them.                              *)

\* What is met by no step of a whole is met by none of its parts.
LEMMA NoneLaws ==
    ASSUME NEW h \in Steps, NEW t \in Seq(Steps), NEW ops \in Seq(Steps)
    PROVE  \A X : /\ None(ops \o t, X) <=> None(ops, X) /\ None(t, X)
                  /\ None(<<h>> \o t, X) <=> h \notin X /\ None(t, X)
BY NoneCat, ConsLaws

\* What follows still follows, if the head gives way to steps that need nothing.
LEMMA FollowsKeeps ==
    ASSUME NEW h \in Steps, NEW t \in Seq(Steps), NEW ops \in Seq(Steps)
    PROVE  \A X, Y : None(ops, X) /\ Follows(<<h>> \o t, X, Y) => Follows(ops \o t, X, Y)
BY Smaller, FollowsCat, ConsLaws

\* The DMP, the rate, what is known and the interrupt: each part keeps when the
\* head and what it gives way to have nothing to do with it.
LEMMA DmpKeeps ==
    ASSUME NEW h \in Steps, NEW t \in Seq(Steps), NEW ops \in Seq(Steps), NEW c, NEW d,
           DmpInv(<<h>> \o t, c), None(ops, DmpOns), d.dmp_on = c.dmp_on,
           c.dmp_on => None(ops, Off) /\ h \notin DmpOffs /\ d.set = c.set
    PROVE  DmpInv(ops \o t, d)
<1>1. ASSUME NEW Y PROVE Order(<<h>> \o t, DmpOns, Y) => Order(ops \o t, DmpOns, Y)
  BY Smaller, OrderCat, ConsLaws
<1>2. c.dmp_on => Led(ops \o t, Off, DmpOffs)
  BY Smaller, LedCat, ConsLaws DEF DmpInv
<1> QED BY <1>1, <1>2 DEF DmpInv

LEMMA RateKeeps ==
    ASSUME NEW h \in Steps, NEW t \in Seq(Steps), NEW ops \in Seq(Steps), NEW c, NEW d,
           RateInv(<<h>> \o t, c), None(ops, Wrong), None(ops, {Call("DmpIsOn")}),
           h \notin Rates, h \notin Setters("lpf"), d.set = c.set
    PROVE  RateInv(ops \o t, d)
<1> QED BY NoneLaws DEF RateInv

LEMMA KnownKeeps ==
    ASSUME NEW h \in Steps, NEW t \in Seq(Steps), NEW ops \in Seq(Steps), NEW c, NEW d,
           KnownInv(<<h>> \o t, c), None(ops, {Call("Forget")}),
           \A reg \in Settings : h \notin Setters(reg), d.set = c.set
    PROVE  KnownInv(ops \o t, d)
<1>1. \A X : /\ None(ops \o t, X) <=> None(ops, X) /\ None(t, X)
             /\ None(<<h>> \o t, X) <=> h \notin X /\ None(t, X)
  BY NoneLaws
<1>2. \A Y : Follows(<<h>> \o t, {Call("Forget")}, Y) => Follows(ops \o t, {Call("Forget")}, Y)
  BY FollowsKeeps
<1> SUFFICES ASSUME NEW reg \in Settings
             PROVE  /\ d.set[reg] \in Good(reg) \/ ~None(ops \o t, Setters(reg))
                    /\ Follows(ops \o t, {Call("Forget")}, Setters(reg))
  BY DEF KnownInv
<1>3. /\ c.set[reg] \in Good(reg) \/ ~None(<<h>> \o t, Setters(reg))
      /\ Follows(<<h>> \o t, {Call("Forget")}, Setters(reg))
  BY DEF KnownInv
<1> QED BY <1>1, <1>2, <1>3

IntMarks == {Call("IntOn"), Call("IntOff"), Call("FifoAll")} \cup DmpIsS

LEMMA IntKeeps ==
    ASSUME NEW h \in Steps, NEW t \in Seq(Steps), NEW ops \in Seq(Steps), NEW c, NEW d,
           IntInv(<<h>> \o t, c), None(ops, IntMarks), h \notin IntMarks,
           d.dmp_on = c.dmp_on, d.int = c.int
    PROVE  IntInv(ops \o t, d)
<1>1. ASSUME NEW X, X \subseteq IntMarks, NEW Y
      PROVE  /\ h \notin X /\ None(ops, X)
             /\ None(ops \o t, X) <=> None(<<h>> \o t, X)
             /\ Order(ops \o t, X, Y) <=> Order(<<h>> \o t, X, Y)
             /\ Follows(ops \o t, X, Y) <=> Follows(<<h>> \o t, X, Y)
  <2>1. h \notin X /\ None(ops, X)
    BY <1>1, Smaller
  <2>2. Order(ops, X, Y) /\ Follows(ops, X, Y)
    BY <2>1, Smaller
  <2> QED BY <2>1, <2>2, NoneCat, OrderCat, FollowsCat, ConsLaws
<1>2. Led(<<h>> \o t, DmpIsS, {Call("IntOff")}) => Led(ops \o t, DmpIsS, {Call("IntOff")})
  <2>1. h \notin DmpIsS /\ h \notin {Call("IntOff")} /\ None(ops, DmpIsS) /\ None(ops, {Call("IntOff")})
    BY <1>1 DEF IntMarks
  <2> QED BY <2>1, Smaller, LedCat, ConsLaws
<1>3. /\ {Call("IntOn"), Call("FifoAll")} \subseteq IntMarks /\ {Call("IntOn"), Call("DmpIsOff")} \subseteq IntMarks
      /\ {Call("IntOff")} \subseteq IntMarks /\ {Call("DmpIsOn")} \subseteq IntMarks
      /\ DmpIsS \subseteq IntMarks
  BY DEF IntMarks, DmpIsS
<1> QED BY <1>1, <1>2, <1>3 DEF IntInv

\* What needs the DMP off is never the head with the DMP on.
LEMMA OffHead ==
    ASSUME NEW h \in Off, NEW t \in Seq(Steps), NEW c, DmpInv(<<h>> \o t, c), c.dmp_on \in BOOLEAN
    PROVE  c.dmp_on = FALSE
<1>1. h \in Steps
  BY OtherKinds
<1> QED BY <1>1, ConsLaws DEF DmpInv

-----------------------------------------------------------------------------
(* The driver's calls.                                                      *)

\* get_st_biases touches nothing that the driver believes.
LEMMA CfgBias ==
    ASSUME NEW h \in Biases, NEW t \in Seq(Steps), NEW ops \in Seq(Steps), NEW c \in CfgType,
           CfgInv(<<h>> \o t, c), None(ops, Marks \ Biases)
    PROVE  CfgInv(ops \o t, c)
<1>1. h \in Off /\ h \in Steps
  BY OtherKinds DEF Off
<1>2. c.dmp_on = FALSE
  BY <1>1, OffHead DEF CfgInv, CfgType
<1>3. \A b \in Biases : /\ b \notin DmpOns /\ b \notin Wrong /\ b \notin Rates /\ b \notin IntMarks
                        /\ b # Call("Forget") /\ b # Call("DmpIsOn")
                        /\ \A reg : b \notin Setters(reg)
  <2> SUFFICES ASSUME NEW a \in {"bias", "counted"}, NEW r \in [hw : BOOLEAN, tries : {1, 2}], NEW b, b = <<a, r>>
               PROVE  /\ b \notin DmpOns /\ b \notin Wrong /\ b \notin Rates /\ b \notin IntMarks
                      /\ b # Call("Forget") /\ b # Call("DmpIsOn")
                      /\ \A reg : b \notin Setters(reg)
    BY DEF Biases
  <2>1. /\ b \notin DmpOns /\ b \notin Rates /\ b \notin SetSteps /\ b \notin DmpIsS
        /\ \A f : b # Call(f)
    BY PairKinds, PairMarks
  <2>2. b \notin Wrong /\ \A reg : b \notin Setters(reg)
    BY <2>1, PairMarks
  <2> QED BY <2>1, <2>2 DEF IntMarks
<1>4. /\ DmpOns \subseteq Marks \ Biases /\ Wrong \subseteq Marks \ Biases
      /\ {Call("DmpIsOn")} \subseteq Marks \ Biases /\ {Call("Forget")} \subseteq Marks \ Biases
      /\ IntMarks \subseteq Marks \ Biases
  <2>1. IntMarks \subseteq Marks
    BY MarkSets DEF IntMarks
  <2> QED BY <1>3, <2>1, MarkSets
<1>5. /\ None(ops, DmpOns) /\ None(ops, Wrong) /\ None(ops, {Call("DmpIsOn")})
      /\ None(ops, {Call("Forget")}) /\ None(ops, IntMarks)
  BY <1>4, Smaller
<1>6. DmpInv(ops \o t, c)
  BY <1>1, <1>2, <1>5, DmpKeeps DEF CfgInv
<1>7. RateInv(ops \o t, c)
  BY <1>1, <1>3, <1>5, RateKeeps DEF CfgInv
<1>8. KnownInv(ops \o t, c)
  BY <1>1, <1>3, <1>5, KnownKeeps DEF CfgInv
<1>9. IntInv(ops \o t, c)
  BY <1>1, <1>3, <1>5, IntKeeps DEF CfgInv
<1> QED BY <1>6, <1>7, <1>8, <1>9 DEF CfgInv

\* A setting is cached as it is written, or was already.
LEMMA CfgSet ==
    ASSUME NEW h \in SetSteps, NEW t \in Seq(Steps), NEW c \in CfgType, NEW d \in CfgType,
           CfgInv(<<h>> \o t, c), d = CfgTo(c, h[2].reg, h[2].v),
           NEW ops \in Seq(Steps), None(ops, Marks)
    PROVE  CfgInv(ops \o t, d)
<1>1. h \in Off /\ h \in Steps
  BY OtherKinds DEF Off
<1>2. c.dmp_on = FALSE
  BY <1>1, OffHead DEF CfgInv, CfgType
<1>3. PICK r \in [reg : Settings, v : 0..254] : h = <<"set", r>> /\ r.v \in Good(r.reg)
  BY DEF SetSteps
<1>4. /\ h \notin Rates /\ h \notin IntMarks /\ h # Call("Forget") /\ h # Call("DmpIsOn") /\ h \notin DmpIsS
      /\ \A reg : h \in Setters(reg) => r.reg = reg
      /\ h \in Wrong <=> h # Setting("lpf", Lpf(100))
  BY <1>3, PairKinds, PairMarks DEF IntMarks
<1>5. /\ None(ops, DmpOns) /\ None(ops, Wrong) /\ None(ops, {Call("DmpIsOn")})
      /\ None(ops, {Call("Forget")}) /\ None(ops, IntMarks) /\ None(ops, Rates)
  <2>1. IntMarks \subseteq Marks
    BY MarkSets DEF IntMarks
  <2> QED BY <2>1, MarkSets, Smaller
<1>6. /\ d.dmp_on = c.dmp_on /\ d.int = c.int /\ d.set = [c.set EXCEPT ![r.reg] = r.v]
      /\ c.set \in [Settings -> 0..255] /\ r.reg \in Settings
  BY <1>3 DEF CfgType, CfgTo
<1>n. ASSUME NEW X PROVE /\ None(ops \o t, X) <=> None(ops, X) /\ None(t, X)
                         /\ None(<<h>> \o t, X) <=> h \notin X /\ None(t, X)
  BY <1>1, NoneLaws
<1>7. DmpInv(ops \o t, d)
  BY <1>1, <1>2, <1>5, <1>6, DmpKeeps DEF CfgInv
<1>8. RateInv(ops \o t, d)
  <2> SUFFICES ASSUME ~None(ops \o t, {Call("DmpIsOn")})
               PROVE  /\ None(ops \o t, Wrong)
                      /\ \/ ~None(ops \o t, Rates)
                         \/ d.set["rate_div"] = 4 /\ d.set["lpf"] = Lpf(100)
    BY DEF RateInv
  <2>1. None(<<h>> \o t, Wrong)
    BY <1>4, <1>5, <1>n DEF CfgInv, RateInv
  <2>2. h = Setting("lpf", Lpf(100)) /\ None(t, Wrong)
    BY <1>4, <1>n, <2>1
  <2>3. r.reg = "lpf" /\ r.v = Lpf(100)
    BY <1>3, <2>2 DEF Setting
  <2>4. ~None(t, Rates) \/ c.set["rate_div"] = 4
    BY <1>4, <1>5, <1>n DEF CfgInv, RateInv
  <2> QED BY <1>5, <1>6, <1>n, <2>2, <2>3, <2>4
<1>9. KnownInv(ops \o t, d)
  <2> SUFFICES ASSUME NEW reg \in Settings
               PROVE  /\ d.set[reg] \in Good(reg) \/ ~None(ops \o t, Setters(reg))
                      /\ Follows(ops \o t, {Call("Forget")}, Setters(reg))
    BY DEF KnownInv
  <2>1. Follows(ops \o t, {Call("Forget")}, Setters(reg))
    BY <1>1, <1>5, FollowsKeeps DEF CfgInv, KnownInv
  <2>2. CASE reg = r.reg
    BY <1>3, <1>6, <2>1, <2>2
  <2>3. CASE reg # r.reg
    BY <1>4, <1>6, <1>n, <2>1, <2>3 DEF CfgInv, KnownInv
  <2> QED BY <2>2, <2>3
<1>10. IntInv(ops \o t, d)
  BY <1>1, <1>4, <1>5, <1>6, IntKeeps DEF CfgInv
<1> QED BY <1>7, <1>8, <1>9, <1>10 DEF CfgInv

\* The same of two steps.
LEMMA TwoLaws ==
    ASSUME NEW a, NEW b
    PROVE  /\ \A X : None(<<a, b>>, X) <=> a \notin X /\ b \notin X
           /\ \A X, Y : Ahead(<<a, b>>, X, Y) <=> b \in X \/ (a \in X /\ b \notin Y)
<1>1. DOMAIN <<a, b>> = {1, 2} /\ <<a, b>>[1] = a /\ <<a, b>>[2] = b
  OBVIOUS
<1> QED BY <1>1 DEF None, Ahead

\* A set grows by one at most with a member more.
LEMMA AddOne ==
    ASSUME NEW S, NEW x, IsFiniteSet(S)
    PROVE  /\ IsFiniteSet(S \cup {x})
           /\ Cardinality(S) \in Nat /\ Cardinality(S \cup {x}) \in Nat
           /\ Cardinality(S \cup {x}) <= Cardinality(S) + 1
<1>1. IsFiniteSet(S \cup {x}) /\ Cardinality(S) \in Nat
      /\ Cardinality(S \cup {x}) = IF x \in S THEN Cardinality(S) ELSE Cardinality(S) + 1
  BY FS_AddElement, FS_CardinalityType
<1> QED BY <1>1

LEMMA FiveAtMost ==
    IsFiniteSet({188, 98, 42, 20, 10}) /\ Cardinality({188, 98, 42, 20, 10}) <= 5
<1> DEFINE S1 == {188}
<1> DEFINE S2 == {188, 98}
<1> DEFINE S3 == {188, 98, 42}
<1> DEFINE S4 == {188, 98, 42, 20}
<1> DEFINE S5 == {188, 98, 42, 20, 10}
<1>1. S2 = S1 \cup {98} /\ S3 = S2 \cup {42} /\ S4 = S3 \cup {20} /\ S5 = S4 \cup {10}
  OBVIOUS
<1> HIDE DEF S1, S2, S3, S4, S5
<1>2. IsFiniteSet(S1) /\ Cardinality(S1) <= 1
  BY FS_Singleton DEF S1
<1>3. IsFiniteSet(S2) /\ Cardinality(S2) <= 2
  <2>1. /\ IsFiniteSet(S1 \cup {98}) /\ Cardinality(S1) \in Nat /\ Cardinality(S1 \cup {98}) \in Nat
        /\ Cardinality(S1 \cup {98}) <= Cardinality(S1) + 1
    BY <1>2, AddOne, Zenon
  <2> QED BY <1>1, <1>2, <2>1
<1>4. IsFiniteSet(S3) /\ Cardinality(S3) <= 3
  <2>1. /\ IsFiniteSet(S2 \cup {42}) /\ Cardinality(S2) \in Nat /\ Cardinality(S2 \cup {42}) \in Nat
        /\ Cardinality(S2 \cup {42}) <= Cardinality(S2) + 1
    BY <1>3, AddOne, Zenon
  <2> QED BY <1>1, <1>3, <2>1
<1>5. IsFiniteSet(S4) /\ Cardinality(S4) <= 4
  <2>1. /\ IsFiniteSet(S3 \cup {20}) /\ Cardinality(S3) \in Nat /\ Cardinality(S3 \cup {20}) \in Nat
        /\ Cardinality(S3 \cup {20}) <= Cardinality(S3) + 1
    BY <1>4, AddOne, Zenon
  <2> QED BY <1>1, <1>4, <2>1
<1>6. IsFiniteSet(S5) /\ Cardinality(S5) <= 5
  <2>1. /\ IsFiniteSet(S4 \cup {10}) /\ Cardinality(S4) \in Nat /\ Cardinality(S4 \cup {10}) \in Nat
        /\ Cardinality(S4 \cup {10}) <= Cardinality(S4) + 1
    BY <1>5, AddOne, Zenon
  <2> QED BY <1>1, <1>5, <2>1
<1> QED BY <1>6 DEF S5

\* The dividers, rates and filters there are.
LEMMA DivAndFilter ==
    /\ \A hz \in {20, 50, 200} : 1000 \div hz - 1 \in {4, 19, 49} /\ 1000 \div hz - 1 \in 0..254
    /\ 1000 \div 200 - 1 = 4
    /\ Rate(4) \div 2 = 100
    /\ \A div \in {4, 19, 49} : Rate(div) \in {20, 50, 200}
    /\ \A f : Lpf(f) \in 1..6
<1>1. 1000 \div 20 - 1 = 49 /\ 1000 \div 50 - 1 = 19 /\ 1000 \div 200 - 1 = 4
  OBVIOUS
<1>2. Rate(4) = 200 /\ Rate(19) = 50 /\ Rate(49) = 20
  BY DEF Rate
<1>3. ASSUME NEW f PROVE Lpf(f) \in 1..6
  <2> DEFINE B == {188, 98, 42, 20, 10}
  <2> DEFINE L == {b \in B : f < b}
  <2>6. IsFiniteSet(B) /\ Cardinality(B) <= 5
    BY FiveAtMost
  <2>7. L \subseteq B
    OBVIOUS
  <2>8. IsFiniteSet(L) /\ Cardinality(L) <= Cardinality(B)
    BY <2>6, <2>7, FS_Subset
  <2>9. Cardinality(L) \in Nat /\ Cardinality(B) \in Nat
    BY <2>6, <2>8, FS_CardinalityType
  <2>10. Lpf(f) = 1 + Cardinality(L)
    BY DEF Lpf
  <2> HIDE DEF B, L
  <2> QED BY <2>6, <2>8, <2>9, <2>10
<1> QED BY <1>1, <1>2, <1>3

\* What is known is never the mark of the unknown.
LEMMA GoodValues ==
    /\ \A reg \in Settings : \A v \in Good(reg) : v \in 0..254 /\ v \in Values(reg) /\ v # Unknown
    /\ Good("rate_div") = {4, 19, 49} /\ Good("lpf") = 1..6
    /\ Good("gyro_cfg") = {Dps2000} /\ Good("accel_cfg") = {G2}
    /\ \A reg \in Settings : Values(reg) = 0..254
<1>1. /\ Good("rate_div") = {4, 19, 49} /\ Good("lpf") = 1..6
      /\ Good("gyro_cfg") = {Dps2000} /\ Good("accel_cfg") = {G2}
  BY DEF Good
<1>2. \A reg \in Settings : Values(reg) = 0..254
  BY DEF Settings, Values
<1>3. ASSUME NEW reg \in Settings, NEW v \in Good(reg)
      PROVE  v \in 0..254 /\ v # Unknown
  BY <1>1, <1>3 DEF Settings, Dps2000, G2, Unknown
<1> QED BY <1>1, <1>2, <1>3

\* A setting is a step of its register alone.
LEMMA SettingKinds ==
    ASSUME NEW reg \in Settings, NEW v \in Good(reg)
    PROVE  /\ Setting(reg, v) \in SetSteps /\ Setting(reg, v) \in Off /\ Setting(reg, v) \in Steps
           /\ \A r : Setting(reg, v) \in Setters(r) <=> r = reg
           /\ Setting(reg, v)[2].reg = reg /\ Setting(reg, v)[2].v = v
<1>1. Setting(reg, v) \in SetSteps
  BY PairKinds, GoodValues DEF Setting
<1>2. Setting(reg, v) \in Off /\ Setting(reg, v) \in Steps
  BY <1>1, OtherKinds DEF Off
<1>3. Setting(reg, v)[2] = [reg |-> reg, v |-> v]
  BY DEF Setting
<1>4. Setting(reg, v) \notin Rates
  BY PairKinds DEF Setting
<1> QED BY <1>1, <1>2, <1>3, <1>4 DEF Setters

RateHead(h, div, ops) ==
    /\ h \notin IntMarks /\ h # Call("Forget") /\ h # Call("DmpIsOn") /\ h \notin SetSteps /\ h \in Rates
    /\ h \notin Wrong => div = 4 /\ None(ops, Wrong)
RateOps(ops) ==
    /\ None(ops, DmpOns) /\ None(ops, {Call("DmpIsOn")}) /\ None(ops, {Call("Forget")})
    /\ None(ops, IntMarks) /\ ~None(ops, Setters("lpf"))

\* mpu_set_sample_rate, and in it the rate that the fusion needs.
LEMMA RateCore ==
    ASSUME NEW h \in Off, NEW t \in Seq(Steps), NEW ops \in Seq(Steps), NEW c \in CfgType, NEW d,
           NEW div \in {4, 19, 49}, CfgInv(<<h>> \o t, c),
           RateHead(h, div, ops), RateOps(ops),
           d.dmp_on = c.dmp_on, d.int = c.int, d.set = [c.set EXCEPT !["rate_div"] = div]
    PROVE  c.dmp_on = FALSE /\ CfgInv(ops \o t, d)
<1>1. h \in Steps /\ c.dmp_on = FALSE
  BY OffHead, OtherKinds DEF CfgInv, CfgType
<1>2. c.set \in [Settings -> 0..255] /\ "rate_div" \in Settings /\ "lpf" \in Settings
  BY DEF CfgType, Settings
<1>3. DmpInv(ops \o t, d)
  BY <1>1, DmpKeeps DEF CfgInv, RateOps
<1>n. \A X : /\ None(ops \o t, X) <=> None(ops, X) /\ None(t, X)
             /\ None(<<h>> \o t, X) <=> h \notin X /\ None(t, X)
  BY <1>1, NoneLaws
<1>4. RateInv(ops \o t, d)
  <2> SUFFICES ASSUME ~None(ops \o t, {Call("DmpIsOn")})
               PROVE  /\ None(ops \o t, Wrong)
                      /\ d.set["rate_div"] = 4 /\ ~None(ops \o t, Setters("lpf"))
    BY DEF RateInv
  <2>1. None(<<h>> \o t, Wrong)
    BY <1>n DEF CfgInv, RateInv, RateHead, RateOps
  <2>2. h \notin Wrong /\ None(t, Wrong)
    BY <1>n, <2>1
  <2> QED BY <1>2, <1>n, <2>2 DEF RateHead, RateOps
<1>5. KnownInv(ops \o t, d)
  <2> SUFFICES ASSUME NEW reg \in Settings
               PROVE  /\ d.set[reg] \in Good(reg) \/ ~None(ops \o t, Setters(reg))
                      /\ Follows(ops \o t, {Call("Forget")}, Setters(reg))
    BY DEF KnownInv
  <2>1. Follows(ops \o t, {Call("Forget")}, Setters(reg))
    BY <1>1, FollowsKeeps DEF CfgInv, KnownInv, RateOps
  <2>2. CASE reg = "rate_div"
    BY <1>2, <2>1, <2>2, GoodValues
  <2>3. CASE reg # "rate_div"
    <3>1. h \notin Setters(reg)
      BY <2>3 DEF Setters, RateHead
    <3>2. c.set[reg] \in Good(reg) \/ ~None(<<h>> \o t, Setters(reg))
      BY DEF CfgInv, KnownInv
    <3> QED BY <1>2, <1>n, <2>1, <2>3, <3>1, <3>2
  <2> QED BY <2>2, <2>3
<1>6. IntInv(ops \o t, d)
  BY <1>1, IntKeeps DEF CfgInv, RateHead, RateOps
<1> QED BY <1>1, <1>3, <1>4, <1>5, <1>6 DEF CfgInv

\* The parts of what the driver believes.
LEMMA CfgParts ==
    ASSUME NEW c \in CfgType
    PROVE  /\ c.dmp_on \in BOOLEAN /\ c.fifo \in BOOLEAN /\ c.int \in {"off", "data", "dmp"}
           /\ c.loaded \in BOOLEAN /\ c.bypass \in BOOLEAN /\ c.set \in [Settings -> 0..255]
BY DEF CfgType


\* The two steps of a rate: its divider, and its filter to be set.
LEMMA RateTwo ==
    ASSUME NEW w \in Steps, w \notin Marks, NEW s \in SetSteps, s \in Setters("lpf")
    PROVE  /\ <<w, s>> \in Seq(Steps)
           /\ None(<<w, s>>, DmpOns) /\ None(<<w, s>>, {Call("DmpIsOn")})
           /\ None(<<w, s>>, {Call("Forget")}) /\ None(<<w, s>>, IntMarks)
           /\ ~None(<<w, s>>, Setters("lpf"))
           /\ None(<<w, s>>, Wrong) <=> s \notin Wrong
<1>1. s \in Off /\ s \in Steps
  BY OtherKinds DEF Off
<1>2. s \notin IntMarks /\ s \notin DmpOns /\ s # Call("Forget") /\ s # Call("DmpIsOn")
  <2> PICK r : s = <<"set", r>>
    BY DEF SetSteps
  <2> QED BY PairKinds, PairMarks DEF IntMarks
<1>3. w \notin IntMarks /\ w \notin DmpOns /\ w \notin Wrong /\ w # Call("Forget") /\ w # Call("DmpIsOn")
  BY MarkSets DEF IntMarks
<1>4. <<w, s>> \in Seq(Steps)
  BY <1>1
<1>5. \A X : None(<<w, s>>, X) <=> w \notin X /\ s \notin X
  BY TwoLaws
<1> QED BY <1>2, <1>3, <1>4, <1>5

\* What mpu_set_sample_rate(hz) writes, and the cases that come up.
RateWork(div, f) == <<<<"rate_div", div>>, Setting("lpf", f)>>
RateCase(hz, div, f) == <<hz, div>> \in {<<20, 49>>, <<50, 19>>, <<200, 4>>} /\ (hz = 200 => f = Lpf(100))

\* mpu_set_sample_rate: a known divider, and its filter comes.
LEMMA CfgRate ==
    ASSUME NEW hz, NEW div, NEW f \in 1..6, NEW t \in Seq(Steps), NEW c \in CfgType,
           RateCase(hz, div, f), CfgInv(<<SampleRate(hz)>> \o t, c)
    PROVE  /\ SampleRate(hz) \in Steps /\ RateWork(div, f) \in Seq(Steps) /\ c.dmp_on = FALSE
           /\ CfgTo(c, "rate_div", div) \in CfgType
           /\ CfgInv(RateWork(div, f) \o t, CfgTo(c, "rate_div", div))
<1> DEFINE d == CfgTo(c, "rate_div", div)
<1> HIDE DEF d
<1> DEFINE h == SampleRate(hz)
<1> DEFINE w == <<"rate_div", div>>
<1> DEFINE s == Setting("lpf", f)
<1> DEFINE ops == <<w, s>>
<1>e. <<hz, div>> \in {<<20, 49>>, <<50, 19>>, <<200, 4>>} /\ (hz = 200 => f = Lpf(100))
  BY DEF RateCase
<1>o. ops = RateWork(div, f)
  BY DEF RateWork
<1>i. CfgInv(<<h>> \o t, c)
  OBVIOUS
<1>d. d = CfgTo(c, "rate_div", div)
  BY DEF d
<1>1. h \in Rates /\ h \in Off /\ h \in Steps
  BY <1>e, OtherKinds DEF Off, Rates, SampleRate
<1>3. div \in {4, 19, 49} /\ div \in 0..254 /\ div \in 0..255 /\ (hz = 200 => div = 4) /\ hz \in {20, 50, 200}
  BY <1>e
<1>v. div \in {4, 19, 49}
  BY <1>3
<1>b. div \in 0..254 /\ div \in 0..255
  BY <1>3
<1>4. f \in Good("lpf") /\ "lpf" \in Settings /\ "rate_div" \in Settings
  BY GoodValues DEF Settings
<1>5. /\ s \in Off /\ s \in SetSteps /\ s \in Steps /\ s \in Setters("lpf")
      /\ s \in Wrong <=> s # Setting("lpf", Lpf(100))
  <2>1. s \in Off /\ s \in SetSteps /\ s \in Steps /\ s \in Setters("lpf")
    BY <1>4, SettingKinds
  <2> QED BY <2>1, PairKinds, PairMarks DEF Setting
<1>6. w \in Steps /\ w \notin Marks
  <2>1. "rate_div" \in Registers /\ Values("rate_div") = 0..254
    BY <1>4, GoodValues DEF Registers
  <2> QED BY <1>b, <2>1, WriteKinds
<1>7. /\ h \notin IntMarks /\ h # Call("Forget") /\ h # Call("DmpIsOn") /\ h \notin SetSteps
      /\ h \in Wrong <=> hz # 200
  <2>1. <<"rate", hz>> \in Rates /\ <<"rate", hz>> \notin SetSteps /\ <<"rate", hz>> \notin DmpIsS
    BY <1>3, PairKinds
  <2> QED BY <2>1, PairMarks DEF IntMarks, SampleRate
<1>8. hz = 200 => s = Setting("lpf", Lpf(100))
  BY <1>e
<1> HIDE DEF w, s, h
<1>9. /\ None(ops, DmpOns) /\ None(ops, {Call("DmpIsOn")}) /\ None(ops, {Call("Forget")}) /\ None(ops, IntMarks)
      /\ ~None(ops, Setters("lpf")) /\ ops \in Seq(Steps)
      /\ None(ops, Wrong) <=> s \notin Wrong
  BY <1>5, <1>6, RateTwo
<1> HIDE DEF ops
<1>10. /\ d \in CfgType /\ d.dmp_on = c.dmp_on /\ d.int = c.int
       /\ d.set = [c.set EXCEPT !["rate_div"] = div]
  BY <1>d, <1>b, <1>4 DEF CfgType, CfgTo
<1>11. h \notin Wrong => div = 4 /\ None(ops, Wrong)
  BY <1>3, <1>5, <1>7, <1>8, <1>9
<1>12. RateHead(h, div, ops) /\ RateOps(ops)
  BY <1>1, <1>7, <1>9, <1>11 DEF RateHead, RateOps
<1>13. c.dmp_on = FALSE /\ CfgInv(ops \o t, d)
  BY <1>i, <1>1, <1>v, <1>9, <1>10, <1>12, RateCore
<1> QED BY <1>1, <1>9, <1>10, <1>13, <1>o DEF h, d

\* A call that leaves the settings alone, and what it is replaced by.
LEMMA CallKeeps ==
    ASSUME NEW f, Call(f) \in Steps, NEW t \in Seq(Steps), NEW ops \in Seq(Steps), NEW c, NEW d,
           CfgInv(<<Call(f)>> \o t, c), d.set = c.set,
           None(ops, Wrong), None(ops, {Call("DmpIsOn")}), None(ops, {Call("Forget")})
    PROVE  RateInv(ops \o t, d) /\ KnownInv(ops \o t, d)
<1>1. Call(f) \notin Rates /\ \A reg : Call(f) \notin Setters(reg)
  BY CallKinds
<1>2. RateInv(ops \o t, d)
  BY <1>1, RateKeeps DEF CfgInv
<1>3. KnownInv(ops \o t, d)
  BY <1>1, KnownKeeps DEF CfgInv
<1> QED BY <1>2, <1>3

\* The calls are steps.
LEMMA CallSteps ==
    /\ \A f \in {"FifoAll", "FifoNone", "Forget", "DmpOn", "DmpIsOn", "DmpOff", "DmpIsOff", "IntOn", "IntOff",
                 "Reset", "Features", "Load", "Started", "Wait"} : Call(f) \in Steps
    /\ \A f \in {"FifoAll", "FifoNone", "Forget"} : Call(f) \in Off
BY CallKinds DEF OtherCalls

\* Laws of a call before the others, with the DMP's calls among its kinds.
LEMMA HeadLaws ==
    ASSUME NEW h \in Steps, NEW t \in Seq(Steps)
    PROVE  /\ \A X : None(<<h>> \o t, X) <=> h \notin X /\ None(t, X)
           /\ \A X, Y : Order(<<h>> \o t, X, Y) <=> Order(t, X, Y) /\ (h \notin X \/ None(t, Y))
           /\ \A X, Y : Follows(<<h>> \o t, X, Y) <=> Follows(t, X, Y) /\ (h \notin X \/ ~None(t, Y))
           /\ \A X, Y : Led(<<h>> \o t, X, Y) <=> h \notin X /\ (Led(t, X, Y) \/ h \in Y)
           /\ \A X, Y : Ahead(<<h>> \o t, X, Y) <=> Ahead(t, X, Y) \/ (h \in X /\ None(t, Y))
BY ConsLaws

\* The five, of steps after steps.
LEMMA CatLaws ==
    ASSUME NEW u \in Seq(Steps), NEW t \in Seq(Steps)
    PROVE  /\ \A X : None(u \o t, X) <=> None(u, X) /\ None(t, X)
           /\ \A X, Y : Order(u \o t, X, Y) <=> Order(u, X, Y) /\ Order(t, X, Y) /\ (None(u, X) \/ None(t, Y))
           /\ \A X, Y : Follows(u \o t, X, Y) <=> Follows(t, X, Y) /\ (Follows(u, X, Y) \/ ~None(t, Y))
           /\ \A X, Y : Led(u \o t, X, Y) <=> Led(u, X, Y) /\ (Led(t, X, Y) \/ ~None(u, Y))
           /\ \A X, Y : Ahead(u \o t, X, Y) <=> Ahead(t, X, Y) \/ (Ahead(u, X, Y) /\ None(t, Y))
<1>1. \A X : None(u \o t, X) <=> None(u, X) /\ None(t, X)
  BY NoneCat
<1>2. \A X, Y : Order(u \o t, X, Y) <=> Order(u, X, Y) /\ Order(t, X, Y) /\ (None(u, X) \/ None(t, Y))
  BY OrderCat
<1>3. \A X, Y : Follows(u \o t, X, Y) <=> Follows(t, X, Y) /\ (Follows(u, X, Y) \/ ~None(t, Y))
  BY FollowsCat
<1>4. \A X, Y : Led(u \o t, X, Y) <=> Led(u, X, Y) /\ (Led(t, X, Y) \/ ~None(u, Y))
  BY LedCat
<1>5. \A X, Y : Ahead(u \o t, X, Y) <=> Ahead(t, X, Y) \/ (Ahead(u, X, Y) /\ None(t, Y))
  BY AheadCat
<1> QED BY <1>1, <1>2, <1>3, <1>4, <1>5

\* And of one of them.
LEMMA OneStep ==
    ASSUME NEW h
    PROVE  /\ \A X : None(<<h>>, X) <=> h \notin X
           /\ \A X, Y : Ahead(<<h>>, X, Y) <=> h \in X
BY OneLaws

\* Where nothing needs it, nothing comes too late.
LEMMA NoneLed == \A w, X, Y : None(w, X) => Led(w, X, Y) /\ Follows(w, X, Y) /\ Order(w, X, Y)
BY Smaller

\* mpu_configure_fifo
LEMMA CfgFifoAll ==
    ASSUME NEW t \in Seq(Steps), NEW c \in CfgType, NEW d, CfgInv(<<Call("FifoAll")>> \o t, c),
           d.dmp_on = c.dmp_on, d.int = c.int, d.set = c.set
    PROVE  /\ c.dmp_on = FALSE /\ <<Call("IntOn"), Call("Reset")>> \in Seq(Steps)
           /\ CfgInv(<<Call("IntOn"), Call("Reset")>> \o t, d)
<1> DEFINE ops == <<Call("IntOn"), Call("Reset")>>
<1>1. /\ Call("FifoAll") \in Steps /\ Call("FifoAll") \in Off /\ c.dmp_on = FALSE
      /\ Call("IntOn") \in Steps /\ Call("Reset") \in Steps /\ ops \in Seq(Steps)
  <2>1. /\ Call("FifoAll") \in Steps /\ Call("FifoAll") \in Off
        /\ Call("IntOn") \in Steps /\ Call("Reset") \in Steps
    BY CallSteps
  <2>2. c.dmp_on = FALSE
    BY <2>1, CfgParts, OffHead DEF CfgInv
  <2> QED BY <2>1, <2>2
<1>2. /\ None(ops, DmpOns) /\ None(ops, Wrong) /\ None(ops, {Call("DmpIsOn")}) /\ None(ops, {Call("Forget")})
      /\ None(ops, DmpIsS)
  BY TwoLaws, CallKinds
<1>f. ops = <<Call("IntOn"), Call("Reset")>>
  OBVIOUS
<1> HIDE DEF ops
<1>3. DmpInv(ops \o t, d)
  BY <1>1, <1>2, DmpKeeps DEF CfgInv
<1>4. RateInv(ops \o t, d) /\ KnownInv(ops \o t, d)
  BY <1>1, <1>2, CallKeeps
<1>5. None(t, DmpIsS)
  <2>1. Order(<<Call("FifoAll")>> \o t, {Call("IntOn"), Call("FifoAll")}, DmpIsS)
    BY DEF CfgInv, IntInv
  <2> QED BY <1>1, <2>1, HeadLaws
<1>6. None(ops \o t, DmpIsS) /\ None(ops \o t, {Call("DmpIsOn")})
  <2>1. None(ops \o t, DmpIsS)
    BY <1>1, <1>2, <1>5, CatLaws
  <2> QED BY <2>1 DEF None, DmpIsS
<1>7. Order(ops \o t, {Call("IntOn"), Call("FifoAll")}, DmpIsS)
  BY <1>6 DEF None, Order
<1>8. IntInv(ops \o t, d)
  BY <1>1, <1>6, <1>7, NoneLed DEF CfgInv, IntInv
<1> QED BY <1>f, <1>1, <1>3, <1>4, <1>8 DEF CfgInv

\* mpu_configure_fifo(0): the interrupt will be off.
LEMMA CfgFifoNone ==
    ASSUME NEW t \in Seq(Steps), NEW c \in CfgType, NEW d, CfgInv(<<Call("FifoNone")>> \o t, c),
           d.dmp_on = c.dmp_on, d.int = c.int, d.set = c.set
    PROVE  /\ c.dmp_on = FALSE /\ <<Call("IntOff")>> \in Seq(Steps)
           /\ CfgInv(<<Call("IntOff")>> \o t, d)
<1> DEFINE ops == <<Call("IntOff")>>
<1>1. /\ Call("FifoNone") \in Steps /\ Call("FifoNone") \in Off /\ c.dmp_on = FALSE
      /\ Call("IntOff") \in Steps /\ ops \in Seq(Steps)
  <2>1. /\ Call("FifoNone") \in Steps /\ Call("FifoNone") \in Off /\ Call("IntOff") \in Steps
    BY CallSteps
  <2>2. c.dmp_on = FALSE
    BY <2>1, CfgParts, OffHead DEF CfgInv
  <2> QED BY <2>1, <2>2
<1>2. /\ None(ops, DmpOns) /\ None(ops, Wrong) /\ None(ops, {Call("DmpIsOn")}) /\ None(ops, {Call("Forget")})
      /\ None(ops, DmpIsS) /\ ~None(ops, {Call("IntOff")}) /\ None(ops, {Call("IntOn"), Call("FifoAll")})
  BY OneStep, CallKinds
<1>n. Call("FifoNone") # Call("DmpIsOn") /\ Call("FifoNone") \notin DmpIsS /\ Call("FifoNone") # Call("IntOff")
  BY CallKinds
<1>f. ops = <<Call("IntOff")>>
  OBVIOUS
<1> HIDE DEF ops
<1>3. DmpInv(ops \o t, d)
  BY <1>1, <1>2, DmpKeeps DEF CfgInv
<1>4. RateInv(ops \o t, d) /\ KnownInv(ops \o t, d)
  BY <1>1, <1>2, CallKeeps
<1>5. Led(ops \o t, DmpIsS, {Call("IntOff")})
  BY <1>1, <1>2, NoneLed, CatLaws
<1>6. /\ Order(ops \o t, {Call("IntOn"), Call("FifoAll")}, DmpIsS)
      /\ Follows(ops \o t, {Call("DmpIsOn")}, {Call("IntOn")})
  <2>1. /\ Order(<<Call("FifoNone")>> \o t, {Call("IntOn"), Call("FifoAll")}, DmpIsS)
        /\ Follows(<<Call("FifoNone")>> \o t, {Call("DmpIsOn")}, {Call("IntOn")})
    BY DEF CfgInv, IntInv
  <2> QED BY <1>1, <1>2, <2>1, NoneLed, HeadLaws, CatLaws
<1>8. IntInv(ops \o t, d)
  BY <1>1, <1>5, <1>6 DEF CfgInv, IntInv
<1> QED BY <1>f, <1>1, <1>3, <1>4, <1>8 DEF CfgInv

\* What is cached is given up, and every setting comes again.
LEMMA CfgForget ==
    ASSUME NEW t \in Seq(Steps), NEW c \in CfgType, NEW d, CfgInv(<<Call("Forget")>> \o t, c),
           d.dmp_on = c.dmp_on, d.int = c.int
    PROVE  CfgInv(t, d)
<1> DEFINE h == Call("Forget")
<1>1. h \in Steps /\ c.dmp_on = FALSE
  <2>1. h \in Steps /\ h \in Off
    BY CallSteps
  <2> QED BY <2>1, CfgParts, OffHead DEF CfgInv
<1>2. h \notin DmpOns /\ h \in Wrong /\ h \notin DmpIsS /\ h \notin {Call("DmpIsOn")}
      /\ h \notin {Call("IntOff")} /\ h \notin {Call("IntOn"), Call("FifoAll")} /\ \A reg : h \notin Setters(reg)
  BY CallKinds
<1>i. CfgInv(<<h>> \o t, c)
  OBVIOUS
<1>f. {h} = {Call("Forget")}
  OBVIOUS
<1> HIDE DEF h
<1>3. DmpInv(t, d)
  BY <1>i, <1>1, HeadLaws DEF CfgInv, DmpInv
<1>4. None(t, {Call("DmpIsOn")})
  <2>1. ~None(<<h>> \o t, Wrong)
    BY <1>1, <1>2, HeadLaws
  <2>2. None(<<h>> \o t, {Call("DmpIsOn")})
    BY <1>i, <2>1 DEF CfgInv, RateInv
  <2> QED BY <1>1, <2>2, HeadLaws
<1>5. RateInv(t, d)
  BY <1>4 DEF RateInv
<1>6. KnownInv(t, d)
  <2> SUFFICES ASSUME NEW reg \in Settings
               PROVE  ~None(t, Setters(reg)) /\ Follows(t, {Call("Forget")}, Setters(reg))
    BY DEF KnownInv
  <2>1. Follows(<<h>> \o t, {h}, Setters(reg))
    BY <1>i, <1>f DEF CfgInv, KnownInv
  <2>2. h \in {h}
    OBVIOUS
  <2>3. Follows(t, {h}, Setters(reg)) /\ ~None(t, Setters(reg))
    BY <1>1, <2>1, <2>2, HeadLaws
  <2> QED BY <1>f, <2>3
<1>7. IntInv(t, d)
  BY <1>i, <1>1, <1>2, HeadLaws DEF CfgInv, IntInv
<1> QED BY <1>3, <1>5, <1>6, <1>7 DEF CfgInv

\* set_int_enable
LEMMA CfgInt ==
    ASSUME NEW on \in BOOLEAN, NEW h, h = Call(IF on THEN "IntOn" ELSE "IntOff"), NEW t \in Seq(Steps),
           NEW ops \in Seq(Steps), None(ops, Marks), NEW c, NEW d,
           CfgInv(<<h>> \o t, c), d.dmp_on = c.dmp_on, d.set = c.set,
           d.int = IF ~on THEN "off" ELSE IF c.dmp_on THEN "dmp" ELSE "data"
    PROVE  CfgInv(ops \o t, d)
<1>1. h \in Steps
  BY CallSteps
<1>2. /\ h \notin DmpOns /\ h \notin DmpOffs /\ h \notin Wrong /\ h \notin DmpIsS /\ h \notin {Call("DmpIsOn")}
      /\ h \notin Rates /\ h \notin {Call("DmpIsOff")} /\ h \notin {Call("Forget")}
      /\ \A reg : h \notin Setters(reg)
  BY CallKinds
<1>3. /\ None(ops, DmpOns) /\ None(ops, Off) /\ None(ops, Wrong) /\ None(ops, DmpIsS)
      /\ None(ops, {Call("DmpIsOn")}) /\ None(ops, {Call("Forget")}) /\ None(ops, {Call("IntOff")})
      /\ None(ops, {Call("IntOn"), Call("FifoAll")})
  BY MarkSets, Smaller
<1>4. DmpInv(ops \o t, d)
  BY <1>1, <1>2, <1>3, DmpKeeps DEF CfgInv
<1>5. RateInv(ops \o t, d)
  BY <1>1, <1>2, <1>3, RateKeeps DEF CfgInv
<1>6. KnownInv(ops \o t, d)
  BY <1>1, <1>2, <1>3, KnownKeeps DEF CfgInv
<1>i. IntInv(<<h>> \o t, c)
  BY DEF CfgInv
<1>7. /\ Order(ops \o t, {Call("IntOn"), Call("FifoAll")}, DmpIsS)
      /\ Follows(ops \o t, {Call("DmpIsOn")}, {Call("IntOn")})
      /\ d.dmp_on => Follows(ops \o t, {Call("IntOff")}, {Call("DmpIsOff")})
  <2>1. /\ Order(t, {Call("IntOn"), Call("FifoAll")}, DmpIsS)
        /\ Follows(t, {Call("DmpIsOn")}, {Call("IntOn")})
        /\ d.dmp_on => Follows(t, {Call("IntOff")}, {Call("DmpIsOff")})
    BY <1>i, <1>1, HeadLaws DEF IntInv
  <2> QED BY <2>1, <1>3, NoneLed, CatLaws
<1>8. d.int \in {"off", IF d.dmp_on THEN "dmp" ELSE "data"}
  OBVIOUS
<1>9. d.int = "off" \/ Led(ops \o t, DmpIsS, {Call("IntOff")})
  <2> SUFFICES ASSUME on = TRUE PROVE Led(ops \o t, DmpIsS, {Call("IntOff")})
    OBVIOUS
  <2>1. h \in {Call("IntOn"), Call("FifoAll")}
    OBVIOUS
  <2>2. None(t, DmpIsS)
    BY <1>i, <1>1, <2>1, HeadLaws DEF IntInv
  <2>3. None(ops \o t, DmpIsS)
    BY <2>2, <1>3, CatLaws
  <2> QED BY <2>3, NoneLed
<1>10. d.dmp_on /\ d.int = "off" => ~None(ops \o t, {Call("IntOn"), Call("DmpIsOff")})
  <2> SUFFICES ASSUME on = FALSE, d.dmp_on PROVE ~None(ops \o t, {Call("IntOn"), Call("DmpIsOff")})
    OBVIOUS
  <2>1. h \in {Call("IntOff")}
    OBVIOUS
  <2>2. ~None(t, {Call("DmpIsOff")})
    BY <1>i, <1>1, <2>1, HeadLaws DEF IntInv
  <2>3. ~None(t, {Call("IntOn"), Call("DmpIsOff")})
    BY <2>2 DEF None
  <2> QED BY <2>3, CatLaws
<1>11. IntInv(ops \o t, d)
  BY <1>7, <1>8, <1>9, <1>10 DEF IntInv
<1> QED BY <1>4, <1>5, <1>6, <1>11 DEF CfgInv

\* With the DMP off, the data-ready interrupt is not enabled twice.
LEMMA CfgIntAgain ==
    ASSUME NEW t \in Seq(Steps), NEW c \in CfgType, CfgInv(<<Call("IntOn")>> \o t, c),
           c.dmp_on = FALSE, c.int # "off"
    PROVE  CfgInv(t, c)
<1>1. c.int = IF c.dmp_on THEN "dmp" ELSE "data"
  BY DEF CfgInv, IntInv
<1>2. <<>> \in Seq(Steps) /\ None(<<>>, Marks) /\ <<>> \o t = t
  BY EmptyLaws
<1>3. CfgInv(<<>> \o t, c)
  BY <1>1, <1>2, CfgInt
<1> QED BY <1>2, <1>3

\* The assignments of dmp_on.
LEMMA CfgDmpIsOn ==
    ASSUME NEW t \in Seq(Steps), NEW c \in CfgType, NEW d, CfgInv(<<Call("DmpIsOn")>> \o t, c),
           d.dmp_on = TRUE, d.int = c.int, d.set = c.set
    PROVE  c.int = "off" /\ CfgInv(t, d)
<1> DEFINE h == Call("DmpIsOn")
<1>1. h \in Steps
  BY CallSteps
<1>2. /\ h \in DmpOns /\ h \in DmpIsS /\ h \in {Call("DmpIsOn")} /\ h \notin Rates /\ h \notin {Call("Forget")}
      /\ h \notin {Call("IntOff")} /\ \A reg : h \notin Setters(reg)
  BY CallKinds
<1>i. CfgInv(<<h>> \o t, c)
  OBVIOUS
<1> HIDE DEF h
<1>3. /\ None(t, Off) /\ None(t, DmpOns) /\ None(t, {Call("IntOff")})
      /\ Order(t, DmpOns, Off) /\ Order(t, DmpOns, DmpOffs) /\ Order(t, DmpOns, DmpOns)
      /\ Order(t, DmpOns, {Call("IntOff")})
  BY <1>i, <1>1, <1>2, HeadLaws DEF CfgInv, DmpInv
<1>4. /\ None(t, Rates) /\ None(t, {Call("DmpIsOn")}) /\ \A reg : None(t, Setters(reg))
  <2>1. Rates \subseteq Off /\ {Call("DmpIsOn")} \subseteq DmpOns /\ \A reg : Setters(reg) \subseteq Off
    BY MarkSets DEF DmpOns
  <2> QED BY <1>3, <2>1, Smaller
<1>5. c.set["rate_div"] = 4 /\ c.set["lpf"] = Lpf(100)
  <2>1. ~None(<<h>> \o t, {Call("DmpIsOn")}) /\ None(<<h>> \o t, Rates) /\ None(<<h>> \o t, Setters("lpf"))
    BY <1>1, <1>2, <1>4, HeadLaws
  <2> QED BY <1>i, <2>1 DEF CfgInv, RateInv
<1>6. c.set["gyro_cfg"] = Dps2000 /\ c.set["accel_cfg"] = G2
  <2>1. \A reg \in Settings : c.set[reg] \in Good(reg)
    <3>1. \A reg \in Settings : None(<<h>> \o t, Setters(reg))
      BY <1>1, <1>2, <1>4, HeadLaws
    <3> QED BY <1>i, <3>1 DEF CfgInv, KnownInv
  <2> QED BY <2>1, GoodValues DEF Settings
<1>7. c.set = ForDmp
  <2>1. c.set \in [Settings -> 0..255]
    BY CfgParts
  <2>2. DOMAIN ForDmp = Settings /\ \A r \in Settings : ForDmp[r] = c.set[r]
    BY <1>5, <1>6 DEF ForDmp, Settings
  <2>3. ForDmp = [r \in Settings |-> ForDmp[r]]
    BY <2>2 DEF ForDmp, Settings
  <2> QED BY <2>1, <2>2, <2>3
<1>8. DmpInv(t, d)
  BY <1>3, <1>7, NoneLed DEF DmpInv
<1>9. RateInv(t, d)
  BY <1>4 DEF RateInv
<1>10. KnownInv(t, d)
  <2> SUFFICES ASSUME NEW reg \in Settings
               PROVE  /\ d.set[reg] \in Good(reg) \/ ~None(t, Setters(reg))
                      /\ Follows(t, {Call("Forget")}, Setters(reg))
    BY DEF KnownInv
  <2>1. /\ c.set[reg] \in Good(reg) \/ ~None(<<h>> \o t, Setters(reg))
        /\ Follows(<<h>> \o t, {Call("Forget")}, Setters(reg))
    BY <1>i DEF CfgInv, KnownInv
  <2> QED BY <1>1, <1>2, <2>1, HeadLaws
<1>11. c.int = "off"
  BY <1>i, <1>1, <1>2, HeadLaws DEF CfgInv, IntInv
<1>12. IntInv(t, d)
  <2>1. /\ Order(t, {Call("IntOn"), Call("FifoAll")}, DmpIsS)
        /\ Follows(t, {Call("DmpIsOn")}, {Call("IntOn")}) /\ ~None(t, {Call("IntOn")})
    BY <1>i, <1>1, <1>2, HeadLaws DEF CfgInv, IntInv
  <2>2. ~None(t, {Call("IntOn"), Call("DmpIsOff")})
    BY <2>1 DEF None
  <2>3. Follows(t, {Call("IntOff")}, {Call("DmpIsOff")})
    BY <1>3, NoneLed
  <2> QED BY <1>11, <2>1, <2>2, <2>3 DEF IntInv
<1> QED BY <1>8, <1>9, <1>10, <1>11, <1>12 DEF CfgInv

\* dmp_on is cleared: the interrupt was off before it.
LEMMA CfgDmpIsOff ==
    ASSUME NEW t \in Seq(Steps), NEW c \in CfgType, NEW d, CfgInv(<<Call("DmpIsOff")>> \o t, c),
           d.dmp_on = FALSE, d.int = c.int, d.set = c.set
    PROVE  c.int = "off" /\ CfgInv(t, d)
<1> DEFINE h == Call("DmpIsOff")
<1>1. h \in Steps
  BY CallSteps
<1>2. /\ h \in DmpIsS /\ h \notin Rates /\ h \notin {Call("IntOff")} /\ h \notin Setters("lpf")
      /\ h \notin {Call("DmpIsOn")} /\ \A reg : h \notin Setters(reg)
  BY CallKinds
<1>i. CfgInv(<<h>> \o t, c)
  OBVIOUS
<1> HIDE DEF h
<1>3. DmpInv(t, d)
  BY <1>i, <1>1, HeadLaws DEF CfgInv, DmpInv
<1>4. RateInv(t, d)
  BY <1>i, <1>1, <1>2, HeadLaws DEF CfgInv, RateInv
<1>5. KnownInv(t, d)
  <2> SUFFICES ASSUME NEW reg \in Settings
               PROVE  /\ d.set[reg] \in Good(reg) \/ ~None(t, Setters(reg))
                      /\ Follows(t, {Call("Forget")}, Setters(reg))
    BY DEF KnownInv
  <2>1. /\ c.set[reg] \in Good(reg) \/ ~None(<<h>> \o t, Setters(reg))
        /\ Follows(<<h>> \o t, {Call("Forget")}, Setters(reg))
    BY <1>i DEF CfgInv, KnownInv
  <2> QED BY <1>1, <1>2, <2>1, HeadLaws
<1>6. c.int = "off"
  BY <1>i, <1>1, <1>2, HeadLaws DEF CfgInv, IntInv
<1>7. IntInv(t, d)
  BY <1>i, <1>1, <1>2, <1>6, HeadLaws DEF CfgInv, IntInv
<1> QED BY <1>3, <1>4, <1>5, <1>6, <1>7 DEF CfgInv

\* mpu_set_dmp_state
OffOps(b) == <<Call("IntOff"), FifoEn(b), Call("DmpIsOff"), Call("Reset")>>
OnOps == <<Call("IntOff"), Bypass(<<>>), SampleRate(200), FifoEn(FALSE),
           Call("DmpIsOn"), Call("IntOn"), Call("Reset")>>

\* What mpu_set_dmp_state(0) does, by kinds.
LEMMA OffOpsLaws ==
    ASSUME NEW b \in BOOLEAN
    PROVE  /\ OffOps(b) \in Seq(Steps)
           /\ None(OffOps(b), DmpOns) /\ None(OffOps(b), Off) /\ ~None(OffOps(b), DmpOffs)
           /\ None(OffOps(b), Wrong) /\ None(OffOps(b), {Call("DmpIsOn")}) /\ None(OffOps(b), {Call("Forget")})
           /\ None(OffOps(b), {Call("IntOn"), Call("FifoAll")})
           /\ Led(OffOps(b), DmpIsS, {Call("IntOff")}) /\ ~None(OffOps(b), {Call("IntOff")})
           /\ ~None(OffOps(b), {Call("IntOn"), Call("DmpIsOff")})
           /\ Follows(OffOps(b), {Call("IntOff")}, {Call("DmpIsOff")})
<1> DEFINE w == OffOps(b)
<1>1. DOMAIN w = 1..4 /\ w[1] = Call("IntOff") /\ w[2] = FifoEn(b) /\ w[3] = Call("DmpIsOff")
      /\ w[4] = Call("Reset")
  BY DEF OffOps
<1>2. FifoEn(b) \in Steps /\ FifoEn(b) \notin Marks
  <2>1. "fifo_en" \in Registers /\ (IF b THEN "on" ELSE "off") \in Values("fifo_en")
    BY DEF Registers, Settings, Values
  <2> QED BY <2>1, WriteKinds DEF FifoEn
<1>3. w \in Seq(Steps)
  BY <1>2, CallSteps DEF OffOps
<1>m. /\ FifoEn(b) \notin DmpOns /\ FifoEn(b) \notin Off /\ FifoEn(b) \notin Wrong /\ FifoEn(b) \notin DmpIsS
      /\ FifoEn(b) # Call("DmpIsOn") /\ FifoEn(b) # Call("Forget")
      /\ FifoEn(b) # Call("IntOn") /\ FifoEn(b) # Call("FifoAll") /\ FifoEn(b) # Call("IntOff")
  BY <1>2, MarkSets
<1> HIDE DEF w
<1>i. \A i \in DOMAIN w : i = 1 \/ i = 2 \/ i = 3 \/ i = 4
  BY <1>1
<1>j. 1 \in DOMAIN w /\ 3 \in DOMAIN w /\ 1 < 3
  BY <1>1
<1>4. /\ None(w, DmpOns) /\ None(w, Off) /\ None(w, Wrong) /\ None(w, {Call("DmpIsOn")})
      /\ None(w, {Call("Forget")}) /\ None(w, {Call("IntOn"), Call("FifoAll")})
  BY <1>1, <1>i, <1>m, CallKinds DEF None
<1>5. /\ ~None(w, DmpOffs) /\ ~None(w, {Call("IntOff")}) /\ ~None(w, {Call("IntOn"), Call("DmpIsOff")})
  BY <1>1, <1>j, CallKinds DEF None
<1>6. Led(w, DmpIsS, {Call("IntOff")})
  BY <1>1, <1>i, <1>j, <1>m, CallKinds DEF Led
<1>7. Follows(w, {Call("IntOff")}, {Call("DmpIsOff")})
  BY <1>1, <1>i, <1>j, <1>m, CallKinds DEF Follows
<1> QED BY <1>3, <1>4, <1>5, <1>6, <1>7 DEF w

\* mpu_set_dmp_state(0): off comes before whatever needs it off.
LEMMA CfgDmpOff ==
    ASSUME NEW b \in BOOLEAN, NEW t \in Seq(Steps), NEW c \in CfgType, CfgInv(<<Call("DmpOff")>> \o t, c)
    PROVE  CfgInv(OffOps(b) \o t, c)
<1> DEFINE h == Call("DmpOff")
<1> DEFINE w == OffOps(b)
<1>1. h \in Steps
  BY CallSteps
<1>2. /\ h \notin Off /\ h \notin {Call("IntOn"), Call("FifoAll")} /\ h \notin {Call("IntOff")}
      /\ h \notin {Call("DmpIsOn")}
  BY CallKinds
<1>3. /\ w \in Seq(Steps)
      /\ None(w, DmpOns) /\ None(w, Off) /\ ~None(w, DmpOffs)
      /\ None(w, Wrong) /\ None(w, {Call("DmpIsOn")}) /\ None(w, {Call("Forget")})
      /\ None(w, {Call("IntOn"), Call("FifoAll")})
      /\ Led(w, DmpIsS, {Call("IntOff")}) /\ ~None(w, {Call("IntOff")})
      /\ ~None(w, {Call("IntOn"), Call("DmpIsOff")})
      /\ Follows(w, {Call("IntOff")}, {Call("DmpIsOff")})
  BY OffOpsLaws
<1>i. CfgInv(<<h>> \o t, c)
  OBVIOUS
<1>4. RateInv(w \o t, c) /\ KnownInv(w \o t, c)
  BY <1>1, <1>3, CallKeeps
<1> HIDE DEF h, w
<1>5. DmpInv(w \o t, c)
  <2>1. /\ Order(t, DmpOns, Off) /\ Order(t, DmpOns, DmpOffs) /\ Order(t, DmpOns, DmpOns)
        /\ Order(t, DmpOns, {Call("IntOff")})
        /\ c.dmp_on => c.set = ForDmp
    BY <1>i, <1>1, HeadLaws DEF CfgInv, DmpInv
  <2>2. /\ Order(w \o t, DmpOns, Off) /\ Order(w \o t, DmpOns, DmpOffs) /\ Order(w \o t, DmpOns, DmpOns)
        /\ Order(w \o t, DmpOns, {Call("IntOff")})
    BY <1>3, <2>1, NoneLed, CatLaws
  <2>3. Led(w \o t, Off, DmpOffs)
    BY <1>3, NoneLed, CatLaws
  <2> QED BY <2>1, <2>2, <2>3 DEF DmpInv
<1>6. IntInv(w \o t, c)
  <2>1. /\ Order(t, {Call("IntOn"), Call("FifoAll")}, DmpIsS)
        /\ c.dmp_on => Follows(t, {Call("IntOff")}, {Call("DmpIsOff")})
        /\ Follows(t, {Call("DmpIsOn")}, {Call("IntOn")})
        /\ c.int \in {"off", IF c.dmp_on THEN "dmp" ELSE "data"}
    BY <1>i, <1>1, HeadLaws DEF CfgInv, IntInv
  <2>2. /\ Order(w \o t, {Call("IntOn"), Call("FifoAll")}, DmpIsS)
        /\ c.dmp_on => Follows(w \o t, {Call("IntOff")}, {Call("DmpIsOff")})
        /\ Follows(w \o t, {Call("DmpIsOn")}, {Call("IntOn")})
    BY <1>3, <2>1, NoneLed, CatLaws
  <2>3. Led(w \o t, DmpIsS, {Call("IntOff")}) /\ ~None(w \o t, {Call("IntOn"), Call("DmpIsOff")})
    BY <1>3, CatLaws
  <2> QED BY <2>1, <2>2, <2>3 DEF IntInv
<1> QED BY <1>4, <1>5, <1>6 DEF CfgInv, w

\* Already on, or with nothing loaded.
LEMMA CfgDmpOnSkip ==
    ASSUME NEW t \in Seq(Steps), NEW c \in CfgType, CfgInv(<<Call("DmpOn")>> \o t, c)
    PROVE  CfgInv(t, c)
<1>1. Call("DmpOn") \in Steps /\ Call("DmpOn") \notin DmpOffs /\ Call("DmpOn") \notin IntMarks
  BY CallSteps, CallKinds DEF IntMarks
<1>e. <<>> \in Seq(Steps) /\ <<>> \o t = t
  OBVIOUS
<1>2. /\ None(<<>>, DmpOns) /\ None(<<>>, Off) /\ None(<<>>, IntMarks)
      /\ None(<<>>, Wrong) /\ None(<<>>, {Call("DmpIsOn")}) /\ None(<<>>, {Call("Forget")})
  BY EmptyLaws
<1>3. DmpInv(<<>> \o t, c)
  BY <1>e, <1>1, <1>2, DmpKeeps DEF CfgInv
<1>4. RateInv(<<>> \o t, c) /\ KnownInv(<<>> \o t, c)
  BY <1>e, <1>1, <1>2, CallKeeps
<1>5. IntInv(<<>> \o t, c)
  BY <1>e, <1>1, <1>2, IntKeeps DEF CfgInv
<1> QED BY <1>e, <1>3, <1>4, <1>5 DEF CfgInv

\* Seven steps are steps.
LEMMA SevenSteps ==
    ASSUME NEW S, NEW s1 \in S, NEW s2 \in S, NEW s3 \in S, NEW s4 \in S, NEW s5 \in S, NEW s6 \in S, NEW s7 \in S
    PROVE  <<s1, s2, s3, s4, s5, s6, s7>> \in Seq(S)
OBVIOUS

\* What mpu_set_dmp_state(1) does, by kinds.
LEMMA OnOpsLaws ==
    /\ OnOps \in Seq(Steps)
    /\ Order(OnOps, DmpOns, Off) /\ Order(OnOps, DmpOns, DmpOffs) /\ Order(OnOps, DmpOns, DmpOns)
    /\ Order(OnOps, DmpOns, {Call("IntOff")})
    /\ None(OnOps, Wrong) /\ ~None(OnOps, Rates) /\ None(OnOps, {Call("Forget")})
    /\ Led(OnOps, DmpIsS, {Call("IntOff")}) /\ ~None(OnOps, {Call("IntOff")})
    /\ Order(OnOps, {Call("IntOn"), Call("FifoAll")}, DmpIsS)
    /\ Follows(OnOps, {Call("DmpIsOn")}, {Call("IntOn")})
<1> DEFINE w == OnOps
<1>1. DOMAIN w = 1..7 /\ w[1] = Call("IntOff") /\ w[2] = Bypass(<<>>) /\ w[3] = SampleRate(200)
      /\ w[4] = FifoEn(FALSE) /\ w[5] = Call("DmpIsOn") /\ w[6] = Call("IntOn") /\ w[7] = Call("Reset")
  BY DEF OnOps
<1>2. FifoEn(FALSE) \in Steps /\ FifoEn(FALSE) \notin Marks
  <2>1. "fifo_en" \in Registers /\ "off" \in Values("fifo_en")
    BY DEF Registers, Settings, Values
  <2> QED BY <2>1, WriteKinds DEF FifoEn
<1>3. Bypass(<<>>) \in Steps /\ Bypass(<<>>) \notin Marks
  <2>1. Bypass(<<>>) \in Bypasses
    BY DEF Bypasses
  <2> QED BY <2>1, OtherKinds
<1>4. SampleRate(200) \in Rates /\ SampleRate(200) \in Steps
  BY OtherKinds DEF Off, Rates, SampleRate
<1>5. /\ SampleRate(200) \notin Wrong /\ SampleRate(200) \notin DmpOns /\ SampleRate(200) \notin DmpIsS
      /\ \A f : SampleRate(200) # Call(f)
  <2>1. <<"rate", 200>> \in Rates /\ <<"rate", 200>> \notin SetSteps /\ <<"rate", 200>> \notin DmpOns
        /\ <<"rate", 200>> \notin DmpIsS
    BY PairKinds
  <2> QED BY <2>1, PairMarks DEF SampleRate
<1>6. ASSUME NEW s, s \notin Marks
      PROVE  /\ s \notin DmpOns /\ s \notin Off /\ s \notin Wrong /\ s \notin DmpIsS /\ s # Call("Forget")
             /\ s # Call("DmpIsOn") /\ s # Call("IntOn") /\ s # Call("FifoAll") /\ s # Call("IntOff")
  BY <1>6, MarkSets
<1>7. OnOps \in Seq(Steps)
  <2>1. Call("IntOff") \in Steps /\ Call("DmpIsOn") \in Steps /\ Call("IntOn") \in Steps /\ Call("Reset") \in Steps
    BY CallSteps
  <2> QED BY <1>2, <1>3, <1>4, <2>1, SevenSteps, Zenon DEF OnOps
<1>c. \A f \in {"IntOff", "IntOn", "Reset"} :
          /\ Call(f) \notin DmpOns /\ Call(f) \notin DmpIsS /\ Call(f) \notin Wrong /\ Call(f) # Call("Forget")
          /\ f # "IntOn" => Call(f) \notin {Call("IntOn"), Call("FifoAll")}
  BY CallKinds
<1>o. /\ Call("DmpIsOn") \notin Wrong /\ Call("DmpIsOn") # Call("Forget")
      /\ Call("DmpIsOn") \notin {Call("IntOn"), Call("FifoAll")}
  BY CallKinds
<1>d. w = OnOps
  OBVIOUS
<1> HIDE DEF w
<1>i. \A i \in DOMAIN w : i = 1 \/ i = 2 \/ i = 3 \/ i = 4 \/ i = 5 \/ i = 6 \/ i = 7
  BY <1>1
<1>j. {1, 3, 5, 6} \subseteq DOMAIN w
  BY <1>1
<1>k. /\ FifoEn(FALSE) \notin DmpOns /\ FifoEn(FALSE) \notin Off /\ FifoEn(FALSE) \notin Wrong
      /\ FifoEn(FALSE) \notin DmpIsS /\ FifoEn(FALSE) # Call("Forget") /\ FifoEn(FALSE) # Call("DmpIsOn")
      /\ FifoEn(FALSE) # Call("IntOn") /\ FifoEn(FALSE) # Call("FifoAll") /\ FifoEn(FALSE) # Call("IntOff")
  BY <1>2, <1>6
<1>l. /\ Bypass(<<>>) \notin DmpOns /\ Bypass(<<>>) \notin Off /\ Bypass(<<>>) \notin Wrong
      /\ Bypass(<<>>) \notin DmpIsS /\ Bypass(<<>>) # Call("Forget") /\ Bypass(<<>>) # Call("DmpIsOn")
      /\ Bypass(<<>>) # Call("IntOn") /\ Bypass(<<>>) # Call("FifoAll") /\ Bypass(<<>>) # Call("IntOff")
  BY <1>3, <1>6
<1>p. /\ w[1] \notin DmpOns /\ w[2] \notin DmpOns /\ w[3] \notin DmpOns /\ w[4] \notin DmpOns
       /\ w[6] \notin DmpOns /\ w[7] \notin DmpOns
  BY <1>1, <1>k, <1>l, <1>5, <1>c, <1>o
<1>q. /\ w[1] \notin DmpIsS /\ w[2] \notin DmpIsS /\ w[3] \notin DmpIsS /\ w[4] \notin DmpIsS
       /\ w[6] \notin DmpIsS /\ w[7] \notin DmpIsS
  BY <1>1, <1>k, <1>l, <1>5, <1>c, <1>o
<1>r. /\ w[1] \notin Wrong /\ w[2] \notin Wrong /\ w[3] \notin Wrong /\ w[4] \notin Wrong
       /\ w[5] \notin Wrong /\ w[6] \notin Wrong /\ w[7] \notin Wrong
  BY <1>1, <1>k, <1>l, <1>5, <1>c, <1>o
<1>s. /\ w[1] # Call("Forget") /\ w[2] # Call("Forget") /\ w[3] # Call("Forget") /\ w[4] # Call("Forget")
       /\ w[5] # Call("Forget") /\ w[6] # Call("Forget") /\ w[7] # Call("Forget")
  BY <1>1, <1>k, <1>l, <1>5, <1>c, <1>o
<1>t. /\ w[1] \notin {Call("IntOn"), Call("FifoAll")} /\ w[2] \notin {Call("IntOn"), Call("FifoAll")} /\ w[3] \notin {Call("IntOn"), Call("FifoAll")} /\ w[4] \notin {Call("IntOn"), Call("FifoAll")}
       /\ w[5] \notin {Call("IntOn"), Call("FifoAll")} /\ w[7] \notin {Call("IntOn"), Call("FifoAll")}
  BY <1>1, <1>k, <1>l, <1>5, <1>c, <1>o
<1>8. \A i \in DOMAIN w : w[i] \in DmpOns => i = 5
  BY <1>i, <1>p
<1>9. \A j \in DOMAIN w : 5 < j => w[j] \notin Off /\ w[j] \notin DmpOffs /\ w[j] \notin DmpOns
                                   /\ w[j] \notin {Call("IntOff")}
  <2>1. \A j \in DOMAIN w : 5 < j => j = 6 \/ j = 7
    BY <1>i
  <2> QED BY <1>1, <2>1, CallKinds
<1>10. /\ Order(w, DmpOns, Off) /\ Order(w, DmpOns, DmpOffs) /\ Order(w, DmpOns, DmpOns)
       /\ Order(w, DmpOns, {Call("IntOff")})
  BY <1>8, <1>9 DEF Order
<1>11. None(w, Wrong) /\ None(w, {Call("Forget")})
  <2>1. \A i \in DOMAIN w : w[i] \notin Wrong
    BY <1>i, <1>r
  <2>2. \A i \in DOMAIN w : w[i] # Call("Forget")
    BY <1>i, <1>s
  <2> QED BY <2>1, <2>2 DEF None
<1>12. ~None(w, Rates) /\ ~None(w, {Call("IntOff")})
  BY <1>1, <1>j, <1>4 DEF None
<1>13. \A i \in DOMAIN w : w[i] \in DmpIsS => i = 5
  BY <1>i, <1>q
<1>14. Led(w, DmpIsS, {Call("IntOff")})
  BY <1>1, <1>13, <1>j DEF Led
<1>15. \A i \in DOMAIN w : w[i] \in {Call("IntOn"), Call("FifoAll")} => i = 6
  BY <1>i, <1>t
<1>16. Order(w, {Call("IntOn"), Call("FifoAll")}, DmpIsS)
  BY <1>13, <1>15 DEF Order
<1>17. Follows(w, {Call("DmpIsOn")}, {Call("IntOn")})
  <2>1. \A i \in DOMAIN w : w[i] = Call("DmpIsOn") => i = 5
    BY <1>8, CallKinds
  <2> QED BY <1>1, <1>j, <2>1 DEF Follows
<1> QED BY <1>d, <1>7, <1>10, <1>11, <1>12, <1>14, <1>16, <1>17

\* mpu_set_dmp_state(1): rate and filter come before dmp_on.
LEMMA CfgDmpOn ==
    ASSUME NEW t \in Seq(Steps), NEW c \in CfgType, CfgInv(<<Call("DmpOn")>> \o t, c), c.dmp_on = FALSE
    PROVE  CfgInv(OnOps \o t, c)
<1> DEFINE h == Call("DmpOn")
<1> DEFINE w == OnOps
<1>1. h \in Steps
  BY CallSteps
<1>2. /\ h \in DmpOns /\ h \notin {Call("IntOn"), Call("FifoAll")} /\ h \notin {Call("DmpIsOn")}
      /\ \A reg : h \notin Setters(reg)
  BY CallKinds
<1>3. /\ w \in Seq(Steps)
      /\ Order(w, DmpOns, Off) /\ Order(w, DmpOns, DmpOffs) /\ Order(w, DmpOns, DmpOns)
      /\ Order(w, DmpOns, {Call("IntOff")})
      /\ None(w, Wrong) /\ ~None(w, Rates) /\ None(w, {Call("Forget")})
      /\ Led(w, DmpIsS, {Call("IntOff")}) /\ ~None(w, {Call("IntOff")})
      /\ Order(w, {Call("IntOn"), Call("FifoAll")}, DmpIsS)
      /\ Follows(w, {Call("DmpIsOn")}, {Call("IntOn")})
  BY OnOpsLaws
<1>i. CfgInv(<<h>> \o t, c)
  OBVIOUS
<1> HIDE DEF h, w
<1>4. /\ None(t, Off) /\ None(t, DmpOffs) /\ None(t, DmpOns) /\ None(t, {Call("IntOff")})
  BY <1>i, <1>1, <1>2, HeadLaws DEF CfgInv, DmpInv
<1>5. /\ None(t, Wrong) /\ None(t, {Call("DmpIsOn")}) /\ None(t, {Call("Forget")}) /\ None(t, DmpIsS)
      /\ \A reg : None(t, Setters(reg))
  <2>1. /\ Wrong \subseteq Off /\ {Call("DmpIsOn")} \subseteq DmpOns /\ {Call("Forget")} \subseteq Off
        /\ \A reg : Setters(reg) \subseteq Off
    BY MarkSets DEF DmpOns
  <2>2. DmpIsS \subseteq DmpOns \cup DmpOffs
    BY DEF DmpOns, DmpOffs, DmpIsS
  <2>3. None(t, DmpOns \cup DmpOffs)
    BY <1>4, Smaller
  <2> QED BY <1>4, <2>1, <2>2, <2>3, Smaller
<1>6. DmpInv(w \o t, c)
  <2>1. /\ Order(t, DmpOns, Off) /\ Order(t, DmpOns, DmpOffs) /\ Order(t, DmpOns, DmpOns)
        /\ Order(t, DmpOns, {Call("IntOff")})
    BY <1>4, NoneLed
  <2>2. /\ Order(w \o t, DmpOns, Off) /\ Order(w \o t, DmpOns, DmpOffs) /\ Order(w \o t, DmpOns, DmpOns)
        /\ Order(w \o t, DmpOns, {Call("IntOff")})
    BY <1>3, <1>4, <2>1, CatLaws
  <2> QED BY <2>2 DEF DmpInv
<1>7. RateInv(w \o t, c)
  BY <1>3, <1>5, CatLaws DEF RateInv
<1>8. KnownInv(w \o t, c)
  <2> SUFFICES ASSUME NEW reg \in Settings
               PROVE  /\ c.set[reg] \in Good(reg)
                      /\ Follows(w \o t, {Call("Forget")}, Setters(reg))
    BY DEF KnownInv
  <2>1. None(<<h>> \o t, Setters(reg))
    BY <1>1, <1>2, <1>5, HeadLaws
  <2>2. c.set[reg] \in Good(reg)
    BY <1>i, <2>1 DEF CfgInv, KnownInv
  <2>3. None(w \o t, {Call("Forget")})
    BY <1>3, <1>5, CatLaws
  <2> QED BY <2>2, <2>3, NoneLed
<1>9. IntInv(w \o t, c)
  <2>1. c.int \in {"off", IF c.dmp_on THEN "dmp" ELSE "data"}
    BY <1>i DEF CfgInv, IntInv
  <2>2. Led(t, DmpIsS, {Call("IntOff")}) /\ Order(t, {Call("IntOn"), Call("FifoAll")}, DmpIsS)
        /\ Follows(t, {Call("DmpIsOn")}, {Call("IntOn")})
    <3>1. Order(t, {Call("IntOn"), Call("FifoAll")}, DmpIsS)
      BY <1>5, Smaller
    <3> QED BY <1>5, <3>1, NoneLed
  <2>3. Led(w \o t, DmpIsS, {Call("IntOff")}) /\ Order(w \o t, {Call("IntOn"), Call("FifoAll")}, DmpIsS)
        /\ Follows(w \o t, {Call("DmpIsOn")}, {Call("IntOn")})
    BY <1>3, <1>5, <2>2, CatLaws
  <2> QED BY <2>1, <2>3 DEF IntInv
<1> QED BY <1>6, <1>7, <1>8, <1>9 DEF CfgInv, w

-----------------------------------------------------------------------------
(* The chip: k is its registers, w and c as before.                          *)

DCalls == Biases \cup {Call("IntOn"), Call("IntOff"), Call("FifoNone"), Call("DmpOff"),
                       Call("DmpIsOn"), Call("DmpIsOff"), Power("reset")}
Restarts == {Call("Reset"), Call("FifoAll")}

\* The register has the value, or its last write that comes gives it.
Done(w, reg, v, now) ==
    \/ now = v /\ None(w, Writes(reg))
    \/ Ahead(w, {<<reg, v>>}, Writes(reg))

\* The FIFO is set up anew and nothing upsets it after that, or it is set up
\* but for the writes that come first.
ModeInv(w, c, k) ==
    \/ Ahead(w, Restarts, DCalls \cup Modes)
    \/ /\ None(w, DCalls) /\ None(w, {Call("FifoAll")})
       /\ Order(w, Steps \ Modes, Modes)
       /\ Done(w, "int_enable", c.int, k.int)
       /\ Done(w, "user_ctrl", IF c.dmp_on THEN "dmp" ELSE "fifo", k.ctrl)
       /\ Done(w, "fifo_en", IF ~c.dmp_on /\ c.fifo THEN "on" ELSE "off", IF k.raw THEN "on" ELSE "off")

Sleeps == {Power("reset"), Power("asleep"), Bypass(<<Power("asleep")>>)}

AwakeInv(w, k) ==
    \/ k.awake /\ None(w, Sleeps)
    \/ Ahead(w, {Power("awake")}, Sleeps)

Spoils(reg) == Writes(reg) \cup Biases \cup {Power("reset")}

\* A setting is written anew, or is what the driver believes, or its write is
\* what comes first.
RegInv(w, c, k, reg) ==
    \/ Ahead(w, {Call("Forget")}, Spoils(reg))
    \/ None(w, Spoils(reg)) /\ (k.set[reg] = c.set[reg] \/ c.set[reg] = Unknown)
    \/ /\ w # <<>> /\ Head(w) \in Writes(reg) /\ Head(w)[2] = c.set[reg]
       /\ None(Tail(w), Spoils(reg))

ChipInv(w, c, k) == ModeInv(w, c, k) /\ AwakeInv(w, k) /\ \A reg \in Settings : RegInv(w, c, k, reg)

\* The writes of the FIFO's setup.
LEMMA ModeWrites ==
    \A reg \in {"int_enable", "user_ctrl", "fifo_en"} : Writes(reg) \subseteq Modes
BY DEF Modes

LEMMA NoneBoth == \A w, X, Y : None(w, X \cup Y) <=> None(w, X) /\ None(w, Y)
BY Smaller

LEMMA SeqSteps == \A w \in Seq(Steps) : \A i \in DOMAIN w : w[i] \in Steps
OBVIOUS

\* A step before others is their head.
LEMMA HeadTail ==
    ASSUME NEW h \in Steps, NEW t \in Seq(Steps)
    PROVE  /\ <<h>> \o t # <<>> /\ Head(<<h>> \o t) = h /\ Tail(<<h>> \o t) = t
           /\ <<h>> \o t \in Seq(Steps)
<1>1. <<h>> \in Seq(Steps) /\ Len(<<h>>) = 1 /\ <<h>>[1] = h
  OBVIOUS
<1>2. /\ <<h>> \o t \in Seq(Steps) /\ Len(<<h>> \o t) = 1 + Len(t) /\ Len(t) \in Nat
      /\ \A i \in 1..1 + Len(t) : (<<h>> \o t)[i] = IF i <= 1 THEN <<h>>[i] ELSE t[i - 1]
  BY <1>1, ConcatProperties
<1>3. <<h>> \o t # <<>> /\ Head(<<h>> \o t) = h
  BY <1>1, <1>2
<1>4. Tail(<<h>> \o t) = t
  <2> DEFINE w == <<h>> \o t
  <2>1. w \in Seq(Steps) /\ Len(w) = 1 + Len(t)
    BY <1>2
  <2>2. \A i \in 1..Len(t) : w[i + 1] = t[i]
    BY <1>2
  <2>3. Tail(w) = [i \in 1..(Len(w) - 1) |-> w[i + 1]]
    BY <2>1
  <2>4. Len(w) - 1 = Len(t) /\ t = [i \in 1..Len(t) |-> t[i]]
    BY <1>2, <2>1
  <2> HIDE DEF w
  <2>5. Tail(w) = t
    BY <2>2, <2>3, <2>4
  <2> QED BY <2>5 DEF w
<1> QED BY <1>2, <1>3, <1>4

\* A head that has nothing to do with the FIFO.
LEMMA ModeKeeps ==
    ASSUME NEW h \in Steps, NEW t \in Seq(Steps), NEW ops \in Seq(Steps), NEW c, NEW d, NEW k, NEW l,
           ModeInv(<<h>> \o t, c, k), h \notin Modes, h \notin Restarts,
           None(ops, DCalls), None(ops, {Call("FifoAll")}), None(ops, Modes),
           d.dmp_on = c.dmp_on, d.int = c.int, d.fifo = c.fifo,
           l.int = k.int, l.ctrl = k.ctrl, l.raw = k.raw
    PROVE  ModeInv(ops \o t, d, l)
<1>1. CASE Ahead(<<h>> \o t, Restarts, DCalls \cup Modes)
  <2>1. Ahead(t, Restarts, DCalls \cup Modes)
    BY <1>1, HeadLaws
  <2>2. Ahead(ops \o t, Restarts, DCalls \cup Modes)
    BY <2>1, CatLaws
  <2> QED BY <2>2 DEF ModeInv
<1>2. CASE ~Ahead(<<h>> \o t, Restarts, DCalls \cup Modes)
  <2>1. /\ None(<<h>> \o t, DCalls) /\ None(<<h>> \o t, {Call("FifoAll")})
        /\ Order(<<h>> \o t, Steps \ Modes, Modes)
    BY <1>2 DEF ModeInv
  <2>2. h \in Steps \ Modes
    OBVIOUS
  <2>3. None(t, DCalls) /\ None(t, {Call("FifoAll")}) /\ None(t, Modes)
    BY <2>1, <2>2, HeadLaws
  <2>4. None(ops \o t, DCalls) /\ None(ops \o t, {Call("FifoAll")}) /\ None(ops \o t, Modes)
    BY <2>3, CatLaws
  <2>5. Order(ops \o t, Steps \ Modes, Modes)
    BY <2>4, Smaller
  <2>6. None(<<h>> \o t, Modes)
    BY <2>3, HeadLaws
  <2>7. ASSUME NEW reg \in {"int_enable", "user_ctrl", "fifo_en"}, NEW v, NEW now,
               Done(<<h>> \o t, reg, v, now)
        PROVE  Done(ops \o t, reg, v, now)
    <3>1. None(<<h>> \o t, Writes(reg)) /\ None(ops \o t, Writes(reg))
      BY <2>4, <2>6, ModeWrites, Smaller
    <3>2. ~Ahead(<<h>> \o t, {<<reg, v>>}, Writes(reg))
      <4> SUFFICES ASSUME Ahead(<<h>> \o t, {<<reg, v>>}, Writes(reg)) PROVE FALSE
        OBVIOUS
      <4>1. PICK i \in DOMAIN (<<h>> \o t) : (<<h>> \o t)[i] = <<reg, v>>
        BY DEF Ahead
      <4>2. <<reg, v>> \in Modes
        <5>1. <<reg, v>> \in Steps
          BY <4>1, HeadTail, SeqSteps
        <5>2. reg \in Registers
          BY DEF Registers
        <5> QED BY <5>1, <5>2, WriteKinds
      <4> QED BY <2>6, <4>1, <4>2 DEF None
    <3> QED BY <2>7, <3>1, <3>2 DEF Done
  <2> QED BY <1>2, <2>4, <2>5, <2>7 DEF ModeInv
<1> QED BY <1>1, <1>2

\* A head that cannot come once the FIFO is set up.
LEMMA ModeUpset ==
    ASSUME NEW h \in Steps, NEW t \in Seq(Steps), NEW ops \in Seq(Steps), NEW c, NEW d, NEW k, NEW l,
           ModeInv(<<h>> \o t, c, k), h \in DCalls, h \notin Restarts
    PROVE  ModeInv(ops \o t, d, l)
<1>1. ~None(<<h>> \o t, DCalls)
  BY HeadLaws
<1>2. Ahead(<<h>> \o t, Restarts, DCalls \cup Modes)
  BY <1>1 DEF ModeInv
<1>3. Ahead(t, Restarts, DCalls \cup Modes)
  BY <1>2, HeadLaws
<1>4. Ahead(ops \o t, Restarts, DCalls \cup Modes)
  BY <1>3, CatLaws
<1> QED BY <1>4 DEF ModeInv

\* mpu_configure_fifo, all sensors
LEMMA ModeFifoAll ==
    ASSUME NEW t \in Seq(Steps), NEW ops \in Seq(Steps), NEW c, NEW d, NEW k, NEW l,
           ModeInv(<<Call("FifoAll")>> \o t, c, k), Ahead(ops, Restarts, DCalls \cup Modes)
    PROVE  ModeInv(ops \o t, d, l)
<1>1. Call("FifoAll") \in Steps /\ Call("FifoAll") \in {Call("FifoAll")}
  BY CallSteps
<1>2. ~None(<<Call("FifoAll")>> \o t, {Call("FifoAll")})
  BY <1>1, HeadLaws
<1>3. Ahead(<<Call("FifoAll")>> \o t, Restarts, DCalls \cup Modes)
  BY <1>2 DEF ModeInv
<1>4. Ahead(t, Restarts, DCalls \cup Modes) \/ None(t, DCalls \cup Modes)
  BY <1>1, <1>3, HeadLaws
<1>5. Ahead(ops \o t, Restarts, DCalls \cup Modes)
  BY <1>4, CatLaws
<1> QED BY <1>5 DEF ModeInv

\* mpu_set_dmp_state(1)
LEMMA ModeDmpOn ==
    ASSUME NEW t \in Seq(Steps), NEW ops \in Seq(Steps), NEW c, NEW d, NEW k, NEW l,
           ModeInv(<<Call("DmpOn")>> \o t, c, k), Ahead(ops, Restarts, DCalls \cup Modes)
    PROVE  ModeInv(ops \o t, d, l)
<1>1. /\ Call("DmpOn") \in Steps /\ Call("DmpOn") \notin Modes /\ Call("DmpOn") \notin Restarts
      /\ Call("DmpOn") \in Steps \ Modes
  BY CallSteps, CallKinds DEF Restarts
<1>2. Ahead(t, Restarts, DCalls \cup Modes) \/ (None(t, DCalls) /\ None(t, Modes))
  BY <1>1, HeadLaws DEF ModeInv
<1>3. Ahead(ops \o t, Restarts, DCalls \cup Modes)
  BY <1>2, NoneBoth, CatLaws
<1> QED BY <1>3 DEF ModeInv

\* mpu_reset_fifo
LEMMA ModeReset ==
    ASSUME NEW t \in Seq(Steps), NEW ops \in Seq(Steps), NEW c, NEW k, ModeInv(<<Call("Reset")>> \o t, c, k),
           None(ops, DCalls), None(ops, {Call("FifoAll")}), None(ops, Steps \ Modes),
           Ahead(ops, {<<"int_enable", c.int>>}, Writes("int_enable")),
           Ahead(ops, {<<"user_ctrl", IF c.dmp_on THEN "dmp" ELSE "fifo">>}, Writes("user_ctrl")),
           Ahead(ops, {<<"fifo_en", IF ~c.dmp_on /\ c.fifo THEN "on" ELSE "off">>}, Writes("fifo_en"))
    PROVE  ModeInv(ops \o t, c, k)
<1>1. Call("Reset") \in Steps /\ Call("Reset") \notin Modes /\ Call("Reset") \in Steps \ Modes
  BY CallSteps, CallKinds
<1>2. \/ Ahead(t, Restarts, DCalls \cup Modes)
      \/ None(t, DCalls \cup Modes)
      \/ None(t, DCalls) /\ None(t, Modes)
  BY <1>1, HeadLaws DEF ModeInv
<1>3. CASE Ahead(t, Restarts, DCalls \cup Modes)
  BY <1>3, CatLaws DEF ModeInv
<1>4. CASE None(t, DCalls) /\ None(t, Modes) /\ ~Ahead(t, Restarts, DCalls \cup Modes)
  <2>1. None(t, DCalls \cup Modes)
    BY <1>4, NoneBoth
  <2>2. None(t, Restarts)
    BY <1>4, <2>1, Smaller
  <2>3. None(t, {Call("FifoAll")})
    BY <2>2, Smaller DEF Restarts
  <2>4. None(ops \o t, DCalls) /\ None(ops \o t, {Call("FifoAll")})
    BY <1>4, <2>3, CatLaws
  <2>5. Order(ops \o t, Steps \ Modes, Modes)
    <3>1. Order(ops, Steps \ Modes, Modes) /\ Order(t, Steps \ Modes, Modes)
      BY <1>4, Smaller
    <3> QED BY <1>4, <3>1, CatLaws
  <2>6. \A reg \in {"int_enable", "user_ctrl", "fifo_en"} : None(t, Writes(reg))
    BY <1>4, ModeWrites, Smaller
  <2>7. /\ Ahead(ops \o t, {<<"int_enable", c.int>>}, Writes("int_enable"))
        /\ Ahead(ops \o t, {<<"user_ctrl", IF c.dmp_on THEN "dmp" ELSE "fifo">>}, Writes("user_ctrl"))
        /\ Ahead(ops \o t, {<<"fifo_en", IF ~c.dmp_on /\ c.fifo THEN "on" ELSE "off">>}, Writes("fifo_en"))
    BY <2>6, CatLaws
  <2> QED BY <2>4, <2>5, <2>7 DEF ModeInv, Done
<1> QED BY <1>2, <1>3, <1>4, NoneBoth

\* A write of one of the three registers arrives.
LEMMA ModeWrite ==
    ASSUME NEW reg \in {"int_enable", "user_ctrl", "fifo_en"}, NEW x \in Values(reg),
           NEW t \in Seq(Steps), NEW c, NEW k, NEW l, ModeInv(<<<<reg, x>>>> \o t, c, k),
           l.int = IF reg = "int_enable" THEN x ELSE k.int,
           l.ctrl = IF reg = "user_ctrl" THEN IF x = "reset" THEN "off" ELSE x ELSE k.ctrl,
           l.raw = IF reg = "fifo_en" THEN x = "on" ELSE k.raw
    PROVE  ModeInv(t, c, l)
<1> DEFINE h == <<reg, x>>
<1>1. h \in Steps /\ h \in Modes /\ h \in Writes(reg) /\ h \notin Restarts
  <2>1. reg \in Registers
    BY DEF Registers
  <2>2. h \in Steps /\ h \in Modes
    BY <2>1, WriteKinds
  <2>3. h \in Writes(reg)
    BY PairKinds
  <2>4. h \notin Restarts
    BY PairMarks DEF Restarts
  <2> QED BY <2>2, <2>3, <2>4
<1>2. \A r \in {"int_enable", "user_ctrl", "fifo_en"} : \A v :
          /\ r # reg => h \notin Writes(r) /\ h # <<r, v>>
          /\ h = <<reg, v>> <=> x = v
  BY PairKinds
<1>i. ModeInv(<<h>> \o t, c, k)
  OBVIOUS
<1> HIDE DEF h
<1>3. CASE Ahead(<<h>> \o t, Restarts, DCalls \cup Modes)
  BY <1>1, <1>3, HeadLaws DEF ModeInv
<1>4. CASE ~Ahead(<<h>> \o t, Restarts, DCalls \cup Modes)
  <2>1. /\ None(t, DCalls) /\ None(t, {Call("FifoAll")}) /\ Order(t, Steps \ Modes, Modes)
        /\ Done(<<h>> \o t, "int_enable", c.int, k.int)
        /\ Done(<<h>> \o t, "user_ctrl", IF c.dmp_on THEN "dmp" ELSE "fifo", k.ctrl)
        /\ Done(<<h>> \o t, "fifo_en", IF ~c.dmp_on /\ c.fifo THEN "on" ELSE "off",
                IF k.raw THEN "on" ELSE "off")
    BY <1>i, <1>1, <1>4, HeadLaws DEF ModeInv
  <2>2. ASSUME NEW r \in {"int_enable", "user_ctrl", "fifo_en"}, r # reg, NEW v, NEW now,
               Done(<<h>> \o t, r, v, now)
        PROVE  Done(t, r, v, now)
    <3>1. h \notin Writes(r) /\ h \notin {<<r, v>>}
      BY <1>2, <2>2
    <3> QED BY <1>1, <2>2, <3>1, HeadLaws DEF Done
  <2>3. ASSUME NEW v, NEW now, Done(<<h>> \o t, reg, v, now)
        PROVE  Ahead(t, {<<reg, v>>}, Writes(reg)) \/ (x = v /\ None(t, Writes(reg)))
    <3>1. Ahead(<<h>> \o t, {<<reg, v>>}, Writes(reg))
      BY <1>1, <2>3, HeadLaws DEF Done
    <3>2. h \in {<<reg, v>>} <=> x = v
      BY <1>2
    <3> QED BY <1>1, <3>1, <3>2, HeadLaws
  <2>4. CASE reg = "int_enable"
    <3>1. Done(t, "int_enable", c.int, l.int)
      <4>1. \/ Ahead(t, {<<"int_enable", c.int>>}, Writes("int_enable"))
            \/ x = c.int /\ None(t, Writes("int_enable"))
        BY <2>1, <2>3, <2>4
      <4>2. l.int = x
        BY <2>4
      <4> QED BY <4>1, <4>2 DEF Done
    <3>2. l.ctrl = k.ctrl /\ l.raw = k.raw
      BY <2>4
    <3>3. /\ Done(t, "user_ctrl", IF c.dmp_on THEN "dmp" ELSE "fifo", l.ctrl)
          /\ Done(t, "fifo_en", IF ~c.dmp_on /\ c.fifo THEN "on" ELSE "off", IF l.raw THEN "on" ELSE "off")
      BY <2>1, <2>2, <2>4, <3>2
    <3> QED BY <2>1, <3>1, <3>3 DEF ModeInv
  <2>5. CASE reg = "user_ctrl"
    <3>1. Done(t, "user_ctrl", IF c.dmp_on THEN "dmp" ELSE "fifo", l.ctrl)
      <4> DEFINE v == IF c.dmp_on THEN "dmp" ELSE "fifo"
      <4>1. \/ Ahead(t, {<<"user_ctrl", v>>}, Writes("user_ctrl"))
            \/ x = v /\ None(t, Writes("user_ctrl"))
        BY <2>1, <2>3, <2>5
      <4>2. x = v => l.ctrl = x
        BY <2>5
      <4> QED BY <4>1, <4>2 DEF Done
    <3>2. l.int = k.int /\ l.raw = k.raw
      BY <2>5
    <3>3. /\ Done(t, "int_enable", c.int, l.int)
          /\ Done(t, "fifo_en", IF ~c.dmp_on /\ c.fifo THEN "on" ELSE "off", IF l.raw THEN "on" ELSE "off")
      BY <2>1, <2>2, <2>5, <3>2
    <3> QED BY <2>1, <3>1, <3>3 DEF ModeInv
  <2>6. CASE reg = "fifo_en"
    <3>0. x \in {"on", "off"} /\ (IF l.raw THEN "on" ELSE "off") = x
      <4>1. Values("fifo_en") = {"on", "off"}
        BY DEF Values, Settings
      <4> QED BY <2>6, <4>1
    <3>1. Done(t, "fifo_en", IF ~c.dmp_on /\ c.fifo THEN "on" ELSE "off", IF l.raw THEN "on" ELSE "off")
      BY <2>1, <2>3, <2>6, <3>0 DEF Done
    <3>2. l.int = k.int /\ l.ctrl = k.ctrl
      BY <2>6
    <3>3. /\ Done(t, "int_enable", c.int, l.int)
          /\ Done(t, "user_ctrl", IF c.dmp_on THEN "dmp" ELSE "fifo", l.ctrl)
      BY <2>1, <2>2, <2>6, <3>2
    <3> QED BY <2>1, <3>1, <3>3 DEF ModeInv
  <2> QED BY <2>4, <2>5, <2>6
<1> QED BY <1>3, <1>4

\* mpu_set_bypass(0) writes back what user_ctrl is.
LEMMA ModeBypass ==
    ASSUME NEW h \in Bypasses, NEW t \in Seq(Steps), NEW rest \in Seq(Steps), NEW c, NEW d, NEW k,
           k.ctrl \in {"off", "fifo", "dmp"}, ModeInv(<<h>> \o t, c, k),
           d.dmp_on = c.dmp_on, d.int = c.int, d.fifo = c.fifo,
           None(rest, DCalls), None(rest, {Call("FifoAll")}), None(rest, Modes)
    PROVE  ModeInv((<<Ctrl(k.ctrl)>> \o rest) \o t, d, k)
<1> DEFINE x == Ctrl(k.ctrl)
<1>1. /\ h \in Steps /\ h \notin Modes /\ h \notin Restarts /\ h \in Steps \ Modes
  <2>1. \A b, f : <<"bypass", b>> # Call(f)
    BY PairMarks
  <2> QED BY <2>1, OtherKinds DEF Restarts, Bypasses, Bypass
<1>2. /\ x \in Steps /\ x \in Modes /\ x \in Writes("user_ctrl") /\ x \notin Writes("int_enable")
      /\ x \notin Writes("fifo_en") /\ x \notin DCalls /\ x \notin {Call("FifoAll")}
  <2>1. "user_ctrl" \in Registers /\ k.ctrl \in Values("user_ctrl")
    BY DEF Registers, Values, Settings
  <2>2. x \in Steps /\ x \in Modes /\ x \notin Biases /\ \A f : x # Call(f)
    BY <2>1, WriteKinds, PairMarks, PairKinds DEF Ctrl
  <2>3. x \in Writes("user_ctrl") /\ x \notin Writes("int_enable") /\ x \notin Writes("fifo_en")
    BY <2>1, PairKinds DEF Ctrl
  <2>4. x # Power("reset")
    BY DEF Ctrl, Power
  <2> QED BY <2>2, <2>3, <2>4 DEF DCalls
<1>f. x = <<"user_ctrl", k.ctrl>>
  BY DEF Ctrl
<1> HIDE DEF x
<1>3. /\ <<x>> \in Seq(Steps) /\ <<x>> \o rest \in Seq(Steps)
  BY <1>2, HeadTail
<1> DEFINE ops == <<x>> \o rest
<1>4. /\ None(ops, DCalls) /\ None(ops, {Call("FifoAll")}) /\ Order(ops, Steps \ Modes, Modes)
      /\ None(ops, Writes("int_enable")) /\ None(ops, Writes("fifo_en"))
      /\ Ahead(ops, {x}, Writes("user_ctrl"))
  <2>1. \A reg \in {"int_enable", "user_ctrl", "fifo_en"} : None(rest, Writes(reg))
    BY ModeWrites, Smaller
  <2>2. Order(rest, Steps \ Modes, Modes)
    BY Smaller
  <2>3. x \in {x}
    OBVIOUS
  <2> QED BY <1>2, <2>1, <2>2, <2>3, HeadLaws
<1>5. ops \in Seq(Steps)
  BY <1>3
<1>6. ops = <<Ctrl(k.ctrl)>> \o rest
  BY DEF x
<1> HIDE DEF ops
<1>7. CASE Ahead(<<h>> \o t, Restarts, DCalls \cup Modes)
  <2>1. Ahead(ops \o t, Restarts, DCalls \cup Modes)
    BY <1>1, <1>5, <1>7, HeadLaws, CatLaws
  <2> QED BY <1>6, <2>1 DEF ModeInv
<1>8. CASE ~Ahead(<<h>> \o t, Restarts, DCalls \cup Modes)
  <2>1. /\ None(<<h>> \o t, DCalls) /\ None(<<h>> \o t, {Call("FifoAll")})
        /\ Order(<<h>> \o t, Steps \ Modes, Modes)
        /\ Done(<<h>> \o t, "int_enable", c.int, k.int)
        /\ Done(<<h>> \o t, "user_ctrl", IF c.dmp_on THEN "dmp" ELSE "fifo", k.ctrl)
        /\ Done(<<h>> \o t, "fifo_en", IF ~c.dmp_on /\ c.fifo THEN "on" ELSE "off",
                IF k.raw THEN "on" ELSE "off")
    BY <1>8 DEF ModeInv
  <2>2. None(t, DCalls) /\ None(t, {Call("FifoAll")}) /\ None(t, Modes)
    BY <1>1, <2>1, HeadLaws
  <2>3. None(<<h>> \o t, Modes) /\ <<h>> \o t \in Seq(Steps)
    BY <1>1, <2>2, HeadLaws, HeadTail
  <2>4. ASSUME NEW reg \in {"int_enable", "user_ctrl", "fifo_en"}, NEW v, NEW now,
               Done(<<h>> \o t, reg, v, now)
        PROVE  now = v /\ None(t, Writes(reg))
    <3>1. None(t, Writes(reg))
      BY <2>2, ModeWrites, Smaller
    <3>2. ~Ahead(<<h>> \o t, {<<reg, v>>}, Writes(reg))
      <4> SUFFICES ASSUME Ahead(<<h>> \o t, {<<reg, v>>}, Writes(reg)) PROVE FALSE
        OBVIOUS
      <4>1. PICK i \in DOMAIN (<<h>> \o t) : (<<h>> \o t)[i] = <<reg, v>>
        BY DEF Ahead
      <4>2. <<reg, v>> \in Modes
        <5>1. <<reg, v>> \in Steps
          BY <2>3, <4>1, SeqSteps
        <5>2. reg \in Registers
          BY DEF Registers
        <5> QED BY <5>1, <5>2, WriteKinds
      <4> QED BY <2>3, <4>1, <4>2 DEF None
    <3> QED BY <2>4, <3>1, <3>2 DEF Done
  <2>a. \A X : None(ops \o t, X) <=> None(ops, X) /\ None(t, X)
    BY <1>5, CatLaws
  <2>5. Done(ops \o t, "int_enable", d.int, k.int)
    <3>1. k.int = c.int /\ None(t, Writes("int_enable"))
      BY <2>1, <2>4
    <3> QED BY <1>4, <2>a, <3>1 DEF Done
  <2>6. Done(ops \o t, "fifo_en", IF ~d.dmp_on /\ d.fifo THEN "on" ELSE "off", IF k.raw THEN "on" ELSE "off")
    <3>1. /\ (IF k.raw THEN "on" ELSE "off") = (IF ~c.dmp_on /\ c.fifo THEN "on" ELSE "off")
          /\ None(t, Writes("fifo_en"))
      BY <2>1, <2>4
    <3> QED BY <1>4, <2>a, <3>1 DEF Done
  <2>7. Done(ops \o t, "user_ctrl", IF d.dmp_on THEN "dmp" ELSE "fifo", k.ctrl)
    <3> DEFINE v == IF c.dmp_on THEN "dmp" ELSE "fifo"
    <3>1. k.ctrl = v /\ None(t, Writes("user_ctrl"))
      BY <2>1, <2>4
    <3>2. Ahead(ops \o t, {x}, Writes("user_ctrl"))
      BY <1>4, <1>5, <3>1, CatLaws
    <3>3. x = <<"user_ctrl", v>>
      BY <1>f, <3>1
    <3> QED BY <3>2, <3>3 DEF Done
  <2>8. None(ops \o t, DCalls) /\ None(ops \o t, {Call("FifoAll")}) /\ Order(ops \o t, Steps \ Modes, Modes)
    <3>1. Order(t, Steps \ Modes, Modes)
      BY <2>2, Smaller
    <3> QED BY <1>4, <1>5, <2>2, <3>1, CatLaws
  <2> QED BY <1>6, <2>5, <2>6, <2>7, <2>8 DEF ModeInv
<1> QED BY <1>7, <1>8

\* The sensors: what does not send them to sleep leaves them awake, and a wake-up
\* that comes after whatever does is still to come.
LEMMA AwakeKeeps ==
    ASSUME NEW h \in Steps, NEW t \in Seq(Steps), NEW ops \in Seq(Steps), NEW k, NEW l,
           AwakeInv(<<h>> \o t, k), h # Power("awake"), None(ops, Sleeps), l.awake = k.awake
    PROVE  AwakeInv(ops \o t, l)
BY HeadLaws, CatLaws DEF AwakeInv

LEMMA AwakeUpset ==
    ASSUME NEW h \in Steps, NEW t \in Seq(Steps), NEW ops \in Seq(Steps), NEW k, NEW l,
           AwakeInv(<<h>> \o t, k), h # Power("awake"), h \in Sleeps
    PROVE  AwakeInv(ops \o t, l)
BY HeadLaws, CatLaws DEF AwakeInv

LEMMA AwakeWrite ==
    ASSUME NEW h \in Steps, NEW t \in Seq(Steps), NEW k, NEW l,
           AwakeInv(<<h>> \o t, k), l.awake = TRUE
    PROVE  AwakeInv(t, l)
BY HeadLaws DEF AwakeInv

\* A setting: steps that do not touch it; what spoils it before the cache is given
\* up; its being given up; its being set, and its write.
LEMMA RegKeeps ==
    ASSUME NEW h \in Steps, NEW t \in Seq(Steps), NEW ops \in Seq(Steps), NEW c, NEW d, NEW k, NEW l, NEW reg,
           RegInv(<<h>> \o t, c, k, reg), h \notin Spoils(reg), h # Call("Forget"),
           None(ops, Spoils(reg)), d.set[reg] = c.set[reg], l.set[reg] = k.set[reg]
    PROVE  RegInv(ops \o t, d, l, reg)
<1>1. h \notin Writes(reg) /\ h \notin {Call("Forget")} /\ Head(<<h>> \o t) = h
  BY HeadTail DEF Spoils
<1>2. \/ Ahead(<<h>> \o t, {Call("Forget")}, Spoils(reg))
      \/ None(<<h>> \o t, Spoils(reg)) /\ (k.set[reg] = c.set[reg] \/ c.set[reg] = Unknown)
  BY <1>1 DEF RegInv
<1>3. \/ Ahead(ops \o t, {Call("Forget")}, Spoils(reg))
      \/ None(ops \o t, Spoils(reg)) /\ (k.set[reg] = c.set[reg] \/ c.set[reg] = Unknown)
  BY <1>1, <1>2, HeadLaws, CatLaws
<1> QED BY <1>3 DEF RegInv

LEMMA RegUpset ==
    ASSUME NEW h \in Steps, NEW t \in Seq(Steps), NEW ops \in Seq(Steps), NEW c, NEW d, NEW k, NEW l, NEW reg,
           RegInv(<<h>> \o t, c, k, reg), h \in Spoils(reg), h \notin Writes(reg), h # Call("Forget")
    PROVE  RegInv(ops \o t, d, l, reg)
<1>1. h \notin {Call("Forget")} /\ Head(<<h>> \o t) = h
  BY HeadTail
<1>2. ~None(<<h>> \o t, Spoils(reg))
  BY HeadLaws
<1>3. Ahead(<<h>> \o t, {Call("Forget")}, Spoils(reg))
  BY <1>1, <1>2 DEF RegInv
<1>4. Ahead(ops \o t, {Call("Forget")}, Spoils(reg))
  BY <1>1, <1>3, HeadLaws, CatLaws
<1> QED BY <1>4 DEF RegInv

LEMMA RegForget ==
    ASSUME NEW t \in Seq(Steps), NEW c, NEW d, NEW k, NEW reg \in Settings,
           RegInv(<<Call("Forget")>> \o t, c, k, reg), d.set[reg] = Unknown
    PROVE  RegInv(t, d, k, reg)
<1> DEFINE h == Call("Forget")
<1>1. h \in Steps
  BY CallSteps
<1>2. h \notin Writes(reg)
  BY CallKinds DEF Registers
<1>3. Head(<<h>> \o t) = h
  BY <1>1, HeadTail
<1>4. \/ Ahead(<<h>> \o t, {h}, Spoils(reg))
      \/ None(<<h>> \o t, Spoils(reg))
  BY <1>2, <1>3 DEF RegInv
<1>f. h = Call("Forget")
  OBVIOUS
<1> HIDE DEF h
<1>5. Ahead(t, {h}, Spoils(reg)) \/ None(t, Spoils(reg))
  BY <1>1, <1>4, HeadLaws
<1> QED BY <1>f, <1>5 DEF RegInv

LEMMA RegSet ==
    ASSUME NEW h \in Steps, NEW t \in Seq(Steps), NEW rest \in Seq(Steps), NEW c, NEW d, NEW k,
           NEW reg \in Settings, NEW v \in Values(reg),
           RegInv(<<h>> \o t, c, k, reg), h \notin Spoils(reg), h # Call("Forget"),
           None(rest, Spoils(reg)), d.set[reg] = v
    PROVE  RegInv((<<<<reg, v>>>> \o rest) \o t, d, k, reg)
<1> DEFINE x == <<reg, v>>
<1>1. x \in Steps /\ x \in Writes(reg) /\ x[2] = v
  <2>1. reg \in Registers
    BY DEF Registers
  <2> QED BY <2>1, WriteKinds, PairKinds
<1> HIDE DEF x
<1>2. h \notin Writes(reg) /\ h \notin {Call("Forget")} /\ Head(<<h>> \o t) = h
  BY HeadTail DEF Spoils
<1>3. Ahead(t, {Call("Forget")}, Spoils(reg)) \/ None(t, Spoils(reg))
  BY <1>2, HeadLaws DEF RegInv
<1>4. <<x>> \in Seq(Steps) /\ <<x>> \o rest \in Seq(Steps) /\ rest \o t \in Seq(Steps)
  BY <1>1, HeadTail
<1>5. CASE Ahead(t, {Call("Forget")}, Spoils(reg))
  <2>1. Ahead((<<x>> \o rest) \o t, {Call("Forget")}, Spoils(reg))
    BY <1>4, <1>5, CatLaws
  <2> QED BY <2>1 DEF RegInv, x
<1>6. CASE None(t, Spoils(reg))
  <2>1. (<<x>> \o rest) \o t = <<x>> \o (rest \o t)
    BY <1>4, ConcatAssociative
  <2>2. None(rest \o t, Spoils(reg))
    BY <1>6, CatLaws
  <2>3. /\ <<x>> \o (rest \o t) # <<>> /\ Head(<<x>> \o (rest \o t)) = x
        /\ Tail(<<x>> \o (rest \o t)) = rest \o t
    BY <1>1, <1>4, HeadTail
  <2>4. RegInv(<<x>> \o (rest \o t), d, k, reg)
    BY <1>1, <2>2, <2>3 DEF RegInv
  <2> QED BY <2>1, <2>4 DEF x
<1> QED BY <1>3, <1>5, <1>6

LEMMA RegWrite ==
    ASSUME NEW reg \in Settings, NEW v \in Values(reg), NEW t \in Seq(Steps), NEW c, NEW k, NEW l,
           RegInv(<<<<reg, v>>>> \o t, c, k, reg), l.set[reg] = v
    PROVE  RegInv(t, c, l, reg)
<1> DEFINE x == <<reg, v>>
<1>1. x \in Steps /\ x \in Writes(reg) /\ x[2] = v
  <2>1. reg \in Registers
    BY DEF Registers
  <2> QED BY <2>1, WriteKinds, PairKinds
<1>2. x # Call("Forget")
  BY PairMarks DEF Settings
<1>i. RegInv(<<x>> \o t, c, k, reg)
  OBVIOUS
<1> HIDE DEF x
<1>3. Head(<<x>> \o t) = x /\ Tail(<<x>> \o t) = t
  BY <1>1, HeadTail
<1>4. ~None(<<x>> \o t, Spoils(reg))
  BY <1>1, HeadLaws DEF Spoils
<1>5. Ahead(t, {Call("Forget")}, Spoils(reg)) \/ (v = c.set[reg] /\ None(t, Spoils(reg)))
  <2>1. x \notin {Call("Forget")}
    BY <1>2
  <2>2. CASE Ahead(<<x>> \o t, {Call("Forget")}, Spoils(reg))
    BY <1>1, <2>1, <2>2, HeadLaws
  <2>3. CASE ~Ahead(<<x>> \o t, {Call("Forget")}, Spoils(reg))
    <3>1. Head(<<x>> \o t)[2] = c.set[reg] /\ None(Tail(<<x>> \o t), Spoils(reg))
      BY <1>i, <1>4, <2>3 DEF RegInv
    <3> QED BY <1>1, <1>3, <3>1
  <2> QED BY <2>2, <2>3
<1> QED BY <1>5 DEF RegInv

-----------------------------------------------------------------------------
(* The parts together.                                                      *)

Loud == DCalls \cup {Call("FifoAll")} \cup Modes \cup Sleeps \cup UNION {Writes(reg) : reg \in Settings}

\* The kinds that Loud unites.
LEMMA LoudSets ==
    /\ DCalls \subseteq Loud /\ {Call("FifoAll")} \subseteq Loud /\ Modes \subseteq Loud /\ Sleeps \subseteq Loud
    /\ \A reg \in Settings : Spoils(reg) \subseteq Loud
<1> DEFINE U == UNION {Writes(reg) : reg \in Settings}
<1>1. \A reg \in Settings : Writes(reg) \subseteq U
  OBVIOUS
<1>2. Loud = DCalls \cup {Call("FifoAll")} \cup Modes \cup Sleeps \cup U
  BY DEF Loud
<1> HIDE DEF U
<1>3. Biases \subseteq DCalls /\ Power("reset") \in DCalls
  BY DEF DCalls
<1> QED BY <1>1, <1>2, <1>3 DEF Spoils

\* What calls and writes do to the chip, by their words.
LEMMA CallEffects ==
    ASSUME NEW f
    PROVE  /\ Call(f) \in DCalls <=> f \in {"IntOn", "IntOff", "FifoNone", "DmpOff", "DmpIsOn", "DmpIsOff"}
           /\ Call(f) \in Restarts <=> f \in {"Reset", "FifoAll"}
           /\ Call(f) \notin Modes /\ Call(f) \notin Sleeps /\ Call(f) # Power("awake")
           /\ \A reg \in Settings : Call(f) \notin Spoils(reg) /\ Call(f) \notin Writes(reg)
           /\ Call(f) \in Loud <=>
                f \in {"IntOn", "IntOff", "FifoNone", "DmpOff", "DmpIsOn", "DmpIsOff", "FifoAll"}
<1>1. \A v : Call(f) # Power(v) /\ Call(f) # Bypass(v)
  BY DEF Call, Power, Bypass
<1>2. Call(f) \in DCalls <=> f \in {"IntOn", "IntOff", "FifoNone", "DmpOff", "DmpIsOn", "DmpIsOff"}
  BY <1>1, CallKinds DEF DCalls
<1>3. Call(f) \in Restarts <=> f \in {"Reset", "FifoAll"}
  BY CallKinds DEF Restarts
<1>4. Call(f) \notin Modes /\ Call(f) \notin Sleeps /\ Call(f) # Power("awake")
  BY <1>1, CallKinds DEF Sleeps
<1>5. \A reg \in Settings : Call(f) \notin Writes(reg)
  BY CallKinds DEF Registers
<1>6. \A reg \in Settings : Call(f) \notin Spoils(reg)
  BY <1>1, <1>5, CallKinds DEF Spoils
<1>7. Call(f) \notin UNION {Writes(reg) : reg \in Settings}
  BY <1>5
<1>8. Call(f) \in Loud <=> Call(f) \in DCalls \/ f = "FifoAll"
  <2> DEFINE U == UNION {Writes(reg) : reg \in Settings}
  <2>1. Loud = DCalls \cup {Call("FifoAll")} \cup Modes \cup Sleeps \cup U /\ Call(f) \notin U
    BY <1>7 DEF Loud
  <2> HIDE DEF U
  <2> QED BY <1>4, <2>1, CallKinds
<1> QED BY <1>2, <1>3, <1>4, <1>5, <1>6, <1>8

LEMMA WriteEffects ==
    ASSUME NEW reg \in Registers, NEW v
    PROVE  /\ <<reg, v>> \in DCalls <=> reg = "pwr_mgmt" /\ v = "reset"
           /\ <<reg, v>> \notin Restarts /\ \A f : <<reg, v>> # Call(f)
           /\ <<reg, v>> \in Sleeps <=> reg = "pwr_mgmt" /\ v \in {"reset", "asleep"}
           /\ <<reg, v>> = Power("awake") <=> reg = "pwr_mgmt" /\ v = "awake"
           /\ \A r \in Settings : /\ <<reg, v>> \in Writes(r) <=> reg = r /\ v \in Values(r)
                                  /\ <<reg, v>> \in Spoils(r) <=>
                                       \/ reg = r /\ v \in Values(r)
                                       \/ reg = "pwr_mgmt" /\ v = "reset"
<1>1. reg \notin {"call", "rate", "set", "bias", "counted", "read", "bypass"}
  BY DEF Registers, Settings
<1>2. /\ <<reg, v>> \notin Biases /\ \A f : <<reg, v>> # Call(f)
      /\ \A b : <<reg, v>> # Bypass(b)
  BY <1>1, PairKinds, PairMarks DEF Bypass
<1>3. \A x : <<reg, v>> = Power(x) <=> reg = "pwr_mgmt" /\ v = x
  BY DEF Power
<1>4. \A r \in Settings : <<reg, v>> \in Writes(r) <=> reg = r /\ v \in Values(r)
  BY PairKinds
<1> QED BY <1>2, <1>3, <1>4 DEF DCalls, Restarts, Sleeps, Spoils

\* Rates, settings, reads and bypasses.
LEMMA PlainEffects ==
    /\ \A s \in Rates \cup SetSteps \cup Reads : s \in Steps /\ s \notin Loud
    /\ \A s \in Rates \cup SetSteps \cup Reads \cup Bypasses :
           /\ s \in Steps /\ s \notin Modes /\ s \notin Restarts /\ s # Power("awake")
           /\ \A f : s # Call(f)
           /\ \A reg \in Settings : s \notin Spoils(reg)
    /\ Bypass(<<>>) \notin Loud
    /\ Bypass(<<Power("asleep")>>) \in Sleeps
<1>1. ASSUME NEW a \in {"rate", "set", "read", "bypass"}, NEW b
      PROVE  /\ <<a, b>> \notin Modes /\ <<a, b>> \notin Restarts /\ \A x : <<a, b>> # Power(x)
             /\ \A f : <<a, b>> # Call(f)
             /\ <<a, b>> \notin Biases
             /\ \A reg \in Settings : <<a, b>> \notin Writes(reg)
  <2>1. \A reg \in Settings : <<a, b>> \notin Writes(reg)
    BY PairKinds DEF Settings
  <2> QED BY <2>1, PairKinds, PairMarks DEF Restarts, Power
<1>2. ASSUME NEW a \in {"rate", "set", "read", "bypass"}, NEW b
      PROVE  <<a, b>> \notin DCalls /\ \A reg \in Settings : <<a, b>> \notin Spoils(reg)
  BY <1>1, <1>2 DEF DCalls, Spoils
<1>3. ASSUME NEW a \in {"rate", "set", "read", "bypass"}, NEW b, <<a, b>> # Bypass(<<Power("asleep")>>)
      PROVE  <<a, b>> \notin Loud
  <2> DEFINE U == UNION {Writes(reg) : reg \in Settings}
  <2>1. Loud = DCalls \cup {Call("FifoAll")} \cup Modes \cup Sleeps \cup U
    BY DEF Loud
  <2>2. <<a, b>> \notin U
    BY <1>1
  <2> HIDE DEF U
  <2>3. <<a, b>> \notin Sleeps
    BY <1>1, <1>3 DEF Sleeps
  <2> QED BY <1>1, <1>2, <2>1, <2>2, <2>3
<1>4. \A s \in Rates \cup SetSteps \cup Reads \cup Bypasses :
          \E a \in {"rate", "set", "read", "bypass"} : \E b : s = <<a, b>> /\ (s \in Rates \cup SetSteps \cup Reads => a # "bypass")
  BY DEF Rates, SetSteps, Reads, Bypasses, Bypass
<1>5. \A a, b : a # "bypass" => <<a, b>> # Bypass(<<Power("asleep")>>)
  BY DEF Bypass
<1>6. Rates \cup SetSteps \cup Reads \cup Bypasses \subseteq Steps
  BY OtherKinds, MarkSets
<1>7. \A s \in Rates \cup SetSteps \cup Reads : s \in Steps /\ s \notin Loud
  BY <1>3, <1>4, <1>5, <1>6
<1>8. \A s \in Rates \cup SetSteps \cup Reads \cup Bypasses :
           /\ s \in Steps /\ s \notin Modes /\ s \notin Restarts /\ s # Power("awake")
           /\ \A f : s # Call(f)
           /\ \A reg \in Settings : s \notin Spoils(reg)
  BY <1>1, <1>2, <1>4, <1>6
<1>9. Bypass(<<>>) \notin Loud
  <2>1. Bypass(<<>>) # Bypass(<<Power("asleep")>>)
    <3>1. Len(<<>>) = 0 /\ Len(<<Power("asleep")>>) = 1
      OBVIOUS
    <3>2. <<>> # <<Power("asleep")>>
      BY <3>1
    <3> QED BY <3>2 DEF Bypass
  <2> QED BY <1>3, <2>1 DEF Bypass
<1> QED BY <1>7, <1>8, <1>9 DEF Sleeps

\* A head that has nothing to do with the chip.
LEMMA ChipKeeps ==
    ASSUME NEW h \in Steps, NEW t \in Seq(Steps), NEW ops \in Seq(Steps), NEW c, NEW d, NEW k, NEW l,
           ChipInv(<<h>> \o t, c, k), h \notin Modes, h \notin Restarts, h # Call("Forget"), h # Power("awake"),
           \A reg \in Settings : h \notin Spoils(reg), None(ops, Loud),
           d.dmp_on = c.dmp_on, d.int = c.int, d.fifo = c.fifo, d.set = c.set,
           l.int = k.int, l.ctrl = k.ctrl, l.raw = k.raw, l.awake = k.awake, l.set = k.set
    PROVE  ChipInv(ops \o t, d, l)
<1>1. /\ None(ops, DCalls) /\ None(ops, {Call("FifoAll")}) /\ None(ops, Modes) /\ None(ops, Sleeps)
      /\ \A reg \in Settings : None(ops, Spoils(reg))
  BY LoudSets, Smaller
<1>2. ModeInv(ops \o t, d, l)
  BY <1>1, ModeKeeps DEF ChipInv
<1>3. AwakeInv(ops \o t, l)
  BY <1>1, AwakeKeeps DEF ChipInv
<1>4. \A reg \in Settings : RegInv(ops \o t, d, l, reg)
  BY <1>1, RegKeeps DEF ChipInv
<1> QED BY <1>2, <1>3, <1>4 DEF ChipInv

\* What a call leaves alone that sets up the FIFO, or upsets it.
LEMMA CallLeaves ==
    ASSUME NEW f, Call(f) \in Steps, f # "Forget", NEW t \in Seq(Steps), NEW ops \in Seq(Steps),
           NEW c, NEW d, NEW k, ChipInv(<<Call(f)>> \o t, c, k),
           None(ops, Sleeps), \A reg \in Settings : None(ops, Spoils(reg)), d.set = c.set
    PROVE  AwakeInv(ops \o t, k) /\ \A reg \in Settings : RegInv(ops \o t, d, k, reg)
<1>1. /\ Call(f) # Power("awake") /\ \A reg \in Settings : Call(f) \notin Spoils(reg)
      /\ Call(f) # Call("Forget")
  BY CallEffects, CallKinds
<1>2. AwakeInv(ops \o t, k)
  BY <1>1, AwakeKeeps DEF ChipInv
<1>3. \A reg \in Settings : RegInv(ops \o t, d, k, reg)
  BY <1>1, RegKeeps DEF ChipInv
<1> QED BY <1>2, <1>3

-----------------------------------------------------------------------------
(* One step of the driver after another; ok is that no write was lost.       *)

WorkInv(w, c, k, ok) ==
    /\ w \in Seq(Steps) /\ c \in CfgType
    /\ CfgInv(w, c)
    /\ ok => ChipInv(w, c, k)

\* A head that neither the driver nor the chip is touched by gives way to steps
\* that are as quiet.
LEMMA WorkKeeps ==
    ASSUME NEW h \in Steps, NEW t \in Seq(Steps), NEW ops \in Seq(Steps), NEW c, NEW d \in CfgType,
           NEW k, NEW l, NEW ok,
           WorkInv(<<h>> \o t, c, k, ok), h \notin Marks, None(ops, Marks),
           h \notin Modes, h \notin Restarts, h # Power("awake"),
           \A reg \in Settings : h \notin Spoils(reg), None(ops, Loud),
           d.dmp_on = c.dmp_on, d.int = c.int, d.fifo = c.fifo, d.set = c.set,
           l.int = k.int, l.ctrl = k.ctrl, l.raw = k.raw, l.awake = k.awake, l.set = k.set
    PROVE  WorkInv(ops \o t, d, l, ok)
<1>1. ops \o t \in Seq(Steps)
  BY CatPlaces
<1>2. CfgInv(ops \o t, d)
  BY CfgNeutral DEF WorkInv
<1>3. h # Call("Forget")
  BY MarkSets
<1>4. ok => ChipInv(ops \o t, d, l)
  BY <1>3, ChipKeeps DEF WorkInv
<1> QED BY <1>1, <1>2, <1>4 DEF WorkInv

\* No steps before others.
LEMMA EmptyOps ==
    /\ <<>> \in Seq(Steps) /\ \A X : None(<<>>, X)
    /\ \A t \in Seq(Steps) : <<>> \o t = t
<1>1. <<>> \in Seq(Steps) /\ \A t \in Seq(Steps) : <<>> \o t = t
  OBVIOUS
<1> QED BY <1>1, EmptyLaws

\* A write, whether it is lost or arrives.
LEMMA WorkLost ==
    ASSUME NEW reg \in Registers, NEW v \in Values(reg), NEW t \in Seq(Steps), NEW c, NEW k, NEW l, NEW ok,
           WorkInv(<<<<reg, v>>>> \o t, c, k, ok)
    PROVE  WorkInv(t, c, l, FALSE)
<1>1. <<reg, v>> \in Steps /\ <<reg, v>> \notin Marks
  BY WriteKinds
<1>2. CfgInv(<<>> \o t, c)
  BY <1>1, EmptyOps, CfgNeutral DEF WorkInv
<1> QED BY <1>2, EmptyOps DEF WorkInv

\* A write that arrives: the chip has what the list said it would get.
LEMMA WorkWrite ==
    ASSUME NEW reg \in Registers, NEW v \in Values(reg), NEW t \in Seq(Steps), NEW c, NEW k, NEW l, NEW ok,
           WorkInv(<<<<reg, v>>>> \o t, c, k, ok),
           (reg = "pwr_mgmt" /\ v = "reset") \/
               /\ l.int = IF reg = "int_enable" THEN v ELSE k.int
               /\ l.ctrl = IF reg = "user_ctrl" THEN IF v = "reset" THEN "off" ELSE v ELSE k.ctrl
               /\ l.raw = IF reg = "fifo_en" THEN v = "on" ELSE k.raw
               /\ l.awake = IF reg = "pwr_mgmt" THEN v = "awake" ELSE k.awake
               /\ \A r \in Settings : l.set[r] = IF r = reg THEN v ELSE k.set[r]
    PROVE  WorkInv(t, c, l, ok)
<1> DEFINE h == <<reg, v>>
<1>1. /\ h \in Steps /\ h \notin Marks
      /\ h \in Modes <=> reg \in {"int_enable", "user_ctrl", "fifo_en"}
  BY WriteKinds
<1>2. /\ h \in DCalls <=> reg = "pwr_mgmt" /\ v = "reset"
      /\ h \notin Restarts /\ h # Call("Forget")
      /\ h \in Sleeps <=> reg = "pwr_mgmt" /\ v \in {"reset", "asleep"}
      /\ h = Power("awake") <=> reg = "pwr_mgmt" /\ v = "awake"
      /\ \A r \in Settings : /\ h \in Writes(r) <=> reg = r
                             /\ h \in Spoils(r) <=> reg = r \/ (reg = "pwr_mgmt" /\ v = "reset")
  BY WriteEffects
<1>e. <<>> \in Seq(Steps) /\ (\A X : None(<<>>, X)) /\ <<>> \o t = t
  BY EmptyOps
<1>3. CfgInv(t, c)
  BY <1>e, <1>1, CfgNeutral DEF WorkInv
<1>4. SUFFICES ASSUME ok PROVE ChipInv(t, c, l)
  BY <1>3 DEF WorkInv
<1>i. ChipInv(<<h>> \o t, c, k)
  BY <1>4 DEF WorkInv
<1>5. CASE reg = "pwr_mgmt" /\ v = "reset"
  <2>0. /\ h \in DCalls /\ h \in Sleeps /\ h # Power("awake")
        /\ \A r \in Settings : h \in Spoils(r) /\ h \notin Writes(r)
    BY <1>2, <1>5 DEF Settings
  <2>1. ModeInv(<<>> \o t, c, l)
    BY <1>i, <1>e, <1>1, <1>2, <2>0, ModeUpset DEF ChipInv
  <2>2. AwakeInv(<<>> \o t, l)
    BY <1>i, <1>e, <1>1, <2>0, AwakeUpset DEF ChipInv
  <2>3. \A r \in Settings : RegInv(<<>> \o t, c, l, r)
    BY <1>i, <1>e, <1>1, <1>2, <2>0, RegUpset DEF ChipInv
  <2> QED BY <1>e, <2>1, <2>2, <2>3 DEF ChipInv
<1>6. CASE ~(reg = "pwr_mgmt" /\ v = "reset")
  <2>0. /\ l.int = IF reg = "int_enable" THEN v ELSE k.int
        /\ l.ctrl = IF reg = "user_ctrl" THEN IF v = "reset" THEN "off" ELSE v ELSE k.ctrl
        /\ l.raw = IF reg = "fifo_en" THEN v = "on" ELSE k.raw
        /\ l.awake = IF reg = "pwr_mgmt" THEN v = "awake" ELSE k.awake
        /\ \A r \in Settings : l.set[r] = IF r = reg THEN v ELSE k.set[r]
    BY <1>6
  <2>1. ModeInv(t, c, l)
    <3>1. CASE reg \in {"int_enable", "user_ctrl", "fifo_en"}
      BY <1>i, <2>0, <3>1, ModeWrite DEF ChipInv
    <3>2. CASE reg \notin {"int_enable", "user_ctrl", "fifo_en"}
      <4>1. h \notin Modes /\ l.int = k.int /\ l.ctrl = k.ctrl /\ l.raw = k.raw
        BY <1>1, <2>0, <3>2
      <4>2. ModeInv(<<>> \o t, c, l)
        BY <1>i, <1>e, <1>1, <1>2, <4>1, ModeKeeps DEF ChipInv
      <4> QED BY <1>e, <4>2
    <3> QED BY <3>1, <3>2
  <2>2. AwakeInv(t, l)
    <3>1. CASE reg = "pwr_mgmt" /\ v = "awake"
      BY <1>i, <1>1, <2>0, <3>1, AwakeWrite DEF ChipInv
    <3>2. CASE reg = "pwr_mgmt" /\ v # "awake"
      <4>1. v = "asleep"
        BY <1>6, <3>2 DEF Values, Settings
      <4>2. AwakeInv(<<>> \o t, l)
        BY <1>i, <1>e, <1>1, <1>2, <3>2, <4>1, AwakeUpset DEF ChipInv
      <4> QED BY <1>e, <4>2
    <3>3. CASE reg # "pwr_mgmt"
      <4>1. AwakeInv(<<>> \o t, l)
        BY <1>i, <1>e, <1>1, <1>2, <2>0, <3>3, AwakeKeeps DEF ChipInv
      <4> QED BY <1>e, <4>1
    <3> QED BY <3>1, <3>2, <3>3
  <2>3. ASSUME NEW r \in Settings PROVE RegInv(t, c, l, r)
    <3>1. CASE r = reg
      BY <1>i, <2>0, <3>1, RegWrite DEF ChipInv
    <3>2. CASE r # reg
      <4>1. h \notin Spoils(r) /\ l.set[r] = k.set[r]
        BY <1>2, <1>6, <2>0, <3>2
      <4>2. RegInv(<<>> \o t, c, l, r)
        BY <1>i, <1>e, <1>1, <1>2, <4>1, RegKeeps DEF ChipInv
      <4> QED BY <1>e, <4>2
    <3> QED BY <3>1, <3>2
  <2> QED BY <2>1, <2>2, <2>3 DEF ChipInv
<1> QED BY <1>5, <1>6

\* One write before the others, of a register that the FIFO needs.
LEMMA ModeOps ==
    ASSUME NEW reg \in {"int_enable", "user_ctrl", "fifo_en"}, NEW v \in Values(reg)
    PROVE  /\ <<reg, v>> \in Steps /\ <<reg, v>> \in Modes /\ <<reg, v>> \notin Marks
           /\ <<reg, v>> \notin DCalls /\ <<reg, v>> \notin Sleeps /\ <<reg, v>> \notin Reads
           /\ \A f : <<reg, v>> # Call(f)
           /\ \A r \in Settings : <<reg, v>> \notin Spoils(r)
           /\ \A r \in {"int_enable", "user_ctrl", "fifo_en"} : <<reg, v>> \in Writes(r) <=> r = reg
<1>1. reg \in Registers /\ reg # "pwr_mgmt" /\ reg \notin Settings
  BY DEF Registers, Settings
<1>2. /\ <<reg, v>> \in Steps /\ <<reg, v>> \in Modes /\ <<reg, v>> \notin Marks /\ <<reg, v>> \notin Reads
  BY <1>1, WriteKinds
<1>3. /\ <<reg, v>> \notin DCalls /\ <<reg, v>> \notin Sleeps /\ \A f : <<reg, v>> # Call(f)
      /\ \A r \in Settings : <<reg, v>> \notin Spoils(r)
  BY <1>1, WriteEffects
<1>4. \A r \in {"int_enable", "user_ctrl", "fifo_en"} : <<reg, v>> \in Writes(r) <=> r = reg
  BY PairKinds
<1> QED BY <1>2, <1>3, <1>4

\* The values that are written.
LEMMA ModeValues ==
    /\ Values("int_enable") = {"off", "data", "dmp"}
    /\ Values("user_ctrl") = {"off", "fifo", "dmp", "reset"}
    /\ Values("fifo_en") = {"on", "off"}
    /\ Values("pwr_mgmt") = {"reset", "awake", "asleep"}
    /\ Values("mem") = {"feature"}
    /\ \A reg \in Settings : Values(reg) = 0..254
BY DEF Values, Settings

\* A call of those that upset the FIFO.
LEMMA WorkUpset ==
    ASSUME NEW f \in {"IntOn", "IntOff", "FifoNone", "DmpOff", "DmpIsOn", "DmpIsOff"},
           NEW t \in Seq(Steps), NEW ops \in Seq(Steps), NEW c, NEW d \in CfgType, NEW k, NEW ok,
           WorkInv(<<Call(f)>> \o t, c, k, ok), CfgInv(ops \o t, d), d.set = c.set,
           None(ops, Sleeps), \A reg \in Settings : None(ops, Spoils(reg))
    PROVE  WorkInv(ops \o t, d, k, ok)
<1>1. /\ Call(f) \in DCalls /\ Call(f) \notin Restarts /\ f # "Forget"
  BY CallEffects
<1>s. Call(f) \in Steps
  BY CallSteps
<1>2. ops \o t \in Seq(Steps)
  BY CatPlaces
<1>3. ASSUME ok PROVE ChipInv(ops \o t, d, k)
  <2>1. ChipInv(<<Call(f)>> \o t, c, k)
    BY <1>3 DEF WorkInv
  <2>2. ModeInv(ops \o t, d, k)
    BY <1>1, <1>s, <2>1, ModeUpset DEF ChipInv
  <2>3. AwakeInv(ops \o t, k) /\ \A reg \in Settings : RegInv(ops \o t, d, k, reg)
    BY <1>1, <1>s, <2>1, CallLeaves
  <2> QED BY <2>2, <2>3 DEF ChipInv
<1> QED BY <1>2, <1>3 DEF WorkInv

\* set_int_enable
LEMMA WorkInt ==
    ASSUME NEW on \in BOOLEAN, NEW v \in {"off", "data", "dmp"}, NEW t \in Seq(Steps), NEW c, NEW d \in CfgType,
           NEW k, NEW ok,
           WorkInv(<<Call(IF on THEN "IntOn" ELSE "IntOff")>> \o t, c, k, ok),
           v = IF ~on THEN "off" ELSE IF c.dmp_on THEN "dmp" ELSE "data",
           d.set = c.set, d.dmp_on = c.dmp_on, d.int = v
    PROVE  <<IntEn(v)>> \in Seq(Steps) /\ None(<<IntEn(v)>>, Reads) /\ WorkInv(<<IntEn(v)>> \o t, d, k, ok)
<1> DEFINE h == Call(IF on THEN "IntOn" ELSE "IntOff")
<1> DEFINE x == IntEn(v)
<1>1. /\ x \in Steps /\ x \notin Marks /\ x \notin Sleeps /\ x \notin Reads
      /\ \A r \in Settings : x \notin Spoils(r)
  BY ModeOps, ModeValues DEF IntEn
<1>i. WorkInv(<<h>> \o t, c, k, ok)
  OBVIOUS
<1>h. (IF on THEN "IntOn" ELSE "IntOff") \in {"IntOn", "IntOff", "FifoNone", "DmpOff", "DmpIsOn", "DmpIsOff"}
  OBVIOUS
<1>f. <<x>> = <<IntEn(v)>>
  OBVIOUS
<1> HIDE DEF x
<1>2. /\ <<x>> \in Seq(Steps) /\ None(<<x>>, Marks) /\ None(<<x>>, Sleeps) /\ None(<<x>>, Reads)
      /\ \A r \in Settings : None(<<x>>, Spoils(r))
  BY <1>1, OneStep
<1>3. CfgInv(<<x>> \o t, d)
  BY <1>i, <1>2, CfgInt DEF WorkInv
<1>4. WorkInv(<<x>> \o t, d, k, ok)
  BY <1>i, <1>h, <1>2, <1>3, WorkUpset
<1> QED BY <1>f, <1>2, <1>4

\* set_int_enable, skipped: the interrupt was already on.
LEMMA WorkIntAgain ==
    ASSUME NEW t \in Seq(Steps), NEW c, NEW k, NEW ok, WorkInv(<<Call("IntOn")>> \o t, c, k, ok),
           c.dmp_on = FALSE, c.int # "off"
    PROVE  WorkInv(t, c, k, ok)
<1>1. CfgInv(t, c) /\ c \in CfgType
  BY CfgIntAgain DEF WorkInv
<1>2. WorkInv(<<>> \o t, c, k, ok)
  BY <1>1, EmptyOps, WorkUpset
<1> QED BY <1>2, EmptyOps

\* mpu_configure_fifo
LEMMA WorkFifoNone ==
    ASSUME NEW t \in Seq(Steps), NEW c, NEW d \in CfgType, NEW k, NEW ok,
           WorkInv(<<Call("FifoNone")>> \o t, c, k, ok),
           d.dmp_on = c.dmp_on, d.int = c.int, d.set = c.set
    PROVE  c.dmp_on = FALSE /\ <<Call("IntOff")>> \in Seq(Steps) /\ WorkInv(<<Call("IntOff")>> \o t, d, k, ok)
<1> DEFINE ops == <<Call("IntOff")>>
<1>1. c.dmp_on = FALSE /\ ops \in Seq(Steps) /\ CfgInv(ops \o t, d)
  BY CfgFifoNone DEF WorkInv
<1>2. None(ops, Sleeps) /\ \A r \in Settings : None(ops, Spoils(r))
  BY CallEffects, OneStep
<1>f. ops = <<Call("IntOff")>>
  OBVIOUS
<1> HIDE DEF ops
<1>3. WorkInv(ops \o t, d, k, ok)
  BY <1>1, <1>2, WorkUpset
<1> QED BY <1>f, <1>1, <1>3

\* mpu_configure_fifo with all sensors: interrupt and FIFO come anew.
LEMMA WorkFifoAll ==
    ASSUME NEW t \in Seq(Steps), NEW c, NEW d \in CfgType, NEW k, NEW ok,
           WorkInv(<<Call("FifoAll")>> \o t, c, k, ok),
           d.dmp_on = c.dmp_on, d.int = c.int, d.set = c.set
    PROVE  /\ c.dmp_on = FALSE /\ <<Call("IntOn"), Call("Reset")>> \in Seq(Steps)
           /\ WorkInv(<<Call("IntOn"), Call("Reset")>> \o t, d, k, ok)
<1> DEFINE ops == <<Call("IntOn"), Call("Reset")>>
<1>1. c.dmp_on = FALSE /\ ops \in Seq(Steps) /\ CfgInv(ops \o t, d)
  BY CfgFifoAll DEF WorkInv
<1>2. None(ops, Sleeps) /\ \A r \in Settings : None(ops, Spoils(r))
  BY CallEffects, TwoLaws
<1>3. Ahead(ops, Restarts, DCalls \cup Modes)
  BY CallEffects, TwoLaws
<1>f. ops = <<Call("IntOn"), Call("Reset")>>
  OBVIOUS
<1> HIDE DEF ops
<1>4. ASSUME ok PROVE ChipInv(ops \o t, d, k)
  <2>1. ChipInv(<<Call("FifoAll")>> \o t, c, k)
    BY <1>4 DEF WorkInv
  <2>2. ModeInv(ops \o t, d, k)
    BY <1>1, <1>3, <2>1, ModeFifoAll DEF ChipInv
  <2>3. AwakeInv(ops \o t, k) /\ \A reg \in Settings : RegInv(ops \o t, d, k, reg)
    <3>1. Call("FifoAll") \in Steps
      BY CallSteps
    <3> QED BY <1>1, <1>2, <2>1, <3>1, CallLeaves
  <2> QED BY <2>2, <2>3 DEF ChipInv
<1>5. WorkInv(ops \o t, d, k, ok)
  BY <1>1, <1>4, CatPlaces DEF WorkInv
<1> QED BY <1>f, <1>1, <1>5

\* What is cached is given up.
LEMMA WorkForget ==
    ASSUME NEW t \in Seq(Steps), NEW c, NEW d \in CfgType, NEW k, NEW ok,
           WorkInv(<<Call("Forget")>> \o t, c, k, ok),
           d.dmp_on = c.dmp_on, d.int = c.int, d.fifo = c.fifo, \A r \in Settings : d.set[r] = Unknown
    PROVE  WorkInv(t, d, k, ok)
<1>1. CfgInv(t, d)
  BY CfgForget DEF WorkInv
<1>2. /\ Call("Forget") \in Steps /\ Call("Forget") \notin Modes /\ Call("Forget") \notin Restarts
      /\ Call("Forget") # Power("awake")
  BY CallEffects, CallSteps
<1>3. ASSUME ok PROVE ChipInv(t, d, k)
  <2>1. ChipInv(<<Call("Forget")>> \o t, c, k)
    BY <1>3 DEF WorkInv
  <2>2. ModeInv(<<>> \o t, d, k)
    BY <1>2, <2>1, EmptyOps, ModeKeeps DEF ChipInv
  <2>3. AwakeInv(<<>> \o t, k)
    BY <1>2, <2>1, EmptyOps, AwakeKeeps DEF ChipInv
  <2>4. \A r \in Settings : RegInv(t, d, k, r)
    BY <2>1, RegForget DEF ChipInv
  <2> QED BY <2>2, <2>3, <2>4, EmptyOps DEF ChipInv
<1> QED BY <1>1, <1>3 DEF WorkInv

\* The same by the register.
LEMMA CfgSetTo ==
    ASSUME NEW reg \in Settings, NEW v \in Good(reg), NEW t \in Seq(Steps), NEW c \in CfgType,
           CfgInv(<<Setting(reg, v)>> \o t, c), CfgTo(c, reg, v) \in CfgType
    PROVE  \A ops \in Seq(Steps) : None(ops, Marks) => CfgInv(ops \o t, CfgTo(c, reg, v))
<1> DEFINE h == Setting(reg, v)
<1>1. h \in SetSteps /\ h[2].reg = reg /\ h[2].v = v
  BY SettingKinds
<1>2. CfgInv(<<h>> \o t, c)
  OBVIOUS
<1> HIDE DEF h
<1> TAKE ops \in Seq(Steps)
<1> HAVE None(ops, Marks)
<1>3. CfgTo(c, h[2].reg, h[2].v) \in CfgType
  BY <1>1
<1>4. CfgInv(ops \o t, CfgTo(c, h[2].reg, h[2].v))
  BY <1>1, <1>2, <1>3, CfgSet
<1> QED BY <1>1, <1>4

\* mpu_set_gyro_fsr, mpu_set_accel_fsr and mpu_set_lpf
LEMMA WorkSetSkip ==
    ASSUME NEW reg \in Settings, NEW v \in Good(reg), NEW t \in Seq(Steps), NEW c, NEW k, NEW ok,
           WorkInv(<<Setting(reg, v)>> \o t, c, k, ok), c.set[reg] = v
    PROVE  WorkInv(t, c, k, ok)
<1> DEFINE h == Setting(reg, v)
<1>1. h \in SetSteps /\ h \in Steps /\ h[2].reg = reg /\ h[2].v = v
  BY SettingKinds
<1>2. /\ h \notin Modes /\ h \notin Restarts /\ h # Power("awake") /\ h # Call("Forget")
      /\ \A r \in Settings : h \notin Spoils(r)
  BY <1>1, PlainEffects
<1>c. c \in CfgType /\ CfgInv(<<h>> \o t, c)
  BY DEF WorkInv
<1>3. c = CfgTo(c, h[2].reg, h[2].v)
  <2>1. c = CfgTo(c, reg, v)
    BY <1>c DEF CfgType, CfgTo
  <2> QED BY <1>1, <2>1
<1>4. CfgInv(<<>> \o t, c)
  BY <1>c, <1>1, <1>3, EmptyOps, CfgSet
<1>5. ASSUME ok PROVE ChipInv(<<>> \o t, c, k)
  <2>1. ChipInv(<<h>> \o t, c, k)
    BY <1>5 DEF WorkInv
  <2> QED BY <1>1, <1>2, <2>1, EmptyOps, ChipKeeps
<1> QED BY <1>c, <1>4, <1>5, EmptyOps DEF WorkInv

\* A setting that is not what is cached.
LEMMA WorkSet ==
    ASSUME NEW reg \in Settings, NEW v \in Good(reg), NEW t \in Seq(Steps), NEW c, NEW k, NEW ok,
           WorkInv(<<Setting(reg, v)>> \o t, c, k, ok)
    PROVE  /\ <<<<reg, v>>>> \in Seq(Steps) /\ None(<<<<reg, v>>>>, Reads)
           /\ WorkInv(<<<<reg, v>>>> \o t, CfgTo(c, reg, v), k, ok)
<1> DEFINE d == CfgTo(c, reg, v)
<1> HIDE DEF d
<1> DEFINE h == Setting(reg, v)
<1> DEFINE x == <<reg, v>>
<1>1. h \in SetSteps /\ h \in Steps /\ h[2].reg = reg /\ h[2].v = v
  BY SettingKinds
<1>2. /\ h \notin Modes /\ h \notin Restarts /\ h # Power("awake") /\ h # Call("Forget")
      /\ \A r \in Settings : h \notin Spoils(r)
  BY <1>1, PlainEffects
<1>v. v \in Values(reg) /\ v \in 0..255 /\ reg \in Registers
  <2>1. v \in 0..254 /\ v \in Values(reg)
    BY GoodValues
  <2> QED BY <2>1 DEF Registers
<1>c. c \in CfgType /\ CfgInv(<<h>> \o t, c)
  BY DEF WorkInv
<1>3. /\ d \in CfgType /\ d.set = [c.set EXCEPT ![reg] = v]
      /\ d.dmp_on = c.dmp_on /\ d.int = c.int /\ d.fifo = c.fifo
      /\ c.set \in [Settings -> 0..255]
  <2>1. c \in CfgType /\ v \in 0..255 /\ d = CfgTo(c, reg, v)
    BY <1>c, <1>v DEF d
  <2>2. /\ d \in CfgType /\ d.set = [c.set EXCEPT ![reg] = v]
        /\ d.dmp_on = c.dmp_on /\ d.int = c.int /\ d.fifo = c.fifo
    BY <2>1 DEF CfgType, CfgTo
  <2> QED BY <2>1, <2>2, CfgParts
<1>d. d = CfgTo(c, h[2].reg, h[2].v)
  BY <1>1 DEF d
<1>4. /\ x \in Steps /\ x \notin Marks /\ x \notin Reads /\ x \notin Sleeps /\ x \notin DCalls /\ x \notin Modes
      /\ x # Call("FifoAll") /\ \A r \in Settings : r # reg => x \notin Spoils(r)
  <2>1. reg \notin {"int_enable", "user_ctrl", "fifo_en", "pwr_mgmt"}
    BY DEF Settings
  <2> QED BY <1>v, <2>1, WriteKinds, WriteEffects
<1>f. x = <<reg, v>>
  OBVIOUS
<1> HIDE DEF x, h
<1>5. /\ <<x>> \in Seq(Steps) /\ None(<<x>>, Marks) /\ None(<<x>>, Reads) /\ None(<<x>>, Sleeps)
      /\ None(<<x>>, DCalls) /\ None(<<x>>, Modes) /\ None(<<x>>, {Call("FifoAll")})
      /\ \A r \in Settings : r # reg => None(<<x>>, Spoils(r))
  BY <1>4, OneStep
<1>6. CfgInv(<<x>> \o t, d)
  <2>1. h \in SetSteps /\ c \in CfgType /\ d \in CfgType /\ CfgInv(<<h>> \o t, c)
    BY <1>c, <1>1, <1>3
  <2>2. <<x>> \in Seq(Steps) /\ None(<<x>>, Marks)
    BY <1>5
  <2> QED BY <2>1, <2>2, CfgSetTo DEF d, h
<1>7. ASSUME ok PROVE ChipInv(<<x>> \o t, d, k)
  <2>1. ChipInv(<<h>> \o t, c, k)
    BY <1>7 DEF WorkInv, h
  <2>2. ModeInv(<<x>> \o t, d, k)
    BY <1>1, <1>2, <1>3, <1>5, <2>1, ModeKeeps DEF ChipInv
  <2>3. AwakeInv(<<x>> \o t, k)
    BY <1>1, <1>2, <1>5, <2>1, AwakeKeeps DEF ChipInv
  <2>4. ASSUME NEW r \in Settings PROVE RegInv(<<x>> \o t, d, k, r)
    <3>1. CASE r = reg
      <4>1. RegInv((<<<<reg, v>>>> \o <<>>) \o t, d, k, reg)
        <5>1. RegInv(<<h>> \o t, c, k, reg) /\ d.set[reg] = v
          BY <1>3, <2>1 DEF ChipInv
        <5> QED BY <1>1, <1>2, <1>v, <5>1, EmptyOps, RegSet
      <4>2. <<x>> \o <<>> = <<x>>
        OBVIOUS
      <4> QED BY <1>f, <3>1, <4>1, <4>2
    <3>2. CASE r # reg
      <4>1. d.set[r] = c.set[r] /\ None(<<x>>, Spoils(r)) /\ RegInv(<<h>> \o t, c, k, r)
        BY <1>3, <1>5, <2>1, <3>2 DEF ChipInv
      <4> QED BY <1>1, <1>2, <1>5, <4>1, RegKeeps
    <3> QED BY <3>1, <3>2
  <2> QED BY <2>2, <2>3, <2>4 DEF ChipInv
<1>8. WorkInv(<<x>> \o t, d, k, ok)
  BY <1>3, <1>5, <1>6, <1>7, CatPlaces DEF WorkInv
<1> QED BY <1>f, <1>5, <1>8 DEF d

\* A pair of steps is one after the other.
LEMMA PairCat ==
    ASSUME NEW a \in Steps, NEW b \in Steps
    PROVE  <<a, b>> = <<a>> \o <<b>>
<1> DEFINE u == <<a>> \o <<b>>
<1>1. <<a>> \in Seq(Steps) /\ <<b>> \in Seq(Steps) /\ <<a, b>> \in Seq(Steps)
  OBVIOUS
<1>2. u \in Seq(Steps) /\ Len(u) = 2 /\ u[1] = a /\ u[2] = b
  BY <1>1, ConcatProperties
<1> HIDE DEF u
<1>3. Len(<<a, b>>) = 2 /\ <<a, b>>[1] = a /\ <<a, b>>[2] = b
  OBVIOUS
<1>4. <<a, b>> = u
  BY <1>1, <1>2, <1>3, SeqEqual
<1> QED BY <1>4 DEF u

\* mpu_set_sample_rate
LEMMA WorkRate ==
    ASSUME NEW hz, NEW div, NEW f \in 1..6, NEW t \in Seq(Steps), NEW c, NEW k, NEW ok,
           RateCase(hz, div, f), WorkInv(<<SampleRate(hz)>> \o t, c, k, ok)
    PROVE  /\ c.dmp_on = FALSE /\ RateWork(div, f) \in Seq(Steps) /\ None(RateWork(div, f), Reads)
           /\ WorkInv(RateWork(div, f) \o t, CfgTo(c, "rate_div", div), k, ok)
<1> DEFINE d == CfgTo(c, "rate_div", div)
<1> HIDE DEF d
<1> DEFINE h == SampleRate(hz)
<1> DEFINE x == <<"rate_div", div>>
<1> DEFINE s == Setting("lpf", f)
<1> DEFINE ops == <<x, s>>
<1>e. /\ <<hz, div>> \in {<<20, 49>>, <<50, 19>>, <<200, 4>>}
      /\ hz = 200 => f = Lpf(100)
  BY DEF RateCase
<1>o. ops = RateWork(div, f)
  BY DEF RateWork
<1>w. WorkInv(<<h>> \o t, c, k, ok)
  OBVIOUS
<1>c. c \in CfgType /\ CfgInv(<<h>> \o t, c)
  BY <1>w DEF WorkInv
<1>1. h \in Steps /\ ops \in Seq(Steps) /\ d \in CfgType /\ c.dmp_on = FALSE /\ CfgInv(ops \o t, d)
  <2>1. CfgInv(<<SampleRate(hz)>> \o t, c)
    BY <1>c
  <2> QED BY <1>c, <2>1, <1>o, CfgRate DEF d
<1>r. h \in Rates
  <2>1. hz \in {20, 50, 200}
    BY <1>e
  <2> QED BY <2>1, PairKinds DEF SampleRate
<1>2. /\ h \notin Modes /\ h \notin Restarts /\ h # Power("awake") /\ h # Call("Forget")
      /\ \A r \in Settings : h \notin Spoils(r)
  BY <1>r, PlainEffects
<1>v. div \in 0..254 /\ "rate_div" \in Settings /\ "lpf" \in Settings /\ f \in Good("lpf")
  BY <1>e, GoodValues DEF Settings
<1>3. /\ d.set = [c.set EXCEPT !["rate_div"] = div]
      /\ d.dmp_on = c.dmp_on /\ d.int = c.int /\ d.fifo = c.fifo
      /\ c.set \in [Settings -> 0..255]
  <2>1. div \in 0..255 /\ d = CfgTo(c, "rate_div", div)
    BY <1>e DEF d
  <2>2. /\ d.set = [c.set EXCEPT !["rate_div"] = div]
        /\ d.dmp_on = c.dmp_on /\ d.int = c.int /\ d.fifo = c.fifo
    BY <1>c, <1>v, <2>1 DEF CfgType, CfgTo
  <2> QED BY <1>c, <2>2, CfgParts
<1>4. /\ x \in Steps /\ x \notin Reads /\ x \notin Sleeps /\ x \notin DCalls /\ x \notin Modes
      /\ x # Call("FifoAll") /\ \A r \in Settings : r # "rate_div" => x \notin Spoils(r)
  <2>1. "rate_div" \notin {"int_enable", "user_ctrl", "fifo_en", "pwr_mgmt"} /\ "rate_div" \in Registers
    BY <1>v DEF Registers
  <2>2. div \in Values("rate_div")
    BY <1>v, GoodValues
  <2> QED BY <2>1, <2>2, WriteKinds, WriteEffects
<1>5. /\ s \in Steps /\ s \notin Reads /\ s \notin Loud
  <2>1. s \in SetSteps
    BY <1>v, SettingKinds
  <2>2. s \notin Reads
    BY PairKinds DEF Setting
  <2> QED BY <2>1, <2>2, PlainEffects
<1>6. /\ s \notin Sleeps /\ s \notin DCalls /\ s \notin Modes /\ s # Call("FifoAll")
      /\ \A r \in Settings : s \notin Spoils(r)
  BY <1>5, LoudSets
<1>f. x = <<"rate_div", div>> /\ ops = <<x, s>>
  OBVIOUS
<1>g. ops = <<x>> \o <<s>>
  BY <1>4, <1>5, PairCat
<1> HIDE DEF x, s, h
<1>7. /\ None(ops, Reads) /\ None(ops, Sleeps)
      /\ None(ops, DCalls) /\ None(ops, Modes) /\ None(ops, {Call("FifoAll")})
      /\ \A r \in Settings : r # "rate_div" => None(ops, Spoils(r))
  BY <1>4, <1>5, <1>6, TwoLaws
<1> HIDE DEF ops
<1>8. ASSUME ok PROVE ChipInv(ops \o t, d, k)
  <2>1. ChipInv(<<h>> \o t, c, k)
    BY <1>w, <1>8 DEF WorkInv
  <2>2. ModeInv(ops \o t, d, k)
    BY <1>1, <1>2, <1>3, <1>7, <2>1, ModeKeeps DEF ChipInv
  <2>3. AwakeInv(ops \o t, k)
    BY <1>1, <1>2, <1>7, <2>1, AwakeKeeps DEF ChipInv
  <2>4. ASSUME NEW r \in Settings PROVE RegInv(ops \o t, d, k, r)
    <3>1. CASE r = "rate_div"
      <4>1. <<s>> \in Seq(Steps) /\ None(<<s>>, Spoils("rate_div"))
        BY <1>v, <1>5, <1>6, OneStep
      <4>2. RegInv(<<h>> \o t, c, k, "rate_div") /\ d.set["rate_div"] = div /\ div \in Values("rate_div")
        BY <1>v, <1>3, <2>1, GoodValues DEF ChipInv
      <4>3. RegInv((<<<<"rate_div", div>>>> \o <<s>>) \o t, d, k, "rate_div")
        BY <1>1, <1>2, <1>v, <4>1, <4>2, RegSet
      <4> QED BY <1>f, <1>g, <3>1, <4>3
    <3>2. CASE r # "rate_div"
      <4>1. d.set[r] = c.set[r] /\ None(ops, Spoils(r)) /\ RegInv(<<h>> \o t, c, k, r)
        BY <1>3, <1>7, <2>1, <3>2 DEF ChipInv
      <4> QED BY <1>1, <1>2, <4>1, RegKeeps
    <3> QED BY <3>1, <3>2
  <2> QED BY <2>2, <2>3, <2>4 DEF ChipInv
<1>9. WorkInv(ops \o t, d, k, ok)
  BY <1>1, <1>8, CatPlaces DEF WorkInv
<1> QED BY <1>1, <1>7, <1>9, <1>o DEF d

\* What no call's body begins with: sleep, reads, and writes of settings.
Harsh == Sleeps \cup Reads \cup UNION {Spoils(reg) : reg \in Settings}

\* What neither sleeps nor reads nor spoils a setting.
LEMMA HarshLaws ==
    /\ \A f : Call(f) \notin Harsh
    /\ \A s \in Rates \cup SetSteps : s \notin Harsh
    /\ Bypass(<<>>) \notin Harsh
    /\ \A reg \in {"int_enable", "user_ctrl", "fifo_en"} : \A v \in Values(reg) : <<reg, v>> \notin Harsh
    /\ \A w : None(w, Harsh) => None(w, Sleeps) /\ None(w, Reads) /\ \A reg \in Settings : None(w, Spoils(reg))
<1>1. \A f : Call(f) \notin Harsh
  BY CallEffects, CallKinds DEF Harsh
<1>2. ASSUME NEW s \in Rates \cup SetSteps PROVE s \notin Harsh
  <2>1. s \notin Sleeps
    BY PlainEffects, LoudSets
  <2>2. s \notin Reads
    <3> PICK a, b : s = <<a, b>> /\ a \in {"rate", "set"}
      BY DEF Rates, SetSteps
    <3> QED BY PairKinds
  <2> QED BY <2>1, <2>2, PlainEffects DEF Harsh
<1>3. Bypass(<<>>) \notin Harsh
  <2>1. Bypass(<<>>) \in Bypasses
    BY DEF Bypasses
  <2>2. Bypass(<<>>) \notin Sleeps /\ Bypass(<<>>) \notin Reads
    BY <2>1, PlainEffects, LoudSets, OtherKinds
  <2> QED BY <2>1, <2>2, PlainEffects DEF Harsh
<1>4. ASSUME NEW reg \in {"int_enable", "user_ctrl", "fifo_en"}, NEW v \in Values(reg)
      PROVE  <<reg, v>> \notin Harsh
  BY ModeOps DEF Harsh
<1>5. ASSUME NEW w, None(w, Harsh)
      PROVE  None(w, Sleeps) /\ None(w, Reads) /\ \A reg \in Settings : None(w, Spoils(reg))
  BY <1>5 DEF None, Harsh
<1> QED BY <1>1, <1>2, <1>3, <1>4, <1>5

\* fifo_en, in mpu_set_dmp_state(0).
LEMMA FifoEnOps ==
    ASSUME NEW b \in BOOLEAN
    PROVE  /\ FifoEn(b) \in Steps /\ FifoEn(b) \in Modes /\ FifoEn(b) \notin Marks
           /\ FifoEn(b) \notin DCalls /\ FifoEn(b) \notin Harsh /\ \A f : FifoEn(b) # Call(f)
<1>1. (IF b THEN "on" ELSE "off") \in Values("fifo_en")
  BY ModeValues
<1> QED BY <1>1, ModeOps, HarshLaws DEF FifoEn

\* mpu_set_dmp_state
LEMMA WorkDmpOff ==
    ASSUME NEW b \in BOOLEAN, NEW t \in Seq(Steps), NEW c, NEW k, NEW ok,
           WorkInv(<<Call("DmpOff")>> \o t, c, k, ok)
    PROVE  OffOps(b) \in Seq(Steps) /\ None(OffOps(b), Reads) /\ WorkInv(OffOps(b) \o t, c, k, ok)
<1> DEFINE w == OffOps(b)
<1>1. DOMAIN w = 1..4 /\ w[1] = Call("IntOff") /\ w[2] = FifoEn(b) /\ w[3] = Call("DmpIsOff")
      /\ w[4] = Call("Reset")
  BY DEF OffOps
<1>d. w = OffOps(b)
  OBVIOUS
<1> HIDE DEF w
<1>i. \A i \in DOMAIN w : i = 1 \/ i = 2 \/ i = 3 \/ i = 4
  BY <1>1
<1>2. None(w, Harsh)
  BY <1>1, <1>i, HarshLaws, FifoEnOps DEF None
<1>3. w \in Seq(Steps)
  BY <1>d, OffOpsLaws
<1>4. c \in CfgType /\ CfgInv(w \o t, c)
  BY <1>d, CfgDmpOff DEF WorkInv
<1>5. WorkInv(w \o t, c, k, ok)
  BY <1>2, <1>3, <1>4, HarshLaws, WorkUpset
<1> QED BY <1>d, <1>2, <1>3, <1>5, HarshLaws

\* The assignment of dmp_on: interrupt and FIFO will be set up after it.
LEMMA WorkDmpIs ==
    ASSUME NEW on \in BOOLEAN, NEW t \in Seq(Steps), NEW c, NEW d \in CfgType, NEW k, NEW ok,
           WorkInv(<<Call(IF on THEN "DmpIsOn" ELSE "DmpIsOff")>> \o t, c, k, ok),
           d.dmp_on = on, d.int = c.int, d.set = c.set
    PROVE  WorkInv(t, d, k, ok)
<1> DEFINE f == IF on THEN "DmpIsOn" ELSE "DmpIsOff"
<1>1. f \in {"DmpIsOn", "DmpIsOff"}
  OBVIOUS
<1>2. WorkInv(<<Call(f)>> \o t, c, k, ok)
  OBVIOUS
<1>c. c \in CfgType /\ CfgInv(<<Call(f)>> \o t, c)
  BY <1>2 DEF WorkInv
<1>3. CfgInv(t, d)
  <2>1. CASE on
    BY <1>c, <2>1, CfgDmpIsOn
  <2>2. CASE ~on
    BY <1>c, <2>2, CfgDmpIsOff
  <2> QED BY <2>1, <2>2
<1> HIDE DEF f
<1>4. WorkInv(<<>> \o t, d, k, ok)
  BY <1>1, <1>2, <1>3, EmptyOps, WorkUpset
<1> QED BY <1>4, EmptyOps

\* Already on, or with nothing loaded.
LEMMA WorkDmpOnSkip ==
    ASSUME NEW t \in Seq(Steps), NEW c, NEW k, NEW ok, WorkInv(<<Call("DmpOn")>> \o t, c, k, ok)
    PROVE  WorkInv(t, c, k, ok)
<1>1. c \in CfgType /\ CfgInv(t, c)
  BY CfgDmpOnSkip DEF WorkInv
<1>2. /\ Call("DmpOn") \in Steps /\ Call("DmpOn") \notin Modes /\ Call("DmpOn") \notin Restarts
      /\ Call("DmpOn") # Call("Forget") /\ Call("DmpOn") # Power("awake")
      /\ \A reg \in Settings : Call("DmpOn") \notin Spoils(reg)
  BY CallSteps, CallEffects, CallKinds
<1>3. ASSUME ok PROVE ChipInv(t, c, k)
  <2>1. ChipInv(<<Call("DmpOn")>> \o t, c, k)
    BY <1>3 DEF WorkInv
  <2>2. ChipInv(<<>> \o t, c, k)
    BY <1>2, <2>1, EmptyOps, ChipKeeps
  <2> QED BY <2>2, EmptyOps
<1> QED BY <1>1, <1>3 DEF WorkInv

\* mpu_set_dmp_state(1)
LEMMA WorkDmpOn ==
    ASSUME NEW t \in Seq(Steps), NEW c, NEW k, NEW ok, WorkInv(<<Call("DmpOn")>> \o t, c, k, ok),
           c.dmp_on = FALSE
    PROVE  OnOps \in Seq(Steps) /\ None(OnOps, Reads) /\ WorkInv(OnOps \o t, c, k, ok)
<1> DEFINE w == OnOps
<1>1. DOMAIN w = 1..7 /\ w[1] = Call("IntOff") /\ w[2] = Bypass(<<>>) /\ w[3] = SampleRate(200)
      /\ w[4] = FifoEn(FALSE) /\ w[5] = Call("DmpIsOn") /\ w[6] = Call("IntOn") /\ w[7] = Call("Reset")
  BY DEF OnOps
<1>d. w = OnOps
  OBVIOUS
<1> HIDE DEF w
<1>i. \A i \in DOMAIN w : i = 1 \/ i = 2 \/ i = 3 \/ i = 4 \/ i = 5 \/ i = 6 \/ i = 7
  BY <1>1
<1>r. SampleRate(200) \in Rates
  BY DEF SampleRate, Rates
<1>2. None(w, Harsh)
  <2>1. SampleRate(200) \notin Harsh /\ FifoEn(FALSE) \notin Harsh
    BY <1>r, HarshLaws, FifoEnOps
  <2>2. /\ Call("IntOff") \notin Harsh /\ Call("DmpIsOn") \notin Harsh /\ Call("IntOn") \notin Harsh
        /\ Call("Reset") \notin Harsh /\ Bypass(<<>>) \notin Harsh
    BY HarshLaws
  <2>3. /\ w[1] \notin Harsh /\ w[2] \notin Harsh /\ w[3] \notin Harsh /\ w[4] \notin Harsh
        /\ w[5] \notin Harsh /\ w[6] \notin Harsh /\ w[7] \notin Harsh
    BY <1>1, <2>1, <2>2, Zenon
  <2> QED BY <1>i, <2>3, Zenon DEF None
<1>3. w \in Seq(Steps)
  BY <1>d, OnOpsLaws
<1>4. c \in CfgType /\ CfgInv(w \o t, c)
  BY <1>d, CfgDmpOn DEF WorkInv
<1>5. Ahead(w, Restarts, DCalls \cup Modes)
  <2>1. 7 \in DOMAIN w /\ w[7] \in Restarts
    BY <1>1 DEF Restarts
  <2>2. \A j \in DOMAIN w : ~(7 < j)
    BY <1>1
  <2> QED BY <2>1, <2>2 DEF Ahead
<1>6. ASSUME ok PROVE ChipInv(w \o t, c, k)
  <2>1. ChipInv(<<Call("DmpOn")>> \o t, c, k)
    BY <1>6 DEF WorkInv
  <2>2. ModeInv(w \o t, c, k)
    BY <1>3, <1>5, <2>1, ModeDmpOn DEF ChipInv
  <2>3. AwakeInv(w \o t, k) /\ \A reg \in Settings : RegInv(w \o t, c, k, reg)
    BY <1>2, <1>3, <2>1, CallSteps, HarshLaws, CallLeaves
  <2> QED BY <2>2, <2>3 DEF ChipInv
<1>7. WorkInv(w \o t, c, k, ok)
  BY <1>3, <1>4, <1>6, CatPlaces DEF WorkInv
<1> QED BY <1>d, <1>2, <1>3, <1>7, HarshLaws

\* Calls that change nothing that is kept track of, and what they expand to.
LEMMA WorkPlain ==
    ASSUME NEW f \in {"Features", "Load", "Started", "Wait"}, NEW t \in Seq(Steps), NEW ops \in Seq(Steps),
           NEW c, NEW d \in CfgType, NEW k, NEW l, NEW ok,
           WorkInv(<<Call(f)>> \o t, c, k, ok), None(ops, Marks), None(ops, Loud),
           d.dmp_on = c.dmp_on, d.int = c.int, d.fifo = c.fifo, d.set = c.set,
           l.int = k.int, l.ctrl = k.ctrl, l.raw = k.raw, l.awake = k.awake, l.set = k.set
    PROVE  WorkInv(ops \o t, d, l, ok)
<1>1. /\ Call(f) \in Steps /\ Call(f) \notin Marks /\ Call(f) \notin Modes /\ Call(f) \notin Restarts
      /\ Call(f) # Power("awake") /\ \A reg \in Settings : Call(f) \notin Spoils(reg)
  BY CallSteps, CallEffects, OtherKinds DEF OtherCalls
<1> QED BY <1>1, WorkKeeps

\* Writes that set up the FIFO, and only those.
LEMMA OnlyModes ==
    ASSUME NEW w \in Seq(Modes)
    PROVE  /\ w \in Seq(Steps) /\ None(w, Marks) /\ None(w, DCalls) /\ None(w, {Call("FifoAll")})
           /\ None(w, Steps \ Modes) /\ None(w, Harsh)
<1>1. ASSUME NEW s \in Modes
      PROVE  s \in Steps /\ s \notin Marks /\ s \notin DCalls /\ s # Call("FifoAll") /\ s \notin Harsh
  <2>1. PICK reg \in {"int_enable", "user_ctrl", "fifo_en"} : s \in Writes(reg)
    BY DEF Modes
  <2>2. PICK v \in Values(reg) : s = <<reg, v>>
    BY <2>1 DEF Writes
  <2> QED BY <2>2, ModeOps, HarshLaws
<1>2. \A i \in DOMAIN w : w[i] \in Modes
  OBVIOUS
<1>3. Modes \subseteq Steps
  BY <1>1
<1>4. w \in Seq(Steps)
  BY <1>3
<1> QED BY <1>1, <1>2, <1>4 DEF None

\* Four steps are steps; three, by kinds.
LEMMA FourSteps ==
    ASSUME NEW S, NEW s1 \in S, NEW s2 \in S, NEW s3 \in S, NEW s4 \in S
    PROVE  <<s1, s2, s3, s4>> \in Seq(S)
OBVIOUS

LEMMA ThreeLaws ==
    ASSUME NEW a, NEW b, NEW e
    PROVE  \A X, Y : Ahead(<<a, b, e>>, X, Y) <=> e \in X \/ (b \in X /\ e \notin Y) \/ (a \in X /\ b \notin Y /\ e \notin Y)
<1> DEFINE w == <<a, b, e>>
<1>1. DOMAIN w = 1..3 /\ w[1] = a /\ w[2] = b /\ w[3] = e
  OBVIOUS
<1> HIDE DEF w
<1>2. ASSUME NEW X, NEW Y
      PROVE  Ahead(w, X, Y) <=> e \in X \/ (b \in X /\ e \notin Y) \/ (a \in X /\ b \notin Y /\ e \notin Y)
  <2>1. /\ \A i \in DOMAIN w : i = 1 \/ i = 2 \/ i = 3
        /\ 1 \in DOMAIN w /\ 2 \in DOMAIN w /\ 3 \in DOMAIN w
    BY <1>1
  <2> QED BY <1>1, <2>1 DEF Ahead
<1> QED BY <1>2 DEF w

\* mpu_reset_fifo
ResetOps(c) ==
    <<IntEn("off"), FifoEn(FALSE), Ctrl("off"), Ctrl("reset")>> \o
    IF c.dmp_on
    THEN <<Ctrl("dmp"), IntEn(IF c.int = "off" THEN "off" ELSE "dmp"), FifoEn(FALSE)>>
    ELSE <<Ctrl("fifo"), IntEn(IF c.int = "off" THEN "off" ELSE "data"), FifoEn(c.fifo)>>

\* mpu_reset_fifo ends with interrupt, user_ctrl and fifo_en as believed.
LEMMA ResetLaws ==
    ASSUME NEW c \in CfgType, c.int \in {"off", IF c.dmp_on THEN "dmp" ELSE "data"}
    PROVE  /\ ResetOps(c) \in Seq(Modes)
           /\ Ahead(ResetOps(c), {<<"int_enable", c.int>>}, Writes("int_enable"))
           /\ Ahead(ResetOps(c), {<<"user_ctrl", IF c.dmp_on THEN "dmp" ELSE "fifo">>}, Writes("user_ctrl"))
           /\ Ahead(ResetOps(c), {<<"fifo_en", IF ~c.dmp_on /\ c.fifo THEN "on" ELSE "off">>}, Writes("fifo_en"))
<1> DEFINE u == <<IntEn("off"), FifoEn(FALSE), Ctrl("off"), Ctrl("reset")>>
<1> DEFINE m == IF c.dmp_on THEN "dmp" ELSE "fifo"
<1> DEFINE e == IF ~c.dmp_on /\ c.fifo THEN "on" ELSE "off"
<1> DEFINE x == <<"user_ctrl", m>>
<1> DEFINE y == <<"int_enable", c.int>>
<1> DEFINE z == <<"fifo_en", e>>
<1> DEFINE v == <<x, y, z>>
<1>0. c.dmp_on \in BOOLEAN /\ c.fifo \in BOOLEAN /\ c.int \in {"off", "data", "dmp"}
  BY CfgParts
<1>1. ResetOps(c) = u \o v
  <2>1. CASE c.dmp_on
    <3>1. c.int = IF c.int = "off" THEN "off" ELSE "dmp"
      BY <2>1
    <3> QED BY <2>1, <3>1 DEF ResetOps, IntEn, FifoEn, Ctrl
  <2>2. CASE ~c.dmp_on
    <3>1. c.int = IF c.int = "off" THEN "off" ELSE "data"
      BY <2>2
    <3> QED BY <1>0, <2>2, <3>1 DEF ResetOps, IntEn, FifoEn, Ctrl
  <2> QED BY <1>0, <2>1, <2>2
<1>2. c.int \in Values("int_enable") /\ m \in Values("user_ctrl") /\ e \in Values("fifo_en")
  BY <1>0, ModeValues
<1>3. x \in Modes /\ y \in Modes /\ z \in Modes
  BY <1>2, ModeOps
<1>4. /\ y \notin Writes("user_ctrl") /\ z \notin Writes("user_ctrl") /\ z \notin Writes("int_enable")
  BY <1>2, ModeOps
<1>5. /\ IntEn("off") \in Modes /\ FifoEn(FALSE) \in Modes /\ Ctrl("off") \in Modes /\ Ctrl("reset") \in Modes
  <2>1. "off" \in Values("int_enable") /\ "off" \in Values("user_ctrl") /\ "reset" \in Values("user_ctrl")
    BY ModeValues
  <2> QED BY <2>1, ModeOps, FifoEnOps DEF IntEn, Ctrl
<1>6. u \in Seq(Modes)
  BY <1>5, FourSteps, Zenon
<1>s. v = <<x, y, z>>
  OBVIOUS
<1>g. x = <<"user_ctrl", m>> /\ y = <<"int_enable", c.int>> /\ z = <<"fifo_en", e>>
  OBVIOUS
<1> HIDE DEF x, y, z, u
<1>7. v \in Seq(Modes)
  BY <1>3
<1>8. /\ Ahead(v, {y}, Writes("int_enable")) /\ Ahead(v, {x}, Writes("user_ctrl")) /\ Ahead(v, {z}, Writes("fifo_en"))
  BY <1>4, ThreeLaws
<1> HIDE DEF v
<1>9. u \o v \in Seq(Modes) /\ u \in Seq(Steps) /\ v \in Seq(Steps)
  BY <1>6, <1>7, CatPlaces, OnlyModes
<1>10. /\ Ahead(u \o v, {y}, Writes("int_enable")) /\ Ahead(u \o v, {x}, Writes("user_ctrl"))
       /\ Ahead(u \o v, {z}, Writes("fifo_en"))
  BY <1>8, <1>9, CatLaws
<1> QED BY <1>1, <1>9, <1>10, <1>g

\* mpu_reset_fifo
LEMMA WorkReset ==
    ASSUME NEW t \in Seq(Steps), NEW c, NEW k, NEW ok, WorkInv(<<Call("Reset")>> \o t, c, k, ok)
    PROVE  /\ ResetOps(c) \in Seq(Steps) /\ None(ResetOps(c), Reads)
           /\ WorkInv(ResetOps(c) \o t, c, k, ok)
<1> DEFINE h == Call("Reset")
<1> DEFINE w == ResetOps(c)
<1>1. c \in CfgType /\ CfgInv(<<h>> \o t, c)
  BY DEF WorkInv
<1>2. c.int \in {"off", IF c.dmp_on THEN "dmp" ELSE "data"}
  BY <1>1 DEF CfgInv, IntInv
<1>3. /\ w \in Seq(Modes)
      /\ Ahead(w, {<<"int_enable", c.int>>}, Writes("int_enable"))
      /\ Ahead(w, {<<"user_ctrl", IF c.dmp_on THEN "dmp" ELSE "fifo">>}, Writes("user_ctrl"))
      /\ Ahead(w, {<<"fifo_en", IF ~c.dmp_on /\ c.fifo THEN "on" ELSE "off">>}, Writes("fifo_en"))
  BY <1>1, <1>2, ResetLaws
<1> HIDE DEF w
<1>4. /\ w \in Seq(Steps) /\ None(w, Marks) /\ None(w, DCalls) /\ None(w, {Call("FifoAll")})
      /\ None(w, Steps \ Modes) /\ None(w, Harsh)
  BY <1>3, OnlyModes
<1>5. h \in Steps /\ h \notin Marks
  BY CallSteps, OtherKinds DEF OtherCalls
<1>6. CfgInv(w \o t, c)
  BY <1>1, <1>4, <1>5, CfgNeutral
<1>7. ASSUME ok PROVE ChipInv(w \o t, c, k)
  <2>1. ChipInv(<<h>> \o t, c, k)
    BY <1>7 DEF WorkInv
  <2>2. ModeInv(w \o t, c, k)
    <3>1. ModeInv(<<Call("Reset")>> \o t, c, k)
      BY <2>1 DEF ChipInv
    <3> QED BY <1>3, <1>4, <3>1, ModeReset
  <2>3. AwakeInv(w \o t, k) /\ \A reg \in Settings : RegInv(w \o t, c, k, reg)
    BY <1>4, <1>5, <2>1, HarshLaws, CallLeaves
  <2> QED BY <2>2, <2>3 DEF ChipInv
<1>8. WorkInv(w \o t, c, k, ok)
  BY <1>1, <1>4, <1>6, <1>7, CatPlaces DEF WorkInv
<1> QED BY <1>4, <1>8, HarshLaws DEF w

\* dmp_enable_feature
LEMMA FeaturesOps ==
    Features \in Seq(Steps) /\ None(Features, Marks) /\ None(Features, Loud) /\ None(Features, Reads)
<1> DEFINE X == {Mem, Call("Reset")}
<1>1. <<Mem>> \in Seq(X) /\ <<Mem, Call("Reset")>> \in Seq(X) /\ <<Call("Reset")>> \in Seq(X)
  OBVIOUS
<1>2. Features \in Seq(X)
  BY <1>1, ConcatProperties DEF Features, Quat
<1>3. Mem \in Steps /\ Mem \notin Marks /\ Mem \notin Reads /\ Mem \notin Loud
  <2>1. "mem" \in Registers /\ "feature" \in Values("mem") /\ "mem" \notin Settings
    BY ModeValues DEF Registers, Settings
  <2>2. Mem \in Steps /\ Mem \notin Marks /\ Mem \notin Reads
    BY <2>1, WriteKinds DEF Mem
  <2>3. Mem \notin DCalls /\ Mem # Call("FifoAll") /\ Mem \notin Sleeps /\ \A r \in Settings : Mem \notin Writes(r)
    BY <2>1, WriteEffects DEF Mem
  <2>4. Mem \notin Modes
    BY <2>1, WriteKinds DEF Mem
  <2> QED BY <2>2, <2>3, <2>4 DEF Loud
<1>4. Call("Reset") \in Steps /\ Call("Reset") \notin Marks /\ Call("Reset") \notin Reads /\ Call("Reset") \notin Loud
  BY CallSteps, CallKinds, CallEffects, OtherKinds DEF OtherCalls
<1>5. X \subseteq Steps
  BY <1>3, <1>4
<1>6. Features \in Seq(Steps)
  BY <1>2, <1>5
<1>7. \A i \in DOMAIN Features : Features[i] \in X
  BY <1>2
<1> QED BY <1>3, <1>4, <1>6, <1>7 DEF None

\* get_st_biases
LEMMA WorkBias ==
    ASSUME NEW h \in Biases, NEW t \in Seq(Steps), NEW ops \in Seq(Steps), NEW c, NEW k, NEW l, NEW ok,
           WorkInv(<<h>> \o t, c, k, ok), None(ops, Marks \ Biases), None(ops, Sleeps), l.awake = k.awake
    PROVE  WorkInv(ops \o t, c, l, ok)
<1>1. PICK a, b : a \in {"bias", "counted"} /\ h = <<a, b>>
  BY DEF Biases
<1>2. /\ h \in Steps /\ h \in DCalls /\ h \notin Restarts /\ h # Call("Forget") /\ h # Power("awake")
      /\ \A reg \in Settings : h \in Spoils(reg) /\ h \notin Writes(reg)
  <2>1. h \in Steps
    BY OtherKinds DEF Off
  <2>2. \A f : h # Call(f)
    BY <1>1, PairMarks
  <2>3. h # Power("awake")
    BY <1>1 DEF Power
  <2>4. \A reg \in Settings : h \notin Writes(reg)
    <3>1. \A reg \in Settings : reg # "bias" /\ reg # "counted"
      BY DEF Settings
    <3> QED BY <1>1, <3>1, PairKinds
  <2> QED BY <2>1, <2>2, <2>3, <2>4 DEF DCalls, Restarts, Spoils
<1>3. c \in CfgType /\ CfgInv(ops \o t, c)
  BY CfgBias DEF WorkInv
<1>4. ASSUME ok PROVE ChipInv(ops \o t, c, l)
  <2>1. ChipInv(<<h>> \o t, c, k)
    BY <1>4 DEF WorkInv
  <2>2. ModeInv(ops \o t, c, l)
    BY <1>2, <2>1, ModeUpset DEF ChipInv
  <2>3. AwakeInv(ops \o t, l)
    BY <1>2, <2>1, AwakeKeeps DEF ChipInv
  <2>4. ASSUME NEW reg \in Settings PROVE RegInv(ops \o t, c, l, reg)
    <3>1. RegInv(<<h>> \o t, c, k, reg)
      BY <2>1 DEF ChipInv
    <3> QED BY <1>2, <3>1, RegUpset
  <2> QED BY <2>2, <2>3, <2>4 DEF ChipInv
<1> QED BY <1>3, <1>4, CatPlaces DEF WorkInv

\* Fifteen steps are steps.
LEMMA FifteenSteps ==
    ASSUME NEW S, NEW s1 \in S, NEW s2 \in S, NEW s3 \in S, NEW s4 \in S, NEW s5 \in S, NEW s6 \in S,
           NEW s7 \in S, NEW s8 \in S, NEW s9 \in S, NEW s10 \in S, NEW s11 \in S, NEW s12 \in S,
           NEW s13 \in S, NEW s14 \in S, NEW s15 \in S
    PROVE  <<s1, s2, s3, s4, s5, s6, s7, s8, s9, s10, s11, s12, s13, s14, s15>> \in Seq(S)
OBVIOUS

\* The steps that a test of the biases is made of.
Tests == {s \in Steps : s \notin Marks \ Biases /\ s \notin Sleeps /\ s \notin Reads}

\* What a self-test does, by kinds.
LEMMA TestsOps ==
    ASSUME NEW w \in Seq(Tests)
    PROVE  w \in Seq(Steps) /\ None(w, Marks \ Biases) /\ None(w, Sleeps) /\ None(w, Reads)
<1>1. \A i \in DOMAIN w : w[i] \in Tests
  OBVIOUS
<1>2. Tests \subseteq Steps
  BY DEF Tests
<1>3. w \in Seq(Steps)
  BY <1>2
<1> QED BY <1>1, <1>3 DEF None, Tests

LEMMA TestsAre ==
    /\ \A reg \in Registers : \A v \in Values(reg) : reg # "pwr_mgmt" => <<reg, v>> \in Tests
    /\ Power("awake") \in Tests /\ Call("Wait") \in Tests
    /\ Biases \subseteq Tests
<1>1. ASSUME NEW reg \in Registers, NEW v \in Values(reg), reg = "pwr_mgmt" => v = "awake"
      PROVE  <<reg, v>> \in Tests
  BY <1>1, WriteKinds, WriteEffects DEF Tests
<1>2. \A reg \in Registers : \A v \in Values(reg) : reg # "pwr_mgmt" => <<reg, v>> \in Tests
  BY <1>1
<1>3. Power("awake") \in Tests
  <2>1. "pwr_mgmt" \in Registers /\ "awake" \in Values("pwr_mgmt")
    BY ModeValues DEF Registers
  <2> QED BY <1>1, <2>1 DEF Power
<1>4. Call("Wait") \in Tests
  BY CallSteps, CallKinds, CallEffects, OtherKinds DEF Tests, OtherCalls
<1>5. ASSUME NEW h \in Biases PROVE h \in Tests
  <2>1. PICK a, b : a \in {"bias", "counted"} /\ h = <<a, b>>
    BY DEF Biases
  <2>2. h \notin Reads
    BY <2>1, PairKinds
  <2>3. h \notin Sleeps
    BY <2>1 DEF Sleeps, Power, Bypass
  <2>4. h \in Steps
    BY OtherKinds DEF Off
  <2> QED BY <2>2, <2>3, <2>4 DEF Tests
<1> QED BY <1>2, <1>3, <1>4, <1>5

\* get_st_biases does nothing else.
LEMMA BiasWorkOps ==
    ASSUME NEW b \in [hw : BOOLEAN, tries : {1, 2}]
    PROVE  BiasWork(b) \in Seq(Tests)
<1>1. b.hw \in BOOLEAN /\ b.tries \in {1, 2}
  OBVIOUS
<1>2. /\ IntEn("off") \in Tests /\ Ctrl("off") \in Tests /\ Ctrl("reset") \in Tests /\ Ctrl("fifo") \in Tests
  <2>1. /\ "off" \in Values("int_enable") /\ "off" \in Values("user_ctrl") /\ "reset" \in Values("user_ctrl")
        /\ "fifo" \in Values("user_ctrl")
    BY ModeValues
  <2>2. "int_enable" \in Registers /\ "user_ctrl" \in Registers
    BY DEF Registers
  <2> QED BY <2>1, <2>2, TestsAre DEF IntEn, Ctrl
<1>3. FifoEn(FALSE) \in Tests /\ FifoEn(TRUE) \in Tests
  <2>1. "on" \in Values("fifo_en") /\ "off" \in Values("fifo_en") /\ "fifo_en" \in Registers
    BY ModeValues DEF Registers
  <2> QED BY <2>1, TestsAre DEF FifoEn
<1>4. /\ <<"lpf", Lpf(98)>> \in Tests /\ <<"rate_div", 0>> \in Tests
      /\ <<"gyro_cfg", HwTest(b.hw)>> \in Tests /\ <<"accel_cfg", HwTest(b.hw)>> \in Tests
  <2>1. {"lpf", "rate_div", "gyro_cfg", "accel_cfg"} \subseteq Settings
    BY DEF Settings
  <2>2. Lpf(98) \in 0..254
    <3>1. Lpf(98) \in 1..6
      BY DivAndFilter
    <3> QED BY <3>1
  <2>3. HwTest(b.hw) \in 0..254 /\ 0 \in 0..254
    BY <1>1 DEF HwTest
  <2>4. \A reg \in {"lpf", "rate_div", "gyro_cfg", "accel_cfg"} :
            reg \in Registers /\ reg # "pwr_mgmt" /\ Values(reg) = 0..254
    BY <2>1, ModeValues DEF Registers
  <2> HIDE DEF Lpf, HwTest
  <2> QED BY <2>2, <2>3, <2>4, TestsAre
<1>5. Counted(b.hw, b.tries) \in Tests
  <2>1. Counted(b.hw, b.tries) \in Biases
    BY <1>1, PairKinds DEF Counted
  <2> QED BY <2>1, TestsAre
<1> QED BY <1>2, <1>3, <1>4, <1>5, TestsAre, FifteenSteps, Zenon DEF BiasWork

\* mpu_set_bypass(0)
LEMMA ModeBypassAll ==
    ASSUME NEW h \in Bypasses, NEW t \in Seq(Steps), NEW c, NEW d, NEW k, ModeInv(<<h>> \o t, c, k),
           k.ctrl \in {"off", "fifo", "dmp"},
           d.dmp_on = c.dmp_on, d.int = c.int, d.fifo = c.fifo
    PROVE  \A rest \in Seq(Steps) :
               None(rest, DCalls) /\ None(rest, {Call("FifoAll")}) /\ None(rest, Modes)
               => ModeInv((<<Ctrl(k.ctrl)>> \o rest) \o t, d, k)
BY ModeBypass

BypassOps(rest, v) == {<<>>, rest, <<Ctrl(v)>> \o rest}

\* mpu_set_bypass(0): user_ctrl is written back as it was.
LEMMA WorkBypass ==
    ASSUME NEW rest \in {<<>>, <<Power("asleep")>>}, NEW t \in Seq(Steps), NEW c, NEW d \in CfgType, NEW k, NEW ok,
           NEW ops \in BypassOps(rest, k.ctrl),
           WorkInv(<<Bypass(rest)>> \o t, c, k, ok), k.ctrl \in {"off", "fifo", "dmp"},
           d.dmp_on = c.dmp_on, d.int = c.int, d.fifo = c.fifo, d.set = c.set
    PROVE  ops \in Seq(Steps) /\ None(ops, Reads) /\ WorkInv(ops \o t, d, k, ok)
<1> DEFINE h == Bypass(rest)
<1>1. /\ h \in Bypasses /\ h \in Steps /\ h \notin Modes /\ h \notin Restarts /\ h # Power("awake")
      /\ h # Call("Forget") /\ h \notin Marks /\ \A reg \in Settings : h \notin Spoils(reg)
  <2>1. h \in Bypasses
    BY DEF Bypasses
  <2> QED BY <2>1, PlainEffects, OtherKinds
<1>2. /\ Power("asleep") \in Steps /\ Power("asleep") \notin Marks /\ Power("asleep") \notin Reads
      /\ Power("asleep") \notin DCalls /\ Power("asleep") \notin Modes /\ Power("asleep") # Call("FifoAll")
      /\ \A reg \in Settings : Power("asleep") \notin Spoils(reg)
  <2>1. "pwr_mgmt" \in Registers /\ "asleep" \in Values("pwr_mgmt") /\ "asleep" # "reset"
        /\ \A reg \in Settings : reg # "pwr_mgmt"
    BY ModeValues DEF Registers, Settings
  <2> QED BY <2>1, WriteKinds, WriteEffects DEF Power
<1>3. /\ Ctrl(k.ctrl) \in Steps /\ Ctrl(k.ctrl) \notin Marks /\ Ctrl(k.ctrl) \notin Harsh
      /\ Ctrl(k.ctrl) \notin Reads
  <2>1. k.ctrl \in Values("user_ctrl")
    BY ModeValues
  <2> QED BY <2>1, ModeOps, HarshLaws DEF Ctrl
<1>4. /\ rest \in Seq(Steps) /\ None(rest, Marks) /\ None(rest, Reads) /\ None(rest, DCalls)
      /\ None(rest, Modes) /\ None(rest, {Call("FifoAll")})
      /\ \A reg \in Settings : None(rest, Spoils(reg))
  <2>1. CASE rest = <<>>
    BY <2>1, EmptyOps
  <2>2. CASE rest = <<Power("asleep")>>
    BY <1>2, <2>2, OneStep
  <2> QED BY <2>1, <2>2
<1>5. /\ <<Ctrl(k.ctrl)>> \in Seq(Steps) /\ None(<<Ctrl(k.ctrl)>>, Marks) /\ None(<<Ctrl(k.ctrl)>>, Harsh)
      /\ None(<<Ctrl(k.ctrl)>>, Reads)
  BY <1>3, OneStep
<1>6. /\ ops \in Seq(Steps) /\ None(ops, Marks) /\ None(ops, Reads)
      /\ \A reg \in Settings : None(ops, Spoils(reg))
  <2>1. CASE ops = <<>>
    BY <2>1, EmptyOps
  <2>2. CASE ops = rest
    BY <1>4, <2>2
  <2>3. CASE ops = <<Ctrl(k.ctrl)>> \o rest
    <3> DEFINE u == <<Ctrl(k.ctrl)>>
    <3>1. u \in Seq(Steps) /\ None(u, Marks) /\ None(u, Reads) /\ \A reg \in Settings : None(u, Spoils(reg))
      BY <1>5, HarshLaws
    <3>2. ops = u \o rest
      BY <2>3
    <3> HIDE DEF u
    <3>3. ops \in Seq(Steps)
      BY <1>4, <3>1, <3>2, CatPlaces
    <3>4. \A X : None(ops, X) <=> None(u, X) /\ None(rest, X)
      BY <1>4, <3>1, <3>2, CatLaws
    <3> QED BY <1>4, <3>1, <3>3, <3>4
  <2> QED BY <2>1, <2>2, <2>3 DEF BypassOps
<1>b. Bypass(rest) = h
  OBVIOUS
<1> HIDE DEF h
<1>7. CfgInv(ops \o t, d)
  BY <1>1, <1>6, <1>b, CfgNeutral DEF WorkInv
<1>8. ASSUME ok PROVE ChipInv(ops \o t, d, k)
  <2>1. ChipInv(<<h>> \o t, c, k)
    BY <1>8, <1>b DEF WorkInv
  <2>2. ModeInv(ops \o t, d, k)
    <3>0. ModeInv(<<h>> \o t, c, k)
      BY <2>1 DEF ChipInv
    <3>1. CASE ops = <<>>
      BY <1>1, <3>0, <3>1, EmptyOps, ModeKeeps
    <3>2. CASE ops = rest
      BY <1>1, <1>4, <3>0, <3>2, ModeKeeps
    <3>3. CASE ops = <<Ctrl(k.ctrl)>> \o rest
      <4>1. h \in Bypasses /\ rest \in Seq(Steps) /\ None(rest, DCalls) /\ None(rest, {Call("FifoAll")}) /\ None(rest, Modes)
        BY <1>1, <1>4
      <4>2. ModeInv((<<Ctrl(k.ctrl)>> \o rest) \o t, d, k)
        BY <3>0, <4>1, ModeBypassAll
      <4> QED BY <3>3, <4>2
    <3> QED BY <3>1, <3>2, <3>3 DEF BypassOps
  <2>3. AwakeInv(ops \o t, k)
    <3>0. AwakeInv(<<h>> \o t, k)
      BY <2>1 DEF ChipInv
    <3>1. CASE rest = <<Power("asleep")>>
      <4>1. h \in Sleeps
        BY <3>1, <1>b, PlainEffects
      <4> QED BY <1>1, <1>6, <3>0, <4>1, AwakeUpset
    <3>2. CASE rest = <<>>
      <4>1. None(ops, Sleeps)
        <5>1. CASE ops = <<>>
          BY <5>1, EmptyOps
        <5>2. CASE ops = rest
          BY <3>2, <5>2, EmptyOps
        <5>3. CASE ops = <<Ctrl(k.ctrl)>> \o rest
          BY <1>4, <1>5, <3>2, <5>3, EmptyOps, CatLaws, HarshLaws
        <5> QED BY <5>1, <5>2, <5>3 DEF BypassOps
      <4> QED BY <1>1, <1>6, <3>0, <4>1, AwakeKeeps
    <3> QED BY <3>1, <3>2
  <2>4. ASSUME NEW reg \in Settings PROVE RegInv(ops \o t, d, k, reg)
    <3>1. RegInv(<<h>> \o t, c, k, reg)
      BY <2>1 DEF ChipInv
    <3> QED BY <1>1, <1>6, <3>1, RegKeeps
  <2> QED BY <2>2, <2>3, <2>4 DEF ChipInv
<1> QED BY <1>6, <1>7, <1>8, CatPlaces DEF WorkInv

-----------------------------------------------------------------------------
(* What the driver sets out to do: to start, and to test itself.             *)

\* Everything is set up anew, and the DMP left alone.
Renews(w) ==
    /\ None(w, DmpOns) /\ None(w, DmpIsS) /\ None(w, {Call("IntOff")})
    /\ Ahead(w, Restarts, DCalls \cup Modes)
    /\ Ahead(w, {Power("awake")}, Sleeps)
    /\ \A reg \in Settings :
           /\ Ahead(w, {Call("Forget")}, Spoils(reg))
           /\ Follows(w, {Call("Forget")}, Setters(reg))
           /\ ~None(w, Setters(reg))

\* The same, with the DMP possibly on at the end.
Sets(w) ==
    /\ None(w, DmpIsS) /\ None(w, {Call("IntOff")})
    /\ Order(w, DmpOns, Off) /\ Order(w, DmpOns, DmpOffs) /\ Order(w, DmpOns, DmpOns)
    /\ Ahead(w, Restarts, DCalls \cup Modes)
    /\ Ahead(w, {Power("awake")}, Sleeps)
    /\ \A reg \in Settings :
           /\ Ahead(w, {Call("Forget")}, Spoils(reg))
           /\ Follows(w, {Call("Forget")}, Setters(reg))
           /\ ~None(w, Setters(reg))

Adds(s) ==
    /\ s \in Steps /\ s \notin DmpIsS /\ s # Call("IntOff")
    /\ s \notin Off /\ s \notin DmpOffs
    /\ s \notin DCalls \cup Modes /\ s \notin Sleeps
    /\ s # Call("Forget") /\ \A reg \in Settings : s \notin Spoils(reg)

\* What may be put before or after without changing that.
LEMMA AddsAre ==
    /\ Adds(Mem) /\ Mem \notin DmpOns
    /\ Adds(Call("Features")) /\ Call("Features") \notin DmpOns
    /\ Adds(Call("DmpOn"))
<1>1. Adds(Mem) /\ Mem \notin DmpOns
  <2>1. "mem" \in Registers /\ "feature" \in Values("mem") /\ \A reg \in Settings : reg # "mem"
    BY ModeValues DEF Registers, Settings
  <2>2. Mem \in Steps /\ Mem \notin Marks /\ Mem \notin Modes
    BY <2>1, WriteKinds DEF Mem
  <2>3. Mem \notin DCalls /\ Mem \notin Sleeps /\ \A f : Mem # Call(f)
    BY <2>1, WriteEffects DEF Mem
  <2>4. \A reg \in Settings : Mem \notin Spoils(reg)
    BY <2>1, WriteEffects DEF Mem
  <2> QED BY <2>2, <2>3, <2>4, MarkSets DEF Adds
<1>2. Adds(Call("Features")) /\ Call("Features") \notin DmpOns
  BY CallSteps, CallKinds, CallEffects DEF Adds
<1>3. Adds(Call("DmpOn"))
  BY CallSteps, CallKinds, CallEffects DEF Adds
<1> QED BY <1>1, <1>2, <1>3

\* More of it after, or before, renews as well.
LEMMA RenewsAdds ==
    ASSUME NEW w \in Seq(Steps), Renews(w), NEW s, Adds(s), s \notin DmpOns
    PROVE  w \o <<s>> \in Seq(Steps) /\ Renews(w \o <<s>>)
<1>1. <<s>> \in Seq(Steps)
  BY DEF Adds
<1>2. /\ None(<<s>>, DmpOns) /\ None(<<s>>, DmpIsS) /\ None(<<s>>, {Call("IntOff")})
      /\ None(<<s>>, DCalls \cup Modes) /\ None(<<s>>, Sleeps) /\ None(<<s>>, {Call("Forget")})
      /\ \A reg \in Settings : None(<<s>>, Spoils(reg))
  BY OneStep DEF Adds
<1>3. /\ None(w \o <<s>>, DmpOns) /\ None(w \o <<s>>, DmpIsS) /\ None(w \o <<s>>, {Call("IntOff")})
      /\ Ahead(w \o <<s>>, Restarts, DCalls \cup Modes) /\ Ahead(w \o <<s>>, {Power("awake")}, Sleeps)
  BY <1>1, <1>2, CatLaws DEF Renews
<1>4. ASSUME NEW reg \in Settings
      PROVE  /\ Ahead(w \o <<s>>, {Call("Forget")}, Spoils(reg))
             /\ Follows(w \o <<s>>, {Call("Forget")}, Setters(reg))
             /\ ~None(w \o <<s>>, Setters(reg))
  <2>1. Follows(<<s>>, {Call("Forget")}, Setters(reg))
    BY <1>2, NoneLed
  <2> QED BY <1>1, <1>2, <2>1, CatLaws DEF Renews
<1> QED BY <1>1, <1>3, <1>4, CatPlaces DEF Renews

LEMMA RenewsSets ==
    ASSUME NEW w \in Seq(Steps), Renews(w)
    PROVE  Sets(w)
<1>1. Order(w, DmpOns, Off) /\ Order(w, DmpOns, DmpOffs) /\ Order(w, DmpOns, DmpOns)
  BY NoneLed DEF Renews
<1> QED BY <1>1 DEF Renews, Sets

LEMMA SetsAdds ==
    ASSUME NEW w \in Seq(Steps), Sets(w), NEW s, Adds(s), s \notin DmpOns \/ None(w, DmpOns)
    PROVE  w \o <<s>> \in Seq(Steps) /\ Sets(w \o <<s>>)
<1>1. <<s>> \in Seq(Steps)
  BY DEF Adds
<1>2. /\ None(<<s>>, DmpIsS) /\ None(<<s>>, {Call("IntOff")})
      /\ None(<<s>>, Off) /\ None(<<s>>, DmpOffs)
      /\ None(<<s>>, DCalls \cup Modes) /\ None(<<s>>, Sleeps) /\ None(<<s>>, {Call("Forget")})
      /\ \A reg \in Settings : None(<<s>>, Spoils(reg))
  BY OneStep DEF Adds
<1>o. \A X, Y : Order(<<s>>, X, Y)
  BY OneLaws
<1>3. /\ None(w \o <<s>>, DmpIsS) /\ None(w \o <<s>>, {Call("IntOff")})
      /\ Order(w \o <<s>>, DmpOns, Off) /\ Order(w \o <<s>>, DmpOns, DmpOffs)
      /\ Ahead(w \o <<s>>, Restarts, DCalls \cup Modes) /\ Ahead(w \o <<s>>, {Power("awake")}, Sleeps)
  <2>1. /\ None(w, DmpIsS) /\ None(w, {Call("IntOff")})
        /\ Order(w, DmpOns, Off) /\ Order(w, DmpOns, DmpOffs)
        /\ Ahead(w, Restarts, DCalls \cup Modes) /\ Ahead(w, {Power("awake")}, Sleeps)
    BY DEF Sets
  <2>2. None(w \o <<s>>, DmpIsS) /\ None(w \o <<s>>, {Call("IntOff")})
    BY <1>1, <1>2, <2>1, CatLaws
  <2>3. Order(w \o <<s>>, DmpOns, Off) /\ Order(w \o <<s>>, DmpOns, DmpOffs)
    BY <1>1, <1>2, <1>o, <2>1, CatLaws
  <2>4. Ahead(w \o <<s>>, Restarts, DCalls \cup Modes) /\ Ahead(w \o <<s>>, {Power("awake")}, Sleeps)
    BY <1>1, <1>2, <2>1, CatLaws
  <2> QED BY <2>2, <2>3, <2>4
<1>5. Order(w \o <<s>>, DmpOns, DmpOns)
  <2>1. None(w, DmpOns) \/ None(<<s>>, DmpOns)
    BY OneStep
  <2> QED BY <1>1, <1>o, <2>1, CatLaws DEF Sets
<1>4. ASSUME NEW reg \in Settings
      PROVE  /\ Ahead(w \o <<s>>, {Call("Forget")}, Spoils(reg))
             /\ Follows(w \o <<s>>, {Call("Forget")}, Setters(reg))
             /\ ~None(w \o <<s>>, Setters(reg))
  <2>1. Follows(<<s>>, {Call("Forget")}, Setters(reg))
    BY <1>2, NoneLed
  <2> QED BY <1>1, <1>2, <2>1, CatLaws DEF Sets
<1> QED BY <1>1, <1>3, <1>4, <1>5, CatPlaces DEF Sets

\* Such work sets the chip right, whatever state it is in,
LEMMA SetsChip ==
    ASSUME NEW w \in Seq(Steps), Sets(w)
    PROVE  \A c, k : ChipInv(w, c, k)
BY DEF Sets, ChipInv, ModeInv, AwakeInv, RegInv

\* With the DMP off, or after it was switched off.
LEMMA SetsCfg ==
    ASSUME NEW w \in Seq(Steps), Sets(w), NEW c \in CfgType,
           c.int \in {"off", IF c.dmp_on THEN "dmp" ELSE "data"},
           c.dmp_on => c.int # "off" /\ Led(w, Off, DmpOffs) /\ c.set = ForDmp
    PROVE  CfgInv(w, c)
<1>1. DmpInv(w, c)
  <2>1. Order(w, DmpOns, {Call("IntOff")})
    BY Smaller DEF Sets
  <2> QED BY <2>1 DEF DmpInv, Sets
<1>2. RateInv(w, c)
  <2>1. None(w, {Call("DmpIsOn")})
    <3>1. {Call("DmpIsOn")} \subseteq DmpIsS
      BY DEF DmpIsS
    <3> QED BY <3>1, Smaller DEF Sets
  <2> QED BY <2>1 DEF RateInv
<1>3. KnownInv(w, c)
  BY DEF KnownInv, Sets
<1>4. IntInv(w, c)
  <2>1. None(w, {Call("DmpIsOn")})
    <3>1. {Call("DmpIsOn")} \subseteq DmpIsS
      BY DEF DmpIsS
    <3> QED BY <3>1, Smaller DEF Sets
  <2>2. Led(w, DmpIsS, {Call("IntOff")}) /\ Follows(w, {Call("IntOff")}, {Call("DmpIsOff")})
        /\ Follows(w, {Call("DmpIsOn")}, {Call("IntOn")})
    BY <2>1, NoneLed DEF Sets
  <2>3. Order(w, {Call("IntOn"), Call("FifoAll")}, DmpIsS)
    BY Smaller DEF Sets
  <2> QED BY <2>2, <2>3 DEF IntInv
<1> QED BY <1>1, <1>2, <1>3, <1>4 DEF CfgInv

\* The steps of a list that sets everything up, by what they may be.
LEMMA SetSilent ==
    ASSUME NEW s \in Rates \cup SetSteps
    PROVE  /\ s \in Steps /\ s \notin DmpOns /\ s \notin DmpIsS /\ \A f : s # Call(f)
           /\ s \notin DCalls \cup Modes /\ s \notin Sleeps /\ \A reg \in Settings : s \notin Spoils(reg)
<1>1. PICK a, b : s = <<a, b>> /\ a \in {"rate", "set"}
  BY DEF Rates, SetSteps
<1>2. s \notin DmpOns /\ s \notin DmpIsS /\ \A f : s # Call(f)
  BY <1>1, PairKinds, PairMarks
<1> QED BY <1>2, PlainEffects, LoudSets

\* Power and bypass set nothing.
LEMMA PowerSilent ==
    /\ \A v \in {"reset", "awake", "asleep"} :
           /\ Power(v) \in Steps /\ Power(v) \notin DmpOns /\ Power(v) \notin DmpIsS /\ \A f : Power(v) # Call(f)
           /\ \A reg : Power(v) \notin Setters(reg)
    /\ \A reg \in Settings : Power("awake") \notin Spoils(reg) /\ Power("asleep") \notin Spoils(reg)
<1>1. ASSUME NEW v \in {"reset", "awake", "asleep"}
      PROVE  /\ Power(v) \in Steps /\ Power(v) \notin DmpOns /\ Power(v) \notin DmpIsS /\ \A f : Power(v) # Call(f)
             /\ \A reg : Power(v) \notin Setters(reg)
  <2>1. "pwr_mgmt" \in Registers /\ v \in Values("pwr_mgmt")
    BY ModeValues DEF Registers
  <2>2. Power(v) \in Steps /\ Power(v) \notin Marks /\ \A f : Power(v) # Call(f)
    BY <2>1, WriteKinds, WriteEffects DEF Power
  <2> QED BY <2>2, MarkSets
<1>2. \A reg \in Settings : Power("awake") \notin Spoils(reg) /\ Power("asleep") \notin Spoils(reg)
  <2>1. "pwr_mgmt" \in Registers /\ \A reg \in Settings : reg # "pwr_mgmt"
    BY DEF Registers, Settings
  <2> QED BY <2>1, WriteEffects DEF Power
<1> QED BY <1>1, <1>2

LEMMA BypassSilent ==
    LET h == Bypass(<<Power("asleep")>>)
    IN  /\ h \in Steps /\ h \notin DmpOns /\ h \notin DmpIsS /\ \A f : h # Call(f)
        /\ \A reg : h \notin Setters(reg)
        /\ \A reg \in Settings : h \notin Spoils(reg)
<1> DEFINE h == Bypass(<<Power("asleep")>>)
<1>1. h \in Bypasses
  BY DEF Bypasses
<1> HIDE DEF h
<1>2. h \in Steps /\ h \notin Marks /\ (\A f : h # Call(f)) /\ \A reg \in Settings : h \notin Spoils(reg)
  BY <1>1, OtherKinds, PlainEffects
<1>3. h \notin DmpOns /\ h \notin DmpIsS /\ \A reg : h \notin Setters(reg)
  BY <1>2, MarkSets
<1> QED BY <1>2, <1>3 DEF h

\* The four settings of a list, each with a good value.
FourSet(w, i) ==
    \E a \in Good("gyro_cfg"), b \in Good("accel_cfg"), e \in Good("lpf") :
        /\ w[i] = Setting("gyro_cfg", a) /\ w[i + 1] = Setting("accel_cfg", b)
        /\ w[i + 2] = Setting("lpf", e) /\ w[i + 3] \in Rates

\* Four places that set the four settings.
LEMMA FourSetLaws ==
    ASSUME NEW w, NEW i, FourSet(w, i)
    PROVE  /\ w[i] \in SetSteps /\ w[i + 1] \in SetSteps /\ w[i + 2] \in SetSteps /\ w[i + 3] \in Rates
           /\ w[i] \in Setters("gyro_cfg") /\ w[i + 1] \in Setters("accel_cfg") /\ w[i + 2] \in Setters("lpf")
           /\ w[i + 3] \in Setters("rate_div")
<1>1. PICK a \in Good("gyro_cfg"), b \in Good("accel_cfg"), e \in Good("lpf") :
          /\ w[i] = Setting("gyro_cfg", a) /\ w[i + 1] = Setting("accel_cfg", b)
          /\ w[i + 2] = Setting("lpf", e) /\ w[i + 3] \in Rates
  BY DEF FourSet
<1>2. {"gyro_cfg", "accel_cfg", "lpf", "rate_div"} \subseteq Settings
  BY DEF Settings
<1>3. /\ w[i] \in SetSteps /\ w[i] \in Setters("gyro_cfg")
  BY <1>1, <1>2, SettingKinds
<1>4. /\ w[i + 1] \in SetSteps /\ w[i + 1] \in Setters("accel_cfg")
  BY <1>1, <1>2, SettingKinds
<1>5. /\ w[i + 2] \in SetSteps /\ w[i + 2] \in Setters("lpf")
  BY <1>1, <1>2, SettingKinds
<1>6. w[i + 3] \in Rates /\ w[i + 3] \in Setters("rate_div")
  BY <1>1 DEF Setters
<1> QED BY <1>3, <1>4, <1>5, <1>6

LEMMA SetterOf ==
    ASSUME NEW w, NEW i, FourSet(w, i), NEW reg \in Settings
    PROVE  \E j \in {i, i + 1, i + 2, i + 3} : w[j] \in Setters(reg)
<1>1. reg \in {"gyro_cfg", "accel_cfg", "lpf", "rate_div"}
  BY DEF Settings
<1> QED BY <1>1, FourSetLaws

\* The tries of a self-test.
LEMMA BiasKinds ==
    ASSUME NEW hw \in BOOLEAN, NEW tries \in {1, 2}
    PROVE  Bias(hw, tries) \in Biases /\ Counted(hw, tries) \in Biases
BY PairKinds DEF Bias, Counted

\* Eight, nine and five steps are steps.
LEMMA EightSteps ==
    ASSUME NEW S, NEW s1 \in S, NEW s2 \in S, NEW s3 \in S, NEW s4 \in S, NEW s5 \in S, NEW s6 \in S,
           NEW s7 \in S, NEW s8 \in S
    PROVE  <<s1, s2, s3, s4, s5, s6, s7, s8>> \in Seq(S)
OBVIOUS

\* get_st_biases is begun, and everything written again.
RestoreOps(a, b, e, hz) ==
    <<Bias(FALSE, 2), Call("Forget"), Setting("gyro_cfg", a), Setting("accel_cfg", b),
      Setting("lpf", e), SampleRate(hz), Power("awake"), Call("FifoAll")>>

\* What mpu_run_self_test restores with sets everything up anew.
LEMMA RestoreRenews ==
    ASSUME NEW a \in Good("gyro_cfg"), NEW b \in Good("accel_cfg"), NEW e \in Good("lpf"), NEW hz \in {20, 50, 200}
    PROVE  /\ RestoreOps(a, b, e, hz) \in Seq(Steps) /\ Renews(RestoreOps(a, b, e, hz))
           /\ None(RestoreOps(a, b, e, hz), Reads)
<1> DEFINE w == <<Bias(FALSE, 2), Call("Forget"), Setting("gyro_cfg", a), Setting("accel_cfg", b),
                  Setting("lpf", e), SampleRate(hz), Power("awake"), Call("FifoAll")>>
<1>1. /\ DOMAIN w = 1..8 /\ w[1] = Bias(FALSE, 2) /\ w[2] = Call("Forget")
      /\ w[3] = Setting("gyro_cfg", a) /\ w[4] = Setting("accel_cfg", b) /\ w[5] = Setting("lpf", e)
      /\ w[6] = SampleRate(hz) /\ w[7] = Power("awake") /\ w[8] = Call("FifoAll")
  OBVIOUS
<1> SUFFICES w \in Seq(Steps) /\ Renews(w) /\ None(w, Reads)
  BY DEF RestoreOps
<1> HIDE DEF w
<1>i. \A i \in DOMAIN w : i = 1 \/ i = 2 \/ i = 3 \/ i = 4 \/ i = 5 \/ i = 6 \/ i = 7 \/ i = 8
  BY <1>1
<1>r. SampleRate(hz) \in Rates
  BY DEF SampleRate, Rates
<1>2. FourSet(w, 3)
  <2>1. 3 + 1 = 4 /\ 3 + 2 = 5 /\ 3 + 3 = 6
    OBVIOUS
  <2> QED BY <1>1, <1>r, <2>1 DEF FourSet
<1>3. /\ w[3] \in SetSteps /\ w[4] \in SetSteps /\ w[5] \in SetSteps /\ w[6] \in Rates
  <2>1. 3 + 1 = 4 /\ 3 + 2 = 5 /\ 3 + 3 = 6
    OBVIOUS
  <2> QED BY <1>2, <2>1, FourSetLaws
<1>4. /\ w[1] \in Biases /\ w[1] \in Steps /\ w[1] \notin DmpOns /\ w[1] \notin DmpIsS /\ \A f : w[1] # Call(f)
  <2>1. w[1] = <<"bias", [hw |-> FALSE, tries |-> 2]>>
    BY <1>1 DEF Bias
  <2>3. w[1] \in Biases
    BY <1>1, BiasKinds
  <2>4. w[1] \in Steps
    BY <2>3, OtherKinds DEF Off
  <2>5. w[1] \notin DmpOns /\ w[1] \notin DmpIsS /\ \A f : w[1] # Call(f)
    BY <2>1, PairKinds, PairMarks
  <2> QED BY <2>3, <2>4, <2>5
<1>5. \A i \in DOMAIN w : w[i] \in Steps /\ w[i] \notin DmpOns /\ w[i] \notin DmpIsS /\ w[i] # Call("IntOff")
                          /\ w[i] \notin Reads
  <2>1. \A i \in {3, 4, 5, 6} : w[i] \in Steps /\ w[i] \notin DmpOns /\ w[i] \notin DmpIsS /\ w[i] # Call("IntOff")
    BY <1>3, SetSilent
  <2>2. \A i \in {2, 8} : w[i] \in Steps /\ w[i] \notin DmpOns /\ w[i] \notin DmpIsS /\ w[i] # Call("IntOff")
    BY <1>1, CallSteps, CallKinds
  <2>3. w[7] \in Steps /\ w[7] \notin DmpOns /\ w[7] \notin DmpIsS /\ w[7] # Call("IntOff")
    BY <1>1, PowerSilent
  <2>4. /\ w[1] \notin Reads /\ w[2] \notin Reads /\ w[3] \notin Reads /\ w[4] \notin Reads
        /\ w[5] \notin Reads /\ w[6] \notin Reads /\ w[7] \notin Reads /\ w[8] \notin Reads
    <3>1. Bias(FALSE, 2) \notin Reads /\ SampleRate(hz) \notin Reads /\ Power("awake") \notin Reads
      BY PairKinds DEF Bias, SampleRate, Power
    <3>2. Setting("gyro_cfg", a) \notin Reads /\ Setting("accel_cfg", b) \notin Reads /\ Setting("lpf", e) \notin Reads
      BY PairKinds DEF Setting
    <3>3. Call("Forget") \notin Reads /\ Call("FifoAll") \notin Reads
      BY CallKinds
    <3>4. w[1] \notin Reads /\ w[6] \notin Reads /\ w[7] \notin Reads
      BY <1>1, <3>1
    <3>5. w[3] \notin Reads /\ w[4] \notin Reads /\ w[5] \notin Reads
      BY <1>1, <3>2
    <3>6. w[2] \notin Reads /\ w[8] \notin Reads
      BY <1>1, <3>3
    <3> QED BY <3>4, <3>5, <3>6
  <2> QED BY <1>4, <1>i, <2>1, <2>2, <2>3, <2>4
<1>6. None(w, DmpOns) /\ None(w, DmpIsS) /\ None(w, {Call("IntOff")}) /\ None(w, Reads)
  BY <1>5 DEF None
<1>7. Ahead(w, Restarts, DCalls \cup Modes)
  <2>1. 8 \in DOMAIN w /\ w[8] \in Restarts /\ \A j \in DOMAIN w : ~(8 < j)
    BY <1>1 DEF Restarts
  <2> QED BY <2>1 DEF Ahead
<1>8. Ahead(w, {Power("awake")}, Sleeps)
  <2>1. 7 \in DOMAIN w /\ w[7] = Power("awake") /\ \A j \in DOMAIN w : 7 < j => j = 8
    BY <1>1
  <2>2. w[8] \notin Sleeps
    BY <1>1, CallEffects
  <2> QED BY <2>1, <2>2 DEF Ahead
<1>9. ASSUME NEW reg \in Settings
      PROVE  /\ Ahead(w, {Call("Forget")}, Spoils(reg))
             /\ Follows(w, {Call("Forget")}, Setters(reg))
             /\ ~None(w, Setters(reg))
  <2>1. 2 \in DOMAIN w /\ \A j \in DOMAIN w : 2 < j => j = 3 \/ j = 4 \/ j = 5 \/ j = 6 \/ j = 7 \/ j = 8
    BY <1>1
  <2>2. \A j \in {3, 4, 5, 6} : w[j] \notin Spoils(reg)
    BY <1>3, SetSilent
  <2>3. w[7] \notin Spoils(reg) /\ w[8] \notin Spoils(reg)
    BY <1>1, PowerSilent, CallEffects
  <2>4. Ahead(w, {Call("Forget")}, Spoils(reg))
    BY <1>1, <2>1, <2>2, <2>3 DEF Ahead
  <2>5. PICK j \in {3, 4, 5, 6} : w[j] \in Setters(reg)
    <3>1. 3 + 1 = 4 /\ 3 + 2 = 5 /\ 3 + 3 = 6
      OBVIOUS
    <3> QED BY <1>2, <3>1, SetterOf
  <2>6. j \in DOMAIN w /\ 2 < j
    BY <1>1
  <2>7. \A i \in DOMAIN w : w[i] = Call("Forget") => i = 2
    <3>1. /\ w[1] # Call("Forget") /\ w[3] # Call("Forget") /\ w[4] # Call("Forget") /\ w[5] # Call("Forget")
          /\ w[6] # Call("Forget") /\ w[7] # Call("Forget") /\ w[8] # Call("Forget")
      <4>1. /\ w[3] # Call("Forget") /\ w[4] # Call("Forget") /\ w[5] # Call("Forget") /\ w[6] # Call("Forget")
        BY <1>3, SetSilent
      <4>2. w[7] # Call("Forget") /\ w[8] # Call("Forget")
        BY <1>1, PowerSilent, CallKinds
      <4> QED BY <1>4, <4>1, <4>2
    <3> QED BY <1>i, <3>1
  <2> QED BY <2>4, <2>5, <2>6, <2>7 DEF Follows, None
<1>10. w \in Seq(Steps)
  <2>1. /\ Bias(FALSE, 2) \in Steps /\ Call("Forget") \in Steps /\ Setting("gyro_cfg", a) \in Steps
        /\ Setting("accel_cfg", b) \in Steps /\ Setting("lpf", e) \in Steps /\ SampleRate(hz) \in Steps
        /\ Power("awake") \in Steps /\ Call("FifoAll") \in Steps
    <3>1. \A i \in 1..8 : w[i] \in Steps
      BY <1>1, <1>5
    <3>2. /\ w[1] \in Steps /\ w[2] \in Steps /\ w[3] \in Steps /\ w[4] \in Steps
          /\ w[5] \in Steps /\ w[6] \in Steps /\ w[7] \in Steps /\ w[8] \in Steps
      BY <3>1
    <3> QED BY <1>1, <3>2, Zenon
  <2> QED BY <2>1, EightSteps, Zenon DEF w
<1> QED BY <1>6, <1>7, <1>8, <1>9, <1>10 DEF Renews

LEMMA NineSteps ==
    ASSUME NEW S, NEW s1 \in S, NEW s2 \in S, NEW s3 \in S, NEW s4 \in S, NEW s5 \in S, NEW s6 \in S,
           NEW s7 \in S, NEW s8 \in S, NEW s9 \in S
    PROVE  <<s1, s2, s3, s4, s5, s6, s7, s8, s9>> \in Seq(S)
OBVIOUS

LEMMA FiveSteps ==
    ASSUME NEW S, NEW s1 \in S, NEW s2 \in S, NEW s3 \in S, NEW s4 \in S, NEW s5 \in S
    PROVE  <<s1, s2, s3, s4, s5>> \in Seq(S)
OBVIOUS

\* mpu_init
LEMMA MpuInitOps ==
    /\ MpuInit \in Seq(Steps) /\ None(MpuInit, Reads)
    /\ None(MpuInit, DmpOns) /\ None(MpuInit, DmpIsS) /\ None(MpuInit, {Call("IntOff")})
    /\ \A reg \in Settings : /\ Ahead(MpuInit, {Call("Forget")}, Spoils(reg))
                             /\ Follows(MpuInit, {Call("Forget")}, Setters(reg))
                             /\ ~None(MpuInit, Setters(reg))
<1> DEFINE w == MpuInit
<1> DEFINE b == Bypass(<<Power("asleep")>>)
<1> DEFINE f == Lpf(42)
<1>1. /\ DOMAIN w = 1..9 /\ w[1] = Power("reset") /\ w[2] = Power("awake") /\ w[3] = Call("Forget")
      /\ w[4] = Setting("gyro_cfg", Dps2000) /\ w[5] = Setting("accel_cfg", G2) /\ w[6] = Setting("lpf", f)
      /\ w[7] = SampleRate(50) /\ w[8] = Call("FifoNone") /\ w[9] = b
  BY DEF MpuInit
<1>w. w = <<Power("reset"), Power("awake"), Call("Forget"), Setting("gyro_cfg", Dps2000), Setting("accel_cfg", G2),
            Setting("lpf", f), SampleRate(50), Call("FifoNone"), b>>
  BY DEF MpuInit
<1>b. /\ b \in Steps /\ b \notin DmpOns /\ b \notin DmpIsS /\ (\A g : b # Call(g))
      /\ (\A reg \in Settings : b \notin Spoils(reg)) /\ b \notin Reads
  <2>1. b \in Bypasses
    BY DEF Bypasses
  <2> QED BY <2>1, BypassSilent, OtherKinds
<1>f. f \in Good("lpf") /\ Dps2000 \in Good("gyro_cfg") /\ G2 \in Good("accel_cfg")
  BY GoodValues, DivAndFilter
<1>d. w = MpuInit
  OBVIOUS
<1> HIDE DEF w, b, f
<1>i. \A i \in DOMAIN w : i = 1 \/ i = 2 \/ i = 3 \/ i = 4 \/ i = 5 \/ i = 6 \/ i = 7 \/ i = 8 \/ i = 9
  BY <1>1
<1>r. SampleRate(50) \in Rates
  BY DEF SampleRate, Rates
<1>n. 4 + 1 = 5 /\ 4 + 2 = 6 /\ 4 + 3 = 7
  OBVIOUS
<1>2. FourSet(w, 4)
  BY <1>1, <1>f, <1>r, <1>n DEF FourSet
<1>3. /\ w[4] \in SetSteps /\ w[5] \in SetSteps /\ w[6] \in SetSteps /\ w[7] \in Rates
  BY <1>2, <1>n, FourSetLaws
<1>5. /\ w[4] \in Steps /\ w[4] \notin DmpOns /\ w[4] \notin DmpIsS /\ \A g : w[4] # Call(g)
      /\ w[5] \in Steps /\ w[5] \notin DmpOns /\ w[5] \notin DmpIsS /\ \A g : w[5] # Call(g)
      /\ w[6] \in Steps /\ w[6] \notin DmpOns /\ w[6] \notin DmpIsS /\ \A g : w[6] # Call(g)
      /\ w[7] \in Steps /\ w[7] \notin DmpOns /\ w[7] \notin DmpIsS /\ \A g : w[7] # Call(g)
  BY <1>3, SetSilent
<1>6. /\ w[1] \in Steps /\ w[1] \notin DmpOns /\ w[1] \notin DmpIsS /\ \A g : w[1] # Call(g)
      /\ w[2] \in Steps /\ w[2] \notin DmpOns /\ w[2] \notin DmpIsS /\ \A g : w[2] # Call(g)
  BY <1>1, PowerSilent
<1>7. /\ w[3] \in Steps /\ w[3] \notin DmpOns /\ w[3] \notin DmpIsS /\ w[3] # Call("IntOff")
      /\ w[8] \in Steps /\ w[8] \notin DmpOns /\ w[8] \notin DmpIsS /\ w[8] # Call("IntOff")
      /\ w[8] # Call("Forget")
  BY <1>1, CallSteps, CallKinds
<1>8. None(w, DmpOns) /\ None(w, DmpIsS) /\ None(w, {Call("IntOff")})
  <2>1. \A i \in DOMAIN w : w[i] \notin DmpOns /\ w[i] \notin DmpIsS /\ w[i] # Call("IntOff")
    BY <1>i, <1>1, <1>b, <1>5, <1>6, <1>7
  <2> QED BY <2>1 DEF None
<1>9. None(w, Reads)
  <2>1. Power("reset") \notin Reads /\ SampleRate(50) \notin Reads /\ Power("awake") \notin Reads
    BY PairKinds DEF SampleRate, Power
  <2>2. \A r, v : Setting(r, v) \notin Reads
    BY PairKinds DEF Setting
  <2>3. Call("Forget") \notin Reads /\ Call("FifoNone") \notin Reads
    BY CallKinds
  <2>4. \A i \in DOMAIN w : w[i] \notin Reads
    BY <1>i, <1>1, <1>b, <2>1, <2>2, <2>3
  <2> QED BY <2>4 DEF None
<1>10. ASSUME NEW reg \in Settings
       PROVE  /\ Ahead(w, {Call("Forget")}, Spoils(reg))
              /\ Follows(w, {Call("Forget")}, Setters(reg))
              /\ ~None(w, Setters(reg))
  <2>1. 3 \in DOMAIN w /\ \A j \in DOMAIN w : 3 < j => j = 4 \/ j = 5 \/ j = 6 \/ j = 7 \/ j = 8 \/ j = 9
    BY <1>1
  <2>2. w[4] \notin Spoils(reg) /\ w[5] \notin Spoils(reg) /\ w[6] \notin Spoils(reg) /\ w[7] \notin Spoils(reg)
    BY <1>3, SetSilent
  <2>3. w[9] \notin Spoils(reg) /\ w[8] \notin Spoils(reg)
    BY <1>1, <1>b, CallEffects
  <2>4. Ahead(w, {Call("Forget")}, Spoils(reg))
    BY <1>1, <2>1, <2>2, <2>3 DEF Ahead
  <2>5. PICK j \in {4, 5, 6, 7} : w[j] \in Setters(reg)
    BY <1>2, <1>n, SetterOf
  <2>6. j \in DOMAIN w /\ 3 < j
    BY <1>1
  <2>7. \A i \in DOMAIN w : w[i] = Call("Forget") => i = 3
    <3>1. w[9] # Call("Forget")
      BY <1>1, <1>b
    <3> QED BY <1>i, <1>5, <1>6, <1>7, <3>1
  <2> QED BY <2>4, <2>5, <2>6, <2>7 DEF Follows, None
<1>11. w \in Seq(Steps)
  <2>1. /\ Power("reset") \in Steps /\ Power("awake") \in Steps /\ Call("Forget") \in Steps
        /\ Setting("gyro_cfg", Dps2000) \in Steps /\ Setting("accel_cfg", G2) \in Steps
        /\ Setting("lpf", f) \in Steps /\ SampleRate(50) \in Steps /\ Call("FifoNone") \in Steps
    BY <1>1, <1>5, <1>6, <1>7, Zenon
  <2> QED BY <1>w, <1>b, <2>1, NineSteps, Zenon
<1> QED BY <1>d, <1>8, <1>9, <1>10, <1>11

\* The rest of invmpu_init, up to the DMP.
LEMMA WakeOps ==
    LET u == <<Power("awake"), Call("FifoAll"), SampleRate(20), Call("Started"), Call("Load")>>
    IN  /\ u \in Seq(Steps) /\ None(u, Reads)
        /\ None(u, DmpOns) /\ None(u, DmpIsS) /\ None(u, {Call("IntOff")}) /\ None(u, {Call("Forget")})
        /\ Ahead(u, Restarts, DCalls \cup Modes) /\ Ahead(u, {Power("awake")}, Sleeps)
        /\ \A reg \in Settings : None(u, Spoils(reg))
<1> DEFINE u == <<Power("awake"), Call("FifoAll"), SampleRate(20), Call("Started"), Call("Load")>>
<1>1. /\ DOMAIN u = 1..5 /\ u[1] = Power("awake") /\ u[2] = Call("FifoAll") /\ u[3] = SampleRate(20)
      /\ u[4] = Call("Started") /\ u[5] = Call("Load")
  OBVIOUS
<1> HIDE DEF u
<1>i. \A i \in DOMAIN u : i = 1 \/ i = 2 \/ i = 3 \/ i = 4 \/ i = 5
  BY <1>1
<1>2. /\ u[1] \in Steps /\ u[1] \notin DmpOns /\ u[1] \notin DmpIsS /\ u[1] # Call("IntOff") /\ u[1] # Call("Forget")
      /\ u[1] \notin Reads /\ \A reg \in Settings : u[1] \notin Spoils(reg)
  <2>1. Power("awake") \notin Reads
    BY PairKinds DEF Power
  <2> QED BY <1>1, <2>1, PowerSilent
<1>3. /\ u[3] \in Steps /\ u[3] \notin DmpOns /\ u[3] \notin DmpIsS /\ u[3] # Call("IntOff") /\ u[3] # Call("Forget")
      /\ u[3] \notin Reads /\ u[3] \notin DCalls \cup Modes /\ u[3] \notin Sleeps
      /\ \A reg \in Settings : u[3] \notin Spoils(reg)
  <2>1. SampleRate(20) \notin Reads
    BY PairKinds DEF SampleRate
  <2>2. SampleRate(20) \in Rates
    BY DEF SampleRate, Rates
  <2> QED BY <1>1, <2>1, <2>2, SetSilent
<1>4. \A i \in {2, 4, 5} :
          /\ u[i] \in Steps /\ u[i] \notin DmpOns /\ u[i] \notin DmpIsS /\ u[i] # Call("IntOff") /\ u[i] # Call("Forget")
          /\ u[i] \notin Reads /\ u[i] \notin DCalls \cup Modes /\ u[i] \notin Sleeps
          /\ \A reg \in Settings : u[i] \notin Spoils(reg)
  <2>1. ASSUME NEW f \in {"FifoAll", "Started", "Load"}
        PROVE  /\ Call(f) \in Steps /\ Call(f) \notin DmpOns /\ Call(f) \notin DmpIsS
               /\ Call(f) # Call("IntOff") /\ Call(f) # Call("Forget")
               /\ Call(f) \notin Reads /\ Call(f) \notin DCalls \cup Modes /\ Call(f) \notin Sleeps
               /\ \A reg \in Settings : Call(f) \notin Spoils(reg)
    <3>1. Call(f) \in Steps /\ Call(f) \notin DCalls \cup Modes /\ Call(f) \notin Sleeps
          /\ \A reg \in Settings : Call(f) \notin Spoils(reg)
      BY CallSteps, CallEffects
    <3> QED BY <3>1, CallKinds
  <2> QED BY <1>1, <2>1
<1>5. \A i \in DOMAIN u : /\ u[i] \notin DmpOns /\ u[i] \notin DmpIsS /\ u[i] # Call("IntOff") /\ u[i] # Call("Forget")
                          /\ u[i] \notin Reads /\ \A reg \in Settings : u[i] \notin Spoils(reg)
  BY <1>i, <1>2, <1>3, <1>4
<1>6. /\ None(u, Reads) /\ None(u, DmpOns) /\ None(u, DmpIsS) /\ None(u, {Call("IntOff")})
      /\ None(u, {Call("Forget")}) /\ \A reg \in Settings : None(u, Spoils(reg))
  BY <1>5 DEF None
<1>7. Ahead(u, Restarts, DCalls \cup Modes)
  <2>1. 2 \in DOMAIN u /\ u[2] \in Restarts /\ \A j \in DOMAIN u : 2 < j => j = 3 \/ j = 4 \/ j = 5
    BY <1>1 DEF Restarts
  <2> QED BY <1>3, <1>4, <2>1 DEF Ahead
<1>8. Ahead(u, {Power("awake")}, Sleeps)
  <2>1. 1 \in DOMAIN u /\ \A j \in DOMAIN u : 1 < j => j = 2 \/ j = 3 \/ j = 4 \/ j = 5
    BY <1>1
  <2> QED BY <1>1, <1>3, <1>4, <2>1 DEF Ahead
<1>9. u \in Seq(Steps)
  <2>1. /\ Power("awake") \in Steps /\ Call("FifoAll") \in Steps /\ SampleRate(20) \in Steps
        /\ Call("Started") \in Steps /\ Call("Load") \in Steps
    BY <1>1, <1>2, <1>3, CallSteps
  <2> QED BY <2>1, FiveSteps, Zenon DEF u
<1> QED BY <1>6, <1>7, <1>8, <1>9 DEF u

\* The start, up to the DMP: everything is set up anew.
LEMMA StartRenews ==
    LET u == <<Power("awake"), Call("FifoAll"), SampleRate(20), Call("Started"), Call("Load")>>
    IN  MpuInit \o u \in Seq(Steps) /\ Renews(MpuInit \o u) /\ None(MpuInit \o u, Reads)
<1> DEFINE m == MpuInit
<1> DEFINE u == <<Power("awake"), Call("FifoAll"), SampleRate(20), Call("Started"), Call("Load")>>
<1>1. /\ m \in Seq(Steps) /\ None(m, Reads)
      /\ None(m, DmpOns) /\ None(m, DmpIsS) /\ None(m, {Call("IntOff")})
      /\ \A reg \in Settings : /\ Ahead(m, {Call("Forget")}, Spoils(reg))
                               /\ Follows(m, {Call("Forget")}, Setters(reg))
                               /\ ~None(m, Setters(reg))
  BY MpuInitOps
<1>2. /\ u \in Seq(Steps) /\ None(u, Reads)
      /\ None(u, DmpOns) /\ None(u, DmpIsS) /\ None(u, {Call("IntOff")}) /\ None(u, {Call("Forget")})
      /\ Ahead(u, Restarts, DCalls \cup Modes) /\ Ahead(u, {Power("awake")}, Sleeps)
      /\ \A reg \in Settings : None(u, Spoils(reg))
  BY WakeOps
<1> SUFFICES m \o u \in Seq(Steps) /\ Renews(m \o u) /\ None(m \o u, Reads)
  OBVIOUS
<1> HIDE DEF m, u
<1>3. /\ None(m \o u, Reads) /\ None(m \o u, DmpOns) /\ None(m \o u, DmpIsS) /\ None(m \o u, {Call("IntOff")})
      /\ Ahead(m \o u, Restarts, DCalls \cup Modes) /\ Ahead(m \o u, {Power("awake")}, Sleeps)
  BY <1>1, <1>2, CatLaws
<1>4. ASSUME NEW reg \in Settings
      PROVE  /\ Ahead(m \o u, {Call("Forget")}, Spoils(reg))
             /\ Follows(m \o u, {Call("Forget")}, Setters(reg))
             /\ ~None(m \o u, Setters(reg))
  <2>1. Follows(u, {Call("Forget")}, Setters(reg))
    BY <1>2, NoneLed
  <2> QED BY <1>1, <1>2, <2>1, CatLaws
<1> QED BY <1>1, <1>2, <1>3, <1>4, CatPlaces DEF Renews

\* The start.
LEMMA StartSets ==
    Start \in Seq(Steps) /\ None(Start, Reads) /\ Sets(Start)
<1> DEFINE a == MpuInit \o <<Power("awake"), Call("FifoAll"), SampleRate(20), Call("Started"), Call("Load")>>
<1> DEFINE b == a \o <<Mem>>
<1> DEFINE e == b \o <<Call("Features")>>
<1> DEFINE f == e \o <<Mem>>
<1> DEFINE g == f \o <<Call("DmpOn")>>
<1> DEFINE h == g \o <<Mem>>
<1>1. Start = h
  BY DEF Start, Orientation, FifoRate
<1>2. a \in Seq(Steps) /\ Renews(a) /\ None(a, Reads)
  BY StartRenews
<1>3. /\ None(<<Mem>>, Reads) /\ None(<<Call("Features")>>, Reads) /\ None(<<Call("DmpOn")>>, Reads)
      /\ <<Mem>> \in Seq(Steps) /\ <<Call("Features")>> \in Seq(Steps) /\ <<Call("DmpOn")>> \in Seq(Steps)
  <2>1. Mem \notin Reads
    BY PairKinds DEF Mem
  <2> QED BY <2>1, AddsAre, CallKinds, OneStep DEF Adds
<1> HIDE DEF a
<1>4. b \in Seq(Steps) /\ Renews(b) /\ None(b, Reads)
  BY <1>2, <1>3, AddsAre, RenewsAdds, CatLaws
<1> HIDE DEF b
<1>5. e \in Seq(Steps) /\ Renews(e) /\ None(e, Reads)
  BY <1>3, <1>4, AddsAre, RenewsAdds, CatLaws
<1> HIDE DEF e
<1>6. f \in Seq(Steps) /\ Renews(f) /\ None(f, Reads)
  BY <1>3, <1>5, AddsAre, RenewsAdds, CatLaws
<1> HIDE DEF f
<1>7. Sets(f) /\ None(f, DmpOns)
  BY <1>6, RenewsSets DEF Renews
<1>8. g \in Seq(Steps) /\ Sets(g) /\ None(g, Reads)
  BY <1>3, <1>6, <1>7, AddsAre, SetsAdds, CatLaws
<1> HIDE DEF g
<1>9. h \in Seq(Steps) /\ Sets(h) /\ None(h, Reads)
  BY <1>3, <1>8, AddsAre, SetsAdds, CatLaws
<1> QED BY <1>1, <1>9

\* When the driver rests, what it believes is in order.
LEMMA RestIsKnown ==
    ASSUME NEW c, CfgInv(<<>>, c)
    PROVE  /\ c.int \in {"off", IF c.dmp_on THEN "dmp" ELSE "data"}
           /\ c.dmp_on => c.int # "off" /\ c.set = ForDmp
           /\ \A reg \in Settings : c.set[reg] \in Good(reg)
<1>1. \A X : None(<<>>, X)
  BY EmptyOps
<1>2. c.int \in {"off", IF c.dmp_on THEN "dmp" ELSE "data"}
  BY DEF CfgInv, IntInv
<1>3. c.dmp_on => c.int # "off"
  BY <1>1 DEF CfgInv, IntInv
<1>4. c.dmp_on => c.set = ForDmp
  BY DEF CfgInv, DmpInv
<1>5. \A reg \in Settings : c.set[reg] \in Good(reg)
  BY <1>1 DEF CfgInv, KnownInv
<1> QED BY <1>2, <1>3, <1>4, <1>5

\* mpu_run_self_test, as it is begun.
TestOps(c) ==
    (IF c.dmp_on THEN <<Call("DmpOff")>> ELSE <<>>)
    \o <<Bias(FALSE, 2), Call("Forget"),
         Setting("gyro_cfg", c.set["gyro_cfg"]), Setting("accel_cfg", c.set["accel_cfg"]),
         Setting("lpf", c.set["lpf"]), SampleRate(Rate(c.set["rate_div"])),
         Power("awake"), Call("FifoAll")>>
    \o (IF c.dmp_on THEN <<Call("DmpOn")>> ELSE <<>>)

\* The DMP may be switched off first.
LEMMA PrefixSets ==
    ASSUME NEW w \in Seq(Steps), Renews(w)
    PROVE  LET u == <<Call("DmpOff")>> \o w
           IN  u \in Seq(Steps) /\ Renews(u) /\ Led(u, Off, DmpOffs)
<1> DEFINE h == Call("DmpOff")
<1> DEFINE u == <<h>> \o w
<1>1. /\ h \in Steps /\ h \notin DmpOns /\ h # Call("IntOff") /\ h \notin Off /\ h \in DmpOffs
      /\ h # Call("Forget") /\ h \notin DmpIsS
  BY CallSteps, CallKinds
<1> SUFFICES u \in Seq(Steps) /\ Renews(u) /\ Led(u, Off, DmpOffs)
  OBVIOUS
<1> HIDE DEF h
<1>2. u \in Seq(Steps)
  BY <1>1, CatPlaces
<1>3. Led(u, Off, DmpOffs)
  BY <1>1, HeadLaws
<1>4. /\ None(u, DmpOns) /\ None(u, DmpIsS) /\ None(u, {Call("IntOff")})
      /\ Ahead(u, Restarts, DCalls \cup Modes) /\ Ahead(u, {Power("awake")}, Sleeps)
  <2>1. /\ None(w, DmpOns) /\ None(w, DmpIsS) /\ None(w, {Call("IntOff")})
        /\ Ahead(w, Restarts, DCalls \cup Modes) /\ Ahead(w, {Power("awake")}, Sleeps)
    BY DEF Renews
  <2>2. h \notin {Call("IntOff")}
    BY <1>1
  <2>3. None(u, DmpOns) /\ None(u, DmpIsS) /\ None(u, {Call("IntOff")})
    BY <1>1, <2>1, <2>2, HeadLaws
  <2>4. Ahead(u, Restarts, DCalls \cup Modes) /\ Ahead(u, {Power("awake")}, Sleeps)
    BY <1>1, <2>1, HeadLaws
  <2> QED BY <2>3, <2>4
<1>5. ASSUME NEW reg \in Settings
      PROVE  /\ Ahead(u, {Call("Forget")}, Spoils(reg))
             /\ Follows(u, {Call("Forget")}, Setters(reg))
             /\ ~None(u, Setters(reg))
  <2>1. /\ Ahead(w, {Call("Forget")}, Spoils(reg))
        /\ Follows(w, {Call("Forget")}, Setters(reg))
        /\ ~None(w, Setters(reg))
    BY DEF Renews
  <2>2. h \notin {Call("Forget")}
    BY <1>1
  <2> QED BY <1>1, <2>1, <2>2, HeadLaws
<1> QED BY <1>2, <1>3, <1>4, <1>5 DEF Renews

\* mpu_run_self_test, from what is believed at rest.
LEMMA WorkTest ==
    ASSUME NEW c, NEW k, NEW ok, WorkInv(<<>>, c, k, ok), NEW ok2, NEW k2
    PROVE  TestOps(c) \in Seq(Steps) /\ None(TestOps(c), Reads) /\ WorkInv(TestOps(c), c, k2, ok2)
<1> DEFINE b == <<Bias(FALSE, 2), Call("Forget"),
                  Setting("gyro_cfg", c.set["gyro_cfg"]), Setting("accel_cfg", c.set["accel_cfg"]),
                  Setting("lpf", c.set["lpf"]), SampleRate(Rate(c.set["rate_div"])),
                  Power("awake"), Call("FifoAll")>>
<1>1. c \in CfgType /\ CfgInv(<<>>, c) /\ c.dmp_on \in BOOLEAN
  BY CfgParts DEF WorkInv
<1>2. /\ c.int \in {"off", IF c.dmp_on THEN "dmp" ELSE "data"}
      /\ c.dmp_on => c.int # "off" /\ c.set = ForDmp
      /\ \A reg \in Settings : c.set[reg] \in Good(reg)
  BY <1>1, RestIsKnown
<1>3. b \in Seq(Steps) /\ Renews(b) /\ None(b, Reads)
  <2>1. {"gyro_cfg", "accel_cfg", "lpf", "rate_div"} \subseteq Settings
    BY DEF Settings
  <2>2. /\ c.set["gyro_cfg"] \in Good("gyro_cfg") /\ c.set["accel_cfg"] \in Good("accel_cfg")
        /\ c.set["lpf"] \in Good("lpf") /\ c.set["rate_div"] \in Good("rate_div")
    BY <1>2, <2>1
  <2>3. Rate(c.set["rate_div"]) \in {20, 50, 200}
    BY <2>2, GoodValues, DivAndFilter
  <2> HIDE DEF Rate
  <2>4. b = RestoreOps(c.set["gyro_cfg"], c.set["accel_cfg"], c.set["lpf"], Rate(c.set["rate_div"]))
    BY DEF RestoreOps
  <2> HIDE DEF b
  <2> QED BY <2>2, <2>3, <2>4, RestoreRenews
<1>d. TestOps(c) = (IF c.dmp_on THEN <<Call("DmpOff")>> ELSE <<>>) \o b
                   \o (IF c.dmp_on THEN <<Call("DmpOn")>> ELSE <<>>)
  BY DEF TestOps
<1> HIDE DEF b
<1>4. CASE c.dmp_on
  <2> DEFINE u == <<Call("DmpOff")>> \o b
  <2> DEFINE v == u \o <<Call("DmpOn")>>
  <2>1. TestOps(c) = v
    BY <1>4, <1>d
  <2>2. u \in Seq(Steps) /\ Renews(u) /\ Led(u, Off, DmpOffs)
    BY <1>3, PrefixSets
  <2>r. None(u, Reads)
    <3>1. Call("DmpOff") \in Steps /\ Call("DmpOff") \notin Reads
      BY CallSteps, CallKinds
    <3> QED BY <1>3, <3>1, HeadLaws
  <2> HIDE DEF u
  <2>3. Sets(u) /\ None(u, DmpOns)
    BY <2>2, RenewsSets DEF Renews
  <2>4. v \in Seq(Steps) /\ Sets(v)
    BY <2>2, <2>3, AddsAre, SetsAdds
  <2>5. <<Call("DmpOn")>> \in Seq(Steps) /\ None(<<Call("DmpOn")>>, Off) /\ None(<<Call("DmpOn")>>, Reads)
    BY CallSteps, CallKinds, OneStep
  <2>6. Led(v, Off, DmpOffs)
    BY <2>2, <2>5, CatLaws, NoneLed
  <2>7. None(v, Reads)
    BY <2>2, <2>r, <2>5, CatLaws
  <2> HIDE DEF v
  <2>8. CfgInv(v, c)
    BY <1>1, <1>2, <2>4, <2>6, SetsCfg
  <2> QED BY <1>1, <2>1, <2>4, <2>7, <2>8, SetsChip DEF WorkInv
<1>5. CASE ~c.dmp_on
  <2>1. TestOps(c) = (<<>> \o b) \o <<>>
    BY <1>5, <1>d
  <2>2. TestOps(c) = b
    BY <1>3, <2>1, EmptyOps, ConcatEmptySeq
  <2>3. Sets(b)
    BY <1>3, RenewsSets
  <2>4. CfgInv(b, c)
    BY <1>1, <1>2, <1>3, <1>5, <2>3, SetsCfg
  <2> QED BY <1>1, <1>3, <2>2, <2>3, <2>4, SetsChip DEF WorkInv
<1> QED BY <1>1, <1>4, <1>5

-----------------------------------------------------------------------------
(* Every step of the driver.                                                 *)

\* The head and the rest.
LEMMA HeadOf ==
    ASSUME NEW w \in Seq(Steps), w # <<>>
    PROVE  Head(w) \in Steps /\ Tail(w) \in Seq(Steps) /\ w = <<Head(w)>> \o Tail(w)
<1>1. Head(w) \in Steps /\ Tail(w) \in Seq(Steps)
  OBVIOUS
<1>2. /\ <<Head(w)>> \o Tail(w) \in Seq(Steps) /\ Len(<<Head(w)>> \o Tail(w)) = 1 + Len(Tail(w))
      /\ \A i \in 1..1 + Len(Tail(w)) :
             (<<Head(w)>> \o Tail(w))[i] = IF i <= 1 THEN <<Head(w)>>[i] ELSE Tail(w)[i - 1]
  <2>1. <<Head(w)>> \in Seq(Steps) /\ Len(<<Head(w)>>) = 1
    BY <1>1
  <2> QED BY <1>1, <2>1, ConcatProperties
<1>3. Len(w) \in Nat /\ Len(w) >= 1 /\ Len(Tail(w)) = Len(w) - 1 /\ Head(w) = w[1]
      /\ \A i \in 1..Len(w) - 1 : Tail(w)[i] = w[i + 1]
  OBVIOUS
<1> DEFINE u == <<Head(w)>> \o Tail(w)
<1>4. u \in Seq(Steps) /\ Len(u) = Len(w)
  BY <1>2, <1>3
<1>5. ASSUME NEW i \in 1..Len(w) PROVE w[i] = u[i]
  <2>1. CASE i = 1
    BY <1>2, <1>3, <2>1
  <2>2. CASE i # 1
    <3>1. i - 1 \in 1..Len(w) - 1 /\ (i - 1) + 1 = i /\ ~(i <= 1) /\ i \in 1..1 + Len(Tail(w))
      BY <1>3, <2>2
    <3> QED BY <1>2, <1>3, <3>1
  <2> QED BY <2>1, <2>2
<1> HIDE DEF u
<1>6. w = u
  BY <1>4, <1>5, SeqEqual
<1> QED BY <1>1, <1>6 DEF u

\* The first word of a step tells which it is.
LEMMA StepTags ==
    ASSUME NEW s \in Steps
    PROVE  /\ s = <<s[1], s[2]>>
           /\ s[1] \in Registers => s[2] \in Values(s[1])
           /\ s[1] = "call" =>
                s = Call(s[2]) /\ s[2] \in {"FifoAll", "FifoNone", "Forget", "DmpOn", "DmpIsOn", "DmpOff",
                                            "DmpIsOff", "IntOn", "IntOff"} \cup OtherCalls
           /\ s[1] = "set" =>
                /\ s[2].reg \in Settings /\ s[2].v \in Good(s[2].reg)
                /\ s = Setting(s[2].reg, s[2].v)
           /\ s[1] = "rate" => s = SampleRate(s[2]) /\ s[2] \in {20, 50, 200}
           /\ s[1] \in {"bias", "counted"} => s \in Biases /\ s[2] \in [hw : BOOLEAN, tries : {1, 2}]
           /\ s[1] = "bypass" => s = Bypass(s[2]) /\ s[2] \in {<<>>, <<Power("asleep")>>}
           /\ s[1] = "read" <=> s \in Reads
           /\ s[1] = "read" => s[2] \in {"count", "status", "packet"}
           /\ s[1] \in Registers \cup {"call", "set", "rate", "bypass", "read", "bias", "counted"}
<1>r. "call" \notin Registers /\ "set" \notin Registers /\ "rate" \notin Registers /\ "bypass" \notin Registers
      /\ "read" \notin Registers /\ "bias" \notin Registers /\ "counted" \notin Registers
  BY DEF Registers, Settings
<1>1. ASSUME NEW reg \in Registers, s \in Writes(reg)
      PROVE  s = <<s[1], s[2]>> /\ s[1] = reg /\ s[2] \in Values(reg)
  BY <1>1 DEF Writes
<1>2. ASSUME NEW f, s = Call(f)
      PROVE  s = <<s[1], s[2]>> /\ s[1] = "call" /\ s[2] = f
  BY <1>2 DEF Call
<1>3. ASSUME s \in Rates
      PROVE  s = <<s[1], s[2]>> /\ s[1] = "rate" /\ s[2] \in {20, 50, 200}
  BY <1>3 DEF Rates
<1>4. ASSUME s \in SetSteps
      PROVE  s = <<s[1], s[2]>> /\ s[1] = "set" /\ s[2] \in [reg : Settings, v : 0..254] /\ s[2].v \in Good(s[2].reg)
  BY <1>4 DEF SetSteps
<1>5. ASSUME s \in Biases
      PROVE  s = <<s[1], s[2]>> /\ s[1] \in {"bias", "counted"} /\ s[2] \in [hw : BOOLEAN, tries : {1, 2}]
  BY <1>5 DEF Biases
<1>6. ASSUME s \in Bypasses
      PROVE  s = <<s[1], s[2]>> /\ s[1] = "bypass" /\ s[2] \in {<<>>, <<Power("asleep")>>}
  BY <1>6 DEF Bypasses, Bypass
<1>7. ASSUME s \in Reads
      PROVE  s = <<s[1], s[2]>> /\ s[1] = "read" /\ s[2] \in {"count", "status", "packet"}
  BY <1>7 DEF Reads
<1>8. \/ \E reg \in Registers : s \in Writes(reg)
      \/ \E f \in {"FifoAll", "FifoNone", "Forget", "DmpOn", "DmpIsOn", "DmpOff",
                   "DmpIsOff", "IntOn", "IntOff"} \cup OtherCalls : s = Call(f)
      \/ s \in Rates \/ s \in SetSteps \/ s \in Biases \/ s \in Bypasses \/ s \in Reads
  BY StepKinds DEF Off, DmpOns, DmpOffs
<1>9. s = <<s[1], s[2]>>
  BY <1>1, <1>2, <1>3, <1>4, <1>5, <1>6, <1>7, <1>8
<1>10. s[1] \in Registers \cup {"call", "set", "rate", "bypass", "read", "bias", "counted"}
  BY <1>1, <1>2, <1>3, <1>4, <1>5, <1>6, <1>7, <1>8
<1>11. s[1] \in Registers => s[2] \in Values(s[1])
  BY <1>r, <1>1, <1>2, <1>3, <1>4, <1>5, <1>6, <1>7, <1>8
<1>12. s[1] = "call" =>
         s = Call(s[2]) /\ s[2] \in {"FifoAll", "FifoNone", "Forget", "DmpOn", "DmpIsOn", "DmpOff",
                                     "DmpIsOff", "IntOn", "IntOff"} \cup OtherCalls
  BY <1>r, <1>1, <1>2, <1>3, <1>4, <1>5, <1>6, <1>7, <1>8
<1>13. s[1] = "set" => s \in SetSteps
  BY <1>r, <1>1, <1>2, <1>3, <1>4, <1>5, <1>6, <1>7, <1>8
<1>14. s[1] = "set" =>
         /\ s[2].reg \in Settings /\ s[2].v \in Good(s[2].reg)
         /\ s = Setting(s[2].reg, s[2].v)
  <2> HAVE s[1] = "set"
  <2>1. s[2] \in [reg : Settings, v : 0..254] /\ s[2].v \in Good(s[2].reg)
    BY <1>13, <1>4
  <2>2. s[2] = [reg |-> s[2].reg, v |-> s[2].v]
    BY <2>1
  <2>3. s = Setting(s[2].reg, s[2].v)
    BY <1>9, <2>2 DEF Setting
  <2> QED BY <2>1, <2>3
<1>15. s[1] = "rate" => s = SampleRate(s[2]) /\ s[2] \in {20, 50, 200}
  <2>1. s[1] = "rate" => s \in Rates
    BY <1>r, <1>1, <1>2, <1>3, <1>4, <1>5, <1>6, <1>7, <1>8
  <2> QED BY <1>3, <1>9, <2>1 DEF SampleRate
<1>16. s[1] \in {"bias", "counted"} => s \in Biases /\ s[2] \in [hw : BOOLEAN, tries : {1, 2}]
  <2>1. s[1] \in {"bias", "counted"} => s \in Biases
    BY <1>r, <1>1, <1>2, <1>3, <1>4, <1>5, <1>6, <1>7, <1>8
  <2> QED BY <1>5, <2>1
<1>17. s[1] = "bypass" => s = Bypass(s[2]) /\ s[2] \in {<<>>, <<Power("asleep")>>}
  <2>1. s[1] = "bypass" => s \in Bypasses
    BY <1>r, <1>1, <1>2, <1>3, <1>4, <1>5, <1>6, <1>7, <1>8
  <2> QED BY <1>6, <1>9, <2>1 DEF Bypass
<1>18. s[1] = "read" <=> s \in Reads
  BY <1>r, <1>1, <1>2, <1>3, <1>4, <1>5, <1>6, <1>7, <1>8
<1> QED BY <1>7, <1>9, <1>10, <1>11, <1>12, <1>14, <1>15, <1>16, <1>17, <1>18

\* What the driver may begin while it rests.
LEMMA WorkQuiet ==
    ASSUME NEW c, NEW k, NEW ok, WorkInv(<<>>, c, k, ok), NEW ops \in Seq(Steps), None(ops, Marks), None(ops, Loud)
    PROVE  WorkInv(ops, c, k, ok)
<1>0. \A X, Y : None(<<>>, X) /\ ~Ahead(<<>>, X, Y)
  BY EmptyLaws
<1>1. /\ None(ops, Off) /\ None(ops, DmpOns) /\ None(ops, DmpIsS) /\ None(ops, {Call("DmpIsOn")})
      /\ None(ops, {Call("IntOff")}) /\ None(ops, {Call("IntOn"), Call("FifoAll")}) /\ None(ops, {Call("Forget")})
  BY MarkSets, Smaller
<1>2. /\ None(ops, DCalls) /\ None(ops, {Call("FifoAll")}) /\ None(ops, Modes) /\ None(ops, Sleeps)
      /\ \A reg \in Settings : None(ops, Spoils(reg))
  BY LoudSets, Smaller
<1>3. c \in CfgType /\ CfgInv(<<>>, c)
  BY DEF WorkInv
<1>k. /\ c.int \in {"off", IF c.dmp_on THEN "dmp" ELSE "data"}
      /\ c.dmp_on => c.int # "off" /\ c.set = ForDmp
      /\ \A reg \in Settings : c.set[reg] \in Good(reg)
  BY <1>3, RestIsKnown
<1>4. CfgInv(ops, c)
  <2>1. DmpInv(ops, c)
    BY <1>1, <1>k, NoneLed DEF DmpInv
  <2>2. RateInv(ops, c)
    BY <1>1 DEF RateInv
  <2>3. KnownInv(ops, c)
    BY <1>1, <1>k, NoneLed DEF KnownInv
  <2>4. IntInv(ops, c)
    BY <1>1, <1>k, NoneLed DEF IntInv
  <2> QED BY <2>1, <2>2, <2>3, <2>4 DEF CfgInv
<1>5. ASSUME ok PROVE ChipInv(ops, c, k)
  <2>0. ChipInv(<<>>, c, k)
    BY <1>5 DEF WorkInv
  <2>1. ModeInv(ops, c, k)
    <3>1. /\ Done(<<>>, "int_enable", c.int, k.int)
          /\ Done(<<>>, "user_ctrl", IF c.dmp_on THEN "dmp" ELSE "fifo", k.ctrl)
          /\ Done(<<>>, "fifo_en", IF ~c.dmp_on /\ c.fifo THEN "on" ELSE "off", IF k.raw THEN "on" ELSE "off")
      BY <1>0, <2>0 DEF ChipInv, ModeInv
    <3>2. \A reg \in {"int_enable", "user_ctrl", "fifo_en"} : None(ops, Writes(reg))
      BY <1>2, ModeWrites, Smaller
    <3>3. ASSUME NEW reg \in {"int_enable", "user_ctrl", "fifo_en"}, NEW v, NEW now, Done(<<>>, reg, v, now)
          PROVE  Done(ops, reg, v, now)
      BY <1>0, <3>2, <3>3 DEF Done
    <3>4. Order(ops, Steps \ Modes, Modes)
      BY <1>2, Smaller
    <3> QED BY <1>2, <3>1, <3>3, <3>4 DEF ModeInv
  <2>2. AwakeInv(ops, k)
    BY <1>0, <1>2, <2>0 DEF ChipInv, AwakeInv
  <2>3. ASSUME NEW reg \in Settings PROVE RegInv(ops, c, k, reg)
    BY <1>0, <1>2, <2>0 DEF ChipInv, RegInv
  <2> QED BY <2>1, <2>2, <2>3 DEF ChipInv
<1> QED BY <1>3, <1>4, <1>5 DEF WorkInv

\* Reads, and the reset they may call for, are quiet.
LEMMA ReadOps ==
    /\ \A x \in {"count", "status", "packet"} :
           /\ Read(x) \in Reads /\ Read(x) \in Steps /\ Read(x) \notin Marks /\ Read(x) \notin Loud
           /\ Read(x) \notin Modes /\ Read(x) \notin Restarts /\ Read(x) # Power("awake")
           /\ \A reg \in Settings : Read(x) \notin Spoils(reg)
    /\ Call("Reset") \in Steps /\ Call("Reset") \notin Marks /\ Call("Reset") \notin Loud /\ Call("Reset") \notin Reads
<1>1. ASSUME NEW x \in {"count", "status", "packet"}
      PROVE  /\ Read(x) \in Reads /\ Read(x) \in Steps /\ Read(x) \notin Marks /\ Read(x) \notin Loud
             /\ Read(x) \notin Modes /\ Read(x) \notin Restarts /\ Read(x) # Power("awake")
             /\ \A reg \in Settings : Read(x) \notin Spoils(reg)
  <2>1. Read(x) \in Reads
    BY DEF Reads, Read
  <2> QED BY <2>1, PlainEffects, OtherKinds
<1>2. Call("Reset") \in Steps /\ Call("Reset") \notin Marks /\ Call("Reset") \notin Loud /\ Call("Reset") \notin Reads
  BY CallSteps, CallKinds, CallEffects, OtherKinds DEF OtherCalls
<1> QED BY <1>1, <1>2

\* Reading changes nothing that the driver goes by.
LEMMA WorkReads ==
    ASSUME NEW c, NEW k, NEW ok, NEW x \in {"count", "status", "packet"}, NEW t \in Seq(Steps),
           WorkInv(<<Read(x)>> \o t, c, k, ok)
    PROVE  WorkInv(t, c, k, ok)
<1>1. c \in CfgType
  BY DEF WorkInv
<1>2. WorkInv(<<>> \o t, c, k, ok)
  BY <1>1, EmptyOps, ReadOps, WorkKeeps
<1> QED BY <1>2, EmptyOps

Reading(w, n) ==
    \/ None(w, Reads)
    \/ w = <<Read("count")>>
    \/ w \in {<<Read("status"), Read("packet")>>, <<Read("packet")>>} /\ n > 0

\* The inductive invariant: what the driver has still to do is in order, and
\* when it reads packets there is one.
ImuInv ==
    /\ chip \in ChipState /\ fifo \in 0..Capacity
    /\ {torn, overflow, pulse, event, started, clean, calm} \subseteq BOOLEAN
    /\ fate \in {"alive", "sigfpe"}
    /\ fails \in 0..MaxFails /\ lost \in 0..MaxLost /\ tests \in 0..MaxTests
    /\ WorkInv(work, cfg, chip, clean)
    /\ Reading(work, fifo)

\* The step whose turn has come, unless it is a read.
LEMMA DoingHead ==
    ASSUME ImuInv, NEW what, Doing(what), what # "read"
    PROVE  /\ Head(work) \in Steps /\ Head(work)[1] = what /\ Tail(work) \in Seq(Steps)
           /\ work = <<Head(work)>> \o Tail(work) /\ cfg \in CfgType
           /\ WorkInv(<<Head(work)>> \o Tail(work), cfg, chip, clean)
           /\ None(Tail(work), Reads)
           /\ \A ops \in Seq(Steps) : None(ops, Reads) => None(ops \o Tail(work), Reads)
<1>1. work \in Seq(Steps) /\ cfg \in CfgType /\ work # <<>> /\ Head(work)[1] = what
  BY DEF ImuInv, WorkInv, Doing
<1>2. Head(work) \in Steps /\ Tail(work) \in Seq(Steps) /\ work = <<Head(work)>> \o Tail(work)
  BY <1>1, HeadOf
<1>3. Head(work) \notin Reads
  BY <1>1, <1>2, StepTags
<1>4. None(work, Reads)
  <2>1. \A x \in {"count", "status", "packet"} : Read(x) \in Reads
    BY ReadOps
  <2>2. CASE work = <<Read("count")>>
    <3>1. Head(work) = Read("count")
      BY <2>2
    <3> QED BY <1>3, <2>1, <3>1
  <2>3. CASE work = <<Read("status"), Read("packet")>>
    <3>1. Head(work) = Read("status")
      BY <2>3
    <3> QED BY <1>3, <2>1, <3>1
  <2>4. CASE work = <<Read("packet")>>
    <3>1. Head(work) = Read("packet")
      BY <2>4
    <3> QED BY <1>3, <2>1, <3>1
  <2> QED BY <2>2, <2>3, <2>4 DEF ImuInv, Reading
<1>5. None(Tail(work), Reads)
  <2>1. None(<<Head(work)>> \o Tail(work), Reads)
    BY <1>2, <1>4
  <2> QED BY <1>2, <2>1, HeadLaws
<1>6. WorkInv(<<Head(work)>> \o Tail(work), cfg, chip, clean)
  <2>1. WorkInv(work, cfg, chip, clean)
    BY DEF ImuInv
  <2> QED BY <1>2, <2>1
<1>7. ASSUME NEW ops \in Seq(Steps), None(ops, Reads) PROVE None(ops \o Tail(work), Reads)
  BY <1>2, <1>5, <1>7, CatLaws
<1> QED BY <1>1, <1>2, <1>5, <1>6, <1>7

\* The call whose turn has come.
LEMMA CallHead ==
    ASSUME ImuInv, NEW f, Calls(f)
    PROVE  /\ Tail(work) \in Seq(Steps) /\ cfg \in CfgType /\ None(Tail(work), Reads)
           /\ WorkInv(<<Call(f)>> \o Tail(work), cfg, chip, clean)
           /\ \A ops \in Seq(Steps) : None(ops, Reads) => None(ops \o Tail(work), Reads)
<1>1. Doing("call") /\ Head(work)[2] = f
  BY DEF Calls, Arg
<1>2. /\ Head(work) \in Steps /\ Head(work)[1] = "call" /\ Tail(work) \in Seq(Steps) /\ cfg \in CfgType
      /\ None(Tail(work), Reads)
      /\ WorkInv(<<Head(work)>> \o Tail(work), cfg, chip, clean)
      /\ \A ops \in Seq(Steps) : None(ops, Reads) => None(ops \o Tail(work), Reads)
  <2>1. "call" # "read"
    OBVIOUS
  <2> QED BY <1>1, <2>1, DoingHead
<1>3. Head(work) = Call(f)
  BY <1>1, <1>2, StepTags
<1> QED BY <1>2, <1>3

\* Call after call: what is left to do is in order again.
LEMMA SetIntGoes ==
    ASSUME ImuInv, NEW on \in BOOLEAN, SetInt(on)
    PROVE  WorkInv(work', cfg', chip, clean) /\ None(work', Reads)
<1> DEFINE f == IF on THEN "IntOn" ELSE "IntOff"
<1> DEFINE t == Tail(work)
<1> DEFINE v == IF ~on THEN "off" ELSE IF cfg.dmp_on THEN "dmp" ELSE "data"
<1>1. Calls(f)
  BY DEF SetInt
<1>2. /\ t \in Seq(Steps) /\ cfg \in CfgType /\ None(t, Reads) /\ WorkInv(<<Call(f)>> \o t, cfg, chip, clean)
      /\ \A ops \in Seq(Steps) : None(ops, Reads) => None(ops \o t, Reads)
  BY <1>1, CallHead
<1>3. CASE on /\ ~cfg.dmp_on /\ cfg.int # "off"
  <2>1. work' = <<>> \o t /\ cfg' = cfg
    BY <1>3 DEF SetInt, Then
  <2>2. WorkInv(t, cfg, chip, clean)
    <3>1. WorkInv(<<Call("IntOn")>> \o t, cfg, chip, clean) /\ cfg.dmp_on = FALSE
      BY <1>2, <1>3, CfgParts
    <3> QED BY <1>2, <1>3, <3>1, WorkIntAgain
  <2> QED BY <1>2, <2>1, <2>2, EmptyOps
<1>4. CASE ~(on /\ ~cfg.dmp_on /\ cfg.int # "off")
  <2>1. work' = <<IntEn(v)>> \o t /\ cfg' = [cfg EXCEPT !.int = v]
    BY <1>4 DEF SetInt, Then
  <2>2. cfg' \in CfgType /\ cfg'.int = v /\ cfg'.dmp_on = cfg.dmp_on /\ cfg'.set = cfg.set
    BY <1>2, <2>1 DEF CfgType
  <2>3. v \in {"off", "data", "dmp"}
    OBVIOUS
  <2>v. v = IF ~on THEN "off" ELSE IF cfg.dmp_on THEN "dmp" ELSE "data"
    OBVIOUS
  <2>f. WorkInv(<<Call(IF on THEN "IntOn" ELSE "IntOff")>> \o t, cfg, chip, clean)
    BY <1>2
  <2> HIDE DEF v, f
  <2>4. <<IntEn(v)>> \in Seq(Steps) /\ None(<<IntEn(v)>>, Reads) /\ WorkInv(<<IntEn(v)>> \o t, cfg', chip, clean)
    BY <1>2, <2>2, <2>3, <2>v, <2>f, WorkInt
  <2> QED BY <1>2, <2>1, <2>4
<1> QED BY <1>3, <1>4

LEMMA ConfigureFifoGoes ==
    ASSUME ImuInv, NEW all \in BOOLEAN, ConfigureFifo(all)
    PROVE  WorkInv(work', cfg', chip, clean) /\ None(work', Reads)
<1> DEFINE f == IF all THEN "FifoAll" ELSE "FifoNone"
<1> DEFINE t == Tail(work)
<1> DEFINE d == [cfg EXCEPT !.fifo = all]
<1>1. Calls(f)
  BY DEF ConfigureFifo
<1>2. /\ t \in Seq(Steps) /\ cfg \in CfgType /\ None(t, Reads) /\ WorkInv(<<Call(f)>> \o t, cfg, chip, clean)
      /\ \A ops \in Seq(Steps) : None(ops, Reads) => None(ops \o t, Reads)
  BY <1>1, CallHead
<1>3. d \in CfgType /\ d.int = cfg.int /\ d.dmp_on = cfg.dmp_on /\ d.set = cfg.set
  BY <1>2 DEF CfgType
<1>4. CASE all
  <2>0. WorkInv(<<Call("FifoAll")>> \o t, cfg, chip, clean)
    BY <1>2, <1>4
  <2> DEFINE ops == <<Call("IntOn"), Call("Reset")>>
  <2>1. cfg.dmp_on => work' = <<>> \o t /\ cfg' = cfg
    BY DEF ConfigureFifo, Then
  <2>2. ~cfg.dmp_on => work' = ops \o t /\ cfg' = d
    BY <1>4 DEF ConfigureFifo, Then
  <2>c. Call("IntOn") \notin Reads /\ Call("Reset") \notin Reads
    BY CallKinds
  <2>3. None(ops, Reads)
    BY <2>c, TwoLaws
  <2> HIDE DEF d
  <2>4. cfg.dmp_on = FALSE /\ ops \in Seq(Steps) /\ WorkInv(ops \o t, d, chip, clean)
    BY <1>2, <1>3, <2>0, WorkFifoAll
  <2> QED BY <1>2, <2>2, <2>3, <2>4
<1>5. CASE ~all
  <2>0. WorkInv(<<Call("FifoNone")>> \o t, cfg, chip, clean)
    BY <1>2, <1>5
  <2> DEFINE ops == <<Call("IntOff")>>
  <2>2. ~cfg.dmp_on => work' = ops \o t /\ cfg' = d
    BY <1>5 DEF ConfigureFifo, Then
  <2>3. None(ops, Reads)
    BY CallKinds, OneStep
  <2> HIDE DEF d
  <2>4. cfg.dmp_on = FALSE /\ ops \in Seq(Steps) /\ WorkInv(ops \o t, d, chip, clean)
    BY <1>2, <1>3, <2>0, WorkFifoNone
  <2> QED BY <1>2, <2>2, <2>3, <2>4
<1> QED BY <1>4, <1>5

LEMMA DmpIsGoes ==
    ASSUME ImuInv, NEW on \in BOOLEAN, DmpIs(on)
    PROVE  WorkInv(work', cfg', chip, clean) /\ None(work', Reads)
<1> DEFINE f == IF on THEN "DmpIsOn" ELSE "DmpIsOff"
<1> DEFINE t == Tail(work)
<1>1. Calls(f)
  BY DEF DmpIs
<1>2. /\ t \in Seq(Steps) /\ cfg \in CfgType /\ None(t, Reads) /\ WorkInv(<<Call(f)>> \o t, cfg, chip, clean)
  BY <1>1, CallHead
<1>3. work' = <<>> \o t /\ cfg' = [cfg EXCEPT !.dmp_on = on]
  BY DEF DmpIs, Then
<1>4. cfg' \in CfgType /\ cfg'.dmp_on = on /\ cfg'.int = cfg.int /\ cfg'.set = cfg.set
  BY <1>2, <1>3 DEF CfgType
<1>5. WorkInv(t, cfg', chip, clean)
  BY <1>2, <1>4, WorkDmpIs
<1> QED BY <1>2, <1>3, <1>5, EmptyOps

LEMMA ForgetGoes ==
    ASSUME ImuInv, Forget
    PROVE  WorkInv(work', cfg', chip, clean) /\ None(work', Reads)
<1> DEFINE t == Tail(work)
<1>1. Calls("Forget")
  BY DEF Forget
<1>2. /\ t \in Seq(Steps) /\ cfg \in CfgType /\ None(t, Reads)
      /\ WorkInv(<<Call("Forget")>> \o t, cfg, chip, clean)
  BY <1>1, CallHead
<1>3. work' = <<>> \o t /\ cfg' = [cfg EXCEPT !.set = [reg \in Settings |-> Unknown]]
  BY DEF Forget, Then
<1>4. /\ cfg' \in CfgType /\ cfg'.dmp_on = cfg.dmp_on /\ cfg'.int = cfg.int /\ cfg'.fifo = cfg.fifo
      /\ \A r \in Settings : cfg'.set[r] = Unknown
  <2> DEFINE s == [reg \in Settings |-> Unknown]
  <2>1. s \in [Settings -> 0..255] /\ \A r \in Settings : s[r] = Unknown
    BY DEF Unknown
  <2>2. cfg' = [cfg EXCEPT !.set = s]
    BY <1>3
  <2> HIDE DEF s
  <2>3. /\ cfg' \in CfgType /\ cfg'.dmp_on = cfg.dmp_on /\ cfg'.int = cfg.int /\ cfg'.fifo = cfg.fifo
        /\ cfg'.set = s
    BY <1>2, <2>1, <2>2 DEF CfgType
  <2> QED BY <2>1, <2>3
<1>5. WorkInv(t, cfg', chip, clean)
  BY <1>2, <1>4, WorkForget
<1> QED BY <1>2, <1>3, <1>5, EmptyOps

LEMMA SetGoes ==
    ASSUME ImuInv, Set
    PROVE  WorkInv(work', cfg', chip, clean) /\ None(work', Reads)
<1> DEFINE h == Head(work)
<1> DEFINE t == Tail(work)
<1> DEFINE reg == h[2].reg
<1> DEFINE v == h[2].v
<1>1. Doing("set") /\ "set" # "read"
  BY DEF Set
<1>2. /\ h \in Steps /\ h[1] = "set" /\ t \in Seq(Steps) /\ cfg \in CfgType /\ None(t, Reads)
      /\ WorkInv(<<h>> \o t, cfg, chip, clean)
      /\ \A ops \in Seq(Steps) : None(ops, Reads) => None(ops \o t, Reads)
  BY <1>1, DoingHead
<1>3. reg \in Settings /\ v \in Good(reg) /\ h = Setting(reg, v)
  BY <1>2, StepTags
<1>4. \/ cfg.set[reg] = v /\ work' = <<>> \o t /\ cfg' = cfg
      \/ work' = <<<<reg, v>>>> \o t /\ cfg' = CfgTo(cfg, reg, v)
  BY DEF Set, Then, Arg, CfgTo
<1> HIDE DEF h, t, reg, v
<1>5. WorkInv(<<Setting(reg, v)>> \o t, cfg, chip, clean)
  BY <1>2, <1>3
<1>6. CASE cfg.set[reg] = v /\ work' = <<>> \o t /\ cfg' = cfg
  <2>1. WorkInv(t, cfg, chip, clean)
    BY <1>2, <1>3, <1>5, <1>6, WorkSetSkip
  <2> QED BY <1>2, <1>6, <2>1, EmptyOps
<1>7. CASE work' = <<<<reg, v>>>> \o t /\ cfg' = CfgTo(cfg, reg, v)
  <2>1. /\ <<<<reg, v>>>> \in Seq(Steps) /\ None(<<<<reg, v>>>>, Reads)
        /\ WorkInv(<<<<reg, v>>>> \o t, CfgTo(cfg, reg, v), chip, clean)
    BY <1>2, <1>3, <1>5, WorkSet
  <2> QED BY <1>2, <1>7, <2>1
<1> QED BY <1>4, <1>6, <1>7

\* The three rates with their dividers.
LEMMA RateCases ==
    ASSUME NEW hz \in {20, 50, 200}
    PROVE  LET div == 1000 \div hz - 1
           IN  RateCase(hz, div, Lpf(Rate(div) \div 2)) /\ Lpf(Rate(div) \div 2) \in 1..6
<1> DEFINE div == 1000 \div hz - 1
<1>1. Lpf(Rate(div) \div 2) \in 1..6
  BY DivAndFilter
<1>2. <<hz, div>> \in {<<20, 49>>, <<50, 19>>, <<200, 4>>}
  OBVIOUS
<1>3. hz = 200 => Lpf(Rate(div) \div 2) = Lpf(100)
  <2> HAVE hz = 200
  <2>1. div = 4
    BY DivAndFilter
  <2>2. Rate(div) \div 2 = 100
    BY <2>1, DivAndFilter
  <2> QED BY <2>2
<1> QED BY <1>1, <1>2, <1>3 DEF RateCase

LEMMA SetSampleRateGoes ==
    ASSUME ImuInv, SetSampleRate
    PROVE  WorkInv(work', cfg', chip, clean) /\ None(work', Reads)
<1> DEFINE h == Head(work)
<1> DEFINE t == Tail(work)
<1> DEFINE hz == h[2]
<1> DEFINE div == 1000 \div hz - 1
<1> DEFINE f == Lpf(Rate(div) \div 2)
<1>1. Doing("rate") /\ "rate" # "read"
  BY DEF SetSampleRate
<1>2. /\ h \in Steps /\ h[1] = "rate" /\ t \in Seq(Steps) /\ cfg \in CfgType /\ None(t, Reads)
      /\ WorkInv(<<h>> \o t, cfg, chip, clean)
      /\ \A ops \in Seq(Steps) : None(ops, Reads) => None(ops \o t, Reads)
  BY <1>1, DoingHead
<1>3. hz \in {20, 50, 200} /\ h = SampleRate(hz)
  BY <1>2, StepTags
<1>4. ~cfg.dmp_on => work' = RateWork(div, f) \o t /\ cfg' = CfgTo(cfg, "rate_div", div)
  BY DEF SetSampleRate, Then, Arg, CfgTo, RateWork
<1>5. RateCase(hz, div, f) /\ f \in 1..6
  BY <1>3, RateCases
<1> HIDE DEF h, t, hz, div, f
<1>6. WorkInv(<<SampleRate(hz)>> \o t, cfg, chip, clean)
  BY <1>2, <1>3
<1>7. /\ cfg.dmp_on = FALSE /\ RateWork(div, f) \in Seq(Steps) /\ None(RateWork(div, f), Reads)
      /\ WorkInv(RateWork(div, f) \o t, CfgTo(cfg, "rate_div", div), chip, clean)
  BY <1>2, <1>5, <1>6, WorkRate
<1> QED BY <1>2, <1>4, <1>7

LEMMA DmpOnGoes ==
    ASSUME ImuInv, DmpOn
    PROVE  WorkInv(work', cfg', chip, clean) /\ None(work', Reads)
<1> DEFINE t == Tail(work)
<1>1. Calls("DmpOn")
  BY DEF DmpOn
<1>2. /\ t \in Seq(Steps) /\ cfg \in CfgType /\ None(t, Reads) /\ WorkInv(<<Call("DmpOn")>> \o t, cfg, chip, clean)
      /\ \A ops \in Seq(Steps) : None(ops, Reads) => None(ops \o t, Reads)
  BY <1>1, CallHead
<1>3. cfg' = cfg
  BY DEF DmpOn
<1>4. CASE cfg.dmp_on \/ ~cfg.loaded
  <2>1. work' = <<>> \o t
    BY <1>4 DEF DmpOn, Then
  <2> QED BY <1>2, <1>3, <2>1, EmptyOps, WorkDmpOnSkip
<1>5. CASE ~(cfg.dmp_on \/ ~cfg.loaded)
  <2>1. work' = OnOps \o t
    BY <1>5 DEF DmpOn, Then, OnOps
  <2>2. cfg.dmp_on = FALSE
    BY <1>2, <1>5, CfgParts
  <2>3. OnOps \in Seq(Steps) /\ None(OnOps, Reads) /\ WorkInv(OnOps \o t, cfg, chip, clean)
    BY <1>2, <2>2, WorkDmpOn
  <2> QED BY <1>2, <1>3, <2>1, <2>3
<1> QED BY <1>4, <1>5

LEMMA DmpOffGoes ==
    ASSUME ImuInv, DmpOff
    PROVE  WorkInv(work', cfg', chip, clean) /\ None(work', Reads)
<1> DEFINE t == Tail(work)
<1>1. Calls("DmpOff")
  BY DEF DmpOff
<1>2. /\ t \in Seq(Steps) /\ cfg \in CfgType /\ None(t, Reads) /\ WorkInv(<<Call("DmpOff")>> \o t, cfg, chip, clean)
      /\ \A ops \in Seq(Steps) : None(ops, Reads) => None(ops \o t, Reads)
  BY <1>1, CallHead
<1>3. cfg' = cfg /\ work' = OffOps(cfg.fifo) \o t
  BY DEF DmpOff, Then, OffOps
<1>4. cfg.fifo \in BOOLEAN
  BY <1>2, CfgParts
<1>5. /\ OffOps(cfg.fifo) \in Seq(Steps) /\ None(OffOps(cfg.fifo), Reads)
      /\ WorkInv(OffOps(cfg.fifo) \o t, cfg, chip, clean)
  BY <1>2, <1>4, WorkDmpOff
<1> QED BY <1>2, <1>3, <1>5

LEMMA ExpandGoes ==
    ASSUME ImuInv, Expand
    PROVE  WorkInv(work', cfg', chip, clean) /\ None(work', Reads)
<1> DEFINE t == Tail(work)
<1>0. cfg' = cfg
  BY DEF Expand
<1>1. CASE Calls("Reset") /\ Then(Reset)
  <2>1. work' = ResetOps(cfg) \o t
    BY <1>1 DEF Then, Reset, ResetOps
  <2>2. /\ t \in Seq(Steps) /\ WorkInv(<<Call("Reset")>> \o t, cfg, chip, clean)
        /\ \A ops \in Seq(Steps) : None(ops, Reads) => None(ops \o t, Reads)
    BY <1>1, CallHead
  <2>3. /\ ResetOps(cfg) \in Seq(Steps) /\ None(ResetOps(cfg), Reads)
        /\ WorkInv(ResetOps(cfg) \o t, cfg, chip, clean)
    BY <2>2, WorkReset
  <2> QED BY <1>0, <2>1, <2>2, <2>3
<1>2. CASE Calls("Features") /\ Then(Features)
  <2>1. work' = Features \o t
    BY <1>2 DEF Then
  <2>2. /\ t \in Seq(Steps) /\ cfg \in CfgType /\ WorkInv(<<Call("Features")>> \o t, cfg, chip, clean)
        /\ \A ops \in Seq(Steps) : None(ops, Reads) => None(ops \o t, Reads)
    BY <1>2, CallHead
  <2>3. WorkInv(Features \o t, cfg, chip, clean)
    BY <2>2, FeaturesOps, WorkPlain
  <2> QED BY <1>0, <2>1, <2>2, <2>3, FeaturesOps
<1>3. CASE Doing("bias") /\ Then(BiasWork(Arg))
  <2> DEFINE h == Head(work)
  <2> DEFINE ops == BiasWork(h[2])
  <2>0. "bias" # "read"
    OBVIOUS
  <2>1. work' = ops \o t
    BY <1>3 DEF Then, Arg
  <2>2. /\ h \in Steps /\ h[1] = "bias" /\ t \in Seq(Steps) /\ cfg \in CfgType /\ None(t, Reads)
        /\ WorkInv(<<h>> \o t, cfg, chip, clean)
        /\ \A w \in Seq(Steps) : None(w, Reads) => None(w \o t, Reads)
    BY <1>3, <2>0, DoingHead
  <2>3. h \in Biases /\ h[2] \in [hw : BOOLEAN, tries : {1, 2}]
    BY <2>2, StepTags
  <2>4. ops \in Seq(Tests)
    BY <2>3, BiasWorkOps
  <2> HIDE DEF ops, h
  <2>5. ops \in Seq(Steps) /\ None(ops, Marks \ Biases) /\ None(ops, Sleeps) /\ None(ops, Reads)
    BY <2>4, TestsOps
  <2>6. WorkInv(ops \o t, cfg, chip, clean)
    BY <2>2, <2>3, <2>5, WorkBias
  <2> QED BY <1>0, <2>1, <2>2, <2>5, <2>6
<1> QED BY <1>1, <1>2, <1>3 DEF Expand

LEMMA StartedGoes ==
    ASSUME ImuInv, Started
    PROVE  WorkInv(work', cfg', chip, clean) /\ None(work', Reads)
<1> DEFINE t == Tail(work)
<1>1. Calls("Started") /\ work' = <<>> \o t /\ cfg' = cfg
  BY DEF Started, Then
<1>2. /\ t \in Seq(Steps) /\ cfg \in CfgType /\ None(t, Reads) /\ WorkInv(<<Call("Started")>> \o t, cfg, chip, clean)
  BY <1>1, CallHead
<1>3. WorkInv(<<>> \o t, cfg, chip, clean)
  BY <1>2, EmptyOps, WorkPlain
<1> QED BY <1>1, <1>2, <1>3, EmptyOps

\* The invariant is kept: by the calls,
LEMMA CallStepKeeps ==
    ASSUME ImuInv, CallStep
    PROVE  ImuInv'
<1>1. /\ UNCHANGED <<chip, fifo, torn, overflow, pulse>>
      /\ UNCHANGED <<event, fate, clean, calm>> /\ UNCHANGED <<fails, lost, tests>>
  BY DEF CallStep, chipVars, counters
<1>2. WorkInv(work', cfg', chip, clean) /\ None(work', Reads)
  BY SetIntGoes, ConfigureFifoGoes, DmpIsGoes, DmpOnGoes, DmpOffGoes, ForgetGoes, SetGoes,
     SetSampleRateGoes, ExpandGoes, StartedGoes DEF CallStep
<1>3. started \in BOOLEAN
  BY DEF ImuInv
<1>4. started' \in BOOLEAN
  BY <1>3 DEF CallStep, SetInt, ConfigureFifo, DmpIs, DmpOn, DmpOff, Forget, Set, SetSampleRate, Expand, Started
<1> QED BY <1>1, <1>2, <1>4 DEF ImuInv, Reading

\* A chip that was reset.
LEMMA AsleepIsChip == Asleep \in ChipState
BY DEF Asleep, ChipState

\* A write that arrives leaves a chip.
LEMMA WrittenChip ==
    ASSUME chip \in ChipState, NEW reg \in Registers, NEW v \in Values(reg), Written(reg, v)
    PROVE  /\ chip' \in ChipState
           /\ \/ reg = "pwr_mgmt" /\ v = "reset"
              \/ /\ chip'.int = IF reg = "int_enable" THEN v ELSE chip.int
                 /\ chip'.ctrl = IF reg = "user_ctrl" THEN IF v = "reset" THEN "off" ELSE v ELSE chip.ctrl
                 /\ chip'.raw = IF reg = "fifo_en" THEN v = "on" ELSE chip.raw
                 /\ chip'.awake = IF reg = "pwr_mgmt" THEN v = "awake" ELSE chip.awake
                 /\ \A r \in Settings : chip'.set[r] = IF r = reg THEN v ELSE chip.set[r]
           /\ fifo' \in {0, fifo} /\ torn' \in {FALSE, torn}
<1>f. fifo' \in {0, fifo} /\ torn' \in {FALSE, torn}
  BY DEF Written
<1>r. "int_enable" \notin Settings /\ "user_ctrl" \notin Settings /\ "fifo_en" \notin Settings
      /\ "pwr_mgmt" \notin Settings /\ "mem" \notin Settings
  BY DEF Settings
<1>1. CASE reg = "int_enable"
  <2>1. chip' = [chip EXCEPT !.int = v] /\ v \in {"off", "data", "dmp"}
    BY <1>1, <1>r, ModeValues DEF Written
  <2> QED BY <1>1, <1>f, <1>r, <2>1 DEF ChipState
<1>2. CASE reg = "fifo_en"
  <2>1. chip' = [chip EXCEPT !.raw = (v = "on")]
    BY <1>2, <1>r DEF Written
  <2> QED BY <1>2, <1>f, <1>r, <2>1 DEF ChipState
<1>3. CASE reg = "user_ctrl"
  <2>1. chip' = [chip EXCEPT !.ctrl = IF v = "reset" THEN "off" ELSE v] /\ v \in {"off", "fifo", "dmp", "reset"}
    BY <1>3, <1>r, ModeValues DEF Written
  <2> QED BY <1>3, <1>f, <1>r, <2>1 DEF ChipState
<1>4. CASE reg = "pwr_mgmt" /\ v # "reset"
  <2>1. chip' = [chip EXCEPT !.awake = (v = "awake")]
    BY <1>4, <1>r DEF Written
  <2> QED BY <1>4, <1>f, <1>r, <2>1 DEF ChipState
<1>5. CASE reg = "pwr_mgmt" /\ v = "reset"
  <2>1. chip' = Asleep
    BY <1>5, <1>r DEF Written
  <2> QED BY <1>5, <1>f, <2>1, AsleepIsChip
<1>6. CASE reg = "mem"
  <2>1. chip' = chip
    BY <1>6, <1>r DEF Written
  <2> QED BY <1>6, <1>f, <1>r, <2>1
<1>7. CASE reg \in Settings
  <2> DEFINE s == [chip.set EXCEPT ![reg] = v]
  <2>1. chip' = [chip EXCEPT !.set = s] /\ v \in 0..254
    <3>1. chip' = [chip EXCEPT !.set[reg] = v]
      BY <1>7, <1>r DEF Written
    <3> QED BY <1>7, <3>1, ModeValues
  <2>2. chip.set \in [Settings -> 0..255]
    BY DEF ChipState
  <2>3. s \in [Settings -> 0..255] /\ \A r \in Settings : s[r] = IF r = reg THEN v ELSE chip.set[r]
    BY <1>7, <2>1, <2>2
  <2> HIDE DEF s
  <2>4. /\ chip' \in ChipState /\ chip'.set = s /\ chip'.int = chip.int /\ chip'.ctrl = chip.ctrl
        /\ chip'.raw = chip.raw /\ chip'.awake = chip.awake
    BY <2>1, <2>3 DEF ChipState
  <2> QED BY <1>7, <1>f, <1>r, <2>3, <2>4
<1> QED BY <1>1, <1>2, <1>3, <1>4, <1>5, <1>6, <1>7 DEF Registers

\* by writes, arrived or lost,
LEMMA WriteKeeps ==
    ASSUME ImuInv, Write
    PROVE  ImuInv'
<1> DEFINE h == Head(work)
<1> DEFINE t == Tail(work)
<1>0. PICK reg \in Registers :
         /\ Doing(reg)
         /\ \/ Written(reg, Arg) /\ UNCHANGED <<clean, lost>>
            \/ /\ lost < MaxLost /\ lost' = lost + 1 /\ clean' = FALSE
               /\ chip' = [chip EXCEPT !.prog = @ /\ reg # "mem"]
               /\ UNCHANGED <<fifo, torn>>
  BY DEF Write
<1>1. work' = <<>> \o t /\ UNCHANGED <<overflow, pulse, event, cfg, started, fate, calm, fails, tests>>
  BY DEF Write, Then
<1>2. reg # "read"
  BY DEF Registers, Settings
<1>3. /\ h \in Steps /\ h[1] = reg /\ t \in Seq(Steps) /\ None(t, Reads)
      /\ WorkInv(<<h>> \o t, cfg, chip, clean)
  BY <1>0, <1>2, DoingHead
<1>4. work' = t
  BY <1>1, <1>3, EmptyOps
<1> DEFINE v == h[2]
<1>5. h = <<reg, v>> /\ v \in Values(reg) /\ Arg = v
  BY <1>3, StepTags DEF Arg
<1> HIDE DEF h, t, v
<1>6. WorkInv(<<<<reg, v>>>> \o t, cfg, chip, clean)
  BY <1>3, <1>5
<1>7. /\ chip \in ChipState /\ fifo \in 0..Capacity
      /\ {torn, overflow, pulse, event, started, clean, calm} \subseteq BOOLEAN
      /\ fate \in {"alive", "sigfpe"}
      /\ fails \in 0..MaxFails /\ lost \in 0..MaxLost /\ tests \in 0..MaxTests
      /\ Capacity \in Nat /\ MaxLost \in Nat
  BY CapacityAssumption, BoundsAssumption DEF ImuInv
<1>8. CASE Written(reg, v) /\ UNCHANGED <<clean, lost>>
  <2>1. /\ chip' \in ChipState /\ fifo' \in {0, fifo} /\ torn' \in {FALSE, torn}
        /\ \/ reg = "pwr_mgmt" /\ v = "reset"
           \/ /\ chip'.int = IF reg = "int_enable" THEN v ELSE chip.int
              /\ chip'.ctrl = IF reg = "user_ctrl" THEN IF v = "reset" THEN "off" ELSE v ELSE chip.ctrl
              /\ chip'.raw = IF reg = "fifo_en" THEN v = "on" ELSE chip.raw
              /\ chip'.awake = IF reg = "pwr_mgmt" THEN v = "awake" ELSE chip.awake
              /\ \A r \in Settings : chip'.set[r] = IF r = reg THEN v ELSE chip.set[r]
    BY <1>5, <1>7, <1>8, WrittenChip
  <2>2. WorkInv(t, cfg, chip', clean)
    BY <1>3, <1>5, <1>6, <2>1, WorkWrite
  <2>3. fifo' \in 0..Capacity /\ torn' \in BOOLEAN
    <3>1. fifo' = 0 \/ fifo' = fifo
      BY <2>1
    <3>2. fifo' \in 0..Capacity
      BY <1>7, <3>1
    <3>3. torn' = FALSE \/ torn' = torn
      BY <2>1
    <3>4. torn \in BOOLEAN
      BY <1>7
    <3> QED BY <3>2, <3>3, <3>4
  <2> QED BY <1>1, <1>3, <1>4, <1>7, <1>8, <2>1, <2>2, <2>3 DEF ImuInv, Reading
<1>9. CASE /\ lost < MaxLost /\ lost' = lost + 1 /\ clean' = FALSE
           /\ chip' = [chip EXCEPT !.prog = @ /\ reg # "mem"]
           /\ UNCHANGED <<fifo, torn>>
  <2>1. chip' \in ChipState
    <3> DEFINE p == chip.prog /\ reg # "mem"
    <3>1. chip' = [chip EXCEPT !.prog = p]
      BY <1>9
    <3>2. p \in BOOLEAN
      OBVIOUS
    <3> HIDE DEF p
    <3> QED BY <1>7, <3>1, <3>2 DEF ChipState
  <2>2. WorkInv(t, cfg, chip', FALSE)
    BY <1>3, <1>5, <1>6, WorkLost
  <2>3. lost' \in 0..MaxLost
    BY <1>7, <1>9
  <2> QED BY <1>1, <1>3, <1>4, <1>7, <1>9, <2>1, <2>2, <2>3 DEF ImuInv, Reading
<1> QED BY <1>0, <1>5, <1>8, <1>9

\* by the bypass,
LEMMA BypassOffKeeps ==
    ASSUME ImuInv, BypassOff
    PROVE  ImuInv'
<1> DEFINE h == Head(work)
<1> DEFINE t == Tail(work)
<1> DEFINE rest == h[2]
<1>1. /\ UNCHANGED <<chip, fifo, torn, overflow, pulse>>
      /\ UNCHANGED <<event, started, fate, clean, calm, lost, tests>>
  BY DEF BypassOff, chipVars
<1>2. Doing("bypass") /\ "bypass" # "read"
  BY DEF BypassOff
<1>3. /\ h \in Steps /\ h[1] = "bypass" /\ t \in Seq(Steps) /\ cfg \in CfgType /\ None(t, Reads)
      /\ WorkInv(<<h>> \o t, cfg, chip, clean)
      /\ \A ops \in Seq(Steps) : None(ops, Reads) => None(ops \o t, Reads)
  BY <1>2, DoingHead
<1>4. h = Bypass(rest) /\ rest \in {<<>>, <<Power("asleep")>>}
  BY <1>3, StepTags
<1>5. /\ \/ work' = rest \o t
         \/ work' = <<>> \o t
         \/ work' = (<<Ctrl(chip.ctrl)>> \o rest) \o t
      /\ cfg' = cfg \/ cfg' = [cfg EXCEPT !.bypass = TRUE]
      /\ fails' = fails \/ (fails < MaxFails /\ fails' = fails + 1)
  BY DEF BypassOff, Then, Arg, ReadFails
<1> HIDE DEF h, t, rest
<1>6. cfg' \in CfgType /\ cfg'.dmp_on = cfg.dmp_on /\ cfg'.int = cfg.int /\ cfg'.fifo = cfg.fifo /\ cfg'.set = cfg.set
  BY <1>3, <1>5 DEF CfgType
<1>7. chip.ctrl \in {"off", "fifo", "dmp"}
  BY DEF ImuInv, ChipState
<1>8. PICK ops \in {<<>>, rest, <<Ctrl(chip.ctrl)>> \o rest} : work' = ops \o t
  BY <1>5
<1>9. WorkInv(<<Bypass(rest)>> \o t, cfg, chip, clean)
  BY <1>3, <1>4
<1>10. ops \in Seq(Steps) /\ None(ops, Reads) /\ WorkInv(ops \o t, cfg', chip, clean)
  <2>1. rest \in {<<>>, <<Power("asleep")>>}
    BY <1>4
  <2>2. t \in Seq(Steps) /\ cfg' \in CfgType
    BY <1>3, <1>6
  <2>3. cfg'.dmp_on = cfg.dmp_on /\ cfg'.int = cfg.int /\ cfg'.fifo = cfg.fifo /\ cfg'.set = cfg.set
    BY <1>6
  <2>4. ops \in BypassOps(rest, chip.ctrl)
    BY <1>8 DEF BypassOps
  <2> QED BY <1>7, <1>9, <2>1, <2>2, <2>3, <2>4, WorkBypass
<1>11. WorkInv(work', cfg', chip, clean) /\ None(work', Reads)
  BY <1>3, <1>8, <1>10
<1>12. fails' \in 0..MaxFails
  BY <1>5, BoundsAssumption DEF ImuInv
<1> QED BY <1>1, <1>11, <1>12 DEF ImuInv, Reading

\* by the loading of the DMP,
LEMMA LoadKeeps ==
    ASSUME ImuInv, Load
    PROVE  ImuInv'
<1> DEFINE t == Tail(work)
<1>1. UNCHANGED <<fifo, torn, overflow, pulse, event, started, fate, calm, tests>> /\ work' = <<>> \o t
  BY DEF Load, Then
<1>2. PICK prog, loaded \in BOOLEAN :
         /\ chip' = [chip EXCEPT !.prog = prog]
         /\ cfg' = [cfg EXCEPT !.loaded = loaded]
         /\ \/ prog /\ loaded /\ UNCHANGED <<clean, fails, lost>>
            \/ ~prog /\ ~loaded /\ ReadFails /\ UNCHANGED <<clean, lost>>
            \/ ~prog /\ lost < MaxLost /\ lost' = lost + 1 /\ clean' = FALSE
               /\ UNCHANGED fails
  BY DEF Load
<1>3. /\ t \in Seq(Steps) /\ cfg \in CfgType /\ None(t, Reads)
      /\ WorkInv(<<Call("Load")>> \o t, cfg, chip, clean)
  BY CallHead DEF Load
<1>4. chip \in ChipState
  BY DEF ImuInv
<1>5. /\ chip' \in ChipState /\ chip'.int = chip.int /\ chip'.ctrl = chip.ctrl /\ chip'.raw = chip.raw
      /\ chip'.awake = chip.awake /\ chip'.set = chip.set
  BY <1>2, <1>4 DEF ChipState
<1>6. cfg' \in CfgType /\ cfg'.dmp_on = cfg.dmp_on /\ cfg'.int = cfg.int /\ cfg'.fifo = cfg.fifo /\ cfg'.set = cfg.set
  BY <1>2, <1>3 DEF CfgType
<1>7. WorkInv(<<>> \o t, cfg', chip', clean)
  BY <1>3, <1>5, <1>6, EmptyOps, WorkPlain
<1>8. clean' = clean \/ clean' = FALSE
  BY <1>2
<1>9. WorkInv(t, cfg', chip', clean') /\ work' = t
  <2>1. WorkInv(t, cfg', chip', clean) /\ work' = t
    BY <1>1, <1>3, <1>7, EmptyOps
  <2> QED BY <1>8, <2>1 DEF WorkInv
<1>10. fails' \in 0..MaxFails /\ lost' \in 0..MaxLost
  BY <1>2, BoundsAssumption DEF ImuInv, ReadFails
<1>11. clean' \in BOOLEAN
  BY <1>8 DEF ImuInv
<1> QED BY <1>1, <1>3, <1>5, <1>9, <1>10, <1>11 DEF ImuInv, Reading

\* by the wait of a self-test,
LEMMA WaitKeeps ==
    ASSUME ImuInv, Wait
    PROVE  ImuInv'
<1> DEFINE t == Tail(work)
<1>1. /\ UNCHANGED <<chip, overflow, pulse, event, cfg, started, fate, clean, calm>>
      /\ UNCHANGED <<fails, lost, tests>> /\ work' = <<>> \o t
  BY DEF Wait, Then, counters
<1>2. (fifo' = (IF fifo = 0 THEN 1 ELSE fifo) /\ torn' = TRUE) \/ (fifo' = fifo /\ torn' = torn)
  BY DEF Wait
<1>3. /\ t \in Seq(Steps) /\ cfg \in CfgType /\ None(t, Reads)
      /\ WorkInv(<<Call("Wait")>> \o t, cfg, chip, clean)
  BY CallHead DEF Wait
<1>4. WorkInv(<<>> \o t, cfg, chip, clean)
  BY <1>3, EmptyOps, WorkPlain
<1>5. WorkInv(t, cfg, chip, clean) /\ work' = t
  BY <1>1, <1>3, <1>4, EmptyOps
<1>6. fifo' \in 0..Capacity
  BY <1>2, CapacityAssumption DEF ImuInv
<1>7. torn' \in BOOLEAN
  BY <1>2 DEF ImuInv
<1> QED BY <1>1, <1>3, <1>5, <1>6, <1>7 DEF ImuInv, Reading

\* by its count,
LEMMA BiasCountedKeeps ==
    ASSUME ImuInv, BiasCounted
    PROVE  ImuInv'
<1> DEFINE h == Head(work)
<1> DEFINE t == Tail(work)
<1> DEFINE b == h[2]
<1>1. UNCHANGED <<chip, torn, overflow, pulse, event, cfg, started, clean, calm, lost, tests>>
  BY DEF BiasCounted
<1>2. Doing("counted") /\ "counted" # "read"
  BY DEF BiasCounted
<1>3. /\ h \in Steps /\ h[1] = "counted" /\ t \in Seq(Steps) /\ cfg \in CfgType /\ None(t, Reads)
      /\ WorkInv(<<h>> \o t, cfg, chip, clean)
      /\ \A ops \in Seq(Steps) : None(ops, Reads) => None(ops \o t, Reads)
  BY <1>2, DoingHead
<1>4. h \in Biases /\ b \in [hw : BOOLEAN, tries : {1, 2}]
  BY <1>3, StepTags
<1>5. /\ \/ work' = <<>> \o t
         \/ b.tries > 1 /\ work' = <<Bias(b.hw, b.tries - 1)>> \o t
         \/ work' = <<Bias(TRUE, 2)>> \o t
      /\ fifo' \in {0, fifo}
      /\ fails' = fails \/ (fails < MaxFails /\ fails' = fails + 1)
      /\ fate' = fate \/ fate' = "sigfpe"
  BY DEF BiasCounted, Then, Arg, ReadFails
<1> HIDE DEF h, t, b
<1>6. \A hw \in BOOLEAN, n \in {1, 2} : Bias(hw, n) \in Biases
  BY BiasKinds
<1>7. PICK ops : ops \in Seq(Steps) /\ work' = ops \o t /\ (ops = <<>> \/ \E s \in Biases : ops = <<s>>)
  <2>1. Biases \subseteq Steps
    BY OtherKinds DEF Off
  <2>2. CASE work' = <<>> \o t
    BY <2>2, EmptyOps
  <2>3. CASE b.tries > 1 /\ work' = <<Bias(b.hw, b.tries - 1)>> \o t
    <3>1. b.hw \in BOOLEAN /\ b.tries - 1 \in {1, 2}
      BY <1>4, <2>3
    <3> DEFINE s == Bias(b.hw, b.tries - 1)
    <3>2. s \in Biases
      BY <1>6, <3>1
    <3>3. work' = <<s>> \o t
      BY <2>3
    <3> HIDE DEF s
    <3>4. <<s>> \in Seq(Steps)
      BY <2>1, <3>2
    <3> QED BY <3>2, <3>3, <3>4
  <2>4. CASE work' = <<Bias(TRUE, 2)>> \o t
    <3> DEFINE s == Bias(TRUE, 2)
    <3>2. s \in Biases
      BY <1>6
    <3>3. work' = <<s>> \o t
      BY <2>4
    <3> HIDE DEF s
    <3>4. <<s>> \in Seq(Steps)
      BY <2>1, <3>2
    <3> QED BY <3>2, <3>3, <3>4
  <2> QED BY <1>5, <2>2, <2>3, <2>4
<1>8. None(ops, Marks \ Biases) /\ None(ops, Sleeps) /\ None(ops, Reads)
  <2>1. CASE ops = <<>>
    BY <2>1, EmptyOps
  <2>2. CASE \E s \in Biases : ops = <<s>>
    <3>1. PICK s \in Biases : ops = <<s>>
      BY <2>2
    <3>2. s \notin Marks \ Biases
      OBVIOUS
    <3>3. s \notin Sleeps /\ s \notin Reads
      BY DEF Biases, Sleeps, Reads, Power, Bypass
    <3> QED BY <3>1, <3>2, <3>3, OneStep
  <2> QED BY <1>7, <2>1, <2>2
<1>9. WorkInv(ops \o t, cfg, chip, clean)
  BY <1>3, <1>4, <1>7, <1>8, WorkBias
<1>10. WorkInv(work', cfg, chip, clean) /\ None(work', Reads)
  BY <1>3, <1>7, <1>8, <1>9
<1>11. fifo' \in 0..Capacity /\ fails' \in 0..MaxFails
  BY <1>5, CapacityAssumption, BoundsAssumption DEF ImuInv
<1>12. fate' \in {"alive", "sigfpe"}
  BY <1>5 DEF ImuInv
<1> QED BY <1>1, <1>10, <1>11, <1>12 DEF ImuInv, Reading

\* When the driver reads, reads are all it has to do.
LEMMA ReadHead ==
    ASSUME ImuInv, Doing("read")
    PROVE  /\ \/ work = <<Read("count")>>
              \/ work = <<Read("status"), Read("packet")>> /\ fifo > 0
              \/ work = <<Read("packet")>> /\ fifo > 0
           /\ WorkInv(<<>>, cfg, chip, clean)
<1>1. /\ work \in Seq(Steps) /\ work # <<>> /\ Head(work)[1] = "read" /\ WorkInv(work, cfg, chip, clean)
      /\ Reading(work, fifo)
  BY DEF ImuInv, WorkInv, Doing
<1>2. Head(work) \in Steps /\ Tail(work) \in Seq(Steps) /\ work = <<Head(work)>> \o Tail(work)
  BY <1>1, HeadOf
<1>3. Head(work) \in Reads
  BY <1>1, <1>2, StepTags
<1>4. ~None(work, Reads)
  <2>1. ~None(<<Head(work)>> \o Tail(work), Reads)
    BY <1>2, <1>3, HeadLaws
  <2> QED BY <1>2, <2>1
<1>5. \A x \in {"count", "status", "packet"} : Read(x) \in Steps
  BY ReadOps
<1>6. \A x \in {"count", "status", "packet"}, t \in Seq(Steps) :
          WorkInv(<<Read(x)>> \o t, cfg, chip, clean) => WorkInv(t, cfg, chip, clean)
  BY WorkReads
<1> DEFINE a == Read("count")
<1> DEFINE b == Read("status")
<1> DEFINE e == Read("packet")
<1>7. /\ work = <<a>> \/ (work = <<b, e>> /\ fifo > 0) \/ (work = <<e>> /\ fifo > 0)
  BY <1>1, <1>4 DEF Reading
<1>8. a \in Steps /\ b \in Steps /\ e \in Steps
  BY <1>5
<1>9. /\ \A t \in Seq(Steps) : WorkInv(<<a>> \o t, cfg, chip, clean) => WorkInv(t, cfg, chip, clean)
      /\ \A t \in Seq(Steps) : WorkInv(<<b>> \o t, cfg, chip, clean) => WorkInv(t, cfg, chip, clean)
      /\ \A t \in Seq(Steps) : WorkInv(<<e>> \o t, cfg, chip, clean) => WorkInv(t, cfg, chip, clean)
  BY <1>6
<1>g. (work = <<a>> \/ (work = <<b, e>> /\ fifo > 0) \/ (work = <<e>> /\ fifo > 0)) =>
         \/ work = <<Read("count")>>
         \/ work = <<Read("status"), Read("packet")>> /\ fifo > 0
         \/ work = <<Read("packet")>> /\ fifo > 0
  OBVIOUS
<1> HIDE DEF a, b, e
<1>10. /\ <<a>> = <<a>> \o <<>> /\ <<e>> = <<e>> \o <<>> /\ <<b, e>> = <<b>> \o <<e>>
       /\ <<>> \in Seq(Steps) /\ <<e>> \in Seq(Steps)
  <2>1. <<a>> = <<a>> \o <<>> /\ <<e>> = <<e>> \o <<>>
    OBVIOUS
  <2>2. <<b, e>> = <<b>> \o <<e>>
    BY <1>8, PairCat
  <2>3. <<>> \in Seq(Steps) /\ <<e>> \in Seq(Steps)
    BY <1>8
  <2> QED BY <2>1, <2>2, <2>3
<1>11. WorkInv(<<e>>, cfg, chip, clean) => WorkInv(<<>>, cfg, chip, clean)
  BY <1>9, <1>10
<1>12. WorkInv(<<a>>, cfg, chip, clean) => WorkInv(<<>>, cfg, chip, clean)
  BY <1>9, <1>10
<1>13. WorkInv(<<b, e>>, cfg, chip, clean) => WorkInv(<<e>>, cfg, chip, clean)
  BY <1>9, <1>10
<1> QED BY <1>1, <1>7, <1>g, <1>11, <1>12, <1>13

\* What may be begun while the driver rests.
LEMMA QuietOps ==
    ASSUME WorkInv(<<>>, cfg, chip, clean)
    PROVE  /\ WorkInv(<<Read("count")>>, cfg, chip, clean)
           /\ WorkInv(<<Read("packet")>>, cfg, chip, clean)
           /\ WorkInv(<<Read("status"), Read("packet")>>, cfg, chip, clean)
           /\ WorkInv(<<Call("Reset")>>, cfg, chip, clean) /\ None(<<Call("Reset")>>, Reads)
<1>1. \A s \in Steps : s \notin Marks /\ s \notin Loud => WorkInv(<<s>>, cfg, chip, clean)
  <2>1. SUFFICES ASSUME NEW s \in Steps, s \notin Marks, s \notin Loud PROVE WorkInv(<<s>>, cfg, chip, clean)
    OBVIOUS
  <2>2. <<s>> \in Seq(Steps)
    OBVIOUS
  <2>3. None(<<s>>, Marks) /\ None(<<s>>, Loud)
    BY <2>1, OneStep
  <2> QED BY <2>2, <2>3, WorkQuiet
<1>2. \A s, r \in Steps : s \notin Marks /\ s \notin Loud /\ r \notin Marks /\ r \notin Loud
                            => WorkInv(<<s, r>>, cfg, chip, clean)
  <2>1. SUFFICES ASSUME NEW s \in Steps, NEW r \in Steps, s \notin Marks, s \notin Loud, r \notin Marks, r \notin Loud
                 PROVE  WorkInv(<<s, r>>, cfg, chip, clean)
    OBVIOUS
  <2>2. <<s, r>> \in Seq(Steps)
    OBVIOUS
  <2>3. None(<<s, r>>, Marks) /\ None(<<s, r>>, Loud)
    BY <2>1, TwoLaws
  <2> QED BY <2>2, <2>3, WorkQuiet
<1>3. \A x \in {"count", "status", "packet"} : Read(x) \in Steps /\ Read(x) \notin Marks /\ Read(x) \notin Loud
  BY ReadOps
<1>4. WorkInv(<<Call("Reset")>>, cfg, chip, clean)
  BY <1>1, ReadOps
<1>5. None(<<Call("Reset")>>, Reads)
  BY ReadOps, OneStep
<1>6. WorkInv(<<Read("count")>>, cfg, chip, clean) /\ WorkInv(<<Read("packet")>>, cfg, chip, clean)
  BY <1>1, <1>3
<1>7. WorkInv(<<Read("status"), Read("packet")>>, cfg, chip, clean)
  BY <1>2, <1>3
<1> QED BY <1>4, <1>5, <1>6, <1>7

\* The work that a read may leave.
Rest(w, n) ==
    \/ w \in {<<>>, <<Call("Reset")>>, <<Read("count")>>}
    \/ w \in {<<Read("status"), Read("packet")>>, <<Read("packet")>>} /\ n > 0

LEMMA RestKeeps ==
    ASSUME WorkInv(<<>>, cfg, chip, clean), NEW w, NEW n, Rest(w, n)
    PROVE  WorkInv(w, cfg, chip, clean) /\ Reading(w, n)
BY QuietOps, EmptyOps DEF Rest, Reading

\* by reads,
LEMMA ReadsKeep ==
    ASSUME ImuInv, ReadCount \/ ReadStatus \/ DataReady \/ Corrupt \/ PacketFails
    PROVE  ImuInv'
<1> DEFINE a == Read("count")
<1> DEFINE b == Read("status")
<1> DEFINE e == Read("packet")
<1> DEFINE r == Call("Reset")
<1>1. Doing("read")
  BY DEF ReadCount, ReadStatus, DataReady, Corrupt, PacketFails
<1>2. /\ work = <<a>> \/ (work = <<b, e>> /\ fifo > 0) \/ (work = <<e>> /\ fifo > 0)
      /\ WorkInv(<<>>, cfg, chip, clean)
  BY <1>1, ReadHead
<1>3. a[2] = "count" /\ b[2] = "status" /\ e[2] = "packet"
  BY DEF Read
<1>4. /\ UNCHANGED <<chip, cfg, clean, pulse, event, started, fate, calm, lost, tests>>
      /\ fails' = fails \/ (fails < MaxFails /\ fails' = fails + 1)
  BY DEF ReadCount, ReadStatus, DataReady, Corrupt, PacketFails, chipVars, counters, ReadFails
<1>5. /\ chip \in ChipState /\ fifo \in 0..Capacity
      /\ {torn, overflow, pulse, event, started, clean, calm} \subseteq BOOLEAN
      /\ fate \in {"alive", "sigfpe"}
      /\ fails \in 0..MaxFails /\ lost \in 0..MaxLost /\ tests \in 0..MaxTests
      /\ Capacity \in Nat /\ MaxFails \in Nat
  BY CapacityAssumption, BoundsAssumption DEF ImuInv
<1>6. ASSUME NEW s PROVE /\ Head(<<s>>) = s /\ \A ops \in {<<>>, <<r>>, <<e>>, <<b, e>>} : ops \o Tail(<<s>>) = ops
  OBVIOUS
<1>7. Head(<<b, e>>) = b /\ Tail(<<b, e>>) = <<e>> /\ <<>> \o <<e>> = <<e>>
  OBVIOUS
<1>r. \A w, n : w \in {<<>>, <<r>>} \/ (w \in {<<e>>, <<b, e>>} /\ n > 0) => Rest(w, n)
  BY DEF Rest
<1>8. fifo' \in 0..Capacity /\ torn' \in BOOLEAN /\ overflow' \in BOOLEAN /\ Rest(work', fifo')
  <2>1. CASE ReadCount
    <3>1. Head(work)[2] = "count" /\ fifo' = fifo /\ torn' = torn /\ overflow' = overflow
      BY <2>1 DEF ReadCount, Arg, chipVars
    <3>2. work = <<a>>
      BY <1>2, <1>3, <1>6, <1>7, <3>1
    <3>3. \/ work' = <<>> \o Tail(work)
          \/ fifo # 0 /\ work' = <<b, e>> \o Tail(work)
          \/ fifo # 0 /\ work' = <<e>> \o Tail(work)
      BY <2>1 DEF ReadCount, Then
    <3>4. work' = <<>> \/ (fifo # 0 /\ work' = <<b, e>>) \/ (fifo # 0 /\ work' = <<e>>)
      BY <1>6, <3>2, <3>3
    <3>5. fifo # 0 => fifo > 0
      BY <1>5
    <3> HIDE DEF a, b, e, r
    <3> QED BY <1>5, <1>r, <3>1, <3>4, <3>5
  <2>2. CASE ReadStatus
    <3>1. /\ Head(work)[2] = "status" /\ fifo' = fifo /\ torn' = torn /\ overflow' \in {overflow, FALSE}
          /\ work' \in {<<>>, <<r>>, Tail(work)}
      BY <2>2 DEF ReadStatus, Arg
    <3>2. work = <<b, e>> /\ fifo > 0
      BY <1>2, <1>3, <1>6, <1>7, <3>1
    <3>3. work' \in {<<>>, <<r>>, <<e>>}
      BY <1>7, <3>1, <3>2
    <3> HIDE DEF a, b, e, r
    <3>4. Rest(work', fifo')
      BY <1>r, <3>1, <3>2, <3>3
    <3>5. overflow' \in BOOLEAN
      BY <1>5, <3>1
    <3> QED BY <1>5, <3>1, <3>4, <3>5
  <2>3. CASE DataReady \/ Corrupt \/ PacketFails
    <3>1. /\ Head(work)[2] = "packet" /\ fifo' \in {fifo - 1, fifo} /\ torn' \in {torn, TRUE} /\ overflow' = overflow
          /\ work' \in {<<>> \o Tail(work), <<r>> \o Tail(work)}
      BY <2>3 DEF DataReady, Corrupt, PacketFails, Arg, Then
    <3>2. work = <<e>> /\ fifo > 0
      BY <1>2, <1>3, <1>6, <1>7, <3>1
    <3>3. work' \in {<<>>, <<r>>}
      BY <1>6, <3>1, <3>2
    <3> HIDE DEF a, b, e, r
    <3>4. Rest(work', fifo')
      BY <1>r, <3>3
    <3>5. fifo' \in 0..Capacity
      BY <1>5, <3>1, <3>2
    <3>6. torn' \in BOOLEAN /\ overflow' \in BOOLEAN
      BY <1>5, <3>1
    <3> QED BY <3>4, <3>5, <3>6
  <2> QED BY <2>1, <2>2, <2>3
<1>9. WorkInv(work', cfg, chip, clean) /\ Reading(work', fifo')
  BY <1>2, <1>8, RestKeeps
<1>10. fails' \in 0..MaxFails
  BY <1>4, <1>5
<1> QED BY <1>4, <1>5, <1>8, <1>9, <1>10 DEF ImuInv

\* The chip, and what begins while the driver rests.
LEMMA OthersKeep ==
    ASSUME ImuInv, Sample \/ PulseEnds \/ IntCb \/ SelfTest \/ CalmDown
    PROVE  ImuInv'
<1>0. /\ chip \in ChipState /\ fifo \in 0..Capacity
      /\ {torn, overflow, pulse, event, started, clean, calm} \subseteq BOOLEAN
      /\ fate \in {"alive", "sigfpe"}
      /\ fails \in 0..MaxFails /\ lost \in 0..MaxLost /\ tests \in 0..MaxTests
      /\ Capacity \in Nat /\ MaxTests \in Nat
      /\ WorkInv(work, cfg, chip, clean) /\ Reading(work, fifo)
  BY CapacityAssumption, BoundsAssumption DEF ImuInv
<1>1. CASE Sample
  <2>1. /\ UNCHANGED <<chip, cfg, started, work, fate, clean, calm>> /\ UNCHANGED <<fails, lost, tests>>
        /\ pulse' = Pulsing /\ event' = (event \/ Pulsing)
    BY <1>1 DEF Sample, driverVars, counters
  <2>2. fifo' \in 0..Capacity /\ (fifo > 0 => fifo' > 0)
    BY <1>0, <1>1 DEF Sample
  <2>3. torn' \in BOOLEAN /\ overflow' \in BOOLEAN /\ pulse' \in BOOLEAN /\ event' \in BOOLEAN
    <3>1. torn \in BOOLEAN /\ overflow \in BOOLEAN /\ event \in BOOLEAN
      BY <1>0
    <3>2. Pulsing \in BOOLEAN
      BY DEF Pulsing
    <3>3. overflow' = (overflow \/ fifo = Capacity) \/ overflow' = overflow
      BY <1>1 DEF Sample
    <3>4. torn' = (torn \/ chip.ctrl # "dmp" \/ chip.raw \/ ~chip.prog) \/ torn' = torn
      BY <1>1 DEF Sample
    <3> QED BY <2>1, <3>1, <3>2, <3>3, <3>4
  <2>4. Reading(work, fifo')
    BY <1>0, <2>2 DEF Reading
  <2> QED BY <1>0, <2>1, <2>2, <2>3, <2>4 DEF ImuInv
<1>2. CASE PulseEnds
  <2>1. /\ UNCHANGED <<chip, fifo, torn, overflow, cfg, started, work, fate, clean, calm>> /\ UNCHANGED <<fails, lost, tests>>
        /\ pulse' = FALSE /\ event' = TRUE
    BY <1>2 DEF PulseEnds, driverVars, counters
  <2> QED BY <1>0, <2>1 DEF ImuInv
<1>3. CASE IntCb
  <2>1. /\ UNCHANGED <<chip, fifo, torn, overflow, pulse, cfg, started, fate, clean, calm>> /\ UNCHANGED <<fails, lost, tests>>
        /\ event' = FALSE /\ work = <<>> /\ work' \in {<<>>, <<Read("count")>>}
    BY <1>3 DEF IntCb, chipVars, counters, Idle
  <2>2. Rest(work', fifo)
    BY <2>1 DEF Rest
  <2>3. WorkInv(work', cfg, chip, clean) /\ Reading(work', fifo)
    BY <1>0, <2>1, <2>2, RestKeeps
  <2> QED BY <1>0, <2>1, <2>3 DEF ImuInv
<1>4. CASE SelfTest
  <2>1. /\ UNCHANGED <<chip, fifo, torn, overflow, pulse, event, cfg, started, fate, calm, fails, lost>>
        /\ tests < MaxTests /\ tests' = tests + 1 /\ clean' = TRUE /\ work = <<>> /\ work' = TestOps(cfg)
    BY <1>4 DEF SelfTest, chipVars, Idle, SelfTestWork, TestOps
  <2>2. TestOps(cfg) \in Seq(Steps) /\ None(TestOps(cfg), Reads) /\ WorkInv(TestOps(cfg), cfg, chip, TRUE)
    BY <1>0, <2>1, WorkTest
  <2>3. tests' \in 0..MaxTests
    BY <1>0, <2>1
  <2> QED BY <1>0, <2>1, <2>2, <2>3 DEF ImuInv, Reading
<1>5. CASE CalmDown
  <2>1. /\ UNCHANGED <<chip, fifo, torn, overflow, pulse, event, cfg, started, work, fate, clean>>
        /\ UNCHANGED <<fails, lost, tests>> /\ calm' = TRUE
    BY <1>5 DEF CalmDown, chipVars, driverVars, counters
  <2> QED BY <1>0, <2>1 DEF ImuInv
<1> QED BY <1>1, <1>2, <1>3, <1>4, <1>5

\* Every step keeps the invariant, and the start has it.
LEMMA ImuStep == ImuInv /\ [ImuNext]_imuVars => ImuInv'
<1> SUFFICES ASSUME ImuInv, [ImuNext]_imuVars PROVE ImuInv'
  OBVIOUS
<1>1. CASE ImuNext
  BY <1>1, OthersKeep, WriteKeeps, ReadsKeep, CallStepKeeps, BypassOffKeeps, LoadKeeps, WaitKeeps, BiasCountedKeeps
     DEF ImuNext, Driver
<1>2. CASE UNCHANGED imuVars
  BY <1>2 DEF imuVars, chipVars, driverVars, counters, ImuInv
<1> QED BY <1>1, <1>2

LEMMA ImuStart == ImuInit => ImuInv
<1> SUFFICES ASSUME ImuInit PROVE ImuInv
  OBVIOUS
<1>1. /\ Start \in Seq(Steps) /\ None(Start, Reads) /\ Sets(Start)
  BY StartSets
<1>2. cfg \in CfgType /\ cfg.int = "off" /\ cfg.dmp_on = FALSE
  <2> DEFINE s == Asleep.set
  <2>1. s \in [Settings -> 0..255]
    BY DEF Asleep
  <2>2. cfg = [dmp_on |-> FALSE, int |-> "off", fifo |-> FALSE, loaded |-> FALSE, bypass |-> FALSE, set |-> s]
    BY DEF ImuInit
  <2> HIDE DEF s
  <2> QED BY <2>1, <2>2 DEF CfgType
<1>3. CfgInv(Start, cfg)
  BY <1>1, <1>2, SetsCfg
<1>4. ChipInv(Start, cfg, chip)
  BY <1>1, SetsChip
<1>5. WorkInv(work, cfg, chip, clean)
  BY <1>1, <1>2, <1>3, <1>4 DEF WorkInv, ImuInit
<1>6. Reading(work, fifo)
  BY <1>1 DEF ImuInit, Reading
<1>7. chip \in ChipState
  <2>1. ForDmp \in [Settings -> 0..255]
    <3>1. Lpf(100) \in 1..6
      BY DivAndFilter
    <3> DEFINE n == Lpf(100)
    <3>2. n \in 0..255
      BY <3>1
    <3>3. ForDmp = [gyro_cfg |-> 24, accel_cfg |-> 0, lpf |-> n, rate_div |-> 4]
      BY DEF ForDmp, Dps2000, G2
    <3> HIDE DEF n
    <3>4. /\ DOMAIN ForDmp = Settings /\ ForDmp["gyro_cfg"] = 24 /\ ForDmp["accel_cfg"] = 0
          /\ ForDmp["lpf"] = n /\ ForDmp["rate_div"] = 4
      BY <3>3 DEF Settings
    <3>5. ForDmp = [x \in Settings |-> ForDmp[x]]
      BY <3>3, <3>4
    <3> QED BY <3>2, <3>4, <3>5 DEF Settings
  <2>2. LeftOn \in ChipState
    BY <2>1 DEF LeftOn, ChipState
  <2> QED BY <2>2, AsleepIsChip DEF ImuInit
<1>8. fifo \in 0..Capacity
  BY CapacityAssumption DEF ImuInit
<1>9. {torn, overflow, pulse, event, started, clean, calm} \subseteq BOOLEAN
  BY DEF ImuInit
<1>10. fails \in 0..MaxFails /\ lost \in 0..MaxLost /\ tests \in 0..MaxTests
  BY BoundsAssumption DEF ImuInit
<1> QED BY <1>5, <1>6, <1>7, <1>8, <1>9, <1>10 DEF ImuInv, ImuInit

\* The types: whatever the chip and the bus do, the registers hold what they
\* can hold, the driver believes values a register can have, and what it has
\* still to do is made of the steps it knows (inv_imu.c, inv_mpu.c).
THEOREM ImuTypes == ImuSpec => []ImuTypeOK
<1>1. ImuInv => ImuTypeOK
  <2> SUFFICES ASSUME ImuInv PROVE ImuTypeOK
    OBVIOUS
  <2>1. work \in Seq(Steps) /\ cfg \in CfgType
    BY DEF ImuInv, WorkInv
  <2>2. \A i \in DOMAIN work :
            work[i][1] \in Registers \cup {"call", "set", "rate", "bypass", "read", "bias", "counted"}
    BY <2>1, SeqSteps, StepTags
  <2> QED BY <2>1, <2>2 DEF ImuInv, ImuTypeOK, CfgType
<1> QED BY <1>1, ImuStart, ImuStep, PTL DEF ImuSpec

\* Whenever the driver rests, and no write was lost since its last
\* configuration began, the chip does what st.chip_cfg says.
THEOREM ChipIsAsCached == ImuSpec => []ChipAsCached
<1>1. ImuInv => ChipAsCached
  <2> SUFFICES ASSUME ImuInv, work = <<>>, clean
               PROVE  /\ chip.awake /\ chip.int = cfg.int /\ chip.set = cfg.set
                      /\ cfg.dmp_on => chip.set = ForDmp
                      /\ IF cfg.dmp_on THEN chip.ctrl = "dmp" /\ ~chip.raw /\ cfg.int = "dmp"
                                       ELSE chip.ctrl = "fifo" /\ chip.raw = cfg.fifo
    BY DEF ChipAsCached, Idle
  <2>0. \A X, Y : None(<<>>, X) /\ ~Ahead(<<>>, X, Y)
    BY EmptyLaws
  <2>1. /\ CfgInv(<<>>, cfg) /\ ChipInv(<<>>, cfg, chip) /\ chip \in ChipState /\ cfg \in CfgType
    BY DEF ImuInv, WorkInv
  <2>2. /\ cfg.int \in {"off", IF cfg.dmp_on THEN "dmp" ELSE "data"}
        /\ cfg.dmp_on => cfg.int # "off" /\ cfg.set = ForDmp
        /\ \A reg \in Settings : cfg.set[reg] \in Good(reg)
    BY <2>1, RestIsKnown
  <2>3. /\ Done(<<>>, "int_enable", cfg.int, chip.int)
        /\ Done(<<>>, "user_ctrl", IF cfg.dmp_on THEN "dmp" ELSE "fifo", chip.ctrl)
        /\ Done(<<>>, "fifo_en", IF ~cfg.dmp_on /\ cfg.fifo THEN "on" ELSE "off", IF chip.raw THEN "on" ELSE "off")
    BY <2>0, <2>1 DEF ChipInv, ModeInv
  <2>4. /\ chip.int = cfg.int
        /\ chip.ctrl = IF cfg.dmp_on THEN "dmp" ELSE "fifo"
        /\ (IF chip.raw THEN "on" ELSE "off") = (IF ~cfg.dmp_on /\ cfg.fifo THEN "on" ELSE "off")
    BY <2>0, <2>3 DEF Done
  <2>5. chip.awake
    BY <2>0, <2>1 DEF ChipInv, AwakeInv
  <2>6. \A reg \in Settings : chip.set[reg] = cfg.set[reg]
    <3> SUFFICES ASSUME NEW reg \in Settings PROVE chip.set[reg] = cfg.set[reg]
      OBVIOUS
    <3>1. cfg.set[reg] # Unknown
      BY <2>2, GoodValues
    <3> QED BY <2>0, <2>1, <3>1 DEF ChipInv, RegInv
  <2>7. chip.set = cfg.set
    <3>1. chip.set \in [Settings -> 0..255] /\ cfg.set \in [Settings -> 0..255]
      BY <2>1 DEF ChipState, CfgType
    <3> QED BY <2>6, <3>1
  <2>8. chip.raw \in BOOLEAN /\ cfg.fifo \in BOOLEAN
    BY <2>1 DEF ChipState, CfgType
  <2>9. chip.raw = (~cfg.dmp_on /\ cfg.fifo)
    BY <2>4, <2>8
  <2> QED BY <2>2, <2>4, <2>5, <2>7, <2>8, <2>9
<1> QED BY <1>1, ImuStart, ImuStep, PTL DEF ImuSpec
=============================================================================
