--------------------------- MODULE StepMotorProofs ---------------------------
(***************************************************************************)
(* Proofs about StepMotor, for every coil table, gear, set of angles and     *)
(* number of commands.                                                      *)
(***************************************************************************)
EXTENDS StepMotor, TLAPS

(* Arithmetic of the pulse counts and of the coil table.                    *)

\* Sign is one of -1, 0 and 1 (cb_timer, lines 122-126).
LEMMA SignType == ASSUME NEW a \in Int PROVE Sign(a) \in {-1, 0, 1}
BY DEF Sign

\* The number of pulses of a turn is a natural number (lines 81-93).
LEMMA NrCyclePulseType == NrCyclePulse \in Nat
BY StepsAssumption DEF NrCyclePulse

\* A command's pulse count is a natural number, the same for both directions
\* (lines 164-166).
LEMMA PulsesType ==
    ASSUME NEW a \in Int
    PROVE  PulsesOf(a) \in Nat /\ PulsesOf(-a) = PulsesOf(a)
<1>1. Sign(a) * a \in Nat /\ Sign(-a) * (-a) = Sign(a) * a
  BY DEF Sign
<1>2. PICK k \in Nat : k = Sign(a) * a * NrCyclePulse
  <2>1. \A m, n \in Nat : m * n \in Nat
    OBVIOUS
  <2> QED BY <1>1, <2>1, NrCyclePulseType
<1>3. k \div 360 \in Nat
  BY <1>2
<1>4. PulsesOf(a) = k \div 360 /\ PulsesOf(-a) = k \div 360
  BY <1>1, <1>2 DEF PulsesOf
<1> QED BY <1>3, <1>4

\* The table has four or eight patterns of the motor's four pins.
LEMMA PulseType ==
    /\ NrPulse \in {4, 8}
    /\ \A k \in 0..NrPulse - 1 : Pulse[k] \in SUBSET (1..4)
<1>1. CASE Flags = "FOUR"
  <2>1. \A k \in 0..3 : Pulse[k] = {k + 1}
    BY <1>1 DEF Pulse
  <2> QED BY <1>1, <2>1 DEF NrPulse
<1>2. CASE Flags = "DFOUR"
  <2>1. \A k \in 0..3 : Pulse[k] = {k + 1, ((k + 1) % 4) + 1}
    BY <1>2 DEF Pulse
  <2>2. \A k \in 0..3 : k + 1 \in 1..4 /\ ((k + 1) % 4) + 1 \in 1..4
    OBVIOUS
  <2> QED BY <1>2, <2>1, <2>2 DEF NrPulse
<1>3. CASE Flags = "EIGHT"
  <2>1. \A k \in 0..7 : k \div 2 \in 0..3
    OBVIOUS
  <2>2. \A i \in 0..3 : i + 1 \in 1..4 /\ ((i + 1) % 4) + 1 \in 1..4
    OBVIOUS
  <2>3. \A k \in 0..7 : Pulse[k] \in
           {{(k \div 2) + 1}, {(k \div 2) + 1, (((k \div 2) + 1) % 4) + 1}}
    BY <1>3 DEF Pulse
  <2> QED BY <1>3, <2>1, <2>2, <2>3 DEF NrPulse
<1> QED BY <1>1, <1>2, <1>3, FlagsAssumption

\* The next index is an index of the table, and follows the signed count of
\* pulses modulo its length (cb_timer, lines 122-131).
LEMMA NextIndexType ==
    ASSUME pidx \in 0..NrPulse - 1, angle \in Int, pos \in Int
    PROVE  /\ NextIndex \in 0..NrPulse - 1
           /\ pidx = pos % NrPulse =>
                 NextIndex = (pos + Sign(angle)) % NrPulse
<1>1. CASE NrPulse = 4
  BY <1>1 DEF NextIndex, Sign
<1>2. CASE NrPulse = 8
  BY <1>2 DEF NextIndex, Sign
<1> QED BY <1>1, <1>2, PulseType

-----------------------------------------------------------------------------
(* Type correctness.                                                        *)

\* Arm leaves an angle and a countdown that is not negative.
LEMMA ArmType ==
    ASSUME NEW a \in Int, Arm(a)
    PROVE  angle' \in Int /\ remain' \in Nat
BY PulsesType DEF Arm

\* A tick leaves the index in the table and pos an integer.
LEMMA MovedType ==
    ASSUME TypeOK, Moved
    PROVE  pidx' \in 0..NrPulse - 1 /\ pos' \in Int
BY NextIndexType, SignType DEF TypeOK, Moved

\* Every action preserves the types.
LEMMA TypeStep == TypeOK /\ [Next]_vars => TypeOK'
<1> SUFFICES ASSUME TypeOK, [Next]_vars PROVE TypeOK'
  OBVIOUS
<1> USE DEF TypeOK
<1>1. ASSUME NEW a \in Angles, NEW h \in Handlers, Stepmotor(a, h) PROVE TypeOK'
  <2>1. angle' \in Int /\ remain' \in Nat /\ pending' \in BOOLEAN
    BY <1>1, AnglesAssumption, ArmType DEF Stepmotor, Arm
  <2>2. commands' \in 0..MaxCommands
    BY <1>1, MaxCommandsAssumption DEF Stepmotor
  <2>3. swing' \in [on : BOOLEAN, from : Int, to : Int]
    BY <1>1 DEF Stepmotor
  <2>4. handler' \in Handlers \cup {"none"}
    BY <1>1 DEF Stepmotor
  <2>5. UNCHANGED <<exists, pidx, coils, direction, rotor, pos>>
    BY <1>1 DEF Stepmotor
  <2>6. remain' \in Int
    BY <2>1
  <2> QED BY <2>1, <2>2, <2>3, <2>4, <2>5, <2>6
<1>2. ASSUME NEW h \in Handlers, Undo(h) PROVE TypeOK'
  <2>1. commands' \in 0..MaxCommands
    BY <1>2, MaxCommandsAssumption DEF Undo
  <2> QED BY <1>2, <2>1 DEF Undo, Released
<1>3. CASE Tick
  <2>1. pidx' \in 0..NrPulse - 1 /\ pos' \in Int
    BY <1>3, MovedType DEF Tick
  <2>2. coils' \in SUBSET (1..4)
    BY <1>3, <2>1, PulseType DEF Tick
  <2>3. rotor' \in Int
    BY <1>3 DEF Tick, Pull
  <2>4. remain' \in Nat
    BY <1>3 DEF Tick, Left, Finished
  <2> QED BY <1>3, <2>1, <2>2, <2>3, <2>4 DEF Tick
<1>4. CASE LastTick
  <2>1. pidx' \in 0..NrPulse - 1 /\ pos' \in Int
    BY <1>4, MovedType DEF LastTick
  <2>2. CASE handler # "swing"
    <3>1. /\ remain' = Left
          /\ pending' = FALSE
          /\ UNCHANGED <<angle, direction, swing>>
      BY <1>4, <2>2 DEF LastTick
    <3>2. coils' = {} /\ UNCHANGED <<exists, handler, commands, rotor>>
      BY <1>4 DEF LastTick, Released
    <3>3. remain' \in Int
      BY <3>1 DEF Left
    <3>4. pending' \in BOOLEAN /\ coils' \in SUBSET (1..4)
      BY <3>1, <3>2
    <3>5. swing' \in [on : BOOLEAN, from : Int, to : Int]
      BY <3>1
    <3> QED BY <2>1, <3>1, <3>2, <3>3, <3>4, <3>5
  <2>3. CASE handler = "swing"
    <3>1. direction' \in {1, -1} /\ Arm(SwingAngle * direction')
      BY <1>4, <2>3 DEF LastTick, Reversed
    <3>2. SwingAngle * direction' \in Int
      BY <3>1, AnglesAssumption
    <3>3. angle' \in Int /\ remain' \in Nat /\ pending' = TRUE
      BY <3>1, <3>2, ArmType DEF Arm
    <3>4. PulsesOf(angle') \in Int /\ Sign(angle') \in Int
      BY <3>3, PulsesType, SignType
    <3>5. swing' \in [on : BOOLEAN, from : Int, to : Int]
      <4> DEFINE n == PulsesOf(angle')
      <4> DEFINE end == pos' + Sign(angle') * (IF n > 1 THEN n ELSE 1)
      <4>1. end \in Int
        BY <2>1, <3>4
      <4>2. swing' = swing \/ swing' = [on |-> TRUE, from |-> pos', to |-> end]
        BY <1>4, <2>3 DEF LastTick
      <4> HIDE DEF end
      <4>3. [on |-> TRUE, from |-> pos', to |-> end]
               \in [on : BOOLEAN, from : Int, to : Int]
        BY <2>1, <4>1
      <4> QED BY <4>2, <4>3
    <3> QED BY <1>4, <2>1, <3>1, <3>3, <3>5 DEF LastTick, Released
  <2> QED BY <2>2, <2>3
<1>5. CASE Del
  BY <1>5 DEF Del
<1>6. CASE UNCHANGED vars
  BY <1>6 DEF vars
<1> QED BY <1>1, <1>2, <1>3, <1>4, <1>5, <1>6 DEF Next

\* The state of the driver always has its types: in particular the index never
\* leaves the coil table, at either end of it (cb_timer, lines 122-133).
THEOREM TypeCorrect == Spec => []TypeOK
<1>1. Init => TypeOK
  <2>1. NrPulse \in {4, 8}
    BY PulseType
  <2>2. Init => swing \in [on : BOOLEAN, from : Int, to : Int]
    BY DEF Init
  <2>3. Init => pidx \in 0..NrPulse - 1 /\ commands \in 0..MaxCommands
    BY <2>1, MaxCommandsAssumption DEF Init
  <2>4. Init => exists \in BOOLEAN /\ pending \in BOOLEAN
    BY DEF Init
  <2>5. Init => angle \in Int /\ remain \in Int /\ rotor \in Int /\ pos \in Int
    BY DEF Init
  <2>6. Init => (pending => remain \in Nat)
    BY DEF Init
  <2>7. Init => coils \in SUBSET (1..4)
    BY DEF Init
  <2>8. Init => handler \in Handlers \cup {"none"}
    BY DEF Init
  <2>9. Init => direction \in {1, -1}
    BY DEF Init
  <2> QED BY <2>2, <2>3, <2>4, <2>5, <2>6, <2>7, <2>8, <2>9 DEF TypeOK
<1> QED BY <1>1, TypeStep, PTL DEF Spec

-----------------------------------------------------------------------------
(* The coils and the index.                                                 *)

\* However a motion ends, the coils of an existing motor at rest carry no
\* current (lines 136 and 154).
THEOREM CoilsOff == Spec => []CoilsOffAtRest
<1>1. Init => CoilsOffAtRest
  BY DEF Init, CoilsOffAtRest
<1>2. CoilsOffAtRest /\ [Next]_vars => CoilsOffAtRest'
  <2> SUFFICES ASSUME CoilsOffAtRest, [Next]_vars, exists', ~pending'
               PROVE  coils' = {}
    BY DEF CoilsOffAtRest
  <2>1. ASSUME NEW a \in Angles, NEW h \in Handlers, Stepmotor(a, h)
        PROVE  FALSE
    BY <2>1 DEF Stepmotor, Arm
  <2>2. ASSUME NEW h \in Handlers, Undo(h) PROVE coils' = {}
    BY <2>2 DEF Undo, Released, CoilsOffAtRest
  <2>3. CASE Tick
    BY <2>3 DEF Tick, Moved
  <2>4. CASE LastTick
    BY <2>4 DEF LastTick, Released
  <2>5. CASE Del
    BY <2>5 DEF Del
  <2>6. CASE UNCHANGED vars
    BY <2>6 DEF vars, CoilsOffAtRest
  <2> QED BY <2>1, <2>2, <2>3, <2>4, <2>5, <2>6 DEF Next
<1> QED BY <1>1, <1>2, PTL DEF Spec

\* A step keeps the index the count of the pulses modulo the table's length.
LEMMA IndexStep == TypeOK /\ IndexCountsPulses /\ [Next]_vars => IndexCountsPulses'
<1> SUFFICES ASSUME TypeOK, IndexCountsPulses, [Next]_vars
             PROVE  IndexCountsPulses'
  OBVIOUS
<1>1. CASE Moved
  BY <1>1, NextIndexType DEF Moved, TypeOK, IndexCountsPulses
<1>2. CASE UNCHANGED <<pidx, pos>>
  BY <1>2 DEF IndexCountsPulses
<1>3. Moved \/ UNCHANGED <<pidx, pos>>
  BY DEF Next, Stepmotor, Undo, Tick, LastTick, Del, vars
<1> QED BY <1>1, <1>2, <1>3

\* The index counts the pulses over wraps, reversals and replaced commands, so
\* the next pattern is always a neighbour of the one before.
THEOREM IndexCounts == Spec => []IndexCountsPulses
<1>1. Init => IndexCountsPulses
  <2>1. NrPulse \in {4, 8}
    BY PulseType
  <2> QED BY <2>1 DEF Init, IndexCountsPulses
<1> QED BY <1>1, TypeCorrect, IndexStep, PTL DEF Spec

-----------------------------------------------------------------------------
(* StepMotor implements PositionServo.                                      *)

\* The goal of a command is a position.
LEMMA GoalType == TypeOK' => Goal' \in Int
<1> SUFFICES ASSUME TypeOK' PROVE Goal' \in Int
  OBVIOUS
<1>1. angle' \in Int /\ remain' \in Int /\ pos' \in Int
  BY DEF TypeOK
<1> QED BY <1>1, SignType DEF Goal

\* A pulse that is not the last moves towards the goal and leaves it where it
\* is, or, for a command of no angle, moves nothing.
LEMMA TickAdvances ==
    ASSUME TypeOK, Tick
    PROVE  Servo!Advance \/ UNCHANGED <<pos, Goal, pending, Swings>>
<1>1. remain \in Int /\ angle \in Int /\ pos \in Int
  BY DEF TypeOK
<1>2. pending /\ pending' = pending /\ angle' = angle /\ Swings' = Swings
  BY DEF Tick, Moved, Swings
<1>3. remain > 1 /\ remain' = remain - 1 /\ pos' = pos + Sign(angle)
  BY <1>1 DEF Tick, Moved, Finished, Left
<1>4. CASE Sign(angle) = 0
  <2>1. pos' = pos /\ Goal = pos /\ Goal' = pos'
    BY <1>1, <1>2, <1>3, <1>4 DEF Goal
  <2> QED BY <1>2, <1>3, <2>1
<1>5. CASE Sign(angle) = 1
  <2>1. /\ pos' = pos + 1
        /\ Goal = pos + remain
        /\ Goal' = pos' + (IF remain' > 1 THEN remain' ELSE 1)
    BY <1>1, <1>2, <1>3, <1>5 DEF Goal
  <2>2. pos + 1 < Goal /\ Goal' = Goal
    BY <1>1, <1>2, <1>3, <2>1
  <2> QED BY <1>2, <1>3, <2>1, <2>2 DEF Servo!Advance
<1>6. CASE Sign(angle) = -1
  <2>1. /\ pos' = pos - 1
        /\ Goal = pos - remain
        /\ Goal' = pos' - (IF remain' > 1 THEN remain' ELSE 1)
    BY <1>1, <1>2, <1>3, <1>6 DEF Goal
  <2>2. pos - 1 > Goal /\ Goal' = Goal
    BY <1>1, <1>2, <1>3, <2>1
  <2> QED BY <1>2, <1>3, <2>1, <2>2 DEF Servo!Advance
<1> QED BY <1>1, <1>4, <1>5, <1>6, SignType

\* The last pulse reaches the goal exactly, and the handler either leaves the
\* motor at rest or names the next goal.
LEMMA LastTickArrives ==
    ASSUME TypeOK, TypeOK', LastTick
    PROVE  Servo!Arrive
<1>1. pending /\ remain <= 1 /\ pos' = pos + Sign(angle)
  BY DEF LastTick, Moved, Finished
<1>2. remain \in Int /\ angle \in Int /\ pos \in Int /\ Sign(angle) \in {-1, 0, 1}
  BY SignType DEF TypeOK
<1>3. Goal = pos + Sign(angle)
  BY <1>1, <1>2 DEF Goal
<1>4. Goal \in pos - 1 .. pos + 1 /\ pos' = Goal
  BY <1>1, <1>2, <1>3
<1>5. CASE ~Swings
  <2>1. ~pending' /\ ~Swings'
    BY <1>5 DEF LastTick, Swings
  <2>2. Goal' = pos'
    BY <2>1 DEF Goal
  <2>3. pending' = FALSE
    BY <1>5 DEF LastTick, Swings
  <2>4. pending' = Swings /\ Swings' = Swings
    BY <1>5, <2>1, <2>3, Zenon DEF Swings
  <2> QED BY <1>1, <1>4, <1>5, <2>2, <2>4 DEF Servo!Arrive
<1>6. CASE Swings
  <2>1. pending' = Swings /\ Swings' = Swings
    BY <1>6 DEF LastTick, Arm, Swings
  <2>2. Goal' \in Int
    BY GoalType
  <2> QED BY <1>1, <1>4, <1>6, <2>1, <2>2 DEF Servo!Arrive
<1> QED BY <1>5, <1>6

\* Undo and stepmotor_del cancel the command in progress, if there is one.
LEMMA StopCancels ==
    ASSUME pos' = pos, pending' = FALSE
    PROVE  Servo!Cancel
<1>1. Goal' = pos'
  BY DEF Goal
<1>2. Swings' \in BOOLEAN
  BY Zenon DEF Swings
<1> QED BY <1>1, <1>2 DEF Servo!Cancel

\* Every step of the driver is a step of the servo, or changes nothing in it.
LEMMA ServoStep ==
    TypeOK /\ TypeOK' /\ [Next]_vars => [Servo!Next]_(Servo!servoVars)
<1> SUFFICES ASSUME TypeOK, TypeOK', [Next]_vars
             PROVE  Servo!Next \/ UNCHANGED <<pos, Goal, pending, Swings>>
  BY DEF Servo!servoVars
<1>1. ASSUME NEW a \in Angles, NEW h \in Handlers, Stepmotor(a, h)
      PROVE  Servo!Command
  <2>1. pending' = TRUE /\ pos' = pos
    BY <1>1 DEF Stepmotor, Arm
  <2>2. Goal' \in Int
    BY GoalType
  <2>3. Swings' \in BOOLEAN
    BY Zenon DEF Swings
  <2> QED BY <2>1, <2>2, <2>3 DEF Servo!Command
<1>2. ASSUME NEW h \in Handlers, Undo(h)
      PROVE  Servo!Cancel
  BY <1>2, StopCancels DEF Undo
<1>3. CASE Del
  BY <1>3, StopCancels DEF Del, Servo!Next
<1>4. CASE UNCHANGED vars
  BY <1>4 DEF vars, Goal, Swings
<1> QED BY <1>1, <1>2, <1>3, <1>4, TickAdvances, LastTickArrives
        DEF Next, Servo!Next

\* The driver keeps the servo's promise: every command moves monotonically to
\* its goal and is done exactly there, whatever replaces it on the way.
THEOREM ImplementsServo == Spec => ServoSpec
<1>1. Init => Servo!Init
  BY DEF Init, Servo!Init, Goal, Swings
<1>2. Spec => Servo!Init /\ [][Servo!Next]_(Servo!servoVars)
  BY <1>1, TypeCorrect, ServoStep, PTL DEF Spec
<1> QED BY <1>2 DEF ServoSpec, Servo!Spec

-----------------------------------------------------------------------------
(* The swing of steer_car.lua.                                              *)

\* The pulses of one swing; a command of no pulse still makes one.
Reach == IF PulsesOf(SwingAngle) > 1 THEN PulsesOf(SwingAngle) ELSE 1

\* During the swing the ends are the goal and the point one swing behind it.
SwingInv ==
    swing.on /\ pending =>
        /\ angle = SwingAngle * direction
        /\ {swing.from, swing.to} = {Goal, Goal - Sign(angle) * Reach}

\* Both directions swing equally far, and in opposite senses.
LEMMA SwingArithmetic ==
    ASSUME NEW d \in {1, -1}
    PROVE  /\ Reach \in Int
           /\ SwingAngle * d \in Int
           /\ PulsesOf(SwingAngle * d) = PulsesOf(SwingAngle)
           /\ Sign(SwingAngle * (-d)) = -Sign(SwingAngle * d)
<1>1. SwingAngle \in Int
  BY AnglesAssumption
<1>2. SwingAngle * d = SwingAngle \/ SwingAngle * d = -SwingAngle
  BY <1>1
<1>3. SwingAngle * d \in Int /\ SwingAngle * (-d) = -(SwingAngle * d)
  BY <1>1
<1>4. PulsesOf(SwingAngle) \in Int
  BY <1>1, PulsesType
<1>5. PulsesOf(SwingAngle * d) = PulsesOf(SwingAngle)
  BY <1>1, <1>2, PulsesType
<1>6. Sign(-(SwingAngle * d)) = -Sign(SwingAngle * d)
  BY <1>3 DEF Sign
<1> QED BY <1>3, <1>4, <1>5, <1>6 DEF Reach

\* The reversal at the end of a swing names the other end.
LEMMA SwingTurns ==
    ASSUME TypeOK, TypeOK', SwingInv, LastTick, handler = "swing"
    PROVE  SwingInv'
<1>1. /\ direction \in {1, -1}
      /\ direction' = -direction
      /\ angle' = SwingAngle * direction'
      /\ remain' = PulsesOf(angle')
      /\ pending
      /\ pending'
  BY DEF TypeOK, LastTick, Reversed, Arm, Moved
<1>2. direction' \in {1, -1}
  BY <1>1
<1>3. /\ Reach \in Int
      /\ PulsesOf(angle') = PulsesOf(SwingAngle)
      /\ Sign(angle') = -Sign(SwingAngle * direction)
  BY <1>1, <1>2, SwingArithmetic
<1>4. Sign(angle') \in {-1, 0, 1} /\ pos' \in Int /\ pos \in Int
  BY SignType DEF TypeOK
<1>5. Goal' = pos' + Sign(angle') * Reach
  BY <1>1, <1>3 DEF Goal, Reach
<1>6. CASE swing.on
  <2>1. swing' = swing
    BY <1>6 DEF LastTick
  <2>2. angle = SwingAngle * direction
    BY <1>1, <1>6 DEF SwingInv
  <2>3. pos' = Goal
    <3>1. remain <= 1 /\ remain \in Int /\ pos' = pos + Sign(angle)
      BY DEF LastTick, Moved, Finished, TypeOK
    <3>2. Sign(angle) \in {-1, 0, 1}
      BY SignType DEF TypeOK
    <3> QED BY <1>1, <1>4, <3>1, <3>2 DEF Goal
  <2>4. Goal' = Goal - Sign(angle) * Reach /\ Goal = Goal' - Sign(angle') * Reach
    <3>1. /\ Sign(angle) \in {-1, 0, 1}
          /\ Sign(angle') = -Sign(angle)
          /\ Goal \in Int
      BY <1>3, <1>4, <2>2, <2>3, SignType DEF TypeOK
    <3>2. (-Sign(angle)) * Reach = -(Sign(angle) * Reach)
      BY <1>3, <3>1
    <3>3. Sign(angle) * Reach \in Int
      BY <1>3, <3>1
    <3> QED BY <1>5, <2>3, <3>1, <3>2, <3>3
  <2>5. {swing.from, swing.to} = {Goal, Goal - Sign(angle) * Reach}
    BY <1>1, <1>6 DEF SwingInv
  <2>6. {swing'.from, swing'.to} = {Goal', Goal' - Sign(angle') * Reach}
    BY <2>1, <2>4, <2>5
  <2> QED BY <1>1, <2>6 DEF SwingInv
<1>7. CASE ~swing.on
  <2> DEFINE n == PulsesOf(angle')
  <2>1. swing' = [on |-> TRUE, from |-> pos',
                  to |-> pos' + Sign(angle') * (IF n > 1 THEN n ELSE 1)]
    BY <1>7 DEF LastTick
  <2>2. swing'.from = pos' /\ swing'.to = pos' + Sign(angle') * Reach
    BY <1>3, <2>1 DEF Reach
  <2>3. pos' = Goal' - Sign(angle') * Reach
    BY <1>3, <1>4, <1>5
  <2> QED BY <1>1, <1>5, <2>2, <2>3 DEF SwingInv
<1> QED BY <1>6, <1>7

\* Any other tick leaves the ends and the goal where they are; a command from
\* elsewhere ends the swing.
LEMMA SwingStep == TypeOK /\ TypeOK' /\ SwingInv /\ [Next]_vars => SwingInv'
<1> SUFFICES ASSUME TypeOK, TypeOK', SwingInv, [Next]_vars PROVE SwingInv'
  OBVIOUS
<1>1. ASSUME NEW a \in Angles, NEW h \in Handlers, Stepmotor(a, h)
      PROVE  SwingInv'
  <2>1. swing' = [swing EXCEPT !.on = FALSE]
    BY <1>1 DEF Stepmotor
  <2>2. ~swing'.on
    BY <2>1 DEF TypeOK
  <2> QED BY <2>2 DEF SwingInv
<1>2. ASSUME NEW h \in Handlers, Undo(h) PROVE SwingInv'
  BY <1>2 DEF Undo, SwingInv
<1>3. CASE Tick
  <2>1. /\ swing' = swing /\ angle' = angle /\ direction' = direction
        /\ pending
    BY <1>3 DEF Tick, Moved
  <2>2. Goal' = Goal
    BY <1>3, <2>1, TickAdvances DEF Servo!Advance
  <2> QED BY <2>1, <2>2 DEF SwingInv
<1>4. CASE LastTick /\ handler # "swing"
  BY <1>4 DEF LastTick, SwingInv
<1>5. CASE LastTick /\ handler = "swing"
  BY <1>5, SwingTurns
<1>6. CASE Del
  BY <1>6 DEF Del, SwingInv
<1>7. CASE UNCHANGED vars
  BY <1>7 DEF vars, SwingInv, Goal
<1> QED BY <1>1, <1>2, <1>3, <1>4, <1>5, <1>6, <1>7 DEF Next

\* stepmotor_done of steer_car.lua swings between two fixed ends: the goal of
\* every swing is one of them, however long it goes on.
THEOREM SwingIsStable == Spec => []SwingDoesNotDrift
<1>1. Init => SwingInv
  BY DEF Init, SwingInv
<1>2. SwingInv => SwingDoesNotDrift
  BY DEF SwingInv, SwingDoesNotDrift
<1> QED BY <1>1, <1>2, TypeCorrect, SwingStep, PTL DEF Spec

-----------------------------------------------------------------------------
(* The rotor.                                                               *)

\* The rotor lags by one pulse at most, by none while a coil is on, and a
\* command that has not moved yet has two pulses to go.
RotorInv ==
    Flags = "EIGHT" /\ LongCommands =>
        /\ rotor - pos \in {-1, 0, 1}
        /\ coils # {} => rotor = pos
        /\ pending /\ coils = {} /\ angle # 0 => remain >= 2

\* The eight fields of a cycle are different.
LEMMA FieldIsInjective ==
    \A j, k \in 0..7 : Field(j) = Field(k) => j = k
<1>1. /\ Field(0) = {1} /\ Field(1) = {1, 2} /\ Field(2) = {2}
      /\ Field(3) = {2, 3} /\ Field(4) = {3} /\ Field(5) = {3, 4}
      /\ Field(6) = {4} /\ Field(7) = {4, 1}
  BY DEF Field
<1> QED BY <1>1

\* Under the pattern of pulse q a rotor at most two half steps away comes to q.
LEMMA RotorIsPulled ==
    ASSUME Flags = "EIGHT", NEW r \in Int, NEW q \in Int, r - q \in -2..2,
           NEW s \in Pull(r, Pulse[q % 8])
    PROVE  s = q /\ Pulse[q % 8] # {}
<1>1. q % 8 \in 0..7
  OBVIOUS
<1>2. Pulse[q % 8] = Field(q % 8)
  BY <1>1 DEF Pulse, Field
<1>3. Field(q % 8) # {}
  BY DEF Field
<1>4. s \in r - 4 .. r + 4 /\ Field(s % 8) = Field(q % 8)
  BY <1>2, <1>3 DEF Pull
<1>5. s % 8 = q % 8
  BY <1>1, <1>4, FieldIsInjective
<1>6. s \in Int /\ s - q \in -6..6
  BY <1>4
<1> QED BY <1>2, <1>3, <1>5, <1>6

\* A step keeps the rotor with the count of pulses.
LEMMA RotorStep ==
    TypeOK /\ TypeOK' /\ IndexCountsPulses' /\ RotorInv /\ [Next]_vars
       => RotorInv'
<1> SUFFICES ASSUME TypeOK, TypeOK', IndexCountsPulses', RotorInv, [Next]_vars,
                    Flags = "EIGHT", LongCommands
             PROVE  /\ rotor' - pos' \in {-1, 0, 1}
                    /\ coils' # {} => rotor' = pos'
                    /\ pending' /\ coils' = {} /\ angle' # 0 => remain' >= 2
  BY DEF RotorInv
<1>1. /\ rotor - pos \in {-1, 0, 1}
      /\ coils # {} => rotor = pos
      /\ pending /\ coils = {} /\ angle # 0 => remain >= 2
  BY DEF RotorInv
<1>2. /\ rotor \in Int /\ pos \in Int /\ rotor' \in Int /\ pos' \in Int
      /\ angle \in Int /\ remain \in Int
  BY DEF TypeOK
<1>3. ASSUME NEW a \in Angles, NEW h \in Handlers, Stepmotor(a, h)
      PROVE  /\ UNCHANGED <<rotor, pos, coils>>
             /\ angle' # 0 => remain' >= 2
  BY <1>3 DEF Stepmotor, Arm, LongCommands
<1>4. ASSUME NEW h \in Handlers, Undo(h)
      PROVE  /\ UNCHANGED <<rotor, pos>>
             /\ coils' # {} => coils # {}
             /\ pending' = FALSE
  BY <1>4 DEF Undo, Released
<1>5. CASE Tick
  <2>1. /\ coils' = Pulse[pos' % 8]
        /\ rotor' \in Pull(rotor, Pulse[pos' % 8])
    BY <1>5 DEF Tick, IndexCountsPulses, NrPulse
  <2>2. rotor - pos' \in -2..2
    BY <1>1, <1>2, <1>5, SignType DEF Tick, Moved
  <2>3. rotor' = pos' /\ coils' # {}
    BY <1>2, <2>1, <2>2, RotorIsPulled
  <2>4. rotor' - pos' = 0
    <3>1. \A q \in Int : q - q = 0
      OBVIOUS
    <3> QED BY <1>2, <2>3, <3>1, Zenon
  <2> QED BY <2>3, <2>4
<1>6. CASE LastTick
  <2>1. /\ pending /\ remain <= 1 /\ pos' = pos + Sign(angle)
        /\ rotor' = rotor /\ coils' = {}
    BY <1>6 DEF LastTick, Moved, Finished, Released
  <2>2. rotor' - pos' \in {-1, 0, 1}
    <3>1. CASE angle = 0
      BY <1>1, <1>2, <2>1, <3>1 DEF Sign
    <3>2. CASE angle # 0
      <4>1. rotor = pos
        BY <1>1, <1>2, <2>1, <3>2
      <4> QED BY <1>2, <2>1, <4>1, SignType
    <3> QED BY <3>1, <3>2
  <2>3. pending' /\ angle' # 0 => remain' >= 2
    <3> SUFFICES ASSUME pending', angle' # 0 PROVE remain' >= 2
      OBVIOUS
    <3>1. direction' \in {1, -1} /\ Arm(SwingAngle * direction')
      BY <1>6 DEF LastTick, Reversed, TypeOK
    <3>2. angle' = SwingAngle \/ angle' = -SwingAngle
      <4>1. angle' = SwingAngle * 1 \/ angle' = SwingAngle * (-1)
        BY <3>1 DEF Arm
      <4>2. SwingAngle * 1 = SwingAngle /\ SwingAngle * (-1) = -SwingAngle
        BY AnglesAssumption
      <4> QED BY <4>1, <4>2
    <3> QED BY <3>1, <3>2 DEF Arm, LongCommands
  <2> QED BY <2>1, <2>2, <2>3
<1>7. CASE Del
  BY <1>1, <1>7 DEF Del
<1>8. CASE UNCHANGED vars
  BY <1>1, <1>8 DEF vars
<1> QED BY <1>1, <1>3, <1>4, <1>5, <1>6, <1>7, <1>8 DEF Next

\* With the eight-pattern table and commands of two pulses or more the rotor
\* never slips: it is at most the one unheld pulse away from the count.
THEOREM RotorNeverSlips == Spec => []RotorFollows
<1>1. Init => RotorInv
  BY DEF Init, RotorInv
<1>2. RotorInv => RotorFollows
  BY DEF RotorInv, RotorFollows
<1> QED BY <1>1, <1>2, TypeCorrect, IndexCounts, RotorStep, PTL DEF Spec
=============================================================================
