------------------------------ MODULE StepMotor ------------------------------
(***************************************************************************)
(* A stepper motor of src/raspd/motor.c: a persistent timer writes one       *)
(* pattern of the coil table per tick until the pulses of the command are    *)
(* used up; the Lua wrappers of luaenv.c pass the commands in and run the    *)
(* script's handler when a command is done, and that handler may start the   *)
(* next command before the timer's callback returns (steer_car.lua).         *)
(***************************************************************************)
EXTENDS Integers

CONSTANTS
    Flags,       \* the coil table: SMF_PULSE_FOUR, _DFOUR or _EIGHT
    StepsPerRev, \* (int)(reduction_ratio * 360 / step_angle), line 82
    Angles,      \* the angles callers pass, in degrees
    SwingAngle,  \* the angle of the script's stepmotor_done, 180
    MaxCommands  \* bound: commands that do not come from stepmotor_done

ASSUME FlagsAssumption == Flags \in {"FOUR", "DFOUR", "EIGHT"}
ASSUME StepsAssumption == StepsPerRev \in Nat
ASSUME AnglesAssumption == Angles \subseteq Int /\ SwingAngle \in Int
ASSUME MaxCommandsAssumption == MaxCommands \in Nat

VARIABLES
    exists,     \* between stepmotor_new and stepmotor_del
    pending,    \* dev->ev is in the event loop's timer heap
    pidx,       \* dev->pidx
    angle,      \* dev->angle
    remain,     \* dev->remain_pulses
    coils,      \* the pins of the motor that are high
    handler,    \* the Lua function registered for the device
    direction,  \* steer_car.lua's local of the same name
    commands,   \* commands passed in so far
    rotor,      \* external: the rotor, in half steps
    pos,        \* history: pulses issued, signed
    swing       \* history: the two ends of the script's swing

vars == <<exists, pending, pidx, angle, remain, coils, handler, direction,
          commands, rotor, pos, swing>>

MutPulse == [k \in 0..7 |-> LET i == k \div 2
                           IN  IF k = 7 THEN {3, 4}
                               ELSE IF k % 2 = 0 THEN {i + 1} ELSE {i + 1, i + 2}]

\* INIT_PULSE_FOUR, INIT_PULSE_DFOUR and INIT_PULSE_EIGHT; pins are 1..4.
Pulse ==
    IF Flags = "FOUR" THEN [k \in 0..3 |-> {k + 1}]
    ELSE IF Flags = "DFOUR" THEN [k \in 0..3 |-> {k + 1, ((k + 1) % 4) + 1}]
    ELSE [k \in 0..7 |-> LET i == k \div 2
                         IN  IF k % 2 = 0 THEN {i + 1}
                             ELSE {i + 1, ((i + 1) % 4) + 1}]

NrPulse == IF Flags = "EIGHT" THEN 8 ELSE 4

\* nr_cycle_pulse: the pulses of a turn of the shaft.
NrCyclePulse == IF Flags = "EIGHT" THEN StepsPerRev ELSE StepsPerRev \div 2

Sign(a) == IF a > 0 THEN 1 ELSE IF a < 0 THEN -1 ELSE 0

MutPulsesOf(a) == (a * NrCyclePulse) \div 360

\* Lines 164-166.
PulsesOf(a) == (Sign(a) * a * NrCyclePulse) \div 360

-----------------------------------------------------------------------------
(* External: the rotor comes to rest where the field of the coils points, by *)
(* the shorter way round; opposite to the field it may go either way.        *)

\* The coils that hold the rotor at the half step k of the eight of a cycle.
Field(k) == IF k % 2 = 0 THEN {(k \div 2) + 1}
            ELSE {(k \div 2) + 1, (((k \div 2) + 1) % 4) + 1}

Pull(r, c) == IF c = {} THEN {r} ELSE {s \in r - 4 .. r + 4 : Field(s % 8) = c}

-----------------------------------------------------------------------------
\* stepmotor_new, the rotor resting on the table's first pattern.
Init ==
    /\ exists = TRUE
    /\ pending = FALSE
    /\ pidx = 0
    /\ angle = 0
    /\ remain = 0
    /\ coils = {}
    /\ handler = "none"
    /\ direction = 1
    /\ commands = 0
    /\ rotor = IF Flags = "DFOUR" THEN 1 ELSE 0
    /\ pos = 0
    /\ swing = [on |-> FALSE, from |-> 0, to |-> 0]

\* Lines 160-173: start, or replace the command in progress.
Arm(a) ==
    /\ angle' = a
    /\ remain' = PulsesOf(a)
    /\ pending' = TRUE

\* lr_stepmotor with a delay: the handler is registered, the timer armed.
Stepmotor(a, h) ==
    /\ exists
    /\ commands < MaxCommands
    /\ commands' = commands + 1
    /\ handler' = h
    /\ Arm(a)
    /\ swing' = [swing EXCEPT !.on = FALSE]
    /\ UNCHANGED <<exists, pidx, coils, direction, rotor, pos>>

\* bcm2835_gpio_write_mask(0, dev->pin_mask)
Released == {}

\* lr_stepmotor with delay -1, lines 151-158: the handler is registered all the
\* same; ENOENT when no command is in progress.
Undo(h) ==
    /\ exists
    /\ commands < MaxCommands
    /\ commands' = commands + 1
    /\ handler' = h
    /\ pending' = FALSE
    /\ coils' = IF pending THEN Released ELSE coils
    /\ swing' = [swing EXCEPT !.on = FALSE]
    /\ UNCHANGED <<exists, pidx, angle, remain, direction, rotor, pos>>

\* cb_timer, lines 122-131: the next index, wrapping at either end.
NextIndex ==
    IF angle = 0 THEN pidx
    ELSE IF angle > 0 THEN IF pidx + 1 >= NrPulse THEN 0 ELSE pidx + 1
    ELSE IF pidx - 1 < 0 THEN NrPulse - 1 ELSE pidx - 1

Moved ==
    /\ exists
    /\ pending
    /\ pidx' = NextIndex
    /\ pos' = pos + Sign(angle)

MutFinished == remain <= 0

\* Line 134.
Left == remain - 1
Finished == remain <= 1

\* A pulse that is not the last: the pattern stays until the next tick, and the
\* rotor follows it.
Tick ==
    /\ Moved
    /\ ~Finished
    /\ remain' = Left
    /\ coils' = Pulse[pidx']
    /\ rotor' \in Pull(rotor, coils')
    /\ UNCHANGED <<exists, pending, angle, handler, direction, commands, swing>>

MutReversed == direction

\* steer_car.lua 41: the script turns round.
Reversed == -direction

\* The last pulse, lines 134-140: the coils are off again before the rotor can
\* follow, the timer is removed, and the handler runs.
LastTick ==
    /\ Moved
    /\ Finished
    /\ coils' = Released
    /\ \/ /\ handler # "swing"
          /\ remain' = Left
          /\ pending' = FALSE
          /\ UNCHANGED <<angle, direction, swing>>
       \/ /\ handler = "swing"  \* stepmotor_done of steer_car.lua
          /\ direction' = Reversed
          /\ Arm(SwingAngle * direction')
          /\ swing' = IF swing.on THEN swing
                      ELSE LET n == PulsesOf(angle')
                           IN  [on |-> TRUE, from |-> pos',
                                to |-> pos' + Sign(angle') *
                                              (IF n > 1 THEN n ELSE 1)]
    /\ UNCHANGED <<exists, handler, commands, rotor>>

\* stepmotor_del: the event goes, the coils are left as they are.
Del ==
    /\ exists
    /\ exists' = FALSE
    /\ pending' = FALSE
    /\ UNCHANGED <<pidx, angle, remain, coils, handler, direction, commands,
                   rotor, pos, swing>>

Handlers == {"quiet", "swing"}

Next ==
    \/ \E a \in Angles, h \in Handlers : Stepmotor(a, h)
    \/ \E h \in Handlers : Undo(h)
    \/ Tick
    \/ LastTick
    \/ Del

Spec == Init /\ [][Next]_vars

-----------------------------------------------------------------------------
(* Properties.                                                              *)

TypeOK ==
    /\ exists \in BOOLEAN
    /\ pending \in BOOLEAN
    /\ pidx \in 0..NrPulse - 1
    /\ angle \in Int
    /\ remain \in Int
    /\ pending => remain \in Nat
    /\ coils \in SUBSET (1..4)
    /\ handler \in Handlers \cup {"none"}
    /\ direction \in {1, -1}
    /\ commands \in 0..MaxCommands
    /\ rotor \in Int
    /\ pos \in Int
    /\ swing \in [on : BOOLEAN, from : Int, to : Int]

\* No current flows through the coils of a motor that is not moving: whichever
\* of done, undo and a replaced command ended the motion (lines 136 and 154).
CoilsOffAtRest == exists /\ ~pending => coils = {}

\* The index into the table never loses count of the pulses, over the wraps at
\* both ends, changes of direction and commands replaced half-way.
IndexCountsPulses == pidx = pos % NrPulse

\* With the eight-pattern table and commands of two pulses or more the rotor is
\* never more than the one pulse behind that the last, unheld pulse of a command
\* leaves: it never slips, however commands follow and replace one another.
LongCommands == \A a \in Angles \cup {SwingAngle, -SwingAngle} :
                    a # 0 => PulsesOf(a) >= 2

RotorFollows ==
    Flags = "EIGHT" /\ LongCommands =>
                       /\ rotor - pos \in {-1, 0, 1}
                       /\ coils # {} => rotor = pos

\* Where the command in progress ends.
Goal == IF pending
        THEN pos + Sign(angle) * (IF remain > 1 THEN remain ELSE 1)
        ELSE pos

\* steer_car.lua's stepmotor_done swings between two fixed ends for ever: the
\* reversals do not drift, whatever command the swing was started with.
SwingDoesNotDrift ==
    swing.on /\ pending => Goal \in {swing.from, swing.to}

\* The handler will start the next command.
Swings == handler = "swing"

\* Every command does what PositionServo promises: lines 122-134 and 144-173.
Servo == INSTANCE PositionServo
         WITH goal <- Goal, busy <- pending, again <- Swings

ServoSpec == Servo!Spec
=============================================================================
