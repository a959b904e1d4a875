--------------------------------- MODULE Car ---------------------------------
(***************************************************************************)
(* The car of src/raspd/steer_car.lua and devtree_car.lua: the script steers *)
(* the bridge by the distances that the ultrasonic sensor reports and blinks *)
(* a lamp, while clients send gears, pwm and gpio commands and other scripts *)
(* call the same functions.  Everything is a callback of one event loop.     *)
(***************************************************************************)
EXTENDS HBridge, Blink

CONSTANTS
    led_warn, laster,  \* the pins of the device tree
    Distances,    \* what the sensor may report, in cm
    Cruise, Turn, \* the speeds of the script, 3000 and 2000
    WarnCount,    \* blinks of the warning lamp, 5
    Speeds,       \* the speeds that other scripts set
    Deltas,       \* what other scripts add
    Budgets       \* bound: how many commands of clients and calls of other
                  \* scripts there are about the wheels and channels, and about
                  \* the pins, as pairs one of which is chosen at the start

ASSUME DistancesAssumption == Distances \subseteq Nat
ASSUME BudgetsAssumption == Budgets \subseteq Nat \X Nat
ASSUME LampsAssumption == {led_warn, laster} \subseteq Pins /\ WarnCount \in Nat
ASSUME SpeedsAssumption ==
    /\ Cruise \in Nat \ {0} /\ Turn \in Nat \ {0}
    /\ Speeds \subseteq Int /\ Deltas \subseteq Int

VARIABLES
    l298n_stat,   \* the script turns away from an obstacle
    scoping,      \* the script has asked for distances
    near,         \* history: an obstacle was measured, and not yet its absence
    restarted,    \* history: automatic() was the last to steer
    drives,       \* commands and calls still to come, about wheels and channels
    lampCalls     \* and about the pins

script == <<l298n_stat, scoping, near, restarted>>
vars == <<hw, account, gradual, bridge, lamps, script, drives, lampCalls>>

\* ultrasonic_done turns at 20 cm or less and goes on beyond 30
TooClose(distance) == distance <= 20
MutClear(distance) == l298n_stat = 1 /\ distance > 20
Clear(distance) == l298n_stat = 1 /\ distance > 30

Straight == [left |-> Cruise, right |-> Cruise]
Away == [left |-> Cruise, right |-> -Turn]

Init ==
    /\ PwmInit /\ BridgeInit /\ BlinkInit
    /\ l298n_stat = 0
    /\ scoping = FALSE
    /\ near = FALSE
    /\ restarted = FALSE
    /\ \E b \in Budgets : drives = b[1] /\ lampCalls = b[2]

-----------------------------------------------------------------------------
(* steer_car.lua *)

Obstacle(distance) ==
    /\ TooClose(distance)
    /\ GpioBlink({led_warn}, WarnCount)
    /\ Set(Away, "script")
    /\ l298n_stat' = 1
    /\ restarted' = FALSE

GoOn(distance) ==
    /\ ~TooClose(distance) /\ Clear(distance)
    /\ l298n_stat' = 0
    /\ Set(Straight, "script")
    /\ restarted' = FALSE
    /\ UNCHANGED lamps

Ignored(distance) ==
    /\ ~TooClose(distance) /\ ~Clear(distance)
    /\ UNCHANGED <<hw, account, gradual, bridge, lamps, l298n_stat, restarted>>

\* ultrasonic_done
Measured ==
    /\ scoping
    /\ \E distance \in Distances :
          /\ Obstacle(distance) \/ GoOn(distance) \/ Ignored(distance)
          /\ near' = (distance <= 20 \/ (near /\ distance <= 30))
    /\ UNCHANGED <<scoping, drives, lampCalls>>

\* automatic(), which leaves l298n_stat as it is
Automatic ==
    /\ scoping' = TRUE
    /\ Set(Straight, "script")
    /\ restarted' = TRUE
    /\ UNCHANGED <<lamps, l298n_stat, near, drives, lampCalls>>

-----------------------------------------------------------------------------
(* Commands of clients, calls of other scripts *)

Driving ==
    /\ drives > 0
    /\ drives' = drives - 1
    /\ UNCHANGED <<lamps, script, lampCalls>>

Lighting ==
    /\ lampCalls > 0
    /\ lampCalls' = lampCalls - 1
    /\ UNCHANGED <<hw, account, gradual, bridge, script, drives>>

ClientGear ==
    /\ Driving
    /\ \E s \in Sides, c \in GearCommands : Gear(s, c)

ScriptSet ==
    /\ Driving
    /\ \E v \in [Sides -> Speeds] : Set(v, "other")

ScriptChange ==
    /\ Driving
    /\ \E d \in [Sides -> Deltas] : Change(d, "other")

ClientPwm ==
    /\ Driving
    /\ \E ns \in SUBSET Channels \ {{}} : PwmCommand(ns) /\ Overwritten(ns)

ScriptPwm ==
    /\ Driving
    /\ \E n \in Channels : PwmGradual(n) /\ Overwritten({n})

ClientGpio ==
    /\ Lighting
    /\ \E ps \in SUBSET Pins \ {{}}, alt \in Functions, level \in {-1, 0, 1}, count \in Counts :
          GpioCommand(ps, alt, level, count)

ScriptBlink ==
    /\ Lighting
    /\ \E p \in Pins, count \in Counts : GpioBlink({p}, count)

\* The handler of infrared_sensor in devtree_car.lua
Infrared ==
    /\ Lighting
    /\ \E level \in {0, 1} : ScriptWrites(laster, level)

-----------------------------------------------------------------------------
LampTick(s) ==
    /\ Tick(s)
    /\ UNCHANGED <<hw, account, gradual, bridge, script, drives, lampCalls>>

PwmTick ==
    /\ GradualTick
    /\ UNCHANGED <<bridge, lamps, script, drives, lampCalls>>

Next ==
    \/ Measured \/ Automatic \/ Infrared
    \/ ClientGear \/ ScriptSet \/ ScriptChange \/ ClientPwm \/ ScriptPwm
    \/ ClientGpio \/ ScriptBlink
    \/ PwmTick \/ \E s \in Slots : LampTick(s)

Spec == Init /\ [][Next]_vars

-----------------------------------------------------------------------------
(* Properties *)

TypeOK ==
    /\ hw \in [Channels -> [range : Int, data : Int]]
    /\ channels \in [Channels -> [range : Int, data : Int]]
    /\ odd \subseteq Channels
    /\ gradual \in 0..MaxGradual
    /\ speed \in [Sides -> -FullRange..FullRange]
    /\ forward \in [Sides -> BOOLEAN]
    /\ wheel \in [Sides -> {"forward", "reverse", "free"}]
    /\ by \in [Sides -> {"nobody", "client", "script", "other", "pwm"}]
    /\ astray \in [Sides -> BOOLEAN]
    /\ gpios \in [Pins -> [level : {0, 1}, initialized : BOOLEAN]]
    /\ pin \in [Pins -> [output : BOOLEAN, level : {0, 1}]]
    /\ \A s \in Slots :
          /\ blinks[s].pins \subseteq Pins
          /\ blinks[s].count \in Counts \cup {0, WarnCount}
          /\ blinks[s].counted \in 0..Max({blinks[s].count, 0})
    /\ l298n_stat \in {0, 1} /\ scoping \in BOOLEAN
    /\ near \in BOOLEAN /\ restarted \in BOOLEAN
    /\ drives \in Nat /\ lampCalls \in Nat

\* As long as the script's own speeds are what both wheels last had, the car
\* turns on the spot from an obstacle of 20 cm or less until one measure is of
\* more than 30, and otherwise goes straight on (steer_car.lua 9-34): no client, no skipped write of
\* l298n_set and no order of measures makes it approach an obstacle it knows
\* of.  automatic() sets off straight whatever was known (31).
TurnsFromObstacle ==
    (\A s \in Sides : by[s] = "script") =>
        IF near /\ ~restarted
        THEN wheel = [left |-> "forward", right |-> "reverse"]
        ELSE wheel = [s \in Sides |-> "forward"]
=============================================================================
