------------------------------- MODULE HBridge -------------------------------
(***************************************************************************)
(* The motor driver of src/raspd/l298n.c over the PWM channels.  It has two  *)
(* interfaces that share left_speed and right_speed: commands of clients,    *)
(* for which a speed is a gear and the direction is kept apart, and calls of *)
(* scripts, for which a speed is signed and counts in units of the range.    *)
(***************************************************************************)
EXTENDS Pwm

CONSTANTS
    MaxSpeed,  \* gears
    DtRange    \* the range of the device tree; the driver rounds it down

ASSUME GearsAssumption == MaxSpeed \in Nat \ {0} /\ DtRange \in Nat /\ DtRange >= MaxSpeed

VARIABLES
    speed,     \* left_speed and right_speed
    forward,   \* left_forward and right_forward
    wheel,     \* what in1 and in2, in3 and in4 tell the bridge
    by,        \* history: who wrote a side last
    astray     \* history: a side has had a signed speed since a client last braked

bridge == <<speed, forward, wheel, by, astray>>

Sides == {"left", "right"}

\* ena = 18 and enb = 13 of devtree_car.lua
Channel == [left |-> 0, right |-> 1]

Step == DtRange \div MaxSpeed
FullRange == Step * MaxSpeed

BridgeInit ==
    /\ speed = [s \in Sides |-> 0]
    /\ forward = [s \in Sides |-> FALSE]
    /\ wheel = [s \in Sides |-> "free"]
    /\ hw = [n \in Channels |-> [range |-> FullRange, data |-> 0]]
    /\ by = [s \in Sides |-> "nobody"]
    /\ astray = [s \in Sides |-> FALSE]

Direction(v) == IF v > 0 THEN "forward" ELSE IF v < 0 THEN "reverse" ELSE "free"

Abs(v) == IF v < 0 THEN -v ELSE v

\* l298n_forward_reverse: a gear is a number of steps
GearData(v) == Abs(v) * Step

\* set_speed: a signed speed is the data
SpeedData(v) == Abs(v)

SideOf(n) == CHOOSE s \in Sides : Channel[s] = n

\* Write the wheels and the channels of a set of sides
Drive(sides, v, data) ==
    /\ wheel' = [s \in Sides |-> IF s \in sides THEN Direction(v[s]) ELSE wheel[s]]
    /\ hw' = [n \in Channels |-> IF SideOf(n) \in sides
                                 THEN [hw[n] EXCEPT !.data = data[SideOf(n)]]
                                 ELSE hw[n]]

GearCommands == {"up", "down", "brake", "speedup", "speeddown"}

MutShifted(c, l) ==
    CASE c = "brake"     -> 0
      [] c = "speedup"   -> l + 1
      [] c = "speeddown" -> Max({0, l - 1})
      [] OTHER           -> l

\* The gear after a command
Shifted(c, l) ==
    CASE c = "brake"     -> 0
      [] c = "speedup"   -> Min({MaxSpeed, l + 1})
      [] c = "speeddown" -> Max({0, l - 1})
      [] OTHER           -> l

\* l298n_lup ... l298n_rspeeddown, the commands of clients
Gear(s, c) ==
    LET fwd == IF c \in {"up", "down"} THEN c = "up" ELSE forward[s]
        l   == Shifted(c, speed[s])
        v   == IF fwd THEN l ELSE -l
    IN  /\ forward' = [forward EXCEPT ![s] = fwd]
        /\ speed' = [speed EXCEPT ![s] = l]
        /\ Drive({s}, [t \in Sides |-> v], [t \in Sides |-> GearData(v)])
        /\ by' = [by EXCEPT ![s] = "client"]
        /\ astray' = [astray EXCEPT ![s] = @ /\ c # "brake"]
        /\ UNCHANGED <<account, gradual>>

\* Drive sides at the signed speeds v, which are clamped first
Signed(sides, v, who) ==
    LET new == [s \in Sides |-> IF s \in sides
                                THEN Clamped(v[s], -FullRange, FullRange)
                                ELSE speed[s]]
    IN  /\ speed' = new
        /\ Drive(sides, new, [s \in Sides |-> SpeedData(new[s])])
        /\ by' = [s \in Sides |-> IF s \in sides THEN who ELSE by[s]]
        /\ astray' = [s \in Sides |-> s \in sides \/ astray[s]]
        /\ UNCHANGED <<forward, account, gradual>>

\* l298n_set leaves a side alone whose cached speed is the new one
Stale(v) == {s \in Sides : speed[s] # v[s]}

Set(v, who) == Signed(Stale(v), v, who)

\* l298n_change adds, and leaves a side alone that it adds nothing to
Change(d, who) ==
    Signed({s \in Sides : d[s] # 0}, [s \in Sides |-> speed[s] + d[s]], who)

\* A pwm command, as far as the bridge is concerned
Overwritten(ns) ==
    /\ by' = [s \in Sides |-> IF Channel[s] \in ns THEN "pwm" ELSE by[s]]
    /\ UNCHANGED <<speed, forward, wheel, astray>>

-----------------------------------------------------------------------------
\* Gears count from whatever speed a script has left, and are clamped at one
\* end each.  But once a client brakes, and until a script's call writes a speed,
\* a side turns as the client last said, in gears that there are, and has no more
\* data than the range the driver gave its channel (l298n.c 61-93).
GearsReturn ==
    \A s \in Sides : ~astray[s] =>
        /\ speed[s] \in 0..MaxSpeed
        /\ by[s] = "client" =>
              /\ wheel[s] = IF speed[s] = 0 THEN "free"
                            ELSE IF forward[s] THEN "forward" ELSE "reverse"
              /\ hw[Channel[s]].data \in 0..FullRange

\* --up and --down count from whatever data the channel had by pwm.c's account,
\* by steps and to ranges that may be negative, and are clamped at one end each.
\* But from a --set on, until one is negative, the data are within some range
\* that was asked for (pwm.c 79-86); and the account is right of the range, though
\* a range is not written twice (74) and the bridge writes past it: only a 0 asked
\* for first is believed and never written.
DataReturn ==
    \A n \in Channels :
        /\ n \notin odd => \E r \in Ranges \cup {0} : channels[n].data \in 0..r
        /\ by[SideOf(n)] = "pwm" => hw[n].data = channels[n].data
        /\ \/ hw[n].range = channels[n].range
           \/ channels[n].range = 0 /\ hw[n].range = FullRange

\* What clients count, gears and data, is in its range again once it starts
\* anew, whatever scripts and other commands did in between.
CountsReturn == GearsReturn /\ DataReturn
=============================================================================
