------------------------------- MODULE CarProofs -------------------------------
(***************************************************************************)
(* Proofs about Car and the modules it is built from, for all pins, counts,  *)
(* ranges, speeds and distances.  The wheels, the lamps and the script have  *)
(* an invariant each; the actions change one or two of the three.            *)
(***************************************************************************)
EXTENDS Car, WellFoundedInduction, TLAPS

Owners == {"nobody", "client", "script", "other", "pwm"}

WheelTypes ==
    /\ hw \in [Channels -> [range : Int, data : Int]]
    /\ channels \in [Channels -> [range : Int, data : Int]]
    /\ odd \subseteq Channels
    /\ gradual \in 0..MaxGradual
    /\ speed \in [Sides -> -FullRange..FullRange]
    /\ forward \in [Sides -> BOOLEAN]
    /\ wheel \in [Sides -> {"forward", "reverse", "free"}]
    /\ by \in [Sides -> Owners]
    /\ astray \in [Sides -> BOOLEAN]

\* What drives side s, by the interface that wrote it last.
Follows(s) ==
    /\ by[s] = "client" =>
          LET v == IF forward[s] THEN speed[s] ELSE -speed[s]
          IN  wheel[s] = Direction(v) /\ hw[Channel[s]].data = GearData(v)
    /\ by[s] \in {"script", "other"} =>
          wheel[s] = Direction(speed[s]) /\ hw[Channel[s]].data = SpeedData(speed[s])
    /\ by[s] = "pwm" => hw[Channel[s]].data = channels[Channel[s]].data

\* Between a brake and a signed speed, the speed of a side is a gear.
Geared(s) == ~astray[s] => speed[s] \in 0..MaxSpeed

\* The range that pwm_set believes to be in a channel is there, or it has been
\* told none but 0; data that only set and ordinary steps made are within a range
\* that was asked for.
Believed(n) ==
    /\ \/ hw[n].range = channels[n].range
       \/ channels[n].range = 0 /\ hw[n].range = FullRange
    /\ n \notin odd => \E r \in Ranges \cup {0} : channels[n].data \in 0..r

WheelInv ==
    /\ WheelTypes
    /\ \A s \in Sides : Follows(s) /\ Geared(s)
    /\ \A n \in Channels : Believed(n)

\* A blink counts no further than its count, and an endless one not at all.
BlinkSet ==
    {b \in [pins : SUBSET Pins, count : Counts \cup {0, WarnCount}, counted : Nat] :
        IF b.count = -1 THEN b.counted = 0 ELSE b.counted <= b.count}

LampTypes ==
    /\ gpios \in [Pins -> [level : {0, 1}, initialized : BOOLEAN]]
    /\ pin \in [Pins -> [output : BOOLEAN, level : {0, 1}]]
    /\ blinks \in [Slots -> BlinkSet]
    /\ alone \subseteq Pins
    /\ settles \in [Pins -> {0, 1}]

\* A pin that only its blink touches is lit as noted; the toggles that are left
\* bring it to where it settles, and there is one blink at most to make them.
Alone(p) ==
    /\ pin[p].output = TRUE /\ pin[p].level = gpios[p].level
    /\ \A s \in Slots : p \in blinks[s].pins =>
          /\ blinks[s].count # -1 =>
                (gpios[p].level + (blinks[s].count - blinks[s].counted)) % 2 = settles[p]
          /\ \A t \in Slots \ {s} : p \notin blinks[t].pins
    /\ (\A s \in Slots : p \notin blinks[s].pins) => gpios[p].level = settles[p]

LampInv == LampTypes /\ \A p \in alone : Alone(p)

Target == IF near /\ ~restarted THEN Away ELSE Straight

\* A side that the script wrote last has the speed that the script wants now;
\* l298n_stat is what the script knows of the obstacle.
ScriptInv ==
    /\ l298n_stat \in {0, 1} /\ scoping \in BOOLEAN
    /\ near \in BOOLEAN /\ restarted \in BOOLEAN
    /\ near <=> l298n_stat = 1
    /\ \A s \in Sides :
          by[s] = "script" => speed[s] = Clamped(Target[s], -FullRange, FullRange)

IInv == WheelInv /\ LampInv /\ ScriptInv /\ drives \in Nat /\ lampCalls \in Nat

-----------------------------------------------------------------------------
(* The operators of the models.                                             *)

LEMMA MaxIs == \A a, b \in Int : Max({a, b}) = IF a >= b THEN a ELSE b
<1> SUFFICES ASSUME NEW a \in Int, NEW b \in Int
             PROVE  Max({a, b}) = IF a >= b THEN a ELSE b
  OBVIOUS
<1> DEFINE m == IF a >= b THEN a ELSE b
<1>1. m \in {a, b} /\ \A y \in {a, b} : m >= y
  OBVIOUS
<1>2. \A x \in {a, b} : (\A y \in {a, b} : x >= y) => x = m
  OBVIOUS
<1> HIDE DEF m
<1>3. Max({a, b}) \in {a, b} /\ \A y \in {a, b} : Max({a, b}) >= y
  BY <1>1 DEF Max
<1>4. Max({a, b}) = m
  BY <1>2, <1>3
<1> QED BY <1>4 DEF m

LEMMA MinIs == \A a, b \in Int : Min({a, b}) = IF a <= b THEN a ELSE b
<1> SUFFICES ASSUME NEW a \in Int, NEW b \in Int
             PROVE  Min({a, b}) = IF a <= b THEN a ELSE b
  OBVIOUS
<1> DEFINE m == IF a <= b THEN a ELSE b
<1>1. m \in {a, b} /\ \A y \in {a, b} : m <= y
  OBVIOUS
<1>2. \A x \in {a, b} : (\A y \in {a, b} : x <= y) => x = m
  OBVIOUS
<1> HIDE DEF m
<1>3. Min({a, b}) \in {a, b} /\ \A y \in {a, b} : Min({a, b}) <= y
  BY <1>1 DEF Min
<1>4. Min({a, b}) = m
  BY <1>2, <1>3
<1> QED BY <1>4 DEF m

\* The least of a set of naturals is one of them.
LEMMA MinOfSlots == ASSUME NEW S \in SUBSET Nat, S # {} PROVE Min(S) \in S
<1>1. IsWellFoundedOn(OpToRel(<, Nat), Nat)
  BY NatLessThanWellFounded
<1>2. PICK x \in S : \A y \in S : ~ (<<y, x>> \in OpToRel(<, Nat))
  <2> DEFINE R == OpToRel(<, Nat)
  <2> HIDE DEF R
  <2>1. \E x \in S : \A y \in S : ~ (<<y, x>> \in R)
    BY <1>1, WFMin DEF R
  <2> QED BY <2>1 DEF R
<1>3. \A y \in S : ~ (y < x)
  BY <1>2 DEF OpToRel
<1>4. \A y \in S : x <= y
  BY <1>3
<1> QED BY <1>4 DEF Min

\* A clamped number is in the range, itself if it was, and has its own sign.
LEMMA ClampedIs ==
    ASSUME NEW v \in Int, NEW low \in Int, NEW high \in Int, low <= high
    PROVE  /\ Clamped(v, low, high) \in low..high
           /\ v \in low..high => Clamped(v, low, high) = v
           /\ low < 0 /\ v < 0 => Clamped(v, low, high) < 0
           /\ high > 0 /\ v > 0 => Clamped(v, low, high) > 0
<1> DEFINE m == IF v <= high THEN v ELSE high
<1>1. Min({v, high}) = m /\ m \in Int
  BY MinIs
<1>2. Clamped(v, low, high) = IF m >= low THEN m ELSE low
  <2> HIDE DEF m
  <2> QED BY <1>1, MaxIs DEF Clamped
<1> QED BY <1>2

\* A step is one at least, so that a gear is a part of the range.
LEMMA StepIs ==
    /\ Step \in Nat \ {0}
    /\ FullRange \in Nat /\ MaxSpeed <= FullRange /\ FullRange > 0
    /\ MaxSpeed \in Nat
    /\ \A v \in 0..MaxSpeed : v * Step \in Nat /\ v * Step <= FullRange
<1>1. MaxSpeed \in Nat \ {0} /\ DtRange \in Nat /\ DtRange >= MaxSpeed
  BY GearsAssumption
<1>2. \A a \in Nat, b \in Nat \ {0} : a >= b => a \div b \in Nat \ {0}
  OBVIOUS
<1>3. Step \in Nat \ {0}
  BY <1>1, <1>2 DEF Step
<1>4. \A a, b \in Nat, k \in Nat \ {0} : a <= b => a * k \in Nat /\ a * k <= b * k
  OBVIOUS
<1>5. \A b \in Nat, k \in Nat \ {0} : b * k \in Nat /\ b <= b * k
  OBVIOUS
<1>6. Step * MaxSpeed = MaxSpeed * Step
  BY <1>1, <1>3
<1>7. FullRange \in Nat /\ MaxSpeed <= FullRange
  BY <1>1, <1>3, <1>5, <1>6 DEF FullRange
<1>8. \A v \in 0..MaxSpeed : v * Step \in Nat /\ v * Step <= MaxSpeed * Step
  BY <1>1, <1>3, <1>4
<1> QED BY <1>1, <1>3, <1>6, <1>7, <1>8 DEF FullRange

\* One channel for each side.
LEMMA ChannelIs ==
    /\ Channel["left"] = 0 /\ Channel["right"] = 1
    /\ \A s \in Sides : Channel[s] \in Channels /\ SideOf(Channel[s]) = s
    /\ \A n \in Channels : SideOf(n) \in Sides /\ Channel[SideOf(n)] = n
<1>1. Channel["left"] = 0 /\ Channel["right"] = 1
  BY DEF Channel
<1>2. \A s, t \in Sides : Channel[s] = Channel[t] => s = t
  BY <1>1 DEF Sides
<1>3. \A s \in Sides : SideOf(Channel[s]) = s
  BY <1>2 DEF SideOf
<1>4. \A n \in Channels : \E s \in Sides : Channel[s] = n
  BY <1>1 DEF Sides, Channels
<1> QED BY <1>1, <1>3, <1>4 DEF Sides, Channels

LEMMA Parity ==
    /\ \A l \in {0, 1}, k \in Nat : ((1 - l) + (k - 1)) % 2 = (l + k) % 2
    /\ \A k \in Nat : (1 + k) % 2 \in {0, 1}
    /\ \A l \in {0, 1} : (l + 0) % 2 = l
<1>1. \A k \in Int : (k - 2) % 2 = k % 2 /\ k % 2 \in {0, 1}
  OBVIOUS
<1>2. \A k \in Nat : ((1 - 0) + (k - 1)) = 0 + k /\ ((1 - 1) + (k - 1)) = (1 + k) - 2
  OBVIOUS
<1> QED BY <1>1, <1>2

-----------------------------------------------------------------------------
(* The wheels and the channels.                                             *)

Registers == [range : Int, data : Int]

\* Drive writes the wheels and the data of its sides, never a range.
LEMMA DriveEffect ==
    ASSUME WheelTypes, NEW sides \in SUBSET Sides, NEW v, NEW data,
           \A s \in sides : data[s] \in Nat,
           Drive(sides, v, data)
    PROVE  /\ hw' \in [Channels -> Registers]
           /\ wheel' \in [Sides -> {"forward", "reverse", "free"}]
           /\ \A s \in sides : wheel'[s] = Direction(v[s]) /\ hw'[Channel[s]].data = data[s]
           /\ \A s \in Sides \ sides :
                 wheel'[s] = wheel[s] /\ hw'[Channel[s]] = hw[Channel[s]]
           /\ \A n \in Channels : hw'[n].range = hw[n].range
<1>1. hw \in [Channels -> Registers] /\ wheel \in [Sides -> {"forward", "reverse", "free"}]
  BY DEF WheelTypes, Registers
<1>2. wheel' = [s \in Sides |-> IF s \in sides THEN Direction(v[s]) ELSE wheel[s]]
  BY DEF Drive
<1>3. \A s \in Sides : Direction(v[s]) \in {"forward", "reverse", "free"}
  BY DEF Direction
<1>4. wheel' \in [Sides -> {"forward", "reverse", "free"}]
  BY <1>1, <1>2, <1>3
<1>5. hw' = [n \in Channels |-> IF SideOf(n) \in sides
                                THEN [hw[n] EXCEPT !.data = data[SideOf(n)]] ELSE hw[n]]
  BY DEF Drive
<1>6. \A r \in Registers, d \in Nat :
          /\ [r EXCEPT !.data = d] \in Registers
          /\ [r EXCEPT !.data = d].data = d
          /\ [r EXCEPT !.data = d].range = r.range
  BY DEF Registers
<1>7. \A n \in Channels : SideOf(n) \in sides => data[SideOf(n)] \in Nat
  OBVIOUS
<1>8. \A n \in Channels : hw'[n] \in Registers /\ hw'[n].range = hw[n].range
  <2> HIDE DEF Registers
  <2> SUFFICES ASSUME NEW n \in Channels
               PROVE  hw'[n] \in Registers /\ hw'[n].range = hw[n].range
    OBVIOUS
  <2>1. CASE SideOf(n) \in sides
    BY <1>1, <1>5, <1>6, <1>7, <2>1
  <2>2. CASE SideOf(n) \notin sides
    BY <1>1, <1>5, <2>2
  <2> QED BY <2>1, <2>2
<1>9. hw' \in [Channels -> Registers]
  BY <1>5, <1>8
<1>10. \A s \in sides : hw'[Channel[s]].data = data[s]
  <2> SUFFICES ASSUME NEW s \in sides PROVE hw'[Channel[s]].data = data[s]
    OBVIOUS
  <2>1. Channel[s] \in Channels /\ SideOf(Channel[s]) = s
    BY ChannelIs
  <2>2. hw'[Channel[s]] = [hw[Channel[s]] EXCEPT !.data = data[s]]
    BY <1>5, <2>1
  <2> QED BY <1>1, <1>6, <2>1, <2>2
<1>11. \A s \in Sides \ sides : hw'[Channel[s]] = hw[Channel[s]]
  BY <1>5, ChannelIs
<1> QED BY <1>2, <1>4, <1>8, <1>9, <1>10, <1>11

\* A command of a client: a gear in the direction that is kept apart.
LEMMA GearEffect ==
    ASSUME WheelInv, NEW s \in Sides, NEW c \in GearCommands, Gear(s, c)
    PROVE  /\ WheelInv'
           /\ by'[s] = "client"
           /\ \A t \in Sides \ {s} : by'[t] = by[t] /\ speed'[t] = speed[t]
<1> DEFINE fwd == IF c \in {"up", "down"} THEN c = "up" ELSE forward[s]
           l   == Shifted(c, speed[s])
           v   == IF fwd THEN l ELSE -l
<1>1. WheelTypes /\ (\A t \in Sides : Follows(t) /\ Geared(t)) /\ \A n \in Channels : Believed(n)
  BY DEF WheelInv
<1>2. /\ speed \in [Sides -> -FullRange..FullRange] /\ forward \in [Sides -> BOOLEAN]
      /\ by \in [Sides -> Owners] /\ astray \in [Sides -> BOOLEAN]
  BY <1>1 DEF WheelTypes
<1>3. /\ forward' = [forward EXCEPT ![s] = fwd]
      /\ speed' = [speed EXCEPT ![s] = l]
      /\ Drive({s}, [t \in Sides |-> v], [t \in Sides |-> GearData(v)])
      /\ by' = [by EXCEPT ![s] = "client"]
      /\ astray' = [astray EXCEPT ![s] = @ /\ c # "brake"]
      /\ UNCHANGED <<channels, odd, gradual>>
  BY DEF Gear, account
<1>4. l \in -FullRange..FullRange /\ (speed[s] \in 0..MaxSpeed \/ c = "brake" => l \in 0..MaxSpeed)
  <2>1. FullRange \in Nat /\ MaxSpeed \in Nat /\ MaxSpeed <= FullRange
    BY StepIs
  <2>2. speed[s] \in Int /\ speed[s] + 1 \in Int /\ speed[s] - 1 \in Int
        /\ speed[s] >= -FullRange /\ speed[s] <= FullRange
    BY <1>2, <2>1
  <2>3. CASE c = "speedup"
    <3>1. l = IF MaxSpeed <= speed[s] + 1 THEN MaxSpeed ELSE speed[s] + 1
      BY <2>1, <2>2, <2>3, MinIs DEF Shifted
    <3> HIDE DEF l
    <3> QED BY <2>3, <2>1, <2>2, <3>1
  <2>4. CASE c = "speeddown"
    <3>1. l = IF 0 >= speed[s] - 1 THEN 0 ELSE speed[s] - 1
      <4>1. l = Max({0, speed[s] - 1})
        BY <2>4 DEF Shifted
      <4>2. 0 \in Int
        OBVIOUS
      <4> HIDE DEF l
      <4> QED BY <2>2, <4>1, <4>2, MaxIs
    <3> HIDE DEF l
    <3> QED BY <2>4, <2>1, <2>2, <3>1
  <2>5. CASE c \notin {"speedup", "speeddown"}
    <3>1. l \in {0, speed[s]} /\ (c = "brake" => l = 0)
      BY <2>5 DEF Shifted
    <3> HIDE DEF l
    <3> QED BY <1>2, <2>1, <3>1
  <2> QED BY <2>3, <2>4, <2>5
<1>5. fwd \in BOOLEAN
  BY <1>2
<1> HIDE DEF l, fwd
<1>6. v \in Int /\ GearData(v) \in Nat
  <2>1. v \in Int
    BY <1>4, StepIs
  <2>2. Abs(v) \in Nat
    BY <2>1 DEF Abs
  <2>3. \A a \in Nat, b \in Nat : a * b \in Nat
    OBVIOUS
  <2> QED BY <2>1, <2>2, <2>3, StepIs DEF GearData
<1> HIDE DEF v
<1>7. /\ hw' \in [Channels -> Registers]
      /\ wheel' \in [Sides -> {"forward", "reverse", "free"}]
      /\ wheel'[s] = Direction(v) /\ hw'[Channel[s]].data = GearData(v)
      /\ \A t \in Sides \ {s} : wheel'[t] = wheel[t] /\ hw'[Channel[t]] = hw[Channel[t]]
      /\ \A n \in Channels : hw'[n].range = hw[n].range
  <2> DEFINE f == [t \in Sides |-> v]
             g == [t \in Sides |-> GearData(v)]
  <2>1. f[s] = v /\ g[s] = GearData(v) /\ {s} \in SUBSET Sides /\ Drive({s}, f, g)
    BY <1>3
  <2>2. \A t \in {s} : g[t] \in Nat
    BY <1>6
  <2> HIDE DEF f, g
  <2> QED BY <1>1, <2>1, <2>2, DriveEffect
<1>8. /\ speed' \in [Sides -> -FullRange..FullRange] /\ forward' \in [Sides -> BOOLEAN]
      /\ by' \in [Sides -> Owners]
      /\ by'[s] = "client" /\ speed'[s] = l /\ forward'[s] = fwd
      /\ \A t \in Sides \ {s} :
            by'[t] = by[t] /\ speed'[t] = speed[t] /\ forward'[t] = forward[t]
  BY <1>2, <1>3, <1>4, <1>5 DEF Owners
<1>15. /\ astray' \in [Sides -> BOOLEAN]
       /\ ~astray'[s] => ~astray[s] \/ c = "brake"
       /\ \A t \in Sides \ {s} : astray'[t] = astray[t]
  <2>1. (astray[s] /\ c # "brake") \in BOOLEAN
    OBVIOUS
  <2>2. astray'[s] = (astray[s] /\ c # "brake")
    BY <1>2, <1>3
  <2>3. \A t \in Sides \ {s} : astray'[t] = astray[t]
    BY <1>2, <1>3
  <2>4. astray' \in [Sides -> BOOLEAN]
    BY <1>2, <1>3, <2>1
  <2>5. ~astray'[s] => ~astray[s] \/ c = "brake"
    BY <2>2, Zenon
  <2> QED BY <2>3, <2>4, <2>5
<1>9. WheelTypes'
  BY <1>1, <1>3, <1>7, <1>8, <1>15 DEF WheelTypes, Registers
<1>10. Follows(s)'
  BY <1>7, <1>8 DEF Follows, v
<1>11. \A t \in Sides \ {s} : Follows(t)' /\ Geared(t)'
  BY <1>1, <1>3, <1>7, <1>8, <1>15 DEF Follows, Geared
<1>12. Geared(s)'
  BY <1>1, <1>3, <1>4, <1>8, <1>15 DEF Geared
<1>13. \A n \in Channels : Believed(n)'
  BY <1>1, <1>3, <1>7 DEF Believed
<1>14. WheelInv'
  BY <1>9, <1>10, <1>11, <1>12, <1>13 DEF WheelInv
<1> QED BY <1>8, <1>14

\* A call of a script: the speeds are clamped, and the data follow their size.
LEMMA SignedEffect ==
    ASSUME WheelInv, NEW sides \in SUBSET Sides, NEW v, NEW who \in {"script", "other"},
           \A s \in sides : v[s] \in Int,
           Signed(sides, v, who)
    PROVE  /\ WheelInv'
           /\ \A s \in sides :
                 by'[s] = who /\ speed'[s] = Clamped(v[s], -FullRange, FullRange)
           /\ \A s \in Sides \ sides : by'[s] = by[s] /\ speed'[s] = speed[s]
<1> DEFINE new == [s \in Sides |-> IF s \in sides THEN Clamped(v[s], -FullRange, FullRange)
                                   ELSE speed[s]]
           data == [s \in Sides |-> SpeedData(new[s])]
<1>1. WheelTypes /\ (\A t \in Sides : Follows(t) /\ Geared(t)) /\ \A n \in Channels : Believed(n)
  BY DEF WheelInv
<1>2. /\ speed \in [Sides -> -FullRange..FullRange]
      /\ by \in [Sides -> Owners] /\ astray \in [Sides -> BOOLEAN]
  BY <1>1 DEF WheelTypes
<1>3. /\ speed' = new /\ Drive(sides, new, data)
      /\ by' = [s \in Sides |-> IF s \in sides THEN who ELSE by[s]]
      /\ astray' = [s \in Sides |-> s \in sides \/ astray[s]]
      /\ UNCHANGED <<forward, channels, odd, gradual>>
  BY DEF Signed, account
<1>4. \A s \in sides : Clamped(v[s], -FullRange, FullRange) \in -FullRange..FullRange
  <2>1. -FullRange \in Int /\ FullRange \in Int /\ -FullRange <= FullRange
    BY StepIs
  <2> QED BY <2>1, ClampedIs
<1>5. new \in [Sides -> -FullRange..FullRange]
  BY <1>2, <1>4
<1>6. \A s \in Sides : data[s] = SpeedData(new[s]) /\ data[s] \in Nat
  <2> SUFFICES ASSUME NEW s \in Sides PROVE SpeedData(new[s]) \in Nat
    OBVIOUS
  <2>1. new[s] \in Int
    BY <1>5, StepIs
  <2> QED BY <2>1 DEF SpeedData, Abs
<1>7. /\ \A s \in sides : new[s] = Clamped(v[s], -FullRange, FullRange)
      /\ \A s \in Sides \ sides : new[s] = speed[s]
  OBVIOUS
<1> HIDE DEF new, data
<1>8. /\ hw' \in [Channels -> Registers]
      /\ wheel' \in [Sides -> {"forward", "reverse", "free"}]
      /\ \A s \in sides : wheel'[s] = Direction(new[s]) /\ hw'[Channel[s]].data = data[s]
      /\ \A s \in Sides \ sides :
            wheel'[s] = wheel[s] /\ hw'[Channel[s]] = hw[Channel[s]]
      /\ \A n \in Channels : hw'[n].range = hw[n].range
  BY <1>1, <1>3, <1>6, DriveEffect
<1>9. /\ by' \in [Sides -> Owners] /\ astray' \in [Sides -> BOOLEAN]
      /\ \A s \in sides : by'[s] = who /\ astray'[s] = TRUE
      /\ \A s \in Sides \ sides : by'[s] = by[s] /\ astray'[s] = astray[s]
  BY <1>2, <1>3 DEF Owners
<1>10. WheelTypes'
  BY <1>1, <1>3, <1>5, <1>8, <1>9 DEF WheelTypes, Registers
<1>11. \A s \in sides : Follows(s)' /\ Geared(s)'
  BY <1>3, <1>6, <1>8, <1>9 DEF Follows, Geared
<1>12. \A s \in Sides \ sides : Follows(s)' /\ Geared(s)'
  BY <1>1, <1>3, <1>7, <1>8, <1>9 DEF Follows, Geared
<1>13. \A n \in Channels : Believed(n)'
  BY <1>1, <1>3, <1>8 DEF Believed
<1>14. WheelInv'
  BY <1>10, <1>11, <1>12, <1>13 DEF WheelInv
<1> QED BY <1>3, <1>7, <1>9, <1>14

\* Data are ints.  Those of --set are within its range, and those counted in a
\* range by a step that are not negative within a range that was asked for.
LEMMA NewDataIs ==
    ASSUME NEW old \in Int, NEW range \in Ranges, NEW data \in Int, NEW incre \in {-1, 0, 1}
    PROVE  /\ NewData(old, range, data, incre) \in Int
           /\ \/ incre = 0
              \/ data >= 0 /\ range >= 0 /\ \E r \in Ranges \cup {0} : old \in 0..r
              => \E r \in Ranges \cup {0} : NewData(old, range, data, incre) \in 0..r
<1>1. range \in Int /\ \A r \in Ranges \cup {0} : r \in Int
  BY RangesAssumption
<1>2. CASE incre = 0
  <2>1. /\ Min({data, range}) \in Int
        /\ Min({data, range}) = IF data <= range THEN data ELSE range
    BY <1>1, MinIs
  <2>2. 0 \in Int
    OBVIOUS
  <2>3. Clamped(data, 0, range) = IF Min({data, range}) >= 0 THEN Min({data, range}) ELSE 0
    BY <2>1, <2>2, MaxIs DEF Clamped
  <2>4. NewData(old, range, data, incre) = Clamped(data, 0, range)
    BY <1>2 DEF NewData
  <2>5. NewData(old, range, data, incre) \in 0..range \/ NewData(old, range, data, incre) = 0
    BY <1>1, <2>1, <2>3, <2>4
  <2>6. 0 \in 0..0 /\ 0 \in Ranges \cup {0} /\ range \in Ranges \cup {0}
    OBVIOUS
  <2> QED BY <1>1, <2>5, <2>6
<1>3. CASE incre = 1
  <2>1. old + data \in Int
    OBVIOUS
  <2>2. NewData(old, range, data, incre) = IF old + data <= range THEN old + data ELSE range
    <3>1. NewData(old, range, data, incre) = Min({old + data, range})
      BY <1>3 DEF NewData
    <3> QED BY <1>1, <2>1, <3>1, MinIs
  <2>3. ASSUME data >= 0, range >= 0, NEW r \in Ranges \cup {0}, old \in 0..r
        PROVE  NewData(old, range, data, incre) \in 0..range
    BY <1>1, <2>2, <2>3
  <2> QED BY <1>1, <1>3, <2>1, <2>2, <2>3
<1>4. CASE incre = -1
  <2>1. old - data \in Int /\ 0 \in Int
    OBVIOUS
  <2>2. NewData(old, range, data, incre) = IF old - data >= 0 THEN old - data ELSE 0
    <3>1. NewData(old, range, data, incre) = Max({old - data, 0})
      BY <1>4 DEF NewData
    <3> QED BY <2>1, <3>1, MaxIs
  <2>3. ASSUME data >= 0, range >= 0, NEW r \in Ranges \cup {0}, old \in 0..r
        PROVE  NewData(old, range, data, incre) \in 0..r
    BY <1>1, <2>2, <2>3
  <2> QED BY <1>1, <1>4, <2>1, <2>2, <2>3
<1> QED BY <1>2, <1>3, <1>4

\* pwm_set writes the range unless it believes that it is there, as it is.
LEMMA PwmSetEffect ==
    ASSUME WheelInv, NEW ns \in SUBSET Channels,
           NEW range \in Ranges, NEW data \in Int, NEW incre \in {-1, 0, 1},
           PwmSet(ns, range, data, incre), Overwritten(ns), gradual' \in 0..MaxGradual
    PROVE  /\ WheelInv'
           /\ speed' = speed
           /\ \A s \in Sides : by'[s] \in {"pwm", by[s]}
<1> DEFINE Of(n) == [range |-> range,
                     data |-> NewData(channels[n].data, range, data, incre)]
           Reg(n) == [range |-> IF channels[n].range = range THEN hw[n].range ELSE range,
                      data |-> Of(n).data]
<1>1. WheelTypes /\ (\A s \in Sides : Follows(s) /\ Geared(s)) /\ \A n \in Channels : Believed(n)
  BY DEF WheelInv
<1>2. /\ hw \in [Channels -> Registers] /\ channels \in [Channels -> Registers]
      /\ by \in [Sides -> Owners]
  BY <1>1 DEF WheelTypes, Registers
<1>3. /\ channels' = [n \in Channels |-> IF n \in ns THEN Of(n) ELSE channels[n]]
      /\ hw' = [n \in Channels |-> IF n \in ns THEN Reg(n) ELSE hw[n]]
      /\ odd' = CASE incre = 0 -> odd \ ns
                  [] incre # 0 /\ (data < 0 \/ range < 0) -> odd \cup ns
                  [] OTHER -> odd
  BY DEF PwmSet
<1>4. /\ by' = [s \in Sides |-> IF Channel[s] \in ns THEN "pwm" ELSE by[s]]
      /\ UNCHANGED <<speed, forward, wheel, astray>>
  BY DEF Overwritten
<1>5. range \in Int
  BY RangesAssumption
<1>6. /\ odd' \subseteq Channels
      /\ \A n \in Channels \ ns : n \notin odd' => n \notin odd
      /\ \A n \in ns : n \notin odd' => incre = 0 \/ (data >= 0 /\ range >= 0 /\ n \notin odd)
  <2>1. odd \subseteq Channels
    BY <1>1 DEF WheelTypes
  <2>2. CASE incre = 0
    BY <1>3, <2>1, <2>2
  <2>3. CASE incre # 0 /\ (data < 0 \/ range < 0)
    BY <1>3, <2>1, <2>3
  <2>4. CASE incre # 0 /\ ~(data < 0 \/ range < 0)
    <3>1. odd' = odd /\ data >= 0 /\ range >= 0
      BY <1>3, <1>5, <2>4
    <3> QED BY <2>1, <3>1
  <2> QED BY <2>2, <2>3, <2>4
<1>7. \A n \in Channels : /\ Of(n).data \in Int /\ Of(n).range = range
                          /\ n \in ns /\ n \notin odd' =>
                                \E r \in Ranges \cup {0} : Of(n).data \in 0..r
  <2> SUFFICES ASSUME NEW n \in Channels
               PROVE  /\ Of(n).data \in Int /\ Of(n).range = range
                      /\ n \in ns /\ n \notin odd' =>
                            \E r \in Ranges \cup {0} : Of(n).data \in 0..r
    OBVIOUS
  <2>1. channels[n].data \in Int
        /\ (n \notin odd => \E r \in Ranges \cup {0} : channels[n].data \in 0..r)
    BY <1>1, <1>2 DEF Believed, Registers
  <2>2. Of(n).data = NewData(channels[n].data, range, data, incre) /\ Of(n).range = range
    OBVIOUS
  <2> HIDE DEF Of
  <2> DEFINE old == channels[n].data
             new == NewData(old, range, data, incre)
  <2>5. /\ new \in Int
        /\ \/ incre = 0
           \/ data >= 0 /\ range >= 0 /\ \E r \in Ranges \cup {0} : old \in 0..r
           => \E r \in Ranges \cup {0} : new \in 0..r
    <3>1. old \in Int
      BY <2>1
    <3> HIDE DEF old
    <3> QED BY <3>1, NewDataIs
  <2> HIDE DEF new
  <2>3. Of(n).data \in Int
    BY <2>2, <2>5 DEF new
  <2>4. ASSUME n \in ns, n \notin odd'
        PROVE  \E r \in Ranges \cup {0} : Of(n).data \in 0..r
    <3>1. incre = 0 \/ (data >= 0 /\ range >= 0 /\ n \notin odd)
      BY <1>6, <2>4
    <3>2. \/ incre = 0
          \/ data >= 0 /\ range >= 0 /\ \E r \in Ranges \cup {0} : channels[n].data \in 0..r
      BY <2>1, <3>1
    <3> QED BY <2>2, <2>5, <3>2 DEF new
  <2> QED BY <2>2, <2>3, <2>4
<1>16. \A n \in Channels : /\ Reg(n).data = Of(n).data
                           /\ \/ Reg(n).range = range
                              \/ range = 0 /\ Reg(n).range = FullRange
                           /\ Reg(n).range \in Int
  <2> SUFFICES ASSUME NEW n \in Channels
               PROVE  /\ Reg(n).data = Of(n).data
                      /\ \/ Reg(n).range = range
                         \/ range = 0 /\ Reg(n).range = FullRange
                      /\ Reg(n).range \in Int
    OBVIOUS
  <2>1. hw[n].range \in Int
        /\ \/ hw[n].range = channels[n].range
           \/ channels[n].range = 0 /\ hw[n].range = FullRange
    BY <1>1, <1>2 DEF Believed, Registers
  <2>2. Reg(n).data = Of(n).data
        /\ Reg(n).range = IF channels[n].range = range THEN hw[n].range ELSE range
    OBVIOUS
  <2> HIDE DEF Reg, Of
  <2> QED BY <1>5, <2>1, <2>2
<1>8. \A n \in Channels : Of(n) \in Registers /\ Reg(n) \in Registers
  BY <1>5, <1>7, <1>16 DEF Registers
<1> HIDE DEF Of, Reg
<1>9. hw' \in [Channels -> Registers] /\ channels' \in [Channels -> Registers]
  <2> HIDE DEF Registers
  <2> QED BY <1>2, <1>3, <1>8
<1>10. \A n \in Channels :
          /\ n \in ns => hw'[n] = Reg(n) /\ channels'[n] = Of(n)
          /\ n \notin ns => hw'[n] = hw[n] /\ channels'[n] = channels[n]
  BY <1>3
<1>11. \A n \in Channels : Believed(n)'
  <2> SUFFICES ASSUME NEW n \in Channels PROVE Believed(n)'
    OBVIOUS
  <2>1. CASE n \in ns
    BY <1>7, <1>10, <1>16, <2>1 DEF Believed
  <2>2. CASE n \notin ns
    BY <1>1, <1>6, <1>10, <2>2 DEF Believed
  <2> QED BY <2>1, <2>2
<1>12. by' \in [Sides -> Owners] /\ \A s \in Sides : by'[s] \in {"pwm", by[s]}
  BY <1>2, <1>4 DEF Owners
<1>13. WheelTypes'
  BY <1>1, <1>4, <1>6, <1>9, <1>12 DEF WheelTypes, Registers
<1>14. \A s \in Sides : Follows(s)' /\ Geared(s)'
  <2> SUFFICES ASSUME NEW s \in Sides PROVE Follows(s)' /\ Geared(s)'
    OBVIOUS
  <2>1. Channel[s] \in Channels
    BY ChannelIs
  <2>2. Geared(s)'
    BY <1>1, <1>4 DEF Geared
  <2>3. CASE Channel[s] \in ns
    <3>1. by'[s] = "pwm" /\ hw'[Channel[s]].data = channels'[Channel[s]].data
      BY <1>4, <1>10, <1>16, <2>1, <2>3
    <3> QED BY <2>2, <3>1 DEF Follows
  <2>4. CASE Channel[s] \notin ns
    <3>1. by'[s] = by[s] /\ hw'[Channel[s]] = hw[Channel[s]]
          /\ channels'[Channel[s]] = channels[Channel[s]]
      BY <1>4, <1>10, <2>1, <2>4
    <3> QED BY <1>1, <1>4, <2>2, <3>1 DEF Follows
  <2> QED BY <2>3, <2>4
<1>15. WheelInv'
  BY <1>11, <1>13, <1>14 DEF WheelInv
<1> QED BY <1>4, <1>12, <1>15

\* A command or a call of pwm.c, as far as the wheels are concerned.
LEMMA PwmEffect ==
    ASSUME WheelInv,
           \/ \E ns \in SUBSET Channels \ {{}} : PwmCommand(ns) /\ Overwritten(ns)
           \/ \E n \in Channels : PwmGradual(n) /\ Overwritten({n})
    PROVE  /\ WheelInv'
           /\ speed' = speed
           /\ \A s \in Sides : by'[s] \in {"pwm", by[s]}
<1>1. gradual \in 0..MaxGradual
  BY DEF WheelInv, WheelTypes
<1>2. ASSUME NEW ns \in SUBSET Channels, PwmCommand(ns), Overwritten(ns)
      PROVE  /\ WheelInv' /\ speed' = speed
             /\ \A s \in Sides : by'[s] \in {"pwm", by[s]}
  <2>1. gradual' \in 0..MaxGradual
    BY <1>1, <1>2 DEF PwmCommand
  <2>2. \/ \E range \in Ranges, data \in Datas : PwmSet(ns, range, data, 0)
        \/ \E range \in Ranges, step \in Steps, incre \in {-1, 1} :
              PwmSet(ns, range, step, incre)
    BY <1>2 DEF PwmCommand
  <2>3. CASE \E range \in Ranges, data \in Datas : PwmSet(ns, range, data, 0)
    <3>1. PICK range \in Ranges, data \in Int : PwmSet(ns, range, data, 0)
      BY <2>3, DatasAssumption
    <3> QED BY <1>2, <2>1, <3>1, PwmSetEffect
  <2>4. CASE \E range \in Ranges, step \in Steps, incre \in {-1, 1} :
                PwmSet(ns, range, step, incre)
    <3>1. PICK range \in Ranges, step \in Int, incre \in {-1, 1} :
              PwmSet(ns, range, step, incre)
      BY <2>4, StepsAssumption
    <3>2. incre \in {-1, 0, 1}
      OBVIOUS
    <3> QED BY <1>2, <2>1, <3>1, <3>2, PwmSetEffect
  <2> QED BY <2>2, <2>3, <2>4
<1>3. ASSUME NEW n \in Channels, PwmGradual(n), Overwritten({n})
      PROVE  /\ WheelInv' /\ speed' = speed
             /\ \A s \in Sides : by'[s] \in {"pwm", by[s]}
  <2>1. gradual' \in 0..MaxGradual
    BY <1>1, <1>3, MaxGradualAssumption DEF PwmGradual
  <2>2. PICK range \in Ranges, data \in Int : PwmSet({n}, range, data, 0)
    BY <1>3, DatasAssumption DEF PwmGradual
  <2>3. {n} \in SUBSET Channels
    OBVIOUS
  <2> QED BY <1>3, <2>1, <2>2, <2>3, PwmSetEffect
<1> QED BY <1>2, <1>3

\* The wheels keep their invariant while nothing of theirs but a timer changes.
LEMMA WheelsStay ==
    ASSUME WheelInv, UNCHANGED <<hw, channels, odd, bridge>>, gradual' \in 0..MaxGradual
    PROVE  WheelInv'
  BY DEF WheelInv, WheelTypes, Follows, Geared, Believed, bridge

-----------------------------------------------------------------------------
(* The lamps.                                                               *)

BlinkCounts == Counts \cup {0, WarnCount}

LEMMA CountsAre == BlinkCounts \subseteq Nat \cup {-1} /\ 0 \in BlinkCounts
<1>1. Counts \subseteq Nat \cup {-1} /\ WarnCount \in Nat
  BY CountsAssumption, LampsAssumption
<1> QED BY <1>1 DEF BlinkCounts

LEMMA BlinkIs ==
    /\ \A b \in BlinkSet :
          /\ b.pins \subseteq Pins /\ b.count \in BlinkCounts /\ b.counted \in Nat
          /\ b.count # -1 => b.count \in Nat /\ b.counted <= b.count
          /\ b.count = -1 => b.counted = 0
    /\ NoBlink \in BlinkSet /\ NoBlink.pins = {}
    /\ \A ps \in SUBSET Pins, k \in BlinkCounts :
          [pins |-> ps, count |-> k, counted |-> 0] \in BlinkSet
<1> DEFINE B == [pins : SUBSET Pins, count : BlinkCounts, counted : Nat]
<1>1. BlinkSet = {b \in B : IF b.count = -1 THEN b.counted = 0 ELSE b.counted <= b.count}
  BY DEF BlinkSet, BlinkCounts
<1>2. \A b \in B : b.pins \subseteq Pins /\ b.count \in BlinkCounts /\ b.counted \in Nat
  OBVIOUS
<1>3. \A ps \in SUBSET Pins, k \in BlinkCounts :
          /\ [pins |-> ps, count |-> k, counted |-> 0] \in B
          /\ [pins |-> ps, count |-> k, counted |-> 0].count = k
          /\ [pins |-> ps, count |-> k, counted |-> 0].counted = 0
  OBVIOUS
<1>4. NoBlink = [pins |-> {}, count |-> 0, counted |-> 0] /\ NoBlink.pins = {}
  BY DEF NoBlink
<1> HIDE DEF B
<1>5. \A k \in BlinkCounts : k # -1 => k \in Nat /\ 0 <= k
  BY CountsAre
<1>6. \A ps \in SUBSET Pins, k \in BlinkCounts :
          [pins |-> ps, count |-> k, counted |-> 0] \in BlinkSet
  <2> SUFFICES ASSUME NEW ps \in SUBSET Pins, NEW k \in BlinkCounts
               PROVE  [pins |-> ps, count |-> k, counted |-> 0] \in BlinkSet
    OBVIOUS
  <2> DEFINE b == [pins |-> ps, count |-> k, counted |-> 0]
  <2>1. b \in B /\ b.count = k /\ b.counted = 0
    BY <1>3
  <2>2. IF b.count = -1 THEN b.counted = 0 ELSE b.counted <= b.count
    BY <1>5, <2>1
  <2> QED BY <1>1, <2>1, <2>2
<1>7. NoBlink \in BlinkSet
  BY <1>4, <1>6, CountsAre
<1>8. \A b \in BlinkSet :
          /\ b.pins \subseteq Pins /\ b.count \in BlinkCounts /\ b.counted \in Nat
          /\ b.count # -1 => b.counted <= b.count
          /\ b.count = -1 => b.counted = 0
  BY <1>1, <1>2
<1> QED BY <1>4, <1>5, <1>6, <1>7, <1>8

\* A pin blinks when some slot has it.
LEMMA BlinkingIs == \A p : Blinking(p) <=> \E s \in Slots : p \in blinks[s].pins
<1>1. \A s \in Slots : blinks[s] = NoBlink => blinks[s].pins = {}
  BY BlinkIs
<1> QED BY <1>1 DEF Blinking, Pending

\* A new blink takes a slot that was free.
LEMMA RegisterEffect ==
    ASSUME LampTypes, NEW ps \in SUBSET Pins, NEW k \in BlinkCounts, Register(ps, k)
    PROVE  /\ blinks' \in [Slots -> BlinkSet]
           /\ \E s \in Slots :
                 /\ blinks[s].pins = {}
                 /\ blinks'[s] = [pins |-> ps, count |-> k, counted |-> 0]
                 /\ \A t \in Slots \ {s} : blinks'[t] = blinks[t]
<1> DEFINE free == Slots \ Pending
           s == Min(free)
           b == [pins |-> ps, count |-> k, counted |-> 0]
<1>1. free # {} /\ blinks' = [blinks EXCEPT ![s] = b]
  BY DEF Register
<1>2. free \in SUBSET Nat
  BY SlotsAssumption
<1>3. s \in free
  <2> HIDE DEF free
  <2> QED BY <1>1, <1>2, MinOfSlots
<1>4. s \in Slots /\ blinks[s] = NoBlink
  BY <1>3 DEF Pending
<1>5. b \in BlinkSet
  BY BlinkIs
<1> HIDE DEF s, b
<1>6. blinks \in [Slots -> BlinkSet]
  BY DEF LampTypes
<1>7. blinks' \in [Slots -> BlinkSet]
  BY <1>1, <1>4, <1>5, <1>6
<1>8. blinks'[s] = b /\ \A t \in Slots \ {s} : blinks'[t] = blinks[t]
  BY <1>1, <1>4, <1>6
<1> QED BY <1>4, <1>7, <1>8, BlinkIs DEF b

\* What happens to other pins and to their blinks is nothing to a pin.
LEMMA AloneStays ==
    ASSUME NEW p \in Pins, Alone(p),
           pin'[p] = pin[p], gpios'[p].level = gpios[p].level, settles'[p] = settles[p],
           \A s \in Slots : \/ blinks'[s] = blinks[s]
                            \/ p \notin blinks[s].pins /\ p \notin blinks'[s].pins
    PROVE  Alone(p)'
<1>1. \A s \in Slots : p \in blinks'[s].pins <=> p \in blinks[s].pins
  OBVIOUS
<1>2. \A s \in Slots : p \in blinks'[s].pins => blinks'[s] = blinks[s]
  OBVIOUS
<1> QED BY <1>1, <1>2 DEF Alone

\* gpio_blink_multi: the count of a pin's only blink says where it will settle.
LEMMA GpioBlinkStep ==
    ASSUME LampInv, NEW ps \in SUBSET Pins, NEW k \in BlinkCounts, GpioBlink(ps, k)
    PROVE  LampInv'
<1>1. LampTypes /\ \A p \in alone : Alone(p)
  BY DEF LampInv
<1>2. /\ gpios \in [Pins -> [level : {0, 1}, initialized : BOOLEAN]]
      /\ pin \in [Pins -> [output : BOOLEAN, level : {0, 1}]]
      /\ alone \subseteq Pins /\ settles \in [Pins -> {0, 1}]
  BY <1>1 DEF LampTypes
<1>3. blinks' \in [Slots -> BlinkSet]
  BY <1>1, RegisterEffect DEF GpioBlink
<1>4. PICK s \in Slots : /\ blinks[s].pins = {}
                         /\ blinks'[s] = [pins |-> ps, count |-> k, counted |-> 0]
                         /\ \A t \in Slots \ {s} : blinks'[t] = blinks[t]
  BY <1>1, RegisterEffect DEF GpioBlink
<1>5. gpios' = [p \in Pins |-> IF p \in ps THEN [gpios[p] EXCEPT !.level = 1] ELSE gpios[p]]
  BY DEF GpioBlink
<1>6. pin' = [p \in Pins |-> IF p \in ps THEN [output |-> TRUE, level |-> 1] ELSE pin[p]]
  BY DEF GpioBlink
<1>7. alone' = (alone \ ps) \cup {p \in ps : ~Blinking(p)}
  BY DEF GpioBlink
<1>8. settles' = [p \in Pins |-> IF p \in ps /\ k # -1 THEN (1 + k) % 2 ELSE settles[p]]
  BY DEF GpioBlink
<1>9. k # -1 => k \in Nat /\ (1 + k) % 2 \in {0, 1} /\ k - 0 = k
  BY CountsAre, Parity
<1>10. \A p \in ps : gpios'[p].level = 1 /\ pin'[p].level = 1 /\ pin'[p].output = TRUE
  BY <1>2, <1>5, <1>6
<1>11. \A p \in Pins \ ps : gpios'[p] = gpios[p] /\ pin'[p] = pin[p] /\ settles'[p] = settles[p]
  BY <1>5, <1>6, <1>8
<1>12. gpios' \in [Pins -> [level : {0, 1}, initialized : BOOLEAN]]
  BY <1>2, <1>5
<1>13. pin' \in [Pins -> [output : BOOLEAN, level : {0, 1}]]
  BY <1>2, <1>6
<1>14. settles' \in [Pins -> {0, 1}]
  BY <1>2, <1>8, <1>9
<1>15. LampTypes'
  BY <1>2, <1>3, <1>7, <1>12, <1>13, <1>14 DEF LampTypes
<1>16. ASSUME NEW p \in ps, ~Blinking(p) PROVE Alone(p)'
  <2>1. \A t \in Slots : p \in blinks'[t].pins => t = s
    BY <1>4, <1>16, BlinkingIs
  <2>2. blinks'[s].pins = ps /\ blinks'[s].count = k /\ blinks'[s].counted = 0
    BY <1>4
  <2>3. k # -1 => (gpios'[p].level + (k - 0)) % 2 = settles'[p]
    BY <1>8, <1>9, <1>10
  <2> QED BY <1>10, <2>1, <2>2, <2>3 DEF Alone
<1>17. ASSUME NEW p \in alone, p \notin ps PROVE Alone(p)'
  <2>1. \A t \in Slots : \/ blinks'[t] = blinks[t]
                         \/ p \notin blinks[t].pins /\ p \notin blinks'[t].pins
    BY <1>4, <1>17
  <2> QED BY <1>1, <1>2, <1>11, <1>17, <2>1, AloneStays
<1> QED BY <1>7, <1>15, <1>16, <1>17 DEF LampInv

\* cb_timer: a toggle takes one from the toggles that are left, and the last
\* tick takes the slot when none is.
LEMMA TickStep ==
    ASSUME LampInv, NEW s \in Slots, Tick(s)
    PROVE  LampInv'
<1> DEFINE b == blinks[s]
<1>1. LampTypes /\ \A p \in alone : Alone(p)
  BY DEF LampInv
<1>2. /\ gpios \in [Pins -> [level : {0, 1}, initialized : BOOLEAN]]
      /\ pin \in [Pins -> [output : BOOLEAN, level : {0, 1}]]
      /\ alone \subseteq Pins /\ blinks \in [Slots -> BlinkSet]
  BY <1>1 DEF LampTypes
<1>3. /\ b \in BlinkSet /\ b.pins \subseteq Pins /\ b.counted \in Nat /\ b.count \in BlinkCounts
      /\ b.count # -1 => b.count \in Nat /\ b.counted <= b.count
      /\ b.count = -1 => b.counted = 0
  BY <1>2, BlinkIs
<1>4. UNCHANGED <<alone, settles>>
  BY DEF Tick
<1>5. CASE Counted(b) /\ blinks' = [blinks EXCEPT ![s] = NoBlink] /\ UNCHANGED <<gpios, pin>>
  <2>1. /\ blinks' \in [Slots -> BlinkSet] /\ blinks'[s].pins = {}
        /\ \A t \in Slots \ {s} : blinks'[t] = blinks[t]
    BY <1>2, <1>5, BlinkIs
  <2>2. LampTypes'
    BY <1>1, <1>4, <1>5, <2>1 DEF LampTypes
  <2>3. b.count # -1 /\ b.count - b.counted = 0
    BY <1>3, <1>5 DEF Counted
  <2>4. ASSUME NEW p \in alone PROVE Alone(p)'
    <3>1. CASE p \in b.pins
      <4>1. \A t \in Slots : p \notin blinks'[t].pins
        BY <1>1, <2>1, <3>1 DEF Alone
      <4>2. (gpios[p].level + 0) % 2 = settles[p]
        BY <1>1, <2>3, <3>1 DEF Alone
      <4>3. gpios[p].level \in {0, 1}
        BY <1>2
      <4>4. gpios[p].level = settles[p]
        BY <4>2, <4>3, Parity
      <4> QED BY <1>1, <1>4, <1>5, <4>1, <4>4 DEF Alone
    <3>2. CASE p \notin b.pins
      <4>1. p \in Pins
        BY <1>2
      <4>2. \A t \in Slots : \/ blinks'[t] = blinks[t]
                             \/ p \notin blinks[t].pins /\ p \notin blinks'[t].pins
        BY <2>1, <3>2
      <4>3. pin'[p] = pin[p] /\ gpios'[p].level = gpios[p].level /\ settles'[p] = settles[p]
        BY <1>4, <1>5
      <4> QED BY <1>1, <4>1, <4>2, <4>3, AloneStays
    <3> QED BY <3>1, <3>2
  <2> QED BY <1>4, <2>2, <2>4 DEF LampInv
<1>6. CASE ~Counted(b) /\ blinks' = [blinks EXCEPT ![s].counted = CountOn(b)] /\ Toggled(b)
  <2> DEFINE n == [b EXCEPT !.counted = CountOn(b)]
  <2>1. n.pins = b.pins /\ n.count = b.count /\ n.counted = CountOn(b)
        /\ (CountOn(b) \in Nat => n \in [pins : SUBSET Pins, count : BlinkCounts, counted : Nat])
    <3>1. b \in [pins : SUBSET Pins, count : BlinkCounts, counted : Nat]
      BY <1>3 DEF BlinkSet, BlinkCounts
    <3> QED BY <3>1
  <2>2. /\ CountOn(b) \in Nat
        /\ b.count = -1 => CountOn(b) = 0
        /\ b.count # -1 => CountOn(b) = b.counted + 1 /\ CountOn(b) <= b.count
    BY <1>3, <1>6 DEF Counted, CountOn
  <2>3. n \in BlinkSet
    BY <2>1, <2>2 DEF BlinkSet, BlinkCounts
  <2>4. blinks' = [blinks EXCEPT ![s] = n]
    BY <1>6
  <2> HIDE DEF n
  <2>5. /\ blinks' \in [Slots -> BlinkSet] /\ blinks'[s] = n
        /\ \A t \in Slots \ {s} : blinks'[t] = blinks[t]
    BY <1>2, <2>3, <2>4
  <2>6. gpios' = [p \in Pins |-> IF p \in b.pins
                                 THEN [gpios[p] EXCEPT !.level = 1 - @] ELSE gpios[p]]
    BY <1>6 DEF Toggled
  <2>7. pin' = [p \in Pins |-> IF p \in b.pins
                               THEN [pin[p] EXCEPT !.level = gpios'[p].level] ELSE pin[p]]
    BY <1>6 DEF Toggled
  <2>8. gpios' \in [Pins -> [level : {0, 1}, initialized : BOOLEAN]]
    BY <1>2, <2>6
  <2>9. \A p \in b.pins : gpios'[p].level = 1 - gpios[p].level
    BY <1>2, <1>3, <2>6
  <2>10. pin' \in [Pins -> [output : BOOLEAN, level : {0, 1}]]
    BY <1>2, <2>7, <2>8
  <2>11. \A p \in b.pins : pin'[p].level = gpios'[p].level /\ pin'[p].output = pin[p].output
    BY <1>2, <1>3, <2>7
  <2>12. \A p \in Pins \ b.pins : gpios'[p] = gpios[p] /\ pin'[p] = pin[p]
    BY <2>6, <2>7
  <2>13. LampTypes'
    BY <1>1, <1>4, <2>5, <2>8, <2>10 DEF LampTypes
  <2>14. ASSUME NEW p \in alone PROVE Alone(p)'
    <3>0. p \in Pins /\ gpios[p].level \in {0, 1} /\ Alone(p)
      BY <1>1, <1>2
    <3>1. CASE p \in b.pins
      <4>1. \A t \in Slots \ {s} : p \notin blinks[t].pins
        BY <3>0, <3>1 DEF Alone
      <4>2. \A t \in Slots : p \in blinks'[t].pins => t = s
        BY <2>5, <4>1
      <4>3. p \in blinks'[s].pins
        BY <2>1, <2>5, <3>1
      <4>4. b.count # -1 =>
               (gpios'[p].level + (blinks'[s].count - blinks'[s].counted)) % 2 = settles'[p]
        <5> SUFFICES ASSUME b.count # -1
                     PROVE  (gpios'[p].level + (blinks'[s].count - blinks'[s].counted)) % 2
                                = settles'[p]
          OBVIOUS
        <5> DEFINE k == b.count - b.counted
        <5>1. k \in Nat /\ b.count - (b.counted + 1) = k - 1
          BY <1>3
        <5>2. (gpios[p].level + k) % 2 = settles[p]
          BY <3>0, <3>1 DEF Alone
        <5>3. blinks'[s].count - blinks'[s].counted = k - 1
          BY <2>1, <2>2, <2>5, <5>1
        <5>4. gpios'[p].level = 1 - gpios[p].level
          BY <2>9, <3>1
        <5> HIDE DEF k
        <5>5. ((1 - gpios[p].level) + (k - 1)) % 2 = (gpios[p].level + k) % 2
          BY <3>0, <5>1, Parity
        <5> QED BY <1>4, <5>2, <5>3, <5>4, <5>5
      <4>5. blinks'[s].count = b.count
        BY <2>1, <2>5
      <4>6. pin'[p].output = TRUE /\ pin'[p].level = gpios'[p].level
        BY <2>11, <3>0, <3>1 DEF Alone
      <4> QED BY <4>2, <4>3, <4>4, <4>5, <4>6 DEF Alone
    <3>2. CASE p \notin b.pins
      <4>1. \A t \in Slots : \/ blinks'[t] = blinks[t]
                             \/ p \notin blinks[t].pins /\ p \notin blinks'[t].pins
        BY <2>1, <2>5, <3>2
      <4>2. pin'[p] = pin[p] /\ gpios'[p].level = gpios[p].level /\ settles'[p] = settles[p]
        BY <1>4, <2>12, <3>0, <3>2
      <4> QED BY <3>0, <4>1, <4>2, AloneStays
    <3> QED BY <3>1, <3>2
  <2> QED BY <1>4, <2>13, <2>14 DEF LampInv
<1> QED BY <1>5, <1>6 DEF Tick

\* The command gpio makes its pins nobody's, and leaves the others alone.
LEMMA GpioCommandStep ==
    ASSUME LampInv, NEW ps \in SUBSET Pins, NEW alt \in Functions,
           NEW level \in {-1, 0, 1}, NEW k \in Counts, GpioCommand(ps, alt, level, k)
    PROVE  LampInv'
<1>1. LampTypes /\ \A p \in alone : Alone(p)
  BY DEF LampInv
<1>2. /\ gpios \in [Pins -> [level : {0, 1}, initialized : BOOLEAN]]
      /\ pin \in [Pins -> [output : BOOLEAN, level : {0, 1}]]
      /\ alone \subseteq Pins /\ blinks \in [Slots -> BlinkSet]
  BY <1>1 DEF LampTypes
<1>3. /\ blinks' \in [Slots -> BlinkSet]
      /\ \A p \in Pins \ ps, t \in Slots :
            \/ blinks'[t] = blinks[t]
            \/ p \notin blinks[t].pins /\ p \notin blinks'[t].pins
  <2>1. CASE blinks' = blinks
    BY <1>2, <2>1
  <2>2. CASE Register(ps, k)
    <3>1. k \in BlinkCounts
      BY DEF BlinkCounts
    <3>2. /\ blinks' \in [Slots -> BlinkSet]
          /\ \E s \in Slots :
                /\ blinks[s].pins = {}
                /\ blinks'[s] = [pins |-> ps, count |-> k, counted |-> 0]
                /\ \A t \in Slots \ {s} : blinks'[t] = blinks[t]
      BY <1>1, <2>2, <3>1, RegisterEffect
    <3> QED BY <3>2
  <2> QED BY <2>1, <2>2 DEF GpioCommand
<1>4. alone' = alone \ ps /\ settles' = settles
  BY DEF GpioCommand
<1>5. gpios' = [p \in Pins |->
                  IF p \in ps
                  THEN [level |-> IF level # -1 THEN level ELSE gpios[p].level,
                        initialized |-> gpios[p].initialized \/ alt # "" \/ level # -1]
                  ELSE gpios[p]]
  BY DEF GpioCommand
<1>6. \A p \in Pins : /\ Altered(alt, ps)[p] \in [output : BOOLEAN, level : {0, 1}]
                      /\ p \notin ps => Altered(alt, ps)[p] = pin[p]
  BY <1>2 DEF Altered
<1>7. pin' = [p \in Pins |->
                IF p \in ps /\ level # -1
                THEN [output |-> IF gpios[p].initialized \/ alt # ""
                                 THEN Altered(alt, ps)[p].output ELSE TRUE,
                      level |-> level]
                ELSE Altered(alt, ps)[p]]
  BY DEF GpioCommand
<1>8. gpios' \in [Pins -> [level : {0, 1}, initialized : BOOLEAN]]
  BY <1>2, <1>5
<1>9. pin' \in [Pins -> [output : BOOLEAN, level : {0, 1}]]
  <2> DEFINE On(p) == IF gpios[p].initialized \/ alt # ""
                      THEN Altered(alt, ps)[p].output ELSE TRUE
  <2>1. \A p \in Pins : On(p) \in BOOLEAN
    BY <1>6
  <2>2. pin' = [p \in Pins |-> IF p \in ps /\ level # -1
                               THEN [output |-> On(p), level |-> level]
                               ELSE Altered(alt, ps)[p]]
    BY <1>7
  <2> HIDE DEF On
  <2> QED BY <1>6, <2>1, <2>2
<1>10. \A p \in Pins \ ps : gpios'[p] = gpios[p] /\ pin'[p] = pin[p]
  BY <1>5, <1>6, <1>7
<1>11. LampTypes'
  BY <1>1, <1>3, <1>4, <1>8, <1>9 DEF LampTypes
<1>12. ASSUME NEW p \in alone \ ps PROVE Alone(p)'
  BY <1>1, <1>2, <1>3, <1>4, <1>10, AloneStays
<1> QED BY <1>4, <1>11, <1>12 DEF LampInv

\* gpio_set and gpio_clr write a pin that is then nobody's.
LEMMA ScriptWritesStep ==
    ASSUME LampInv, NEW q \in Pins, NEW level \in {0, 1}, ScriptWrites(q, level)
    PROVE  LampInv'
<1>1. LampTypes /\ \A p \in alone : Alone(p)
  BY DEF LampInv
<1>2. pin \in [Pins -> [output : BOOLEAN, level : {0, 1}]] /\ alone \subseteq Pins
  BY <1>1 DEF LampTypes
<1>3. /\ pin' = [pin EXCEPT ![q].level = level] /\ alone' = alone \ {q}
      /\ UNCHANGED <<gpios, blinks, settles>>
  BY DEF ScriptWrites
<1>4. pin' \in [Pins -> [output : BOOLEAN, level : {0, 1}]]
  BY <1>2, <1>3
<1>5. LampTypes'
  BY <1>1, <1>3, <1>4 DEF LampTypes
<1>6. ASSUME NEW p \in alone, p # q PROVE Alone(p)'
  <2>1. pin'[p] = pin[p] /\ p \in Pins
    BY <1>2, <1>3, <1>6
  <2> QED BY <1>1, <1>3, <2>1, AloneStays
<1> QED BY <1>3, <1>5, <1>6 DEF LampInv

LEMMA LampsStay == LampInv /\ UNCHANGED lamps => LampInv'
  BY DEF LampInv, LampTypes, Alone, lamps

-----------------------------------------------------------------------------
(* The script.                                                              *)

LEMMA TargetsAre ==
    \A s \in Sides :
        /\ Straight[s] \in Int /\ Straight[s] > 0
        /\ Away[s] \in Int /\ (s = "left" => Away[s] > 0) /\ (s = "right" => Away[s] < 0)
  BY SpeedsAssumption DEF Sides, Straight, Away

\* l298n_set: a side that it skips has the speed already.
LEMMA SetEffect ==
    ASSUME WheelInv, NEW v, NEW who \in {"script", "other"},
           \A s \in Sides : v[s] \in Int, Set(v, who)
    PROVE  /\ WheelInv'
           /\ \A s \in Sides :
                 /\ speed'[s] = Clamped(v[s], -FullRange, FullRange)
                 /\ by'[s] = who \/ (by'[s] = by[s] /\ speed'[s] = speed[s])
<1>1. Stale(v) \in SUBSET Sides /\ \A s \in Sides \ Stale(v) : speed[s] = v[s]
  BY DEF Stale
<1>2. /\ WheelInv'
      /\ \A s \in Stale(v) :
            by'[s] = who /\ speed'[s] = Clamped(v[s], -FullRange, FullRange)
      /\ \A s \in Sides \ Stale(v) : by'[s] = by[s] /\ speed'[s] = speed[s]
  BY <1>1, SignedEffect DEF Set
<1>3. \A s \in Sides \ Stale(v) : v[s] = Clamped(v[s], -FullRange, FullRange)
  <2> SUFFICES ASSUME NEW s \in Sides \ Stale(v)
               PROVE  v[s] = Clamped(v[s], -FullRange, FullRange)
    OBVIOUS
  <2>1. v[s] \in -FullRange..FullRange
    BY <1>1 DEF WheelInv, WheelTypes
  <2>2. -FullRange \in Int /\ FullRange \in Int /\ -FullRange <= FullRange
    BY StepIs
  <2> QED BY <2>1, <2>2, ClampedIs
<1> QED BY <1>1, <1>2, <1>3

\* Who else steers takes the side from the script.
LEMMA ScriptKeeps ==
    ASSUME ScriptInv, UNCHANGED script,
           \A s \in Sides : \/ by'[s] # "script"
                            \/ by'[s] = by[s] /\ speed'[s] = speed[s]
    PROVE  ScriptInv'
  BY DEF ScriptInv, Target, script

\* A measure makes the script turn, go on, or do nothing, as it should.
LEMMA MeasuredStep ==
    ASSUME IInv, Measured
    PROVE  IInv'
<1>1. /\ WheelInv /\ LampInv /\ ScriptInv /\ drives \in Nat /\ lampCalls \in Nat
      /\ UNCHANGED <<scoping, drives, lampCalls>>
  BY DEF IInv, Measured
<1>2. /\ l298n_stat \in {0, 1} /\ scoping \in BOOLEAN /\ near \in BOOLEAN
      /\ restarted \in BOOLEAN /\ (near <=> l298n_stat = 1)
  BY <1>1 DEF ScriptInv
<1>3. PICK distance \in Distances :
          /\ Obstacle(distance) \/ GoOn(distance) \/ Ignored(distance)
          /\ near' = (distance <= 20 \/ (near /\ distance <= 30))
  BY DEF Measured
<1>4. distance \in Nat
  BY DistancesAssumption
<1>5. CASE Obstacle(distance)
  <2>1. distance <= 20 /\ l298n_stat' = 1 /\ restarted' = FALSE
    BY <1>5 DEF Obstacle, TooClose
  <2>2. near' = TRUE
    BY <1>3, <2>1
  <2>3. WheelInv' /\ \A s \in Sides : speed'[s] = Clamped(Away[s], -FullRange, FullRange)
    BY <1>1, <1>5, TargetsAre, SetEffect DEF Obstacle
  <2>4. LampInv'
    <3>1. {led_warn} \in SUBSET Pins /\ WarnCount \in BlinkCounts
      BY LampsAssumption DEF BlinkCounts
    <3>2. GpioBlink({led_warn}, WarnCount)
      BY <1>5 DEF Obstacle
    <3> QED BY <1>1, <3>1, <3>2, GpioBlinkStep
  <2>5. ScriptInv'
    BY <1>1, <1>2, <2>1, <2>2, <2>3 DEF ScriptInv, Target
  <2> QED BY <1>1, <2>3, <2>4, <2>5 DEF IInv
<1>6. CASE GoOn(distance)
  <2>1. distance > 30 /\ l298n_stat' = 0 /\ restarted' = FALSE /\ UNCHANGED lamps
    BY <1>6 DEF GoOn, Clear
  <2>2. near' = FALSE
    <3>1. ~(distance <= 20) /\ ~(distance <= 30)
      BY <1>4, <2>1
    <3> QED BY <1>3, <3>1
  <2>3. WheelInv' /\ \A s \in Sides : speed'[s] = Clamped(Straight[s], -FullRange, FullRange)
    BY <1>1, <1>6, TargetsAre, SetEffect DEF GoOn
  <2>4. ScriptInv'
    <3>1. Target' = Straight
      BY <2>2 DEF Target
    <3>2. l298n_stat' \in {0, 1} /\ ~(l298n_stat' = 1) /\ scoping' \in BOOLEAN
      BY <1>1, <1>2, <2>1
    <3> QED BY <2>1, <2>2, <2>3, <3>1, <3>2 DEF ScriptInv
  <2> QED BY <1>1, <2>1, <2>3, <2>4, LampsStay DEF IInv
<1>7. CASE Ignored(distance)
  <2>1. ~(distance <= 20) /\ ~(l298n_stat = 1 /\ distance > 30)
    BY <1>7 DEF Ignored, TooClose, Clear
  <2>2. UNCHANGED <<hw, channels, odd, gradual, bridge, lamps, l298n_stat, restarted>>
    BY <1>7 DEF Ignored, account
  <2>3. near' = near
    BY <1>2, <1>3, <1>4, <2>1
  <2>4. WheelInv'
    <3>1. gradual' \in 0..MaxGradual
      BY <1>1, <2>2 DEF WheelInv, WheelTypes
    <3> QED BY <1>1, <2>2, <3>1, WheelsStay
  <2>5. ScriptInv'
    <3>1. UNCHANGED script /\ \A s \in Sides : by'[s] = by[s] /\ speed'[s] = speed[s]
      BY <1>1, <2>2, <2>3 DEF script, bridge
    <3> QED BY <1>1, <3>1, ScriptKeeps
  <2> QED BY <1>1, <2>2, <2>4, <2>5, LampsStay DEF IInv
<1> QED BY <1>3, <1>5, <1>6, <1>7

LEMMA AutomaticStep ==
    ASSUME IInv, Automatic
    PROVE  IInv'
<1>1. /\ WheelInv /\ LampInv /\ ScriptInv /\ drives \in Nat /\ lampCalls \in Nat
      /\ Set(Straight, "script") /\ scoping' = TRUE /\ restarted' = TRUE
      /\ UNCHANGED <<lamps, l298n_stat, near, drives, lampCalls>>
  BY DEF IInv, Automatic
<1>2. WheelInv' /\ \A s \in Sides : speed'[s] = Clamped(Straight[s], -FullRange, FullRange)
  BY <1>1, TargetsAre, SetEffect
<1>3. ScriptInv'
  BY <1>1, <1>2 DEF ScriptInv, Target
<1> QED BY <1>1, <1>2, <1>3, LampsStay DEF IInv

-----------------------------------------------------------------------------
(* Clients and other scripts.                                               *)

LEMMA DrivingStep ==
    ASSUME IInv, ClientGear \/ ScriptSet \/ ScriptChange \/ ClientPwm \/ ScriptPwm
    PROVE  IInv'
<1>1. WheelInv /\ LampInv /\ ScriptInv /\ drives \in Nat /\ lampCalls \in Nat
  BY DEF IInv
<1>2. Driving
  BY DEF ClientGear, ScriptSet, ScriptChange, ClientPwm, ScriptPwm
<1>3. LampInv' /\ drives' \in Nat /\ lampCalls' \in Nat /\ UNCHANGED script
  BY <1>1, <1>2, LampsStay DEF Driving
<1>4. ASSUME WheelInv',
             \A s \in Sides : \/ by'[s] # "script"
                              \/ by'[s] = by[s] /\ speed'[s] = speed[s]
      PROVE  IInv'
  BY <1>1, <1>3, <1>4, ScriptKeeps DEF IInv
<1>5. CASE ClientGear
  <2>1. PICK s \in Sides, c \in GearCommands : Gear(s, c)
    BY <1>5 DEF ClientGear
  <2>2. /\ WheelInv' /\ by'[s] = "client"
        /\ \A t \in Sides \ {s} : by'[t] = by[t] /\ speed'[t] = speed[t]
    BY <1>1, <2>1, GearEffect
  <2> QED BY <1>4, <2>2
<1>6. CASE ScriptSet
  <2>1. PICK v \in [Sides -> Speeds] : Set(v, "other")
    BY <1>6 DEF ScriptSet
  <2>2. \A s \in Sides : v[s] \in Int
    BY SpeedsAssumption
  <2>3. /\ WheelInv'
        /\ \A s \in Sides : by'[s] = "other" \/ (by'[s] = by[s] /\ speed'[s] = speed[s])
    BY <1>1, <2>1, <2>2, SetEffect
  <2> QED BY <1>4, <2>3
<1>7. CASE ScriptChange
  <2>1. PICK d \in [Sides -> Deltas] : Change(d, "other")
    BY <1>7 DEF ScriptChange
  <2> DEFINE sides == {s \in Sides : d[s] # 0}
             v     == [s \in Sides |-> speed[s] + d[s]]
  <2>2. \A s \in Sides : speed[s] \in Int /\ d[s] \in Int
    <3>1. speed \in [Sides -> -FullRange..FullRange] /\ FullRange \in Nat
      BY <1>1, StepIs DEF WheelInv, WheelTypes
    <3>2. Deltas \subseteq Int
      BY SpeedsAssumption
    <3>3. \A s \in Sides : speed[s] \in -FullRange..FullRange
      BY <3>1
    <3>4. \A s \in Sides : speed[s] \in Int
      BY <3>1, <3>3
    <3>5. \A s \in Sides : d[s] \in Deltas
      OBVIOUS
    <3> QED BY <3>2, <3>4, <3>5
  <2>3. (\A s \in sides : v[s] \in Int) /\ sides \in SUBSET Sides
    BY <2>2
  <2>4. Signed(sides, v, "other")
    BY <2>1 DEF Change
  <2> HIDE DEF sides, v
  <2>5. /\ WheelInv'
        /\ \A s \in sides : by'[s] = "other"
        /\ \A s \in Sides \ sides : by'[s] = by[s] /\ speed'[s] = speed[s]
    BY <1>1, <2>3, <2>4, SignedEffect
  <2> QED BY <1>4, <2>5
<1>8. CASE ClientPwm \/ ScriptPwm
  <2>1. WheelInv' /\ speed' = speed /\ \A s \in Sides : by'[s] \in {"pwm", by[s]}
    BY <1>1, <1>8, PwmEffect DEF ClientPwm, ScriptPwm
  <2> QED BY <1>4, <2>1
<1> QED BY <1>5, <1>6, <1>7, <1>8

LEMMA LightingStep ==
    ASSUME IInv,
           \/ ClientGpio \/ ScriptBlink \/ Infrared
           \/ \E s \in Slots : LampTick(s)
    PROVE  IInv'
<1>1. WheelInv /\ LampInv /\ ScriptInv /\ drives \in Nat /\ lampCalls \in Nat
  BY DEF IInv
<1>2. /\ UNCHANGED <<hw, channels, odd, gradual, bridge, script>>
      /\ drives' \in Nat /\ lampCalls' \in Nat
  BY <1>1 DEF ClientGpio, ScriptBlink, Infrared, Lighting, LampTick, account
<1>3. WheelInv'
  <2>1. gradual' \in 0..MaxGradual
    BY <1>1, <1>2 DEF WheelInv, WheelTypes
  <2> QED BY <1>1, <1>2, <2>1, WheelsStay
<1>4. ScriptInv'
  <2>1. \A s \in Sides : by'[s] = by[s] /\ speed'[s] = speed[s]
    BY <1>2 DEF bridge
  <2> QED BY <1>1, <1>2, <2>1, ScriptKeeps
<1>5. ASSUME LampInv' PROVE IInv'
  BY <1>2, <1>3, <1>4, <1>5 DEF IInv
<1>6. CASE ClientGpio
  <2>1. PICK ps \in SUBSET Pins, alt \in Functions, level \in {-1, 0, 1}, k \in Counts :
            GpioCommand(ps, alt, level, k)
    BY <1>6 DEF ClientGpio
  <2> QED BY <1>1, <1>5, <2>1, GpioCommandStep
<1>7. CASE ScriptBlink
  <2>1. PICK p \in Pins, k \in Counts : GpioBlink({p}, k)
    BY <1>7 DEF ScriptBlink
  <2>2. {p} \in SUBSET Pins /\ k \in BlinkCounts
    BY DEF BlinkCounts
  <2> QED BY <1>1, <1>5, <2>1, <2>2, GpioBlinkStep
<1>8. CASE Infrared
  <2>1. PICK level \in {0, 1} : ScriptWrites(laster, level)
    BY <1>8 DEF Infrared
  <2>2. laster \in Pins
    BY LampsAssumption
  <2> QED BY <1>1, <1>5, <2>1, <2>2, ScriptWritesStep
<1>9. CASE \E s \in Slots : LampTick(s)
  <2>1. PICK s \in Slots : Tick(s)
    BY <1>9 DEF LampTick
  <2> QED BY <1>1, <1>5, <2>1, TickStep
<1> QED BY <1>6, <1>7, <1>8, <1>9

LEMMA PwmTickStep ==
    ASSUME IInv, PwmTick
    PROVE  IInv'
<1>1. /\ WheelInv /\ LampInv /\ ScriptInv /\ drives \in Nat /\ lampCalls \in Nat
      /\ UNCHANGED <<hw, channels, odd, bridge, lamps, script, drives, lampCalls>>
      /\ gradual > 0 /\ gradual' = gradual - 1
  BY DEF IInv, PwmTick, GradualTick, account
<1>2. gradual' \in 0..MaxGradual
  <2>1. gradual \in 0..MaxGradual
    BY <1>1 DEF WheelInv, WheelTypes
  <2> QED BY <1>1, <2>1, MaxGradualAssumption
<1>3. WheelInv'
  BY <1>1, <1>2, WheelsStay
<1>4. \A s \in Sides : by'[s] = by[s] /\ speed'[s] = speed[s]
  BY <1>1 DEF bridge
<1> QED BY <1>1, <1>3, <1>4, ScriptKeeps, LampsStay DEF IInv

LEMMA InitIInv == Init => IInv
<1> SUFFICES ASSUME Init PROVE IInv
  OBVIOUS
<1>1. /\ channels = [n \in Channels |-> [range |-> 0, data |-> 0]] /\ gradual = 0 /\ odd = {}
      /\ hw = [n \in Channels |-> [range |-> FullRange, data |-> 0]]
      /\ speed = [s \in Sides |-> 0] /\ forward = [s \in Sides |-> FALSE]
      /\ wheel = [s \in Sides |-> "free"] /\ by = [s \in Sides |-> "nobody"]
      /\ astray = [s \in Sides |-> FALSE]
  BY DEF Init, PwmInit, BridgeInit
<1>2. WheelTypes
  BY <1>1, StepIs, MaxGradualAssumption DEF WheelTypes, Owners
<1>3. \A s \in Sides : Follows(s) /\ Geared(s)
  BY <1>1, StepIs DEF Follows, Geared
<1>4. \A n \in Channels : Believed(n)
  BY <1>1 DEF Believed
<1>5. WheelInv
  BY <1>2, <1>3, <1>4 DEF WheelInv
<1>6. /\ gpios = [p \in Pins |-> [level |-> 0, initialized |-> FALSE]]
      /\ pin = [p \in Pins |-> [output |-> TRUE, level |-> 0]]
      /\ blinks = [s \in Slots |-> NoBlink] /\ alone = {}
      /\ settles = [p \in Pins |-> 0]
  BY DEF Init, BlinkInit
<1>7. blinks \in [Slots -> BlinkSet]
  BY <1>6, BlinkIs
<1>8. LampInv
  BY <1>6, <1>7 DEF LampInv, LampTypes
<1>9. ScriptInv
  <2>1. l298n_stat = 0 /\ scoping = FALSE /\ near = FALSE /\ restarted = FALSE
    BY DEF Init
  <2>2. \A s \in Sides : by[s] # "script"
    BY <1>1
  <2>3. ~(l298n_stat = 1) /\ l298n_stat \in {0, 1} /\ ~near
    BY <2>1
  <2> QED BY <2>1, <2>2, <2>3 DEF ScriptInv
<1>10. drives \in Nat /\ lampCalls \in Nat
  BY BudgetsAssumption DEF Init
<1> QED BY <1>5, <1>8, <1>9, <1>10 DEF IInv

LEMMA Inductive == Spec => []IInv
<1>1. IInv /\ [Next]_vars => IInv'
  <2> SUFFICES ASSUME IInv, [Next]_vars PROVE IInv'
    OBVIOUS
  <2>1. CASE Next
    BY <2>1, MeasuredStep, AutomaticStep, DrivingStep, LightingStep, PwmTickStep DEF Next
  <2>2. CASE UNCHANGED vars
    <3>1. /\ WheelInv /\ LampInv /\ ScriptInv /\ drives \in Nat /\ lampCalls \in Nat
          /\ UNCHANGED <<hw, channels, odd, gradual, bridge, lamps, script, drives, lampCalls>>
      BY <2>2 DEF IInv, vars, account
    <3>2. WheelInv'
      <4>1. gradual' \in 0..MaxGradual
        BY <3>1 DEF WheelInv, WheelTypes
      <4> QED BY <3>1, <4>1, WheelsStay
    <3>3. \A s \in Sides : by'[s] = by[s] /\ speed'[s] = speed[s]
      BY <3>1 DEF bridge
    <3> QED BY <3>1, <3>2, <3>3, ScriptKeeps, LampsStay DEF IInv
  <2> QED BY <2>1, <2>2
<1> QED BY InitIInv, <1>1, PTL DEF Spec

-----------------------------------------------------------------------------
\* The registers, speeds, pins and blinks keep their types, and no blink ever
\* counts beyond its count (pwm.c 33-40, l298n.c 12-46, gpio.c 24-53).
THEOREM TypeCorrect == Spec => []TypeOK
<1>1. IInv => TypeOK
  <2> SUFFICES ASSUME IInv PROVE TypeOK
    OBVIOUS
  <2>1. WheelTypes /\ LampTypes
    BY DEF IInv, WheelInv, LampInv
  <2>2. ASSUME NEW s \in Slots
        PROVE  /\ blinks[s].pins \subseteq Pins
               /\ blinks[s].count \in Counts \cup {0, WarnCount}
               /\ blinks[s].counted \in 0..Max({blinks[s].count, 0})
    <3> DEFINE b == blinks[s]
    <3>1. b \in BlinkSet
      BY <2>1 DEF LampTypes
    <3>2. /\ b.pins \subseteq Pins /\ b.count \in BlinkCounts /\ b.counted \in Nat
          /\ b.count # -1 => b.count \in Nat /\ b.counted <= b.count
          /\ b.count = -1 => b.counted = 0
      BY <3>1, BlinkIs
    <3> HIDE DEF b
    <3>3. b.count \in Int
      BY <3>2
    <3>4. Max({b.count, 0}) = IF b.count >= 0 THEN b.count ELSE 0
      BY <3>3, MaxIs
    <3>5. b.counted \in 0..Max({b.count, 0})
      BY <3>2, <3>3, <3>4
    <3> QED BY <3>2, <3>5 DEF b, BlinkCounts
  <2> QED BY <2>1, <2>2
          DEF IInv, ScriptInv, WheelTypes, LampTypes, Owners, TypeOK
<1> QED BY Inductive, <1>1, PTL

\* After a brake gears are gears and the wheel turns as the client says, after a
\* --set data are within a range, and pwm.c knows what its registers hold, whatever
\* ranges, steps and speeds there were before (l298n.c 61-93, pwm.c 74-89).
THEOREM CountsComeBack == Spec => []CountsReturn
<1>1. IInv => CountsReturn
  <2> SUFFICES ASSUME IInv PROVE CountsReturn
    OBVIOUS
  <2>1. WheelTypes /\ (\A s \in Sides : Follows(s) /\ Geared(s)) /\ \A n \in Channels : Believed(n)
    BY DEF IInv, WheelInv
  <2>2. ASSUME NEW s \in Sides, ~astray[s]
        PROVE  /\ speed[s] \in 0..MaxSpeed
               /\ by[s] = "client" =>
                     /\ wheel[s] = IF speed[s] = 0 THEN "free"
                                   ELSE IF forward[s] THEN "forward" ELSE "reverse"
                     /\ hw[Channel[s]].data \in 0..FullRange
    <3> DEFINE v == IF forward[s] THEN speed[s] ELSE -speed[s]
    <3>1. speed[s] \in 0..MaxSpeed /\ MaxSpeed \in Nat
      BY <2>1, <2>2, StepIs DEF Geared
    <3>2. by[s] = "client" => wheel[s] = Direction(v) /\ hw[Channel[s]].data = Abs(v) * Step
      BY <2>1 DEF Follows, GearData
    <3>3. /\ Abs(v) = speed[s]
          /\ Direction(v) = IF speed[s] = 0 THEN "free"
                            ELSE IF forward[s] THEN "forward" ELSE "reverse"
      BY <3>1 DEF Abs, Direction
    <3> HIDE DEF v
    <3>4. speed[s] * Step \in 0..FullRange
      BY <3>1, StepIs
    <3> QED BY <3>1, <3>2, <3>3, <3>4
  <2>3. GearsReturn
    BY <2>2 DEF GearsReturn
  <2>4. \A n \in Channels : by[SideOf(n)] = "pwm" => hw[n].data = channels[n].data
    BY <2>1, ChannelIs DEF Follows
  <2>5. DataReturn
    BY <2>1, <2>4 DEF DataReturn, Believed
  <2> QED BY <2>3, <2>5 DEF CountsReturn
<1> QED BY Inductive, <1>1, PTL

\* A blink that had its pin to itself leaves it at the parity of its count, and
\* the level noted with it (gpio.c 40-53, 74-84).
THEOREM BlinksSettle == Spec => []BlinkSettles
<1>1. IInv => BlinkSettles
  <2> SUFFICES ASSUME IInv, NEW p \in alone, ~Blinking(p)
               PROVE  pin[p] = [output |-> TRUE, level |-> settles[p]]
                      /\ gpios[p].level = settles[p]
    BY DEF BlinkSettles
  <2>1. LampTypes /\ Alone(p)
    BY DEF IInv, LampInv
  <2>2. pin[p] \in [output : BOOLEAN, level : {0, 1}]
    BY <2>1 DEF LampTypes
  <2>3. \A s \in Slots : p \notin blinks[s].pins
    BY BlinkingIs
  <2>4. gpios[p].level = settles[p] /\ pin[p].output = TRUE /\ pin[p].level = settles[p]
    BY <2>1, <2>3 DEF Alone
  <2> QED BY <2>2, <2>4
<1> QED BY Inductive, <1>1, PTL

\* While the script has both wheels, they turn the car from an obstacle that it
\* knows of and go straight on without one (steer_car.lua 9-34).
THEOREM TurnsAway == Spec => []TurnsFromObstacle
<1>1. IInv => TurnsFromObstacle
  <2> SUFFICES ASSUME IInv, \A s \in Sides : by[s] = "script"
               PROVE  IF near /\ ~restarted
                      THEN wheel = [left |-> "forward", right |-> "reverse"]
                      ELSE wheel = [s \in Sides |-> "forward"]
    BY DEF TurnsFromObstacle
  <2>1. /\ wheel \in [Sides -> {"forward", "reverse", "free"}]
        /\ speed \in [Sides -> -FullRange..FullRange]
        /\ \A s \in Sides : wheel[s] = Direction(speed[s])
        /\ \A s \in Sides : speed[s] = Clamped(Target[s], -FullRange, FullRange)
    BY DEF IInv, WheelInv, WheelTypes, ScriptInv, Follows
  <2>2. ASSUME NEW s \in Sides, Target[s] \in Int
        PROVE  /\ Target[s] > 0 => wheel[s] = "forward"
               /\ Target[s] < 0 => wheel[s] = "reverse"
    <3>1. /\ -FullRange \in Int /\ FullRange \in Int /\ -FullRange <= FullRange
          /\ -FullRange < 0 /\ FullRange > 0
      BY StepIs
    <3>2. /\ Target[s] > 0 => speed[s] > 0
          /\ Target[s] < 0 => speed[s] < 0
      <4>1. speed[s] = Clamped(Target[s], -FullRange, FullRange)
        BY <2>1
      <4>2. \A low, high \in Int : low <= high /\ low < 0 /\ high > 0 =>
               /\ Target[s] > 0 => Clamped(Target[s], low, high) > 0
               /\ Target[s] < 0 => Clamped(Target[s], low, high) < 0
        BY <2>2, ClampedIs
      <4> QED BY <3>1, <4>1, <4>2
    <3>3. speed[s] \in Int
      BY <2>1, <3>1
    <3> QED BY <2>1, <3>2, <3>3 DEF Direction
  <2>3. CASE near /\ ~restarted
    <3>1. Target = Away
      BY <2>3 DEF Target
    <3>2. wheel["left"] = "forward" /\ wheel["right"] = "reverse"
      BY <2>2, <3>1, TargetsAre DEF Sides
    <3>3. wheel = [s \in Sides |-> IF s = "left" THEN "forward" ELSE "reverse"]
      BY <2>1, <3>2 DEF Sides
    <3>4. [left |-> "forward", right |-> "reverse"]
              = [s \in Sides |-> IF s = "left" THEN "forward" ELSE "reverse"]
      BY DEF Sides
    <3> QED BY <2>3, <3>3, <3>4
  <2>4. CASE ~(near /\ ~restarted)
    <3>1. Target = Straight
      BY <2>4 DEF Target
    <3>2. \A s \in Sides : wheel[s] = "forward"
      BY <2>2, <3>1, TargetsAre
    <3>3. wheel = [s \in Sides |-> "forward"]
      BY <2>1, <3>2
    <3> QED BY <2>4, <3>3
  <2> QED BY <2>3, <2>4
<1> QED BY Inductive, <1>1, PTL
=============================================================================
