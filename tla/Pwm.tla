--------------------------------- MODULE Pwm ---------------------------------
(***************************************************************************)
(* The hardware PWM of src/raspd/pwm.c: two channels, whose range and data   *)
(* the module keeps in channels[] so that it need not write a range twice    *)
(* and can count data up and down.  Others write the registers, too.         *)
(***************************************************************************)
EXTENDS Integers, FiniteSetsExt

CONSTANTS
    Ranges,   \* the ranges of commands and scripts
    Datas,    \* the data they set
    Steps,    \* the steps they count up and down by
    MaxGradual   \* bound: timers of gradual changes pending at a time

\* atoi takes them as they come (lines 190-191, 198-199).
ASSUME RangesAssumption == Ranges \subseteq Int
ASSUME DatasAssumption == Datas \subseteq Int
ASSUME StepsAssumption == Steps \subseteq Int
ASSUME MaxGradualAssumption == MaxGradual \in Nat

VARIABLES
    hw,        \* the registers of each channel: range and data
    channels,  \* what pwm_set wrote last, by its own account
    gradual,   \* timers of pwm_gradual and pwm_breath that are pending
    odd        \* history: channels counted by a negative step or in a negative
               \* range since they were last set

account == <<channels, odd>>

Channels == {0, 1}

PwmInit ==
    /\ channels = [n \in Channels |-> [range |-> 0, data |-> 0]]
    /\ gradual = 0
    /\ odd = {}

MutClamped(v, low, high) == Min({v, high})
Clamped(v, low, high) == Max({Min({v, high}), low})

\* incre is -1, 0 or 1; counting is clamped at the end it moves to only
NewData(old, range, data, incre) ==
    CASE incre = 0  -> Clamped(data, 0, range)
      [] incre = 1  -> Min({old + data, range})
      [] incre = -1 -> Max({old - data, 0})

\* pwm_set of each of ns, the channels of the pins of one command; a register
\* holds the bits of an int
PwmSet(ns, range, data, incre) ==
    LET Of(n) == [range |-> range,
                  data |-> NewData(channels[n].data, range, data, incre)]
    IN  /\ channels' = [n \in Channels |-> IF n \in ns THEN Of(n) ELSE channels[n]]
        /\ hw' = [n \in Channels |->
                    IF n \in ns
                    THEN [range |-> IF channels[n].range = range
                                    THEN hw[n].range ELSE range,
                          data |-> Of(n).data]
                    ELSE hw[n]]
        /\ odd' = CASE incre = 0 -> odd \ ns
                    [] incre # 0 /\ (data < 0 \/ range < 0) -> odd \cup ns
                    [] OTHER -> odd

\* The command pwm, with --set or with --up or --down and the step
PwmCommand(ns) ==
    /\ \E range \in Ranges :
          \/ \E data \in Datas : PwmSet(ns, range, data, 0)
          \/ \E step \in Steps, incre \in {-1, 1} : PwmSet(ns, range, step, incre)
    /\ UNCHANGED gradual

\* pwm_gradual and pwm_breath: the first data at once, the rest from a timer
PwmGradual(n) ==
    /\ gradual < MaxGradual
    /\ \E range \in Ranges, data \in Datas : PwmSet({n}, range, data, 0)
    /\ gradual' = gradual + 1

\* cb_timer: count was never stored, so counted++ >= count the first time
GradualTick ==
    /\ gradual > 0
    /\ gradual' = gradual - 1
    /\ UNCHANGED <<hw, account>>
=============================================================================
