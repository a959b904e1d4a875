----------------------------- MODULE Ultrasonic ------------------------------
(***************************************************************************)
(* The distance sensor of src/raspd/ultrasonic.c.  A trigger pulse is raised *)
(* now and lowered by a timer; the sensor then raises and lowers the echo    *)
(* pin; each edge makes a descriptor ready, and the event loop calls         *)
(* echo_signal some time later, which reads the level the pin has by then.   *)
(* Triggers come from a persistent timer (interval mode) or from the end of  *)
(* the echo before (immediate mode), and the two share count and counted.    *)
(***************************************************************************)
EXTENDS Integers

CONSTANTS
    Counts,    \* the counts callers pass; -1 measures for ever
    MaxCalls   \* bound: calls of ultrasonic_scope

ASSUME CountsAssumption == Counts \subseteq Nat \cup {-1}
ASSUME MaxCallsAssumption == MaxCalls \in Nat

VARIABLES
    prompt,        \* external: the loop handles an edge before the next one comes
    exists,        \* between ultrasonic_new and ultrasonic_del
    immediate,     \* UF_IMMEDIATE in dev->flags
    count, counted,
    ev_timer, ev_delay, ev_trig_done,  \* the timers that are pending
    trig,          \* the level of pin_trig
    sensor,        \* external: "idle", "armed" (triggered), "high" (echo)
    edge,          \* the kernel has an edge to report
    active,        \* the loop is about to call echo_signal
    calls,         \* calls of ultrasonic_scope
    kind,          \* history: the interval of the last call
    left,          \* history: a delayed trigger was pending at that call
    asked,         \* history: triggers since that call, when counted
    seen,          \* history: echo_tv is of the pulse that came last
    measures,      \* history: measures since that pulse began
    stale          \* history: a measure used the echo_tv of another pulse

timers  == <<ev_timer, ev_delay, ev_trig_done>>
scope   == <<immediate, count, calls, kind, left>>
echo    == <<prompt, sensor, edge, active, seen, measures, stale>>
vars    == <<exists, scope, counted, timers, trig, echo, asked>>

Kinds == {"delete", "now", "timer"}   \* interval < 0, = 0, > 0

Init ==
    /\ prompt \in BOOLEAN
    /\ exists = TRUE
    /\ immediate = FALSE
    /\ count = 0
    /\ counted = 0
    /\ ev_timer = FALSE /\ ev_delay = FALSE /\ ev_trig_done = FALSE
    /\ trig = 0
    /\ sensor = "idle"
    /\ edge = FALSE
    /\ active = FALSE
    /\ calls = 0
    /\ kind = "delete"
    /\ left = FALSE
    /\ asked = 0
    /\ seen = FALSE
    /\ measures = 0
    /\ stale = FALSE

\* do_trig; its triggers are counted from the last call of ultrasonic_scope on
\* (up to count + 3, which no property tells from more).
DoTrig(before) ==
    /\ trig' = 1
    /\ ev_trig_done' = TRUE
    /\ asked' = CASE count' = -1          -> 0
                  [] before > count' + 2  -> before
                  [] OTHER                -> before + 1

\* ultrasonic_scope: the fields are set before anything can be refused.
Scope(n, interval) ==
    /\ exists
    /\ calls < MaxCalls
    /\ calls' = calls + 1
    /\ kind' = interval
    /\ left' = ev_delay
    /\ counted' = 0
    /\ count' = n
    /\ immediate' = (interval = "now")
    /\ ev_timer' = CASE interval = "delete" -> FALSE
                     [] interval = "timer"  -> TRUE
                     [] interval = "now"    -> ev_timer
    /\ IF interval = "now" /\ ~ev_trig_done   \* else -EBUSY, or no trigger yet
       THEN DoTrig(0)
       ELSE asked' = 0 /\ UNCHANGED <<trig, ev_trig_done>>
    /\ UNCHANGED <<exists, ev_delay, echo>>

MutSpent == count # -1 /\ counted > count

\* timer_scope, line 206.
Spent == count # -1 /\ counted >= count

MutCounting == counted' = counted
MutCountDown == counted' = IF count = -1 THEN counted ELSE counted - 1

\* The increment in the conditions of lines 112 and 206.
Counting == counted' = IF count = -1 THEN counted ELSE counted + 1

TimerScope ==
    /\ ev_timer
    /\ Counting
    /\ IF Spent
       THEN ev_timer' = FALSE /\ UNCHANGED <<ev_trig_done, trig, asked, count>>
       ELSE UNCHANGED <<ev_timer, count>> /\ DoTrig(asked)
    /\ UNCHANGED <<exists, immediate, calls, kind, left, ev_delay, echo>>

DelayTrig ==
    /\ ev_delay
    /\ ev_delay' = FALSE
    /\ UNCHANGED <<exists, scope, counted, ev_timer, echo>>
    /\ DoTrig(asked)

\* trig_done, line 122.
Lowered == 0

\* The end of the pulse triggers the sensor, unless it is at work already.
TrigDone ==
    /\ ev_trig_done
    /\ ev_trig_done' = FALSE
    /\ trig' = Lowered
    /\ sensor' = IF sensor = "idle" /\ trig' = 0 THEN "armed" ELSE sensor
    /\ UNCHANGED <<prompt, exists, scope, counted, ev_timer, ev_delay, edge, active,
                   seen, measures, stale, asked>>

-----------------------------------------------------------------------------
(* External: the echo pin, and the loop's wait for its edges.               *)

EdgeComes ==
    /\ prompt => ~edge /\ ~active
    /\ edge' = exists

Rise ==
    /\ sensor = "armed"
    /\ sensor' = "high"
    /\ EdgeComes
    /\ seen' = FALSE
    /\ measures' = 0
    /\ UNCHANGED <<prompt, exists, scope, counted, timers, trig, active, stale, asked>>

Fall ==
    /\ sensor = "high"
    /\ sensor' = "idle"
    /\ EdgeComes
    /\ UNCHANGED <<prompt, exists, scope, counted, timers, trig, active, seen, measures,
                   stale, asked>>


\* bcm2835_gpio_poll adds the descriptor with EV_ET: what has been reported is
\* not reported again, however many edges it stood for.
ReportedAgain == FALSE

Activate ==
    /\ edge
    /\ ~active
    /\ active' = TRUE
    /\ edge' = ReportedAgain
    /\ UNCHANGED <<prompt, exists, scope, counted, timers, trig, sensor, seen, measures,
                   stale, asked>>

-----------------------------------------------------------------------------
MutAgainFinite == immediate /\ count # -1 /\ counted < count

\* echo_signal, lines 110-114: immediate mode measures again.
Again == immediate /\ (count = -1 \/ counted < count)

MutRecorded == FALSE

\* Line 92.
Recorded == TRUE

\* The pin is high: the time is noted.
EchoHigh ==
    /\ active
    /\ sensor = "high"
    /\ active' = FALSE
    /\ seen' = Recorded
    /\ UNCHANGED <<prompt, exists, scope, counted, timers, trig, sensor, edge, measures,
                   stale, asked>>

\* The pin is low: the distance is computed from echo_tv and reported; the
\* callback may return a value < 0, which ends interval mode only.
EchoLow ==
    /\ active
    /\ sensor # "high"
    /\ active' = FALSE
    /\ measures' = measures + 1
    /\ stale' = (stale \/ ~seen)
    /\ ev_timer' \in {ev_timer, FALSE}
    /\ ev_delay' = (ev_delay \/ Again)
    /\ IF immediate THEN Counting ELSE UNCHANGED counted
    /\ UNCHANGED <<prompt, exists, scope, ev_trig_done, trig, sensor, edge, seen, asked>>

\* ultrasonic_del: every event goes; the trigger pin keeps its level.
Del ==
    /\ exists
    /\ exists' = FALSE
    /\ ev_timer' = FALSE /\ ev_delay' = FALSE /\ ev_trig_done' = FALSE
    /\ edge' = FALSE /\ active' = FALSE
    /\ UNCHANGED <<prompt, scope, counted, trig, sensor, seen, measures, stale, asked>>

Device == TimerScope \/ DelayTrig \/ TrigDone \/ EchoHigh \/ EchoLow
Sensor == Rise \/ Fall \/ Activate

Next ==
    \/ \E n \in Counts, i \in Kinds : Scope(n, i)
    \/ Device
    \/ Sensor
    \/ Del

Spec == Init /\ [][Next]_vars

\* Timers expire, the sensor answers a trigger and the loop sees the edges.
FairSpec ==
    /\ Spec
    /\ WF_vars(TimerScope) /\ WF_vars(DelayTrig) /\ WF_vars(TrigDone)
    /\ WF_vars(Rise \/ Fall) /\ WF_vars(Activate)
    /\ WF_vars(EchoHigh \/ EchoLow)

-----------------------------------------------------------------------------
(* Properties.                                                              *)

TypeOK ==
    /\ prompt \in BOOLEAN /\ exists \in BOOLEAN /\ immediate \in BOOLEAN
    /\ count \in Counts \cup {0} /\ counted \in Nat
    /\ ev_timer \in BOOLEAN /\ ev_delay \in BOOLEAN /\ ev_trig_done \in BOOLEAN
    /\ trig \in {0, 1}
    /\ sensor \in {"idle", "armed", "high"}
    /\ edge \in BOOLEAN /\ active \in BOOLEAN
    /\ calls \in 0..MaxCalls /\ kind \in Kinds /\ left \in BOOLEAN
    /\ asked \in Nat
    /\ seen \in BOOLEAN /\ measures \in Nat /\ stale \in BOOLEAN

\* The triggers a call asks for: count in interval mode, one more in immediate
\* mode, which triggers before it counts, none for a deletion.
Allowed == CASE kind = "delete" -> 0
             [] kind = "timer"  -> count
             [] kind = "now"    -> count + 1

\* No call causes more triggers than it asked for, with modes mixed, calls
\* refused half-way and echoes handled twice; a delayed trigger that the call
\* before left behind is the one exception (ultrasonic_scope never deletes
\* ev_delay).  And each of them ends: the pin is high exactly while the timer
\* that lowers it is pending, however triggers of both modes overlap.
TriggersBounded ==
    /\ count # -1 => asked <= Allowed + (IF left THEN 1 ELSE 0)
    /\ exists => (trig = 1 <=> ev_trig_done)

\* A loop that handles each edge before the next reports one measure for every
\* pulse, taken from that pulse's own two edges; however late the loop is, a
\* pulse is reported at most twice (ultrasonic.c 80-116).
MeasuresMatchPulses ==
    /\ prompt => ~stale /\ measures <= 1
    /\ measures <= 2

Quiet == ~ev_timer /\ ~ev_delay /\ ~ev_trig_done /\ sensor = "idle" /\ ~edge /\ ~active

\* The endless immediate mode never stalls: its chain of trigger, echo, delay
\* and next trigger is not broken by refused calls, merged edges or a timer of
\* the interval mode still running.
ChainAlive == exists /\ immediate /\ count = -1 => ~Quiet

\* A scope with a count comes to its end, in either mode.
CountEnds == count # -1 ~> Quiet \/ count = -1
=============================================================================
