--------------------------- MODULE UltrasonicProofs ----------------------------
(***************************************************************************)
(* Proofs about Ultrasonic, for every set of counts and number of calls.     *)
(***************************************************************************)
EXTENDS Ultrasonic, TLAPS

\* The trigger that is delayed, the triggers that nothing counts (the first of
\* the immediate mode and the one left over), those that a call may count.
Owed == IF ev_delay THEN 1 ELSE 0
Extra == IF kind = "now" THEN (IF left THEN 2 ELSE 1) ELSE (IF left THEN 1 ELSE 0)
Cap == IF kind = "delete" THEN 0 ELSE count

\* The mode is that of the last call, which begins to count anew; only an
\* interval leaves the timer, and a deletion nothing that counts.
Mode ==
    /\ immediate <=> kind = "now"
    /\ kind = "delete" => ~ev_timer /\ counted = 0

\* Every other trigger, one that is delayed included, has been counted, and
\* nothing is counted beyond count for it.
Paid ==
    count # -1 =>
        /\ asked + Owed <= counted + Extra
        /\ asked + Owed <= Cap + Extra

Lowers == exists => (trig = 1 <=> ev_trig_done)

\* The measures to come of a pulse that is over: a call of echo_signal that is
\* due and one that an edge will make due; of a pulse that is not, there are none.
Due == IF active THEN (IF edge THEN 2 ELSE 1) ELSE (IF edge THEN 1 ELSE 0)

Echoes ==
    /\ sensor = "high" => measures = 0
    /\ sensor # "high" => measures + Due <= 2
    /\ ~exists => ~edge /\ ~active

\* With a prompt loop a pulse has one call due at a time, and the rising edge has
\* been handled, or is about to be, before the falling one comes.
Prompt ==
    prompt =>
        /\ measures + Due <= 1
        /\ ~stale
        /\ sensor = "high" /\ exists => seen \/ edge \/ active
        /\ sensor # "high" /\ (edge \/ active) => seen

IInv == TypeOK /\ Mode /\ Paid /\ Lowers /\ Echoes /\ Prompt /\ ChainAlive

-----------------------------------------------------------------------------
(* The steps of the program.                                                *)

LEMMA Small ==
    /\ Owed \in Nat /\ Owed <= 1
    /\ Extra \in Nat
    /\ Due \in Nat /\ Due <= 2
  BY DEF Owed, Extra, Due

\* What is asked for once more, or delayed, while one more is counted.
LEMMA AskedOnce ==
    \A a, b, o, c, d, k, x \in Nat :
        /\ a + o <= c + x /\ b <= a + 1 /\ d = c + 1 /\ c < k
        => b + o <= d + x /\ b + o <= k + x
  OBVIOUS

LEMMA OwedOnce ==
    \A a, o, p, c, d, k, x \in Nat :
        /\ a + o <= c + x /\ p <= 1 /\ d = c + 1 /\ c < k
        => a + p <= d + x /\ a + p <= k + x
  OBVIOUS

\* With nothing measured yet the sum is what is due.
LEMMA Sums ==
    \A a, b, k \in Nat : a = 0 /\ b <= k => a + b <= k
  OBVIOUS

\* A trigger raises the pin, has it lowered, and is counted at most once.
LEMMA DoTrigEffect ==
    ASSUME NEW before \in Nat, count' \in Nat \cup {-1}, DoTrig(before)
    PROVE  /\ trig' = 1 /\ ev_trig_done' = TRUE
           /\ asked' \in Nat /\ asked' <= before + 1
  BY DEF DoTrig

\* A call triggers at once, in immediate mode and if no trigger is under way.
LEMMA ScopeEffect ==
    ASSUME TypeOK, NEW n \in Counts, NEW i \in Kinds, Scope(n, i)
    PROVE  /\ n \in Nat \cup {-1} /\ count' = n
           /\ \/ trig' = 1 /\ ev_trig_done' = TRUE /\ i = "now"
              \/ /\ UNCHANGED <<trig, ev_trig_done>> /\ asked' = 0
           /\ asked' \in Nat /\ asked' <= 1
           /\ i # "now" => asked' = 0
           /\ i = "now" => ev_trig_done'
<1>1. n \in Nat \cup {-1} /\ count' = n
  BY CountsAssumption DEF Scope
<1>2. CASE i = "now" /\ ~ev_trig_done
  <2>1. DoTrig(0)
    BY <1>2 DEF Scope
  <2>2. trig' = 1 /\ ev_trig_done' = TRUE /\ asked' \in Nat /\ asked' <= 0 + 1
    BY <1>1, <2>1, DoTrigEffect
  <2> QED BY <1>1, <1>2, <2>2
<1>3. CASE ~(i = "now" /\ ~ev_trig_done)
  <2>1. asked' = 0 /\ UNCHANGED <<trig, ev_trig_done>>
    BY <1>3 DEF Scope
  <2> QED BY <1>1, <1>3, <2>1
<1> QED BY <1>2, <1>3

\* What is counted is counted by one, or not at all if it never ends.
LEMMA CountingEffect ==
    ASSUME counted \in Nat, Counting
    PROVE  /\ counted' \in Nat /\ counted' >= counted
           /\ count # -1 => counted' = counted + 1
  BY DEF Counting

LEMMA InitIInv == Init => IInv
<1> SUFFICES ASSUME Init PROVE IInv
  OBVIOUS
<1>1. TypeOK
  <2>1. calls \in 0..MaxCalls /\ counted \in Nat /\ asked \in Nat /\ measures \in Nat
    BY MaxCallsAssumption DEF Init
  <2>2. trig \in {0, 1} /\ count \in Counts \cup {0} /\ kind \in Kinds
    BY DEF Init, Kinds
  <2> QED BY <2>1, <2>2 DEF Init, TypeOK
<1>2. Mode /\ Lowers /\ ChainAlive
  BY DEF Init, Mode, Lowers, ChainAlive
<1>3. Paid
  <2>1. Owed = 0 /\ Extra = 0 /\ Cap = 0
    BY DEF Init, Owed, Extra, Cap
  <2>2. asked = 0 /\ counted = 0
    BY DEF Init
  <2> QED BY <2>1, <2>2 DEF Paid
<1>4. Echoes /\ Prompt
  <2>1. Due = 0
    BY DEF Init, Due
  <2>2. measures = 0 /\ sensor # "high" /\ ~edge /\ ~active /\ ~stale
    BY DEF Init
  <2> QED BY <2>1, <2>2 DEF Echoes, Prompt
<1> QED BY <1>1, <1>2, <1>3, <1>4 DEF IInv

LEMMA TypeStep == TypeOK /\ [Next]_vars => TypeOK'
<1> SUFFICES ASSUME TypeOK, [Next]_vars PROVE TypeOK'
  OBVIOUS
<1> USE DEF TypeOK
<1>1. count \in Nat \cup {-1} /\ count \in Counts \cup {0}
  BY CountsAssumption
<1>2. ASSUME NEW n \in Counts, NEW i \in Kinds, Scope(n, i) PROVE TypeOK'
  <2>1. n \in Nat \cup {-1} /\ count' = n
    BY <1>2, ScopeEffect
  <2>2. trig' \in {0, 1} /\ ev_trig_done' \in BOOLEAN /\ asked' \in Nat
    BY <1>2, ScopeEffect
  <2>3. calls' \in 0..MaxCalls
    BY <1>2, MaxCallsAssumption DEF Scope
  <2>4. ev_timer' \in BOOLEAN /\ immediate' \in BOOLEAN
    BY <1>2 DEF Scope, Kinds
  <2> QED BY <1>2, <2>1, <2>2, <2>3, <2>4 DEF Scope, echo
<1>3. CASE TimerScope
  <2>1. counted' \in Nat /\ count' = count
    BY <1>3, CountingEffect DEF TimerScope
  <2>2. trig' \in {0, 1} /\ ev_trig_done' \in BOOLEAN /\ asked' \in Nat /\ ev_timer' \in BOOLEAN
    BY <1>1, <1>3, <2>1, DoTrigEffect DEF TimerScope
  <2> QED BY <1>3, <2>1, <2>2 DEF TimerScope, echo
<1>4. CASE DelayTrig
  <2>1. trig' \in {0, 1} /\ ev_trig_done' \in BOOLEAN /\ asked' \in Nat
    BY <1>1, <1>4, DoTrigEffect DEF DelayTrig, scope
  <2> QED BY <1>4, <2>1 DEF DelayTrig, scope, echo
<1>5. CASE TrigDone
  BY <1>5 DEF TrigDone, scope, Lowered
<1>6. CASE EchoHigh
  BY <1>6 DEF EchoHigh, scope, timers, Recorded
<1>7. CASE EchoLow
  <2>1. counted' \in Nat
    BY <1>7, CountingEffect DEF EchoLow
  <2>2. ev_delay' \in BOOLEAN /\ stale' \in BOOLEAN
    <3>1. ev_delay' = (ev_delay \/ Again) /\ stale' = (stale \/ ~seen)
      BY <1>7 DEF EchoLow
    <3> QED BY <3>1
  <2>3. ev_timer' \in BOOLEAN /\ measures' \in Nat
    <3>1. ev_timer' \in {ev_timer, FALSE} /\ measures' = measures + 1
      BY <1>7 DEF EchoLow
    <3>2. ev_timer' \in BOOLEAN
      BY <3>1
    <3> QED BY <3>1, <3>2
  <2> QED BY <1>7, <2>1, <2>2, <2>3 DEF EchoLow, scope
<1>8. CASE Rise
  BY <1>8 DEF Rise, EdgeComes, scope, timers
<1>9. CASE Fall
  BY <1>9 DEF Fall, EdgeComes, scope, timers
<1>10. CASE Activate
  BY <1>10 DEF Activate, ReportedAgain, scope, timers
<1>11. CASE Del
  BY <1>11 DEF Del, scope
<1>12. CASE UNCHANGED vars
  BY <1>12 DEF vars, scope, timers, echo
<1> QED BY <1>2, <1>3, <1>4, <1>5, <1>6, <1>7, <1>8, <1>9, <1>10, <1>11, <1>12
        DEF Next, Device, Sensor

\* Only calls change the mode, and only they start the timer of an interval.
LEMMA ModeStep == TypeOK /\ Mode /\ [Next]_vars => Mode'
<1> SUFFICES ASSUME TypeOK, Mode, [Next]_vars PROVE Mode'
  OBVIOUS
<1> USE DEF Mode
<1>1. ASSUME NEW n \in Counts, NEW i \in Kinds, Scope(n, i) PROVE Mode'
  BY <1>1 DEF Scope, Kinds
<1>2. CASE TimerScope
  BY <1>2 DEF TimerScope
<1>3. CASE DelayTrig
  BY <1>3 DEF DelayTrig, scope
<1>4. CASE TrigDone \/ EchoHigh \/ Sensor
  BY <1>4 DEF TrigDone, EchoHigh, Sensor, Rise, Fall, Activate, scope, timers
<1>5. CASE EchoLow
  <2>1. UNCHANGED <<immediate, kind>> /\ ev_timer' \in {ev_timer, FALSE}
        /\ (~immediate => counted' = counted)
    BY <1>5 DEF EchoLow, scope
  <2>2. ~ev_timer => ~ev_timer'
    BY <2>1
  <2> QED BY <2>1, <2>2
<1>6. CASE Del
  BY <1>6 DEF Del, scope
<1>7. CASE UNCHANGED vars
  BY <1>7 DEF vars, scope, timers
<1> QED BY <1>1, <1>2, <1>3, <1>4, <1>5, <1>6, <1>7 DEF Next, Device

\* A timer of an interval and an echo of the immediate mode count one for each
\* trigger they cause, and cause none once the count is reached.
LEMMA PaidStep == TypeOK /\ Mode /\ Paid /\ [Next]_vars => Paid'
<1> SUFFICES ASSUME TypeOK, Mode, Paid, [Next]_vars PROVE Paid'
  OBVIOUS
<1>1. count \in Nat \cup {-1} /\ counted \in Nat /\ asked \in Nat
  BY CountsAssumption DEF TypeOK
<1>2. count # -1 => Cap \in Nat
  BY <1>1 DEF Cap
<1>11. /\ Owed \in Nat /\ Owed <= 1 /\ Extra \in Nat
       /\ counted \in Nat /\ asked \in Nat
  BY <1>1, Small
<1>3. CASE UNCHANGED <<scope, counted, ev_delay, asked>>
  BY <1>3 DEF Paid, Owed, Extra, Cap, scope
<1>4. ASSUME NEW n \in Counts, NEW i \in Kinds, Scope(n, i) PROVE Paid'
  <2>1. /\ n \in Nat \cup {-1} /\ count' = n /\ asked' \in Nat /\ asked' <= 1
        /\ i # "now" => asked' = 0
    BY <1>4, ScopeEffect
  <2>2. counted' = 0 /\ kind' = i /\ left' = ev_delay'
    BY <1>4 DEF Scope
  <2>3. /\ i = "now" => Extra' = Owed' + 1
        /\ i # "now" => Extra' = Owed'
    BY <2>2 DEF Owed, Extra
  <2>4. Owed' \in Nat /\ Owed' <= 1
    BY DEF Owed
  <2>5. count' # -1 => Cap' \in Nat
    BY <2>1 DEF Cap
  <2>6. asked' + Owed' <= Extra'
    BY <2>1, <2>3, <2>4
  <2> QED BY <2>1, <2>2, <2>3, <2>4, <2>5, <2>6 DEF Paid
<1>5. CASE TimerScope
  <2>1. /\ UNCHANGED <<count, kind, left, ev_delay>> /\ Counting
        /\ kind # "delete"
    BY <1>5 DEF TimerScope, Mode
  <2>2. counted' \in Nat /\ (count # -1 => counted' = counted + 1)
    BY <1>1, <2>1, CountingEffect
  <2>3. Owed' = Owed /\ Extra' = Extra /\ Cap' = Cap
    BY <2>1 DEF Owed, Extra, Cap
  <2>4. CASE Spent
    <3>1. asked' = asked
      BY <1>5, <2>4 DEF TimerScope
    <3> QED BY <1>1, <1>2, <1>11, <2>1, <2>2, <2>3, <3>1 DEF Paid
  <2>5. CASE ~Spent
    <3>1. DoTrig(asked) /\ count' = count
      BY <1>5, <2>1, <2>5 DEF TimerScope
    <3>2. asked' \in Nat /\ asked' <= asked + 1
      BY <1>1, <3>1, DoTrigEffect
    <3>3. count # -1 => counted < count /\ Cap = count
      BY <1>1, <2>1, <2>5 DEF Spent, Cap
    <3> SUFFICES ASSUME count # -1 PROVE asked' + Owed <= counted' + Extra
                                         /\ asked' + Owed <= Cap + Extra
      BY <2>1, <2>3 DEF Paid
    <3>4. /\ asked + Owed <= counted + Extra /\ counted < Cap /\ counted' = counted + 1
          /\ Cap \in Nat
      BY <1>2, <2>2, <3>3 DEF Paid
    <3>5. /\ asked \in Nat /\ asked' \in Nat /\ Owed \in Nat /\ Extra \in Nat
          /\ counted \in Nat /\ counted' \in Nat /\ Cap \in Nat
      BY <1>11, <2>2, <3>2, <3>4
    <3> QED BY <3>2, <3>4, <3>5, AskedOnce
  <2> QED BY <2>4, <2>5
<1>6. CASE DelayTrig
  <2>1. UNCHANGED <<count, kind, left, counted>> /\ ev_delay /\ ~ev_delay' /\ DoTrig(asked)
    BY <1>6 DEF DelayTrig, scope
  <2>2. asked' \in Nat /\ asked' <= asked + 1
    BY <1>1, <2>1, DoTrigEffect
  <2>3. Owed = 1 /\ Owed' = 0 /\ Extra' = Extra /\ Cap' = Cap
    BY <2>1 DEF Owed, Extra, Cap
  <2> SUFFICES ASSUME count # -1 PROVE asked' <= counted + Extra /\ asked' <= Cap + Extra
    BY <2>1, <2>2, <2>3 DEF Paid
  <2>4. /\ asked + 1 <= counted + Extra /\ asked + 1 <= Cap + Extra
        /\ Cap \in Nat
    BY <1>2, <2>3 DEF Paid
  <2> QED BY <1>11, <2>2, <2>4
<1>7. CASE TrigDone \/ EchoHigh \/ Sensor
  BY <1>3, <1>7 DEF TrigDone, EchoHigh, Sensor, Rise, Fall, Activate, timers
<1>8. CASE EchoLow
  <2>1. UNCHANGED <<count, kind, left, asked>> /\ ev_delay' = (ev_delay \/ Again)
    BY <1>8 DEF EchoLow, scope
  <2>2. Extra' = Extra /\ Cap' = Cap
    BY <2>1 DEF Extra, Cap
  <2>3. ~Again => Owed' = Owed
    BY <2>1 DEF Owed
  <2>4. Owed' \in Nat /\ Owed' <= 1
    BY DEF Owed
  <2>5. CASE ~immediate
    <3>1. counted' = counted /\ ~Again
      BY <1>8, <2>5 DEF EchoLow, Again
    <3> QED BY <2>1, <2>2, <2>3, <3>1 DEF Paid
  <2>6. CASE immediate
    <3>1. kind = "now" /\ Counting
      BY <1>8, <2>6 DEF EchoLow, Mode
    <3>2. counted' \in Nat /\ (count # -1 => counted' = counted + 1)
      BY <1>1, <3>1, CountingEffect
    <3>3. CASE Again
      <4>1. count # -1 => counted < count /\ Cap = count
        BY <1>1, <3>1, <3>3 DEF Again, Cap
      <4> SUFFICES ASSUME count # -1 PROVE asked + Owed' <= counted' + Extra
                                           /\ asked + Owed' <= Cap + Extra
        BY <2>1, <2>2 DEF Paid
      <4>2. /\ asked + Owed <= counted + Extra /\ counted < Cap /\ counted' = counted + 1
            /\ Cap \in Nat
        BY <1>2, <3>2, <4>1 DEF Paid
      <4> QED BY <1>11, <2>4, <3>2, <4>2, OwedOnce
    <3>4. CASE ~Again
      BY <1>1, <1>2, <1>11, <2>1, <2>2, <2>3, <3>2, <3>4 DEF Paid
    <3> QED BY <3>3, <3>4
  <2> QED BY <2>5, <2>6
<1>9. CASE Del
  <2>1. UNCHANGED <<count, kind, left, counted, asked>> /\ ~ev_delay'
    BY <1>9 DEF Del, scope
  <2>2. Owed' = 0 /\ Extra' = Extra /\ Cap' = Cap
    BY <2>1 DEF Owed, Extra, Cap
  <2> QED BY <1>1, <1>2, <1>11, <2>1, <2>2 DEF Paid
<1>10. CASE UNCHANGED vars
  BY <1>3, <1>10 DEF vars, timers
<1> QED BY <1>4, <1>5, <1>6, <1>7, <1>8, <1>9, <1>10 DEF Next, Device

\* The pin is raised and the timer that lowers it started in one step, and so
\* are the pin lowered and the timer gone (lines 58-65, 118-125); ultrasonic_del is the
\* exception.
LEMMA LowersStep == TypeOK /\ Lowers /\ [Next]_vars => Lowers'
<1> SUFFICES ASSUME TypeOK, Lowers, [Next]_vars PROVE Lowers'
  OBVIOUS
<1>1. count \in Nat \cup {-1} /\ asked \in Nat
  BY CountsAssumption DEF TypeOK
<1>2. CASE UNCHANGED <<exists, trig, ev_trig_done>>
  BY <1>2 DEF Lowers
<1>3. CASE trig' = 1 /\ ev_trig_done' = TRUE
  BY <1>3 DEF Lowers
<1>4. ASSUME NEW n \in Counts, NEW i \in Kinds, Scope(n, i) PROVE Lowers'
  <2>1. exists' = exists
    BY <1>4 DEF Scope
  <2>2. \/ trig' = 1 /\ ev_trig_done' = TRUE
        \/ UNCHANGED <<trig, ev_trig_done>>
    BY <1>4, ScopeEffect
  <2> QED BY <1>2, <1>3, <2>1, <2>2
<1>5. CASE TimerScope
  <2>1. CASE Spent
    BY <1>2, <1>5, <2>1 DEF TimerScope
  <2>2. CASE ~Spent
    BY <1>3, <1>5, <2>2 DEF TimerScope, DoTrig
  <2> QED BY <2>1, <2>2
<1>6. CASE DelayTrig
  BY <1>3, <1>6 DEF DelayTrig, DoTrig
<1>7. CASE TrigDone
  <2>1. trig' = 0 /\ ev_trig_done' = FALSE
    BY <1>7 DEF TrigDone, Lowered
  <2> QED BY <2>1 DEF Lowers
<1>8. CASE EchoHigh \/ EchoLow \/ Sensor
  BY <1>2, <1>8 DEF EchoHigh, EchoLow, Sensor, Rise, Fall, Activate, timers
<1>9. CASE Del
  BY <1>9 DEF Del, Lowers
<1>10. CASE UNCHANGED vars
  BY <1>2, <1>10 DEF vars, timers
<1> QED BY <1>4, <1>5, <1>6, <1>7, <1>8, <1>9, <1>10 DEF Next, Device

\* Each edge makes one call due at most, each call that finds the pin low uses
\* one, and a pulse has two edges; the calls due when a pulse begins, if the loop
\* is late, are measured once it has ended, or merge with its own.
LEMMA EchoesStep == TypeOK /\ Echoes /\ [Next]_vars => Echoes'
<1> SUFFICES ASSUME TypeOK, Echoes, [Next]_vars PROVE Echoes'
  OBVIOUS
<1>1. measures \in Nat /\ Due \in Nat /\ Due <= 2
  BY Small DEF TypeOK
<1>2. Due' \in Nat /\ Due' <= 2
  BY DEF Due
<1>3. CASE UNCHANGED <<exists, sensor, edge, active, measures>>
  BY <1>3 DEF Echoes, Due
<1>4. ASSUME NEW n \in Counts, NEW i \in Kinds, Scope(n, i) PROVE Echoes'
  BY <1>3, <1>4 DEF Scope, echo
<1>5. CASE TimerScope \/ DelayTrig
  BY <1>3, <1>5 DEF TimerScope, DelayTrig, echo
<1>6. CASE TrigDone
  <2>1. UNCHANGED <<exists, edge, active, measures>> /\ (sensor' = "high" <=> sensor = "high")
    BY <1>6 DEF TrigDone
  <2> QED BY <2>1 DEF Echoes, Due
<1>7. CASE Rise
  <2>1. sensor' = "high" /\ measures' = 0 /\ edge' = exists /\ UNCHANGED <<exists, active>>
    BY <1>7 DEF Rise, EdgeComes
  <2> QED BY <2>1 DEF Echoes
<1>8. CASE Fall
  <2>1. sensor = "high" /\ sensor' = "idle" /\ edge' = exists
        /\ UNCHANGED <<exists, active, measures>>
    BY <1>8 DEF Fall, EdgeComes
  <2>2. measures' = 0
    BY <2>1 DEF Echoes
  <2>3. measures' + Due' <= 2
    BY <1>2, <2>2, Sums
  <2> QED BY <2>1, <2>3 DEF Echoes
<1>9. CASE Activate
  <2>1. edge /\ ~active /\ active' /\ ~edge' /\ UNCHANGED <<exists, sensor, measures>>
    BY <1>9 DEF Activate, ReportedAgain
  <2>2. Due' = Due
    BY <2>1 DEF Due
  <2> QED BY <2>1, <2>2 DEF Echoes
<1>10. CASE EchoHigh
  <2>1. sensor = "high" /\ ~active' /\ UNCHANGED <<exists, sensor, edge, measures>>
    BY <1>10 DEF EchoHigh
  <2> QED BY <2>1 DEF Echoes
<1>11. CASE EchoLow
  <2>1. /\ sensor # "high" /\ active /\ ~active' /\ measures' = measures + 1
        /\ UNCHANGED <<exists, sensor, edge>>
    BY <1>11 DEF EchoLow
  <2>2. Due' = Due - 1
    BY <2>1 DEF Due
  <2>3. measures + Due <= 2
    BY <2>1 DEF Echoes
  <2>4. measures' + Due' <= 2
    BY <1>1, <1>2, <2>1, <2>2, <2>3
  <2> QED BY <2>1, <2>4 DEF Echoes
<1>12. CASE Del
  <2>1. ~edge' /\ ~active' /\ UNCHANGED <<sensor, measures>>
    BY <1>12 DEF Del
  <2>2. Due' = 0
    BY <2>1 DEF Due
  <2>3. sensor # "high" => measures <= 2
    BY <1>1 DEF Echoes
  <2> QED BY <1>1, <2>1, <2>2, <2>3 DEF Echoes
<1>13. CASE UNCHANGED vars
  BY <1>3, <1>13 DEF vars, echo
<1> QED BY <1>4, <1>5, <1>6, <1>7, <1>8, <1>9, <1>10, <1>11, <1>12, <1>13
        DEF Next, Device, Sensor

\* With a prompt loop the call for the rising edge comes before the falling edge,
\* and the call for that before the next pulse.
LEMMA PromptStep == TypeOK /\ Echoes /\ Prompt /\ [Next]_vars => Prompt'
<1> SUFFICES ASSUME TypeOK, Echoes, Prompt, [Next]_vars PROVE Prompt'
  OBVIOUS
<1>1. measures \in Nat /\ Due \in Nat /\ Due <= 2
  BY Small DEF TypeOK
<1>2. Due' \in Nat /\ Due' <= 2
  BY DEF Due
<1>3. CASE UNCHANGED <<prompt, exists, sensor, edge, active, measures, seen, stale>>
  BY <1>3 DEF Prompt, Due
<1>4. ASSUME NEW n \in Counts, NEW i \in Kinds, Scope(n, i) PROVE Prompt'
  BY <1>3, <1>4 DEF Scope, echo
<1>5. CASE TimerScope \/ DelayTrig
  BY <1>3, <1>5 DEF TimerScope, DelayTrig, echo
<1>6. CASE TrigDone
  <2>1. UNCHANGED <<prompt, exists, edge, active, measures, seen, stale>>
        /\ (sensor' = "high" <=> sensor = "high")
    BY <1>6 DEF TrigDone
  <2> QED BY <2>1 DEF Prompt, Due
<1> SUFFICES ASSUME ~(UNCHANGED vars), prompt' = TRUE PROVE Prompt'
  BY <1>3 DEF Prompt, vars, echo
<1>7. CASE Rise
  <2>1. /\ sensor' = "high" /\ measures' = 0 /\ edge' = exists
        /\ UNCHANGED <<prompt, exists, active, stale>> /\ (prompt => ~active)
    BY <1>7 DEF Rise, EdgeComes
  <2>2. prompt => ~active' /\ ~stale'
    BY <2>1 DEF Prompt
  <2>3. prompt => Due' <= 1
    BY <2>2 DEF Due
  <2>4. prompt => measures' + Due' <= 1
    BY <1>2, <2>1, <2>3, Sums
  <2> QED BY <2>1, <2>2, <2>4 DEF Prompt
<1>8. CASE Fall
  <2>1. /\ sensor = "high" /\ sensor' = "idle" /\ edge' = exists
        /\ UNCHANGED <<prompt, exists, active, measures, seen, stale>>
        /\ (prompt => ~active /\ ~edge)
    BY <1>8 DEF Fall, EdgeComes
  <2>2. prompt => ~active' /\ ~stale' /\ (exists => seen)
    BY <2>1 DEF Prompt
  <2>3. measures' = 0
    BY <2>1 DEF Echoes
  <2>4. prompt => Due' <= 1
    BY <2>2 DEF Due
  <2>5. prompt => measures' + Due' <= 1
    BY <1>2, <2>3, <2>4, Sums
  <2> QED BY <2>1, <2>2, <2>5 DEF Prompt
<1>9. CASE Activate
  <2>1. edge /\ ~active /\ active' /\ ~edge'
        /\ UNCHANGED <<prompt, exists, sensor, measures, seen, stale>>
    BY <1>9 DEF Activate, ReportedAgain
  <2>2. Due' = Due
    BY <2>1 DEF Due
  <2> QED BY <2>1, <2>2 DEF Prompt
<1>10. CASE EchoHigh
  <2>1. /\ sensor = "high" /\ active /\ ~active' /\ seen' /\ ~(sensor' # "high")
        /\ UNCHANGED <<prompt, exists, sensor, edge, measures, stale>>
    BY <1>10 DEF EchoHigh, Recorded
  <2>2. Due' = Due - 1
    BY <2>1 DEF Due
  <2>3. prompt => measures' + Due' <= 1
    <3>1. prompt => measures + Due <= 1
      BY DEF Prompt
    <3> QED BY <1>1, <1>2, <2>1, <2>2, <3>1
  <2> QED BY <2>1, <2>3 DEF Prompt
<1>11. CASE EchoLow
  <2>1. /\ sensor # "high" /\ active /\ ~active' /\ measures' = measures + 1
        /\ UNCHANGED <<prompt, exists, sensor, edge, seen>>
        /\ stale' = (stale \/ ~seen)
    BY <1>11 DEF EchoLow
  <2>2. Due' = Due - 1
    BY <2>1 DEF Due
  <2>3. prompt => measures' + Due' <= 1
    <3>1. prompt => measures + Due <= 1
      BY DEF Prompt
    <3> QED BY <1>1, <1>2, <2>1, <2>2, <3>1
  <2>4. prompt => ~stale'
    BY <2>1 DEF Prompt
  <2> QED BY <2>1, <2>3, <2>4 DEF Prompt
<1>12. CASE Del
  <2>1. ~edge' /\ ~active' /\ ~exists' /\ UNCHANGED <<prompt, sensor, measures, seen, stale>>
    BY <1>12 DEF Del
  <2>2. Due' = 0
    BY <2>1 DEF Due
  <2>3. prompt => measures <= 1
    BY <1>1 DEF Prompt
  <2> QED BY <1>1, <2>1, <2>2, <2>3 DEF Prompt
<1> QED BY <1>4, <1>5, <1>6, <1>7, <1>8, <1>9, <1>10, <1>11, <1>12
        DEF Next, Device, Sensor

\* A link of the chain ends only in the step that begins the next.
LEMMA ChainStep == TypeOK /\ Lowers /\ ChainAlive /\ [Next]_vars => ChainAlive'
<1> SUFFICES ASSUME TypeOK, ChainAlive, [Next]_vars,
                    exists', immediate', count' = -1
             PROVE  ~Quiet'
  BY DEF ChainAlive
<1>1. ASSUME NEW n \in Counts, NEW i \in Kinds, Scope(n, i) PROVE ~Quiet'
  <2>1. i = "now"
    BY <1>1 DEF Scope
  <2>2. ev_trig_done'
    BY <1>1, <2>1, ScopeEffect
  <2> QED BY <2>2 DEF Quiet
<1>2. CASE TimerScope
  <2>1. ~Spent
    BY <1>2 DEF TimerScope, Spent
  <2>2. ev_trig_done'
    BY <1>2, <2>1 DEF TimerScope, DoTrig
  <2> QED BY <2>2 DEF Quiet
<1>3. CASE DelayTrig
  <2>1. ev_trig_done'
    BY <1>3 DEF DelayTrig, DoTrig
  <2> QED BY <2>1 DEF Quiet
<1>4. CASE TrigDone
  <2>1. sensor' # "idle"
    BY <1>4 DEF TrigDone, Lowered
  <2> QED BY <2>1 DEF Quiet
<1>5. CASE Rise \/ EchoHigh
  <2>1. sensor' = "high"
    BY <1>5 DEF Rise, EchoHigh
  <2> QED BY <2>1 DEF Quiet
<1>6. CASE Fall
  <2>1. edge'
    BY <1>6 DEF Fall, EdgeComes
  <2> QED BY <2>1 DEF Quiet
<1>7. CASE Activate
  <2>1. active'
    BY <1>7 DEF Activate
  <2> QED BY <2>1 DEF Quiet
<1>8. CASE EchoLow
  <2>1. Again
    BY <1>8 DEF EchoLow, scope, Again
  <2>2. ev_delay'
    BY <1>8, <2>1 DEF EchoLow
  <2> QED BY <2>2 DEF Quiet
<1>9. CASE Del
  BY <1>9 DEF Del
<1>10. CASE UNCHANGED vars
  BY <1>10 DEF vars, scope, timers, echo, ChainAlive, Quiet
<1> QED BY <1>1, <1>2, <1>3, <1>4, <1>5, <1>6, <1>7, <1>8, <1>9, <1>10
        DEF Next, Device, Sensor

LEMMA Inductive == Spec => []IInv
<1>1. IInv /\ [Next]_vars => IInv'
  BY TypeStep, ModeStep, PaidStep, LowersStep, EchoesStep, PromptStep, ChainStep DEF IInv
<1> QED BY InitIInv, <1>1, PTL DEF Spec

-----------------------------------------------------------------------------
\* The fields of struct ultrasonic_dev and the counters of its two modes keep
\* their types for ever (ultrasonic.c 27-60).
THEOREM TypeCorrect == Spec => []TypeOK
<1>1. IInv => TypeOK
  BY DEF IInv
<1> QED BY Inductive, <1>1, PTL

\* No sequence of calls triggers more often than the last one asked for, but for
\* one delayed trigger left over, and every trigger pulse ends (ultrasonic.c
\* 58-65, 118-125, 190-252).
THEOREM TriggersAreBounded == Spec => []TriggersBounded
<1>1. IInv => TriggersBounded
  <2> SUFFICES ASSUME IInv, count # -1
               PROVE  asked <= Allowed + (IF left THEN 1 ELSE 0)
    BY DEF IInv, Lowers, TriggersBounded
  <2>1. count \in Nat /\ asked \in Nat /\ kind \in Kinds
    BY CountsAssumption DEF IInv, TypeOK
  <2>2. asked + Owed <= Cap + Extra /\ Owed \in Nat /\ Owed <= 1
    BY Small DEF IInv, Paid
  <2>3. Cap + Extra = Allowed + (IF left THEN 1 ELSE 0)
    BY <2>1 DEF Cap, Extra, Allowed, Kinds
  <2>4. Cap + Extra \in Nat
    BY <2>1, Small DEF Cap
  <2>5. asked <= Cap + Extra
    BY <2>1, <2>2, <2>4
  <2> QED BY <2>3, <2>5
<1> QED BY Inductive, <1>1, PTL

\* A prompt loop measures each pulse once and by its own edges; a late one at
\* most twice, whatever it merges (ultrasonic.c 80-116).
THEOREM MeasuresAreOfPulses == Spec => []MeasuresMatchPulses
<1>1. IInv => MeasuresMatchPulses
  <2> SUFFICES ASSUME IInv PROVE MeasuresMatchPulses
    OBVIOUS
  <2>1. measures \in Nat /\ Due \in Nat /\ Due <= 2
    BY Small DEF IInv, TypeOK
  <2>2. measures <= 2
    BY <2>1 DEF IInv, Echoes
  <2>3. prompt => measures <= 1 /\ ~stale
    BY <2>1 DEF IInv, Prompt
  <2> QED BY <2>2, <2>3 DEF MeasuresMatchPulses
<1> QED BY Inductive, <1>1, PTL

\* An endless immediate mode always has its next step under way (ultrasonic.c
\* 58-78, 108-114, 190-240).
THEOREM ChainStaysAlive == Spec => []ChainAlive
<1>1. IInv => ChainAlive
  BY DEF IInv
<1> QED BY Inductive, <1>1, PTL
=============================================================================
