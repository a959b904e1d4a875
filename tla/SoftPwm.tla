------------------------------- MODULE SoftPwm -------------------------------
(***************************************************************************)
(* The software PWM of src/raspd/softpwm.c: a cyclic chain of DMA control   *)
(* blocks, one pair per sample, that the DMA engine executes for ever while *)
(* the CPU rewrites the samples under it without any synchronisation.       *)
(*                                                                          *)
(* The CPU's update (set_mask_data) is a sequence of word writes; the DMA   *)
(* engine fetches a control block and then moves its word, and any number   *)
(* of steps of one may come between two steps of the other.  The handler    *)
(* `terminate' of raspd.c is a signal handler: it may abandon an update at  *)
(* any word and run softpwm_stop over what the update left behind.          *)
(*                                                                          *)
(* A word of the mask is a set of pins.                                     *)
(***************************************************************************)
EXTENDS Integers, FiniteSets

CONSTANTS
    Pins,         \* the channels in use
    NrSamples,    \* nr_samples = cycle_time_us / sample_time_us
    Data,         \* the duty values callers pass
    MaxTerminate  \* bound: how many times a signal may enter `terminate'

ASSUME PinsAssumption == Pins \subseteq 0..31
ASSUME NrSamplesAssumption == NrSamples \in Nat \ {0}
ASSUME DataAssumption == Data \subseteq Int
ASSUME MaxTerminateAssumption == MaxTerminate \in Nat

VARIABLES
    initialized,   \* softpwm.c's flag of the same name
    channel_data,  \* the value last asked for, per pin
    channel_mask,  \* the pins that are enabled
    dst0,          \* cb[0].dst
    sample,        \* the word each first-of-pair control block moves
    cpu,           \* the update in progress: its pins, its data, the next write
    stop,          \* where softpwm_stop is
    left,          \* the channels its loop has not come to yet
    terminated,    \* how many times `terminate' was entered
    dma,           \* the engine: running, next sample, phase, latched dst
    level,         \* the pins the hardware drives high
    duty,          \* history: the duty of the last completed update, per pin
    lo, hi,        \* history: bounds of the duties in effect in this cycle
    quiet,         \* history: samples moved since the last write of the CPU
    torn           \* history: pins whose switching off a signal abandoned

cpuVars  == <<initialized, channel_data, channel_mask, dst0, sample, cpu, stop,
              left, terminated>>
dmaVars  == <<dma, level>>
histVars == <<duty, lo, hi, quiet, torn>>
vars     == <<cpuVars, dmaVars, histVars>>

Positions == 0..NrSamples - 1

\* The program counter of set_mask_data: the word it writes next.
AtMask == -2            \* channel_mask
AtDst  == -1            \* cb[0].dst
Idle   == NrSamples     \* past the last sample: no update in progress

MutClamp(d) == IF d < 0 THEN 0 ELSE d

\* Lines 209-210; a value <= 0 disables the channel, so its duty is 0.
Clamp(d) == IF d > NrSamples THEN NrSamples ELSE IF d < 0 THEN 0 ELSE d

Lesser(a, b)  == IF a < b THEN a ELSE b
Greater(a, b) == IF a > b THEN a ELSE b

-----------------------------------------------------------------------------
(* The state softpwm_init leaves: samples zeroed, every block aimed at      *)
(* GPCLR0, no channel, the engine started at the first block.               *)

Init ==
    /\ initialized = TRUE
    /\ channel_data = [p \in Pins |-> -1]
    /\ channel_mask = {}
    /\ dst0 = "GPCLR0"
    /\ sample = [i \in Positions |-> {}]
    /\ cpu = [at |-> Idle, pins |-> {}, data |-> 0]
    /\ stop = "no"
    /\ left = {}
    /\ terminated = 0
    /\ dma = [on |-> TRUE, pos |-> 0, phase |-> "fetch", dst |-> "GPCLR0"]
    /\ level = {}
    /\ duty = [p \in Pins |-> 0]
    /\ lo = [p \in Pins |-> 0]
    /\ hi = [p \in Pins |-> NrSamples]
    /\ quiet = 0
    /\ torn = {}

-----------------------------------------------------------------------------
(* The CPU.                                                                 *)

\* The bounds of the cycle take in the duty d that pin p is about to get; a
\* channel switched on or off is followed again from the next cycle on.
Follow(p, d) ==
    /\ lo' = [q \in Pins |-> IF q \notin p THEN lo[q]
                             ELSE IF d = 0 \/ duty[q] = 0 THEN 0
                             ELSE Lesser(lo[q], d)]
    /\ hi' = [q \in Pins |-> IF q \notin p THEN hi[q]
                             ELSE IF d = 0 \/ duty[q] = 0 \/ lo[q] = 0
                                  THEN NrSamples
                             ELSE Greater(hi[q], d)]

\* Enter set_mask_data for the pins, their channel_data already stored.
Begin(pins, d) ==
    /\ channel_data' = [p \in Pins |-> IF p \in pins THEN d ELSE channel_data[p]]
    /\ cpu' = [at |-> AtMask, pins |-> pins, data |-> Clamp(d)]
    /\ Follow(pins, Clamp(d))

\* softpwm_set_data and softpwm_set_multi: -ENOENT unless initialized.
SetMulti(pins, d) ==
    /\ initialized
    /\ stop = "no"
    /\ cpu.at = Idle
    /\ Begin(pins, d)
    /\ UNCHANGED <<initialized, channel_mask, dst0, sample, stop, left, terminated,
                   dmaVars, duty, quiet, torn>>

SetData(pin, d) == SetMulti({pin}, d)

\* Lines 212-215.
UpdateMask ==
    /\ cpu.at = AtMask
    /\ channel_mask' = IF cpu.data = 0 THEN channel_mask \ cpu.pins
                                       ELSE channel_mask \cup cpu.pins
    /\ cpu' = [cpu EXCEPT !.at = AtDst]
    /\ UNCHANGED <<initialized, channel_data, dst0, sample, stop, left, terminated,
                   dmaVars, histVars>>

MutDstFor(mask) == "GPCLR0"

DstFor(mask) == IF mask = {} THEN "GPCLR0" ELSE "GPSET0"

\* Lines 220 and 228.
WriteDst ==
    /\ cpu.at = AtDst
    /\ dst0' = DstFor(channel_mask)
    /\ cpu' = [cpu EXCEPT !.at = 0]
    /\ quiet' = 0
    /\ UNCHANGED <<initialized, channel_data, channel_mask, sample, stop, left,
                   terminated, dmaVars, duty, lo, hi, torn>>

\* What a completed update leaves in the history.
Completed(next) ==
    duty' = IF next = Idle
            THEN [p \in Pins |-> IF p \in cpu.pins THEN cpu.data ELSE duty[p]]
            ELSE duty

\* Lines 221 and 229; when no channel is left the other samples stay as they
\* are (the FIXME of line 230).
WriteFirst ==
    /\ cpu.at = 0
    /\ sample' = [sample EXCEPT ![0] = channel_mask]
    /\ LET next == IF channel_mask = {} THEN Idle ELSE 1
       IN  /\ cpu' = [cpu EXCEPT !.at = next]
           /\ Completed(next)
    /\ quiet' = 0
    /\ UNCHANGED <<initialized, channel_data, channel_mask, dst0, stop, left,
                   terminated, dmaVars, lo, hi, torn>>

MutWord(word, i) == IF i <= cpu.data THEN word \ cpu.pins ELSE word \cup cpu.pins
MutKeepsBits(word, i) == IF i < cpu.data THEN word ELSE word \cup cpu.pins

\* Lines 223-226: no clear bit before the duty, a clear bit from there on.
Word(word, i) == IF i < cpu.data THEN word \ cpu.pins ELSE word \cup cpu.pins

WriteSample ==
    /\ cpu.at \in 1..NrSamples - 1
    /\ sample' = [sample EXCEPT ![cpu.at] = Word(@, cpu.at)]
    /\ cpu' = [cpu EXCEPT !.at = @ + 1]
    /\ Completed(cpu.at + 1)
    /\ quiet' = 0
    /\ UNCHANGED <<initialized, channel_data, channel_mask, dst0, stop, left,
                   terminated, dmaVars, lo, hi, torn>>

Update == UpdateMask \/ WriteDst \/ WriteFirst \/ WriteSample

-----------------------------------------------------------------------------
(* softpwm_stop, from the Lua function softpwm_exit or from `terminate'.    *)

\* Called by the program itself: no update is in progress.
SoftpwmStop ==
    /\ stop = "no"
    /\ cpu.at = Idle
    /\ stop' = "loop"
    /\ left' = Pins
    /\ UNCHANGED <<initialized, channel_data, channel_mask, dst0, sample, cpu,
                   terminated, dmaVars, histVars>>

\* Called from the signal handler: the update in progress never resumes, nor
\* does the softpwm_stop of a handler that another signal interrupts.
Terminate ==
    /\ stop # "off"
    /\ terminated < MaxTerminate
    /\ terminated' = terminated + 1
    /\ stop' = "loop"
    /\ left' = Pins
    /\ cpu' = [cpu EXCEPT !.at = Idle]
    /\ torn' = IF cpu.at = Idle \/ cpu.data > 0 THEN torn ELSE torn \cup cpu.pins
    /\ UNCHANGED <<initialized, channel_data, channel_mask, dst0, sample,
                   dmaVars, duty, lo, hi, quiet>>

\* Lines 345-348, one turn of the loop over the channels: switch the next one
\* off if its data are > 0.
StopChannel ==
    /\ stop = "loop"
    /\ cpu.at = Idle
    /\ \E p \in left :
         /\ \A q \in left : p <= q
         /\ left' = left \ {p}
         /\ IF channel_data[p] > 0 THEN Begin({p}, 0)
                                   ELSE UNCHANGED <<channel_data, cpu, lo, hi>>
    /\ UNCHANGED <<initialized, channel_mask, dst0, sample, stop, terminated,
                   dmaVars, duty, quiet, torn>>

StopSleep ==
    /\ stop = "loop"
    /\ cpu.at = Idle
    /\ left = {}
    /\ stop' = "sleep"
    /\ quiet' = 0
    /\ UNCHANGED <<initialized, channel_data, channel_mask, dst0, sample, cpu,
                   left, terminated, dmaVars, duty, lo, hi, torn>>

MutSlept == TRUE

Slept == quiet >= NrSamples

\* Lines 349-352: after udelay(cycle_time_us) the engine has moved a whole
\* cycle of samples; then it is reset.
StopReset ==
    /\ stop = "sleep"
    /\ Slept
    /\ dma' = [dma EXCEPT !.on = FALSE]
    /\ initialized' = FALSE
    /\ stop' = "off"
    /\ UNCHANGED <<channel_data, channel_mask, dst0, sample, cpu, left,
                   terminated, level, histVars>>

Cpu == Update \/ SoftpwmStop \/ StopChannel \/ StopSleep \/ StopReset

-----------------------------------------------------------------------------
(* The DMA engine.                                                          *)

\* Load control block pos; only the first block's destination ever changes.
DmaFetch ==
    /\ dma.on
    /\ dma.phase = "fetch"
    /\ dma' = [dma EXCEPT !.phase = "move",
                          !.dst = IF dma.pos = 0 THEN dst0 ELSE "GPCLR0"]
    /\ IF dma.pos # 0 THEN UNCHANGED <<lo, hi>>
       ELSE LET busy(p) == cpu.at # Idle /\ p \in cpu.pins
                off(p)  == duty[p] = 0 \/ (busy(p) /\ cpu.data = 0)
            IN  /\ lo' = [p \in Pins |->
                            IF off(p) THEN 0
                            ELSE IF busy(p) THEN Lesser(duty[p], cpu.data)
                            ELSE duty[p]]
                /\ hi' = [p \in Pins |->
                            IF off(p) THEN NrSamples
                            ELSE IF busy(p) THEN Greater(duty[p], cpu.data)
                            ELSE duty[p]]
    /\ UNCHANGED <<cpuVars, level, duty, quiet, torn>>

\* Move the word to GPSET0 or GPCLR0, wait for the PWM's pace, go on.
DmaMove ==
    /\ dma.on
    /\ dma.phase = "move"
    /\ level' = IF dma.dst = "GPSET0" THEN level \cup sample[dma.pos]
                                      ELSE level \ sample[dma.pos]
    /\ dma' = [dma EXCEPT !.phase = "fetch",
                          !.pos = IF @ = NrSamples - 1 THEN 0 ELSE @ + 1]
    /\ quiet' = IF quiet < 2 * NrSamples THEN quiet + 1 ELSE quiet
    /\ UNCHANGED <<cpuVars, duty, lo, hi, torn>>

Dma == DmaFetch \/ DmaMove

-----------------------------------------------------------------------------
Next ==
    \/ \E p \in Pins, d \in Data : SetData(p, d)
    \/ \E ps \in SUBSET Pins, d \in Data : SetMulti(ps, d)
    \/ Update
    \/ SoftpwmStop
    \/ Terminate
    \/ StopChannel
    \/ StopSleep
    \/ StopReset
    \/ Dma

Spec == Init /\ [][Next]_vars

-----------------------------------------------------------------------------
(* Properties.                                                              *)

TypeOK ==
    /\ initialized \in BOOLEAN
    /\ channel_data \in [Pins -> Int]
    /\ channel_mask \in SUBSET Pins
    /\ dst0 \in {"GPCLR0", "GPSET0"}
    /\ sample \in [Positions -> SUBSET Pins]
    /\ cpu \in [at : AtMask..Idle, pins : SUBSET Pins, data : 0..NrSamples]
    /\ stop \in {"no", "loop", "sleep", "off"}
    /\ left \in SUBSET Pins
    /\ terminated \in 0..MaxTerminate
    /\ dma \in [on : BOOLEAN, pos : Positions, phase : {"fetch", "move"},
                dst : {"GPCLR0", "GPSET0"}]
    /\ level \in SUBSET Pins
    /\ duty \in [Pins -> 0..NrSamples]
    /\ lo \in [Pins -> 0..NrSamples]
    /\ hi \in [Pins -> 0..NrSamples]
    /\ quiet \in 0..2 * NrSamples
    /\ torn \in SUBSET Pins

\* The sample the engine moved last in the cycle whose bounds lo and hi are.
Moved(j) ==
    \/ dma.pos = j + 1
    \/ dma.pos = 0 /\ dma.phase = "fetch" /\ j = NrSamples - 1

\* However the CPU's writes and the engine's reads interleave, and however
\* many updates a cycle sees, the pulse of a channel that stays enabled is no
\* shorter than the least and no longer than the greatest duty in effect
\* during the cycle: no torn or merged pulse reaches the ESC (set_mask_data,
\* lines 217-226, against the chain of init_ctrl_data).
PulseWithinBounds ==
    stop = "no" =>
        \A p \in Pins, j \in Positions :
            Moved(j) => /\ j < lo[p]  => p \in level
                        /\ j >= hi[p] => p \notin level

\* The data structure the engine reads is what channel_data promises whenever
\* no update is in progress: the enabled channels are those with data > 0, the
\* first block sets exactly them, and each is cleared from its duty on.
SamplesMatchData ==
    stop = "no" /\ cpu.at = Idle =>
        /\ channel_mask = {p \in Pins : channel_data[p] > 0}
        /\ sample[0] = channel_mask
        /\ dst0 = "GPSET0" <=> channel_mask # {}
        /\ \A p \in channel_mask, i \in Positions \ {0} :
             p \in sample[i] <=> i >= channel_data[p]

\* Two cycles after the last write every enabled pin is high for exactly its
\* duty, and a disabled one is low, unless it was switched off at full duty as
\* the last channel (line 230) and so no block clears it.
SteadyWave ==
    stop = "no" /\ cpu.at = Idle /\ quiet = 2 * NrSamples =>
        \A p \in Pins, j \in Positions : Moved(j) /\ dma.phase = "fetch" =>
            IF p \in channel_mask THEN p \in level <=> j < channel_data[p]
            ELSE p \in level => \A i \in Positions : p \notin sample[i]

\* The comment of line 204: data = 0 sets the pin to 0.
ZeroDrivesLow ==
    stop = "no" /\ cpu.at = Idle /\ quiet = 2 * NrSamples =>
        \A p \in Pins : channel_data[p] = 0 => p \notin level

\* softpwm_stop leaves every pin low when it resets the engine, whatever update
\* a signal abandoned and wherever further signals started it over, except a
\* pin whose own switching off was abandoned (its data are 0 already, so that
\* line 346 skips it) and a pin no block clears (line 230).
StopLeavesLow ==
    stop = "off" =>
        \A p \in level : \/ p \in torn
                         \/ \A i \in Positions : p \notin sample[i]
=============================================================================
