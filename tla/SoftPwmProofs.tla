---------------------------- MODULE SoftPwmProofs ----------------------------
(***************************************************************************)
(* Proofs about SoftPwm, for every set of channels, every number of samples, *)
(* every set of duty values and any number of signals.                      *)
(***************************************************************************)
EXTENDS SoftPwm, TLAPS

(* The inductive invariant: what the memory holds at every point of an       *)
(* update.  Nothing is claimed once the shutdown has begun.                  *)

\* The update in progress is about to change pin p.
Busy(p) == cpu.at # Idle /\ p \in cpu.pins

\* The channels enabled before the update in progress.
Enabled == {p \in Pins : duty[p] > 0}

\* channel_data is what the update writes, or what the last one wrote.
DataInv ==
    \A p \in Pins : Clamp(channel_data[p]) = IF Busy(p) THEN cpu.data ELSE duty[p]

MaskInv ==
    channel_mask = IF cpu.at \in {AtMask, Idle} THEN Enabled
                   ELSE IF cpu.data = 0 THEN Enabled \ cpu.pins
                   ELSE Enabled \cup cpu.pins

\* The destination and the word of the first block follow the mask, in this
\* order.
HeadInv ==
    /\ dst0 = DstFor(IF cpu.at \in {AtMask, AtDst} THEN Enabled ELSE channel_mask)
    /\ sample[0] = IF cpu.at \in {AtMask, AtDst, 0} THEN Enabled ELSE channel_mask

\* The words before the next one to be written are new, the others are old.
WordInv ==
    \A p \in Pins, i \in 1..NrSamples - 1 :
        IF Busy(p) /\ i < cpu.at THEN p \in sample[i] <=> i >= cpu.data
        ELSE duty[p] > 0 => (p \in sample[i] <=> i >= duty[p])

SampleInv == stop = "no" => DataInv /\ MaskInv /\ HeadInv /\ WordInv

\* The bounds of a cycle hold the duties in effect; a channel that is not on
\* throughout the cycle has the bounds that claim nothing.
BoundsInv ==
    \A p \in Pins :
        IF lo[p] = 0 THEN hi[p] = NrSamples
        ELSE /\ 0 < duty[p] /\ lo[p] <= duty[p] /\ duty[p] <= hi[p]
             /\ Busy(p) => 0 < cpu.data /\ lo[p] <= cpu.data /\ cpu.data <= hi[p]

\* What the engine has latched: only the first block sets pins.
LatchInv ==
    dma.phase = "move" =>
        IF dma.pos = 0 THEN \A p \in Pins : lo[p] > 0 => dma.dst = "GPSET0"
        ELSE dma.dst = "GPCLR0"

PulseInv == stop = "no" => BoundsInv /\ LatchInv /\ PulseWithinBounds

\* The moves since the first word, which was the first of them; and how many
\* moves ago word i was moved.
Since == IF dma.pos = 0 THEN NrSamples ELSE dma.pos
Ago(i) == IF i < dma.pos THEN dma.pos - i ELSE dma.pos - i + NrSamples

\* A word past the first that was moved since the last write cleared its pins.
Cleared(p) ==
    \A i \in 1..NrSamples - 1 : Ago(i) <= quiet /\ p \in sample[i] => p \notin level

\* Without an update in progress, what was moved since the last write shows.
WaveInv ==
    stop = "no" /\ cpu.at = Idle =>
        /\ dma.phase = "move" /\ dma.pos = 0 /\ quiet > 0 => dma.dst = dst0
        /\ \A p \in channel_mask : quiet > Since => (p \in level <=> Since - 1 < duty[p])
        /\ \A p \in Pins \ channel_mask : Cleared(p)

\* Only the first block sets pins, before the shutdown and in it.
FirstOnly == dma.phase = "move" /\ dma.pos # 0 => dma.dst = "GPCLR0"

\* What is claimed of a pin through the shutdown, unless a signal abandoned its
\* switching off: once its data are not > 0 and no update is about to write
\* them, neither the mask nor the first word has it.
PinInv(p) ==
    /\ Busy(p) => cpu.data = Clamp(channel_data[p])
    /\ ~(channel_data[p] > 0) =>
          /\ p \in channel_mask => Busy(p) /\ cpu.at = AtMask
          /\ p \in sample[0] => Busy(p) /\ cpu.at \in {AtMask, AtDst, 0}

TornInv == \A p \in Pins \ torn : PinInv(p)

\* The channels the shutdown has come to, all of them once its loop is over.
Passed == \A p \in Pins \ left : ~(channel_data[p] > 0)

StopInv ==
    /\ stop \in {"loop", "sleep"} => Passed
    /\ stop \in {"sleep", "off"} => cpu.at = Idle /\ left = {}
    /\ stop = "sleep" => \A p \in Pins \ torn : Cleared(p)
    /\ stop = "off" => dma.on = FALSE /\ StopLeavesLow

-----------------------------------------------------------------------------
(* Type correctness.                                                        *)

\* A clamped value is a duty (lines 209-210).
LEMMA ClampType == ASSUME NEW d \in Int PROVE Clamp(d) \in 0..NrSamples
BY NrSamplesAssumption DEF Clamp

\* An update begins with typed data and bounds.
LEMMA BeginType ==
    ASSUME TypeOK, NEW ps \in SUBSET Pins, NEW d \in Int, Begin(ps, d)
    PROVE  /\ channel_data' \in [Pins -> Int]
           /\ cpu' \in [at : AtMask..Idle, pins : SUBSET Pins, data : 0..NrSamples]
           /\ lo' \in [Pins -> 0..NrSamples]
           /\ hi' \in [Pins -> 0..NrSamples]
<1>1. Clamp(d) \in 0..NrSamples
  BY ClampType
<1>2. channel_data' \in [Pins -> Int]
  BY DEF Begin, TypeOK
<1>3. cpu' \in [at : AtMask..Idle, pins : SUBSET Pins, data : 0..NrSamples]
  BY <1>1, NrSamplesAssumption DEF Begin, AtMask, Idle
<1>4. \A q \in Pins : lo[q] \in 0..NrSamples /\ hi[q] \in 0..NrSamples
  BY DEF TypeOK
<1>5. lo' \in [Pins -> 0..NrSamples]
  BY <1>1, <1>4, NrSamplesAssumption DEF Begin, Follow, Lesser
<1>6. hi' \in [Pins -> 0..NrSamples]
  BY <1>1, <1>4, NrSamplesAssumption DEF Begin, Follow, Greater
<1> QED BY <1>2, <1>3, <1>5, <1>6

\* The CPU's actions preserve the types.
LEMMA CpuType ==
    ASSUME TypeOK, Cpu \/ Terminate \/ \E ps \in SUBSET Pins, d \in Data : SetMulti(ps, d)
    PROVE  TypeOK'
<1> USE DEF TypeOK
<1>0. /\ NrSamples \in Nat /\ NrSamples > 0
      /\ cpu.at \in AtMask..Idle /\ cpu.pins \in SUBSET Pins /\ cpu.data \in 0..NrSamples
      /\ cpu = [at |-> cpu.at, pins |-> cpu.pins, data |-> cpu.data]
  BY NrSamplesAssumption
<1>1. ASSUME NEW ps \in SUBSET Pins, NEW d \in Data, SetMulti(ps, d) PROVE TypeOK'
  BY <1>1, BeginType, DataAssumption DEF SetMulti, dmaVars
<1>2. CASE UpdateMask
  <2>1. channel_mask' \in SUBSET Pins
    BY <1>0, <1>2 DEF UpdateMask
  <2>2. cpu' = [cpu EXCEPT !.at = AtDst]
    BY <1>2 DEF UpdateMask
  <2>3. cpu' \in [at : AtMask..Idle, pins : SUBSET Pins, data : 0..NrSamples]
    BY <1>0, <2>2 DEF AtMask, AtDst, Idle
  <2> QED BY <1>2, <2>1, <2>3 DEF UpdateMask, dmaVars, histVars
<1>3. CASE WriteDst
  <2>1. cpu' \in [at : AtMask..Idle, pins : SUBSET Pins, data : 0..NrSamples]
    BY <1>0, <1>3 DEF WriteDst, AtMask, Idle
  <2>2. quiet' \in 0..2 * NrSamples /\ dst0' \in {"GPCLR0", "GPSET0"}
    BY <1>0, <1>3 DEF WriteDst, DstFor
  <2> QED BY <1>3, <2>1, <2>2 DEF WriteDst, dmaVars
<1>4. CASE WriteFirst
  <2>1. cpu' \in [at : AtMask..Idle, pins : SUBSET Pins, data : 0..NrSamples]
    BY <1>0, <1>4 DEF WriteFirst, AtMask, Idle
  <2>2. quiet' \in 0..2 * NrSamples
    BY <1>0, <1>4 DEF WriteFirst
  <2>3. duty' \in [Pins -> 0..NrSamples]
    BY <1>0, <1>4 DEF WriteFirst, Completed
  <2>4. sample' \in [Positions -> SUBSET Pins]
    BY <1>4 DEF WriteFirst
  <2> QED BY <1>4, <2>1, <2>2, <2>3, <2>4 DEF WriteFirst, dmaVars
<1>5. CASE WriteSample
  <2>1. cpu' \in [at : AtMask..Idle, pins : SUBSET Pins, data : 0..NrSamples]
    BY <1>0, <1>5 DEF WriteSample, AtMask, Idle
  <2>2. quiet' \in 0..2 * NrSamples
    BY <1>0, <1>5 DEF WriteSample
  <2>3. duty' \in [Pins -> 0..NrSamples]
    BY <1>0, <1>5 DEF WriteSample, Completed
  <2>4. cpu.at \in Positions /\ sample[cpu.at] \in SUBSET Pins
    BY <1>0, <1>5 DEF WriteSample, Positions
  <2>5. Word(sample[cpu.at], cpu.at) \in SUBSET Pins
    BY <1>0, <2>4 DEF Word
  <2>6. sample' \in [Positions -> SUBSET Pins]
    BY <1>5, <2>5 DEF WriteSample
  <2> QED BY <1>5, <2>1, <2>2, <2>3, <2>6 DEF WriteSample, dmaVars
<1>6. CASE SoftpwmStop
  BY <1>6 DEF SoftpwmStop, dmaVars, histVars
<1>7. CASE Terminate
  <2>1. cpu' \in [at : AtMask..Idle, pins : SUBSET Pins, data : 0..NrSamples]
    BY <1>0, <1>7 DEF Terminate, AtMask, Idle
  <2>2. terminated' \in 0..MaxTerminate
    BY <1>7, MaxTerminateAssumption DEF Terminate
  <2>3. torn' \in SUBSET Pins
    BY <1>0, <1>7 DEF Terminate
  <2> QED BY <1>7, <2>1, <2>2, <2>3 DEF Terminate, dmaVars
<1>8. CASE StopChannel
  <2>1. PICK p \in left : /\ left' = left \ {p}
                          /\ IF channel_data[p] > 0 THEN Begin({p}, 0)
                             ELSE UNCHANGED <<channel_data, cpu, lo, hi>>
    BY <1>8 DEF StopChannel
  <2>2. {p} \in SUBSET Pins /\ 0 \in Int /\ left' \in SUBSET Pins
    BY <2>1
  <2>3. /\ channel_data' \in [Pins -> Int]
        /\ cpu' \in [at : AtMask..Idle, pins : SUBSET Pins, data : 0..NrSamples]
        /\ lo' \in [Pins -> 0..NrSamples]
        /\ hi' \in [Pins -> 0..NrSamples]
    <3>1. CASE channel_data[p] > 0
      BY <2>1, <2>2, <3>1, BeginType
    <3>2. CASE ~(channel_data[p] > 0)
      BY <2>1, <3>2
    <3> QED BY <3>1, <3>2
  <2> QED BY <1>8, <2>2, <2>3 DEF StopChannel, dmaVars
<1>9. CASE StopSleep
  <2>1. quiet' \in 0..2 * NrSamples
    BY <1>0, <1>9 DEF StopSleep
  <2> QED BY <1>9, <2>1 DEF StopSleep, dmaVars
<1>10. CASE StopReset
  BY <1>10 DEF StopReset, histVars
<1> QED BY <1>1, <1>2, <1>3, <1>4, <1>5, <1>6, <1>7, <1>8, <1>9, <1>10 DEF Cpu, Update

\* The engine's actions preserve the types.
LEMMA DmaType == ASSUME TypeOK, Dma PROVE TypeOK'
<1> USE DEF TypeOK
<1>0. NrSamples \in Nat /\ NrSamples > 0
  BY NrSamplesAssumption
<1>1. CASE DmaFetch
  <2>1. dma' \in [on : BOOLEAN, pos : Positions, phase : {"fetch", "move"},
                  dst : {"GPCLR0", "GPSET0"}]
    BY <1>1 DEF DmaFetch
  <2>2. cpu.data \in 0..NrSamples /\ \A p \in Pins : duty[p] \in 0..NrSamples
    OBVIOUS
  <2>3. lo' \in [Pins -> 0..NrSamples]
    BY <1>0, <1>1, <2>2 DEF DmaFetch, Lesser
  <2>4. hi' \in [Pins -> 0..NrSamples]
    BY <1>0, <1>1, <2>2 DEF DmaFetch, Greater
  <2> QED BY <1>1, <2>1, <2>3, <2>4 DEF DmaFetch, cpuVars
<1>2. CASE DmaMove
  <2>1. level' \in SUBSET Pins
    BY <1>2 DEF DmaMove
  <2>2. dma.pos \in Positions
    OBVIOUS
  <2>3. (IF dma.pos = NrSamples - 1 THEN 0 ELSE dma.pos + 1) \in Positions
    BY <1>0, <2>2 DEF Positions
  <2>4. dma' \in [on : BOOLEAN, pos : Positions, phase : {"fetch", "move"},
                  dst : {"GPCLR0", "GPSET0"}]
    BY <1>2, <2>3 DEF DmaMove
  <2>5. quiet' \in 0..2 * NrSamples
    BY <1>0, <1>2 DEF DmaMove
  <2> QED BY <1>2, <2>1, <2>4, <2>5 DEF DmaMove, cpuVars
<1> QED BY <1>1, <1>2 DEF Dma

\* Every step preserves the types.
LEMMA TypeStep == TypeOK /\ [Next]_vars => TypeOK'
<1> SUFFICES ASSUME TypeOK, [Next]_vars PROVE TypeOK'
  OBVIOUS
<1>1. CASE UNCHANGED vars
  BY <1>1 DEF vars, cpuVars, dmaVars, histVars, TypeOK
<1>2. CASE \E p \in Pins, d \in Data : SetData(p, d)
  BY <1>2, CpuType DEF SetData
<1> QED BY <1>1, <1>2, CpuType, DmaType DEF Next, Cpu

\* The memory and the engine always have their types: in particular no duty is
\* written beyond the last sample (line 209).
THEOREM TypeCorrect == Spec => []TypeOK
<1>1. Init => TypeOK
  <2> SUFFICES ASSUME Init PROVE TypeOK
    OBVIOUS
  <2>1. NrSamples \in Nat /\ NrSamples > 0
    BY NrSamplesAssumption
  <2>2. cpu \in [at : AtMask..Idle, pins : SUBSET Pins, data : 0..NrSamples]
    BY <2>1 DEF Init, AtMask, Idle
  <2>3. dma \in [on : BOOLEAN, pos : Positions, phase : {"fetch", "move"},
                 dst : {"GPCLR0", "GPSET0"}]
    BY <2>1 DEF Init, Positions
  <2>4. /\ duty \in [Pins -> 0..NrSamples]
        /\ lo \in [Pins -> 0..NrSamples]
        /\ hi \in [Pins -> 0..NrSamples]
        /\ quiet \in 0..2 * NrSamples
    BY <2>1 DEF Init
  <2>5. channel_data \in [Pins -> Int] /\ terminated \in 0..MaxTerminate
    BY MaxTerminateAssumption DEF Init
  <2> QED BY <2>2, <2>3, <2>4, <2>5 DEF Init, TypeOK
<1> QED BY <1>1, TypeStep, PTL DEF Spec

-----------------------------------------------------------------------------
(* The samples.                                                             *)

\* Beginning an update writes nothing yet.
LEMMA BeginSamples ==
    ASSUME TypeOK, SampleInv, NEW ps \in SUBSET Pins, NEW d \in Int, SetMulti(ps, d)
    PROVE  SampleInv'
<1>1. /\ NrSamples \in Nat /\ NrSamples > 0
      /\ stop = "no" /\ stop' = stop /\ cpu.at = Idle
      /\ UNCHANGED <<channel_mask, dst0, sample, duty>>
      /\ channel_data' = [p \in Pins |-> IF p \in ps THEN d ELSE channel_data[p]]
      /\ cpu'.at = AtMask /\ cpu'.pins = ps /\ cpu'.data = Clamp(d)
  BY NrSamplesAssumption DEF SetMulti, Begin
<1>2. DataInv /\ MaskInv /\ HeadInv /\ WordInv
  BY <1>1 DEF SampleInv
<1>3. Enabled' = Enabled
  BY <1>1 DEF Enabled
<1>4. AtMask # Idle /\ Idle \notin {AtMask, AtDst, 0} /\ Idle = NrSamples
  BY <1>1 DEF AtMask, AtDst, Idle
<1>5. DataInv'
  BY <1>1, <1>2, <1>4 DEF DataInv, Busy
<1>6. MaskInv'
  BY <1>1, <1>2, <1>3 DEF MaskInv
<1>7. channel_mask = Enabled
  BY <1>1, <1>2 DEF MaskInv
<1>8. HeadInv'
  BY <1>1, <1>2, <1>3, <1>4, <1>7 DEF HeadInv
<1>9. WordInv'
  BY <1>1, <1>2, <1>4 DEF WordInv, Busy, AtMask
<1> QED BY <1>5, <1>6, <1>8, <1>9 DEF SampleInv

\* What the writes of an update share.
LEMMA UpdateFacts ==
    ASSUME TypeOK, Update, cpu'.at \in AtMask..Idle
    PROVE  /\ NrSamples \in Nat /\ NrSamples > 0 /\ Idle = NrSamples
           /\ AtMask = -2 /\ AtDst = -1
           /\ cpu.at # Idle
           /\ cpu'.pins = cpu.pins /\ cpu'.data = cpu.data
           /\ channel_data' = channel_data /\ stop' = stop
           /\ cpu.data \in 0..NrSamples
           /\ \A p \in Pins : duty[p] \in 0..NrSamples
<1>1. NrSamples \in Nat /\ NrSamples > 0
  BY NrSamplesAssumption
<1>2. cpu \in [at : AtMask..Idle, pins : SUBSET Pins, data : 0..NrSamples]
  BY DEF TypeOK
<1>3. cpu.at # Idle
  BY <1>1 DEF Update, UpdateMask, WriteDst, WriteFirst, WriteSample, AtMask, AtDst, Idle
<1>4. cpu'.pins = cpu.pins /\ cpu'.data = cpu.data
  BY <1>2 DEF Update, UpdateMask, WriteDst, WriteFirst, WriteSample
<1>5. channel_data' = channel_data /\ stop' = stop
  BY DEF Update, UpdateMask, WriteDst, WriteFirst, WriteSample
<1> QED BY <1>1, <1>2, <1>3, <1>4, <1>5 DEF AtMask, AtDst, Idle, TypeOK

\* Lines 212-215.
LEMMA UpdateMaskSamples ==
    ASSUME TypeOK, TypeOK', SampleInv, UpdateMask, stop = "no" PROVE SampleInv'
<1>1. /\ NrSamples \in Nat /\ NrSamples > 0 /\ Idle = NrSamples
      /\ AtMask = -2 /\ AtDst = -1
      /\ cpu.at = AtMask /\ cpu'.at = AtDst
      /\ cpu'.pins = cpu.pins /\ cpu'.data = cpu.data
      /\ UNCHANGED <<channel_data, dst0, sample, duty>>
      /\ channel_mask' = IF cpu.data = 0 THEN channel_mask \ cpu.pins
                                         ELSE channel_mask \cup cpu.pins
  BY UpdateFacts DEF UpdateMask, histVars, Update, TypeOK
<1>2. DataInv /\ MaskInv /\ HeadInv /\ WordInv
  BY DEF SampleInv
<1>3. Enabled' = Enabled
  BY <1>1 DEF Enabled
<1>4. DataInv'
  BY <1>1, <1>2 DEF DataInv, Busy
<1>5. MaskInv'
  BY <1>1, <1>2, <1>3 DEF MaskInv
<1>6. HeadInv'
  BY <1>1, <1>2, <1>3 DEF HeadInv
<1>7. WordInv'
  BY <1>1, <1>2 DEF WordInv, Busy
<1> QED BY <1>4, <1>5, <1>6, <1>7 DEF SampleInv

\* Lines 220 and 228.
LEMMA WriteDstSamples ==
    ASSUME TypeOK, TypeOK', SampleInv, WriteDst, stop = "no" PROVE SampleInv'
<1>1. /\ NrSamples \in Nat /\ NrSamples > 0 /\ Idle = NrSamples
      /\ AtMask = -2 /\ AtDst = -1
      /\ cpu.at = AtDst /\ cpu'.at = 0
      /\ cpu'.pins = cpu.pins /\ cpu'.data = cpu.data
      /\ UNCHANGED <<channel_data, channel_mask, sample, duty>>
      /\ dst0' = DstFor(channel_mask)
  BY UpdateFacts DEF WriteDst, Update, TypeOK
<1>2. DataInv /\ MaskInv /\ HeadInv /\ WordInv
  BY DEF SampleInv
<1>3. Enabled' = Enabled
  BY <1>1 DEF Enabled
<1>4. DataInv'
  BY <1>1, <1>2 DEF DataInv, Busy
<1>5. MaskInv'
  BY <1>1, <1>2, <1>3 DEF MaskInv
<1>6. HeadInv'
  <2>1. dst0' = DstFor(channel_mask')
    BY <1>1
  <2>2. sample'[0] = Enabled'
    BY <1>1, <1>2, <1>3 DEF HeadInv
  <2> QED BY <1>1, <2>1, <2>2 DEF HeadInv
<1>7. WordInv'
  BY <1>1, <1>2 DEF WordInv, Busy
<1> QED BY <1>4, <1>5, <1>6, <1>7 DEF SampleInv

\* Once a pin's update is complete its duty is the new one, the others keep
\* theirs, and the enabled channels are those of the mask.
LEMMA CompletedDuties ==
    ASSUME TypeOK, DataInv, MaskInv, Completed(Idle),
           cpu.at \in 0..NrSamples - 1, cpu'.at = Idle,
           UNCHANGED <<channel_data, channel_mask>>
    PROVE  /\ \A p \in Pins : duty'[p] = IF p \in cpu.pins THEN cpu.data ELSE duty[p]
           /\ DataInv'
           /\ MaskInv'
<1>1. /\ NrSamples \in Nat /\ NrSamples > 0 /\ Idle = NrSamples
      /\ AtMask = -2
      /\ cpu.data \in 0..NrSamples
      /\ cpu.pins \in SUBSET Pins
  BY NrSamplesAssumption DEF AtMask, Idle, TypeOK
<1>2. \A p \in Pins : duty'[p] = IF p \in cpu.pins THEN cpu.data ELSE duty[p]
  BY DEF Completed
<1>3. \A p \in Pins : Busy(p) <=> p \in cpu.pins
  BY <1>1 DEF Busy
<1>4. \A p \in Pins : Clamp(channel_data[p]) = duty'[p]
  BY <1>2, <1>3 DEF DataInv
<1>5. DataInv'
  BY <1>4 DEF DataInv, Busy
<1>6. Enabled' = IF cpu.data = 0 THEN Enabled \ cpu.pins ELSE Enabled \cup cpu.pins
  BY <1>1, <1>2 DEF Enabled
<1>7. channel_mask' = Enabled'
  BY <1>1, <1>6 DEF MaskInv
<1>8. MaskInv'
  BY <1>7 DEF MaskInv
<1> QED BY <1>2, <1>5, <1>8

\* Lines 221 and 229: the first word; with no channel left, the end.
LEMMA WriteFirstSamples ==
    ASSUME TypeOK, TypeOK', SampleInv, WriteFirst, stop = "no" PROVE SampleInv'
<1> DEFINE next == IF channel_mask = {} THEN Idle ELSE 1
<1>1. /\ NrSamples \in Nat /\ NrSamples > 0 /\ Idle = NrSamples
      /\ AtMask = -2 /\ AtDst = -1
      /\ cpu.at = 0 /\ cpu'.at = next
      /\ cpu'.pins = cpu.pins /\ cpu'.data = cpu.data
      /\ cpu.pins \in SUBSET Pins /\ cpu.data \in 0..NrSamples
      /\ UNCHANGED <<channel_data, channel_mask, dst0>>
      /\ Completed(next)
  BY UpdateFacts DEF WriteFirst, Update, TypeOK
<1>2. DataInv /\ MaskInv /\ HeadInv /\ WordInv
  BY DEF SampleInv
<1>3. /\ sample'[0] = channel_mask
      /\ \A i \in 1..NrSamples - 1 : sample'[i] = sample[i]
  BY <1>1 DEF WriteFirst, TypeOK, Positions
<1>4. HeadInv'
  <2>1. cpu'.at \notin {AtMask, AtDst, 0}
    BY <1>1
  <2>2. dst0 = DstFor(channel_mask)
    BY <1>1, <1>2 DEF HeadInv
  <2> QED BY <1>1, <1>3, <2>1, <2>2 DEF HeadInv
<1>5. CASE next = Idle
  <2>1. /\ \A p \in Pins : duty'[p] = IF p \in cpu.pins THEN cpu.data ELSE duty[p]
        /\ DataInv' /\ MaskInv'
    BY <1>1, <1>2, <1>5, CompletedDuties
  <2>2. CASE NrSamples = 1
    BY <1>4, <2>1, <2>2 DEF SampleInv, WordInv
  <2>3. CASE NrSamples # 1
    <3>1. channel_mask = {}
      BY <1>1, <1>5, <2>3
    <3>2. channel_mask' = Enabled'
      BY <1>1, <1>5, <2>1 DEF MaskInv
    <3>3. \A p \in Pins : ~(duty'[p] > 0)
      BY <1>1, <3>1, <3>2 DEF Enabled
    <3>4. WordInv'
      BY <1>1, <1>5, <3>3 DEF WordInv, Busy
    <3> QED BY <1>4, <2>1, <3>4 DEF SampleInv
  <2> QED BY <2>2, <2>3
<1>6. CASE next # Idle
  <2>1. next = 1 /\ NrSamples # 1 /\ duty' = duty
    BY <1>1, <1>6 DEF Completed
  <2>2. DataInv'
    BY <1>1, <1>2, <2>1 DEF DataInv, Busy
  <2>3. Enabled' = Enabled
    BY <2>1 DEF Enabled
  <2>4. MaskInv'
    BY <1>1, <1>2, <2>1, <2>3 DEF MaskInv
  <2>5. WordInv'
    BY <1>1, <1>2, <1>3, <2>1 DEF WordInv, Busy
  <2> QED BY <1>4, <2>2, <2>4, <2>5 DEF SampleInv
<1> QED BY <1>5, <1>6

\* Lines 223-226: the word at `at' becomes new.
LEMMA WriteSampleSamples ==
    ASSUME TypeOK, TypeOK', SampleInv, WriteSample, stop = "no" PROVE SampleInv'
<1>1. /\ NrSamples \in Nat /\ NrSamples > 0 /\ Idle = NrSamples
      /\ AtMask = -2 /\ AtDst = -1
      /\ cpu.at \in 1..NrSamples - 1 /\ cpu'.at = cpu.at + 1
      /\ cpu'.pins = cpu.pins /\ cpu'.data = cpu.data
      /\ cpu.pins \in SUBSET Pins /\ cpu.data \in 0..NrSamples
      /\ UNCHANGED <<channel_data, channel_mask, dst0>>
      /\ Completed(cpu.at + 1)
  BY UpdateFacts DEF WriteSample, Update, TypeOK
<1>2. DataInv /\ MaskInv /\ HeadInv /\ WordInv
  BY DEF SampleInv
<1>3. /\ sample'[cpu.at] = Word(sample[cpu.at], cpu.at)
      /\ \A i \in Positions : i # cpu.at => sample'[i] = sample[i]
  BY <1>1 DEF WriteSample, TypeOK, Positions
<1>4. HeadInv'
  <2>1. cpu'.at \notin {AtMask, AtDst, 0} /\ cpu.at \notin {AtMask, AtDst, 0}
    BY <1>1
  <2>2. sample'[0] = sample[0]
    BY <1>1, <1>3 DEF Positions
  <2>3. dst0 = DstFor(channel_mask) /\ sample[0] = channel_mask
    BY <1>2, <2>1 DEF HeadInv
  <2> QED BY <1>1, <2>1, <2>2, <2>3 DEF HeadInv
<1>5. \A p \in Pins : Busy(p) <=> p \in cpu.pins
  BY <1>1 DEF Busy
<1>6. ASSUME NEW p \in Pins, NEW i \in 1..NrSamples - 1
      PROVE  IF p \in cpu.pins /\ i < cpu.at + 1
             THEN p \in sample'[i] <=> i >= cpu.data
             ELSE duty[p] > 0 => (p \in sample'[i] <=> i >= duty[p])
  <2>1. IF p \in cpu.pins /\ i < cpu.at THEN p \in sample[i] <=> i >= cpu.data
        ELSE duty[p] > 0 => (p \in sample[i] <=> i >= duty[p])
    BY <1>2, <1>5 DEF WordInv
  <2>2. CASE i = cpu.at
    <3>1. p \notin cpu.pins => (p \in sample'[i] <=> p \in sample[i])
      BY <1>3, <2>2 DEF Word
    <3>2. p \in cpu.pins => (p \in sample'[i] <=> i >= cpu.data)
      BY <1>1, <1>3, <2>2 DEF Word
    <3> QED BY <1>1, <2>1, <2>2, <3>1, <3>2
  <2>3. CASE i # cpu.at
    <3>1. sample'[i] = sample[i]
      BY <1>1, <1>3, <2>3 DEF Positions
    <3> QED BY <1>1, <2>1, <2>3, <3>1
  <2> QED BY <2>2, <2>3
<1>7. CASE cpu.at + 1 = Idle
  <2>1. /\ \A p \in Pins : duty'[p] = IF p \in cpu.pins THEN cpu.data ELSE duty[p]
        /\ DataInv' /\ MaskInv'
    <3>1. cpu.at \in 0..NrSamples - 1 /\ cpu'.at = Idle /\ Completed(Idle)
      BY <1>1, <1>7
    <3> QED BY <1>1, <1>2, <3>1, CompletedDuties
  <2>2. ASSUME NEW p \in Pins, NEW i \in 1..NrSamples - 1
        PROVE  duty'[p] > 0 => (p \in sample'[i] <=> i >= duty'[p])
    BY <1>1, <1>6, <1>7, <2>1
  <2>3. WordInv'
    BY <1>1, <1>7, <2>2 DEF WordInv, Busy
  <2> QED BY <1>4, <2>1, <2>3 DEF SampleInv
<1>8. CASE cpu.at + 1 # Idle
  <2>1. duty' = duty
    BY <1>8, <1>1 DEF Completed
  <2>2. DataInv'
    BY <1>1, <1>2, <1>8, <2>1 DEF DataInv, Busy
  <2>3. Enabled' = Enabled
    BY <2>1 DEF Enabled
  <2>4. MaskInv'
    BY <1>1, <1>2, <1>8, <2>3 DEF MaskInv
  <2>5. WordInv'
    BY <1>1, <1>6, <1>8, <2>1 DEF WordInv, Busy
  <2> QED BY <1>4, <2>2, <2>4, <2>5 DEF SampleInv
<1> QED BY <1>7, <1>8

\* Nothing else writes the memory before the shutdown begins.
LEMMA OtherSamples ==
    ASSUME SampleInv,
           \/ SoftpwmStop \/ Terminate \/ StopChannel \/ StopSleep \/ StopReset
           \/ Dma \/ UNCHANGED vars
    PROVE  SampleInv'
<1>1. CASE SoftpwmStop \/ Terminate \/ StopChannel \/ StopSleep \/ StopReset
  <2>1. stop' # "no"
    BY <1>1 DEF SoftpwmStop, Terminate, StopChannel, StopSleep, StopReset
  <2> QED BY <2>1 DEF SampleInv
<1>2. CASE Dma \/ UNCHANGED vars
  <2>1. UNCHANGED <<cpuVars, duty>>
    BY <1>2 DEF Dma, DmaFetch, DmaMove, vars, histVars
  <2> QED BY <2>1 DEF cpuVars, SampleInv, DataInv, MaskInv, HeadInv, WordInv,
                      Busy, Enabled
<1> QED BY <1>1, <1>2

\* Every step keeps the memory in the invariant.
LEMMA SampleStep ==
    TypeOK /\ TypeOK' /\ SampleInv /\ [Next]_vars => SampleInv'
<1> SUFFICES ASSUME TypeOK, TypeOK', SampleInv, [Next]_vars PROVE SampleInv'
  OBVIOUS
<1>1. ASSUME NEW ps \in SUBSET Pins, NEW d \in Data, SetMulti(ps, d)
      PROVE  SampleInv'
  BY <1>1, BeginSamples, DataAssumption
<1>2. ASSUME NEW p \in Pins, NEW d \in Data, SetData(p, d) PROVE SampleInv'
  <2>1. {p} \in SUBSET Pins
    OBVIOUS
  <2> QED BY <1>1, <1>2, <2>1 DEF SetData
<1>3. CASE Update
  <2>1. CASE stop = "no"
    BY <1>3, <2>1, UpdateMaskSamples, WriteDstSamples, WriteFirstSamples,
       WriteSampleSamples DEF Update
  <2>2. CASE stop # "no"
    BY <1>3, <2>2 DEF Update, UpdateMask, WriteDst, WriteFirst, WriteSample, SampleInv
  <2> QED BY <2>1, <2>2
<1> QED BY <1>1, <1>2, <1>3, OtherSamples DEF Next

\* The memory the engine starts with.
LEMMA SampleInit == Init => SampleInv
<1> SUFFICES ASSUME Init PROVE DataInv /\ MaskInv /\ HeadInv /\ WordInv
  BY DEF SampleInv
<1>1. NrSamples \in Nat /\ NrSamples > 0
  BY NrSamplesAssumption
<1>2. Enabled = {}
  BY DEF Init, Enabled
<1>3. DataInv
  BY <1>1 DEF Init, DataInv, Busy, Clamp, Idle
<1>4. MaskInv
  BY <1>2 DEF Init, MaskInv
<1>5. HeadInv
  BY <1>1, <1>2 DEF Init, HeadInv, DstFor, Positions
<1>6. WordInv
  BY DEF Init, WordInv, Busy
<1> QED BY <1>3, <1>4, <1>5, <1>6

\* Whenever no update is in progress the blocks hold exactly what channel_data
\* promises, whatever updates, of whichever channels, led there.
THEOREM SamplesAreRight == Spec => []SamplesMatchData
<1>1. TypeOK /\ SampleInv => SamplesMatchData
  <2> SUFFICES ASSUME TypeOK, SampleInv, stop = "no", cpu.at = Idle
               PROVE  /\ channel_mask = {p \in Pins : channel_data[p] > 0}
                      /\ sample[0] = channel_mask
                      /\ dst0 = "GPSET0" <=> channel_mask # {}
                      /\ \A p \in channel_mask, i \in Positions \ {0} :
                           p \in sample[i] <=> i >= channel_data[p]
    BY DEF SamplesMatchData
  <2>1. /\ NrSamples \in Nat /\ NrSamples > 0 /\ Idle = NrSamples
        /\ Idle \notin {AtMask, AtDst, 0}
        /\ channel_data \in [Pins -> Int]
    BY NrSamplesAssumption DEF Idle, AtMask, AtDst, TypeOK
  <2>2. DataInv /\ MaskInv /\ HeadInv /\ WordInv
    BY DEF SampleInv
  <2>3. \A p \in Pins : duty[p] = Clamp(channel_data[p])
    BY <2>2 DEF DataInv, Busy
  <2>4. channel_mask = Enabled
    BY <2>2 DEF MaskInv
  <2>5. \A p \in Pins : duty[p] > 0 <=> channel_data[p] > 0
    BY <2>1, <2>3 DEF Clamp
  <2>6. channel_mask = {p \in Pins : channel_data[p] > 0}
    BY <2>4, <2>5 DEF Enabled
  <2>7. sample[0] = channel_mask /\ dst0 = DstFor(channel_mask)
    BY <2>1, <2>2 DEF HeadInv
  <2>8. ASSUME NEW p \in channel_mask, NEW i \in Positions \ {0}
        PROVE  p \in sample[i] <=> i >= channel_data[p]
    <3>1. p \in Pins /\ duty[p] > 0 /\ i \in 1..NrSamples - 1
      BY <2>1, <2>4 DEF Enabled, Positions
    <3>2. p \in sample[i] <=> i >= duty[p]
      BY <2>2, <3>1 DEF WordInv, Busy
    <3> QED BY <2>1, <2>3, <3>1, <3>2 DEF Clamp
  <2> QED BY <2>6, <2>7, <2>8 DEF DstFor
<1> QED BY <1>1, TypeCorrect, SampleInit, SampleStep, PTL DEF Spec

-----------------------------------------------------------------------------
(* The pulses.                                                              *)

\* The sample moved last is one of the cycle.
LEMMA MovedType ==
    ASSUME TypeOK PROVE dma.pos \in 0..NrSamples - 1 /\ NrSamples \in Nat /\ NrSamples > 0
BY NrSamplesAssumption DEF TypeOK, Positions

\* Beginning an update widens the bounds of the cycle, and never narrows them.
LEMMA BeginPulse ==
    ASSUME TypeOK, PulseInv, NEW ps \in SUBSET Pins, NEW d \in Int, SetMulti(ps, d)
    PROVE  PulseInv'
<1>1. /\ NrSamples \in Nat /\ NrSamples > 0 /\ Clamp(d) \in 0..NrSamples
      /\ stop = "no" /\ cpu.at = Idle /\ cpu'.pins = ps /\ cpu'.data = Clamp(d)
      /\ UNCHANGED <<duty, dma, level, stop>>
      /\ Follow(ps, Clamp(d))
  BY NrSamplesAssumption, ClampType DEF SetMulti, Begin, dmaVars
<1>2. BoundsInv /\ LatchInv /\ PulseWithinBounds
  BY <1>1 DEF PulseInv
<1>3. \A p \in Pins : /\ duty[p] \in 0..NrSamples
                      /\ lo[p] \in 0..NrSamples
                      /\ hi[p] \in 0..NrSamples
  BY DEF TypeOK
<1>4. ASSUME NEW p \in Pins
      PROVE  /\ lo'[p] \in 0..NrSamples /\ hi'[p] \in 0..NrSamples
             /\ lo'[p] <= lo[p] /\ hi[p] <= hi'[p]
             /\ IF lo'[p] = 0 THEN hi'[p] = NrSamples
                ELSE /\ 0 < duty[p] /\ lo'[p] <= duty[p] /\ duty[p] <= hi'[p]
                     /\ p \in ps => /\ 0 < Clamp(d)
                                    /\ lo'[p] <= Clamp(d) /\ Clamp(d) <= hi'[p]
  <2>1. IF lo[p] = 0 THEN hi[p] = NrSamples
        ELSE 0 < duty[p] /\ lo[p] <= duty[p] /\ duty[p] <= hi[p]
    BY <1>2 DEF BoundsInv
  <2>2. CASE p \notin ps
    <3>1. lo'[p] = lo[p] /\ hi'[p] = hi[p]
      BY <1>1, <2>2 DEF Follow
    <3> QED BY <1>3, <2>1, <2>2, <3>1
  <2>3. CASE p \in ps /\ (Clamp(d) = 0 \/ duty[p] = 0)
    <3>1. lo'[p] = 0 /\ hi'[p] = NrSamples
      BY <1>1, <2>3 DEF Follow
    <3> QED BY <1>1, <1>3, <3>1
  <2>4. CASE p \in ps /\ Clamp(d) # 0 /\ duty[p] # 0
    <3>1. /\ lo'[p] = Lesser(lo[p], Clamp(d))
          /\ hi'[p] = IF lo[p] = 0 THEN NrSamples ELSE Greater(hi[p], Clamp(d))
      BY <1>1, <2>4 DEF Follow
    <3> QED BY <1>1, <1>3, <2>1, <2>4, <3>1 DEF Lesser, Greater
  <2> QED BY <2>2, <2>3, <2>4
<1>5. BoundsInv'
  BY <1>1, <1>4 DEF BoundsInv, Busy
<1>6. LatchInv'
  BY <1>1, <1>2, <1>3, <1>4 DEF LatchInv
<1>7. PulseWithinBounds'
  <2> SUFFICES ASSUME NEW p \in Pins, NEW j \in Positions, Moved(j)'
               PROVE  (j < lo'[p] => p \in level') /\ (j >= hi'[p] => p \notin level')
    BY DEF PulseWithinBounds
  <2>1. Moved(j)
    BY <1>1 DEF Moved
  <2>2. (j < lo[p] => p \in level) /\ (j >= hi[p] => p \notin level)
    BY <1>1, <1>2, <2>1 DEF PulseWithinBounds
  <2> QED BY <1>1, <1>3, <1>4, <2>2 DEF Positions
<1> QED BY <1>5, <1>6, <1>7 DEF PulseInv

\* The writes of an update leave the bounds alone; its end makes its data the
\* duty, which they hold already.
LEMMA UpdatePulse ==
    ASSUME TypeOK, TypeOK', PulseInv, Update PROVE PulseInv'
<1> SUFFICES ASSUME stop = "no" PROVE PulseInv'
  BY DEF PulseInv, Update, UpdateMask, WriteDst, WriteFirst, WriteSample
<1>1. /\ BoundsInv /\ LatchInv /\ PulseWithinBounds
      /\ UNCHANGED <<dma, level, lo, hi, stop>>
  BY DEF PulseInv, Update, UpdateMask, WriteDst, WriteFirst, WriteSample,
         dmaVars, histVars
<1>2. cpu.at # Idle /\ cpu'.pins = cpu.pins /\ cpu'.data = cpu.data
  BY UpdateFacts DEF TypeOK
<1>3. \/ duty' = duty
      \/ /\ cpu'.at = Idle
         /\ duty' = [p \in Pins |-> IF p \in cpu.pins THEN cpu.data ELSE duty[p]]
  <2>1. CASE UpdateMask
    BY <2>1 DEF UpdateMask, histVars
  <2>2. CASE WriteDst
    BY <2>2 DEF WriteDst
  <2>3. CASE WriteFirst
    BY <2>3 DEF WriteFirst, Completed, TypeOK
  <2>4. CASE WriteSample
    BY <2>4 DEF WriteSample, Completed, TypeOK
  <2> QED BY <2>1, <2>2, <2>3, <2>4 DEF Update
<1>4. BoundsInv'
  BY <1>1, <1>2, <1>3 DEF BoundsInv, Busy
<1>5. LatchInv' /\ PulseWithinBounds'
  BY <1>1 DEF LatchInv, PulseWithinBounds, Moved
<1> QED BY <1>4, <1>5 DEF PulseInv

\* A channel that is on throughout keeps the first block aimed at GPSET0 and
\* its bit in the first word, at every point of an update.
LEMMA HeadSets ==
    ASSUME TypeOK, SampleInv, stop = "no", NEW p \in Pins, duty[p] > 0,
           Busy(p) => cpu.data > 0
    PROVE  dst0 = "GPSET0" /\ p \in sample[0]
<1>1. p \in Enabled
  BY DEF Enabled
<1>2. cpu.data \in 0..NrSamples
  BY DEF TypeOK
<1>3. p \in channel_mask
  BY <1>1, <1>2 DEF SampleInv, MaskInv, Busy
<1> QED BY <1>1, <1>3 DEF SampleInv, HeadInv, DstFor

\* The fetch of the first block takes the bounds of the new cycle from the
\* duties in effect.
LEMMA FetchPulse ==
    ASSUME TypeOK, SampleInv, PulseInv, DmaFetch PROVE PulseInv'
<1> SUFFICES ASSUME stop = "no" PROVE PulseInv'
  BY DEF PulseInv, DmaFetch, cpuVars
<1>1. /\ BoundsInv /\ LatchInv /\ PulseWithinBounds
      /\ UNCHANGED <<cpu, stop, duty, level>>
      /\ dma'.pos = dma.pos /\ dma.phase = "fetch" /\ dma'.phase = "move"
      /\ dma'.dst = IF dma.pos = 0 THEN dst0 ELSE "GPCLR0"
  BY DEF PulseInv, DmaFetch, cpuVars, TypeOK
<1>2. dma.pos \in 0..NrSamples - 1 /\ NrSamples \in Nat /\ NrSamples > 0
  BY MovedType
<1>3. cpu.data \in 0..NrSamples /\ \A p \in Pins : duty[p] \in 0..NrSamples
  BY DEF TypeOK
<1>4. CASE dma.pos = 0
  <2> DEFINE off(p) == duty[p] = 0 \/ (Busy(p) /\ cpu.data = 0)
  <2>1. ASSUME NEW p \in Pins
        PROVE  /\ lo'[p] = IF off(p) THEN 0
                           ELSE IF Busy(p) THEN Lesser(duty[p], cpu.data) ELSE duty[p]
               /\ hi'[p] = IF off(p) THEN NrSamples
                           ELSE IF Busy(p) THEN Greater(duty[p], cpu.data) ELSE duty[p]
    BY <1>4 DEF DmaFetch, Busy
  <2>2. \A p \in Pins : Busy(p)' <=> Busy(p)
    BY <1>1 DEF Busy
  <2>3. BoundsInv'
    BY <1>1, <1>3, <2>1, <2>2 DEF BoundsInv, Lesser, Greater
  <2>4. LatchInv'
    <3> SUFFICES ASSUME NEW p \in Pins, lo'[p] > 0 PROVE dst0 = "GPSET0"
      BY <1>1, <1>4 DEF LatchInv
    <3>1. ~off(p)
      BY <2>1
    <3> QED BY <1>3, <3>1, HeadSets
  <2>5. PulseWithinBounds'
    <3>1. \A j \in Positions : ~Moved(j)'
      BY <1>1, <1>2, <1>4 DEF Moved, Positions
    <3> QED BY <3>1 DEF PulseWithinBounds
  <2> QED BY <2>3, <2>4, <2>5 DEF PulseInv
<1>5. CASE dma.pos # 0
  <2>1. UNCHANGED <<lo, hi>>
    BY <1>5 DEF DmaFetch
  <2>2. BoundsInv'
    BY <1>1, <2>1 DEF BoundsInv, Busy
  <2>3. LatchInv'
    BY <1>1, <1>5 DEF LatchInv
  <2>4. PulseWithinBounds'
    BY <1>1, <1>5, <2>1 DEF PulseWithinBounds, Moved
  <2> QED BY <2>2, <2>3, <2>4 DEF PulseInv
<1> QED BY <1>4, <1>5

\* The bit of a pin in a word past the first: clear before the least duty in
\* effect, set from the greatest on, at every point of an update.
LEMMA WordClears ==
    ASSUME TypeOK, SampleInv, PulseInv, stop = "no",
           NEW p \in Pins, NEW i \in 1..NrSamples - 1
    PROVE  (i < lo[p] => p \notin sample[i]) /\ (i >= hi[p] => p \in sample[i])
<1>1. /\ cpu.data \in 0..NrSamples /\ duty[p] \in 0..NrSamples
      /\ lo[p] \in 0..NrSamples /\ hi[p] \in 0..NrSamples
      /\ NrSamples \in Nat
  BY NrSamplesAssumption DEF TypeOK
<1>2. IF Busy(p) /\ i < cpu.at THEN p \in sample[i] <=> i >= cpu.data
      ELSE duty[p] > 0 => (p \in sample[i] <=> i >= duty[p])
  BY DEF SampleInv, WordInv
<1>3. IF lo[p] = 0 THEN hi[p] = NrSamples
      ELSE /\ 0 < duty[p] /\ lo[p] <= duty[p] /\ duty[p] <= hi[p]
           /\ Busy(p) => 0 < cpu.data /\ lo[p] <= cpu.data /\ cpu.data <= hi[p]
  BY DEF PulseInv, BoundsInv
<1> QED BY <1>1, <1>2, <1>3

\* The move of a word keeps the pulse within the bounds of the cycle.
LEMMA MovePulse ==
    ASSUME TypeOK, SampleInv, PulseInv, DmaMove PROVE PulseInv'
<1> SUFFICES ASSUME stop = "no" PROVE PulseInv'
  BY DEF PulseInv, DmaMove, cpuVars
<1>1. /\ BoundsInv /\ LatchInv /\ PulseWithinBounds
      /\ UNCHANGED <<cpu, stop, duty, lo, hi>>
      /\ dma.phase = "move" /\ dma'.phase = "fetch"
      /\ dma'.pos = IF dma.pos = NrSamples - 1 THEN 0 ELSE dma.pos + 1
      /\ level' = IF dma.dst = "GPSET0" THEN level \cup sample[dma.pos]
                                        ELSE level \ sample[dma.pos]
  BY DEF PulseInv, DmaMove, cpuVars, TypeOK
<1>2. dma.pos \in 0..NrSamples - 1 /\ NrSamples \in Nat /\ NrSamples > 0
  BY MovedType
<1>3. BoundsInv' /\ LatchInv'
  BY <1>1 DEF BoundsInv, LatchInv, Busy
<1>4. ASSUME NEW j \in Positions, Moved(j)' PROVE j = dma.pos
  BY <1>1, <1>2, <1>4 DEF Moved, Positions
<1>5. ASSUME NEW p \in Pins
      PROVE  /\ dma.pos < lo[p] => p \in level'
             /\ dma.pos >= hi[p] => p \notin level'
  <2>1. /\ lo[p] \in 0..NrSamples /\ hi[p] \in 0..NrSamples
        /\ duty[p] \in 0..NrSamples
    BY DEF TypeOK
  <2>2. IF lo[p] = 0 THEN hi[p] = NrSamples
        ELSE /\ 0 < duty[p] /\ duty[p] <= hi[p]
             /\ Busy(p) => 0 < cpu.data
    BY <1>1 DEF BoundsInv
  <2>3. CASE dma.pos = 0
    <3>1. ~(dma.pos >= hi[p])
      BY <1>2, <2>1, <2>2, <2>3
    <3>2. ASSUME 0 < lo[p] PROVE p \in level'
      <4>1. dma.dst = "GPSET0"
        BY <1>1, <2>3, <3>2 DEF LatchInv
      <4>2. p \in sample[0]
        BY <2>1, <2>2, <3>2, HeadSets
      <4> QED BY <1>1, <2>3, <4>1, <4>2
    <3> QED BY <2>3, <3>1, <3>2
  <2>4. CASE dma.pos # 0
    <3>1. dma.pos \in 1..NrSamples - 1 /\ level' = level \ sample[dma.pos]
      BY <1>1, <1>2, <2>4 DEF LatchInv
    <3>2. /\ dma.pos < lo[p] => p \notin sample[dma.pos]
          /\ dma.pos >= hi[p] => p \in sample[dma.pos]
      BY <3>1, WordClears
    <3>3. dma.pos - 1 < lo[p] => p \in level
      <4>1. dma.pos - 1 \in Positions /\ Moved(dma.pos - 1)
        BY <1>2, <3>1 DEF Positions, Moved
      <4> QED BY <1>1, <4>1 DEF PulseWithinBounds
    <3> QED BY <1>2, <2>1, <3>1, <3>2, <3>3
  <2> QED BY <2>3, <2>4
<1>6. PulseWithinBounds'
  BY <1>1, <1>4, <1>5 DEF PulseWithinBounds
<1> QED BY <1>3, <1>6 DEF PulseInv

\* Every step keeps the pulses within their bounds.
LEMMA PulseStep ==
    TypeOK /\ TypeOK' /\ SampleInv /\ PulseInv /\ [Next]_vars => PulseInv'
<1> SUFFICES ASSUME TypeOK, TypeOK', SampleInv, PulseInv, [Next]_vars PROVE PulseInv'
  OBVIOUS
<1>1. ASSUME NEW ps \in SUBSET Pins, NEW d \in Data, SetMulti(ps, d) PROVE PulseInv'
  BY <1>1, BeginPulse, DataAssumption
<1>2. ASSUME NEW p \in Pins, NEW d \in Data, SetData(p, d) PROVE PulseInv'
  <2>1. {p} \in SUBSET Pins
    OBVIOUS
  <2> QED BY <1>1, <1>2, <2>1 DEF SetData
<1>3. CASE SoftpwmStop \/ Terminate \/ StopChannel \/ StopSleep \/ StopReset
  <2>1. stop' # "no"
    BY <1>3 DEF SoftpwmStop, Terminate, StopChannel, StopSleep, StopReset
  <2> QED BY <2>1 DEF PulseInv
<1>4. CASE UNCHANGED vars
  BY <1>4 DEF vars, cpuVars, dmaVars, histVars, PulseInv, BoundsInv, Busy,
              LatchInv, PulseWithinBounds, Moved
<1> QED BY <1>1, <1>2, <1>3, <1>4, UpdatePulse, FetchPulse, MovePulse DEF Next, Dma

\* The pulse of a channel that stays enabled is no shorter than the least and
\* no longer than the greatest duty in effect during the cycle, however the
\* writes of the CPU and the reads of the engine interleave.
THEOREM PulsesAreWhole == Spec => []PulseWithinBounds
<1>1. Init => PulseInv
  <2> SUFFICES ASSUME Init PROVE BoundsInv /\ LatchInv /\ PulseWithinBounds
    BY DEF PulseInv
  <2>1. NrSamples \in Nat /\ NrSamples > 0
    BY NrSamplesAssumption
  <2> QED BY <2>1 DEF Init, BoundsInv, LatchInv, PulseWithinBounds, Positions
<1>2. PulseInv => PulseWithinBounds
  BY DEF PulseInv, PulseWithinBounds
<1> QED BY <1>1, <1>2, TypeCorrect, SampleInit, SampleStep, PulseStep, PTL DEF Spec

-----------------------------------------------------------------------------
(* The waves, before the shutdown and at its end.                           *)

\* What a move changes, in numbers.
LEMMA MoveFacts ==
    ASSUME TypeOK, DmaMove
    PROVE  /\ NrSamples \in Nat /\ NrSamples > 0
           /\ dma.pos \in 0..NrSamples - 1 /\ quiet \in 0..2 * NrSamples
           /\ dma.phase = "move" /\ dma'.phase = "fetch" /\ dma.on
           /\ dma'.pos = IF dma.pos = NrSamples - 1 THEN 0 ELSE dma.pos + 1
           /\ quiet' = IF quiet < 2 * NrSamples THEN quiet + 1 ELSE quiet
           /\ level' = IF dma.dst = "GPSET0" THEN level \cup sample[dma.pos]
                                             ELSE level \ sample[dma.pos]
           /\ UNCHANGED <<stop, cpu, channel_data, channel_mask, sample, dst0, duty, torn>>
<1>1. /\ NrSamples \in Nat /\ NrSamples > 0
      /\ dma.pos \in 0..NrSamples - 1 /\ quiet \in 0..2 * NrSamples
  BY NrSamplesAssumption DEF TypeOK, Positions
<1>2. /\ dma'.phase = "fetch"
      /\ dma'.pos = IF dma.pos = NrSamples - 1 THEN 0 ELSE dma.pos + 1
  BY DEF DmaMove, TypeOK
<1> QED BY <1>1, <1>2 DEF DmaMove, cpuVars

\* A move clears the pins of its word, and a pin that the first word has not is
\* not set again.
LEMMA ClearedMove ==
    ASSUME TypeOK, FirstOnly, DmaMove, NEW p \in Pins, Cleared(p), p \notin sample[0]
    PROVE  Cleared(p)'
<1> SUFFICES ASSUME NEW i \in 1..NrSamples - 1, Ago(i)' <= quiet', p \in sample'[i]
             PROVE  p \notin level'
  BY DEF Cleared
<1>1. /\ NrSamples \in Nat /\ NrSamples > 0
      /\ dma.pos \in 0..NrSamples - 1 /\ quiet \in 0..2 * NrSamples
      /\ dma'.pos = IF dma.pos = NrSamples - 1 THEN 0 ELSE dma.pos + 1
      /\ quiet' = IF quiet < 2 * NrSamples THEN quiet + 1 ELSE quiet
      /\ dma.phase = "move" /\ sample' = sample
      /\ level' = IF dma.dst = "GPSET0" THEN level \cup sample[dma.pos]
                                        ELSE level \ sample[dma.pos]
  BY MoveFacts
<1>2. dma.pos # 0 => level' = level \ sample[dma.pos]
  BY <1>1 DEF FirstOnly
<1>3. CASE i = dma.pos
  <2>1. dma.pos # 0
    BY <1>1, <1>3
  <2> QED BY <1>1, <1>2, <1>3, <2>1
<1>4. CASE i # dma.pos
  <2>1. Ago(i)' = Ago(i) + 1 /\ Ago(i) \in 0..NrSamples
    BY <1>1, <1>4 DEF Ago
  <2>2. Ago(i) <= quiet
    BY <1>1, <2>1
  <2>3. p \notin level
    BY <1>1, <2>2 DEF Cleared
  <2> QED BY <1>1, <1>2, <2>3
<1> QED BY <1>3, <1>4

\* Right after a write nothing is claimed.
LEMMA ClearedAtFirst ==
    ASSUME TypeOK', quiet' = 0
    PROVE  (\A p : Cleared(p)') /\ ~(quiet' > Since')
<1>1. dma'.pos \in 0..NrSamples - 1 /\ NrSamples \in Nat /\ NrSamples > 0
  BY NrSamplesAssumption DEF TypeOK, Positions
<1>2. \A i \in 1..NrSamples - 1 : ~(Ago(i)' <= 0)
  BY <1>1 DEF Ago
<1>3. ~(0 > Since')
  BY <1>1 DEF Since
<1> QED BY <1>2, <1>3 DEF Cleared

\* The wave of an enabled pin: the first word sets it, the word of its duty
\* clears it.
LEMMA MoveWave ==
    ASSUME TypeOK, SampleInv, FirstOnly, WaveInv, DmaMove
    PROVE  WaveInv'
<1> SUFFICES ASSUME stop = "no", cpu.at = Idle
             PROVE  /\ \A p \in channel_mask :
                          quiet' > Since' => (p \in level' <=> Since' - 1 < duty[p])
                    /\ \A p \in Pins \ channel_mask : Cleared(p)'
  BY MoveFacts DEF WaveInv
<1>1. /\ NrSamples \in Nat /\ NrSamples > 0 /\ Idle = NrSamples
      /\ Idle \notin {AtMask, AtDst, 0}
      /\ dma.pos \in 0..NrSamples - 1 /\ quiet \in 0..2 * NrSamples
      /\ dma'.pos = IF dma.pos = NrSamples - 1 THEN 0 ELSE dma.pos + 1
      /\ quiet' = IF quiet < 2 * NrSamples THEN quiet + 1 ELSE quiet
      /\ dma.phase = "move"
      /\ level' = IF dma.dst = "GPSET0" THEN level \cup sample[dma.pos]
                                        ELSE level \ sample[dma.pos]
  BY MoveFacts DEF Idle, AtMask, AtDst
<1>2. /\ channel_mask = Enabled /\ dst0 = DstFor(channel_mask) /\ sample[0] = channel_mask
      /\ WordInv
  BY <1>1 DEF SampleInv, MaskInv, HeadInv
<1>3. /\ dma.phase = "move" /\ dma.pos = 0 /\ quiet > 0 => dma.dst = dst0
      /\ \A p \in channel_mask : quiet > Since => (p \in level <=> Since - 1 < duty[p])
      /\ \A p \in Pins \ channel_mask : Cleared(p)
  BY DEF WaveInv
<1>4. Since' = dma.pos + 1
  BY <1>1 DEF Since
<1>5. ASSUME NEW p \in channel_mask, quiet' > Since'
      PROVE  p \in level' <=> Since' - 1 < duty[p]
  <2>1. p \in Pins /\ duty[p] \in 1..NrSamples
    BY <1>2 DEF Enabled, TypeOK
  <2>2. CASE dma.pos = 0
    <3>1. quiet > 0
      BY <1>1, <1>4, <1>5, <2>2
    <3>2. dma.dst = "GPSET0"
      BY <1>1, <1>2, <1>3, <2>2, <3>1 DEF DstFor
    <3> QED BY <1>1, <1>2, <1>4, <2>1, <2>2, <3>2
  <2>3. CASE dma.pos # 0
    <3>1. Since = dma.pos /\ quiet > Since
      BY <1>1, <1>4, <1>5, <2>3 DEF Since
    <3>2. p \in level <=> dma.pos - 1 < duty[p]
      BY <1>3, <3>1
    <3>3. level' = level \ sample[dma.pos] /\ dma.pos \in 1..NrSamples - 1
      BY <1>1, <2>3 DEF FirstOnly
    <3>4. p \in sample[dma.pos] <=> dma.pos >= duty[p]
      BY <1>2, <2>1, <3>3 DEF WordInv, Busy
    <3> QED BY <1>1, <1>4, <2>1, <3>2, <3>3, <3>4
  <2> QED BY <2>2, <2>3
<1>6. ASSUME NEW p \in Pins \ channel_mask PROVE Cleared(p)'
  BY <1>2, <1>3, ClearedMove
<1> QED BY <1>5, <1>6

LEMMA WaveStep ==
    TypeOK /\ TypeOK' /\ SampleInv /\ FirstOnly /\ WaveInv /\ [Next]_vars => WaveInv'
<1> SUFFICES ASSUME TypeOK, TypeOK', SampleInv, FirstOnly, WaveInv, [Next]_vars
             PROVE  WaveInv'
  OBVIOUS
<1>1. ASSUME NEW ps \in SUBSET Pins, NEW d \in Data, SetMulti(ps, d) PROVE WaveInv'
  <2>1. cpu'.at # Idle
    BY <1>1, NrSamplesAssumption DEF SetMulti, Begin, AtMask, Idle
  <2> QED BY <2>1 DEF WaveInv, Idle
<1>2. ASSUME NEW p \in Pins, NEW d \in Data, SetData(p, d) PROVE WaveInv'
  <2>1. {p} \in SUBSET Pins
    OBVIOUS
  <2> QED BY <1>1, <1>2, <2>1 DEF SetData
<1>3. CASE Update
  <2>1. CASE UpdateMask
    <3>1. cpu'.at # Idle
      BY <2>1, NrSamplesAssumption DEF UpdateMask, AtDst, Idle, TypeOK
    <3> QED BY <3>1 DEF WaveInv, Idle
  <2>2. CASE WriteDst \/ WriteFirst \/ WriteSample
    <3>1. quiet' = 0
      BY <2>2 DEF WriteDst, WriteFirst, WriteSample
    <3>2. (\A p : Cleared(p)') /\ ~(quiet' > Since')
      BY <3>1, ClearedAtFirst
    <3> QED BY <3>1, <3>2 DEF WaveInv
  <2> QED BY <1>3, <2>1, <2>2 DEF Update
<1>4. CASE SoftpwmStop \/ Terminate \/ StopChannel \/ StopSleep \/ StopReset
  <2>1. stop' # "no"
    BY <1>4 DEF SoftpwmStop, Terminate, StopChannel, StopSleep, StopReset
  <2> QED BY <2>1 DEF WaveInv
<1>5. CASE DmaFetch
  <2>1. /\ UNCHANGED <<cpuVars, level, duty, quiet>> /\ dma'.pos = dma.pos
        /\ dma.pos = 0 => dma'.dst = dst0
    BY <1>5 DEF DmaFetch, TypeOK
  <2> QED BY <2>1 DEF WaveInv, cpuVars, Since, Cleared, Ago, Idle
<1>6. CASE UNCHANGED vars
  BY <1>6 DEF vars, cpuVars, dmaVars, histVars, WaveInv, Since, Cleared, Ago, Idle
<1> QED BY <1>1, <1>2, <1>3, <1>4, <1>5, <1>6, MoveWave DEF Next, Dma

LEMMA FirstOnlyStep == TypeOK /\ FirstOnly /\ [Next]_vars => FirstOnly'
<1> SUFFICES ASSUME TypeOK, FirstOnly, [Next]_vars PROVE FirstOnly'
  OBVIOUS
<1>1. CASE DmaFetch
  BY <1>1 DEF DmaFetch, FirstOnly, TypeOK
<1>2. CASE DmaMove
  BY <1>2, MoveFacts DEF FirstOnly
<1>3. CASE StopReset
  BY <1>3 DEF StopReset, FirstOnly, TypeOK
<1>4. CASE UNCHANGED dma
  BY <1>4 DEF FirstOnly
<1> QED BY <1>1, <1>2, <1>3, <1>4
        DEF Next, Dma, Update, UpdateMask, WriteDst, WriteFirst, WriteSample, SetData,
            SetMulti, SoftpwmStop, Terminate, StopChannel, StopSleep, dmaVars, vars

-----------------------------------------------------------------------------
(* The shutdown.                                                            *)

\* An update begins, of a caller or of the shutdown.
LEMMA BeginTorn ==
    ASSUME TypeOK, TornInv, NEW ps \in SUBSET Pins, NEW d \in Int,
           cpu.at = Idle, Begin(ps, d), UNCHANGED <<channel_mask, sample, torn>>
    PROVE  TornInv'
<1> SUFFICES ASSUME NEW p \in Pins \ torn PROVE PinInv(p)'
  BY DEF TornInv
<1>1. AtMask # Idle
  BY NrSamplesAssumption DEF AtMask, Idle
<1>2. /\ cpu'.at = AtMask /\ cpu'.pins = ps /\ cpu'.data = Clamp(d)
      /\ channel_data'[p] = IF p \in ps THEN d ELSE channel_data[p]
  BY DEF Begin, TypeOK
<1>3. PinInv(p) /\ ~Busy(p) /\ (Busy(p)' <=> p \in ps)
  BY <1>1, <1>2 DEF TornInv, Busy
<1> QED BY <1>1, <1>2, <1>3 DEF PinInv

\* Data that are not > 0 are clamped to 0.
LEMMA ClampOff == ASSUME NEW d \in Int PROVE Clamp(d) = 0 <=> ~(d > 0)
BY NrSamplesAssumption DEF Clamp

\* The words of an update, written in their order, and its end.
LEMMA UpdateTorn ==
    ASSUME TypeOK, TypeOK', TornInv, Update
    PROVE  TornInv'
<1> SUFFICES ASSUME NEW p \in Pins \ torn PROVE PinInv(p)'
  BY DEF TornInv, Update, UpdateMask, WriteDst, WriteFirst, WriteSample, histVars
<1>1. /\ NrSamples \in Nat /\ NrSamples > 0 /\ Idle = NrSamples /\ AtMask = -2 /\ AtDst = -1
      /\ cpu.at # Idle /\ cpu'.pins = cpu.pins /\ cpu'.data = cpu.data
      /\ channel_data' = channel_data /\ channel_data[p] \in Int
  BY UpdateFacts DEF TypeOK
<1>2. PinInv(p) /\ (Busy(p) <=> p \in cpu.pins) /\ (Busy(p)' => p \in cpu.pins)
  BY <1>1 DEF TornInv, Busy
<1>3. Busy(p)' => cpu'.data = Clamp(channel_data'[p])
  BY <1>1, <1>2 DEF PinInv
<1>4. SUFFICES ASSUME ~(channel_data[p] > 0)
               PROVE  /\ p \in channel_mask' => Busy(p)' /\ cpu'.at = AtMask
                      /\ p \in sample'[0] => Busy(p)' /\ cpu'.at \in {AtMask, AtDst, 0}
  BY <1>1, <1>3 DEF PinInv
<1>5. /\ p \in cpu.pins => cpu.data = 0
      /\ p \in channel_mask => p \in cpu.pins /\ cpu.at = AtMask
      /\ p \in sample[0] => p \in cpu.pins /\ cpu.at \in {AtMask, AtDst, 0}
  BY <1>1, <1>2, <1>4, ClampOff DEF PinInv
<1>6. CASE UpdateMask
  <2>1. /\ cpu.at = AtMask /\ cpu'.at = AtDst /\ UNCHANGED sample
        /\ channel_mask' = IF cpu.data = 0 THEN channel_mask \ cpu.pins
                                           ELSE channel_mask \cup cpu.pins
    BY <1>6 DEF UpdateMask, TypeOK
  <2>2. p \notin channel_mask' /\ (p \in cpu.pins => Busy(p)')
    BY <1>1, <1>5, <2>1 DEF Busy
  <2> QED BY <1>1, <1>5, <2>1, <2>2
<1>7. CASE WriteDst
  <2>1. cpu.at = AtDst /\ cpu'.at = 0 /\ UNCHANGED <<channel_mask, sample>>
    BY <1>7 DEF WriteDst, TypeOK
  <2>2. p \in cpu.pins => Busy(p)'
    BY <1>1, <2>1 DEF Busy
  <2> QED BY <1>1, <1>5, <2>1, <2>2
<1>8. CASE WriteFirst \/ WriteSample
  <2>1. /\ cpu.at \in 0..NrSamples - 1 /\ channel_mask' = channel_mask
        /\ sample'[0] = IF cpu.at = 0 THEN channel_mask ELSE sample[0]
    <3>1. sample = [i \in 0..NrSamples - 1 |-> sample[i]]
      BY DEF TypeOK, Positions
    <3>2. CASE WriteFirst
      BY <1>1, <3>1, <3>2 DEF WriteFirst
    <3>3. CASE WriteSample
      <4>1. /\ cpu.at \in 1..NrSamples - 1 /\ channel_mask' = channel_mask
            /\ sample' = [sample EXCEPT ![cpu.at] = Word(@, cpu.at)]
        BY <3>3 DEF WriteSample
      <4>2. sample'[0] = sample[0] /\ cpu.at # 0
        BY <1>1, <3>1, <4>1
      <4> QED BY <1>1, <4>1, <4>2
    <3> QED BY <1>8, <3>2, <3>3
  <2> QED BY <1>1, <1>5, <2>1
<1> QED BY <1>6, <1>7, <1>8 DEF Update

\* The pins whose switching off a signal abandons are torn; a pin whose switching
\* on it abandons has data that the shutdown sees.
LEMMA TerminateTorn == ASSUME TypeOK, TornInv, Terminate PROVE TornInv'
<1>1. /\ cpu'.at = Idle /\ UNCHANGED <<channel_data, channel_mask, sample>>
      /\ torn' = IF cpu.at = Idle \/ cpu.data > 0 THEN torn ELSE torn \cup cpu.pins
  BY DEF Terminate, TypeOK
<1>2. ASSUME NEW p \in Pins \ torn' PROVE PinInv(p)'
  <2>1. p \in Pins \ torn /\ PinInv(p) /\ ~Busy(p)'
    BY <1>1, <1>2 DEF Busy, TornInv
  <2>2. Busy(p) => channel_data[p] > 0
    <3>1. channel_data[p] \in Int /\ cpu.data \in 0..NrSamples /\ NrSamples \in Nat
      BY <2>1, NrSamplesAssumption DEF TypeOK
    <3> QED BY <1>1, <1>2, <2>1, <3>1, ClampOff DEF Busy, PinInv
  <2> QED BY <1>1, <2>1, <2>2 DEF PinInv
<1> QED BY <1>2 DEF TornInv

LEMMA TornStep == TypeOK /\ TypeOK' /\ TornInv /\ [Next]_vars => TornInv'
<1> SUFFICES ASSUME TypeOK, TypeOK', TornInv, [Next]_vars PROVE TornInv'
  OBVIOUS
<1>1. ASSUME NEW ps \in SUBSET Pins, NEW d \in Data, SetMulti(ps, d) PROVE TornInv'
  BY <1>1, BeginTorn, DataAssumption DEF SetMulti
<1>2. ASSUME NEW p \in Pins, NEW d \in Data, SetData(p, d) PROVE TornInv'
  <2>1. {p} \in SUBSET Pins
    OBVIOUS
  <2> QED BY <1>1, <1>2, <2>1 DEF SetData
<1>4. CASE UNCHANGED <<cpu, channel_data, channel_mask, sample, torn>>
  BY <1>4 DEF TornInv, PinInv, Busy
<1>3. CASE StopChannel
  <2>1. PICK p \in left : IF channel_data[p] > 0 THEN Begin({p}, 0)
                          ELSE UNCHANGED <<channel_data, cpu, lo, hi>>
    BY <1>3 DEF StopChannel
  <2>2. {p} \in SUBSET Pins /\ 0 \in Int
    BY <2>1 DEF TypeOK
  <2>3. cpu.at = Idle /\ UNCHANGED <<channel_mask, sample, torn>>
    BY <1>3 DEF StopChannel
  <2> QED BY <1>4, <2>1, <2>2, <2>3, BeginTorn
<1> QED BY <1>1, <1>2, <1>3, <1>4, UpdateTorn, TerminateTorn
        DEF Next, Dma, DmaFetch, DmaMove, SoftpwmStop, StopSleep, StopReset,
            cpuVars, histVars, vars

\* Once the loop of softpwm_stop is over, the first word has no pin but torn ones.
LEMMA SwitchedOff ==
    ASSUME TypeOK, TornInv, StopInv, stop = "sleep", NEW p \in Pins \ torn
    PROVE  p \notin sample[0]
<1>1. cpu.at = Idle /\ left = {} /\ Passed /\ PinInv(p)
  BY DEF StopInv, TornInv
<1>2. ~(channel_data[p] > 0) /\ ~Busy(p)
  BY <1>1 DEF Passed, Busy
<1> QED BY <1>1, <1>2 DEF PinInv

LEMMA StopStep ==
    TypeOK /\ TypeOK' /\ FirstOnly /\ TornInv /\ StopInv /\ [Next]_vars => StopInv'
<1> SUFFICES ASSUME TypeOK, TypeOK', FirstOnly, TornInv, StopInv, [Next]_vars
             PROVE  StopInv'
  OBVIOUS
<1>1. CASE stop' = "no"
  BY <1>1 DEF StopInv
<1>2. CASE StopSleep
  <2>1. /\ stop = "loop" /\ stop' = "sleep" /\ quiet' = 0 /\ cpu' = cpu /\ cpu.at = Idle
        /\ left = {} /\ left' = left /\ channel_data' = channel_data
    BY <1>2 DEF StopSleep
  <2>2. Passed'
    BY <2>1 DEF StopInv, Passed
  <2>3. \A p : Cleared(p)'
    BY <2>1, ClearedAtFirst
  <2> QED BY <2>1, <2>2, <2>3 DEF StopInv, Idle
<1>3. CASE StopReset
  <2>1. /\ stop = "sleep" /\ stop' = "off" /\ dma'.on = FALSE /\ quiet >= NrSamples
        /\ UNCHANGED <<cpu, left, sample, level, torn>>
    BY <1>3 DEF StopReset, Slept, histVars, TypeOK
  <2>2. cpu.at = Idle /\ left = {} /\ \A p \in Pins \ torn : Cleared(p)
    BY <2>1 DEF StopInv
  <2>4. ASSUME NEW p \in level, p \notin torn, NEW i \in Positions
        PROVE  p \notin sample[i]
    <3>1. p \in Pins
      BY DEF TypeOK
    <3>2. CASE i = 0
      BY <2>1, <2>4, <3>1, <3>2, SwitchedOff
    <3>3. CASE i # 0
      <4>1. i \in 1..NrSamples - 1 /\ dma.pos \in 0..NrSamples - 1 /\ NrSamples \in Nat
        BY <3>3, MovedType DEF Positions
      <4>2. Ago(i) <= NrSamples /\ Ago(i) \in Int /\ quiet \in Int
        BY <4>1 DEF Ago, TypeOK
      <4>3. Ago(i) <= quiet
        BY <2>1, <4>1, <4>2
      <4> QED BY <2>2, <2>4, <3>1, <4>1, <4>3 DEF Cleared
    <3> QED BY <3>2, <3>3
  <2>5. StopLeavesLow'
    BY <2>1, <2>4 DEF StopLeavesLow
  <2> QED BY <2>1, <2>2, <2>5 DEF StopInv, Idle
<1>4. CASE DmaFetch
  <2>1. /\ UNCHANGED <<cpuVars, level, quiet, torn>> /\ dma'.pos = dma.pos
        /\ stop # "off"
    BY <1>4 DEF DmaFetch, TypeOK, StopInv
  <2> QED BY <2>1 DEF StopInv, cpuVars, Passed, Cleared, Ago, Idle
<1>5. CASE DmaMove
  <2>1. dma.on /\ UNCHANGED <<stop, left, cpu, channel_data, sample, torn>>
    BY <1>5, MoveFacts DEF DmaMove, cpuVars
  <2>2. stop # "off"
    BY <2>1 DEF StopInv
  <2>3. stop = "sleep" => \A p \in Pins \ torn : Cleared(p)'
    BY <1>5, SwitchedOff, ClearedMove DEF StopInv
  <2> QED BY <2>1, <2>2, <2>3 DEF StopInv, Passed, Idle
<1>6. CASE UNCHANGED vars
  BY <1>6 DEF vars, cpuVars, dmaVars, histVars, StopInv, StopLeavesLow, Passed, Cleared,
              Ago, Idle
<1>7. CASE Update
  <2>1. cpu.at # Idle /\ UNCHANGED <<stop, left, channel_data>>
    BY <1>7, UpdateFacts DEF Update, UpdateMask, WriteDst, WriteFirst, WriteSample, TypeOK
  <2>2. stop \notin {"sleep", "off"}
    BY <2>1 DEF StopInv
  <2> QED BY <2>1, <2>2 DEF StopInv, Passed
<1>8. CASE \/ \E ps \in SUBSET Pins, d \in Data : SetMulti(ps, d)
           \/ \E p \in Pins, d \in Data : SetData(p, d)
  BY <1>1, <1>8 DEF SetData, SetMulti
<1>9. CASE SoftpwmStop \/ Terminate
  <2>1. stop' = "loop" /\ left' = Pins
    BY <1>9 DEF SoftpwmStop, Terminate
  <2> QED BY <2>1 DEF StopInv, Passed
<1>10. CASE StopChannel
  <2>1. /\ stop = "loop" /\ stop' = "loop"
    BY <1>10 DEF StopChannel
  <2>2. PICK p \in left : /\ left' = left \ {p}
                          /\ IF channel_data[p] > 0 THEN Begin({p}, 0)
                             ELSE UNCHANGED <<channel_data, cpu, lo, hi>>
    BY <1>10 DEF StopChannel
  <2>3. ASSUME NEW q \in Pins \ left' PROVE ~(channel_data'[q] > 0)
    <3>1. Passed /\ (q = p \/ q \in Pins \ left)
      BY <2>1, <2>2, <2>3 DEF StopInv
    <3> QED BY <2>2, <3>1 DEF Passed, Begin
  <2> QED BY <2>1, <2>3 DEF StopInv, Passed
<1> QED BY <1>2, <1>3, <1>4, <1>5, <1>6, <1>7, <1>8, <1>9, <1>10 DEF Next, Dma

LEMMA LowInit == Init => WaveInv /\ FirstOnly /\ TornInv /\ StopInv
<1> SUFFICES ASSUME Init PROVE WaveInv /\ FirstOnly /\ TornInv /\ StopInv
  OBVIOUS
<1>1. NrSamples \in Nat /\ NrSamples > 0
  BY NrSamplesAssumption
<1>2. WaveInv
  BY <1>1 DEF Init, WaveInv, Cleared, Since
<1>3. FirstOnly /\ StopInv
  BY DEF Init, FirstOnly, StopInv
<1>4. ASSUME NEW p \in Pins PROVE PinInv(p)
  BY <1>1 DEF Init, PinInv, Busy, Clamp, Idle, Positions
<1> QED BY <1>2, <1>3, <1>4 DEF TornInv

\* Two cycles after the last write an enabled pin is high for its duty in each
\* cycle, and a disabled one low unless no block clears it (softpwm.c 217-231
\* under the chain of init_ctrl_data).
THEOREM WavesAreSteady == Spec => []SteadyWave
<1>1. TypeOK /\ SampleInv /\ WaveInv => SteadyWave
  <2> SUFFICES ASSUME TypeOK, SampleInv, WaveInv, stop = "no", cpu.at = Idle,
                      quiet = 2 * NrSamples, NEW p \in Pins, NEW j \in Positions,
                      Moved(j), dma.phase = "fetch"
               PROVE  IF p \in channel_mask THEN p \in level <=> j < channel_data[p]
                      ELSE p \in level => \A i \in Positions : p \notin sample[i]
    BY DEF SteadyWave
  <2>1. /\ NrSamples \in Nat /\ NrSamples > 0 /\ dma.pos \in 0..NrSamples - 1
        /\ Idle = NrSamples /\ Idle \notin {AtMask, AtDst, 0}
    BY MovedType DEF Idle, AtMask, AtDst
  <2>2. DataInv /\ sample[0] = channel_mask
    BY <2>1 DEF SampleInv, HeadInv
  <2>3. CASE p \in channel_mask
    <3>1. Since - 1 = j /\ quiet > Since
      BY <2>1 DEF Since, Moved, Positions
    <3>2. p \in level <=> j < duty[p]
      BY <2>3, <3>1 DEF WaveInv
    <3>3. duty[p] = Clamp(channel_data[p]) /\ channel_data[p] \in Int
      BY <2>2 DEF DataInv, Busy, TypeOK
    <3> QED BY <2>1, <2>3, <3>2, <3>3 DEF Clamp, Positions
  <2>4. CASE p \notin channel_mask
    <3>1. Cleared(p)
      BY <2>4 DEF WaveInv
    <3>2. \A i \in 1..NrSamples - 1 : Ago(i) <= quiet
      BY <2>1 DEF Ago
    <3> QED BY <2>1, <2>2, <2>4, <3>1, <3>2 DEF Cleared, Positions
  <2> QED BY <2>3, <2>4
<1> QED BY <1>1, TypeCorrect, SampleInit, SampleStep, LowInit, FirstOnlyStep, WaveStep,
           PTL DEF Spec

\* softpwm_stop, from wherever it was called and however often it was interrupted,
\* resets the engine with every pin low but those of a torn update and those
\* that no block clears (softpwm.c 339-353, raspd.c 138-160).
THEOREM StopIsLow == Spec => []StopLeavesLow
<1>1. StopInv => StopLeavesLow
  BY DEF StopInv, StopLeavesLow
<1> QED BY <1>1, TypeCorrect, LowInit, FirstOnlyStep, TornStep, StopStep, PTL DEF Spec
=============================================================================
