--------------------------------- MODULE Imu ---------------------------------
(***************************************************************************)
(* The motion sensor of the quadcopter: src/raspd/inv_imu.c, the driver of    *)
(* the chip under it (src/inv_mpu/core/driver/eMPL) and the chip on the I2C   *)
(* bus.  The chip's motion processor (DMP) puts packets into a FIFO and       *)
(* pulses the interrupt pin; both edges of the pulse are events; an event     *)
(* reads one packet.                                                         *)
(*                                                                          *)
(* The driver is one thread, but the chip goes on sampling between any two    *)
(* transfers of it.  What the driver still has to do is the sequence work,    *)
(* of transfers and calls, a call being replaced by its body when its turn    *)
(* comes.  A read may fail and the driver sees it; a write may be lost and    *)
(* the driver never does (i2c_write of platform_bcm2835.c returns 0).         *)
(*                                                                          *)
(* Ranges, filter and rate are kept as the register values; the driver skips  *)
(* a write of what it believes is there.  Left out: the offset registers,     *)
(* which no configuration of raspd writes; the polarity of the pin, whose     *)
(* two edges are alike here; the standby bits, the second byte of a power     *)
(* state; the compass, which raspd is not built with.  Packets are counted:   *)
(* 32 of them fill the 1024 bytes exactly, so that an overflow alone tears    *)
(* none.                                                                     *)
(***************************************************************************)
EXTENDS Integers, Sequences, FiniteSets

CONSTANTS
    Capacity,  \* packets the FIFO holds
    MaxFails,  \* bound: reads that fail
    MaxLost,   \* bound: writes that are lost
    MaxTests   \* bound: self-tests

ASSUME CapacityAssumption == Capacity \in Nat \ {0, 1}
ASSUME BoundsAssumption == {MaxFails, MaxLost, MaxTests} \subseteq Nat

VARIABLES
    chip,     \* the chip's registers, and whether its DMP program is whole
    fifo,     \* packets in the FIFO
    torn,     \* the FIFO holds other things than whole packets of the DMP
    overflow, \* the overflow bit of the interrupt status
    pulse,    \* the interrupt pin is low
    event,    \* an edge of it has not been handled
    cfg,      \* st.chip_cfg, what the driver believes
    started,  \* hal.sensors
    work,     \* what the driver has still to do
    fate,     \* "alive", or "sigfpe" after a division by zero
    clean,    \* history: no write was lost since the last configuration began
    calm,     \* from now on events are handled before the next sample
    fails, lost, tests

chipVars == <<chip, fifo, torn, overflow, pulse>>
driverVars == <<cfg, started, work, fate>>
counters == <<fails, lost, tests>>
imuVars == <<chipVars, event, driverVars, clean, calm, counters>>

\* The ranges of gyroscope and accelerometer, the filter and the rate divider.
Settings == {"gyro_cfg", "accel_cfg", "lpf", "rate_div"}

ChipState ==
    [int : {"off", "data", "dmp"}, ctrl : {"off", "fifo", "dmp"},
     raw : BOOLEAN, awake : BOOLEAN, prog : BOOLEAN, set : [Settings -> 0..255]]

-----------------------------------------------------------------------------
(* Work: a step is a pair, what to do and with what.                        *)

Registers == {"int_enable", "fifo_en", "user_ctrl", "pwr_mgmt", "mem"} \cup Settings

IntEn(v) == <<"int_enable", v>>
Ctrl(v) == <<"user_ctrl", v>>
FifoEn(b) == <<"fifo_en", IF b THEN "on" ELSE "off">>
Power(v) == <<"pwr_mgmt", v>>
Mem == <<"mem", "feature">>
Call(f) == <<"call", f>>
Read(what) == <<"read", what>>
Bias(hw, tries) == <<"bias", [hw |-> hw, tries |-> tries]>>
Counted(hw, tries) == <<"counted", [hw |-> hw, tries |-> tries]>>
Setting(reg, v) == <<"set", [reg |-> reg, v |-> v]>>
SampleRate(hz) == <<"rate", hz>>
Bypass(rest) == <<"bypass", rest>>

Unknown == 255
Dps2000 == 24
G2 == 0
Lpf(hz) == 1 + Cardinality({f \in {188, 98, 42, 20, 10} : hz < f})
Rate(div) == 1000 \div (1 + div)

\* The bits that make the chip move its sensors, or none.
HwTest(hw) == IF hw THEN 224 ELSE 0

\* mpu_reset_fifo.  The chip forgets the FIFO with "reset" and samples again
\* with the next write of user_ctrl, before its interrupt is enabled.
Reset ==
    <<IntEn("off"), FifoEn(FALSE), Ctrl("off"), Ctrl("reset")>> \o
    IF cfg.dmp_on
    THEN <<Ctrl("dmp"), IntEn(IF cfg.int = "off" THEN "off" ELSE "dmp"), FifoEn(FALSE)>>
    ELSE <<Ctrl("fifo"), IntEn(IF cfg.int = "off" THEN "off" ELSE "data"), FifoEn(cfg.fifo)>>

\* mpu_init: the chip is reset, woken and put to sleep again.  Its last step is
\* missed when the bypass cannot be switched off.
MpuInit ==
    <<Power("reset"), Power("awake"), Call("Forget"),
      Setting("gyro_cfg", Dps2000), Setting("accel_cfg", G2), Setting("lpf", Lpf(42)),
      SampleRate(50), Call("FifoNone"), Bypass(<<Power("asleep")>>)>>

\* dmp_set_orientation and dmp_set_fifo_rate only write the program's memory.
Orientation == <<Mem>>
FifoRate == <<Mem>>

\* dmp_enable_lp_quat and dmp_enable_6x_lp_quat
Quat == <<Mem, Call("Reset")>>

\* dmp_enable_feature
Features == <<Mem>> \o Quat \o Quat \o <<Call("Reset")>>

\* invmpu_init, and the rate that devres.lua sets after it: all sensors are woken and
\* their raw data put into the FIFO, until the DMP is loaded and takes over.
Start ==
    MpuInit
    \o <<Power("awake"), Call("FifoAll"), SampleRate(20), Call("Started"), Call("Load")>>
    \o Orientation \o <<Call("Features")>> \o FifoRate \o <<Call("DmpOn")>> \o FifoRate

\* mpu_run_self_test: the biases without and with the hardware test, then
\* everything is written again.  fifo_enable was saved, and is all sensors
\* after invmpu_init.
SelfTestWork ==
    (IF cfg.dmp_on THEN <<Call("DmpOff")>> ELSE <<>>)
    \o <<Bias(FALSE, 2), Call("Forget"),
         Setting("gyro_cfg", cfg.set["gyro_cfg"]), Setting("accel_cfg", cfg.set["accel_cfg"]),
         Setting("lpf", cfg.set["lpf"]), SampleRate(Rate(cfg.set["rate_div"])),
         Power("awake"), Call("FifoAll")>>
    \o (IF cfg.dmp_on THEN <<Call("DmpOn")>> ELSE <<>>)

\* get_st_biases up to the count of what came in.
BiasWork(b) ==
    <<Power("awake"), IntEn("off"), FifoEn(FALSE), Power("awake"), Ctrl("off"),
      Ctrl("reset"), <<"lpf", Lpf(98)>>, <<"rate_div", 0>>,
      <<"gyro_cfg", HwTest(b.hw)>>, <<"accel_cfg", HwTest(b.hw)>>,
      Ctrl("fifo"), FifoEn(TRUE), Call("Wait"), FifoEn(FALSE), Counted(b.hw, b.tries)>>

-----------------------------------------------------------------------------
(* The chip.                                                                *)

Asleep ==
    [int |-> "off", ctrl |-> "off", raw |-> FALSE, awake |-> FALSE, prog |-> FALSE,
     set |-> [reg \in Settings |-> 0]]

\* What the program of the DMP is made for: 2000 degrees per second, 2 g, 200 Hz.
ForDmp == [gyro_cfg |-> Dps2000, accel_cfg |-> G2, lpf |-> Lpf(100), rate_div |-> 4]

\* As an earlier raspd left it: invmpu_exit does not stop it.
LeftOn ==
    [int |-> "dmp", ctrl |-> "dmp", raw |-> FALSE, awake |-> TRUE, prog |-> TRUE,
     set |-> ForDmp]

ImuInit ==
    /\ \/ chip = Asleep /\ fifo = 0
       \/ chip = LeftOn /\ fifo \in {0, Capacity}
    /\ torn = FALSE
    /\ overflow \in BOOLEAN
    /\ pulse = FALSE
    /\ event = FALSE
    /\ cfg = [dmp_on |-> FALSE, int |-> "off", fifo |-> FALSE, loaded |-> FALSE,
              bypass |-> FALSE, set |-> Asleep.set]
    /\ started = FALSE
    /\ work = Start
    /\ fate = "alive"
    /\ clean = TRUE
    /\ calm = FALSE
    /\ fails = 0
    /\ lost = 0
    /\ tests = 0

Filling == chip.ctrl = "dmp" \/ (chip.ctrl = "fifo" /\ chip.raw)
Pulsing == chip.int = "data" \/ (chip.int = "dmp" /\ chip.ctrl = "dmp")

\* The FIFO gains a packet, or loses its oldest to it.
Sample ==
    /\ chip.awake
    /\ ~pulse
    /\ Filling \/ Pulsing
    /\ calm => ~event /\ work = <<>>
    /\ IF Filling
       THEN /\ fifo' = IF fifo < Capacity THEN fifo + 1 ELSE fifo
            /\ overflow' = (overflow \/ fifo = Capacity)
            /\ torn' = (torn \/ chip.ctrl # "dmp" \/ chip.raw \/ ~chip.prog)
       ELSE UNCHANGED <<fifo, overflow, torn>>
    /\ pulse' = Pulsing
    /\ event' = (event \/ Pulsing)
    /\ UNCHANGED <<chip, driverVars, clean, calm, counters>>

\* The pin goes back, which is an event too: invmpu_init asks for EDGE_both.
PulseEnds ==
    /\ pulse
    /\ calm => ~event /\ work = <<>>
    /\ pulse' = FALSE
    /\ event' = TRUE
    /\ UNCHANGED <<chip, fifo, torn, overflow, driverVars, clean, calm, counters>>

-----------------------------------------------------------------------------
(* The driver.                                                              *)

Idle == fate = "alive" /\ work = <<>>
Doing(what) == fate = "alive" /\ work # <<>> /\ Head(work)[1] = what
Arg == Head(work)[2]
Then(ops) == work' = ops \o Tail(work)

\* int_cb: without hal.sensors, or without the DMP, nothing is read.
IntCb ==
    /\ Idle
    /\ event
    /\ event' = FALSE
    /\ work' = IF started /\ cfg.dmp_on THEN <<Read("count")>> ELSE <<>>
    /\ UNCHANGED <<chipVars, cfg, started, fate, clean, calm, counters>>

\* What a write that arrives does to the chip.
Written(reg, v) ==
    \/ /\ reg = "int_enable"
       /\ chip' = [chip EXCEPT !.int = v]
       /\ UNCHANGED <<fifo, torn>>
    \/ /\ reg = "fifo_en"
       /\ chip' = [chip EXCEPT !.raw = (v = "on")]
       /\ UNCHANGED <<fifo, torn>>
    \/ /\ reg = "user_ctrl" /\ v # "reset"
       /\ chip' = [chip EXCEPT !.ctrl = v]
       /\ UNCHANGED <<fifo, torn>>
    \/ /\ reg = "user_ctrl" /\ v = "reset"
       /\ chip' = [chip EXCEPT !.ctrl = "off"]
       /\ fifo' = 0
       /\ torn' = FALSE
    \/ /\ reg = "pwr_mgmt" /\ v # "reset"
       /\ chip' = [chip EXCEPT !.awake = (v = "awake")]
       /\ UNCHANGED <<fifo, torn>>
    \/ /\ reg = "pwr_mgmt" /\ v = "reset"
       /\ chip' = Asleep
       /\ fifo' = 0
       /\ torn' = FALSE
    \/ /\ reg = "mem"
       /\ UNCHANGED <<chip, fifo, torn>>
    \/ /\ reg \in Settings
       /\ chip' = [chip EXCEPT !.set[reg] = v]
       /\ UNCHANGED <<fifo, torn>>

\* i2c_write, and mpu_write_mem over it.  Lost, a write of the program's
\* memory leaves it other than it was meant.
Write ==
    /\ \E reg \in Registers :
           /\ Doing(reg)
           /\ \/ Written(reg, Arg) /\ UNCHANGED <<clean, lost>>
              \/ /\ lost < MaxLost
                 /\ lost' = lost + 1
                 /\ clean' = FALSE
                 /\ chip' = [chip EXCEPT !.prog = @ /\ reg # "mem"]
                 /\ UNCHANGED <<fifo, torn>>
    /\ Then(<<>>)
    /\ UNCHANGED <<overflow, pulse, event, cfg, started, fate, calm, fails, tests>>

ReadFails == fails < MaxFails /\ fails' = fails + 1

MutReadCount ==
    /\ Doing("read") /\ Arg = "count"
    /\ \/ ReadFails /\ Then(<<>>)
       \/ /\ UNCHANGED fails
          /\ Then(IF 2 * fifo > Capacity THEN <<Read("status"), Read("packet")>>
                  ELSE <<Read("packet")>>)
    /\ UNCHANGED <<chipVars, event, cfg, started, fate, clean, calm, lost, tests>>

\* mpu_read_fifo_stream: the count of the FIFO.
ReadCount ==
    /\ Doing("read") /\ Arg = "count"
    /\ \/ ReadFails /\ Then(<<>>)
       \/ /\ UNCHANGED fails
          /\ Then(IF fifo = 0 THEN <<>>
                  ELSE IF 2 * fifo > Capacity THEN <<Read("status"), Read("packet")>>
                  ELSE <<Read("packet")>>)
    /\ UNCHANGED <<chipVars, event, cfg, started, fate, clean, calm, lost, tests>>

\* The status, which reading clears; an overflow resets the FIFO.
ReadStatus ==
    /\ Doing("read") /\ Arg = "status"
    /\ \/ ReadFails /\ work' = <<>> /\ overflow' \in {overflow, FALSE}
       \/ /\ UNCHANGED fails
          /\ work' = IF overflow THEN <<Call("Reset")>> ELSE Tail(work)
          /\ overflow' = FALSE
    /\ UNCHANGED <<chip, fifo, torn, pulse, event, cfg, started, fate, clean, calm, lost, tests>>

MutCorrupt ==
    /\ Doing("read") /\ Arg = "packet"
    /\ fifo' = fifo - 1
    /\ Then(<<>>)
    /\ UNCHANGED <<chip, torn, overflow, pulse, event, cfg, started, fate, clean, calm, counters>>

\* dmp_read_fifo finds the packet sound -- the quaternion of a whole packet has
\* length 1, that of another is taken not to -- and the data go on.
DataReady ==
    /\ Doing("read") /\ Arg = "packet"
    /\ ~torn
    /\ fifo' = fifo - 1
    /\ Then(<<>>)
    /\ UNCHANGED <<chip, torn, overflow, pulse, event, cfg, started, fate, clean, calm, counters>>

\* It does not: FIFO_CORRUPTION_CHECK.
Corrupt ==
    /\ Doing("read") /\ Arg = "packet"
    /\ torn
    /\ fifo' = fifo - 1
    /\ Then(<<Call("Reset")>>)
    /\ UNCHANGED <<chip, torn, overflow, pulse, event, cfg, started, fate, clean, calm, counters>>

\* The read fails, anywhere in the packet.
PacketFails ==
    /\ Doing("read") /\ Arg = "packet"
    /\ ReadFails
    /\ fifo' \in {fifo - 1, fifo}
    /\ torn' \in {torn, TRUE}
    /\ Then(<<>>)
    /\ UNCHANGED <<chip, overflow, pulse, event, cfg, started, fate, clean, calm, lost, tests>>

-----------------------------------------------------------------------------
(* Calls.                                                                   *)

Calls(f) == Doing("call") /\ Arg = f

\* set_int_enable: what is cached is what was written, unless the data-ready
\* interrupt is already on and the write is skipped.
SetInt(on) ==
    /\ Calls(IF on THEN "IntOn" ELSE "IntOff")
    /\ LET v == IF ~on THEN "off" ELSE IF cfg.dmp_on THEN "dmp" ELSE "data"
       IN  IF on /\ ~cfg.dmp_on /\ cfg.int # "off"
           THEN Then(<<>>) /\ UNCHANGED cfg
           ELSE Then(<<IntEn(v)>>) /\ cfg' = [cfg EXCEPT !.int = v]
    /\ UNCHANGED <<started>>

\* mpu_configure_fifo, with all sensors or none; the DMP's FIFO is not its
\* business.
ConfigureFifo(all) ==
    /\ Calls(IF all THEN "FifoAll" ELSE "FifoNone")
    /\ IF cfg.dmp_on THEN Then(<<>>) /\ UNCHANGED cfg
       ELSE /\ cfg' = [cfg EXCEPT !.fifo = all]
            /\ Then(IF all THEN <<Call("IntOn"), Call("Reset")>> ELSE <<Call("IntOff")>>)
    /\ UNCHANGED <<started>>

MutForget ==
    /\ Calls("Forget")
    /\ cfg' = [cfg EXCEPT !.set["lpf"] = Unknown, !.set["rate_div"] = Unknown]
    /\ Then(<<>>)
    /\ UNCHANGED <<started>>

\* What is cached is given up, so that no write is skipped.
Forget ==
    /\ Calls("Forget")
    /\ cfg' = [cfg EXCEPT !.set = [reg \in Settings |-> Unknown]]
    /\ Then(<<>>)
    /\ UNCHANGED <<started>>

\* mpu_set_gyro_fsr, mpu_set_accel_fsr and mpu_set_lpf
Set ==
    /\ Doing("set")
    /\ IF cfg.set[Arg.reg] = Arg.v THEN Then(<<>>) /\ UNCHANGED cfg
       ELSE Then(<<<<Arg.reg, Arg.v>>>>) /\ cfg' = [cfg EXCEPT !.set[Arg.reg] = Arg.v]
    /\ UNCHANGED <<started>>

\* mpu_set_sample_rate: the filter follows the rate; the DMP's is not touched.
SetSampleRate ==
    /\ Doing("rate")
    /\ LET div == 1000 \div Arg - 1
       IN  IF cfg.dmp_on THEN Then(<<>>) /\ UNCHANGED cfg
           ELSE /\ Then(<<<<"rate_div", div>>, Setting("lpf", Lpf(Rate(div) \div 2))>>)
                /\ cfg' = [cfg EXCEPT !.set["rate_div"] = div]
    /\ UNCHANGED <<started>>

\* mpu_set_dmp_state(1)
DmpOn ==
    /\ Calls("DmpOn")
    /\ IF cfg.dmp_on \/ ~cfg.loaded THEN Then(<<>>)
       ELSE Then(<<Call("IntOff"), Bypass(<<>>), SampleRate(200), FifoEn(FALSE),
                   Call("DmpIsOn"), Call("IntOn"), Call("Reset")>>)
    /\ UNCHANGED <<cfg, started>>

\* mpu_set_dmp_state(0)
DmpOff ==
    /\ Calls("DmpOff")
    /\ Then(<<Call("IntOff"), FifoEn(cfg.fifo), Call("DmpIsOff"), Call("Reset")>>)
    /\ UNCHANGED <<cfg, started>>

\* The assignment of dmp_on in it.
DmpIs(on) ==
    /\ Calls(IF on THEN "DmpIsOn" ELSE "DmpIsOff")
    /\ cfg' = [cfg EXCEPT !.dmp_on = on]
    /\ Then(<<>>)
    /\ UNCHANGED <<started>>

\* The functions that only make other calls.
Expand ==
    /\ \/ Calls("Reset") /\ Then(Reset)
       \/ Calls("Features") /\ Then(Features)
       \/ Doing("bias") /\ Then(BiasWork(Arg))
    /\ UNCHANGED <<cfg, started>>

\* hal.sensors is set.
Started ==
    /\ Calls("Started")
    /\ started' = TRUE
    /\ Then(<<>>)
    /\ UNCHANGED <<cfg>>

CallStep ==
    /\ \/ \E b \in BOOLEAN : SetInt(b) \/ ConfigureFifo(b) \/ DmpIs(b)
       \/ DmpOn \/ DmpOff \/ Forget \/ Set \/ SetSampleRate \/ Expand \/ Started
    /\ UNCHANGED <<chipVars, event, fate, clean, calm, counters>>

\* mpu_set_bypass(0): user_ctrl is read and written back, once it worked never
\* again.
BypassOff ==
    /\ Doing("bypass")
    /\ \/ cfg.bypass /\ Then(Arg) /\ UNCHANGED <<cfg, fails>>
       \/ ~cfg.bypass /\ ReadFails /\ Then(<<>>) /\ UNCHANGED cfg
       \/ /\ ~cfg.bypass
          /\ Then(<<Ctrl(chip.ctrl)>> \o Arg)
          /\ cfg' = [cfg EXCEPT !.bypass = TRUE]
          /\ UNCHANGED fails
    /\ UNCHANGED <<chipVars, event, started, fate, clean, calm, lost, tests>>

\* mpu_load_firmware reads every chunk back, so that it ends loaded, or not
\* after a failed read or a lost write; only the start address that is written
\* last may be lost unseen.
Load ==
    /\ Calls("Load")
    /\ \E prog, loaded \in BOOLEAN :
           /\ chip' = [chip EXCEPT !.prog = prog]
           /\ cfg' = [cfg EXCEPT !.loaded = loaded]
           /\ \/ prog /\ loaded /\ UNCHANGED <<clean, fails, lost>>
              \/ ~prog /\ ~loaded /\ ReadFails /\ UNCHANGED <<clean, lost>>
              \/ ~prog /\ lost < MaxLost /\ lost' = lost + 1 /\ clean' = FALSE
                 /\ UNCHANGED fails
    /\ Then(<<>>)
    /\ UNCHANGED <<fifo, torn, overflow, pulse, event, started, fate, calm, tests>>

\* The FIFO fills for test.wait_ms milliseconds.
Wait ==
    /\ Calls("Wait")
    /\ IF chip.awake /\ Filling
       THEN /\ fifo' = IF fifo = 0 THEN 1 ELSE fifo
            /\ torn' = TRUE
       ELSE UNCHANGED <<fifo, torn>>
    /\ Then(<<>>)
    /\ UNCHANGED <<chip, overflow, pulse, event, cfg, started, fate, clean, calm, counters>>

\* The rest of get_st_biases: what came in is counted, read, and its sum is
\* divided by the count.  After a failure mpu_run_self_test tries once more,
\* then gives up and goes to restore.
BiasCounted ==
    /\ Doing("counted")
    /\ \/ /\ ReadFails
          /\ fifo' \in {0, fifo}
          /\ Then(IF Arg.tries > 1 THEN <<Bias(Arg.hw, Arg.tries - 1)>> ELSE <<>>)
          /\ UNCHANGED fate
       \/ /\ UNCHANGED fails
          /\ fifo' = 0
          /\ fate' = IF fifo = 0 THEN "sigfpe" ELSE fate
          /\ Then(IF Arg.hw THEN <<>> ELSE <<Bias(TRUE, 2)>>)
    /\ UNCHANGED <<chip, torn, overflow, pulse, event, cfg, started, clean, calm, lost, tests>>

\* pidctrl_init and the command "euler --self-test".
SelfTest ==
    /\ Idle
    /\ tests < MaxTests
    /\ tests' = tests + 1
    /\ work' = SelfTestWork
    /\ clean' = TRUE
    /\ UNCHANGED <<chipVars, event, cfg, started, fate, calm, fails, lost>>

\* From now on the daemon keeps up.
CalmDown ==
    /\ ~calm
    /\ calm' = TRUE
    /\ UNCHANGED <<chipVars, event, driverVars, clean, counters>>

Driver ==
    \/ Write \/ ReadCount \/ ReadStatus
    \/ DataReady \/ Corrupt \/ PacketFails
    \/ CallStep \/ BypassOff \/ Load \/ Wait \/ BiasCounted

ImuNext == Sample \/ PulseEnds \/ IntCb \/ Driver \/ SelfTest \/ CalmDown

ImuSpec == ImuInit /\ [][ImuNext]_imuVars

\* The chip samples and its pulses end; the event loop serves its events; the
\* driver goes on.
FairImuSpec ==
    /\ ImuSpec
    /\ WF_imuVars(Sample)
    /\ WF_imuVars(PulseEnds)
    /\ WF_imuVars(IntCb)
    /\ WF_imuVars(Driver)

-----------------------------------------------------------------------------
(* Properties.                                                              *)

ImuTypeOK ==
    /\ chip \in ChipState
    /\ fifo \in 0..Capacity
    /\ {torn, overflow, pulse, event, started, clean, calm} \subseteq BOOLEAN
    /\ cfg \in [dmp_on : BOOLEAN, int : {"off", "data", "dmp"},
                fifo : BOOLEAN, loaded : BOOLEAN, bypass : BOOLEAN,
                set : [Settings -> 0..255]]
    /\ \A i \in DOMAIN work :
           work[i][1] \in Registers
               \cup {"call", "set", "rate", "bypass", "read", "bias", "counted"}
    /\ fate \in {"alive", "sigfpe"}
    /\ fails \in 0..MaxFails
    /\ lost \in 0..MaxLost
    /\ tests \in 0..MaxTests

\* Whenever the driver rests, the chip does what the driver believes: it is
\* awake, and with dmp_on its DMP runs alone into the FIFO and pulses, else it
\* collects the raw data and pulses for them; and its ranges, filter and rate
\* are those the driver reckons with, with dmp_on those the fusion "works only
\* with".  A self-test, which writes other ranges behind the back of the cache,
\* brings all this back if it loses no write, whatever was lost before it and
\* whichever of its reads fail; the two lists of writes, of the self-test and
\* of the restoration, were made by hand.
ChipAsCached ==
    Idle /\ clean =>
        /\ chip.awake
        /\ chip.int = cfg.int
        /\ chip.set = cfg.set
        /\ cfg.dmp_on => chip.set = ForDmp
        /\ IF cfg.dmp_on THEN chip.ctrl = "dmp" /\ ~chip.raw /\ cfg.int = "dmp"
                         ELSE chip.ctrl = "fifo" /\ chip.raw = cfg.fifo

KeepsUp == calm /\ started /\ cfg.loaded /\ chip.prog /\ clean

\* With the program loaded and whole, and once the daemon keeps up, data keep
\* coming whatever state the catching up began in: no interrupt that came while
\* the FIFO was reset is waited for in vain, an overflow or a torn packet is
\* got over, and no self-test leaves the DMP off or divides by the count of
\* nothing.  And the packets that had piled up are worked off, although only
\* one is read per event and nobody looks at how many more there are: the two
\* edges of a pulse read two.  (A daemon that never keeps up may find an
\* overflow every time.)
DataKeepsComing ==
    \/ []<>~KeepsUp
    \/ []<><<DataReady>>_imuVars /\ []<>(fifo = 0)
=============================================================================
