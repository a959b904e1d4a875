# A TLA+ model of raspd

raspd is a daemon for a Raspberry Pi that drives model cars, tanks and a quadcopter. One
process with one libevent loop serves a TCP command line, runs Lua scripts, drives motors through
GPIO, hardware PWM, a DMA engine and SPI/I2C devices, and reads sensors. These modules model the
parts of it whose correctness depends on an order of events, on a count kept over many calls, or on
a second actor (the DMA engine, a signal, a client, a sensor), check them with TLC on small
instances, and prove the most important properties with TLAPS for every value of the constants.

Paths below are relative to the repository's root, `src/`.

## 1. The system

### Components, their state and their operations

| component | code | state it keeps | operations | modelled by |
|---|---|---|---|---|
| main, signals, shutdown | `raspd/raspd.c`, `raspd/event.c`, `raspd/modmisc.c` | which subsystems are initialised, in globals of theirs; the event base | start-up stages, `exit`, `terminate` (signal handler) | `Lifecycle` |
| command server | `raspd/raspd.c` 33-135, `raspd/module.c` | one `struct rb_root` of modules, one event per connection | accept, read, split, dispatch, reply | `CmdServer` |
| command lines | `lib/unix.c` 114-182 | none between calls; a pointer and two indices during one | `cmdline_split` | `CmdLine` |
| software PWM | `raspd/softpwm.c` | samples and control blocks shared with the DMA engine, `channel_mask`, `channel_data`, `initialized` | init, set_data, set_multi, stop, exit | `SoftPwm`, `Lifecycle` |
| stepper motor | `raspd/motor.c`, `raspd/luaenv.c` 514-537, `raspd/steer_car.lua` | coil index, angle, remaining pulses, a persistent timer, a Lua handler | new, command, undo, timer, delete | `StepMotor`, `PositionServo` |
| ultrasonic sensor | `raspd/ultrasonic.c`, `raspd/gpiolib.c` 175-216 | mode, `count`/`counted`, three timers, the time of the last rising edge | scope, timers, edge callback, delete | `Ultrasonic` |
| quadcopter | `raspd/quadcopter.c`, `raspd/pid.c` | PID sums and errors, throttles, targets, the last timestamp | IMU callback, `euler`, `throttle` | `Quadcopter` |
| hardware PWM | `raspd/pwm.c` | cached range and data per channel, gradual-change timers | set, up and down, gradual change | `Pwm`, in `Car` |
| H bridge | `raspd/l298n.c` | left and right speed, as gears or as signed values | gears up/down/brake, signed set and change | `HBridge`, in `Car` |
| GPIO and blinking | `raspd/gpio.c` | cached levels, blink timers | functions, levels, blink | `Blink`, in `Car` |
| Lua bindings | `raspd/luaenv.c`, `raspd/gpiolib.c` 175-216 | the Lua state, a table of handlers keyed by address and by pin, an env per timer and signal | timers, signals, their callbacks; one wrapper per device | `Callbacks`; the wrappers with their devices |
| car script | `raspd/steer_car.lua`, `raspd/devtree_car.lua` | whether it turns away | a measured distance, `automatic` | `Car` |
| motion sensor (IMU) | `raspd/inv_imu.c`, `inv_mpu/core/driver/eMPL/` | the chip's registers and FIFO, `st.chip_cfg` (what the driver believes of them), `hal.sensors` | set-up, interrupt, read, FIFO reset, self-test | `Imu`; its data are an input of `Quadcopter` |
| tank codes | `raspd/tankcontrol.c` | queue of codes | insert, send | not modelled |
| catnet | `catnet/` | red-black tree of connections | listen, connect | not modelled |
| client | `client/` | one connection | connect, send, read replies | its traffic, in `CmdServer` |
| vendored libraries | `libevent/`, `libbcm2835/`, `librf24/`, the rest of `inv_mpu/` | | | external, as raspd uses them |

### How they interact

Everything but the DMA engine and signals runs in callbacks of one event loop, so two callbacks
never interleave; what does interleave is

* the **CPU and the DMA engine**, over the samples of the software PWM, word by word;
* a **signal** and anything at all: `terminate` runs `exit` paths on top of whatever it interrupted,
  another `terminate` included, because `sa_mask` is empty;
* the **network**: the byte stream is cut where TCP likes, a client closes while replies are on
  their way;
* **sensors and the loop**: an edge makes a descriptor ready, the callback that reads the pin comes
  later, and the pin may have changed again;
* the **motion chip and its driver**: the chip samples and pulses its pin between any two transfers on the I2C bus; a
  failed read is seen, a lost write is not;
* **callbacks and their scripts**: the handler of a stepper motor that is done starts the next
  command before the timer's callback has returned, and the handler of a timer may ask for more timers, whose env malloc may put
  where an earlier one was freed;
* **commands and what they replace**: a timer in progress is given another angle, count or mode.

Shared state crosses component borders in four places: the event base (released while others still
hold events of it), the DMA memory (released under a running engine), the PWM channels (the H bridge
and the PWM commands write the same cached values), and the GPIO levels.

### What makes each component correct

* **softpwm**: at any interleaving the pulse on a pin is one the caller asked for; when no update is
  in progress samples, mask and block 0 agree with `channel_data`; a shutdown resets the engine with the pins
  low although signals start it over, except for pins whose switching off a signal abandoned.
* **lifecycle**: a process that ends by `terminate` has reset the engine; one signal over a starting or serving
  daemon, outside of functions that are not reentrant, releases nothing twice; the memory outlives the engine.
* **command server**: a client's stream runs in its order, a command that was read whole as it was sent, one that
  a read cut as its pieces; a reply is missing only for want of room or of a client; the daemon stops only when told to.
* **command lines**: the array the first pass sizes holds what the second pass writes; the arguments
  are the words of the line, as the note above `cmdline_split` has it, unless spaces come right after an escaped character.
* **stepper motor**: each command makes its pulses, no more, in order, through replacement, undo and
  rearming handlers; the rotor never slips; at rest no current flows.
* **ultrasonic**: no more triggers than asked for, every trigger pulse ends, each measure is of one
  pulse if the loop is prompt, an endless scope never stalls, a finite one ends, a deleted one triggers once more at most.
* **car**: once a client brakes, its gears and the wheels are right again, and once it sets a channel, the data are in a
  range, whatever scripts did before; the script turns from an obstacle until the way is clear, as far as its own writes go; a blink that has a lamp to itself leaves it off.
* **quadcopter**: throttles within limits, integrals that do not wind up, no time integrated over twice and all of it if
  no data were incomplete, attitude corrections that do not lift the craft.
* **callbacks**: an event has an env for as long as it is registered, and the env no other; the handler called is the
  one asked for; as many calls as asked for.
* **motion sensor**: whenever the driver rests the chip does what the driver believes; data keep coming and a backlog is
  worked off, over overflows, torn packets, failed reads, self-tests and a chip that was left running.

The 40 places where this code can go wrong in a way that a test hardly reaches are listed, each at its line, in
`PROJECT.json` under `hazards`, with the properties that watch them; a note says what of it they do not catch, where that is so.

## 2. Plan

Done, in this order: `SoftPwm`, `StepMotor` (over `PositionServo`), `Lifecycle`, `CmdServer`,
`Ultrasonic`, `Quadcopter`, `CmdLine`, `Pwm`, `HBridge` and `Blink` composed by `Car`, `Callbacks`, `Imu`, and the proofs of
`SoftPwm`, `StepMotor`, `Quadcopter`, `CmdServer`, `CmdLine`, `Callbacks`, `Lifecycle`, `Ultrasonic`, `Car` and `Imu`.

To do: `catnet`, a separate tool that raspd does not use.

## 3. The modules

### SoftPwm

`sample`, `dst0`, `channel_mask` and `channel_data` are the variables of `softpwm.c`; a word is the set
of pins whose bits are set. `cpu.at` is the program counter of `set_mask_data`: the mask (lines 212-215),
the destination of block 0 (220, 228), the first sample (221, 229), then one sample per step (222-227).
The engine (`DmaFetch`, `DmaMove`) loads a control block and then moves its word, as two steps, and any number of CPU steps may
come between. `Terminate` is the signal handler: it drops the update in progress where it
is and enters `softpwm_stop` (`StopChannel`, `StopSleep`, `StopReset`), whose loop over the channels is `left`. `udelay(cycle_time_us)` is
"as many samples have been moved as a cycle has". `lo`, `hi`, `duty`, `quiet` and `torn` are history:
they record which duties were in effect in the current cycle, and the pins whose switching off a signal abandoned (`torn`); they change nothing.

### StepMotor and PositionServo

`pidx`, `angle`, `remain` and `pending` are `struct stepmotor_dev` and its event; `coils` the pins, `handler` and
`direction` the script's. `cb_timer` is `Tick` or, for the pulse that finishes, `LastTick`, which runs the
handler inside the same step as the code does. The rotor is external: it rests where the field of the coils points, and may go either way when
the field is opposite. `PositionServo` is what a caller is promised: a position that moves monotonically to a goal, done exactly there.
`ServoSpec` states that `StepMotor` implements it under the mapping `goal <- Goal, busy <- pending, again <- Swings`.

### Lifecycle

`main` walks the stages of `Startup` (raspd.c 229-366; stages that differ in nothing below are merged), any of
`MayFail` returns 1; `LoopExit` leads to `MainExit` (374-380); `Signal` pushes a `terminate` (138-152) on the
stack `handlers`, whatever runs, and notes whether it came `inside` a function that is not reentrant (malloc, Lua, libevent). `Release` is one call of an exit path. No release function forgets
what it released, so a second call is undefined behaviour: it goes on (`HandlerReleases`), or it raises a signal of its own (`Fault`). A handler over
a function that is not reentrant may do all of that, or wait for ever (`HandlerSticks`), until the process ends (`Broken`): nothing in the model promises that a signal ends it.
`Outcomes` has the two ways `devres` can leave less than it should: the script's error is only logged, and `softpwm_init` that fails late unmaps memory whose pointers it keeps.

### CmdServer

One `stream` per client, kept whole, with two cursors: what the network has `delivered` and what `cb_recv` has `taken`. A token is a
stretch of it, so that a read may end inside a command and whatever stands there is run, arguments and all: of `lua to exit` cut before its last word the rest runs as `exit`, as `pwm --set 5` would of
`pwm --set 500`. `Receive` is the read of `cb_recv` with the `strtok_r` of line 47 (`Tokens`) and the NUL that overwrites the last symbol of a full
buffer (`Kept`); `Dispatch` is one token: dispatch, and a write whose result nobody looks at; `Return` ends the
callback. `ends` and `lost`, where reads ended and where a buffer had no room, are history. Clients connect, send, read replies and close at any time; closing with replies unread resets
the connection, and writing to a reset connection raises SIGPIPE, hence `terminate`.

### CmdLine

The second pass of `cmdline_split` as a machine over positions of the line: `NextWord`, `Copy`, `Escape`, `EndWord`
are the iterations of its loops, `Starts` what the first pass counts. `ArgsAreWords` does not follow the walk: `Escaped`, `Parts` and `Copied` are the
note of lines 106-111 over positions (words are parted by whitespace that is not escaped), and `NoneSwallowed` names the lines where the code does something else.

### Ultrasonic

`ev_timer`, `ev_delay`, `ev_trig_done` say which timers are pending, `count`, `counted` and `immediate` are the fields. The sensor
answers a trigger with a rising and a falling edge; `edge` is the kernel's, `active` the loop's knowledge of it, and
`EchoHigh`/`EchoLow` read the level the pin has by the time the callback runs. `prompt` chooses, once, between a loop that handles each
edge before the next and one that may be late. Distances are not modelled; which pulse a time was taken of is.

### Quadcopter

`imu_ready_cb` is `ImuDropped` or `ImuReady`; `Output` and `Updated` are `pid_update`. A double is a multiple of `1/Scale`; adding one to an `int`
throttle drops the fraction (`Added`). The clock of the day may say any of `Times`, forwards or backwards; a
timestamp is what an unsigned count that wraps at `ClockRange` keeps of it (`Stamp`). `first`, `latest`, `given`, `steady` and `whole` are history.
The altitude stage is left out: `get_altitude_from_ultrasonic` (luaenv.c 367-374) always returns -1, so
the code never reaches it.

### Car, over Pwm, HBridge and Blink

`Pwm` has `channels[]` and the registers `hw`; `PwmSet` is `pwm_set`. A command names several pins; it is modelled by the channels
they belong to, and two pins of one channel are two commands in a row. A gradual change never makes a step: `__pwm_gradual` does not store its count, so `cb_timer` removes
the timer at its first tick (`GradualTick`). `HBridge` extends `Pwm` because the bridge writes data of the same channels: `Gear` is any of the ten commands, `Set` and `Change` the calls of
scripts, which share `left_speed` and `right_speed` with another meaning. `Blink` has `gpios[]`, the pins and the pending blinks, a slot each. `Car` composes them:
`Measured` is `ultrasonic_done` for one distance, `Automatic` is `automatic()`, the other actions are clients and other scripts. `by`, `astray`, `odd`,
`alone`, `settles`, `near` and `restarted` are history.

### Callbacks

`asked` is the history of requests; a request is known by its place in it, and so is the handler that came with it. `env` says which
request an address of the heap serves and its `counted`; `handlers` is the Lua table, `events` what libevent has registered. `Timeout` and
`GpioSignal` are `lr_timeout` and `lr_gpio_signal`: the handler is stored first, then the event is registered or, at any stage of
`bcm2835_gpio_signal`, refused. A callback is three steps: `TimeoutWrap` or `GpioSignalWrap` deletes a spent event or calls the handler; the handler
may make requests; `Return` is what follows `lua_pcall`. `Panic` is `luaL_checkinteger` on a result that is no number, outside of any pcall.

### Imu

`chip`, `fifo`, `torn` and `overflow` are the chip; `cfg` is `st.chip_cfg`. The driver runs in one thread but the chip does not wait
for it, so what the driver has still to do is kept as `work`, a sequence of transfers and calls; a call is replaced by its body when its turn comes (`Expand`,
`SetInt`, `ConfigureFifo`, `DmpOn`, `DmpOff`), which evaluates `st.chip_cfg` then, as the code does. `Write` arrives or is lost (`i2c_write` returns 0
either way), a read fails and is seen. `Sample` puts a packet into the FIFO and pulses the pin, whose two edges are both events
(`EDGE_both`, inv_imu.c 396). `IntCb` reads one packet: the count, the status if the FIFO is more than half full, the data. `calm` is the daemon from when on it keeps up,
`clean` says that no write was lost since the last configuration began.

The chip is external, and two things are assumed of it: a quaternion that is read across two packets never has length one (the driver's own
check rests on that), and `BIT_FIFO_RST` empties the FIFO. The ranges of gyroscope and accelerometer, the filter and the rate divider are kept as register
values, in the chip (`chip.set`) and in the cache (`cfg.set`): `Set` and `SetSampleRate` skip what the cache already holds, the self-test writes its own
past the cache, and `Forget` is the assignment of 0xFF that keeps the restoration from being skipped. The polarity and the latching of the pin, the standby bits and the offset
registers (which no configuration of raspd writes) are left out. `invmpu_init` when the pin's signal cannot be registered, which leaves the chip alone, is left out too.

## 4. The runs

| run | instance | what it shows |
|---|---|---|
| `soft_pwm` | 2 pins, 3 samples, data -1, 0, 1, 5, 2 signals | pulses are whole at every interleaving (`PulseWithinBounds`), samples agree with data, the wave settles; a shutdown, however often it is started over, leaves pins low (`StopLeavesLow`) |
| `soft_pwm_zero` | the same, no signals | **violated**: duty 0 for the last channel at full duty leaves its pin high |
| `step_motor` | 16 pulses a turn, table of eight, angles -45, 0, 45, 225, swing of 180, 3 commands | the rotor follows every pattern, the swing keeps its centre; implements `PositionServo` |
| `lifecycle` | all resources, 3 signal numbers, 2 arrivals | every start-up failure and every point of interruption: a process that `terminate` ends has its engine reset, even when something was released twice, which one signal over a starting or serving daemon never does outside of functions that are not reentrant (`TerminateSound`); what main returns with, and the memory outlives the engine (`MainReturnsClean`) |
| `lifecycle_exit` | the same, no signals | **violated**: the command `exit` quits with the engine running |
| `cmd_server` | two clients, streams of 6 and 2 symbols, a command of three words and `exit`, buffer of 4 symbols, room for 1 reply | streams run in order, cut only where reads end, whole commands as sent (`RunsAsRead`); pairing of replies, and no stop but for a reason (`RepliesPaired`) |
| `ultrasonic` | counts -1, 0, 1, 2, three calls | triggers bounded and ended, measures paired, chains alive, counts end |
| `quadcopter` | three sets of data, one command, times 3 to 9 in any order, a count that wraps at 4 | limits, anti-windup, lift; no time is integrated over twice, and all of it if no data were incomplete (`TimeAddsUp`) |
| `car` | 2 gears of 2 units, range 5 rounded to 4, speeds -5 and 3, pwm ranges 0 and 6 and steps -4 and 4, distances 20, 21, 30, 31, two blinks at a time; three commands about wheels or two about pins | gears, data and cached ranges after scripts and other commands (`CountsReturn`), obstacles, lamps |
| `callbacks` | 2 addresses, 1 pin, counts -1 to 2, 3 requests | envs and events, handlers, counts of calls |
| `imu` | FIFO of 4 packets, 2 failing reads, 1 lost write, 2 self-tests | the chip does what the driver believes, with the ranges and the rate the fusion needs; data keep coming and the backlog is worked off |
| `cmd_line` | lines up to 6 of space, backslash and two letters | the arguments fit, and are the words of every line without spaces right after an escaped character |

**Why the bounds are enough.** Three samples have a first block, whose destination changes, a middle and a last one; two pins share words;
data take both ends, an inner value and one beyond the range. Two signals are a handler and the handler that interrupts it; a third nesting level would run the same steps again over resources that are all in the same
three states. 225 degrees is more than one round of the coil table, three commands are one in progress, one that replaces it and one
after. The two commands of the first client are longer than the buffer, so that both the cut, before, inside and after the last word of the
first one, and the overwritten last symbol occur. Three calls of `ultrasonic_scope` are a mode, another over it, and a third over what the first left behind. Three
sets of IMU data at times 3 to 9 over a count of four include the wrap, gaps of more than a turn, a clock set back, a dropped set and an incomplete one; gains saturate both stages within
two. Three commands to the wheels go from rest to the last gear and beyond it, or mix both interfaces and `pwm` on one side; they are not combined with commands to the pins,
which share no state with them. Three requests over two addresses: one event, one that is asked for while it runs, and a third
at an address that was freed. A FIFO of four has a backlog on both sides of the half at which the driver looks for an overflow; a failing read may come
in each pass of the self-test, and a second self-test follows one that went wrong.
The pwm range 0 is the one that a channel's cache starts with, and a step of -4 takes data below 0; negative ranges are left to the proofs.
The warning lamp blinks once instead of five times: odd, too. Lines of six hold two words with an escape in each.

**Fairness.** `Ultrasonic`: pending timers expire, the sensor answers a trigger (its data sheet ends every echo after 38 ms), the loop sees ready
descriptors. `Imu`: the chip samples at its rate and ends its pulses, the loop serves the pin's event, the driver finishes what it began (it
waits for nothing but the bus); that the daemon keeps up from some time on is not assumed but a premise of `DataKeepsComing`. The other runs check safety only.

**Deadlock** is not checked where a run ends by its own bounds (calls, signals, lines, commands and requests are bounded, the process may end); it is in `car`.

### What the violated properties quote

Each is listed under `findings` with the comment it contradicts. More observations are not checked by a run:

* `pid.c` 40-42 differentiates the error, so a new target alone kicks the output; one call shows it.
* `raspd.c` 53-59 writes the reply to a non-blocking socket and ignores the result, so a client that does not read loses replies; `RepliesPaired` states
  exactly when.
* `unix.c` 156-159 skips the spaces after any escaped character but a backslash, so `\a b` is one word `ab`, where the note above the function (`unix.c` 106-111)
  has words split on whitespace. `ArgsAreWords` states the note's words and leaves out the lines where this happens (`NoneSwallowed`); without that premise it fails.

* `raspd.c` 163: `sa_mask` is empty and `euler_exit` frees `file_cal` without forgetting it, so a signal during an exit releases it
  twice. The `abort` of that is a signal, too: another `terminate` runs over the first and does reset the engine, unless it fails likewise, which kills the process with the engine
  running; `TerminateSound` is about every end but that one.
* `raspd.c` 141-150: `terminate` calls free, `lua_close` and libevent, none of which a handler may call. A signal that came inside one of them may leave it waiting for ever; no
  property says that a signal ends the process.
* `raspd.c` 250-366: a stage that gives up returns 1 and releases nothing of the earlier ones, the engine included; `MainReturnsClean` asks for nothing there but that the memory outlives it.
* `softpwm.c` 346: a channel whose switching off a signal abandoned has data 0 already, so `softpwm_stop` skips it and its pin may stay high (`torn`).
* `l298n.c`: a gear command after a signed speed multiplies that speed by `step`, and `l298n_lup` after a negative one reverses; `CountsReturn` holds from the next brake on (`astray`).
  `l298n_set` skips a side whose speed is already the one asked for, even when a client's `l298n_rdown` has turned its wheel since: the car then drives the other way. `TurnsFromObstacle` is about
  wheels that the script wrote last, so it does not speak of that.
* `gpio.c` 51: distances come every 500 ms and a warning lasts five ticks of 300 ms, so warnings overlap, share one level and may leave the lamp
  on; `BlinkSettles` is about blinks that have their pin to themselves.
* `pwm.c` 79-86: counting is clamped at one end only. Counting down after a smaller range was set may leave more data than the range, a negative step counts down with `--up` to below 0, and a negative
  range turns the clamp of `--set` around; `CountsReturn` names the channels that were counted so (`odd`) and holds again from the next `--set`.
* `pwm.c` 74: a range of 0 asked for first is what the cache starts with, so it is never written, and the channel keeps the range the bridge gave it; `CountsReturn` names that case.
* `pwm.c` 145: gradual changes and breathing never make a step.
* `steer_car.lua` 31: `automatic()` goes straight on whatever obstacle is known, until a measure of 20 cm or less.

* `raspd.c` 38: `read_cmdexec` splits what one read returned and keeps nothing for the next, so a command that the stream cuts runs as two,
  `pwm --set 5` for `pwm --set 500`, although the protocol is "cmd1; cmd2; cmd3; ..." (raspd.c 191); `RunsAsRead` promises only the commands that a read took whole.
* `quadcopter.c` 334: the time of an incomplete set becomes the previous one, so the stages never integrate over what came before it; `TimeAddsUp` asks for all of the time only if every set was complete.
* `ultrasonic.c` 231: `interval < 0`, "delete" (218), removes `ev_timer` only; the `ev_delay` of the immediate mode triggers once more.
  `TriggersBounded` counts it.
* `luaenv.c` 68: the test for an endless timer looks at `counted`, which is never -1, so a timer with count -1 is removed at its first tick; `CallsExact` states both
  counts of -1.
* `luaenv.c` 303: a second `gpio_signal` for a pin replaces the handler of the first, even when it is then refused; `OwnHandler` states it.
* `luaenv.c` 75, 271: every callback leaves the table on the Lua stack. `luaenv.c` 82: a handler that returns no number raises
  an error outside of any pcall, and Lua exits with the DMA engine running; the handler of `voice_sensor`, `devtree_car.lua` 54-57, is such. `luaenv.c` 125: `lr_timeout`
  returns 0 for a timer it could not register. The descriptor of a signal's value file is never closed.
* `platform_bcm2835.c` 78: `i2c_write` returns 0 for a write that failed. Lost in `mpu_reset_fifo`, the enabling of the interrupt silences the sensor until a
  self-test; lost in the self-test, `fifo_en` leaves no packet to divide by (inv_mpu.c 2175), which raises SIGFPE and so ends the daemon by `terminate`. Both are what `clean` excludes.
* `inv_imu.c` 330: `more` is ignored; a backlog is worked off only because both edges of a pulse are events. A daemon that never keeps up may find an
  overflow at every event and never deliver again.
* `inv_imu.c` 612: `invmpu_exit` does not stop the chip.

## 5. The proofs

All for every value of the constants that the named assumptions allow.

**SoftPwmProofs** (`NrSamplesAssumption`, `DataAssumption`, `MaxTerminateAssumption`). `SamplesMatchData` holds only between updates, so the
inductive invariant says for every value of the program counter which words already have the new and which still the old
pattern. `PulseWithinBounds` needs, besides, what the engine has latched and moved so far against the words behind it, and that `lo` and `hi` bound both the old and the new duty
during an update. `WavesAreSteady`: once a whole cycle has moved since the last write, an enabled pin is high exactly while fewer blocks than its duty have moved in this cycle, and one that some block clears is low (`WaveInv`).
`StopIsLow`: while the shutdown clears one channel after the other (`left` are the others), a pin whose update was not torn is low as soon as its cleared words have been moved once; only
block 0 sets pins, so a pin without a word there stays low (`PinInv`, `FirstOnly`). The invariant is per pin, so that nested signals, each of which begins the loop over the channels anew, do not disturb it.

**StepMotorProofs** (`FlagsAssumption`, `StepsAssumption`, `AnglesAssumption`, `MaxCommandsAssumption`). `IndexCountsPulses` is inductive with the types and carries `RotorNeverSlips`: the next pattern is a neighbour of the
last, so the field never jumps. `ImplementsServo`: `Tick` maps to `Advance` or a stutter, `LastTick` to `Arrive`, a command to `Command`,
undo and delete to `Cancel`. `SwingIsStable` rests on `PulsesOf(-a) = PulsesOf(a)`.

**QuadcopterProofs**, about `Quadcopter` (gains, limits, clock, reach and reading assumptions) and its sensor `Imu` (`CapacityAssumption`, `BoundsAssumption`), whose definitions have names of their own (`ImuSpec`, `ImuTypeOK`) so that
one module extends both. `TypeCorrect`: throttles within limits for all readings. `IntegralsNeverWindUp`: the invariant adds that the last errors are
bounded (`ErrorsBounded`): unsaturated output bounds the integral through the errors, saturated output clears it. `LiftIsKept` is an action property: the mix sums to 0,
truncation loses less than one unit per ESC, of which the four together lose at most three. `TimeIsKept` (with `TimesAssumption`): the difference of two timestamps is the time between them modulo the count (`StampsApart`), hence never more than that time while the clock is not set back, and the same if they are at most
half a turn apart (`ElapsedFacts`); the invariant (`TimeInv`) adds that the previous timestamp is that of the last data, and that it is not the 0 that stands for none.

`ChipIsAsCached` is about a driver at rest and says nothing of one under way, which may have dozens of transfers before it. Its invariant, `ImuInv`, therefore reads `work` as a sequence of steps of a few kinds, with five predicates over
any two kinds: none of one is left (`None`), one comes after all of another (`Ahead`), none comes after one of another (`Order`), each is followed by another (`Follows`) or led by one (`Led`); each is computed from a head
and a tail, and from two parts (`HeadLaws`, `CatLaws`), without induction over the sequence. `CfgInv` is the driver: what needs the DMP off comes before it is switched on or behind where it is switched off (`DmpInv`), the rate and the filter of the fusion come
with it (`RateInv`), a setting that is given up is set again (`KnownInv`), and the interrupt is off whenever `dmp_on` changes (`IntInv`). `ChipInv`, as long as no write was lost, is the chip: the FIFO is set up as believed, or will be,
or its reset comes after all that upsets it (`ModeInv`), and likewise for the power (`AwakeInv`) and for each setting (`RegInv`). With `work` empty each "or will be" is void. There is a lemma for each transfer and call (`WorkWrite`, `WorkReset`, `WorkDmpOn`, ...),
and one for a self-test, which sets everything up from anything (`WorkTest`). `ImuTypes` follows from the same invariant.

**CallbacksProofs** (`KeysAssumption`, `CountsAssumption`, `MaxRequestsAssumption`). The invariant adds to `EnvsServe` that the table has the handler of every env
that serves (`HandlersKept`) and that `counted` is the number of calls and at most the count (`CountsKept`). An address is given out only when its env is free, and then its entry is overwritten before anything can read it;
no other request writes that entry, since no address is a pin. `CallsAreExact` follows at the step that deletes a spent event: what is not below the count and not above it is the count.

**LifecycleProofs** (`SignalsAssumption`, `MaxSignalsAssumption`). The three properties are about what is held at the end of a path, so the invariant says for
every step of a path what has been released by then (`NotHeld`, over `Freed` and `MainFreed`). It holds for each of the nested handlers on its own, since nothing is acquired under a handler. `OneEach` counts the
handlers: as many as signals received, and one more after a fault. From it follows that a second release takes a second signal, an exit of main's own, a failed
`softpwm_init`, or a signal inside a function that is not reentrant (`OneSound`); a handler that is stuck releases nothing more. Which stage comes after which is computed once, in lemmas about the two paths (`AfterTerminate`, `AfterMainExit`, `AfterStartup`).

**UltrasonicProofs** (`CountsAssumption`, `MaxCallsAssumption`). `TriggersAreBounded` is not inductive: the invariant `Paid` has two bounds, by what was counted and by the count, on the triggers made and the one
that is delayed, with an allowance for the first trigger of the immediate mode and for the one left over. `MeasuresAreOfPulses` counts the calls of `echo_signal` that are due or will be, of which a pulse has two at most, and
one if the loop is prompt (`Echoes`, `Prompt`). `ChainStaysAlive` is inductive together with `Lowers`, the timer that ends a trigger.

**CarProofs** (the assumptions of `Pwm`, `HBridge`, `Blink` and `Car`: ranges, data and steps are any integers; the gears fit into the range; counts are at least -1; speeds are integers and the script's
positive; the lamps are pins). Every command touches the wheels, the lamps or the script, and the invariant is in three parts likewise. `WheelInv` says for each side what its last interface believes (`Follows`), that a side without a signed speed since a brake has a gear (`Geared`), and of each
channel that its cached range is the written one or a 0 never written, and that data neither a negative step nor a negative range made are in some range that was asked for (`Believed`). `CountsComeBack` follows from the three. `LampInv` says that a pin with its blink to itself is lit as noted, and that the toggles left have the parity that brings it to where it settles.
`ScriptInv` says that a side the script wrote last has the speed that it wants now, which `l298n_set` may therefore leave unwritten. `TurnsAway` follows from the first and the third.

**CommandProofs**, about both `CmdServer` (`BoundsAssumption`, `MaxSendAssumption`, `ClientsAssumption`, `CommandsAssumption`) and `CmdLine` (`MaxLineAssumption`, `CharsAssumption`), whose
definitions have names of their own (`SplitSpec`, `LineTypeOK`) so that one module extends both. `StreamsRunAsRead` is nearly inductive, since a token is
a stretch of a stream that is kept: the invariant adds that reads end within what was read, the last one at its end, and that what is lost is where some read ended (`Reads`). Its step is a read (`RanReceive`): the tokens of the part that was read begin and
end at separators, at its ends, or before the lost symbol (`TokensAre`), lie behind all earlier ones, and every whole command of it is one of them; a command sent behind the cursor changes nothing (`RanSend`). `Tokens` takes the ends of the
tokens in their order; that a finite set of numbers has one is shown by the ranks of its members (`InOrderIs`), not by induction. `RepliesArePaired` is inductive with the types: what a command answers before the loop takes the next token goes to the client that is being served.
`ArgsAlwaysFit`: every argument began at a different position in `Starts` (`begins`), since a word begins only after a space or at the start of the line, which the first pass counts too; an escape can only join what it
counted apart. `ArgumentsAreWords`: `Escaped` looks back over any number of backslashes, the pointer never does; that the two agree follows from one step to the next (`EscapedAfter`), without induction over the line. The
invariant (`WordInv`) says that the pointer rests on no escaped character and stops between words only where they part, that the arguments began where the words behind it begin, and that each is what its word spells so far.
That is proved of the parts the code makes (`Parted`, which passes over the spaces at lines 156-159) on every line; on a line without such spaces they are the parts of the note (`PartedAsPromised`).

**Model-checked only.** Liveness (`CountEnds`, `DataKeepsComing`) is beyond the prover.

## 6. Not modelled

Hardware set-up (clock, PWM and DMA registers, pagemap), which is straight-line code; the numbers a distance or an IMU reading is computed from; the tank's transmitter,
which is dead code: `tank_new` always creates the event, so `insert_code` (tankcontrol.c 163) never sends the first code of an idle transmitter and the sender is never called;
`daemonize` and socket helpers; `bcm2835_gpio_poll`, which nothing calls; the wrappers of SPI and I2C in `luaenv.c`, which pass arguments on; catnet, a test tool that no part
of raspd uses; of `inv_mpu/` everything that raspd does not reach (compass, MPU6500 and 9250, low-power accelerometer mode, motion interrupt, the sensor fusion library) and what it reaches that has no state shared with FIFO and interrupt; the
other vendored libraries, libevent, libbcm2835 and librf24 (which raspd does not link), whose behaviour at their interface is in the external definitions of the modules; the Android user interfaces. These libraries are most of
the lines of the repository.
