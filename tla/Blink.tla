-------------------------------- MODULE Blink --------------------------------
(***************************************************************************)
(* Levels and blinks of src/raspd/gpio.c.  Each blink is a persistent timer  *)
(* that toggles the level the module has noted for its pins and frees itself *)
(* when it has counted to the end; blinks of a pin and the command gpio know *)
(* nothing of each other.  A pin function other than input and output is, to *)
(* a lamp, an input.                                                         *)
(***************************************************************************)
EXTENDS Integers, FiniteSets, FiniteSetsExt

CONSTANTS
    Pins,
    Slots,       \* bound: blinks pending at a time
    Counts       \* the counts of blinks; -1 blinks for ever

ASSUME SlotsAssumption == Slots \subseteq Nat /\ IsFiniteSet(Slots)
ASSUME CountsAssumption == Counts \subseteq Nat \cup {-1}

VARIABLES
    gpios,       \* gpios[]: the level noted, and whether the command set the pin up
    pin,         \* the hardware: an output or not, and the level written
    blinks,      \* struct blink by slot
    alone,       \* history: pins that nothing but their last blink has touched
    settles      \* history: the level at which that blink leaves them

lamps == <<gpios, pin, blinks, alone, settles>>

NoBlink == [pins |-> {}, count |-> 0, counted |-> 0]

\* simpledev of devres.lua makes the pins outputs, without the module
BlinkInit ==
    /\ gpios = [p \in Pins |-> [level |-> 0, initialized |-> FALSE]]
    /\ pin = [p \in Pins |-> [output |-> TRUE, level |-> 0]]
    /\ blinks = [s \in Slots |-> NoBlink]
    /\ alone = {}
    /\ settles = [p \in Pins |-> 0]

Pending == {s \in Slots : blinks[s] # NoBlink}
Blinking(p) == \E s \in Pending : p \in blinks[s].pins

\* register_timer with the first slot that is free
Register(ps, count) ==
    LET free == Slots \ Pending
    IN  /\ free # {}
        /\ blinks' = [blinks EXCEPT ![Min(free)] =
                         [pins |-> ps, count |-> count, counted |-> 0]]

\* gpio_blink_multi: on at once, then a toggle at every tick
GpioBlink(ps, count) ==
    /\ Register(ps, count)
    /\ gpios' = [p \in Pins |-> IF p \in ps THEN [gpios[p] EXCEPT !.level = 1]
                                ELSE gpios[p]]
    /\ pin' = [p \in Pins |-> IF p \in ps THEN [output |-> TRUE, level |-> 1]
                              ELSE pin[p]]
    /\ alone' = (alone \ ps) \cup {p \in ps : ~Blinking(p)}
    /\ settles' = [p \in Pins |-> IF p \in ps /\ count # -1 THEN (1 + count) % 2
                                  ELSE settles[p]]

\* counted is compared before it is incremented
MutCounted(b) == b.count # -1 /\ b.counted > b.count
Counted(b) == b.count # -1 /\ b.counted >= b.count

\* An endless blink does not count
CountOn(b) == IF b.count = -1 THEN b.counted ELSE b.counted + 1

Toggled(b) ==
    /\ gpios' = [p \in Pins |-> IF p \in b.pins
                                THEN [gpios[p] EXCEPT !.level = 1 - @] ELSE gpios[p]]
    /\ pin' = [p \in Pins |-> IF p \in b.pins
                              THEN [pin[p] EXCEPT !.level = gpios'[p].level] ELSE pin[p]]

\* cb_timer
Tick(s) ==
    LET b == blinks[s]
    IN  /\ b # NoBlink
        /\ \/ /\ Counted(b)
              /\ blinks' = [blinks EXCEPT ![s] = NoBlink]
              /\ UNCHANGED <<gpios, pin>>
           \/ /\ ~Counted(b)
              /\ blinks' = [blinks EXCEPT ![s].counted = CountOn(b)]
              /\ Toggled(b)
        /\ UNCHANGED <<alone, settles>>

\* The pins after --alt (of the command gpio), then --pull; "" is neither
Functions == {"", "o", "i"}

Altered(alt, ps) ==
    [p \in Pins |->
        IF p \in ps /\ alt # "" THEN [pin[p] EXCEPT !.output = alt = "o"] ELSE pin[p]]

\* gpio_main: --alt, --pull, and a blink if there are --count and --interval;
\* a blink of this command leaves the level as it is until the first tick
GpioCommand(ps, alt, level, count) ==
    LET pulled == level # -1
    IN  /\ gpios' = [p \in Pins |->
              IF p \in ps
              THEN [level |-> IF pulled THEN level ELSE gpios[p].level,
                    initialized |-> gpios[p].initialized \/ alt # "" \/ pulled]
              ELSE gpios[p]]
        /\ pin' = [p \in Pins |->
              IF p \in ps /\ pulled
              THEN [output |-> IF gpios[p].initialized \/ alt # ""
                               THEN Altered(alt, ps)[p].output ELSE TRUE,
                    level |-> level]
              ELSE Altered(alt, ps)[p]]
        /\ IF count = -1 THEN UNCHANGED blinks ELSE Register(ps, count)
        /\ alone' = alone \ ps
        /\ UNCHANGED settles

\* gpio_set and gpio_clr of a script: the register only
ScriptWrites(p, level) ==
    /\ pin' = [pin EXCEPT ![p].level = level]
    /\ alone' = alone \ {p}
    /\ UNCHANGED <<gpios, blinks, settles>>

-----------------------------------------------------------------------------
\* A blink that had a pin to itself leaves the lamp as the parity of its
\* count says, and the level noted with it (gpio.c 40-53, 74-84): the five of
\* the warning lamp (steer_car.lua 12) leave it off.
BlinkSettles ==
    \A p \in alone :
        ~Blinking(p) => pin[p] = [output |-> TRUE, level |-> settles[p]]
                        /\ gpios[p].level = settles[p]
=============================================================================
