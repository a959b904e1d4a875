------------------------------ MODULE Lifecycle ------------------------------
(***************************************************************************)
(* How raspd starts and how it quits (src/raspd/raspd.c): main acquires the  *)
(* daemon's resources stage by stage, any stage may give up with `return 1', *)
(* and the main loop ends with the command "exit"; every signal that can be  *)
(* caught runs `terminate', which releases the resources itself and calls    *)
(* exit, on top of whatever it interrupted -- main or another `terminate',   *)
(* since sa_mask is empty and blocks no other signal.                        *)
(*                                                                          *)
(* None of the release functions forgets what it released, so running one    *)
(* twice is undefined: it goes on, or it raises SIGABRT or SIGSEGV.  Nor may *)
(* a handler call them at all (free, lua_close, libevent) when the signal    *)
(* came inside malloc, the Lua state or libevent: then a release may also    *)
(* wait for ever for what it interrupted.                                    *)
(***************************************************************************)
EXTENDS Integers, Sequences, SequencesExt

CONSTANTS
    Configured,  \* the optional resources the Lua configuration asks for
    Signals,     \* signals other processes and the terminal send
    MaxSignals   \* bound: how many of them arrive

\* The DMA engine, its mapping, the IMU's event, and the calibration file name.
Optional == {"dma", "dma_map", "ev_int", "file_cal"}
Resources == Optional \cup {"lua", "evbase"}

ASSUME ConfiguredAssumption ==
    /\ Configured \subseteq Optional
    /\ "dma" \in Configured <=> "dma_map" \in Configured
ASSUME SignalsAssumption == "fault" \notin Signals
ASSUME MaxSignalsAssumption == MaxSignals \in Nat

VARIABLES
    main,     \* where main is: a stage of Startup or MainExit, or "loop"
    handlers, \* the running `terminate's, the innermost last, each with whether
              \* its signal came inside a function that is not reentrant
    res,      \* what became of each resource
    fate,     \* "alive", or how the process ended
    received, \* how many signals arrived
    faulted   \* history: something was released, or used, after its release

vars == <<main, handlers, res, fate, received, faulted>>

-----------------------------------------------------------------------------
\* main, lines 229-366; the stages in which nothing below differs are merged.
Startup == <<"sighandlers", "luaenv", "daemonize", "bcm2835", "early_init",
             "event", "devres", "stdin", "listen", "modules">>

\* The stages with a `return 1', or a Lua os.exit(1) (devres.lua 11).
MayFail == {"daemonize", "bcm2835", "early_init", "event", "devres", "stdin",
            "listen", "modules"}

Acquires(s) ==
    CASE s = "luaenv"  -> {"lua"}
      [] s = "event"   -> {"evbase"}
      [] s = "devres"  -> {"dma", "dma_map", "ev_int"} \cap Configured
      [] s = "modules" -> {"file_cal"} \cap Configured
      [] OTHER         -> {}

MutMainExit == <<"modexec_exit", "event_exit">>
MutNoReset == <<"modexec_exit", "invmpu_exit", "softpwm_exit", "luaenv_exit",
                "event_exit">>
\* main, lines 374-380, and terminate, lines 141-150.
MainExit == <<"modexec_exit", "luaenv_exit", "event_exit">>
Terminate == <<"modexec_exit", "invmpu_exit", "softpwm_stop", "softpwm_exit",
               "luaenv_exit", "event_exit">>

\* What a step of the exit paths releases, and what it needs to do so; each
\* checks that the resource was acquired and none that it is still there.
Releases(s) ==
    CASE s = "modexec_exit" -> "file_cal"   \* euler_exit
      [] s = "invmpu_exit"  -> "ev_int"
      [] s = "softpwm_stop" -> "dma"
      [] s = "softpwm_exit" -> "dma_map"
      [] s = "luaenv_exit"  -> "lua"
      [] s = "event_exit"   -> "evbase"

Needs(s) ==
    CASE s = "invmpu_exit"  -> {"ev_int", "evbase"}  \* event_del on the base
      [] s = "softpwm_stop" -> {"dma_map"}           \* its registers
      [] OTHER              -> {Releases(s)}

Sound(s) == \A r \in Needs(s) : res[r] # "released"

After(path, s) ==
    LET i == CHOOSE n \in DOMAIN path : path[n] = s
    IN  IF i < Len(path) THEN path[i + 1] ELSE "end"

-----------------------------------------------------------------------------
Init ==
    /\ main = Head(Startup)
    /\ handlers = <<>>
    /\ res = [r \in Resources |-> "none"]
    /\ fate = "alive"
    /\ received = 0
    /\ faulted = FALSE

Running == fate = "alive" /\ handlers = <<>>

Take(rs) == [r \in Resources |-> IF r \in rs THEN "held" ELSE res[r]]

\* What a stage that is cut short may have acquired: softpwm_init maps the
\* registers and starts the engine, or does neither.
Parts(s) == {part \in SUBSET Acquires(s) : "dma" \in part <=> "dma_map" \in part}

\* What a stage may leave when main goes on to the next: main only logs an error
\* of the devres script, so any part of it may be missing; and a softpwm_init
\* that fails late unmaps what it mapped and keeps the pointers (line 423).
Outcomes(s) ==
    IF s # "devres" THEN {Take(Acquires(s))}
    ELSE {Take(part) : part \in Parts(s)} \cup
         {[Take(part \ {"dma"}) EXCEPT !["dma_map"] = "released"] :
             part \in {w \in Parts(s) : "dma" \in w}}

Start ==
    /\ Running
    /\ main \in ToSet(Startup)
    /\ res' \in Outcomes(main)
    /\ main' = IF main = Last(Startup) THEN "loop" ELSE After(Startup, main)
    /\ UNCHANGED <<handlers, fate, received, faulted>>

\* A stage gives up, perhaps half-way; nothing is released.
StartFails ==
    /\ Running
    /\ main \in MayFail
    /\ \E part \in Parts(main) : res' = Take(part)
    /\ fate' = "return 1"
    /\ UNCHANGED <<main, handlers, received, faulted>>

\* The command "exit" ends the main loop (exit_main, rasp_event_loopexit).
LoopExit ==
    /\ Running
    /\ main = "loop"
    /\ main' = Head(MainExit)
    /\ UNCHANGED <<handlers, res, fate, received, faulted>>

\* One step of an exit path that finds what it needs, or goes on regardless.
Release(s) ==
    /\ res' = [res EXCEPT ![Releases(s)] = IF @ = "held" THEN "released" ELSE @]
    /\ faulted' = (faulted \/ ~Sound(s))

MainReleases ==
    /\ Running
    /\ main \in ToSet(MainExit)
    /\ Release(main)
    /\ main' = After(MainExit, main)
    /\ UNCHANGED <<handlers, fate, received>>

MainReturns ==
    /\ Running
    /\ main = "end"
    /\ fate' = "return 0"
    /\ UNCHANGED <<main, handlers, res, received, faulted>>

Top == handlers[Len(handlers)]

\* Whether a signal now would come inside such a function: anywhere in main, and
\* in every step of a `terminate' but softpwm_stop.
MayBeInside == IF handlers # <<>> /\ Top.at = "softpwm_stop" THEN {FALSE} ELSE BOOLEAN

\* Enter `terminate' for a signal; while one handles it, it is blocked.
Enter(sig) ==
    \E inside \in MayBeInside :
        handlers' = Append(handlers, [sig |-> sig, at |-> Head(Terminate),
                                      inside |-> inside])
MutBlocked(sig) == FALSE
Blocked(sig) == \E i \in DOMAIN handlers : handlers[i].sig = sig

Signal(sig) ==
    /\ fate = "alive"
    /\ main # "sighandlers"
    /\ received < MaxSignals
    /\ ~Blocked(sig)
    /\ received' = received + 1
    /\ Enter(sig)
    /\ UNCHANGED <<main, res, fate, faulted>>

HandlerReleases ==
    /\ fate = "alive"
    /\ handlers # <<>>
    /\ Top.at \in ToSet(Terminate)
    /\ Release(Top.at)
    /\ handlers' = [handlers EXCEPT ![Len(handlers)].at = After(Terminate, @)]
    /\ UNCHANGED <<main, fate, received>>

\* A handler stays over what its signal interrupted until the process ends.
Broken == \E i \in DOMAIN handlers : handlers[i].inside

\* The innermost handler is in a step that what was interrupted may spoil; exit
\* (line 151) is one.
Unsafe == Broken /\ Top.at \notin {"softpwm_stop", "stuck"}

\* The other outcome of using what was released, or what was interrupted half-way:
\* a signal of its own, which kills the process when it comes while one is
\* being handled.
Fault ==
    /\ fate = "alive"
    /\ \/ handlers = <<>> /\ main \in ToSet(MainExit) /\ ~Sound(main) /\ faulted' = TRUE
       \/ /\ handlers # <<>> /\ Top.at \in ToSet(Terminate) /\ ~Sound(Top.at)
          /\ faulted' = TRUE
       \/ Unsafe /\ UNCHANGED faulted
    /\ IF Blocked("fault") THEN fate' = "killed" /\ UNCHANGED handlers
                           ELSE Enter("fault") /\ UNCHANGED fate
    /\ UNCHANGED <<main, res, received>>

\* A lock that the interrupted function holds is never given back; another
\* signal can still come.
HandlerSticks ==
    /\ fate = "alive"
    /\ Unsafe
    /\ handlers' = [handlers EXCEPT ![Len(handlers)].at = "stuck"]
    /\ UNCHANGED <<main, res, fate, received, faulted>>

HandlerExits ==
    /\ fate = "alive"
    /\ handlers # <<>>
    /\ Top.at = "end"
    /\ fate' = "exit 1"
    /\ UNCHANGED <<main, handlers, res, received, faulted>>

Next ==
    \/ Start
    \/ StartFails
    \/ LoopExit
    \/ MainReleases
    \/ MainReturns
    \/ \E sig \in Signals : Signal(sig)
    \/ HandlerReleases
    \/ Fault
    \/ HandlerSticks
    \/ HandlerExits

Spec == Init /\ [][Next]_vars

-----------------------------------------------------------------------------
(* Properties.                                                              *)

Handler == [sig : Signals \cup {"fault"}, at : ToSet(Terminate) \cup {"end", "stuck"},
            inside : BOOLEAN]

TypeOK ==
    /\ main \in ToSet(Startup) \cup ToSet(MainExit) \cup {"loop", "end"}
    /\ handlers \in Seq(Handler)
    /\ Len(handlers) <= received + 1
    /\ res \in [Resources -> {"none", "held", "released"}]
    /\ fate \in {"alive", "return 0", "return 1", "exit 1", "killed"}
    /\ received \in 0..MaxSignals
    /\ faulted \in BOOLEAN

DmaRunning == res["dma"] = "held"

\* Lines 137 and 154-157: the DMA engine is reset before the process quits, here
\* by the end of the main loop.
QuitResetsDma == fate = "return 0" => ~DmaRunning

\* A process that ends through `terminate' has the engine reset, even when a
\* release was run twice on the way and its fault ran another `terminate'.  That
\* happens only when a signal comes inside a function that is not reentrant,
\* when a second signal interrupts the handler of a first, when a signal
\* interrupts main's own exit, or when softpwm_init failed: else one signal that
\* arrives while the daemon starts or serves is handled soundly.
TerminateSound ==
    /\ fate = "exit 1" => ~DmaRunning
    /\ faulted => \/ received >= 2
                  \/ Broken
                  \/ main \in ToSet(MainExit) \cup {"end"}
                  \/ res["dma"] = "none" /\ res["dma_map"] = "released"

\* A return from main leaves nothing held but what only `terminate' releases;
\* and no path, of main's or of handlers over it, unmaps the samples under the
\* running engine (softpwm_exit).
MainReturnsClean ==
    /\ fate = "return 0" =>
           \A r \in Resources : res[r] = "held" => r \in {"dma", "dma_map", "ev_int"}
    /\ DmaRunning => res["dma_map"] # "released"
=============================================================================
