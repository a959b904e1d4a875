---------------------------- MODULE LifecycleProofs ----------------------------
(***************************************************************************)
(* Proofs about Lifecycle, for every configuration, set of signals and       *)
(* number of them.                                                          *)
(***************************************************************************)
EXTENDS Lifecycle, TLAPS

\* What a `terminate' has released before it comes to s.
Freed(s) ==
    CASE s = "modexec_exit" -> {}
      [] s = "invmpu_exit"  -> {"file_cal"}
      [] s = "softpwm_stop" -> {"file_cal", "ev_int"}
      [] s = "softpwm_exit" -> {"file_cal", "ev_int", "dma"}
      [] s = "luaenv_exit"  -> {"file_cal", "ev_int", "dma", "dma_map"}
      [] s = "event_exit"   -> {"file_cal", "ev_int", "dma", "dma_map", "lua"}
      [] s = "end"          -> Resources
      [] s = "stuck"        -> {}

\* What main has released before it comes to s.
MainFreed(s) ==
    CASE s = "luaenv_exit" -> {"file_cal"}
      [] s = "event_exit"  -> {"file_cal", "lua"}
      [] s = "end"         -> {"file_cal", "lua", "evbase"}
      [] OTHER             -> {}

\* Every signal that came has its handler, and at most one fault has.
OneEach ==
    /\ Len(handlers) = IF Blocked("fault") THEN received + 1 ELSE received
    /\ ~faulted /\ ~Broken => ~Blocked("fault")
    /\ received <= MaxSignals

\* Nothing that a path has released is held: main takes nothing once it exits,
\* and nothing under a handler, which never returns.
NotHeld ==
    /\ \A r \in MainFreed(main) : res[r] # "held"
    /\ \A i \in DOMAIN handlers : \A r \in Freed(handlers[i].at) : res[r] # "held"
    /\ fate = "return 0" => main = "end"
    /\ fate = "exit 1" => handlers # <<>> /\ Top.at = "end"

\* The engine's memory is not unmapped before the engine is reset.
Mapped ==
    /\ main \in {"sighandlers", "luaenv", "daemonize", "bcm2835", "early_init", "event",
                 "devres"} /\ fate = "alive"
          => res["dma"] = "none" /\ res["dma_map"] = "none"
    /\ res["dma"] = "held" => res["dma_map"] # "released"

MainQuits == main \in {"modexec_exit", "luaenv_exit", "event_exit", "end"}
InitFailed == res["dma"] = "none" /\ res["dma_map"] = "released"

\* One `terminate' over a daemon that is starting or serving, and over nothing
\* half-way: what is released, it has released itself.
OneSound ==
    received <= 1 /\ ~MainQuits /\ ~InitFailed /\ ~Broken =>
        /\ ~faulted
        /\ \A r \in Resources :
               res[r] = "released" => handlers # <<>> /\ r \in Freed(handlers[1].at)

IInv == TypeOK /\ OneEach /\ NotHeld /\ Mapped /\ OneSound

-----------------------------------------------------------------------------
(* The paths of main and of `terminate'.                                    *)

\* The stages, and the steps of the two exit paths.
LEMMA Stages ==
    /\ ToSet(Startup) = {"sighandlers", "luaenv", "daemonize", "bcm2835", "early_init",
                         "event", "devres", "stdin", "listen", "modules"}
    /\ ToSet(MainExit) = {"modexec_exit", "luaenv_exit", "event_exit"}
    /\ ToSet(Terminate) = {"modexec_exit", "invmpu_exit", "softpwm_stop", "softpwm_exit",
                           "luaenv_exit", "event_exit"}
    /\ Last(Startup) = "modules"
    /\ Head(Startup) = "sighandlers"
    /\ Head(MainExit) = "modexec_exit"
    /\ Head(Terminate) = "modexec_exit"
<1>1. DOMAIN Startup = 1..10 /\ Len(Startup) = 10
  BY DEF Startup
<1>2. DOMAIN MainExit = 1..3
  BY DEF MainExit
<1>3. DOMAIN Terminate = 1..6
  BY DEF Terminate
<1>4. ToSet(Startup) = {"sighandlers", "luaenv", "daemonize", "bcm2835", "early_init",
                        "event", "devres", "stdin", "listen", "modules"}
  <2>1. ToSet(Startup) = {Startup[i] : i \in 1..10}
    BY <1>1 DEF ToSet
  <2> QED BY <2>1 DEF Startup
<1>5. ToSet(MainExit) = {"modexec_exit", "luaenv_exit", "event_exit"}
  <2>1. ToSet(MainExit) = {MainExit[i] : i \in 1..3}
    BY <1>2 DEF ToSet
  <2> QED BY <2>1 DEF MainExit
<1>6. ToSet(Terminate) = {"modexec_exit", "invmpu_exit", "softpwm_stop", "softpwm_exit",
                          "luaenv_exit", "event_exit"}
  <2>1. ToSet(Terminate) = {Terminate[i] : i \in 1..6}
    BY <1>3 DEF ToSet
  <2> QED BY <2>1 DEF Terminate
<1>7. Last(Startup) = "modules" /\ Head(Startup) = "sighandlers"
  BY <1>1 DEF Last, Startup
<1>8. Head(MainExit) = "modexec_exit" /\ Head(Terminate) = "modexec_exit"
  BY DEF MainExit, Terminate
<1> QED BY <1>4, <1>5, <1>6, <1>7, <1>8

\* The step after each step of a path without repetitions.
LEMMA AfterIs ==
    ASSUME NEW path, NEW n \in Nat, DOMAIN path = 1..n, Len(path) = n,
           \A j, k \in 1..n : path[j] = path[k] => j = k,
           NEW i \in 1..n
    PROVE  After(path, path[i]) = IF i < n THEN path[i + 1] ELSE "end"
<1>1. (CHOOSE k \in DOMAIN path : path[k] = path[i]) = i
  OBVIOUS
<1> QED BY <1>1 DEF After

\* The steps of `terminate' (lines 141-150).
LEMMA AfterTerminate ==
    /\ After(Terminate, "modexec_exit") = "invmpu_exit"
    /\ After(Terminate, "invmpu_exit") = "softpwm_stop"
    /\ After(Terminate, "softpwm_stop") = "softpwm_exit"
    /\ After(Terminate, "softpwm_exit") = "luaenv_exit"
    /\ After(Terminate, "luaenv_exit") = "event_exit"
    /\ After(Terminate, "event_exit") = "end"
<1>1. /\ DOMAIN Terminate = 1..6 /\ Len(Terminate) = 6
      /\ \A j, k \in 1..6 : Terminate[j] = Terminate[k] => j = k
  BY DEF Terminate
<1>2. \A i \in 1..6 : After(Terminate, Terminate[i]) =
                           IF i < 6 THEN Terminate[i + 1] ELSE "end"
  BY <1>1, AfterIs
<1>3. \A i \in {1, 2, 3, 4, 5, 6} : After(Terminate, Terminate[i]) =
                           IF i < 6 THEN Terminate[i + 1] ELSE "end"
  BY <1>2
<1> QED BY <1>3 DEF Terminate

\* The steps of main's own exit (lines 374-380).
LEMMA AfterMainExit ==
    /\ After(MainExit, "modexec_exit") = "luaenv_exit"
    /\ After(MainExit, "luaenv_exit") = "event_exit"
    /\ After(MainExit, "event_exit") = "end"
<1>1. /\ DOMAIN MainExit = 1..3 /\ Len(MainExit) = 3
      /\ \A j, k \in 1..3 : MainExit[j] = MainExit[k] => j = k
  BY DEF MainExit
<1>2. \A i \in 1..3 : After(MainExit, MainExit[i]) =
                           IF i < 3 THEN MainExit[i + 1] ELSE "end"
  BY <1>1, AfterIs
<1>3. \A i \in {1, 2, 3} : After(MainExit, MainExit[i]) =
                           IF i < 3 THEN MainExit[i + 1] ELSE "end"
  BY <1>2
<1> QED BY <1>3 DEF MainExit

\* The stages of main (lines 229-366).
LEMMA AfterStartup ==
    /\ After(Startup, "sighandlers") = "luaenv"
    /\ After(Startup, "luaenv") = "daemonize"
    /\ After(Startup, "daemonize") = "bcm2835"
    /\ After(Startup, "bcm2835") = "early_init"
    /\ After(Startup, "early_init") = "event"
    /\ After(Startup, "event") = "devres"
    /\ After(Startup, "devres") = "stdin"
    /\ After(Startup, "stdin") = "listen"
    /\ After(Startup, "listen") = "modules"
<1>1. /\ DOMAIN Startup = 1..10 /\ Len(Startup) = 10
      /\ \A j, k \in 1..10 : Startup[j] = Startup[k] => j = k
  BY DEF Startup
<1>2. \A i \in 1..10 : After(Startup, Startup[i]) =
                           IF i < 10 THEN Startup[i + 1] ELSE "end"
  BY <1>1, AfterIs
<1>3. \A i \in {1, 2, 3, 4, 5, 6, 7, 8, 9} : After(Startup, Startup[i]) = Startup[i + 1]
  BY <1>2
<1> QED BY <1>3 DEF Startup

\* Each step of `terminate' adds what it releases to what is freed, and needs
\* nothing that the steps before it freed.
LEMMA TerminateStep ==
    \A s \in ToSet(Terminate) :
        /\ After(Terminate, s) \in ToSet(Terminate) \cup {"end"}
        /\ Freed(After(Terminate, s)) = Freed(s) \cup {Releases(s)}
        /\ Needs(s) \cap Freed(s) = {}
        /\ Needs(s) \subseteq Resources
        /\ Releases(s) \in Resources
        /\ Releases(s) = "dma_map" => "dma" \in Freed(s)
  BY Stages, AfterTerminate DEF Freed, Releases, Needs, Resources, Optional

\* So does each step of main's exit, which never touches the engine.
LEMMA MainExitStep ==
    \A s \in ToSet(MainExit) :
        /\ After(MainExit, s) \in {"luaenv_exit", "event_exit", "end"}
        /\ MainFreed(After(MainExit, s)) = MainFreed(s) \cup {Releases(s)}
        /\ Releases(s) \in {"file_cal", "lua", "evbase"}
  BY Stages, AfterMainExit DEF MainFreed, Releases

\* main goes from stage to stage, and comes to the loop after the last one.
LEMMA StartupStep ==
    \A s \in ToSet(Startup) :
        LET next == IF s = Last(Startup) THEN "loop" ELSE After(Startup, s)
        IN  /\ next \in (ToSet(Startup) \cup {"loop"}) \ {"sighandlers"}
            /\ next \in {"luaenv", "daemonize", "bcm2835", "early_init", "event", "devres"}
                  => s \in {"sighandlers", "luaenv", "daemonize", "bcm2835", "early_init",
                            "event"}
            /\ MainFreed(next) = {}
  BY Stages, AfterStartup DEF MainFreed

-----------------------------------------------------------------------------
(* What the actions do to the resources and to the handlers.                *)

\* A release takes one resource from held to released, and nothing else.
LEMMA ReleaseEffect ==
    ASSUME TypeOK, NEW s, Releases(s) \in Resources, Release(s)
    PROVE  /\ res' \in [Resources -> {"none", "held", "released"}]
           /\ res'[Releases(s)] # "held"
           /\ \A r \in Resources :
                 /\ res'[r] = "held" => res[r] = "held"
                 /\ res[r] # "held" => res'[r] = res[r]
                 /\ r # Releases(s) => res'[r] = res[r]
           /\ faulted' \in BOOLEAN
  BY DEF TypeOK, Release

\* The handlers that run, as many as they are.
LEMMA Handlers ==
    ASSUME TypeOK
    PROVE  /\ received \in Nat /\ Len(handlers) \in Nat
           /\ handlers # <<>> => Len(handlers) # 0 /\ Len(handlers) \in DOMAIN handlers
           /\ \A i \in DOMAIN handlers :
                 handlers[i].at \in ToSet(Terminate) \cup {"end", "stuck"}
<1>1. handlers \in Seq(Handler) /\ received \in 0..MaxSignals
  BY DEF TypeOK
<1>2. \A h \in Handler : h.at \in ToSet(Terminate) \cup {"end", "stuck"}
  BY DEF Handler
<1>3. \A i \in DOMAIN handlers : handlers[i] \in Handler
  BY <1>1
<1>4. received \in Nat /\ Len(handlers) \in Nat
  BY <1>1, MaxSignalsAssumption
<1>5. handlers # <<>> => Len(handlers) # 0 /\ Len(handlers) \in DOMAIN handlers
  BY <1>1
<1> QED BY <1>2, <1>3, <1>4, <1>5

\* Where no handler runs, none is broken.
LEMMA NoneBroken == handlers = <<>> => ~Broken
BY DEF Broken

\* What moves the innermost handler moves it alone.
LEMMA MoveEffect ==
    ASSUME TypeOK, handlers # <<>>, NEW a \in ToSet(Terminate) \cup {"end", "stuck"},
           handlers' = [handlers EXCEPT ![Len(handlers)].at = a]
    PROVE  /\ Len(handlers) \in DOMAIN handlers
           /\ handlers' \in Seq(Handler)
           /\ DOMAIN handlers' = DOMAIN handlers
           /\ Len(handlers') = Len(handlers)
           /\ \A i \in DOMAIN handlers : /\ handlers'[i].sig = handlers[i].sig
                                         /\ handlers'[i].inside = handlers[i].inside
           /\ \A i \in DOMAIN handlers \ {Len(handlers)} : handlers'[i] = handlers[i]
           /\ handlers'[Len(handlers)].at = a
           /\ Broken' = Broken
           /\ Blocked("fault")' <=> Blocked("fault")
<1> DEFINE n == Len(handlers)
           new == [handlers[n] EXCEPT !.at = a]
<1>1. n \in DOMAIN handlers /\ handlers \in Seq(Handler)
  BY Handlers DEF TypeOK
<1>2. handlers[n] \in Handler
  BY <1>1
<1>3. /\ new \in Handler /\ new.sig = handlers[n].sig /\ new.at = a
      /\ new.inside = handlers[n].inside
  BY <1>2 DEF Handler
<1>4. handlers' = [handlers EXCEPT ![n] = new]
  OBVIOUS
<1> HIDE DEF new
<1>5. handlers' \in Seq(Handler)
  BY <1>1, <1>3, <1>4
<1>6. DOMAIN handlers' = DOMAIN handlers /\ Len(handlers') = n
  BY <1>1, <1>4
<1>7. handlers'[n] = new /\ \A i \in DOMAIN handlers \ {n} : handlers'[i] = handlers[i]
  BY <1>1, <1>4
<1>8. \A i \in DOMAIN handlers : /\ handlers'[i].sig = handlers[i].sig
                                 /\ handlers'[i].inside = handlers[i].inside
  BY <1>3, <1>7
<1>9. Broken' = Broken /\ (Blocked("fault")' <=> Blocked("fault"))
  BY <1>6, <1>8 DEF Broken, Blocked
<1> QED BY <1>1, <1>3, <1>5, <1>6, <1>7, <1>8, <1>9

\* The step of the innermost handler moves it alone, to the next step.
LEMMA HandlerEffect ==
    ASSUME TypeOK, HandlerReleases
    PROVE  /\ Len(handlers) \in DOMAIN handlers
           /\ Top.at \in ToSet(Terminate)
           /\ handlers' \in Seq(Handler)
           /\ DOMAIN handlers' = DOMAIN handlers
           /\ Len(handlers') = Len(handlers)
           /\ \A i \in DOMAIN handlers \ {Len(handlers)} : handlers'[i] = handlers[i]
           /\ handlers'[Len(handlers)].at = After(Terminate, Top.at)
           /\ Broken' = Broken
           /\ Blocked("fault")' <=> Blocked("fault")
<1>1. handlers # <<>> /\ Top.at \in ToSet(Terminate)
  BY DEF HandlerReleases
<1>2. After(Terminate, Top.at) \in ToSet(Terminate) \cup {"end", "stuck"}
  BY <1>1, TerminateStep
<1>3. handlers' = [handlers EXCEPT ![Len(handlers)].at = After(Terminate, Top.at)]
  BY DEF HandlerReleases, Top
<1> QED BY <1>1, <1>2, <1>3, MoveEffect

\* A handler that sticks.
LEMMA StickEffect ==
    ASSUME TypeOK, HandlerSticks
    PROVE  /\ Len(handlers) \in DOMAIN handlers
           /\ handlers' \in Seq(Handler)
           /\ DOMAIN handlers' = DOMAIN handlers
           /\ Len(handlers') = Len(handlers)
           /\ \A i \in DOMAIN handlers \ {Len(handlers)} : handlers'[i] = handlers[i]
           /\ handlers'[Len(handlers)].at = "stuck"
           /\ Broken /\ Broken'
           /\ Blocked("fault")' <=> Blocked("fault")
           /\ UNCHANGED <<main, res, fate, received, faulted>> /\ fate = "alive"
<1>1. handlers # <<>> /\ Broken
  BY DEF HandlerSticks, Unsafe, Broken
<1>2. handlers' = [handlers EXCEPT ![Len(handlers)].at = "stuck"]
  BY DEF HandlerSticks
<1>3. UNCHANGED <<main, res, fate, received, faulted>> /\ fate = "alive"
  BY DEF HandlerSticks
<1> QED BY <1>1, <1>2, <1>3, MoveEffect

\* A signal adds a handler that begins where `terminate' begins.
LEMMA EnterEffect ==
    ASSUME TypeOK, NEW sig \in Signals \cup {"fault"}, Enter(sig)
    PROVE  /\ handlers' \in Seq(Handler)
           /\ Len(handlers') = Len(handlers) + 1
           /\ DOMAIN handlers' = DOMAIN handlers \cup {Len(handlers) + 1}
           /\ \A i \in DOMAIN handlers : handlers'[i] = handlers[i]
           /\ handlers'[Len(handlers) + 1].sig = sig
           /\ handlers'[Len(handlers) + 1].at = "modexec_exit"
           /\ Broken => Broken'
<1>1. handlers \in Seq(Handler)
  BY DEF TypeOK
<1>2. PICK h : /\ handlers' = Append(handlers, h) /\ h \in Handler
               /\ h.sig = sig /\ h.at = "modexec_exit"
  <2>1. PICK inside \in BOOLEAN :
            handlers' = Append(handlers, [sig |-> sig, at |-> Head(Terminate),
                                          inside |-> inside])
    BY DEF Enter, MayBeInside
  <2> DEFINE h == [sig |-> sig, at |-> Head(Terminate), inside |-> inside]
  <2>2. h \in Handler /\ h.sig = sig /\ h.at = "modexec_exit"
    BY Stages DEF Handler
  <2> HIDE DEF h
  <2>3. handlers' = Append(handlers, h)
    BY <2>1 DEF h
  <2> QED BY <2>2, <2>3
<1>4. handlers' \in Seq(Handler) /\ Len(handlers') = Len(handlers) + 1
  BY <1>1, <1>2
<1>5. DOMAIN handlers' = DOMAIN handlers \cup {Len(handlers) + 1}
  BY <1>1, <1>4
<1>6. \A i \in DOMAIN handlers : handlers'[i] = handlers[i]
  BY <1>1, <1>2
<1>7. handlers'[Len(handlers) + 1] = h
  BY <1>1, <1>2
<1>8. Broken => Broken'
  BY <1>5, <1>6 DEF Broken
<1> QED BY <1>2, <1>4, <1>5, <1>6, <1>7, <1>8

\* A stage takes both parts of the engine or none, and only the stage devres
\* takes any; what it leaves released is the mapping of a failed softpwm_init.
LEMMA TakeEffect ==
    ASSUME TypeOK, NEW s \in ToSet(Startup), NEW part \in Parts(s)
    PROVE  /\ Take(part) \in [Resources -> {"none", "held", "released"}]
           /\ \A r \in Resources :
                 Take(part)[r] = "released" => res[r] = "released"
           /\ s # "devres" => /\ Take(part)["dma"] = res["dma"]
                              /\ Take(part)["dma_map"] = res["dma_map"]
           /\ "dma" \in part => Take(part)["dma_map"] = "held"
           /\ "dma" \notin part => /\ Take(part)["dma"] = res["dma"]
                                   /\ Take(part)["dma_map"] = res["dma_map"]
<1>1. part \subseteq Acquires(s) /\ ("dma" \in part <=> "dma_map" \in part)
  BY DEF Parts
<1>2. s # "devres" => "dma" \notin part
  BY <1>1, Stages DEF Acquires
<1>3. "dma" \in Resources /\ "dma_map" \in Resources
  BY DEF Resources, Optional
<1>4. Take(part) \in [Resources -> {"none", "held", "released"}]
  BY DEF Take, TypeOK
<1> QED BY <1>1, <1>2, <1>3, <1>4 DEF Take

\* What a stage that goes on may do to the resources.
LEMMA StartEffect ==
    ASSUME TypeOK, Mapped, Start
    PROVE  /\ res' \in [Resources -> {"none", "held", "released"}]
           /\ main # "devres" => /\ res'["dma"] = res["dma"]
                                 /\ res'["dma_map"] = res["dma_map"]
           /\ InitFailed => InitFailed'
           /\ InitFailed' \/ \A r \in Resources :
                                 res'[r] = "released" => res[r] = "released"
           /\ res'["dma"] = "held" => res'["dma_map"] # "released"
<1> DEFINE T == {"none", "held", "released"}
<1>1. /\ main \in ToSet(Startup) /\ fate = "alive" /\ res' \in Outcomes(main)
      /\ res \in [Resources -> T]
  BY DEF Start, Running, TypeOK
<1>2. "dma" \in Resources /\ "dma_map" \in Resources
  BY DEF Resources, Optional
<1>3. CASE main # "devres"
  <2>1. res' = Take(Acquires(main))
    BY <1>1, <1>3 DEF Outcomes
  <2>2. Acquires(main) \in Parts(main)
    BY <1>1, <1>3, Stages DEF Parts, Acquires
  <2>3. /\ res' \in [Resources -> T]
        /\ \A r \in Resources : res'[r] = "released" => res[r] = "released"
        /\ res'["dma"] = res["dma"] /\ res'["dma_map"] = res["dma_map"]
    BY <1>1, <1>3, <2>1, <2>2, TakeEffect
  <2> QED BY <1>3, <2>3 DEF Mapped, InitFailed
<1>4. CASE main = "devres"
  <2>1. res["dma"] = "none" /\ res["dma_map"] = "none"
    BY <1>1, <1>4 DEF Mapped
  <2>2. CASE \E part \in Parts(main) : res' = Take(part)
    <3>1. PICK part \in Parts(main) : res' = Take(part)
      BY <2>2
    <3>2. /\ res' \in [Resources -> T]
          /\ \A r \in Resources : res'[r] = "released" => res[r] = "released"
          /\ "dma" \in part => res'["dma_map"] = "held"
          /\ "dma" \notin part => res'["dma"] = res["dma"]
      BY <1>1, <3>1, TakeEffect
    <3> QED BY <1>4, <2>1, <3>2 DEF InitFailed
  <2>3. CASE \E part \in Parts(main) :
                res' = [Take(part \ {"dma"}) EXCEPT !["dma_map"] = "released"]
    <3>1. PICK part \in Parts(main) :
                res' = [Take(part \ {"dma"}) EXCEPT !["dma_map"] = "released"]
      BY <2>3
    <3>2. Take(part \ {"dma"}) \in [Resources -> T]
      BY <1>1 DEF Take
    <3>3. res'["dma"] = "none" /\ res'["dma_map"] = "released"
      BY <1>2, <2>1, <3>1, <3>2 DEF Take
    <3>4. res' \in [Resources -> T]
      BY <1>2, <3>1, <3>2
    <3> QED BY <1>4, <3>3, <3>4 DEF InitFailed
  <2> QED BY <1>1, <1>4, <2>2, <2>3 DEF Outcomes
<1> QED BY <1>3, <1>4

-----------------------------------------------------------------------------
(* The invariant, conjunct by conjunct.                                     *)

LEMMA InitIInv == Init => IInv
<1> SUFFICES ASSUME Init PROVE IInv
  OBVIOUS
<1>1. main = "sighandlers" /\ handlers = <<>> /\ \A r \in Resources : res[r] = "none"
  BY Stages DEF Init
<1>2. "dma" \in Resources /\ "dma_map" \in Resources
  BY DEF Resources, Optional
<1>3. TypeOK
  <2>1. handlers \in Seq(Handler) /\ Len(handlers) = 0
    BY <1>1
  <2>2. main \in ToSet(Startup) /\ res \in [Resources -> {"none", "held", "released"}]
    BY <1>1, Stages DEF Init
  <2>3. /\ fate = "alive" /\ received = 0 /\ faulted = FALSE
        /\ received \in 0..MaxSignals /\ Len(handlers) <= received + 1
    BY <2>1, MaxSignalsAssumption DEF Init
  <2> QED BY <2>1, <2>2, <2>3 DEF TypeOK
<1>4. ~Blocked("fault")
  BY <1>1 DEF Blocked
<1>5. OneEach
  BY <1>1, <1>4, MaxSignalsAssumption DEF Init, OneEach
<1>6. NotHeld
  BY <1>1 DEF Init, NotHeld, MainFreed
<1>7. Mapped
  BY <1>1, <1>2 DEF Init, Mapped
<1>8. OneSound
  BY <1>1 DEF Init, OneSound
<1> QED BY <1>3, <1>5, <1>6, <1>7, <1>8 DEF IInv

\* One handler for each signal and one for a fault: only Signal and Fault add
\* any, and HandlerReleases keeps the signal of the one that it moves.
LEMMA OneEachStep == IInv /\ [Next]_vars => OneEach'
<1> SUFFICES ASSUME TypeOK, OneEach, [Next]_vars PROVE OneEach'
  BY DEF IInv
<1>0. Len(handlers) \in Nat /\ received \in Nat
  BY Handlers
<1>1. CASE UNCHANGED <<handlers, received>> /\ (faulted => faulted')
  BY <1>1 DEF OneEach, Blocked, Broken
<1>2. CASE Start \/ StartFails \/ LoopExit \/ MainReturns \/ HandlerExits \/ UNCHANGED vars
  <2>1. UNCHANGED <<handlers, received, faulted>>
    BY <1>2 DEF Start, StartFails, LoopExit, MainReturns, HandlerExits, vars
  <2> QED BY <1>1, <2>1
<1>3. CASE MainReleases
  BY <1>1, <1>3 DEF MainReleases, Release
<1>4. ASSUME NEW sig \in Signals, Signal(sig) PROVE OneEach'
  <2>1. Enter(sig) /\ sig # "fault" /\ received' = received + 1
        /\ faulted' = faulted /\ received < MaxSignals /\ received \in Nat
    BY <1>4, SignalsAssumption DEF Signal, TypeOK
  <2>2. /\ Len(handlers') = Len(handlers) + 1
        /\ DOMAIN handlers' = DOMAIN handlers \cup {Len(handlers) + 1}
        /\ \A i \in DOMAIN handlers : handlers'[i] = handlers[i]
        /\ handlers'[Len(handlers) + 1].sig # "fault"
        /\ Broken => Broken'
    BY <2>1, EnterEffect
  <2>3. Blocked("fault")' <=> Blocked("fault")
    BY <2>2 DEF Blocked
  <2> QED BY <1>0, <2>1, <2>2, <2>3, MaxSignalsAssumption DEF OneEach
<1>5. CASE HandlerReleases
  <2>1. Len(handlers') = Len(handlers) /\ Broken' = Broken
    BY <1>5, HandlerEffect
  <2>2. Blocked("fault")' <=> Blocked("fault")
    BY <1>5, HandlerEffect
  <2>3. received' = received /\ (faulted => faulted')
    BY <1>5 DEF HandlerReleases, Release
  <2> QED BY <2>1, <2>2, <2>3 DEF OneEach
<1>6. CASE Fault
  <2>1. received' = received /\ (faulted => faulted') /\ (faulted' \/ Broken)
    BY <1>6 DEF Fault, Unsafe
  <2>2. CASE Blocked("fault")
    BY <1>1, <1>6, <2>1, <2>2 DEF Fault
  <2>3. CASE ~Blocked("fault")
    <3>1. Enter("fault")
      BY <1>6, <2>3 DEF Fault
    <3>2. /\ Len(handlers') = Len(handlers) + 1
          /\ DOMAIN handlers' = DOMAIN handlers \cup {Len(handlers) + 1}
          /\ handlers'[Len(handlers) + 1].sig = "fault"
          /\ Broken => Broken'
      BY <3>1, EnterEffect
    <3>3. Blocked("fault")'
      BY <3>2 DEF Blocked
    <3> QED BY <1>0, <2>1, <2>3, <3>2, <3>3 DEF OneEach
  <2> QED BY <2>2, <2>3
<1>7. CASE HandlerSticks
  BY <1>7, StickEffect DEF OneEach
<1> QED BY <1>2, <1>3, <1>4, <1>5, <1>6, <1>7 DEF Next

LEMMA TypeStep == IInv /\ [Next]_vars => TypeOK'
<1> SUFFICES ASSUME IInv, [Next]_vars PROVE TypeOK'
  OBVIOUS
<1> DEFINE H == Seq(Handler)
           T == {"none", "held", "released"}
           M == ToSet(Startup) \cup ToSet(MainExit) \cup {"loop", "end"}
<1>1. /\ TypeOK /\ Mapped
      /\ main \in M /\ handlers \in H /\ res \in [Resources -> T]
      /\ fate \in {"alive", "return 0", "return 1", "exit 1", "killed"}
      /\ received \in 0..MaxSignals /\ faulted \in BOOLEAN
  BY DEF IInv, TypeOK
<1>2. received' \in 0..MaxSignals => Len(handlers') <= received' + 1
  <2>1. OneEach'
    BY OneEachStep
  <2>2. Len(handlers') \in {received', received' + 1}
    BY <2>1 DEF OneEach
  <2>3. \A k \in 0..MaxSignals : \A n \in {k, k + 1} : n <= k + 1
    BY MaxSignalsAssumption
  <2> QED BY <2>2, <2>3
<1> SUFFICES /\ main' \in M /\ handlers' \in H /\ res' \in [Resources -> T]
             /\ fate' \in {"alive", "return 0", "return 1", "exit 1", "killed"}
             /\ received' \in 0..MaxSignals /\ faulted' \in BOOLEAN
  BY <1>2 DEF TypeOK
<1> HIDE DEF H
<1>3. CASE Start
  <2>1. main' \in M
    BY <1>3, StartupStep DEF Start
  <2>2. res' \in [Resources -> T]
    BY <1>1, <1>3, StartEffect
  <2> QED BY <1>1, <1>3, <2>1, <2>2 DEF Start
<1>4. CASE StartFails
  <2>1. main \in ToSet(Startup)
    BY <1>4, Stages DEF StartFails, MayFail
  <2>2. res' \in [Resources -> T]
    BY <1>1, <1>4, <2>1, TakeEffect DEF StartFails
  <2> QED BY <1>1, <1>4, <2>2 DEF StartFails
<1>5. CASE LoopExit
  BY <1>1, <1>5, Stages DEF LoopExit
<1>6. CASE MainReleases
  <2>1. main \in ToSet(MainExit) /\ Release(main)
        /\ main' = After(MainExit, main) /\ UNCHANGED <<handlers, fate, received>>
    BY <1>6 DEF MainReleases
  <2>2. main' \in M /\ Releases(main) \in Resources
    BY <2>1, MainExitStep, Stages DEF Resources, Optional
  <2>3. res' \in [Resources -> T] /\ faulted' \in BOOLEAN
    BY <1>1, <2>1, <2>2, ReleaseEffect
  <2> QED BY <1>1, <2>1, <2>2, <2>3
<1>7. CASE MainReturns
  BY <1>1, <1>7 DEF MainReturns
<1>8. ASSUME NEW sig \in Signals, Signal(sig)
      PROVE  /\ main' \in M /\ handlers' \in H /\ res' \in [Resources -> T]
             /\ fate' \in {"alive", "return 0", "return 1", "exit 1", "killed"}
             /\ received' \in 0..MaxSignals /\ faulted' \in BOOLEAN
  <2>1. handlers' \in H
    BY <1>1, <1>8, EnterEffect DEF Signal, H
  <2> QED BY <1>1, <1>8, <2>1, MaxSignalsAssumption DEF Signal
<1>9. CASE HandlerReleases
  <2>1. handlers' \in H /\ Top.at \in ToSet(Terminate)
    BY <1>1, <1>9, HandlerEffect DEF H
  <2>2. Release(Top.at) /\ UNCHANGED <<main, fate, received>>
    BY <1>9 DEF HandlerReleases
  <2>3. res' \in [Resources -> T] /\ faulted' \in BOOLEAN
    BY <1>1, <2>1, <2>2, TerminateStep, ReleaseEffect
  <2> QED BY <1>1, <2>1, <2>2, <2>3
<1>10. CASE Fault
  <2>1. handlers' \in H
    <3>1. CASE Blocked("fault")
      BY <1>1, <1>10, <3>1 DEF Fault
    <3>2. CASE ~Blocked("fault")
      BY <1>1, <1>10, <3>2, EnterEffect DEF Fault, H
    <3> QED BY <3>1, <3>2
  <2> QED BY <1>1, <1>10, <2>1 DEF Fault
<1>11. CASE HandlerExits
  BY <1>1, <1>11 DEF HandlerExits
<1>12. CASE UNCHANGED vars
  BY <1>1, <1>12 DEF vars
<1>13. CASE HandlerSticks
  BY <1>1, <1>13, StickEffect DEF H
<1> QED BY <1>3, <1>4, <1>5, <1>6, <1>7, <1>8, <1>9, <1>10, <1>11, <1>12, <1>13 DEF Next

\* What is released stays so: main takes resources only while no handler runs
\* and before it has released any, and a handler holds main up for ever.
LEMMA NotHeldStep == IInv /\ [Next]_vars => NotHeld'
<1> SUFFICES ASSUME IInv, [Next]_vars PROVE NotHeld'
  OBVIOUS
<1>1. /\ TypeOK /\ NotHeld /\ Mapped
      /\ \A r \in MainFreed(main) : res[r] # "held"
      /\ \A i \in DOMAIN handlers : \A r \in Freed(handlers[i].at) : res[r] # "held"
  BY DEF IInv, NotHeld
<1>2. \A s \in {"modexec_exit", "invmpu_exit", "softpwm_stop", "softpwm_exit",
                "luaenv_exit", "event_exit", "end", "stuck"} : Freed(s) \subseteq Resources
  BY DEF Freed, Resources, Optional
<1>3. \A i \in DOMAIN handlers : Freed(handlers[i].at) \subseteq Resources
  BY <1>1, <1>2, Handlers, Stages
<1>4. MainFreed(main) \subseteq Resources
  BY DEF MainFreed, Resources, Optional
<1> DEFINE Kept == \A r \in Resources : res'[r] = "held" => res[r] = "held"
<1>5. CASE Start
  <2>1. handlers' = <<>> /\ fate' = "alive" /\ MainFreed(main') = {}
    BY <1>5, StartupStep DEF Start, Running
  <2> QED BY <2>1 DEF NotHeld
<1>6. CASE StartFails
  <2>1. handlers = <<>> /\ UNCHANGED <<main, handlers>>
    BY <1>6 DEF StartFails, Running
  <2>2. MainFreed(main) = {}
    BY <1>6 DEF StartFails, MayFail, MainFreed
  <2>3. fate' # "return 0" /\ fate' # "exit 1"
    BY <1>6 DEF StartFails
  <2>4. \A r \in MainFreed(main') : res'[r] # "held"
    BY <2>1, <2>2
  <2>5. \A i \in DOMAIN handlers' : \A r \in Freed(handlers'[i].at) : res'[r] # "held"
    BY <2>1
  <2> QED BY <2>3, <2>4, <2>5 DEF NotHeld
<1>7. CASE LoopExit
  <2>1. handlers' = <<>> /\ fate' = "alive" /\ MainFreed(main') = {}
    BY <1>7, Stages DEF LoopExit, Running, MainFreed
  <2> QED BY <2>1 DEF NotHeld
<1>8. CASE MainReleases
  <2>1. /\ main \in ToSet(MainExit) /\ Release(main) /\ main' = After(MainExit, main)
        /\ handlers' = <<>> /\ fate' = "alive"
    BY <1>8 DEF MainReleases, Running
  <2>2. /\ MainFreed(main') = MainFreed(main) \cup {Releases(main)}
        /\ Releases(main) \in Resources
    BY <2>1, MainExitStep DEF Resources, Optional
  <2>3. Kept /\ res'[Releases(main)] # "held"
    BY <1>1, <2>1, <2>2, ReleaseEffect
  <2>4. \A r \in MainFreed(main') : res'[r] # "held"
    BY <1>1, <1>4, <2>2, <2>3
  <2> QED BY <2>1, <2>4 DEF NotHeld
<1>9. CASE MainReturns
  <2>1. /\ fate' = "return 0" /\ main' = "end" /\ main = "end"
        /\ UNCHANGED <<handlers, res>>
    BY <1>9 DEF MainReturns
  <2> QED BY <1>1, <2>1 DEF NotHeld
<1>10. ASSUME NEW sig \in Signals \cup {"fault"}, Enter(sig), fate' = "alive",
              UNCHANGED <<main, res>>
       PROVE  NotHeld'
  <2>1. /\ DOMAIN handlers' = DOMAIN handlers \cup {Len(handlers) + 1}
        /\ \A i \in DOMAIN handlers : handlers'[i] = handlers[i]
        /\ handlers'[Len(handlers) + 1].at = "modexec_exit"
    BY <1>1, <1>10, EnterEffect
  <2>2. Freed("modexec_exit") = {}
    BY DEF Freed
  <2> QED BY <1>1, <1>10, <2>1, <2>2 DEF NotHeld
<1>11. ASSUME NEW sig \in Signals, Signal(sig) PROVE NotHeld'
  BY <1>10, <1>11 DEF Signal
<1>12. CASE HandlerReleases
  <2> DEFINE n == Len(handlers)
  <2>1. /\ Release(Top.at) /\ UNCHANGED <<main, fate>> /\ fate = "alive"
    BY <1>12 DEF HandlerReleases
  <2>2. /\ n \in DOMAIN handlers /\ Top.at \in ToSet(Terminate)
        /\ DOMAIN handlers' = DOMAIN handlers
        /\ \A i \in DOMAIN handlers \ {n} : handlers'[i] = handlers[i]
        /\ handlers'[n].at = After(Terminate, Top.at)
    BY <1>1, <1>12, HandlerEffect
  <2>3. /\ Freed(handlers'[n].at) = Freed(Top.at) \cup {Releases(Top.at)}
        /\ Releases(Top.at) \in Resources
    BY <2>2, TerminateStep
  <2>4. Kept /\ res'[Releases(Top.at)] # "held"
    BY <1>1, <2>1, <2>3, ReleaseEffect
  <2>5. \A r \in MainFreed(main') : res'[r] # "held"
    BY <1>1, <1>4, <2>1, <2>4
  <2>6. \A r \in Freed(handlers'[n].at) : res'[r] # "held"
    BY <1>1, <1>3, <2>2, <2>3, <2>4 DEF Top
  <2>7. \A i \in DOMAIN handlers \ {n} : \A r \in Freed(handlers'[i].at) : res'[r] # "held"
    BY <1>1, <1>3, <2>2, <2>4
  <2> QED BY <2>1, <2>2, <2>5, <2>6, <2>7 DEF NotHeld
<1>13. CASE Fault
  <2>1. UNCHANGED <<main, res>> /\ fate = "alive"
    BY <1>13 DEF Fault
  <2>2. CASE Blocked("fault")
    <3>1. fate' = "killed" /\ UNCHANGED handlers
      BY <1>13, <2>2 DEF Fault
    <3> QED BY <1>1, <2>1, <3>1 DEF NotHeld
  <2>3. CASE ~Blocked("fault")
    <3>1. Enter("fault") /\ fate' = "alive"
      BY <1>13, <2>1, <2>3 DEF Fault
    <3> QED BY <1>10, <2>1, <3>1
  <2> QED BY <2>2, <2>3
<1>14. CASE HandlerExits
  <2>1. /\ fate' = "exit 1" /\ handlers # <<>> /\ Top.at = "end"
        /\ UNCHANGED <<main, handlers, res>>
    BY <1>14 DEF HandlerExits
  <2> QED BY <1>1, <2>1 DEF NotHeld, Top
<1>15. CASE UNCHANGED vars
  BY <1>1, <1>15 DEF vars, NotHeld, Top
<1>16. CASE HandlerSticks
  <2>1. Freed("stuck") = {}
    BY DEF Freed
  <2>2. /\ DOMAIN handlers' = DOMAIN handlers
        /\ \A i \in DOMAIN handlers \ {Len(handlers)} : handlers'[i] = handlers[i]
        /\ handlers'[Len(handlers)].at = "stuck"
        /\ UNCHANGED <<main, res, fate>> /\ fate = "alive"
    BY <1>1, <1>16, StickEffect
  <2>3. \A i \in DOMAIN handlers' : \A r \in Freed(handlers'[i].at) : res'[r] # "held"
    BY <1>1, <2>1, <2>2
  <2> QED BY <1>1, <2>2, <2>3 DEF NotHeld
<1> QED BY <1>16, <1>5, <1>6, <1>7, <1>8, <1>9, <1>11, <1>12, <1>13, <1>14, <1>15 DEF Next

\* softpwm_exit comes after softpwm_stop on the one path that has it, and by
\* then the engine is reset, whoever did it.
LEMMA MappedStep == IInv /\ [Next]_vars => Mapped'
<1> SUFFICES ASSUME IInv, [Next]_vars PROVE Mapped'
  OBVIOUS
<1> DEFINE Early == {"sighandlers", "luaenv", "daemonize", "bcm2835", "early_init",
                     "event", "devres"}
<1>1. /\ TypeOK /\ NotHeld /\ Mapped
      /\ main \in Early /\ fate = "alive" => res["dma"] = "none" /\ res["dma_map"] = "none"
      /\ res["dma"] = "held" => res["dma_map"] # "released"
  BY DEF IInv, Mapped
<1>2. "dma" \in Resources /\ "dma_map" \in Resources
  BY DEF Resources, Optional
<1>3. CASE /\ UNCHANGED res
           /\ main' \in Early /\ fate' = "alive" => main \in Early /\ fate = "alive"
  BY <1>1, <1>3 DEF Mapped
<1>4. CASE Start
  <2>1. main' \in Early => main \in Early \ {"devres"}
    BY <1>4, StartupStep DEF Start
  <2>2. /\ main # "devres" => res'["dma"] = res["dma"] /\ res'["dma_map"] = res["dma_map"]
        /\ res'["dma"] = "held" => res'["dma_map"] # "released"
    BY <1>1, <1>4, StartEffect
  <2>3. fate = "alive"
    BY <1>4 DEF Start, Running
  <2> QED BY <1>1, <2>1, <2>2, <2>3 DEF Mapped
<1>5. CASE StartFails
  <2>1. main \in ToSet(Startup) /\ fate' = "return 1"
    BY <1>5, Stages DEF StartFails, MayFail
  <2>2. PICK part \in Parts(main) : res' = Take(part)
    BY <1>5 DEF StartFails
  <2>3. /\ "dma" \in part => res'["dma_map"] = "held"
        /\ "dma" \notin part => res'["dma"] = res["dma"] /\ res'["dma_map"] = res["dma_map"]
    BY <1>1, <2>1, <2>2, TakeEffect
  <2> QED BY <1>1, <2>1, <2>3 DEF Mapped
<1>6. CASE LoopExit
  BY <1>3, <1>6, Stages DEF LoopExit
<1>7. CASE MainReleases
  <2>1. main \in ToSet(MainExit) /\ Release(main) /\ main' = After(MainExit, main)
    BY <1>7 DEF MainReleases
  <2>2. /\ main' \notin Early
        /\ Releases(main) \in Resources \ {"dma", "dma_map"}
    BY <2>1, MainExitStep DEF Resources, Optional
  <2>3. res'["dma"] = res["dma"] /\ res'["dma_map"] = res["dma_map"]
    BY <1>1, <1>2, <2>1, <2>2, ReleaseEffect
  <2> QED BY <1>1, <2>2, <2>3 DEF Mapped
<1>8. CASE MainReturns \/ HandlerExits
  BY <1>3, <1>8 DEF MainReturns, HandlerExits
<1>9. ASSUME NEW sig \in Signals, Signal(sig) PROVE Mapped'
  BY <1>3, <1>9 DEF Signal
<1>10. CASE HandlerReleases
  <2>1. Release(Top.at) /\ UNCHANGED <<main, fate>>
    BY <1>10 DEF HandlerReleases
  <2>2. Len(handlers) \in DOMAIN handlers /\ Top.at \in ToSet(Terminate)
    BY <1>1, <1>10, HandlerEffect
  <2>3. /\ Releases(Top.at) \in Resources
        /\ Releases(Top.at) = "dma_map" => "dma" \in Freed(Top.at)
    BY <2>2, TerminateStep
  <2>4. Releases(Top.at) = "dma_map" => res["dma"] # "held"
    BY <1>1, <2>2, <2>3 DEF NotHeld, Top
  <2>5. \A r \in Resources :
            /\ res'[r] = "held" => res[r] = "held"
            /\ res[r] # "held" => res'[r] = res[r]
            /\ r # Releases(Top.at) => res'[r] = res[r]
    BY <1>1, <2>1, <2>3, ReleaseEffect
  <2> QED BY <1>1, <1>2, <2>1, <2>4, <2>5 DEF Mapped
<1>11. CASE Fault \/ HandlerSticks
  BY <1>3, <1>11 DEF Fault, HandlerSticks
<1>12. CASE UNCHANGED vars
  BY <1>3, <1>12 DEF vars
<1> QED BY <1>4, <1>5, <1>6, <1>7, <1>8, <1>9, <1>10, <1>11, <1>12 DEF Next

\* A first `terminate' meets only what it released itself, each once.
LEMMA OneSoundStep == IInv /\ [Next]_vars => OneSound'
<1> SUFFICES ASSUME IInv, [Next]_vars PROVE OneSound'
  OBVIOUS
<1> DEFINE Own == \A r \in Resources :
                      res[r] = "released" => handlers # <<>> /\ r \in Freed(handlers[1].at)
<1>1. TypeOK /\ OneEach /\ Mapped
  BY DEF IInv
<1>2. received <= 1 /\ ~MainQuits /\ ~InitFailed /\ ~Broken => ~faulted /\ Own
  BY DEF IInv, OneSound
<1>3. received \in Nat
  BY <1>1, Handlers
<1>4. ~faulted /\ ~Broken => Len(handlers) = received
  BY <1>1 DEF OneEach
<1>6. CASE UNCHANGED <<main, handlers, res, received, faulted>>
  BY <1>2, <1>6 DEF OneSound, MainQuits, InitFailed, Broken
<1>7. CASE Start
  <2> SUFFICES ASSUME received' <= 1, ~MainQuits', ~InitFailed', ~Broken'
               PROVE  ~faulted' /\ \A r \in Resources : res'[r] # "released"
    BY DEF OneSound
  <2>1. /\ main \in ToSet(Startup) /\ handlers = <<>>
        /\ UNCHANGED <<handlers, received, faulted>>
    BY <1>7 DEF Start, Running
  <2>2. /\ InitFailed => InitFailed'
        /\ InitFailed' \/ \A r \in Resources :
                              res'[r] = "released" => res[r] = "released"
    BY <1>1, <1>7, StartEffect
  <2>3. ~MainQuits
    BY <2>1, Stages DEF MainQuits
  <2>4. ~faulted /\ Own
    BY <1>2, <2>1, <2>2, <2>3, NoneBroken
  <2> QED BY <2>1, <2>2, <2>4
<1>8. CASE StartFails
  <2> SUFFICES ASSUME received' <= 1, ~MainQuits', ~InitFailed', ~Broken'
               PROVE  ~faulted' /\ \A r \in Resources : res'[r] # "released"
    BY DEF OneSound
  <2>1. /\ handlers = <<>> /\ main \in ToSet(Startup)
        /\ UNCHANGED <<main, handlers, received, faulted>>
    BY <1>8, Stages DEF StartFails, Running, MayFail
  <2>2. PICK part \in Parts(main) : res' = Take(part)
    BY <1>8 DEF StartFails
  <2>3. /\ \A r \in Resources : res'[r] = "released" => res[r] = "released"
        /\ "dma" \in part => res'["dma_map"] = "held"
        /\ "dma" \notin part => res'["dma"] = res["dma"] /\ res'["dma_map"] = res["dma_map"]
        /\ main # "devres" => res'["dma"] = res["dma"] /\ res'["dma_map"] = res["dma_map"]
    BY <1>1, <2>1, <2>2, TakeEffect
  <2>4. main = "devres" => res["dma_map"] = "none"
    BY <1>1, <1>8 DEF Mapped, StartFails, Running
  <2>5. ~InitFailed /\ ~MainQuits
    BY <2>1, <2>3, <2>4 DEF InitFailed, MainQuits
  <2>6. ~faulted /\ Own
    BY <1>2, <2>1, <2>5, NoneBroken
  <2> QED BY <2>1, <2>3, <2>6
<1>9. CASE LoopExit \/ MainReleases
  <2>1. MainQuits'
    BY <1>9, Stages, MainExitStep DEF LoopExit, MainReleases, MainQuits
  <2> QED BY <2>1 DEF OneSound
<1>10. CASE MainReturns \/ HandlerExits \/ UNCHANGED vars
  BY <1>6, <1>10 DEF MainReturns, HandlerExits, vars
<1>11. ASSUME NEW sig \in Signals, Signal(sig) PROVE OneSound'
  <2> SUFFICES ASSUME received' <= 1, ~MainQuits', ~InitFailed', ~Broken'
               PROVE  ~faulted' /\ \A r \in Resources : res'[r] # "released"
    BY DEF OneSound
  <2>1. received' = received + 1 /\ UNCHANGED <<main, res, faulted>>
    BY <1>11 DEF Signal
  <2>2. received = 0 /\ ~Broken
    BY <1>1, <1>3, <1>11, <2>1, EnterEffect DEF Signal
  <2>3. ~faulted /\ Own
    BY <1>2, <2>1, <2>2 DEF MainQuits, InitFailed
  <2>4. handlers = <<>>
    BY <1>1, <1>3, <1>4, <2>2, <2>3, Handlers
  <2> QED BY <2>1, <2>3, <2>4
\* The one handler finds all that it needs.
<1>12. ASSUME handlers # <<>>, Top.at \in ToSet(Terminate),
              received <= 1, ~MainQuits, ~InitFailed, ~Broken
       PROVE  Sound(Top.at) /\ Len(handlers) = 1
  <2>1. ~faulted /\ Own
    BY <1>2, <1>12
  <2>2. Len(handlers) = 1
    BY <1>1, <1>3, <1>4, <1>12, <2>1, Handlers
  <2>3. Needs(Top.at) \cap Freed(Top.at) = {} /\ Needs(Top.at) \subseteq Resources
    BY <1>12, TerminateStep
  <2> QED BY <2>1, <2>2, <2>3 DEF Sound, Top
<1>13. CASE HandlerReleases
  <2> SUFFICES ASSUME received' <= 1, ~MainQuits', ~InitFailed', ~Broken'
               PROVE  /\ ~faulted'
                      /\ \A r \in Resources :
                             res'[r] = "released" =>
                                 handlers' # <<>> /\ r \in Freed(handlers'[1].at)
    BY DEF OneSound
  <2>1. Release(Top.at) /\ UNCHANGED <<main, received>> /\ handlers # <<>>
    BY <1>13 DEF HandlerReleases
  <2>2. /\ Top.at \in ToSet(Terminate) /\ Len(handlers') = Len(handlers)
        /\ handlers'[Len(handlers)].at = After(Terminate, Top.at)
    BY <1>1, <1>13, HandlerEffect
  <2>3. /\ Freed(After(Terminate, Top.at)) = Freed(Top.at) \cup {Releases(Top.at)}
        /\ Releases(Top.at) \in Resources
    BY <2>2, TerminateStep
  <2>4. \A r \in Resources : /\ res[r] # "held" => res'[r] = res[r]
                             /\ r # Releases(Top.at) => res'[r] = res[r]
    BY <1>1, <2>1, <2>3, ReleaseEffect
  <2>5. "dma" \in Resources /\ "dma_map" \in Resources
    BY DEF Resources, Optional
  <2>6. ~MainQuits /\ ~InitFailed /\ ~Broken /\ received <= 1
    BY <1>1, <1>13, <2>1, <2>4, <2>5, HandlerEffect DEF MainQuits, InitFailed
  <2>7. Sound(Top.at) /\ Len(handlers) = 1 /\ ~faulted /\ Own
    BY <1>2, <1>12, <2>1, <2>2, <2>6
  <2>8. ~faulted'
    BY <2>1, <2>7 DEF Release
  <2>9. handlers' # <<>> /\ handlers'[1].at = After(Terminate, handlers[1].at)
        /\ Top.at = handlers[1].at
    BY <2>2, <2>7 DEF Top
  <2> QED BY <2>3, <2>4, <2>7, <2>8, <2>9
<1>14. CASE Fault
  <2> SUFFICES ASSUME received' <= 1, ~MainQuits', ~InitFailed', ~Broken' PROVE FALSE
    BY DEF OneSound
  <2>1. UNCHANGED <<main, res, received>>
    BY <1>14 DEF Fault
  <2>2. ~Broken
    <3>1. CASE Blocked("fault")
      BY <1>14, <3>1 DEF Fault, Broken
    <3>2. CASE ~Blocked("fault")
      BY <1>1, <1>14, <3>2, EnterEffect DEF Fault
    <3> QED BY <3>1, <3>2
  <2>3. received <= 1 /\ ~MainQuits /\ ~InitFailed
    BY <2>1 DEF MainQuits, InitFailed
  <2>4. \/ handlers = <<>> /\ main \in ToSet(MainExit) /\ ~Sound(main)
        \/ handlers # <<>> /\ Top.at \in ToSet(Terminate) /\ ~Sound(Top.at)
    BY <1>14, <2>2 DEF Fault, Unsafe
  <2>5. handlers # <<>> /\ Top.at \in ToSet(Terminate) /\ ~Sound(Top.at)
    BY <2>3, <2>4, Stages DEF MainQuits
  <2> QED BY <1>12, <2>2, <2>3, <2>5
<1>15. CASE HandlerSticks
  BY <1>1, <1>15, StickEffect DEF OneSound
<1> QED BY <1>7, <1>8, <1>9, <1>10, <1>11, <1>13, <1>14, <1>15 DEF Next

LEMMA Inductive == Spec => []IInv
<1>1. IInv /\ [Next]_vars => IInv'
  BY TypeStep, OneEachStep, NotHeldStep, MappedStep, OneSoundStep DEF IInv
<1> QED BY InitIInv, <1>1, PTL DEF Spec

-----------------------------------------------------------------------------
\* The handlers, at most one more than the signals, and the fate of everything
\* that main acquired stay within their types (raspd.c 133-158, 229-380).
THEOREM TypeCorrect == Spec => []TypeOK
<1>1. IInv => TypeOK
  BY DEF IInv
<1> QED BY Inductive, <1>1, PTL

\* Whatever signals come and however their handlers interrupt each other and
\* main, a process that ends through `terminate' has the DMA engine reset; and
\* nothing is released twice, or used once released, before a second signal,
\* unless a signal came inside a function that is not reentrant, main itself was
\* quitting or softpwm_init had failed (raspd.c 133-158).
THEOREM TerminateIsSound == Spec => []TerminateSound
<1>1. IInv => TerminateSound
  <2> SUFFICES ASSUME IInv PROVE TerminateSound
    OBVIOUS
  <2>1. TypeOK /\ NotHeld /\ OneSound
    BY DEF IInv
  <2>2. fate = "exit 1" => ~DmaRunning
    <3> SUFFICES ASSUME fate = "exit 1" PROVE res["dma"] # "held"
      BY DEF DmaRunning
    <3>1. handlers # <<>> /\ Top.at = "end"
      BY <2>1 DEF NotHeld
    <3>2. Len(handlers) \in DOMAIN handlers
      BY <2>1, <3>1, Handlers
    <3>3. "dma" \in Freed(Top.at)
      BY <3>1 DEF Freed, Resources, Optional
    <3> QED BY <2>1, <3>2, <3>3 DEF NotHeld, Top
  <2>3. faulted => received > 1 \/ Broken \/ MainQuits \/ InitFailed
    BY <2>1, Handlers DEF OneSound
  <2>4. received > 1 => received >= 2
    BY <2>1, Handlers
  <2> QED BY <2>2, <2>3, <2>4, Stages DEF TerminateSound, MainQuits, InitFailed
<1> QED BY Inductive, <1>1, PTL

\* A return from main leaves held only the engine, its memory and the IMU's
\* event, and the samples are never unmapped under the running engine, by main
\* or by any number of handlers over it (raspd.c 374-382, 141-150).
THEOREM MainReturnsIsClean == Spec => []MainReturnsClean
<1>1. IInv => MainReturnsClean
  <2> SUFFICES ASSUME IInv PROVE MainReturnsClean
    OBVIOUS
  <2>1. fate = "return 0" => \A r \in {"file_cal", "lua", "evbase"} : res[r] # "held"
    BY DEF IInv, NotHeld, MainFreed
  <2>2. DmaRunning => res["dma_map"] # "released"
    BY DEF IInv, Mapped, DmaRunning
  <2> QED BY <2>1, <2>2 DEF MainReturnsClean, Resources, Optional
<1> QED BY Inductive, <1>1, PTL
=============================================================================
