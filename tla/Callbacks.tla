------------------------------ MODULE Callbacks ------------------------------
(***************************************************************************)
(* The callbacks of the scripts (src/raspd/luaenv.c): a script asks for a    *)
(* timer or for the edges of a pin; the daemon allocates an env, keeps the   *)
(* handler in a table of the Lua registry -- under the address of a timer's  *)
(* env, under the pin of a signal -- and registers an event with the env.    *)
(* Events run one at a time; a handler that runs may ask for more.           *)
(*                                                                          *)
(* No entry of the table is ever removed, and malloc gives freed addresses   *)
(* out again.  A request is known by its place in asked, and so is the       *)
(* handler that came with it.                                               *)
(***************************************************************************)
EXTENDS Integers, Sequences

CONSTANTS
    Addresses,   \* what malloc may return
    Pins,
    Counts,      \* the counts scripts pass
    MaxRequests  \* bound: calls of lr.timeout and lr.gpio_signal

Timer == "timer"

\* The pins are 0..53 and no address of the heap is that low.
ASSUME KeysAssumption == Addresses \cap Pins = {} /\ Timer \notin Pins
ASSUME CountsAssumption == Counts \subseteq Nat \cup {-1}
ASSUME MaxRequestsAssumption == MaxRequests \in Nat

VARIABLES
    asked,    \* the requests: for each the pin, or Timer, and the count
    env,      \* per address: Free, or the request it serves and its counted
    handlers, \* the table: per key, the request whose handler it holds
    events,   \* the requests whose event is registered
    running,  \* the callback being run: its request, and the handler called
    fate,     \* "alive", or "exit" after a Lua panic
    called    \* history, per request with an end: how often its event called a handler

vars == <<asked, env, handlers, events, running, fate, called>>

Free == [req |-> 0, counted |-> 0]
Nothing == [req |-> 0, handler |-> 0]

Requests == 1..MaxRequests
IsTimer(r) == asked[r].pin = Timer
Serves(a, r) == env[a].req = r

Init ==
    /\ asked = <<>>
    /\ env = [a \in Addresses |-> Free]
    /\ handlers = [k \in Addresses \cup Pins |-> 0]
    /\ events = {}
    /\ running = Nothing
    /\ fate = "alive"
    /\ called = [r \in Requests |-> 0]

-----------------------------------------------------------------------------
(* Requests, made from a command or by the handler that runs.               *)

MutStoredNext(key, req) == req + 1
MutStored(key, req) == IF handlers[key] = 0 THEN req ELSE handlers[key]

\* lua_rawset, lines 115 and 305: the entry of the key is overwritten.
Stored(key, req) == req

MutRegistered(a, r) ==
    /\ env' = [env EXCEPT ![a] = [req |-> r, counted |-> 1]]
    /\ events' = events \cup {r}

\* register_timer and bcm2835_gpio_signal succeed.
Registered(a, r) ==
    /\ env' = [env EXCEPT ![a] = [req |-> r, counted |-> 0]]
    /\ events' = events \cup {r}

\* The handler is stored first; when the event cannot be registered the env is
\* freed, and the handler stays where it was put.
Request(a, key, pin, n) ==
    LET r == Len(asked) + 1
    IN
    /\ fate = "alive"
    /\ r <= MaxRequests
    /\ env[a] = Free
    /\ asked' = Append(asked, [pin |-> pin, count |-> n])
    /\ handlers' = [handlers EXCEPT ![key] = Stored(key, r)]
    /\ Registered(a, r) \/ UNCHANGED <<env, events>>
    /\ UNCHANGED <<running, fate, called>>

\* lr_timeout
Timeout(a, n) == Request(a, a, Timer, n)

\* lr_gpio_signal; any of the steps of bcm2835_gpio_signal may fail.
GpioSignal(a, p, n) == Request(a, p, p, n)

-----------------------------------------------------------------------------
(* The callbacks.                                                           *)

MutDelete(a) ==
    /\ env' = [env EXCEPT ![a] = Free]
    /\ UNCHANGED events

\* eventfd_del and free
Delete(a) ==
    /\ events' = events \ {env[a].req}
    /\ env' = [env EXCEPT ![a] = Free]

\* counted++, which is not reached for a signal without end.
Endless(r) == ~IsTimer(r) /\ asked[r].count = -1

\* lua_pcall begins: the handler that the table holds now is called.
Call(a, key) ==
    LET r == env[a].req
    IN
    /\ running' = [req |-> r, handler |-> handlers[key]]
    /\ IF Endless(r) THEN UNCHANGED <<env, called>>
       ELSE /\ env' = [env EXCEPT ![a].counted = @ + 1]
            /\ called' = [called EXCEPT ![r] = @ + 1]
    /\ UNCHANGED events

\* Line 68.  It tests counted for -1, which it never is: a count of -1 is spent
\* at once.
TimerSpent(a) == env[a].counted >= asked[env[a].req].count

\* Line 264.
SignalSpent(a) == LET n == asked[env[a].req].count
                  IN  n # -1 /\ env[a].counted >= n

Ready(a) ==
    /\ fate = "alive"
    /\ running = Nothing
    /\ env[a].req \in events

\* cb_timeout_wrap
TimeoutWrap(a) ==
    /\ Ready(a)
    /\ IsTimer(env[a].req)
    /\ IF TimerSpent(a) THEN Delete(a) /\ UNCHANGED <<running, called>>
                        ELSE Call(a, a)
    /\ UNCHANGED <<asked, handlers, fate>>

\* cb_gpio_signal_wrap
GpioSignalWrap(a) ==
    /\ Ready(a)
    /\ ~IsTimer(env[a].req)
    /\ IF SignalSpent(a) THEN Delete(a) /\ UNCHANGED <<running, called>>
                         ELSE Call(a, asked[env[a].req].pin)
    /\ UNCHANGED <<asked, handlers, fate>>

\* The handler returns a number, or fails: a negative one ends the callback.
Return ==
    /\ running # Nothing
    /\ fate = "alive"
    /\ running' = Nothing
    /\ \/ UNCHANGED <<env, events>>
       \/ \E a \in Addresses : Serves(a, running.req) /\ Delete(a)
    /\ UNCHANGED <<asked, handlers, fate, called>>

\* It returns something else: luaL_checkinteger raises an error outside of any
\* pcall, and Lua exits.
Panic ==
    /\ running # Nothing
    /\ fate = "alive"
    /\ fate' = "exit"
    /\ UNCHANGED <<asked, env, handlers, events, running, called>>

Next ==
    \/ \E a \in Addresses, n \in Counts :
           \/ Timeout(a, n)
           \/ \E p \in Pins : GpioSignal(a, p, n)
    \/ \E a \in Addresses : TimeoutWrap(a) \/ GpioSignalWrap(a)
    \/ Return
    \/ Panic

Spec == Init /\ [][Next]_vars

-----------------------------------------------------------------------------
(* Properties.                                                              *)

TypeOK ==
    /\ asked \in Seq([pin : Pins \cup {Timer}, count : Counts])
    /\ Len(asked) <= MaxRequests
    /\ env \in [Addresses -> [req : 0..Len(asked), counted : Nat]]
    /\ handlers \in [Addresses \cup Pins -> 0..Len(asked)]
    /\ events \subseteq 1..Len(asked)
    /\ running \in [req : 0..Len(asked), handler : 0..Len(asked)]
    /\ fate \in {"alive", "exit"}
    /\ called \in [Requests -> Nat]

\* An event is registered exactly as long as one env serves it: no callback is
\* given an env that was freed or that serves a later request by now, and no
\* env is left without an event, over handlers that fail, stop themselves and
\* ask for more while they run, and requests that are refused.
EnvsServe ==
    /\ \A r \in events : \E a \in Addresses :
           Serves(a, r) /\ \A b \in Addresses : Serves(b, r) => b = a
    /\ \A a \in Addresses : env[a].req # 0 => env[a].req \in events
    /\ running # Nothing => running.req \in events

\* A timer calls the handler it was asked for with, although the table is keyed
\* by addresses that are given out again and keeps the handlers of the dead; a
\* signal does unless the same pin was asked for again, in which case it calls
\* the handler of a later request, even of one that was refused.
OwnHandler ==
    running # Nothing =>
        \/ running.handler = running.req
        \/ /\ ~IsTimer(running.req)
           /\ running.handler > running.req
           /\ asked[running.handler].pin = asked[running.req].pin

\* An event that no handler stops ends after as many calls as were asked for,
\* whether they failed or not; a timer's -1 asks for none, and a signal's -1
\* for calls without end.
CallsExact ==
    [][\A r \in events \ events' :
           running = Nothing =>
               called[r] = IF asked[r].count = -1 /\ IsTimer(r) THEN 0
                           ELSE asked[r].count]_vars
=============================================================================
