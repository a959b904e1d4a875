--------------------------- MODULE CallbacksProofs ---------------------------
(***************************************************************************)
(* Proofs about Callbacks, for any addresses and pins, any counts and any    *)
(* number of requests.                                                      *)
(***************************************************************************)
EXTENDS Callbacks, TLAPS

Asked == [pin : Pins \cup {Timer}, count : Counts]

\* Appending a request leaves those before it where they are.
LEMMA AppendFacts ==
    ASSUME NEW s \in Seq(Asked), NEW e \in Asked
    PROVE  /\ Append(s, e) \in Seq(Asked)
           /\ Len(s) \in Nat
           /\ Len(Append(s, e)) = Len(s) + 1
           /\ \A i \in 1..Len(s) : Append(s, e)[i] = s[i] /\ s[i] \in Asked
           /\ Append(s, e)[Len(s) + 1] = e
OBVIOUS

-----------------------------------------------------------------------------
(* The inductive invariant.                                                 *)

\* The table has the handler of every env that serves: a timer's own, since its
\* key is its address, and of a signal its own or that of a later request for
\* the same pin (lines 111-116, 301-306).
HandlersKept ==
    \A a \in Addresses : env[a].req # 0 =>
        /\ IsTimer(env[a].req) => handlers[a] = env[a].req
        /\ ~IsTimer(env[a].req) =>
               /\ handlers[asked[env[a].req].pin] >= env[a].req
               /\ asked[handlers[asked[env[a].req].pin]].pin = asked[env[a].req].pin

\* counted is the number of calls, and no more than were asked for; a request
\* not made yet has had none.
CountsKept ==
    /\ \A r \in Requests : r > Len(asked) => called[r] = 0
    /\ \A a \in Addresses : env[a].req # 0 /\ ~Endless(env[a].req) =>
           /\ called[env[a].req] = env[a].counted
           /\ env[a].counted = 0 \/ env[a].counted <= asked[env[a].req].count

IInv == TypeOK /\ EnvsServe /\ HandlersKept /\ CountsKept /\ OwnHandler

\* What the types say of an env that serves: its request was made, with a pin
\* and a count, and has a count of calls.
LEMMA ServingFacts ==
    ASSUME TypeOK, NEW a \in Addresses, env[a].req # 0
    PROVE  /\ env[a].req \in 1..Len(asked)
           /\ env[a].req \in Requests
           /\ env[a].counted \in Nat
           /\ asked[env[a].req].pin \in Pins \cup {Timer}
           /\ asked[env[a].req].count \in Nat \cup {-1}
           /\ called[env[a].req] \in Nat
<1>1. Len(asked) \in Nat /\ Len(asked) <= MaxRequests
  BY DEF TypeOK
<1>2. env[a].req \in 1..Len(asked) /\ env[a].counted \in Nat
  BY <1>1 DEF TypeOK
<1>3. asked \in Seq(Asked)
  BY DEF TypeOK, Asked
<1>4. asked[env[a].req] \in Asked
  BY <1>2, <1>3
<1>5. asked[env[a].req].pin \in Pins \cup {Timer} /\ asked[env[a].req].count \in Counts
  BY <1>4 DEF Asked
<1>6. env[a].req \in Requests
  BY <1>1, <1>2, MaxRequestsAssumption DEF Requests
<1>7. called[env[a].req] \in Nat
  BY <1>6 DEF TypeOK
<1> QED BY <1>2, <1>5, <1>6, <1>7, CountsAssumption

-----------------------------------------------------------------------------
LEMMA InitInv == Init => IInv
<1> SUFFICES ASSUME Init PROVE IInv
  OBVIOUS
<1>1. TypeOK
  BY MaxRequestsAssumption DEF Init, TypeOK, Free, Nothing, Requests
<1>2. EnvsServe /\ HandlersKept /\ OwnHandler
  BY DEF Init, EnvsServe, HandlersKept, OwnHandler, Free, Nothing
<1>3. CountsKept
  BY DEF Init, CountsKept, Free
<1> QED BY <1>1, <1>2, <1>3 DEF IInv

-----------------------------------------------------------------------------
(* Requests.                                                                *)

\* What a request changes: it is appended, its handler is stored under its key,
\* and it is served by the free env or by none (lines 96-126, 296-317).
LEMMA RequestFacts ==
    ASSUME TypeOK, NEW a \in Addresses, NEW n \in Counts,
           NEW key \in Addresses \cup Pins, NEW pin \in Pins \cup {Timer},
           Request(a, key, pin, n)
    PROVE  /\ Len(asked) + 1 \in Requests
           /\ Len(asked) \in Nat
           /\ asked \in Seq(Asked) /\ asked' \in Seq(Asked)
           /\ Len(asked') = Len(asked) + 1
           /\ \A i \in 1..Len(asked) : asked'[i] = asked[i] /\ asked[i] \in Asked
           /\ asked'[Len(asked) + 1] = [pin |-> pin, count |-> n]
           /\ \A k \in Addresses \cup Pins :
                  handlers'[k] = IF k = key THEN Len(asked) + 1 ELSE handlers[k]
           /\ \/ /\ env' = [env EXCEPT ![a] = [req |-> Len(asked) + 1, counted |-> 0]]
                 /\ events' = events \cup {Len(asked) + 1}
              \/ env' = env /\ events' = events
           /\ env[a] = Free
           /\ running' = running /\ fate' = fate /\ called' = called
<1>1. asked \in Seq(Asked)
  BY DEF TypeOK, Asked
<1>2. [pin |-> pin, count |-> n] \in Asked
  BY DEF Asked
<1>3. asked' = Append(asked, [pin |-> pin, count |-> n])
  BY DEF Request
<1>4. \A k \in Addresses \cup Pins :
         handlers'[k] = IF k = key THEN Len(asked) + 1 ELSE handlers[k]
  BY DEF Request, Stored, TypeOK
<1>5. Len(asked) + 1 \in Requests
  BY <1>1, <1>2, AppendFacts, MaxRequestsAssumption DEF Request, Requests
<1>6. \/ /\ env' = [env EXCEPT ![a] = [req |-> Len(asked) + 1, counted |-> 0]]
         /\ events' = events \cup {Len(asked) + 1}
      \/ env' = env /\ events' = events
  BY DEF Request, Registered
<1>7. env[a] = Free /\ running' = running /\ fate' = fate /\ called' = called
  BY DEF Request
<1> QED BY <1>1, <1>2, <1>3, <1>4, <1>5, <1>6, <1>7, AppendFacts

\* A request keeps the invariant, granted or refused.
LEMMA RequestInv ==
    ASSUME IInv, NEW a \in Addresses, NEW n \in Counts,
           NEW key \in Addresses \cup Pins, NEW pin \in Pins \cup {Timer},
           Request(a, key, pin, n),
           \/ key = a /\ pin = Timer
           \/ key = pin /\ pin \in Pins
    PROVE  IInv'
<1> DEFINE r == Len(asked) + 1
<1>inv. TypeOK /\ EnvsServe /\ HandlersKept /\ CountsKept /\ OwnHandler
  BY DEF IInv
<1>req. /\ r \in Requests /\ Len(asked) \in Nat /\ Len(asked') = r
        /\ asked' \in Seq(Asked)
        /\ \A i \in 1..Len(asked) : asked'[i] = asked[i] /\ asked[i] \in Asked
        /\ asked'[r] = [pin |-> pin, count |-> n]
        /\ \A k \in Addresses \cup Pins :
               handlers'[k] = IF k = key THEN r ELSE handlers[k]
        /\ env[a] = Free
        /\ running' = running /\ fate' = fate /\ called' = called
  BY <1>inv, RequestFacts
<1>env. \/ /\ env' = [env EXCEPT ![a] = [req |-> r, counted |-> 0]]
           /\ events' = events \cup {r}
        \/ env' = env /\ events' = events
  BY <1>inv, RequestFacts
<1>new. \A b \in Addresses :
           \/ env'[b] = env[b]
           \/ b = a /\ env'[b] = [req |-> r, counted |-> 0] /\ events' = events \cup {r}
  BY <1>inv, <1>env DEF TypeOK
<1>old. \A b \in Addresses : env[b].req # 0 => env[b].req \in 1..Len(asked)
  BY <1>inv, ServingFacts
<1> HIDE DEF r
<1>1. TypeOK'
  <2>1. asked' \in Seq([pin : Pins \cup {Timer}, count : Counts]) /\ Len(asked') <= MaxRequests
    BY <1>req, MaxRequestsAssumption DEF Asked, Requests
  <2>2. env' \in [Addresses -> [req : 0..Len(asked'), counted : Nat]]
    <3>1. env \in [Addresses -> [req : 0..Len(asked), counted : Nat]]
      BY <1>inv DEF TypeOK
    <3>2. env \in [Addresses -> [req : 0..r, counted : Nat]]
      BY <3>1, <1>req DEF r
    <3>3. [req |-> r, counted |-> 0] \in [req : 0..r, counted : Nat]
      BY <1>req DEF r
    <3> QED BY <3>2, <3>3, <1>req, <1>env
  <2>3. handlers' \in [Addresses \cup Pins -> 0..Len(asked')]
    <3>1. handlers' = [handlers EXCEPT ![key] = r]
      BY DEF Request, Stored, r
    <3> QED BY <3>1, <1>inv, <1>req DEF TypeOK, r
  <2>4. events' \subseteq 1..Len(asked')
    <3>1. events \subseteq 1..Len(asked)
      BY <1>inv DEF TypeOK
    <3>2. 1..Len(asked) \subseteq 1..r /\ r \in 1..r
      BY <1>req DEF r
    <3>3. events' \subseteq events \cup {r}
      BY <1>env
    <3> QED BY <3>1, <3>2, <3>3, <1>req
  <2>5. running' \in [req : 0..Len(asked'), handler : 0..Len(asked')]
    BY <1>inv, <1>req DEF TypeOK, r
  <2> QED BY <2>1, <2>2, <2>3, <2>4, <2>5, <1>inv, <1>req DEF TypeOK
<1>2. EnvsServe'
  <2>1. events \subseteq 1..Len(asked) /\ r \notin events
    BY <1>inv, <1>req DEF TypeOK, r
  <2>2. env[a].req = 0
    BY <1>req DEF Free
  <2>3. \A b \in Addresses : env'[b].req # 0 => env'[b].req \in events'
    BY <1>inv, <1>env, <1>new DEF EnvsServe
  <2>4. ASSUME NEW q \in events'
        PROVE  \E b \in Addresses : env'[b].req = q /\ \A c \in Addresses : env'[c].req = q => c = b
    <3>1. CASE q \in events
      <4>1. q # 0 /\ q # r
        BY <2>1, <3>1, <1>req
      <4>2. PICK b \in Addresses : env[b].req = q /\ \A c \in Addresses : env[c].req = q => c = b
        BY <1>inv, <3>1 DEF EnvsServe, Serves
      <4>3. env'[b].req = q
        BY <4>1, <4>2, <2>2, <1>new
      <4>4. \A c \in Addresses : env'[c].req = q => c = b
        BY <4>1, <4>2, <1>new
      <4> QED BY <4>3, <4>4
    <3>2. CASE q \notin events
      <4>1. q = r /\ env' = [env EXCEPT ![a] = [req |-> r, counted |-> 0]]
        BY <1>env, <3>2, <2>4
      <4>2. env'[a].req = r
        BY <4>1, <1>inv DEF TypeOK
      <4>3. \A c \in Addresses : env'[c].req = r => c = a
        BY <4>1, <1>inv, <1>old, <1>req DEF TypeOK, r
      <4> QED BY <4>1, <4>2, <4>3
    <3> QED BY <3>1, <3>2
  <2>5. running' # Nothing => running'.req \in events'
    BY <1>inv, <1>req, <1>env DEF EnvsServe
  <2> QED BY <2>3, <2>4, <2>5 DEF EnvsServe, Serves, Nothing
<1>3. HandlersKept'
  <2> SUFFICES ASSUME NEW b \in Addresses, env'[b].req # 0
               PROVE  LET q == env'[b].req
                      IN  /\ asked'[q].pin = Timer => handlers'[b] = q
                          /\ asked'[q].pin # Timer =>
                                 /\ handlers'[asked'[q].pin] >= q
                                 /\ asked'[handlers'[asked'[q].pin]].pin = asked'[q].pin
    BY DEF HandlersKept, IsTimer
  <2>1. CASE b = a /\ env'[b] = [req |-> r, counted |-> 0]
    <3>1. env'[b].req = r /\ asked'[r].pin = pin
      BY <2>1, <1>req
    <3>2. pin = Timer => handlers'[b] = r
      BY <2>1, <1>req, KeysAssumption
    <3>3. pin # Timer => handlers'[pin] = r
      BY <1>req
    <3> QED BY <3>1, <3>2, <3>3, <1>req DEF Requests
  <2>2. CASE env'[b] = env[b]
    <3> DEFINE q == env[b].req
    <3>1. q \in 1..Len(asked) /\ asked'[q] = asked[q]
      BY <2>2, <1>old, <1>req
    <3>2. b # a
      BY <2>2, <1>req DEF Free
    <3>3. asked[q].pin = Timer => handlers'[b] = q
      <4>1. asked[q].pin = Timer => handlers[b] = q
        BY <2>2, <1>inv DEF HandlersKept, IsTimer
      <4>2. b # key
        BY <3>2, KeysAssumption
      <4> QED BY <4>1, <4>2, <1>req
    <3>4. ASSUME asked[q].pin # Timer
          PROVE  handlers'[asked[q].pin] >= q /\ asked'[handlers'[asked[q].pin]].pin = asked[q].pin
      <4>1. asked[q].pin \in Pins
        BY <3>1, <3>4, <1>req DEF Asked
      <4>2. handlers[asked[q].pin] >= q /\ asked[handlers[asked[q].pin]].pin = asked[q].pin
        BY <2>2, <3>4, <1>inv DEF HandlersKept, IsTimer
      <4>3. CASE asked[q].pin = key
        <5>1. handlers'[asked[q].pin] = r
          BY <4>1, <4>3, <1>req
        <5>2. key = pin
          BY <4>1, <4>3, KeysAssumption
        <5> QED BY <5>1, <5>2, <4>3, <3>1, <1>req DEF r
      <4>4. CASE asked[q].pin # key
        <5>1. handlers'[asked[q].pin] = handlers[asked[q].pin]
          BY <4>1, <4>4, <1>req
        <5>2. handlers[asked[q].pin] \in 0..Len(asked)
          BY <4>1, <1>inv DEF TypeOK
        <5>3. handlers[asked[q].pin] \in 1..Len(asked)
          BY <5>2, <4>2, <3>1, <1>req
        <5> QED BY <5>1, <5>3, <4>2, <1>req
      <4> QED BY <4>3, <4>4
    <3> QED BY <2>2, <3>1, <3>3, <3>4
  <2> QED BY <2>1, <2>2, <1>new
<1>4. CountsKept'
  <2>1. \A q \in Requests : q > Len(asked') => called'[q] = 0
    BY <1>inv, <1>req DEF CountsKept, Requests, r
  <2>2. ASSUME NEW b \in Addresses, env'[b].req # 0, ~Endless(env[b].req)'
        PROVE  /\ called'[env'[b].req] = env'[b].counted
               /\ env'[b].counted = 0 \/ env'[b].counted <= asked'[env'[b].req].count
    <3>1. CASE b = a /\ env'[b] = [req |-> r, counted |-> 0]
      <4>1. called[r] = 0
        BY <1>inv, <1>req DEF CountsKept, r
      <4> QED BY <3>1, <4>1, <1>req
    <3>2. CASE env'[b] = env[b]
      <4>1. asked'[env[b].req] = asked[env[b].req]
        BY <2>2, <3>2, <1>old, <1>req
      <4>2. ~Endless(env[b].req)
        BY <2>2, <3>2, <4>1 DEF Endless, IsTimer
      <4> QED BY <2>2, <3>2, <4>1, <4>2, <1>inv, <1>req DEF CountsKept
    <3> QED BY <3>1, <3>2, <1>new
  <2> QED BY <2>1, <2>2 DEF CountsKept
<1>5. OwnHandler'
  <2>1. running # Nothing => running.req \in 1..Len(asked)
    BY <1>inv DEF EnvsServe, TypeOK
  <2>2. running.handler \in 0..Len(asked)
    BY <1>inv DEF TypeOK
  <2>3. running # Nothing => asked'[running.req] = asked[running.req]
    BY <2>1, <1>req
  <2>4. running # Nothing /\ running.handler > running.req =>
           asked'[running.handler] = asked[running.handler]
    BY <2>1, <2>2, <1>req
  <2> QED BY <2>1, <2>3, <2>4, <1>inv, <1>req DEF OwnHandler, IsTimer, Nothing
<1> QED BY <1>1, <1>2, <1>3, <1>4, <1>5 DEF IInv

-----------------------------------------------------------------------------
(* Callbacks.                                                               *)

\* A callback is given an env that serves its request, alone.
LEMMA ReadyFacts ==
    ASSUME IInv, NEW a \in Addresses, env[a].req \in events
    PROVE  /\ env[a].req # 0
           /\ \A b \in Addresses : env[b].req = env[a].req => b = a
<1>1. events \subseteq 1..Len(asked) /\ Len(asked) \in Nat
  BY DEF IInv, TypeOK
<1>2. env[a].req # 0
  BY <1>1
<1>3. PICK c \in Addresses :
         env[c].req = env[a].req /\ \A b \in Addresses : env[b].req = env[a].req => b = c
  BY DEF IInv, EnvsServe, Serves
<1>4. c = a
  BY <1>3
<1> QED BY <1>2, <1>3, <1>4

\* eventfd_del and free (lines 69-71, 265-267, 85-87), when no handler is being
\* run from there on.
LEMMA DeleteInv ==
    ASSUME IInv, NEW a \in Addresses, env[a].req \in events, Delete(a),
           running' = Nothing, UNCHANGED <<asked, handlers, fate, called>>
    PROVE  IInv'
<1>inv. TypeOK /\ EnvsServe /\ HandlersKept /\ CountsKept /\ OwnHandler
  BY DEF IInv
<1>a. env[a].req # 0 /\ \A b \in Addresses : env[b].req = env[a].req => b = a
  BY ReadyFacts
<1>e. events' = events \ {env[a].req}
  BY DEF Delete
<1>b. \A b \in Addresses : env'[b] = IF b = a THEN Free ELSE env[b]
  BY <1>inv DEF Delete, TypeOK
<1>1. TypeOK'
  <2>1. env' \in [Addresses -> [req : 0..Len(asked), counted : Nat]]
    BY <1>inv DEF Delete, TypeOK, Free
  <2>2. Nothing \in [req : 0..Len(asked), handler : 0..Len(asked)]
    BY <1>inv DEF Nothing, TypeOK
  <2> QED BY <2>1, <2>2, <1>inv, <1>e DEF TypeOK
<1>2. EnvsServe'
  <2>1. ASSUME NEW q \in events'
        PROVE  \E b \in Addresses : env'[b].req = q /\ \A c \in Addresses : env'[c].req = q => c = b
    <3>1. q \in events /\ q # env[a].req /\ q # 0
      BY <2>1, <1>e, <1>inv DEF TypeOK
    <3>2. PICK b \in Addresses : env[b].req = q /\ \A c \in Addresses : env[c].req = q => c = b
      BY <1>inv, <3>1 DEF EnvsServe, Serves
    <3>3. b # a
      BY <3>1, <3>2
    <3>4. \A c \in Addresses : env'[c].req = q => c = b
      BY <1>b, <3>1, <3>2 DEF Free
    <3> QED BY <1>b, <3>2, <3>3, <3>4
  <2>2. \A b \in Addresses : env'[b].req # 0 => env'[b].req \in events'
    BY <1>inv, <1>a, <1>b, <1>e DEF EnvsServe, Free
  <2> QED BY <2>1, <2>2 DEF EnvsServe, Serves, Nothing
<1>3. HandlersKept'
  BY <1>inv, <1>b DEF HandlersKept, IsTimer, Free
<1>4. CountsKept'
  BY <1>inv, <1>b DEF CountsKept, Endless, IsTimer, Free
<1>5. OwnHandler'
  BY DEF OwnHandler, Nothing
<1> QED BY <1>1, <1>2, <1>3, <1>4, <1>5 DEF IInv

\* A handler is called that the table holds for the env (lines 75-81, 271-278).
LEMMA CallInv ==
    ASSUME IInv, NEW a \in Addresses, env[a].req \in events,
           NEW key,
           key = IF IsTimer(env[a].req) THEN a ELSE asked[env[a].req].pin,
           Endless(env[a].req) \/ env[a].counted < asked[env[a].req].count,
           Call(a, key), UNCHANGED <<asked, handlers, fate>>
    PROVE  IInv'
<1> DEFINE r == env[a].req
<1>inv. TypeOK /\ EnvsServe /\ HandlersKept /\ CountsKept /\ OwnHandler
  BY DEF IInv
<1>a. r # 0 /\ \A b \in Addresses : env[b].req = r => b = a
  BY ReadyFacts
<1>r. /\ r \in 1..Len(asked) /\ r \in Requests /\ env[a].counted \in Nat
      /\ asked[r].pin \in Pins \cup {Timer} /\ asked[r].count \in Nat \cup {-1}
      /\ called[r] \in Nat
  BY <1>inv, <1>a, ServingFacts
<1>k. key \in Addresses \cup Pins
  BY <1>r DEF IsTimer
<1>run. running' = [req |-> r, handler |-> handlers[key]] /\ events' = events
  BY DEF Call
<1>same. asked' = asked /\ handlers' = handlers /\ fate' = fate
  OBVIOUS
<1>req. \A b \in Addresses : env'[b].req = env[b].req
  <2>1. env' = env \/ env' = [env EXCEPT ![a].counted = @ + 1]
    BY DEF Call
  <2>2. env \in [Addresses -> [req : 0..Len(asked), counted : Nat]]
    BY <1>inv DEF TypeOK
  <2> QED BY <2>1, <2>2
<1>1. TypeOK'
  <2>1. env' \in [Addresses -> [req : 0..Len(asked), counted : Nat]]
    <3>1. CASE env' = env
      BY <3>1, <1>inv DEF TypeOK
    <3>2. CASE env' = [env EXCEPT ![a].counted = @ + 1]
      BY <3>2, <1>inv DEF TypeOK
    <3> QED BY <3>1, <3>2 DEF Call
  <2>2. called' \in [Requests -> Nat]
    BY <1>inv, <1>r DEF TypeOK, Call
  <2>3. running' \in [req : 0..Len(asked), handler : 0..Len(asked)]
    <3>1. handlers[key] \in 0..Len(asked)
      BY <1>inv, <1>k DEF TypeOK
    <3>2. r \in 0..Len(asked)
      BY <1>inv DEF TypeOK
    <3> QED BY <3>1, <3>2, <1>run
  <2> QED BY <2>1, <2>2, <2>3, <1>inv, <1>run, <1>same DEF TypeOK
<1>2. EnvsServe'
  <2>1. running'.req \in events'
    BY <1>run
  <2> QED BY <2>1, <1>inv, <1>run, <1>req DEF EnvsServe, Serves
<1>3. HandlersKept'
  BY <1>inv, <1>req, <1>same DEF HandlersKept, IsTimer
<1>4. CountsKept'
  <2>1. CASE Endless(r)
    BY <2>1, <1>inv, <1>same DEF Call, CountsKept, Endless, IsTimer
  <2>2. CASE ~Endless(r)
    <3>1. called' = [called EXCEPT ![r] = @ + 1] /\ env' = [env EXCEPT ![a].counted = @ + 1]
      BY <2>2 DEF Call
    <3>2. called'[r] = called[r] + 1 /\ env'[a].counted = env[a].counted + 1
      BY <3>1, <1>r, <1>inv DEF TypeOK
    <3>3. \A q \in Requests : q # r => called'[q] = called[q]
      BY <3>1, <1>inv DEF TypeOK
    <3>4. \A b \in Addresses : b # a => env'[b] = env[b]
      BY <3>1, <1>inv DEF TypeOK
    <3>5. called[r] = env[a].counted
      BY <1>inv, <1>a, <2>2 DEF CountsKept
    <3>6. env[a].counted + 1 <= asked[r].count
      BY <1>r, <2>2
    <3>7. \A q \in Requests : q > Len(asked) => called'[q] = 0
      <4>1. r <= Len(asked) /\ r \in Nat /\ Len(asked) \in Nat
        BY <1>r, <1>inv DEF TypeOK
      <4> QED BY <4>1, <3>3, <1>inv DEF CountsKept, Requests
    <3>8. ASSUME NEW b \in Addresses, env[b].req # 0, ~Endless(env[b].req)
          PROVE  /\ called'[env[b].req] = env'[b].counted
                 /\ env'[b].counted = 0 \/ env'[b].counted <= asked[env[b].req].count
      <4>1. CASE b = a
        BY <4>1, <3>2, <3>5, <3>6
      <4>2. CASE b # a
        <5>1. env[b].req # r /\ env[b].req \in Requests
          BY <4>2, <1>a, <1>inv, <3>8, ServingFacts
        <5> QED BY <5>1, <4>2, <3>3, <3>4, <3>8, <1>inv DEF CountsKept
      <4> QED BY <4>1, <4>2
    <3> QED BY <3>7, <3>8, <1>req, <1>same DEF CountsKept, Endless, IsTimer
  <2> QED BY <2>1, <2>2
<1>5. OwnHandler'
  <2>1. running'.req = r /\ running'.handler = handlers[key]
    BY <1>run
  <2>2. CASE IsTimer(r)
    BY <2>1, <2>2, <1>a, <1>inv DEF HandlersKept, OwnHandler
  <2>3. CASE ~IsTimer(r)
    <3>1. key = asked[r].pin
      BY <2>3
    <3>2. handlers[key] >= r /\ asked[handlers[key]].pin = asked[r].pin
      BY <2>3, <3>1, <1>a, <1>inv DEF HandlersKept
    <3>3. handlers[key] \in Int /\ r \in Int
      BY <1>k, <1>r, <1>inv DEF TypeOK
    <3> QED BY <2>1, <2>3, <3>2, <3>3, <1>same DEF OwnHandler, IsTimer
  <2> QED BY <2>2, <2>3
<1> QED BY <1>1, <1>2, <1>3, <1>4, <1>5 DEF IInv

\* Nothing of the table, the envs and the events changes: a handler returns and
\* keeps its event, Lua panics, or a step leaves all as it is.
LEMMA QuietInv ==
    ASSUME IInv, UNCHANGED <<asked, env, handlers, events, called>>,
           running' = running \/ running' = Nothing,
           fate' \in {"alive", "exit"}
    PROVE  IInv'
<1>1. TypeOK'
  BY DEF IInv, TypeOK, Nothing
<1>2. EnvsServe'
  BY DEF IInv, EnvsServe, Serves, Nothing
<1>3. HandlersKept' /\ CountsKept'
  BY DEF IInv, HandlersKept, CountsKept, Endless, IsTimer
<1>4. OwnHandler'
  BY DEF IInv, OwnHandler, IsTimer, Nothing
<1> QED BY <1>1, <1>2, <1>3, <1>4 DEF IInv

-----------------------------------------------------------------------------
(* Steps.                                                                   *)

\* An event that is not spent has calls left (lines 68 and 264).
LEMMA CallsLeft ==
    ASSUME IInv, NEW a \in Addresses, env[a].req \in events,
           IF IsTimer(env[a].req) THEN ~TimerSpent(a) ELSE ~SignalSpent(a)
    PROVE  Endless(env[a].req) \/ env[a].counted < asked[env[a].req].count
<1>1. env[a].counted \in Nat /\ asked[env[a].req].count \in Nat \cup {-1}
  BY ReadyFacts, ServingFacts DEF IInv
<1> QED BY <1>1 DEF TimerSpent, SignalSpent, Endless

\* A spent event has made the calls it was asked for.
LEMMA CallsMade ==
    ASSUME IInv, NEW a \in Addresses, env[a].req \in events,
           IF IsTimer(env[a].req) THEN TimerSpent(a) ELSE SignalSpent(a)
    PROVE  called[env[a].req] =
               IF asked[env[a].req].count = -1 /\ IsTimer(env[a].req) THEN 0
               ELSE asked[env[a].req].count
<1>1. /\ env[a].req # 0 /\ env[a].counted \in Nat
      /\ asked[env[a].req].count \in Nat \cup {-1}
  BY ReadyFacts, ServingFacts DEF IInv
<1>2. ~Endless(env[a].req)
  BY DEF Endless, SignalSpent
<1>3. /\ called[env[a].req] = env[a].counted
      /\ env[a].counted = 0 \/ env[a].counted <= asked[env[a].req].count
  BY <1>1, <1>2 DEF IInv, CountsKept
<1>4. CASE asked[env[a].req].count = -1
  BY <1>1, <1>2, <1>3, <1>4 DEF Endless
<1>5. CASE asked[env[a].req].count # -1
  <2>1. env[a].counted >= asked[env[a].req].count
    BY DEF TimerSpent, SignalSpent
  <2> QED BY <1>1, <1>3, <1>5, <2>1
<1> QED BY <1>4, <1>5

LEMMA StepInv == IInv /\ [Next]_vars => IInv'
<1> SUFFICES ASSUME IInv, [Next]_vars PROVE IInv'
  OBVIOUS
<1>alive. fate \in {"alive", "exit"}
  BY DEF IInv, TypeOK
<1>1. CASE \E a \in Addresses, n \in Counts :
               Timeout(a, n) \/ \E p \in Pins : GpioSignal(a, p, n)
  BY <1>1, RequestInv DEF Timeout, GpioSignal
<1>2. ASSUME NEW a \in Addresses, TimeoutWrap(a) PROVE IInv'
  <2>1. env[a].req \in events /\ running = Nothing /\ IsTimer(env[a].req)
    BY <1>2 DEF TimeoutWrap, Ready
  <2>2. UNCHANGED <<asked, handlers, fate>>
    BY <1>2 DEF TimeoutWrap
  <2>3. CASE TimerSpent(a)
    <3>1. Delete(a) /\ UNCHANGED <<running, called>>
      BY <1>2, <2>3 DEF TimeoutWrap
    <3> QED BY <2>1, <2>2, <3>1, DeleteInv
  <2>4. CASE ~TimerSpent(a)
    <3>1. Call(a, a)
      BY <1>2, <2>4 DEF TimeoutWrap
    <3> QED BY <2>1, <2>2, <2>4, <3>1, CallsLeft, CallInv
  <2> QED BY <2>3, <2>4
<1>3. ASSUME NEW a \in Addresses, GpioSignalWrap(a) PROVE IInv'
  <2>1. env[a].req \in events /\ running = Nothing /\ ~IsTimer(env[a].req)
    BY <1>3 DEF GpioSignalWrap, Ready
  <2>2. UNCHANGED <<asked, handlers, fate>>
    BY <1>3 DEF GpioSignalWrap
  <2>3. CASE SignalSpent(a)
    <3>1. Delete(a) /\ UNCHANGED <<running, called>>
      BY <1>3, <2>3 DEF GpioSignalWrap
    <3> QED BY <2>1, <2>2, <3>1, DeleteInv
  <2>4. CASE ~SignalSpent(a)
    <3>1. Call(a, asked[env[a].req].pin)
      BY <1>3, <2>4 DEF GpioSignalWrap
    <3> QED BY <2>1, <2>2, <2>4, <3>1, CallsLeft, CallInv
  <2> QED BY <2>3, <2>4
<1>4. CASE Return
  <2>1. CASE UNCHANGED <<env, events>>
    BY <1>4, <2>1, <1>alive, QuietInv DEF Return
  <2>2. ASSUME NEW a \in Addresses, Serves(a, running.req), Delete(a) PROVE IInv'
    <3>1. env[a].req \in events
      BY <1>4, <2>2 DEF IInv, EnvsServe, Serves, Return
    <3> QED BY <1>4, <2>2, <3>1, DeleteInv DEF Return
  <2> QED BY <1>4, <2>1, <2>2 DEF Return
<1>5. CASE Panic
  BY <1>5, QuietInv DEF Panic
<1>6. CASE UNCHANGED vars
  BY <1>6, <1>alive, QuietInv DEF vars
<1> QED BY <1>1, <1>2, <1>3, <1>4, <1>5, <1>6 DEF Next

LEMMA Invariance == Spec => []IInv
<1> QED BY InitInv, StepInv, PTL DEF Spec

-----------------------------------------------------------------------------
(* The theorems.                                                            *)

\* Every variable keeps its type, over any sequence of requests and callbacks.
THEOREM TypeCorrect == Spec => []TypeOK
<1>1. IInv => TypeOK
  BY DEF IInv
<1> QED BY <1>1, Invariance, PTL

\* No callback is ever given an env that was freed or serves another request,
\* and no env is left without its event, whatever handlers do to themselves and
\* however malloc gives addresses out again.
THEOREM EnvsAlwaysServe == Spec => []EnvsServe
<1>1. IInv => EnvsServe
  BY DEF IInv
<1> QED BY <1>1, Invariance, PTL

\* A timer calls the handler it came with, a signal that or one of a later
\* request for its pin.
THEOREM HandlersAreOwn == Spec => []OwnHandler
<1>1. IInv => OwnHandler
  BY DEF IInv
<1> QED BY <1>1, Invariance, PTL

\* An event that no handler stops ends after exactly the calls asked for.
THEOREM CallsAreExact == Spec => CallsExact
<1>1. ASSUME IInv, [Next]_vars
      PROVE  [\A r \in events \ events' :
                 running = Nothing =>
                     called[r] = IF asked[r].count = -1 /\ IsTimer(r) THEN 0
                                 ELSE asked[r].count]_vars
  <2> SUFFICES ASSUME NEW r \in events \ events', running = Nothing
               PROVE  called[r] = IF asked[r].count = -1 /\ IsTimer(r) THEN 0
                                  ELSE asked[r].count
    OBVIOUS
  <2>0. events' # events
    OBVIOUS
  <2>1. CASE \E a \in Addresses, n \in Counts :
                 Timeout(a, n) \/ \E p \in Pins : GpioSignal(a, p, n)
    BY <2>1 DEF Timeout, GpioSignal, Request, Registered
  <2>2. ASSUME NEW a \in Addresses, TimeoutWrap(a)
        PROVE  called[r] = IF asked[r].count = -1 /\ IsTimer(r) THEN 0
                           ELSE asked[r].count
    <3>1. TimerSpent(a) /\ Delete(a)
      BY <2>0, <2>2 DEF TimeoutWrap, Call
    <3>2. r = env[a].req
      BY <3>1 DEF Delete
    <3>3. env[a].req \in events /\ IsTimer(env[a].req)
      BY <2>2 DEF TimeoutWrap, Ready
    <3> QED BY <1>1, <3>1, <3>2, <3>3, CallsMade
  <2>3. ASSUME NEW a \in Addresses, GpioSignalWrap(a)
        PROVE  called[r] = IF asked[r].count = -1 /\ IsTimer(r) THEN 0
                           ELSE asked[r].count
    <3>1. SignalSpent(a) /\ Delete(a)
      BY <2>0, <2>3 DEF GpioSignalWrap, Call
    <3>2. r = env[a].req
      BY <3>1 DEF Delete
    <3>3. env[a].req \in events /\ ~IsTimer(env[a].req)
      BY <2>3 DEF GpioSignalWrap, Ready
    <3> QED BY <1>1, <3>1, <3>2, <3>3, CallsMade
  <2>4. ~Return /\ ~Panic /\ ~UNCHANGED vars
    BY <2>0 DEF Return, Panic, vars
  <2> QED BY <1>1, <2>1, <2>2, <2>3, <2>4 DEF Next
<1> QED BY <1>1, Invariance, PTL DEF Spec, CallsExact
=============================================================================
