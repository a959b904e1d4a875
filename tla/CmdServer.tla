------------------------------ MODULE CmdServer ------------------------------
(***************************************************************************)
(* The command server of src/raspd/raspd.c: clients connect, send commands   *)
(* separated by ";" over a byte stream, and read a reply to each.  The       *)
(* network delivers the stream in pieces of its own choosing; cb_recv reads  *)
(* what is there into a buffer of its own, splits it at the separators and   *)
(* dispatches and answers every token before it returns to the event loop.   *)
(*                                                                          *)
(* A stream is kept whole, with a cursor for what the network has delivered  *)
(* and one for what cb_recv has read; a token is a stretch of the stream,    *)
(* from one position to another.  Whatever stands there is run: a command    *)
(* that a read cuts is run in pieces, each as a command of its own.          *)
(***************************************************************************)
EXTENDS Integers, Sequences, SequencesExt

CONSTANTS
    Clients,
    Letters,   \* the symbols of commands; BufSize and MaxSend count symbols
    Commands,  \* the lines that clients send, arguments and all
    Exit,      \* the line that runs the module "exit"
    BufSize,   \* BUF_SIZE
    ReplyRoom, \* replies the socket buffers hold before a write fails
    MaxSend    \* bound, per client: the length of its stream

Sep == ";"
Nobody == "nobody"

ASSUME BoundsAssumption ==
    BufSize \in Nat \ {0} /\ ReplyRoom \in Nat
ASSUME MaxSendAssumption == MaxSend \in [Clients -> Nat]
ASSUME ClientsAssumption == Nobody \notin Clients
ASSUME CommandsAssumption ==
    Sep \notin Letters /\ Commands \subseteq Seq(Letters) \ {<<>>}

VARIABLES
    server,   \* "loop", "exiting" (loopexit asked for), "stopped", "killed"
    conn,     \* per client: where its connection is
    peer,     \* per client: "here", "gone" (it closed), "reset" (so we know)
    stream,   \* per client: the symbols it has sent
    delivered, taken,     \* per client: how many of them arrived, were read
    unread,   \* per client: replies it has not read yet
    work,     \* the running cb_recv: its client and the tokens left
    ends, lost,           \* history, per client: where a read ended, and where
                          \* it had no room for the symbol
    dispatched, replied   \* history, per client: tokens run, replies written

clients == <<conn, peer, stream, delivered, unread>>
history == <<ends, lost, dispatched, replied>>
vars == <<server, clients, taken, work, history>>

Running == server \in {"loop", "exiting"}
InLoop == Running /\ work.client = Nobody

-----------------------------------------------------------------------------
Init ==
    /\ server = "loop"
    /\ conn = [c \in Clients |-> "none"]
    /\ peer = [c \in Clients |-> "here"]
    /\ stream = [c \in Clients |-> <<>>]
    /\ delivered = [c \in Clients |-> 0]
    /\ taken = [c \in Clients |-> 0]
    /\ unread = [c \in Clients |-> 0]
    /\ work = [client |-> Nobody, tokens |-> <<>>]
    /\ ends = [c \in Clients |-> {}]
    /\ lost = [c \in Clients |-> {}]
    /\ dispatched = [c \in Clients |-> <<>>]
    /\ replied = [c \in Clients |-> 0]

-----------------------------------------------------------------------------
(* External: the clients and the network.                                   *)

Connect(c) ==
    /\ conn[c] = "none"
    /\ Running
    /\ conn' = [conn EXCEPT ![c] = "backlog"]
    /\ UNCHANGED <<server, peer, stream, delivered, unread, taken, work, history>>

\* client_send_cmd of src/client: commands go out without waiting for replies.
Send(c, cmd) ==
    /\ conn[c] \in {"backlog", "open"}
    /\ peer[c] = "here"
    /\ Len(stream[c]) + Len(cmd) + 1 <= MaxSend[c]
    /\ stream' = [stream EXCEPT ![c] = @ \o Append(cmd, Sep)]
    /\ UNCHANGED <<server, conn, peer, delivered, unread, taken, work, history>>

Deliver(c) ==
    /\ peer[c] # "reset"
    /\ \E n \in delivered[c] + 1..Len(stream[c]) :
         delivered' = [delivered EXCEPT ![c] = n]
    /\ UNCHANGED <<server, conn, peer, stream, unread, taken, work, history>>

ReadReply(c) ==
    /\ peer[c] = "here"
    /\ unread[c] > 0
    /\ unread' = [unread EXCEPT ![c] = @ - 1]
    /\ UNCHANGED <<server, conn, peer, stream, delivered, taken, work, history>>

\* Closing with replies unread resets the connection at once.
Close(c) ==
    /\ conn[c] \in {"backlog", "open"}
    /\ peer[c] = "here"
    /\ peer' = [peer EXCEPT ![c] = IF unread[c] > 0 THEN "reset" ELSE "gone"]
    /\ UNCHANGED <<server, conn, stream, delivered, unread, taken, work, history>>

-----------------------------------------------------------------------------
(* The server's callbacks.                                                  *)

\* cb_listen; a failing fcntl or event_add closes the socket again.
Accept(c) ==
    /\ InLoop
    /\ conn[c] = "backlog"
    /\ conn' = [conn EXCEPT ![c] = "open"]
    /\ UNCHANGED <<server, peer, stream, delivered, unread, taken, work, history>>

\* The numbers of a set in their order.
Increasing(f) == \A i, j \in DOMAIN f : i < j => f[i] < f[j]
InOrder(S) == CHOOSE f \in [1..Cardinality(S) -> S] : Increasing(f)

\* strtok_r over the positions first..last of a stream s: the stretches between
\* separators, none of them empty.
Tokens(s, first, last) ==
    LET final == {i \in first..last : /\ s[i] # Sep
                                      /\ i = last \/ s[i + 1] = Sep}
        start(e) == CHOOSE b \in first..e :
                       /\ \A i \in b..e : s[i] # Sep
                       /\ b = first \/ s[b - 1] = Sep
        order == InOrder(final)
    IN  [k \in DOMAIN order |-> [from |-> start(order[k]), to |-> order[k]]]

MutKept(size) == size - 1

\* A full buffer loses its last symbol to the NUL (lines 42-45).
Kept(size) == IF size = BufSize THEN size - 1 ELSE size

\* cb_recv, the read of what has arrived.
Receive(c) ==
    LET there == delivered[c] - taken[c]
        size  == IF there < BufSize THEN there ELSE BufSize
        last  == taken[c] + size
    IN
    /\ InLoop
    /\ conn[c] = "open"
    /\ peer[c] # "reset"
    /\ there > 0
    /\ work' = [client |-> c,
                tokens |-> Tokens(stream[c], taken[c] + 1, taken[c] + Kept(size))]
    /\ taken' = [taken EXCEPT ![c] = last]
    /\ ends' = [ends EXCEPT ![c] = @ \cup {last}]
    /\ lost' = IF size = BufSize THEN [lost EXCEPT ![c] = @ \cup {last}] ELSE lost
    /\ UNCHANGED <<server, clients, dispatched, replied>>

\* At the end of the stream read returns 0, which is not < 0: cb_recv changes
\* nothing, and its event stays and fires again (lines 77-80).

\* cb_recv on a reset connection: read fails, the event and info are freed; the
\* descriptor is never closed.
ReceiveError(c) ==
    /\ InLoop
    /\ conn[c] = "open"
    /\ peer[c] = "reset"
    /\ conn' = [conn EXCEPT ![c] = "dropped"]
    /\ UNCHANGED <<server, peer, stream, delivered, unread, taken, work, history>>

\* Every token runs something: the module its first word names, with the words
\* after it, or luamisc with all of them.  "exit" ends the loop.
IsExit(c, token) == SubSeq(stream[c], token.from, token.to) = Exit

MutAnswer(c) ==
    /\ unread' = [unread EXCEPT ![c] = @ + 2]
    /\ replied' = [replied EXCEPT ![c] = @ + 2]
MutAnswerLast(c) ==
    IF unread[c] < ReplyRoom /\ Len(work.tokens) = 1
    THEN /\ unread' = [unread EXCEPT ![c] = @ + 1]
         /\ replied' = [replied EXCEPT ![c] = @ + 1]
    ELSE UNCHANGED <<unread, replied>>

\* "OK" or "ERR": one reply, lost (EAGAIN) when the socket has no room for it.
Answer(c) ==
    IF unread[c] < ReplyRoom
    THEN /\ unread' = [unread EXCEPT ![c] = @ + 1]
         /\ replied' = [replied EXCEPT ![c] = @ + 1]
    ELSE UNCHANGED <<unread, replied>>

\* Lines 47-60, one token of the running cb_recv: run it, and write the reply
\* without looking at what write returned.
Dispatch ==
    LET c     == work.client
        token == Head(work.tokens)
        after == IF IsExit(c, token) THEN "exiting" ELSE server
    IN
    /\ Running
    /\ c # Nobody
    /\ work.tokens # <<>>
    /\ work' = [work EXCEPT !.tokens = Tail(@)]
    /\ dispatched' = [dispatched EXCEPT ![c] = Append(@, token)]
    /\ \/ /\ peer[c] = "here"
          /\ server' = after
          /\ Answer(c)
          /\ UNCHANGED peer
       \/ /\ peer[c] = "gone"   \* the write provokes a reset, sooner or later
          /\ server' = after
          /\ peer' \in {peer, [peer EXCEPT ![c] = "reset"]}
          /\ UNCHANGED <<unread, replied>>
       \/ /\ peer[c] = "reset"  \* SIGPIPE, and so `terminate'
          /\ server' = "killed"
          /\ UNCHANGED <<unread, replied, peer>>
    /\ UNCHANGED <<conn, stream, delivered, taken, ends, lost>>

Return ==
    /\ work.client # Nobody
    /\ work.tokens = <<>>
    /\ work' = [work EXCEPT !.client = Nobody]
    /\ UNCHANGED <<server, clients, taken, history>>

\* event_base_loopexit takes effect between two callbacks.
LoopExit ==
    /\ InLoop
    /\ server = "exiting"
    /\ server' = "stopped"
    /\ UNCHANGED <<clients, taken, work, history>>

Next ==
    \/ \E c \in Clients : \/ Connect(c)
                          \/ \E cmd \in Commands : Send(c, cmd)
                          \/ Deliver(c)
                          \/ ReadReply(c)
                          \/ Close(c)
                          \/ Accept(c)
                          \/ Receive(c)
                          \/ ReceiveError(c)
    \/ Dispatch
    \/ Return
    \/ LoopExit

Spec == Init /\ [][Next]_vars

-----------------------------------------------------------------------------
(* Properties.                                                              *)

Symbols == Letters \cup {Sep}
Stretch == [from : Nat, to : Nat]

TypeOK ==
    /\ server \in {"loop", "exiting", "stopped", "killed"}
    /\ conn \in [Clients -> {"none", "backlog", "open", "dropped"}]
    /\ peer \in [Clients -> {"here", "gone", "reset"}]
    /\ \A c \in Clients : /\ stream[c] \in Seq(Symbols)
                          /\ Len(stream[c]) <= MaxSend[c]
                          /\ taken[c] <= delivered[c]
                          /\ delivered[c] <= Len(stream[c])
                          /\ unread[c] \in 0..ReplyRoom
                          /\ dispatched[c] \in Seq(Stretch)
                          /\ replied[c] <= Len(dispatched[c])
    /\ work.client \in Clients \cup {Nobody}

\* What a client's callbacks have run, and then what the running one has left.
Handed(c) ==
    dispatched[c] \o (IF work.client = c THEN work.tokens ELSE <<>>)

\* A stretch without separators that begins and ends where the stream was cut:
\* at a separator, at an end of a read, or at the symbol a full buffer lost.
CutOut(c, t) ==
    /\ t.from \in 1..t.to /\ t.to <= taken[c]
    /\ \A i \in t.from..t.to : stream[c][i] # Sep /\ i \notin lost[c]
    /\ t.from = 1 \/ t.from - 1 \in ends[c] \/ stream[c][t.from - 1] = Sep
    /\ t.to \in ends[c] \/ t.to + 1 \in lost[c] \/ stream[c][t.to + 1] = Sep

\* A command as it was sent, with its separator, that was read in one piece.
ReadWhole(c, t) ==
    /\ t.from \in 1..t.to /\ t.to <= taken[c]
    /\ \A i \in t.from..t.to : stream[c][i] # Sep
    /\ t.from = 1 \/ stream[c][t.from - 1] = Sep
    /\ stream[c][t.to + 1] = Sep
    /\ (t.from..t.to - 1) \cap ends[c] = {}
    /\ t.to \notin lost[c]

\* A client's stream is run in the order it was sent, nothing of it twice and
\* nothing of another's; it is cut where it says so or where a read ends, and
\* one symbol short there if the buffer was full; and every command that a
\* read took whole is run as it was sent, or still to be.  This is all that
\* lines 38-52 keep: what runs of a command that was cut, `pwm --set 5' of
\* `pwm --set 500', is a command that nobody sent.
RunsAsRead ==
    \A c \in Clients :
        /\ \A i, j \in DOMAIN Handed(c) : i < j => Handed(c)[i].to < Handed(c)[j].from
        /\ \A i \in DOMAIN Handed(c) : CutOut(c, Handed(c)[i])
        /\ \A t \in [from : 1..taken[c], to : 1..taken[c]] :
               ReadWhole(c, t) => \E i \in DOMAIN Handed(c) : Handed(c)[i] = t

\* A reply is missing only where the client has left as many replies unread as
\* the socket holds, a client is never sent a reply it has no token for, and
\* the daemon dies of no reply but one to a client that closed its connection
\* with replies unread; else it leaves its loop only for the command "exit".
RepliesPaired ==
    /\ \A c \in Clients :
           /\ unread[c] <= replied[c] /\ replied[c] <= Len(dispatched[c])
           /\ replied[c] < Len(dispatched[c]) => \/ replied[c] >= ReplyRoom
                                                 \/ peer[c] # "here"
    /\ server = "killed" =>
           \E c \in Clients : peer[c] = "reset" /\ Len(dispatched[c]) > replied[c]
    /\ server \in {"exiting", "stopped"} =>
           \E c \in Clients : \E t \in ToSet(dispatched[c]) : IsExit(c, t)
=============================================================================
