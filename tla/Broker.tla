------------------------------- MODULE Broker -------------------------------
(***************************************************************************)
(* services/sse-push: the Broker (broker.go), the NATS callbacks that      *)
(* broadcast into it and the SSE handlers that subscribe to it (main.go).    *)
(*                                                                         *)
(* Actors: one NATS callback goroutine per subject (nats.go runs the       *)
(* callbacks of one subscription one after the other), one handler         *)
(* goroutine per HTTP connection, and the browsers, which come, stall and  *)
(* leave as they like.  A connection of Conns is used once; a browser that *)
(* comes back is another member.  An event is its subject and its number:  *)
(* the payload is never looked at.                                         *)
(***************************************************************************)
EXTENDS Naturals, Sequences, FiniteSets

CONSTANTS
    Conns,       \* HTTP connections to GET /sse over the life of the process
    Subjects,    \* NATS subjects, the keys of natsToSSE
    Cap,         \* capacity of a client channel (64 in the code)
    MaxEvents,   \* bound: events NATS delivers on one subject
    None         \* not a goroutine

ASSUME BrokerAssumption ==
    /\ Cap \in Nat \ {0}
    /\ MaxEvents \in Nat
    /\ Conns \cap Subjects = {}
    /\ None \notin Conns \cup Subjects

VARIABLES
    crashed,     \* a goroutine has panicked: the process is gone
    writer, readers, waiting,      \* Broker.mu
    clients,     \* Broker.clients
    chan,        \* chan[c]: the channel of c: nil, open, closed
    buf,         \* buf[c]: the events buffered in it
    pc,          \* pc[c]: where the handler of c stands
    gone,        \* gone[c]: r.Context() of c is done
    cb,          \* cb[s]: where the callback of s stands
    todo,        \* todo[s]: the channels its range loop has yet to visit
    sent         \* sent[s]: events NATS has handed to the callback of s

muVars == <<writer, readers, waiting>>
vars == <<crashed, muVars, clients, chan, buf, pc, gone, cb, todo, sent>>

Mu == INSTANCE RWMutex

Event == [subject : Subjects, n : 1..MaxEvents]

ConnState == {"new", "subscribe", "subscribing", "count", "counting", "select", "flush",
              "farewell", "farewelling", "unsubscribe", "deleting", "closing", "done"}

Init ==
    /\ crashed = FALSE
    /\ Mu!Unlocked
    /\ clients = {}
    /\ chan = [c \in Conns |-> "nil"]
    /\ buf = [c \in Conns |-> << >>]
    /\ pc = [c \in Conns |-> "new"]
    /\ gone = [c \in Conns |-> FALSE]
    /\ cb = [s \in Subjects |-> "idle"]
    /\ todo = [s \in Subjects |-> {}]
    /\ sent = [s \in Subjects |-> 0]

Goto(c, from, to) == pc[c] = from /\ pc' = [pc EXCEPT ![c] = to]

-----------------------------------------------------------------------------
(* Broadcast, run by the NATS callback of subject s.                        *)

\* NATS hands the next event to the callback, which calls RLock.
Deliver(s) ==
    /\ cb[s] = "idle" /\ sent[s] < MaxEvents
    /\ sent' = [sent EXCEPT ![s] = @ + 1]
    /\ cb' = [cb EXCEPT ![s] = "rlock"]
    /\ Mu!RLock(s)
    /\ UNCHANGED <<crashed, clients, chan, buf, pc, gone, todo>>

StartLoop(s) ==
    /\ cb[s] = "rlock" /\ Mu!HasRLock(s)
    /\ cb' = [cb EXCEPT ![s] = "loop"]
    /\ todo' = [todo EXCEPT ![s] = clients]
    /\ UNCHANGED <<crashed, muVars, clients, chan, buf, pc, gone, sent>>

\* Mutants of Send: one event too many; a send that waits for room.
Send_OneTooMany(s, c) ==
    /\ cb[s] = "loop" /\ c \in todo[s]
    /\ todo' = [todo EXCEPT ![s] = @ \ {c}]
    /\ crashed' = (chan[c] = "closed")
    /\ buf' = IF chan[c] = "open" /\ Len(buf[c]) <= Cap
              THEN [buf EXCEPT ![c] = Append(@, [subject |-> s, n |-> sent[s]])]
              ELSE buf
    /\ UNCHANGED <<muVars, clients, chan, pc, gone, cb, sent>>

Send_Waits(s, c) ==
    /\ Len(buf[c]) < Cap
    /\ Send_OneTooMany(s, c)

\* The non-blocking send: buffered, dropped when the buffer is full, and a
\* panic, which ends the process, on a closed channel.
Send(s, c) ==
    /\ cb[s] = "loop" /\ c \in todo[s]
    /\ todo' = [todo EXCEPT ![s] = @ \ {c}]
    /\ crashed' = (chan[c] = "closed")
    /\ buf' = IF chan[c] = "open" /\ Len(buf[c]) < Cap
              THEN [buf EXCEPT ![c] = Append(@, [subject |-> s, n |-> sent[s]])]
              ELSE buf
    /\ UNCHANGED <<muVars, clients, chan, pc, gone, cb, sent>>

\* Mutant of EndLoop: the drop leaves the loop instead of the select.
EndLoop_AtFullClient(s) ==
    /\ cb[s] = "loop"
    /\ todo[s] = {} \/ \E c \in clients \ todo[s] : Len(buf[c]) = Cap
    /\ todo' = [todo EXCEPT ![s] = {}]
    /\ cb' = [cb EXCEPT ![s] = "idle"]
    /\ Mu!RUnlock(s)
    /\ UNCHANGED <<crashed, clients, chan, buf, pc, gone, sent>>

EndLoop(s) ==
    /\ cb[s] = "loop" /\ todo[s] = {}
    /\ cb' = [cb EXCEPT ![s] = "idle"]
    /\ Mu!RUnlock(s)
    /\ UNCHANGED <<crashed, clients, chan, buf, pc, gone, todo, sent>>

-----------------------------------------------------------------------------
(* sseHandler, run by the goroutine of connection c.                        *)

\* A request arrives; the handler writes its headers and the first keepalive,
\* and Subscribe makes the channel.
Connect(c) ==
    /\ Goto(c, "new", "subscribe")
    /\ chan' = [chan EXCEPT ![c] = "open"]
    /\ UNCHANGED <<crashed, muVars, clients, buf, gone, cb, todo, sent>>

\* Subscribe and Unsubscribe ask for the write lock.
AskLock(c) ==
    /\ \/ Goto(c, "subscribe", "subscribing")
       \/ Goto(c, "unsubscribe", "deleting")
    /\ Mu!Lock(c)
    /\ UNCHANGED <<crashed, clients, chan, buf, gone, cb, todo, sent>>

Register(c) ==
    /\ Mu!HasLock(c)
    /\ Goto(c, "subscribing", "count")
    /\ clients' = clients \cup {c}
    /\ Mu!Unlock
    /\ UNCHANGED <<crashed, chan, buf, gone, cb, todo, sent>>

\* ClientCount, called for the log line of a connect and of a disconnect.
AskCount(c) ==
    /\ \/ Goto(c, "count", "counting")
       \/ Goto(c, "farewell", "farewelling")
    /\ Mu!RLock(c)
    /\ UNCHANGED <<crashed, clients, chan, buf, gone, cb, todo, sent>>

EndCount(c) ==
    /\ Mu!HasRLock(c)
    /\ \/ Goto(c, "counting", "select")
       \/ Goto(c, "farewelling", "unsubscribe")
    /\ Mu!RUnlock(c)
    /\ UNCHANGED <<crashed, clients, chan, buf, gone, cb, todo, sent>>

\* The select's three cases.  Those that write then wait in Fprint and Flush
\* for as long as the browser does not read: there is no write timeout.
Receive(c) ==
    /\ buf[c] # << >>
    /\ Goto(c, "select", "flush")
    /\ buf' = [buf EXCEPT ![c] = Tail(@)]
    /\ UNCHANGED <<crashed, muVars, clients, chan, gone, cb, todo, sent>>

Keepalive(c) ==
    /\ Goto(c, "select", "flush")
    /\ UNCHANGED <<crashed, muVars, clients, chan, buf, gone, cb, todo, sent>>

\* Mutant of Cancelled: the deferred Unsubscribe is missing.
Cancelled_NoUnsubscribe(c) ==
    /\ gone[c]
    /\ Goto(c, "select", "done")
    /\ UNCHANGED <<crashed, muVars, clients, chan, buf, gone, cb, todo, sent>>

Cancelled(c) ==
    /\ gone[c]
    /\ Goto(c, "select", "farewell")
    /\ UNCHANGED <<crashed, muVars, clients, chan, buf, gone, cb, todo, sent>>

\* The write returns: the browser has read, or the connection is dead.
Flushed(c) ==
    /\ Goto(c, "flush", "select")
    /\ UNCHANGED <<crashed, muVars, clients, chan, buf, gone, cb, todo, sent>>

\* Mutants of Delete and Close: no wait for the readers; no Unlock.
Delete_UnderReaders(c) ==
    /\ writer = c
    /\ Goto(c, "deleting", "closing")
    /\ clients' = clients \ {c}
    /\ UNCHANGED <<crashed, muVars, chan, buf, gone, cb, todo, sent>>

Close_NoUnlock(c) ==
    /\ Goto(c, "closing", "done")
    /\ crashed' = (chan[c] # "open")
    /\ chan' = [chan EXCEPT ![c] = "closed"]
    /\ UNCHANGED <<muVars, clients, buf, gone, cb, todo, sent>>

\* The deferred Unsubscribe: delete, then close, then Unlock.
Delete(c) ==
    /\ Mu!HasLock(c)
    /\ Goto(c, "deleting", "closing")
    /\ clients' = clients \ {c}
    /\ UNCHANGED <<crashed, muVars, chan, buf, gone, cb, todo, sent>>

Close(c) ==
    /\ Goto(c, "closing", "done")
    /\ crashed' = (chan[c] # "open")
    /\ chan' = [chan EXCEPT ![c] = "closed"]
    /\ Mu!Unlock
    /\ UNCHANGED <<clients, buf, gone, cb, todo, sent>>

-----------------------------------------------------------------------------
(* The browsers.                                                            *)

\* The browser of c leaves: net/http cancels the request's context.
Disconnect(c) ==
    /\ ~gone[c] /\ pc[c] \notin {"new", "done"}
    /\ gone' = [gone EXCEPT ![c] = TRUE]
    /\ UNCHANGED <<crashed, muVars, clients, chan, buf, pc, cb, todo, sent>>

\* Within the bounds, nothing is left to happen.
Rest ==
    /\ \A c \in Conns : pc[c] = "done"
    /\ \A s \in Subjects : cb[s] = "idle" /\ sent[s] = MaxEvents
    /\ UNCHANGED vars

-----------------------------------------------------------------------------

Broadcasting(s) == StartLoop(s) \/ (\E c \in Conns : Send(s, c)) \/ EndLoop(s)

Handling(c) ==
    \/ AskLock(c) \/ Register(c) \/ AskCount(c) \/ EndCount(c)
    \/ Cancelled(c) \/ Delete(c) \/ Close(c)

Work ==
    \/ \E s \in Subjects : Deliver(s) \/ Broadcasting(s)
    \/ \E c \in Conns :
          \/ Connect(c) \/ Handling(c) \/ Receive(c) \/ Keepalive(c)
          \/ Flushed(c) \/ Disconnect(c)

Next == (~crashed /\ Work) \/ Rest

Spec == Init /\ [][Next]_vars

\* The Go scheduler runs a goroutine that can run.  Strong fairness stands for
\* the fair choices of the runtime: a mutex in starvation mode serves its
\* waiters in order, and select picks at random among its ready cases.  A
\* write to a browser that reads nothing may never return; one to a dead
\* connection does.  Nothing makes NATS deliver or a browser come or leave.
Fairness ==
    /\ \A s \in Subjects : WF_vars(Broadcasting(s))
    /\ \A c \in Conns : SF_vars(Handling(c))
    /\ \A c \in Conns : WF_vars(gone[c] /\ Flushed(c))

FairSpec == Spec /\ Fairness

-----------------------------------------------------------------------------
(* Properties.                                                              *)

\* Every variable has its type, and no channel holds more than its capacity.
TypeOK ==
    /\ crashed \in BOOLEAN
    /\ writer \in Conns \cup {None}
    /\ readers \subseteq Conns \cup Subjects
    /\ waiting \subseteq Conns \cup Subjects
    /\ clients \subseteq Conns
    /\ chan \in [Conns -> {"nil", "open", "closed"}]
    /\ buf \in [Conns -> Seq(Event)]
    /\ \A c \in Conns : Len(buf[c]) <= Cap
    /\ pc \in [Conns -> ConnState]
    /\ gone \in [Conns -> BOOLEAN]
    /\ cb \in [Subjects -> {"idle", "rlock", "loop"}]
    /\ todo \in [Subjects -> SUBSET Conns]
    /\ sent \in [Subjects -> 0..MaxEvents]

\* No broadcast sends on a channel its handler has closed, and no channel is
\* closed twice: either would panic and take the whole service down.
NoPanic == ~crashed

\* A connection whose handler has returned is out of the registry, and its
\* channel is closed: nothing keeps broadcasting into the void.
NoLeak == \A c \in Conns : pc[c] = "done" => c \notin clients /\ chan[c] = "closed"

\* However long browsers stall in a write, a broadcast that NATS has started
\* comes to its end: no slow client holds up the others.
BroadcastCompletes ==
    \A s \in Subjects : cb[s] # "idle" ~> cb[s] = "idle"

\* A browser that leaves is unsubscribed in the end, however busy the feeds
\* and however stalled the other browsers.
LeaverReleased == \A c \in Conns : gone[c] ~> pc[c] = "done"

-----------------------------------------------------------------------------
(* The refinement: the queue of a subscriber is its channel's buffer, an    *)
(* event is published when the loop over the clients starts, and c has been *)
(* offered everything but the event whose loop has yet to visit it.         *)

Published(s) == IF cb[s] = "rlock" THEN sent[s] - 1 ELSE sent[s]

Offered(c, s) ==
    IF c \notin clients THEN 0
    ELSE IF c \in todo[s] THEN sent[s] - 1
    ELSE Published(s)

Fanout == INSTANCE EventFanout WITH
    Subscribers <- Conns,
    live <- clients,
    published <- [s \in Subjects |-> Published(s)],
    pos <- [c \in Conns |-> [s \in Subjects |-> Offered(c, s)]],
    queue <- buf

\* sse-push implements the promise of EventFanout: per subject each client is
\* offered every event published while it is registered, in order and once,
\* and loses one only to its own full buffer.
RefinesFanout == Fanout!Spec
=============================================================================
