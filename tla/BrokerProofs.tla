---------------------------- MODULE BrokerProofs ----------------------------
(***************************************************************************)
(* What Broker guarantees for any number of connections and subjects and   *)
(* any channel capacity, proved with TLAPS; and that it implements         *)
(* EventFanout.                                                            *)
(***************************************************************************)
EXTENDS Broker, SequenceTheorems, TLAPS

Registered == {"count", "counting", "select", "flush", "farewell", "farewelling",
               "unsubscribe", "deleting"}

\* The program counters say who owns Broker.mu, who reads under it and who
\* waits for it; and a writer that has begun to close a channel is alone.
LockInv ==
    /\ \A c \in Conns : writer = c <=> pc[c] \in {"subscribing", "deleting", "closing"}
    /\ \A c \in Conns : c \in readers \cup waiting <=> pc[c] \in {"counting", "farewelling"}
    /\ \A s \in Subjects : s \in readers \cup waiting <=> cb[s] # "idle"
    /\ \A s \in Subjects : cb[s] = "loop" => s \in readers
    /\ writer = None => waiting = {}
    /\ readers \cap waiting = {}
    /\ \A c \in Conns : pc[c] = "closing" => readers = {}

\* The registry holds exactly the connections between Register and Delete; a
\* channel is open from Connect to Close.
RegistryInv ==
    /\ \A c \in Conns : c \in clients <=> pc[c] \in Registered
    /\ \A c \in Conns : chan[c] = "nil" <=> pc[c] = "new"
    /\ \A c \in Conns : chan[c] = "closed" <=> pc[c] = "done"

\* A loop holds registered channels only, and carries an event.
LoopInv ==
    /\ \A s \in Subjects : todo[s] \subseteq clients
    /\ \A s \in Subjects : cb[s] # "loop" => todo[s] = {}
    /\ \A s \in Subjects : cb[s] # "idle" => sent[s] \in 1..MaxEvents

IInv == TypeOK /\ LockInv /\ RegistryInv /\ LoopInv /\ NoPanic

-----------------------------------------------------------------------------

LEMMA InitInv == ASSUME Init PROVE IInv
  <1> USE BrokerAssumption DEF Init, Mu!Unlocked
  <1>1. TypeOK
    <2>1. << >> \in Seq(Event) /\ Len(<< >>) = 0
      BY EmptySeq
    <2>2. buf \in [Conns -> Seq(Event)] /\ \A c \in Conns : Len(buf[c]) <= Cap
      BY <2>1
    <2>3. sent \in [Subjects -> 0..MaxEvents] /\ todo \in [Subjects -> SUBSET Conns]
      OBVIOUS
    <2>4. pc \in [Conns -> ConnState]
      BY DEF ConnState
    <2> QED BY <2>2, <2>3, <2>4 DEF TypeOK
  <1>2. LockInv /\ NoPanic
    BY DEF LockInv, NoPanic
  <1>3. RegistryInv /\ LoopInv
    BY DEF RegistryInv, Registered, LoopInv
  <1> QED BY <1>1, <1>2, <1>3 DEF IInv

\* An event of a running loop is a value of Event.
LEMMA SentEvent ==
  ASSUME TypeOK, LoopInv, NEW s \in Subjects, cb[s] = "loop"
  PROVE  [subject |-> s, n |-> sent[s]] \in Event
  BY DEF TypeOK, LoopInv, Event

\* While a writer has the lock no loop runs, so no loop holds any channel.
LEMMA WriterAlone ==
  ASSUME LockInv, LoopInv, readers = {}
  PROVE  \A s \in Subjects : cb[s] # "loop" /\ todo[s] = {}
  BY DEF LockInv, LoopInv

-----------------------------------------------------------------------------
(* One lemma per action.                                                    *)

LEMMA DeliverInv ==
  ASSUME IInv, NEW s \in Subjects, Deliver(s)
  PROVE  IInv'
  <1> USE BrokerAssumption DEF IInv, Deliver, Mu!RLock, muVars
  <1>1. TypeOK'
    BY DEF TypeOK
  <1>2. LockInv'
    BY DEF TypeOK, LockInv
  <1>3. RegistryInv'
    BY DEF TypeOK, RegistryInv
  <1>4. LoopInv' /\ NoPanic'
    BY DEF TypeOK, LoopInv, NoPanic
  <1> QED BY <1>1, <1>2, <1>3, <1>4

LEMMA StartLoopInv ==
  ASSUME IInv, NEW s \in Subjects, StartLoop(s)
  PROVE  IInv'
  <1> USE BrokerAssumption DEF IInv, StartLoop, Mu!HasRLock, muVars
  <1>1. TypeOK'
    BY DEF TypeOK
  <1>2. LockInv'
    BY DEF TypeOK, LockInv
  <1>3. RegistryInv'
    BY DEF TypeOK, RegistryInv
  <1>4. LoopInv' /\ NoPanic'
    BY DEF TypeOK, LoopInv, NoPanic
  <1> QED BY <1>1, <1>2, <1>3, <1>4

LEMMA SendInv ==
  ASSUME IInv, NEW s \in Subjects, NEW c \in Conns, Send(s, c)
  PROVE  IInv'
  <1> USE BrokerAssumption DEF IInv, Send, muVars
  <1>1. chan[c] = "open"
    BY DEF TypeOK, LoopInv, RegistryInv, Registered
  <1>2. TypeOK'
    <2> DEFINE e == [subject |-> s, n |-> sent[s]]
    <2>1. buf' \in [Conns -> Seq(Event)] /\ \A d \in Conns : Len(buf'[d]) <= Cap
      <3>1. CASE Len(buf[c]) < Cap
        <4>1. buf[c] \in Seq(Event) /\ e \in Event
          BY SentEvent DEF TypeOK
        <4>2. Append(buf[c], e) \in Seq(Event) /\ Len(Append(buf[c], e)) = Len(buf[c]) + 1
          BY <4>1, AppendProperties
        <4>3. Len(buf[c]) \in Nat
          BY <4>1, LenProperties
        <4>4. buf' = [buf EXCEPT ![c] = Append(buf[c], e)]
          BY <1>1, <3>1
        <4> QED BY <3>1, <4>2, <4>3, <4>4 DEF TypeOK
      <3>2. CASE ~(Len(buf[c]) < Cap)
        BY <1>1, <3>2 DEF TypeOK
      <3> QED BY <3>1, <3>2
    <2> QED BY <2>1 DEF TypeOK
  <1>3. LockInv'
    BY DEF TypeOK, LockInv
  <1>4. RegistryInv'
    BY DEF TypeOK, RegistryInv
  <1>5. LoopInv'
    BY DEF TypeOK, LoopInv
  <1>6. NoPanic'
    BY <1>1 DEF NoPanic
  <1> QED BY <1>2, <1>3, <1>4, <1>5, <1>6

LEMMA EndLoopInv ==
  ASSUME IInv, NEW s \in Subjects, EndLoop(s)
  PROVE  IInv'
  <1> USE BrokerAssumption DEF IInv, EndLoop, Mu!RUnlock, muVars
  <1>1. TypeOK'
    BY DEF TypeOK
  <1>2. LockInv'
    BY DEF TypeOK, LockInv
  <1>3. RegistryInv'
    BY DEF TypeOK, RegistryInv
  <1>4. LoopInv' /\ NoPanic'
    BY DEF TypeOK, LoopInv, NoPanic
  <1> QED BY <1>1, <1>2, <1>3, <1>4

LEMMA ConnectInv ==
  ASSUME IInv, NEW c \in Conns, Connect(c)
  PROVE  IInv'
  <1> USE BrokerAssumption DEF IInv, Connect, Goto, muVars
  <1>1. TypeOK'
    BY DEF TypeOK, ConnState
  <1>2. LockInv'
    BY DEF TypeOK, LockInv
  <1>3. RegistryInv'
    BY DEF TypeOK, RegistryInv, Registered
  <1>4. LoopInv' /\ NoPanic'
    BY DEF TypeOK, LoopInv, NoPanic
  <1> QED BY <1>1, <1>2, <1>3, <1>4

LEMMA AskLockInv ==
  ASSUME IInv, NEW c \in Conns, AskLock(c)
  PROVE  IInv'
  <1> USE BrokerAssumption DEF IInv, AskLock, Goto, Mu!Lock, muVars
  <1>1. TypeOK'
    BY DEF TypeOK, ConnState
  <1>2. LockInv'
    <2>1. /\ writer = None /\ writer' = c /\ waiting = {} /\ c # None
          /\ UNCHANGED <<readers, waiting, cb>>
      BY DEF LockInv
    <2>2. PICK to \in {"subscribing", "deleting"} :
             pc[c] \in {"subscribe", "unsubscribe"} /\ pc' = [pc EXCEPT ![c] = to]
      OBVIOUS
    <2>3. \A d \in Conns : writer' = d <=> pc'[d] \in {"subscribing", "deleting", "closing"}
      BY <2>1, <2>2 DEF TypeOK, LockInv
    <2>4. \A d \in Conns : d \in readers' \cup waiting' <=> pc'[d] \in {"counting", "farewelling"}
      BY <2>1, <2>2 DEF TypeOK, LockInv
    <2>5. \A d \in Conns : pc'[d] = "closing" => readers' = {}
      BY <2>1, <2>2 DEF TypeOK, LockInv
    <2> QED BY <2>1, <2>3, <2>4, <2>5 DEF LockInv
  <1>3. RegistryInv'
    BY DEF TypeOK, RegistryInv, Registered
  <1>4. LoopInv' /\ NoPanic'
    BY DEF TypeOK, LoopInv, NoPanic
  <1> QED BY <1>1, <1>2, <1>3, <1>4

LEMMA RegisterInv ==
  ASSUME IInv, NEW c \in Conns, Register(c)
  PROVE  IInv'
  <1> USE BrokerAssumption DEF IInv, Register, Goto, Mu!HasLock, Mu!Unlock
  <1>1. TypeOK'
    BY DEF TypeOK, ConnState
  <1>2. LockInv'
    BY DEF TypeOK, LockInv
  <1>3. RegistryInv'
    BY DEF TypeOK, RegistryInv, Registered
  <1>4. LoopInv' /\ NoPanic'
    BY DEF TypeOK, LoopInv, NoPanic
  <1> QED BY <1>1, <1>2, <1>3, <1>4

LEMMA AskCountInv ==
  ASSUME IInv, NEW c \in Conns, AskCount(c)
  PROVE  IInv'
  <1> USE BrokerAssumption DEF IInv
  <1>1. UNCHANGED <<crashed, writer, clients, chan, buf, gone, cb, todo, sent>>
    BY DEF AskCount, Mu!RLock
  <1>2. PICK to \in {"counting", "farewelling"} :
           /\ pc[c] \in {"count", "farewell"}
           /\ pc' = [pc EXCEPT ![c] = to]
    BY DEF AskCount, Goto
  <1>3. \/ writer = None /\ readers' = readers \cup {c} /\ waiting' = waiting
        \/ writer # None /\ waiting' = waiting \cup {c} /\ readers' = readers
    BY DEF AskCount, Mu!RLock
  <1>4. TypeOK'
    BY <1>1, <1>2, <1>3 DEF TypeOK, ConnState
  <1>5. LockInv'
    <2>1. CASE writer = None
      BY <1>1, <1>2, <1>3, <2>1 DEF TypeOK, LockInv
    <2>2. CASE writer # None
      <3>1. c \notin readers \cup waiting /\ c \notin Subjects
        BY <1>2 DEF LockInv
      <3>2. readers' = readers /\ waiting' = waiting \cup {c}
        BY <1>3, <2>2
      <3>3. /\ readers' \cap waiting' = {}
            /\ writer' = None => waiting' = {}
        BY <1>1, <2>2, <3>1, <3>2 DEF LockInv
      <3>4. /\ \A s \in Subjects : s \in readers' \cup waiting' <=> cb'[s] # "idle"
            /\ \A s \in Subjects : cb'[s] = "loop" => s \in readers'
        BY <1>1, <3>1, <3>2 DEF LockInv
      <3>5. \A d \in Conns : /\ d # c => pc'[d] = pc[d]
                            /\ pc[c] \in {"count", "farewell"}
                            /\ pc'[c] \in {"counting", "farewelling"}
        BY <1>2 DEF TypeOK
      <3>6. \A d \in Conns : d \in readers' \cup waiting' <=> pc'[d] \in {"counting", "farewelling"}
        BY <3>2, <3>5 DEF LockInv
      <3>7. \A d \in Conns : writer' = d <=> pc'[d] \in {"subscribing", "deleting", "closing"}
        BY <1>1, <3>5 DEF LockInv
      <3>8. \A d \in Conns : pc'[d] = "closing" => readers' = {}
        BY <3>2, <3>5 DEF LockInv
      <3> QED BY <3>3, <3>4, <3>6, <3>7, <3>8 DEF LockInv
    <2> QED BY <2>1, <2>2
  <1>6. RegistryInv'
    BY <1>1, <1>2 DEF TypeOK, RegistryInv, Registered
  <1>7. LoopInv' /\ NoPanic'
    BY <1>1 DEF LoopInv, NoPanic
  <1> QED BY <1>4, <1>5, <1>6, <1>7

LEMMA EndCountInv ==
  ASSUME IInv, NEW c \in Conns, EndCount(c)
  PROVE  IInv'
  <1> USE BrokerAssumption DEF IInv
  <1>1. /\ UNCHANGED <<crashed, writer, waiting, clients, chan, buf, gone, cb, todo, sent>>
        /\ c \in readers /\ readers' = readers \ {c}
    BY DEF EndCount, Mu!HasRLock, Mu!RUnlock
  <1>2. PICK to \in {"select", "unsubscribe"} :
           /\ pc[c] \in {"counting", "farewelling"}
           /\ pc' = [pc EXCEPT ![c] = to]
    BY DEF EndCount, Goto
  <1>3. TypeOK'
    BY <1>1, <1>2 DEF TypeOK, ConnState
  <1>4. LockInv'
    BY <1>1, <1>2 DEF TypeOK, LockInv
  <1>5. RegistryInv'
    BY <1>1, <1>2 DEF TypeOK, RegistryInv, Registered
  <1>6. LoopInv' /\ NoPanic'
    BY <1>1 DEF TypeOK, LoopInv, NoPanic
  <1> QED BY <1>3, <1>4, <1>5, <1>6

LEMMA ReceiveInv ==
  ASSUME IInv, NEW c \in Conns, Receive(c)
  PROVE  IInv'
  <1> USE BrokerAssumption DEF IInv, Receive, Goto, muVars
  <1>1. TypeOK'
    <2>1. buf[c] \in Seq(Event) /\ buf[c] # << >> /\ Len(buf[c]) \in Nat
      BY LenProperties DEF TypeOK
    <2>2. Tail(buf[c]) \in Seq(Event) /\ Len(Tail(buf[c])) = Len(buf[c]) - 1
      BY <2>1, HeadTailProperties
    <2> QED BY <2>1, <2>2 DEF TypeOK, ConnState
  <1>2. LockInv'
    BY DEF TypeOK, LockInv
  <1>3. RegistryInv'
    BY DEF TypeOK, RegistryInv, Registered
  <1>4. LoopInv' /\ NoPanic'
    BY DEF TypeOK, LoopInv, NoPanic
  <1> QED BY <1>1, <1>2, <1>3, <1>4

\* Keepalive, Flushed, Cancelled and Disconnect move a registered handler from
\* one place without the lock to another, or nothing but gone.
LEMMA WaitingInv ==
  ASSUME IInv, NEW c \in Conns, Keepalive(c) \/ Flushed(c) \/ Cancelled(c) \/ Disconnect(c)
  PROVE  IInv'
  <1> USE BrokerAssumption DEF IInv
  <1>1. UNCHANGED <<crashed, writer, readers, waiting, clients, chan, buf, cb, todo, sent>>
    BY DEF Keepalive, Flushed, Cancelled, Disconnect, muVars
  <1>2. \/ pc' = pc
        \/ \E to \in {"select", "flush", "farewell"} :
              pc[c] \in {"select", "flush"} /\ pc' = [pc EXCEPT ![c] = to]
    BY DEF Keepalive, Flushed, Cancelled, Disconnect, Goto
  <1>3. gone' \in [Conns -> BOOLEAN]
    BY DEF Keepalive, Flushed, Cancelled, Disconnect, TypeOK
  <1>4. TypeOK'
    <2>1. pc' \in [Conns -> ConnState]
      BY <1>2 DEF TypeOK, ConnState
    <2> QED BY <1>1, <1>3, <2>1 DEF TypeOK
  <1>5. ASSUME pc' = pc PROVE LockInv' /\ RegistryInv'
    <2>1. LockInv'
      BY <1>1, <1>5 DEF LockInv
    <2>2. RegistryInv'
      BY <1>1, <1>5 DEF RegistryInv
    <2> QED BY <2>1, <2>2
  <1>6. ASSUME NEW to \in {"select", "flush", "farewell"},
               pc[c] \in {"select", "flush"}, pc' = [pc EXCEPT ![c] = to]
        PROVE  LockInv' /\ RegistryInv'
    <2>1. \A d \in Conns : pc'[d] = pc[d] \/ (pc[d] \in {"select", "flush"} /\ pc'[d] = to)
      BY <1>6 DEF TypeOK
    <2>2. LockInv'
      BY <1>1, <2>1 DEF LockInv
    <2>3. RegistryInv'
      BY <1>1, <2>1 DEF RegistryInv, Registered
    <2> QED BY <2>2, <2>3
  <1>7. LoopInv' /\ NoPanic'
    BY <1>1 DEF LoopInv, NoPanic
  <1> QED BY <1>2, <1>4, <1>5, <1>6, <1>7

LEMMA DeleteInv ==
  ASSUME IInv, NEW c \in Conns, Delete(c)
  PROVE  IInv'
  <1> USE BrokerAssumption DEF IInv, Delete, Goto, Mu!HasLock, muVars
  <1>1. TypeOK'
    BY DEF TypeOK, ConnState
  <1>2. LockInv'
    BY DEF TypeOK, LockInv
  <1>3. RegistryInv'
    BY DEF TypeOK, RegistryInv, Registered
  <1>4. LoopInv' /\ NoPanic'
    BY WriterAlone DEF TypeOK, LoopInv, NoPanic
  <1> QED BY <1>1, <1>2, <1>3, <1>4

LEMMA CloseInv ==
  ASSUME IInv, NEW c \in Conns, Close(c)
  PROVE  IInv'
  <1> USE BrokerAssumption DEF IInv, Close, Goto, Mu!Unlock
  <1>1. TypeOK'
    BY DEF TypeOK, ConnState
  <1>2. LockInv'
    BY DEF TypeOK, LockInv
  <1>3. RegistryInv'
    BY DEF TypeOK, RegistryInv, Registered
  <1>4. LoopInv'
    BY DEF TypeOK, LoopInv
  <1>5. NoPanic'
    BY DEF TypeOK, RegistryInv, NoPanic
  <1> QED BY <1>1, <1>2, <1>3, <1>4, <1>5

LEMMA NextInv == ASSUME IInv, [Next]_vars PROVE IInv'
  <1>1. CASE \E s \in Subjects : Deliver(s)
    BY <1>1, DeliverInv
  <1>2. CASE \E s \in Subjects : Broadcasting(s)
    BY <1>2, StartLoopInv, SendInv, EndLoopInv DEF Broadcasting
  <1>3. CASE \E c \in Conns : Connect(c) \/ Receive(c)
    BY <1>3, ConnectInv, ReceiveInv
  <1>4. CASE \E c \in Conns : Handling(c)
    BY <1>4, AskLockInv, RegisterInv, AskCountInv, EndCountInv, WaitingInv, DeleteInv, CloseInv
    DEF Handling
  <1>5. CASE \E c \in Conns : Keepalive(c) \/ Flushed(c) \/ Disconnect(c)
    BY <1>5, WaitingInv
  <1>6. CASE UNCHANGED vars
    BY <1>6 DEF vars, muVars, IInv, TypeOK, LockInv, RegistryInv, LoopInv, NoPanic
  <1> QED BY <1>1, <1>2, <1>3, <1>4, <1>5, <1>6 DEF Next, Work, Rest

\* IInv is inductive: it holds in every reachable state.
THEOREM Invariance == Spec => []IInv
  BY InitInv, NextInv, PTL DEF Spec

\* Every variable keeps its type and no channel exceeds its capacity.
THEOREM TypeCorrect == Spec => []TypeOK
  <1>1. IInv => TypeOK
    BY DEF IInv
  <1> QED BY <1>1, Invariance, PTL

\* No send on a closed channel and no second close, whatever the number of
\* connections, subjects and buffer places.
THEOREM PanicFree == Spec => []NoPanic
  <1>1. IInv => NoPanic
    BY DEF IInv
  <1> QED BY <1>1, Invariance, PTL

\* A handler that has returned leaves no channel behind in the registry.
THEOREM LeakFree == Spec => []NoLeak
  <1>1. IInv => NoLeak
    BY DEF IInv, RegistryInv, Registered, NoLeak
  <1> QED BY <1>1, Invariance, PTL

-----------------------------------------------------------------------------
(* The refinement: registering is Join, deleting is Leave, starting the     *)
(* loop is Publish, a send is Offer and a receive is Take; everything else  *)
(* the goroutines do cannot be seen.                                        *)

\* Nothing is buffered for a connection that is not yet registered.
FreshInv == \A c \in Conns : pc[c] \in {"new", "subscribe", "subscribing"} => buf[c] = << >>

LEMMA FreshInit == ASSUME Init PROVE FreshInv
  BY DEF Init, FreshInv

LEMMA FreshNext == ASSUME IInv, FreshInv, [Next]_vars PROVE FreshInv'
  <1> USE DEF FreshInv
  <1>1. ASSUME NEW s \in Subjects, NEW c \in Conns, Send(s, c) PROVE FreshInv'
    <2>1. pc[c] \notin {"new", "subscribe", "subscribing"} /\ pc' = pc
      BY <1>1 DEF Send, IInv, LoopInv, RegistryInv, Registered
    <2>2. \A d \in Conns : d # c => buf'[d] = buf[d]
      BY <1>1 DEF Send, IInv, TypeOK
    <2> QED BY <2>1, <2>2
  <1>2. ASSUME NEW c \in Conns, Receive(c) PROVE FreshInv'
    BY <1>2 DEF Receive, Goto, IInv, TypeOK
  <1>3. ASSUME NEW c \in Conns, Handling(c) \/ Connect(c) \/ Keepalive(c) \/ Flushed(c) \/ Disconnect(c)
        PROVE  FreshInv'
    <2>1. buf' = buf
      BY <1>3 DEF Handling, Connect, Keepalive, Flushed, Disconnect, AskLock, Register, AskCount,
                  EndCount, Cancelled, Delete, Close
    <2>2. \A d \in Conns : pc'[d] \in {"new", "subscribe", "subscribing"}
                             => pc[d] \in {"new", "subscribe", "subscribing"}
      BY <1>3 DEF Handling, Connect, Keepalive, Flushed, Disconnect, AskLock, Register, AskCount,
                  EndCount, Cancelled, Delete, Close, Goto, IInv, TypeOK
    <2> QED BY <2>1, <2>2
  <1>4. ASSUME NEW s \in Subjects, Deliver(s) \/ StartLoop(s) \/ EndLoop(s) PROVE FreshInv'
    BY <1>4 DEF Deliver, StartLoop, EndLoop
  <1>5. CASE UNCHANGED vars
    BY <1>5 DEF vars
  <1> QED BY <1>1, <1>2, <1>3, <1>4, <1>5 DEF Next, Work, Broadcasting, Rest

-----------------------------------------------------------------------------
(* The two mapped variables, and what leaves them alone.                     *)

P == [s \in Subjects |-> Published(s)]
O == [c \in Conns |-> [s \in Subjects |-> Offered(c, s)]]

LEMMA Mapped ==
  ASSUME IInv, NEW s \in Subjects
  PROVE  /\ Published(s) \in Int
         /\ sent[s] \in Nat
         /\ cb[s] = "loop" => sent[s] >= 1 /\ Published(s) = sent[s]
  BY BrokerAssumption DEF IInv, TypeOK, LoopInv, Published

\* A step that leaves the registry, the callbacks and the loops alone leaves
\* the mapped variables alone.
LEMMA Frame ==
  ASSUME UNCHANGED <<clients, cb, todo, sent>>
  PROVE  P' = P /\ O' = O
  BY DEF P, O, Published, Offered

LEMMA InitMaps == ASSUME Init PROVE Fanout!Init
  BY DEF Init, Fanout!Init, Fanout!Nowhere, Published, Offered

\* Deliver is invisible: the event is published when its loop starts.
LEMMA DeliverMaps ==
  ASSUME IInv, NEW s \in Subjects, Deliver(s)
  PROVE  UNCHANGED <<clients, P, O, buf>>
  <1>1. /\ cb[s] = "idle" /\ todo[s] = {}
        /\ cb' = [cb EXCEPT ![s] = "rlock"] /\ sent' = [sent EXCEPT ![s] = @ + 1]
        /\ UNCHANGED <<clients, buf, todo>>
    BY DEF Deliver, IInv, LoopInv
  <1>2. \A t \in Subjects : Published(t)' = Published(t)
    BY <1>1, Mapped DEF Published, IInv, TypeOK
  <1>3. \A c \in Conns, t \in Subjects : Offered(c, t)' = Offered(c, t)
    BY <1>1, <1>2 DEF Offered, IInv, TypeOK
  <1> QED BY <1>1, <1>2, <1>3 DEF P, O

LEMMA StartLoopMaps ==
  ASSUME IInv, NEW s \in Subjects, StartLoop(s)
  PROVE  Fanout!Publish(s)
  <1>1. /\ cb[s] = "rlock" /\ todo[s] = {} /\ sent[s] \in Nat
        /\ cb' = [cb EXCEPT ![s] = "loop"] /\ todo' = [todo EXCEPT ![s] = clients]
        /\ UNCHANGED <<clients, buf, sent>>
    BY Mapped DEF StartLoop, IInv, LoopInv
  <1>2. /\ Published(s)' = Published(s) + 1
        /\ \A t \in Subjects : t # s => Published(t)' = Published(t)
    BY <1>1 DEF Published, IInv, TypeOK
  <1>3. P' = [P EXCEPT ![s] = @ + 1]
    BY <1>2 DEF P
  <1>4. \A c \in Conns, t \in Subjects : Offered(c, t)' = Offered(c, t)
    BY <1>1, <1>2 DEF Offered, Published, IInv, TypeOK
  <1>5. O' = O
    BY <1>4 DEF O
  <1>6. \A c \in clients : c \in Conns /\ Offered(c, s) = Published(s)
    BY <1>1 DEF Offered, IInv, TypeOK
  <1>7. \A c \in clients : O[c][s] = P[s]
    BY <1>6 DEF O, P
  <1> QED BY <1>1, <1>3, <1>5, <1>7 DEF Fanout!Publish, O, P

LEMMA SendMaps ==
  ASSUME IInv, NEW s \in Subjects, NEW c \in Conns, Send(s, c)
  PROVE  Fanout!Offer(c, s)
  <1>1. /\ cb[s] = "loop" /\ c \in todo[s] /\ c \in clients /\ chan[c] = "open"
        /\ todo' = [todo EXCEPT ![s] = @ \ {c}]
        /\ UNCHANGED <<clients, cb, sent>>
    BY DEF Send, IInv, LoopInv, RegistryInv, Registered, TypeOK
  <1>2. \A t \in Subjects : Published(t)' = Published(t)
    BY <1>1 DEF Published
  <1>3. P' = P
    BY <1>2 DEF P
  <1>4. P[s] = sent[s] /\ O[c][s] = sent[s] - 1 /\ sent[s] \in Nat
    BY <1>1, Mapped DEF P, O, Offered
  <1>5. /\ Offered(c, s)' = Published(s)
        /\ \A d \in Conns, t \in Subjects : d # c \/ t # s => Offered(d, t)' = Offered(d, t)
    BY <1>1, <1>2 DEF Offered, IInv, TypeOK
  <1>6. O' = [O EXCEPT ![c][s] = P[s]]
    BY <1>5 DEF O, P
  <1>7. buf' = IF Len(buf[c]) < Cap
               THEN [buf EXCEPT ![c] = Append(@, [subject |-> s, n |-> P[s]])]
               ELSE buf
    BY <1>1, <1>4 DEF Send
  <1> QED BY <1>1, <1>3, <1>4, <1>6, <1>7 DEF Fanout!Offer, O, P

LEMMA EndLoopMaps ==
  ASSUME IInv, NEW s \in Subjects, EndLoop(s)
  PROVE  UNCHANGED <<clients, P, O, buf>>
  <1>1. /\ cb[s] = "loop" /\ cb' = [cb EXCEPT ![s] = "idle"]
        /\ UNCHANGED <<clients, buf, todo, sent>>
    BY DEF EndLoop
  <1>2. \A t \in Subjects : Published(t)' = Published(t)
    BY <1>1 DEF Published, IInv, TypeOK
  <1>3. \A c \in Conns, t \in Subjects : Offered(c, t)' = Offered(c, t)
    BY <1>1, <1>2 DEF Offered
  <1> QED BY <1>1, <1>2, <1>3 DEF P, O

LEMMA RegisterMaps ==
  ASSUME IInv, FreshInv, NEW c \in Conns, Register(c)
  PROVE  Fanout!Join(c)
  <1>1. /\ pc[c] = "subscribing" /\ c \notin clients /\ clients' = clients \cup {c}
        /\ UNCHANGED <<buf, cb, todo, sent>>
    BY DEF Register, Goto, IInv, RegistryInv, Registered
  <1>2. \A s \in Subjects : todo[s] = {}
    BY WriterAlone DEF Register, Mu!HasLock, IInv
  <1>3. P' = P
    BY <1>1 DEF P, Published
  <1>4. /\ \A s \in Subjects : Offered(c, s)' = Published(s)
        /\ \A d \in Conns, s \in Subjects : d # c => Offered(d, s)' = Offered(d, s)
    BY <1>1, <1>2 DEF Offered, Published
  <1>5. O' = [O EXCEPT ![c] = P]
    BY <1>4 DEF O, P
  <1>6. buf' = [buf EXCEPT ![c] = << >>]
    BY <1>1 DEF FreshInv, IInv, TypeOK
  <1> QED BY <1>1, <1>3, <1>5, <1>6 DEF Fanout!Join, O, P

LEMMA DeleteMaps ==
  ASSUME IInv, NEW c \in Conns, Delete(c)
  PROVE  Fanout!Leave(c)
  <1>1. /\ c \in clients /\ clients' = clients \ {c}
        /\ UNCHANGED <<buf, cb, todo, sent>>
    BY DEF Delete, Goto, IInv, RegistryInv, Registered
  <1>2. P' = P
    BY <1>1 DEF P, Published
  <1>3. /\ \A s \in Subjects : Offered(c, s)' = 0
        /\ \A d \in Conns, s \in Subjects : d # c => Offered(d, s)' = Offered(d, s)
    BY <1>1 DEF Offered, Published
  <1>4. O' = [O EXCEPT ![c] = [s \in Subjects |-> 0]]
    BY <1>3 DEF O
  <1> QED BY <1>1, <1>2, <1>4 DEF Fanout!Leave, Fanout!Nowhere, O, P

LEMMA ReceiveMaps ==
  ASSUME IInv, NEW c \in Conns, Receive(c)
  PROVE  Fanout!Take(c)
  <1>1. /\ c \in clients /\ buf[c] # << >> /\ buf' = [buf EXCEPT ![c] = Tail(@)]
        /\ UNCHANGED <<clients, cb, todo, sent>>
    BY DEF Receive, Goto, IInv, RegistryInv, Registered
  <1>2. P' = P /\ O' = O
    BY <1>1, Frame
  <1> QED BY <1>1, <1>2 DEF Fanout!Take, O, P

\* What a handler does besides cannot be seen.
LEMMA HandlerMaps ==
  ASSUME NEW c \in Conns,
         \/ AskLock(c) \/ AskCount(c) \/ EndCount(c) \/ Cancelled(c) \/ Close(c)
         \/ Connect(c) \/ Keepalive(c) \/ Flushed(c) \/ Disconnect(c)
  PROVE  UNCHANGED <<clients, P, O, buf>>
  <1>1. UNCHANGED <<clients, buf, cb, todo, sent>>
    BY DEF AskLock, AskCount, EndCount, Cancelled, Close, Connect, Keepalive, Flushed, Disconnect
  <1> QED BY <1>1, Frame

-----------------------------------------------------------------------------

LEMMA NextMaps ==
  ASSUME IInv, FreshInv, [Next]_vars
  PROVE  [Fanout!Next]_<<clients, P, O, buf>>
  <1>1. CASE \E s \in Subjects : Deliver(s) \/ EndLoop(s)
    BY <1>1, DeliverMaps, EndLoopMaps
  <1>2. CASE \E s \in Subjects : StartLoop(s)
    BY <1>2, StartLoopMaps DEF Fanout!Next
  <1>3. CASE \E s \in Subjects, c \in Conns : Send(s, c)
    BY <1>3, SendMaps DEF Fanout!Next
  <1>4. CASE \E c \in Conns : Register(c) \/ Delete(c) \/ Receive(c)
    BY <1>4, RegisterMaps, DeleteMaps, ReceiveMaps DEF Fanout!Next
  <1>5. CASE \E c \in Conns : \/ AskLock(c) \/ AskCount(c) \/ EndCount(c) \/ Cancelled(c) \/ Close(c)
                             \/ Connect(c) \/ Keepalive(c) \/ Flushed(c) \/ Disconnect(c)
    BY <1>5, HandlerMaps
  <1>6. CASE UNCHANGED vars
    <2>1. UNCHANGED <<clients, buf, cb, todo, sent>>
      BY <1>6 DEF vars
    <2> QED BY <2>1, Frame
  <1> QED BY <1>1, <1>2, <1>3, <1>4, <1>5, <1>6 DEF Next, Work, Rest, Broadcasting, Handling

\* sse-push keeps the promise of EventFanout: whatever the number of browsers,
\* subjects and buffer places, every behaviour of the broker and its handlers
\* is one of the abstract fan-out.
THEOREM Refinement == Spec => RefinesFanout
  <1>1. Init => Fanout!Init
    BY InitMaps
  <1>2. IInv /\ FreshInv /\ [Next]_vars => [Fanout!Next]_(Fanout!fanoutVars)
    BY NextMaps DEF Fanout!fanoutVars, P, O
  <1>3. Spec => []FreshInv
    BY FreshInit, FreshNext, Invariance, PTL DEF Spec
  <1> QED BY <1>1, <1>2, <1>3, Invariance, PTL DEF Spec, RefinesFanout, Fanout!Spec
=============================================================================
