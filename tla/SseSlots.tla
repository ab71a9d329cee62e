------------------------------ MODULE SseSlots ------------------------------
(***************************************************************************)
(* The SSE connections that one address may have (hooks.server.ts,         *)
(* rate-limit.ts): a counter in Redis with a time to live, a second one in *)
(* the memory of the web process for calls that fail, and three places     *)
(* that give a slot back.  INCR, EXPIRE, DECR and DEL are calls of their   *)
(* own; the requests of the address and their releases interleave between  *)
(* them, browsers leave at any moment, and process and Redis restart.      *)
(***************************************************************************)
EXTENDS Integers, FiniteSets

CONSTANTS
    Requests,       \* requests the address may have under way
    MaxConnections, \* SSE_MAX_PER_IP
    TTL,            \* SSE_TTL_SECONDS, in ticks
    None,           \* no key, no time to live
    MaxFailures     \* bound: failed calls and restarts

ASSUME SseSlotsAssumption ==
    /\ IsFiniteSet(Requests)
    /\ MaxConnections \in Nat \ {0} /\ TTL \in Nat \ {0}
    /\ None \notin Int /\ MaxFailures \in Nat

VARIABLES
    count,     \* the key: None or a number
    ttl,       \* its time to live, None without
    memory,    \* sseConns
    pc,        \* the call of each request that comes next
    gone,      \* its browser has left
    ret,       \* its closeSSE, by the abort listener or by the handler
    failures,
    exact      \* history: no claim on a slot has been missing in the counter

key == <<count, ttl>>
vars == <<key, memory, pc, gone, ret, failures, exact>>

Releases == {"abort", "path"}

Init ==
    /\ count = None /\ ttl = None /\ memory = 0
    /\ pc = [r \in Requests |-> "idle"]
    /\ gone = [r \in Requests |-> FALSE]
    /\ ret = [r \in Requests |-> [by \in Releases |-> "none"]]
    /\ failures = 0 /\ exact = TRUE

Number == IF count = None THEN 0 ELSE count

Goto(r, place) == pc' = [pc EXCEPT ![r] = place]

Fail == failures < MaxFailures /\ failures' = failures + 1

Succeed == UNCHANGED failures

\* A call of Redis fails, without effect or with its answer lost.
Fails(effect) == Fail /\ (effect \/ UNCHANGED key)

Incr == count' = Number + 1 /\ UNCHANGED ttl
Decr == count' = Number - 1 /\ UNCHANGED ttl
Del == count' = None /\ ttl' = None
SetTTL == UNCHANGED count /\ ttl' = IF count = None THEN None ELSE TTL

-----------------------------------------------------------------------------
(* openSSE.                                                                 *)

\* A request comes in; a browser's next one is a request of its own.
Arrive(r) ==
    /\ pc[r] = "idle" /\ \A by \in Releases : ret[r][by] = "none"
    /\ Goto(r, "incr")
    /\ gone' = [gone EXCEPT ![r] = FALSE]
    /\ UNCHANGED <<key, memory, ret, failures>>

\* memoryOpenSSE: the slot is granted, or the request answered with 429.
InMemory(r) ==
    IF memory < MaxConnections
    THEN memory' = memory + 1 /\ Goto(r, "resolve")
    ELSE UNCHANGED memory /\ Goto(r, "idle")

\* Mutant of Full: one connection too many.
Full_Late == Number + 1 > MaxConnections + 1

Full == Number + 1 > MaxConnections

TakeSlot(r) ==
    /\ pc[r] = "incr"
    /\ \/ Incr /\ Succeed /\ UNCHANGED memory
          /\ Goto(r, IF Full THEN "undo" ELSE "expire")
       \/ Fails(Incr) /\ InMemory(r)
    /\ UNCHANGED <<gone, ret>>

\* Mutant of Undo: a refused connection refreshes the time to live.
Undo_Refreshes(r) ==
    /\ pc[r] = "undo"
    /\ count' = Number - 1 /\ ttl' = TTL
    /\ Goto(r, IF Number - 1 <= 0 THEN "undoDel" ELSE "idle")
    /\ UNCHANGED <<memory, gone, ret, failures>>

\* The refused connection is taken off again, without refreshing the TTL.
Undo(r) ==
    /\ pc[r] = "undo"
    /\ \/ Decr /\ Succeed /\ UNCHANGED memory
          /\ Goto(r, IF Number - 1 <= 0 THEN "undoDel" ELSE "idle")
       \/ Fails(Decr) /\ InMemory(r)
    /\ UNCHANGED <<gone, ret>>

UndoDel(r) ==
    /\ pc[r] = "undoDel"
    /\ \/ Del /\ Succeed /\ UNCHANGED memory /\ Goto(r, "idle")
       \/ Fails(Del) /\ InMemory(r)
    /\ UNCHANGED <<gone, ret>>

Refresh(r) ==
    /\ pc[r] = "expire"
    /\ \/ SetTTL /\ Succeed /\ UNCHANGED memory /\ Goto(r, "resolve")
       \/ Fails(SetTTL) /\ InMemory(r)
    /\ UNCHANGED <<gone, ret>>

-----------------------------------------------------------------------------
(* handle, once the slot is granted.                                        *)

\* Mutant of Streams: the test of the content type is turned round.
Streams_Released(r) ==
    /\ pc[r] = "resolve"
    /\ Goto(r, "stream")
    /\ ret' = [ret EXCEPT ![r]["path"] = "decr"]
    /\ UNCHANGED <<key, memory, gone, failures>>

\* The upstream streams, to a browser that may have left.
Streams(r) ==
    /\ pc[r] = "resolve"
    /\ Goto(r, IF gone[r] THEN "idle" ELSE "stream")
    /\ UNCHANGED <<key, memory, gone, ret, failures>>

\* Mutant of NoStream: an answer that is not a stream keeps its slot.
NoStream_Keeps(r) ==
    /\ pc[r] = "resolve"
    /\ Goto(r, "idle")
    /\ UNCHANGED <<key, memory, gone, ret, failures>>

\* 502, or an exception: the handler gives the slot back.
NoStream(r) ==
    /\ pc[r] = "resolve"
    /\ Goto(r, "closing")
    /\ ret' = [ret EXCEPT ![r]["path"] = "decr"]
    /\ UNCHANGED <<key, memory, gone, failures>>

\* The browser leaves.  The listener is added after openSSE has returned and
\* does not hear of an abort before that.
Leave(r) ==
    /\ pc[r] # "idle" /\ ~gone[r]
    /\ gone' = [gone EXCEPT ![r] = TRUE]
    /\ ret' = IF pc[r] \in {"resolve", "stream", "closing"}
              THEN [ret EXCEPT ![r]["abort"] = "decr"] ELSE ret
    /\ pc' = IF pc[r] = "stream" THEN [pc EXCEPT ![r] = "idle"] ELSE pc
    /\ UNCHANGED <<key, memory, failures>>

-----------------------------------------------------------------------------
(* closeSSE.                                                                *)

\* Mutant of MemoryClose: the count may fall below zero.
MemoryClose_Below == memory' = memory - 1

\* memoryCloseSSE.
MemoryClose == memory' = IF memory <= 1 THEN 0 ELSE memory - 1

\* The handler waits for its own release.
Released(r, by, next) ==
    /\ ret' = [ret EXCEPT ![r][by] = next]
    /\ pc' = IF by = "path" /\ next = "none" THEN [pc EXCEPT ![r] = "idle"] ELSE pc

GiveBack(r, by) ==
    /\ ret[r][by] = "decr"
    /\ \/ Decr /\ Succeed /\ UNCHANGED memory
          /\ Released(r, by, IF Number - 1 <= 0 THEN "del" ELSE "none")
       \/ Fails(Decr) /\ MemoryClose /\ Released(r, by, "none")
    /\ UNCHANGED gone

Delete(r, by) ==
    /\ ret[r][by] = "del"
    /\ \/ Del /\ Succeed /\ UNCHANGED memory
       \/ Fails(Del) /\ MemoryClose
    /\ Released(r, by, "none")
    /\ UNCHANGED gone

-----------------------------------------------------------------------------
(* The surroundings.                                                        *)

Tick ==
    /\ ttl # None
    /\ IF ttl = 1 THEN Del ELSE UNCHANGED count /\ ttl' = ttl - 1
    /\ UNCHANGED <<memory, pc, gone, ret, failures>>

\* The web process restarts: its requests and its memory are gone.
RestartWeb ==
    /\ Fail
    /\ memory' = 0
    /\ pc' = [r \in Requests |-> "idle"]
    /\ gone' = [r \in Requests |-> FALSE]
    /\ ret' = [r \in Requests |-> [by \in Releases |-> "none"]]
    /\ UNCHANGED key

RestartRedis ==
    /\ Fail /\ Del
    /\ UNCHANGED <<memory, pc, gone, ret>>

-----------------------------------------------------------------------------
Handle(r) == TakeSlot(r) \/ Undo(r) \/ UndoDel(r) \/ Refresh(r) \/ Streams(r) \/ NoStream(r)

Release(r) == \E by \in Releases : GiveBack(r, by) \/ Delete(r, by)

Step ==
    \/ \E r \in Requests : Arrive(r) \/ Handle(r) \/ Leave(r) \/ Release(r)
    \/ Tick \/ RestartWeb \/ RestartRedis

\* The connections that a browser has open, or is about to.
Open == {r \in Requests : pc[r] \in {"expire", "resolve", "stream"} /\ ~gone[r]}

\* The requests that have yet to give a slot back.
Claims ==
    Open \cup {r \in Requests : \/ pc[r] \in {"undo", "expire"}
                               \/ \E by \in Releases : ret[r][by] = "decr"}

Next == Step /\ exact' = (exact /\ Number' >= Cardinality(Claims'))

Spec == Init /\ [][Next]_vars

\* Answers come, time passes, and browsers try again (sse.ts).
Fairness ==
    /\ \A r \in Requests : WF_vars(Handle(r) /\ Next) /\ WF_vars(Release(r) /\ Next)
    /\ WF_vars(Tick /\ Next)
    /\ \A r \in Requests : WF_vars(Arrive(r) /\ Next)

FairSpec == Spec /\ Fairness

-----------------------------------------------------------------------------
(* Properties.                                                              *)

TypeOK ==
    /\ count \in Int \cup {None} /\ ttl \in 1..TTL \cup {None}
    /\ count = None => ttl = None
    /\ memory \in 0..MaxConnections
    /\ pc \in [Requests -> {"idle", "incr", "undo", "undoDel", "expire", "resolve", "stream", "closing"}]
    /\ gone \in [Requests -> BOOLEAN]
    /\ ret \in [Requests -> [Releases -> {"none", "decr", "del"}]]
    /\ failures \in 0..MaxFailures /\ exact \in BOOLEAN

\* No more connections than allowed, until a call fails, which admits by
\* memory beside Redis, or a claim has been missing in the counter.
AtMost == exact /\ failures = 0 => Cardinality(Open) <= MaxConnections

\* A claim drops out of the counter only when the key ends under it (it
\* expires, Redis restarts, or a DEL follows a DECR that another request has
\* overtaken), when a call fails, or when a request gives its slot back twice
\* (the abort listener and the response path of handle).
CountedUnless ==
    [][exact /\ ~exact' =>
          \/ count # None /\ count' = None
          \/ failures' # failures
          \/ \E r \in Requests : gone'[r] /\ "closing" \in {pc[r], pc'[r]}]_vars

\* The counter counts a slot that nobody will give back.
Overcounts == Number > Cardinality(Claims)

\* A slot is leaked only by a browser that leaves before its slot is granted,
\* and by a failed call or a restart.
LeakedOnlyBy ==
    [][~Overcounts /\ Overcounts' =>
          failures' # failures \/ \E r \in Requests : gone[r] /\ pc[r] # pc'[r]]_vars

\* docs/sse-reconnecting-investigation.md: "leaked Redis counters self-heal
\* in 2 min": an address that keeps trying has a connection again and again.
LockoutEnds == []<>(\E r \in Requests : pc[r] \in {"resolve", "stream"})

\* A counter with a time to live is no lockout: refused connections leave the
\* TTL alone (openSSE), and whatever was leaked expires.
ExpiryHeals == []<>(count = None \/ ttl # None) => LockoutEnds
=============================================================================
