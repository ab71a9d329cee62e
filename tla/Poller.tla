------------------------------- MODULE Poller -------------------------------
(***************************************************************************)
(* services/realtime-poller: the poll loop of main.go, the parallel        *)
(* fetches of poller.go, the Redis keys it keeps (shared/cache) and what   *)
(* the health endpoints of realtime-poller and departures-api make of      *)
(* them.                                                                   *)
(*                                                                         *)
(* Time is discrete and only differences matter, so there is no clock: a   *)
(* value is kept as its age, an expiring key with the time it has left,    *)
(* and Tick lets one unit pass.  In seconds the code has Period = 30,      *)
(* TTL = 300 and Threshold = 180.  What a feed says is never looked at,    *)
(* only when it was fetched and whether it was empty.                      *)
(***************************************************************************)
EXTENDS Integers, Sequences, FiniteSets

CONSTANTS
    Order,       \* the feeds, in the order runPollCycle writes them
    EveryOther,  \* those fetched on every other tick only (exceptions)
    Hashes,      \* those stored with SetHashJSON: an empty one leaves no key
    Period,      \* of the ticker
    TTL,         \* cacheTTL
    Threshold,   \* pollerFreshnessThreshold, realtimeFreshnessThreshold
    MaxCycle,    \* bound: time runPollCycle takes
    MaxPolls,    \* bound: polls counted since the last timestamp
    None         \* no value

Feeds == {Order[i] : i \in 1..Len(Order)}

\* The code bounds a fetch (10 s) and a route lookup (5 s) but not a cycle;
\* MaxCycle is what the health threshold leaves room for before the TTL.
ASSUME PollerAssumption ==
    /\ Order \in Seq(Feeds)
    /\ Period \in Nat \ {0}
    /\ TTL \in Nat /\ Threshold \in Nat /\ MaxCycle \in Nat /\ MaxPolls \in Nat
    /\ Threshold + MaxCycle < TTL
    /\ None \notin Nat

VARIABLES
    pc,          \* where the poll loop stands
    odd,         \* tickCount % 2 = 1
    timer,       \* time to the ticker's next firing; None: no ticker yet
    fired,       \* a firing waits in ticker.C
    elapsed,     \* time since runPollCycle was called
    cancelled,   \* ctx is done: SIGTERM has arrived
    running,     \* the goroutines of pollAll that have not ended
    answer,      \* answer[f]: age of what was fetched for PollResult
    at, step,    \* the block and the call runPollCycle is at
    data,        \* data[f]: the key of f: age of its contents, time left;
                 \*   no time left: there is no such key
    stamp,       \* stamp[f]: age of the key f:updated-at, None if there is none
    announced,   \* announced[f]: age of the contents last published on NATS
    outage,      \* Metrolinx, Redis, NATS or the platform is in trouble
    last,        \* history: the outcome of the last write of data[f]
    polls        \* history: polls of f begun since its last timestamp

control == <<pc, odd, timer, fired, cancelled>>
cycle == <<elapsed, running, answer, at, step>>
store == <<data, stamp, last>>
vars == <<control, cycle, store, announced, outage, polls>>

AgeCap == TTL + MaxCycle          \* no older ages are told apart
Age == 0..AgeCap
MaybeAge == Age \cup {None}
Older(a) == IF a \in 0..(AgeCap - 1) THEN a + 1 ELSE a

Nothing == [f \in Feeds |-> None]
NoKey == [age |-> 0, left |-> 0]

Init ==
    /\ pc = "down" /\ odd = FALSE /\ timer = None /\ fired = FALSE
    /\ cancelled = FALSE
    /\ elapsed = 0 /\ running = {} /\ answer = Nothing /\ at = 1 /\ step = "set"
    /\ data = [f \in Feeds |-> NoKey] /\ stamp = Nothing /\ last = [f \in Feeds |-> "none"]
    /\ announced = Nothing
    /\ outage = TRUE
    /\ polls = [f \in Feeds |-> MaxPolls]

-----------------------------------------------------------------------------
(* The loop of main and pollAll.                                            *)

\* pollAll starts one goroutine per feed; exceptions when tickCount is even.
Due(f) == odd => f \notin EveryOther

PollAll ==
    /\ running' = {f \in Feeds : Due(f)}
    /\ polls' = [f \in Feeds |-> IF Due(f) /\ polls[f] < MaxPolls
                                 THEN polls[f] + 1 ELSE polls[f]]

\* main begins with a first cycle, before there is a ticker.
Start ==
    /\ pc = "down"
    /\ pc' = "fetch"
    /\ PollAll
    /\ UNCHANGED <<odd, timer, fired, cancelled, elapsed, answer, at, step, store, announced, outage>>

TickerFires ==
    /\ pc = "wait" /\ fired
    /\ fired' = FALSE
    /\ pc' = "fetch"
    /\ PollAll
    /\ UNCHANGED <<odd, timer, cancelled, elapsed, answer, at, step, store, announced, outage>>

\* Metrolinx answers the fetch of f.
Answered(f) ==
    /\ f \in running /\ answer[f] = None /\ ~cancelled
    /\ answer' = [answer EXCEPT ![f] = 0]
    /\ UNCHANGED <<control, elapsed, running, at, step, store, announced, outage, polls>>

\* The answer of f is parsed (alerts: enriched, one route lookup after the
\* other) and set in the result.
Parsed(f) ==
    /\ f \in running /\ answer[f] # None
    /\ running' = running \ {f}
    /\ UNCHANGED <<control, elapsed, answer, at, step, store, announced, outage, polls>>

\* The fetch of f or the parsing of its answer fails: its goroutine returns
\* and leaves the result as it was.
Failed(f) ==
    /\ outage \/ cancelled
    /\ f \in running
    /\ running' = running \ {f}
    /\ answer' = [answer EXCEPT ![f] = None]
    /\ UNCHANGED <<control, elapsed, at, step, store, announced, outage, polls>>

\* wg.Wait() returns.
Gathered ==
    /\ pc = "fetch" /\ running = {}
    /\ pc' = "write"
    /\ UNCHANGED <<odd, timer, fired, cancelled, cycle, store, announced, outage, polls>>

-----------------------------------------------------------------------------
(* The blocks of runPollCycle: set the data, publish, set the timestamp.    *)

Writing(f, s) == pc = "write" /\ at <= Len(Order) /\ Order[at] = f /\ step = s

\* The result has nothing for f.
Skip(f) ==
    /\ Writing(f, "set") /\ answer[f] = None
    /\ at' = at + 1
    /\ UNCHANGED <<control, elapsed, running, answer, step, store, announced, outage, polls>>

\* Mutant of Stored: SET with the NX option.
Stored_Absent(f) ==
    data' = IF data[f].left > 0 THEN data
            ELSE [data EXCEPT ![f] = [age |-> answer[f], left |-> TTL]]

Stored(f) == data' = [data EXCEPT ![f] = [age |-> answer[f], left |-> TTL]]

\* SetJSON, or SetHashJSON in a transaction: DEL, HSET of every item, EXPIRE.
\* An error is logged and no more; the write may have been carried out.
SetData(f) ==
    /\ Writing(f, "set") /\ answer[f] # None
    /\ step' = "publish"
    /\ \/ ~cancelled /\ Stored(f) /\ last' = [last EXCEPT ![f] = "stored"]
       \/ /\ ~cancelled /\ f \in Hashes
          /\ data' = [data EXCEPT ![f] = NoKey]
          /\ last' = [last EXCEPT ![f] = "empty"]
       \/ /\ outage \/ cancelled
          /\ Stored(f) \/ UNCHANGED data
          /\ last' = [last EXCEPT ![f] = "failed"]
    /\ UNCHANGED <<control, elapsed, running, answer, at, stamp, announced, outage, polls>>

\* bus.Publish takes no context and so outlives SIGTERM.
Publish(f) ==
    /\ Writing(f, "publish")
    /\ step' = "stamp"
    /\ \/ announced' = [announced EXCEPT ![f] = answer[f]]
       \/ outage /\ UNCHANGED announced
    /\ UNCHANGED <<control, elapsed, running, answer, at, store, outage, polls>>

\* SetTimestamp: the time of the write, whatever became of the data.
SetStamp(f) ==
    /\ Writing(f, "stamp")
    /\ step' = "set" /\ at' = at + 1
    /\ \/ /\ ~cancelled \/ outage
          /\ stamp' = [stamp EXCEPT ![f] = 0]
          /\ polls' = [polls EXCEPT ![f] = 0]
       \/ (outage \/ cancelled) /\ UNCHANGED <<stamp, polls>>
    /\ UNCHANGED <<control, elapsed, running, answer, data, last, announced, outage>>

\* Mutants of EndCycle: one PollResult for all cycles; a tick count that stops
\* at one; no ticker.
EndCycle_KeepsResult ==
    /\ pc = "write" /\ at > Len(Order)
    /\ pc' = "wait" /\ at' = 1 /\ elapsed' = 0
    /\ odd' = ~odd
    /\ timer' = IF timer = None THEN Period ELSE timer
    /\ UNCHANGED <<fired, cancelled, running, answer, step, store, announced, outage, polls>>

EndCycle_CountsOnce ==
    /\ pc = "write" /\ at > Len(Order)
    /\ pc' = "wait" /\ at' = 1 /\ elapsed' = 0 /\ answer' = Nothing
    /\ odd' = TRUE
    /\ timer' = IF timer = None THEN Period ELSE timer
    /\ UNCHANGED <<fired, cancelled, running, step, store, announced, outage, polls>>

EndCycle_NoTicker ==
    /\ pc = "write" /\ at > Len(Order)
    /\ pc' = "wait" /\ at' = 1 /\ elapsed' = 0 /\ answer' = Nothing
    /\ odd' = ~odd
    /\ UNCHANGED <<timer, fired, cancelled, running, step, store, announced, outage, polls>>

\* runPollCycle returns; after the first cycle main creates the ticker.
EndCycle ==
    /\ pc = "write" /\ at > Len(Order)
    /\ pc' = "wait" /\ at' = 1 /\ elapsed' = 0 /\ answer' = Nothing
    /\ odd' = ~odd
    /\ timer' = IF timer = None THEN Period ELSE timer
    /\ UNCHANGED <<fired, cancelled, running, step, store, announced, outage, polls>>

-----------------------------------------------------------------------------
(* The process and its surroundings.                                        *)

Gone ==
    /\ pc' = "down" /\ odd' = FALSE /\ timer' = None /\ fired' = FALSE
    /\ cancelled' = FALSE
    /\ elapsed' = 0 /\ running' = {} /\ answer' = Nothing /\ at' = 1 /\ step' = "set"
    /\ polls' = [f \in Feeds |-> MaxPolls]
    /\ UNCHANGED <<store, announced, outage>>

Sigterm ==
    /\ outage /\ pc # "down" /\ ~cancelled
    /\ cancelled' = TRUE
    /\ UNCHANGED <<pc, odd, timer, fired, cycle, store, announced, outage, polls>>

\* The select sees ctx.Done() and main returns.
Exit == pc = "wait" /\ cancelled /\ Gone

Crash == outage /\ pc # "down" /\ Gone

Trouble ==
    /\ outage' = ~outage
    /\ UNCHANGED <<control, cycle, store, announced, polls>>

\* Mutant of Aged: a timestamp that never expires.
Aged_StampKept(a) == IF a = None THEN None ELSE a + 1

Aged(a) == IF a # None /\ a + 1 < TTL THEN a + 1 ELSE None

\* One unit of time passes: values age, Redis drops the keys whose time is up,
\* the ticker fires when it is due, and the firing is lost if one is waiting.
\* A loop that has work does it before time passes, and a cycle takes at most
\* MaxCycle.
Tick ==
    /\ pc = "wait" => ~fired /\ ~cancelled
    /\ pc \in {"fetch", "write"} => elapsed < MaxCycle
    /\ elapsed' = IF pc \in {"fetch", "write"} THEN elapsed + 1 ELSE 0
    /\ answer' = [f \in Feeds |-> Older(answer[f])]
    /\ announced' = [f \in Feeds |-> Older(announced[f])]
    /\ data' = [f \in Feeds |->
                  IF data[f].left > 1
                  THEN [age |-> Older(data[f].age), left |-> data[f].left - 1]
                  ELSE NoKey]
    /\ stamp' = [f \in Feeds |-> Aged(stamp[f])]
    /\ timer' = CASE timer = None -> None [] timer = 1 -> Period [] OTHER -> timer - 1
    /\ fired' = (fired \/ timer = 1)
    /\ UNCHANGED <<pc, odd, cancelled, running, at, step, last, outage, polls>>

-----------------------------------------------------------------------------

Poll ==
    \/ Start \/ TickerFires \/ Gathered \/ EndCycle
    \/ \E f \in Feeds :
          Answered(f) \/ Parsed(f) \/ Skip(f) \/ SetData(f) \/ Publish(f) \/ SetStamp(f)

Next ==
    \/ Poll \/ (\E f \in Feeds : Failed(f))
    \/ Sigterm \/ Exit \/ Crash \/ Trouble \/ Tick

Spec == Init /\ [][Next]_vars

\* The loop runs whenever it can, calls return (they have timeouts, and ctx
\* ends a fetch), time passes, the platform restarts the service, and select,
\* which picks at random among its ready cases, sees ctx.Done() in the end.
Fairness ==
    /\ WF_vars(Poll \/ \E f \in Feeds : cancelled /\ Failed(f))
    /\ WF_vars(Tick)
    /\ SF_vars(Exit)

FairSpec == Spec /\ Fairness

-----------------------------------------------------------------------------
(* The health endpoints.                                                    *)

\* The check of one feed in evaluatePollerHealth and evaluateDeparturesHealth.
Check(f) ==
    IF stamp[f] = None THEN "error"
    ELSE IF stamp[f] > Threshold THEN "stale" ELSE "ok"

-----------------------------------------------------------------------------
(* Properties.                                                              *)

\* Every variable has its type.
TypeOK ==
    /\ pc \in {"down", "fetch", "write", "wait"}
    /\ odd \in BOOLEAN /\ fired \in BOOLEAN /\ cancelled \in BOOLEAN /\ outage \in BOOLEAN
    /\ timer \in (1..Period) \cup {None}
    /\ elapsed \in 0..MaxCycle
    /\ running \subseteq Feeds
    /\ answer \in [Feeds -> MaybeAge]
    /\ at \in 1..(Len(Order) + 1)
    /\ step \in {"set", "publish", "stamp"}
    /\ data \in [Feeds -> [age : Age, left : 0..TTL]]
    /\ stamp \in [Feeds -> 0..(TTL - 1) \cup {None}]
    /\ announced \in [Feeds -> MaybeAge]
    /\ last \in [Feeds -> {"none", "stored", "empty", "failed"}]
    /\ polls \in [Feeds -> 0..MaxPolls]

\* A feed that health calls ok and whose last write succeeded is in Redis,
\* and its contents are no older than the age health reports plus a cycle:
\* the key does not expire under a fresh timestamp.
OkMeansServed ==
    \A f \in Feeds : Check(f) = "ok" /\ last[f] = "stored" =>
        data[f].left > 0 /\ data[f].age <= stamp[f] + MaxCycle

\* A browser that is told of an alert by NATS and sse-push and then asks
\* departures-api is never shown older contents, as long as Redis takes the
\* writes: runPollCycle writes before it publishes.
AnnouncedIsCached ==
    \A f \in Feeds : announced[f] # None /\ last[f] = "stored" /\ data[f].left > 0 =>
        data[f].age <= announced[f]

Slowest == IF MaxCycle > Period THEN MaxCycle ELSE Period

\* The polls of f that may fail in a row before health complains: from a
\* timestamp to the end of poll m + 1 there are at most the rest of a cycle, a
\* Period (the first cycle comes before the ticker), the cycles between, each
\* Slowest after the one before, and the cycle of the poll itself.
Tolerated(f) ==
    LET stride == IF f \in EveryOther THEN 2 * Slowest ELSE Slowest
    IN (Threshold + Slowest - 2 * MaxCycle - Period) \div stride - 1

\* Polls are counted beyond the number that matters.
ASSUME PollsAssumption == \A f \in Feeds : Tolerated(f) + 1 < MaxPolls

InFlight(f) == pc \in {"fetch", "write"} /\ Due(f)

\* Health raises no false alarm: while no more than Tolerated(f) polls of f
\* have failed since its last timestamp, and none of them is for lack of a
\* process, f is ok.
NoFalseAlarm ==
    \A f \in Feeds :
        \/ polls[f] <= Tolerated(f)
        \/ polls[f] = Tolerated(f) + 1 /\ InFlight(f)
        => Check(f) = "ok"

\* When the trouble is over every feed becomes ok and remains ok.
Recovers == <>[](~outage) => <>[](\A f \in Feeds : Check(f) = "ok")

\* docs/plans/2026-03-09-prod-hardening.md: "each cache type tracks when it was
\* last successfully updated".  It does not: a timestamp follows a failed
\* write too, and health is ok with nothing in the cache.
OkMeansUpdated ==
    \A f \in Feeds : Check(f) = "ok" => data[f].left > 0 \/ last[f] = "empty"
=============================================================================
