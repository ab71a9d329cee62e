----------------------------- MODULE CommutePage -----------------------------
(***************************************************************************)
(* The page of a commuter (MyCommute.svelte, sse.ts) and what reaches it:  *)
(* alerts, from Metrolinx through the poller to Redis and by NATS and an   *)
(* SSE connection to the page, which also asks for them itself; and the    *)
(* departures of the trip in the URL.                                      *)
(*                                                                         *)
(* The lists of alerts that Metrolinx has in turn are numbered; 0 is the   *)
(* empty list, also what the API answers when Redis has none.  A fetch or  *)
(* a load that is aborted is no longer in its set: its continuation        *)
(* returns at the check of its signal.  The broker is EventFanout's, with  *)
(* the page as its only client.                                            *)
(***************************************************************************)
EXTENDS Naturals, Sequences

CONSTANTS
    MaxVersion,     \* bound: the lists of alerts
    Buffer,         \* the events that wait for this page
    Trips,          \* what the URL may name
    None,           \* no trip, no list
    MaxTrouble,     \* bound: failures, lost connections, overtaking fetches
    MaxNavigations  \* bound: changes of the URL

ASSUME CommutePageAssumption ==
    /\ MaxVersion \in Nat /\ Buffer \in Nat \ {0}
    /\ None \notin Trips /\ None \notin Nat
    /\ MaxTrouble \in Nat /\ MaxNavigations \in Nat

VARIABLES
    current,      \* Metrolinx: the list in force
    polled,       \* runPollCycle: [at, list]
    redis,        \* transit:alerts
    announced,    \* the last list published
    stream,       \* eventSource and the handler behind it
    events,       \* on their way through broker and connection
    fetches,      \* loadAlerts in flight: [answer]
    alerts,       \* what the page shows
    trip,         \* activeTrip
    loads,        \* loadDepartures in flight: [trip, attempt, at]
    departures,   \* the trip whose departures the page has
    fetchError,
    troubles, navigations

backend == <<current, polled, redis, announced>>
link == <<stream, events>>
banner == <<fetches, alerts>>
board == <<trip, loads, departures, fetchError, navigations>>
vars == <<backend, link, banner, board, troubles>>

Lists == 0..MaxVersion

\* loadAlerts: what is under way is aborted, and a fetch sent.
Asked == {[at |-> "sent"]}

Init ==
    /\ current = 0 /\ polled = [at |-> "idle"] /\ redis = 0 /\ announced = 0
    /\ stream = "connecting" /\ events = << >>
    /\ fetches = Asked /\ alerts = 0
    /\ trip = None /\ loads = {} /\ departures = None /\ fetchError = FALSE
    /\ troubles = 0 /\ navigations = 0

\* One of the things that may go wrong, MaxTrouble times.
Trouble == troubles < MaxTrouble /\ troubles' = troubles + 1

Calm == UNCHANGED troubles

-----------------------------------------------------------------------------
(* Metrolinx and the poller.                                                *)

NewAlerts ==
    /\ current < MaxVersion
    /\ current' = current + 1
    /\ UNCHANGED <<polled, redis, announced, link, banner, board, troubles>>

Poll ==
    /\ polled.at = "idle"
    /\ polled' = [at |-> "store", list |-> current]
    /\ UNCHANGED <<current, redis, announced, link, banner, board, troubles>>

\* The write may fail, and the cycle goes on all the same.
Store ==
    /\ polled.at = "store"
    /\ polled' = [polled EXCEPT !.at = "announce"]
    /\ \/ redis' = polled.list /\ Calm
       \/ UNCHANGED redis /\ Trouble
    /\ UNCHANGED <<current, announced, link, banner, board>>

\* Mutant of Arrives: the broker's buffer is not looked at.
Arrives_Always(list) == Append(events, list)

Arrives(list) == IF Len(events) < Buffer THEN Append(events, list) ELSE events

\* NATS may lose the message, and the broker drops it at a full buffer.
Announce ==
    /\ polled.at = "announce"
    /\ polled' = [at |-> "idle"]
    /\ announced' = polled.list
    /\ \/ events' = (IF stream \in {"subscribed", "open"} THEN Arrives(polled.list) ELSE events) /\ Calm
       \/ UNCHANGED events /\ Trouble
    /\ UNCHANGED <<current, redis, stream, banner, board>>

\* The key expires during a long failure of the poller.
Expire ==
    /\ redis # None /\ Trouble
    /\ redis' = None
    /\ UNCHANGED <<current, polled, announced, link, banner, board>>

-----------------------------------------------------------------------------
(* The SSE connection.  The handler sends its headers before it subscribes, *)
(* so the page may see the connection open first.                           *)

Accept ==
    /\ stream = "connecting"
    /\ stream' = "flushed"
    /\ UNCHANGED <<backend, events, banner, board, troubles>>

\* es.onopen, before or after Subscribe: the page asks for the alerts.
Onopen ==
    /\ stream \in {"flushed", "subscribed"}
    /\ stream' = IF stream = "flushed" THEN "opened" ELSE "open"
    /\ fetches' = Asked
    /\ UNCHANGED <<backend, events, alerts, board, troubles>>

Subscribe ==
    /\ stream \in {"flushed", "opened"}
    /\ stream' = IF stream = "flushed" THEN "subscribed" ELSE "open"
    /\ UNCHANGED <<backend, events, banner, board, troubles>>

\* es.onerror: closed, and a timer set to connect again.
Onerror ==
    /\ stream # "none" /\ Trouble
    /\ stream' = "none" /\ events' = << >>
    /\ UNCHANGED <<backend, banner, board>>

Reconnect ==
    /\ stream = "none"
    /\ stream' = "connecting"
    /\ UNCHANGED <<backend, events, banner, board, troubles>>

\* Mutant of Event: the fetch in flight is not aborted.
Event_NoAbort ==
    /\ stream = "open" /\ events # << >>
    /\ alerts' = Head(events) /\ events' = Tail(events)
    /\ UNCHANGED <<backend, stream, fetches, board, troubles>>

\* applyRealtimeAlerts.
Event ==
    /\ stream = "open" /\ events # << >>
    /\ alerts' = Head(events) /\ events' = Tail(events)
    /\ fetches' = {}
    /\ UNCHANGED <<backend, stream, board, troubles>>

-----------------------------------------------------------------------------
(* loadAlerts.                                                              *)

\* The interval, when the last fetch has ended.
Interval ==
    /\ fetches = {}
    /\ fetches' = Asked
    /\ UNCHANGED <<backend, link, alerts, board, troubles>>

\* Focus, visibility, or the interval while a fetch is slow.
Resume ==
    /\ fetches # {} /\ Trouble
    /\ fetches' = Asked
    /\ UNCHANGED <<backend, link, alerts, board>>

\* GET /alerts: no list in Redis, or Redis down, is an empty list and a 200.
HandleAlerts ==
    \E f \in fetches :
        /\ f.at = "sent"
        /\ \/ redis # None /\ Calm
              /\ fetches' = {[at |-> "answered", list |-> redis, late |-> redis < announced]} \cup (fetches \ {f})
           \/ (IF redis = None THEN Calm ELSE Trouble)
              /\ fetches' = {[at |-> "answered", list |-> 0, late |-> TRUE]} \cup (fetches \ {f})
        /\ UNCHANGED <<backend, link, alerts, board>>

\* The page keeps what it shows.
FetchFails ==
    \E f \in fetches :
        /\ Trouble
        /\ fetches' = fetches \ {f}
        /\ UNCHANGED <<backend, link, alerts, board>>

ReplaceAlerts ==
    \E f \in fetches :
        /\ f.at = "answered"
        /\ alerts' = f.list
        /\ fetches' = fetches \ {f}
        /\ UNCHANGED <<backend, link, board, troubles>>

-----------------------------------------------------------------------------
(* loadDepartures.                                                          *)

\* Mutant of Load: a load that waits for its second attempt goes on.
Load_KeepsWaiting(t) ==
    /\ loads' = {l \in loads : l.at = "wait"} \cup
                (IF t = None THEN {} ELSE {[trip |-> t, attempt |-> 1, at |-> "sent"]})
    /\ departures' = IF t = None THEN None ELSE departures
    /\ fetchError' = (t # None /\ fetchError)

\* The load in flight is aborted; without a trip there is nothing to show.
Load(t) ==
    /\ loads' = IF t = None THEN {} ELSE {[trip |-> t, attempt |-> 1, at |-> "sent"]}
    /\ departures' = IF t = None THEN None ELSE departures
    /\ fetchError' = (t # None /\ fetchError)

\* The URL changes: the toggle of directions, a choice of stations, Back.
Navigate ==
    /\ navigations < MaxNavigations /\ navigations' = navigations + 1
    /\ \E t \in (Trips \cup {None}) \ {trip} : trip' = t /\ Load(t)
    /\ UNCHANGED <<backend, link, banner, troubles>>

\* Mutant of Reload: an error ends the refresh.
Reload_UnlessError ==
    /\ trip # None /\ loads = {} /\ ~fetchError
    /\ Load(trip)
    /\ UNCHANGED <<backend, link, banner, trip, navigations, troubles>>

\* The interval of 30 s, or the last departure has passed.
Reload ==
    /\ trip # None /\ loads = {}
    /\ Load(trip)
    /\ UNCHANGED <<backend, link, banner, trip, navigations, troubles>>

\* The same while a load is slow, or waits for its second attempt.
ReloadEarly ==
    /\ trip # None /\ loads # {} /\ Trouble
    /\ Load(trip)
    /\ UNCHANGED <<backend, link, banner, trip, navigations>>

Loaded ==
    \E l \in loads :
        /\ l.at = "sent"
        /\ departures' = l.trip /\ fetchError' = FALSE
        /\ loads' = loads \ {l}
        /\ UNCHANGED <<backend, link, banner, trip, navigations, troubles>>

\* A first failure waits 1.5 s, a second shows an error over what is there.
LoadFails ==
    \E l \in loads :
        /\ l.at = "sent" /\ Trouble
        /\ loads' = (loads \ {l}) \cup
                    (IF l.attempt = 1 THEN {[trip |-> l.trip, attempt |-> 2, at |-> "wait"]} ELSE {})
        /\ fetchError' = (fetchError \/ l.attempt = 2)
        /\ UNCHANGED <<backend, link, banner, trip, departures, navigations>>

Retry ==
    \E l \in loads :
        /\ l.at = "wait"
        /\ loads' = (loads \ {l}) \cup {[l EXCEPT !.at = "sent"]}
        /\ UNCHANGED <<backend, link, banner, trip, departures, fetchError, navigations, troubles>>

-----------------------------------------------------------------------------
Poller == Poll \/ Store \/ Announce
Connection == Accept \/ Onopen \/ Subscribe \/ Reconnect
Alerts == Interval \/ HandleAlerts \/ ReplaceAlerts
Departures == Reload \/ Loaded \/ Retry

Next ==
    \/ NewAlerts \/ Poller \/ Expire
    \/ Connection \/ Onerror \/ Event
    \/ Alerts \/ Resume \/ FetchFails
    \/ Navigate \/ Departures \/ ReloadEarly \/ LoadFails

Spec == Init /\ [][Next]_vars

\* The poller's ticker, the page's intervals and timers, and answers, each of
\* which comes within the limits of fetch and proxy or is a failure.
Fairness ==
    /\ WF_vars(Poller) /\ WF_vars(Connection) /\ WF_vars(Event)
    /\ WF_vars(Alerts) /\ WF_vars(Departures)

FairSpec == Spec /\ Fairness

-----------------------------------------------------------------------------
(* Properties.                                                              *)

TypeOK ==
    /\ current \in Lists /\ redis \in Lists \cup {None} /\ announced \in Lists
    /\ polled \in [at : {"idle"}] \cup [at : {"store", "announce"}, list : Lists]
    /\ stream \in {"none", "connecting", "flushed", "opened", "subscribed", "open"}
    /\ events \in Seq(Lists) /\ Len(events) <= Buffer
    /\ fetches \subseteq Asked \cup [at : {"answered"}, list : Lists, late : BOOLEAN]
    /\ alerts \in Lists
    /\ trip \in Trips \cup {None} /\ departures \in Trips \cup {None}
    /\ loads \subseteq [trip : Trips, attempt : {1, 2}, at : {"sent", "wait"}]
    /\ fetchError \in BOOLEAN
    /\ troubles \in 0..MaxTrouble /\ navigations \in 0..MaxNavigations

\* An answer never takes the page back to an older list than it shows, unless
\* Redis had lost the list, failed the request, or failed the write of what
\* was announced: an event aborts the fetch that may be older than it, a fetch
\* the one before, and Redis is written before NATS.
NoStepBack ==
    [][(alerts' < alerts /\ events' = events) =>
          \E f \in fetches \ fetches' : f.at = "answered" /\ f.late]_vars

\* Once no load is under way and no error is shown, the departures are those
\* of the trip in the URL, and no earlier load writes over them
\* (docs/plans/code-review-2026-03-12.md:47).
OwnDepartures ==
    /\ loads = {} /\ ~fetchError => departures = trip
    /\ \A l \in loads : l.trip = trip

\* When failures and changes have come to an end the page comes to show the
\* alerts in force and the departures of its trip, whatever was lost.
Settles == <>[](alerts = current /\ departures = trip /\ ~fetchError)
=============================================================================
