-------------------------- MODULE CommutePageProofs --------------------------
(***************************************************************************)
(* Proofs about CommutePage: its types, that the departures on the page    *)
(* are those of its trip, and that no answer takes the alerts back.        *)
(***************************************************************************)
EXTENDS CommutePage, TLAPS

USE DEF Lists, Asked, Trouble, Calm

-----------------------------------------------------------------------------
(* Types, part by part.                                                     *)

BackendOK ==
    /\ current \in Lists /\ redis \in Lists \cup {None} /\ announced \in Lists
    /\ polled \in [at : {"idle"}] \cup [at : {"store", "announce"}, list : Lists]

LinkOK ==
    /\ stream \in {"none", "connecting", "flushed", "opened", "subscribed", "open"}
    /\ events \in Seq(Lists) /\ Len(events) <= Buffer

BannerOK ==
    /\ fetches \subseteq Asked \cup [at : {"answered"}, list : Lists, late : BOOLEAN]
    /\ alerts \in Lists

BoardOK ==
    /\ trip \in Trips \cup {None} /\ departures \in Trips \cup {None}
    /\ loads \subseteq [trip : Trips, attempt : {1, 2}, at : {"sent", "wait"}]
    /\ fetchError \in BOOLEAN
    /\ navigations \in 0..MaxNavigations

LEMMA TypeParts == TypeOK <=> BackendOK /\ LinkOK /\ BannerOK /\ BoardOK /\ troubles \in 0..MaxTrouble
BY DEF TypeOK, BackendOK, LinkOK, BannerOK, BoardOK

\* In force or behind, a list is one of Metrolinx's.
LEMMA BackendStep == TypeOK /\ [Next]_vars => BackendOK'
<1> SUFFICES ASSUME TypeOK, [Next]_vars PROVE BackendOK'
  OBVIOUS
<1> USE CommutePageAssumption
<1>1. CASE UNCHANGED backend
  BY <1>1 DEF TypeOK, BackendOK, backend
<1>2. CASE NewAlerts
  BY <1>2 DEF NewAlerts, TypeOK, BackendOK
<1>3. CASE Poll
  BY <1>3 DEF Poll, TypeOK, BackendOK
<1>4. CASE Store
  BY <1>4 DEF Store, TypeOK, BackendOK
<1>5. CASE Announce
  BY <1>5 DEF Announce, TypeOK, BackendOK
<1>6. CASE Expire
  BY <1>6 DEF Expire, TypeOK, BackendOK
<1> QED
  BY <1>1, <1>2, <1>3, <1>4, <1>5, <1>6
  DEF Next, vars, Poller, Connection, Alerts, Departures, Accept, Onopen, Subscribe, Reconnect,
      Onerror, Event, Interval, HandleAlerts, ReplaceAlerts, Resume, FetchFails,
      Navigate, Reload, ReloadEarly, Loaded, LoadFails, Retry

\* The buffer is never exceeded.
LEMMA ArrivesFits ==
    ASSUME LinkOK, NEW list \in Lists
    PROVE  Arrives(list) \in Seq(Lists) /\ Len(Arrives(list)) <= Buffer
<1>0. Buffer \in Nat /\ Len(events) \in Nat
  BY CommutePageAssumption DEF LinkOK
<1>1. CASE Len(events) < Buffer
  <2>1. Arrives(list) = Append(events, list)
    BY <1>1 DEF Arrives
  <2>2. Append(events, list) \in Seq(Lists) /\ Len(Append(events, list)) = Len(events) + 1
    BY DEF LinkOK
  <2> QED
    BY <1>0, <1>1, <2>1, <2>2
<1>2. CASE ~(Len(events) < Buffer)
  BY <1>2 DEF Arrives, LinkOK
<1> QED
  BY <1>1, <1>2

LEMMA LinkStep == TypeOK /\ [Next]_vars => LinkOK'
<1> SUFFICES ASSUME TypeOK, [Next]_vars PROVE LinkOK'
  OBVIOUS
<1> USE CommutePageAssumption
<1>1. CASE UNCHANGED link
  BY <1>1 DEF TypeOK, LinkOK, link
<1>2. CASE Announce
  <2>1. polled.list \in Lists /\ LinkOK
    BY <1>2 DEF Announce, TypeOK, LinkOK
  <2>2. Arrives(polled.list) \in Seq(Lists) /\ Len(Arrives(polled.list)) <= Buffer
    BY <2>1, ArrivesFits
  <2>3. stream' = stream /\ events' \in {Arrives(polled.list), events}
    BY <1>2 DEF Announce
  <2> QED
    BY <2>1, <2>2, <2>3 DEF LinkOK
<1>3. CASE Accept \/ Onopen \/ Subscribe \/ Reconnect
  <2>1. events' = events
    BY <1>3 DEF Accept, Onopen, Subscribe, Reconnect, banner
  <2>2. stream' \in {"none", "connecting", "flushed", "opened", "subscribed", "open"}
    BY <1>3 DEF Accept, Onopen, Subscribe, Reconnect
  <2> QED
    BY <2>1, <2>2 DEF TypeOK, LinkOK
<1>4. CASE Onerror
  <2>1. stream' = "none" /\ events' = << >>
    BY <1>4 DEF Onerror
  <2> QED
    BY <2>1 DEF LinkOK
<1>5. CASE Event
  <2>1. stream' = stream /\ events' = Tail(events) /\ events # << >>
    BY <1>5 DEF Event
  <2> QED
    BY <2>1 DEF TypeOK, LinkOK
<1> QED
  BY <1>1, <1>2, <1>3, <1>4, <1>5
  DEF Next, vars, Poller, Connection, Alerts, Departures, NewAlerts, Poll, Store, Expire,
      Interval, HandleAlerts, ReplaceAlerts, Resume, FetchFails,
      Navigate, Reload, ReloadEarly, Loaded, LoadFails, Retry

LEMMA BannerStep == TypeOK /\ [Next]_vars => BannerOK'
<1> SUFFICES ASSUME TypeOK, [Next]_vars PROVE BannerOK'
  OBVIOUS
<1> USE CommutePageAssumption
<1>1. CASE UNCHANGED banner
  BY <1>1 DEF TypeOK, BannerOK, banner
<1>2. CASE Onopen \/ Interval \/ Resume \/ FetchFails
  BY <1>2 DEF Onopen, Interval, Resume, FetchFails, TypeOK, BannerOK
<1>3. CASE Event
  BY <1>3 DEF Event, TypeOK, BannerOK
<1>4. CASE HandleAlerts
  <2> DEFINE served == [at |-> "answered", list |-> redis, late |-> redis < announced]
             empty == [at |-> "answered", list |-> 0, late |-> TRUE]
             answers == [at : {"answered"}, list : Lists, late : BOOLEAN]
  <2>1. redis # None => served \in answers
    BY DEF TypeOK
  <2>2. empty \in answers
    BY DEF TypeOK
  <2>3. alerts' = alerts /\ \E f \in fetches :
          \/ redis # None /\ fetches' = {served} \cup (fetches \ {f})
          \/ fetches' = {empty} \cup (fetches \ {f})
    BY <1>4 DEF HandleAlerts
  <2> HIDE DEF served, empty
  <2> QED
    BY <2>1, <2>2, <2>3 DEF TypeOK, BannerOK
<1>5. CASE ReplaceAlerts
  BY <1>5 DEF ReplaceAlerts, TypeOK, BannerOK
<1> QED
  BY <1>1, <1>2, <1>3, <1>4, <1>5
  DEF Next, vars, Poller, Connection, Alerts, Departures, NewAlerts, Poll, Store, Expire, Announce,
      Accept, Subscribe, Reconnect, Onerror, Navigate, Reload, ReloadEarly, Loaded, LoadFails, Retry

LEMMA LoadTypes ==
    ASSUME NEW t \in Trips \cup {None}, Load(t), BoardOK
    PROVE  /\ loads' \subseteq [trip : Trips, attempt : {1, 2}, at : {"sent", "wait"}]
           /\ departures' \in Trips \cup {None} /\ fetchError' \in BOOLEAN
BY DEF Load, BoardOK

LEMMA BoardStep == TypeOK /\ [Next]_vars => BoardOK' /\ troubles' \in 0..MaxTrouble
<1> SUFFICES ASSUME TypeOK, [Next]_vars PROVE BoardOK' /\ troubles' \in 0..MaxTrouble
  OBVIOUS
<1>0. BoardOK /\ troubles \in 0..MaxTrouble /\ MaxTrouble \in Nat /\ MaxNavigations \in Nat
  BY CommutePageAssumption, TypeParts
<1>1. troubles' \in 0..MaxTrouble
  BY <1>0 DEF Next, vars, Poller, Connection, Alerts, Departures, NewAlerts, Poll, Store, Announce,
      Expire, Accept, Onopen, Subscribe, Reconnect, Onerror, Event, Interval, HandleAlerts,
      ReplaceAlerts, Resume, FetchFails, Navigate, Reload, ReloadEarly, Loaded, LoadFails, Retry
<1>2. CASE UNCHANGED board
  BY <1>0, <1>1, <1>2 DEF BoardOK, board
<1>3. CASE Navigate
  <2>1. PICK t \in Trips \cup {None} : trip' = t /\ Load(t)
    BY <1>3 DEF Navigate
  <2> QED
    BY <1>0, <1>1, <1>3, <2>1, LoadTypes DEF Navigate, BoardOK
<1>4. CASE Reload \/ ReloadEarly
  BY <1>0, <1>1, <1>4, LoadTypes DEF Reload, ReloadEarly, BoardOK
<1>5. CASE Loaded
  BY <1>0, <1>1, <1>5 DEF Loaded, BoardOK
<1>6. CASE LoadFails
  BY <1>0, <1>1, <1>6 DEF LoadFails, BoardOK
<1>7. CASE Retry
  BY <1>0, <1>1, <1>7 DEF Retry, BoardOK
<1> QED
  BY <1>1, <1>2, <1>3, <1>4, <1>5, <1>6, <1>7
  DEF Next, vars, Poller, Connection, Alerts, Departures, NewAlerts, Poll, Store,
      Announce, Expire, Accept, Onopen, Subscribe, Reconnect, Onerror, Event, Interval,
      HandleAlerts, ReplaceAlerts, Resume, FetchFails

\* Every variable keeps its type, and no more events wait than the buffer holds.
THEOREM TypeCorrect == Spec => []TypeOK
<1>1. Init => TypeOK
  <2> SUFFICES ASSUME Init PROVE TypeOK
    OBVIOUS
  <2> USE CommutePageAssumption
  <2>1. BackendOK
    BY DEF Init, BackendOK
  <2>2. LinkOK
    <3>1. stream = "connecting" /\ events = << >>
      BY DEF Init
    <3> QED
      BY <3>1 DEF LinkOK
  <2>3. BannerOK
    BY DEF Init, BannerOK
  <2>4. BoardOK /\ troubles \in 0..MaxTrouble
    <3>1. trip = None /\ departures = None /\ loads = {} /\ navigations = 0 /\ troubles = 0
      BY DEF Init
    <3>2. fetchError = FALSE
      BY Zenon DEF Init
    <3>3. 0 \in 0..MaxTrouble /\ 0 \in 0..MaxNavigations
      OBVIOUS
    <3> QED
      BY <3>1, <3>2, <3>3, Zenon DEF BoardOK
  <2> QED
    BY <2>1, <2>2, <2>3, <2>4, TypeParts
<1>2. TypeOK /\ [Next]_vars => TypeOK'
  BY BackendStep, LinkStep, BannerStep, BoardStep
  DEF TypeOK, BackendOK, LinkOK, BannerOK, BoardOK
<1> QED
  BY <1>1, <1>2, PTL DEF Spec

-----------------------------------------------------------------------------
(* The departures.                                                          *)

LEMMA LoadOwn ==
    ASSUME NEW t \in Trips \cup {None}, Load(t), trip' = t
    PROVE  OwnDepartures'
<1>1. CASE t = None
  <2>1. loads' = {} /\ departures' = None
    BY <1>1 DEF Load
  <2> QED
    BY <1>1, <2>1 DEF OwnDepartures
<1>2. CASE t # None
  <2> DEFINE new == [trip |-> t, attempt |-> 1, at |-> "sent"]
  <2>1. loads' = {new} /\ new.trip = t
    BY <1>2 DEF Load
  <2> HIDE DEF new
  <2> QED
    BY <2>1 DEF OwnDepartures
<1> QED
  BY <1>1, <1>2

\* Once no load is under way and no error is shown, the departures on the page
\* are those of its trip, for any trips and any number of failures.
THEOREM OwnTrip == Spec => []OwnDepartures
<1>1. Init => OwnDepartures
  BY DEF Init, OwnDepartures
<1>2. TypeOK /\ OwnDepartures /\ [Next]_vars => OwnDepartures'
  <2> SUFFICES ASSUME TypeOK, OwnDepartures, [Next]_vars PROVE OwnDepartures'
    OBVIOUS
  <2>1. CASE UNCHANGED board
    BY <2>1 DEF board, OwnDepartures
  <2>2. CASE Navigate
    BY <2>2, LoadOwn DEF Navigate
  <2>3. CASE Reload \/ ReloadEarly
    BY <2>3, LoadOwn DEF Reload, ReloadEarly, TypeOK
  <2>4. CASE Loaded
    <3> PICK l \in loads : loads' = loads \ {l} /\ departures' = l.trip /\ trip' = trip
      BY <2>4 DEF Loaded
    <3> QED
      BY DEF OwnDepartures
  <2>5. CASE LoadFails
    <3> PICK l \in loads :
          /\ loads' = (loads \ {l}) \cup
                      (IF l.attempt = 1 THEN {[trip |-> l.trip, attempt |-> 2, at |-> "wait"]} ELSE {})
          /\ fetchError' = (fetchError \/ l.attempt = 2)
          /\ trip' = trip
      BY <2>5 DEF LoadFails
    <3>1. l.trip = trip /\ l.attempt \in {1, 2}
      BY DEF OwnDepartures, TypeOK
    <3> DEFINE again == [trip |-> l.trip, attempt |-> 2, at |-> "wait"]
    <3>2. CASE l.attempt = 1
      <4>1. loads' = (loads \ {l}) \cup {again} /\ again.trip = trip
        BY <3>1, <3>2
      <4> HIDE DEF again
      <4> QED
        BY <4>1 DEF OwnDepartures
    <3>3. CASE l.attempt = 2
      <4>1. l.attempt # 1
        BY <3>3
      <4>2. loads' = (loads \ {l}) \cup {}
        BY <4>1, Zenon
      <4>3. fetchError' = TRUE
        BY <3>3, Zenon
      <4>4. fetchError' /\ loads' = loads \ {l}
        BY <4>2, <4>3
      <4> QED
        BY <4>4 DEF OwnDepartures
    <3> QED
      BY <3>1, <3>2, <3>3
  <2>6. CASE Retry
    <3> PICK l \in loads :
          loads' = (loads \ {l}) \cup {[l EXCEPT !.at = "sent"]} /\ trip' = trip
      BY <2>6 DEF Retry
    <3> DEFINE again == [l EXCEPT !.at = "sent"]
    <3>1. l.trip = trip /\ again.trip = trip
      BY DEF OwnDepartures, TypeOK
    <3> HIDE DEF again
    <3> QED
      BY <3>1 DEF OwnDepartures, again
  <2> QED
    BY <2>1, <2>2, <2>3, <2>4, <2>5, <2>6
    DEF Next, vars, board, Poller, Connection, Alerts, Departures, NewAlerts, Poll, Store,
        Announce, Expire, Accept, Onopen, Subscribe, Reconnect, Onerror, Event, Interval,
        HandleAlerts, ReplaceAlerts, Resume, FetchFails
<1> QED
  BY <1>1, <1>2, TypeCorrect, PTL DEF Spec

-----------------------------------------------------------------------------
(* The alerts.  The invariant orders the places that a list of alerts       *)
(* passes on its way to the page.                                           *)

\* The youngest list that may have left the poller: the one it is at, or
\* between its cycles any that Metrolinx had.
Newest == IF polled.at = "idle" THEN current ELSE polled.list

Answered == {f \in fetches : f.at = "answered"}

\* The poller is never ahead of Metrolinx, and nobody is ahead of the poller.
Behind ==
    /\ polled.at # "idle" => polled.list <= current
    /\ announced <= Newest /\ alerts <= Newest
    /\ redis # None => redis <= Newest
    /\ \A f \in Answered : f.list <= Newest

\* Events come from what was announced.
FromAnnounced == \A i \in 1..Len(events) : events[i] <= announced

\* Unless Redis has missed an announced list, nothing on the page or on its
\* way to it is younger than Redis.
RedisLeads ==
    redis # None /\ announced <= redis =>
        alerts <= redis /\ \A f \in Answered : f.list <= redis

\* One fetch at a time, and its answer is no step back unless it is late.
Fresh ==
    /\ \A f \in Answered : ~f.late => alerts <= f.list
    /\ \A f, g \in fetches : f = g

Ordered == Behind /\ FromAnnounced /\ RedisLeads /\ Fresh

LEMMA ElementType ==
    ASSUME NEW S, NEW seq \in Seq(S), NEW i \in 1..Len(seq)
    PROVE  seq[i] \in S
OBVIOUS

LEMMA Numbers ==
    ASSUME TypeOK
    PROVE  /\ current \in Nat /\ announced \in Nat /\ alerts \in Nat
           /\ polled.at # "idle" => polled.list \in Nat
           /\ redis # None => redis \in Nat
           /\ \A f \in Answered : f.list \in Nat
           /\ \A i \in 1..Len(events) : events[i] \in Nat
<1>1. Lists \subseteq Nat
  BY CommutePageAssumption
<1>2. \A f \in Answered : f.list \in Lists
  BY DEF Answered, TypeOK
<1>3. \A i \in 1..Len(events) : events[i] \in Lists
  <2>1. events \in Seq(Lists)
    BY DEF TypeOK
  <2> QED
    BY <2>1, ElementType
<1>4. polled.at # "idle" => polled.list \in Lists
  BY DEF TypeOK
<1> QED
  BY <1>1, <1>2, <1>3, <1>4 DEF TypeOK

\* Metrolinx and the poller change nothing on the page.
LEMMA BackendOrdered ==
    ASSUME TypeOK, TypeOK', Ordered, UNCHANGED banner, NewAlerts \/ Poll \/ Store \/ Announce \/ Expire
    PROVE  Ordered'
<1> USE Numbers
<1>0. Answered' = Answered /\ alerts' = alerts /\ fetches' = fetches
  BY DEF banner, Answered
<1>1. Fresh'
  BY <1>0 DEF Ordered, Fresh
<1>2. CASE NewAlerts
  <2>1. /\ current' = current + 1 /\ polled' = polled /\ redis' = redis
        /\ announced' = announced /\ events' = events
    BY <1>2 DEF NewAlerts, link
  <2> QED
    BY <1>0, <1>1, <2>1 DEF Ordered, Behind, FromAnnounced, RedisLeads, Newest
<1>3. CASE Poll
  <2>1. /\ polled.at = "idle" /\ polled'.at = "store" /\ polled'.list = current
        /\ current' = current /\ redis' = redis /\ announced' = announced /\ events' = events
    BY <1>3 DEF Poll, link
  <2> QED
    BY <1>0, <1>1, <2>1 DEF Ordered, Behind, FromAnnounced, RedisLeads, Newest
<1>4. CASE Store
  <2>1. /\ polled.at = "store" /\ polled'.at = "announce" /\ polled'.list = polled.list
        /\ redis' \in {polled.list, redis}
        /\ current' = current /\ announced' = announced /\ events' = events
    BY <1>4 DEF Store, link, TypeOK
  <2> QED
    BY <1>0, <1>1, <2>1 DEF Ordered, Behind, FromAnnounced, RedisLeads, Newest
<1>5. CASE Announce
  <2>1. /\ polled.at = "announce" /\ polled'.at = "idle" /\ announced' = polled.list
        /\ current' = current /\ redis' = redis
        /\ events' \in {Append(events, polled.list), events}
    BY <1>5 DEF Announce, Arrives
  <2>2. announced <= announced'
    BY <2>1 DEF Ordered, Behind, Newest
  <2>3. FromAnnounced'
    <3>1. \A i \in 1..Len(events) : events[i] <= announced'
      BY <2>1, <2>2 DEF Ordered, FromAnnounced
    <3>2. CASE events' = events
      BY <3>1, <3>2 DEF FromAnnounced
    <3>3. CASE events' = Append(events, polled.list)
      <4>0. events \in Seq(Lists) /\ polled.list \in Nat
        BY <2>1 DEF TypeOK
      <4>1. Len(events') = Len(events) + 1 /\ events'[Len(events) + 1] = announced'
        BY <2>1, <3>3, <4>0
      <4>2. \A i \in 1..Len(events) : events'[i] = events[i]
        BY <3>3, <4>0
      <4>3. Len(events) \in Nat
        BY <4>0
      <4> QED
        BY <2>1, <3>1, <4>0, <4>1, <4>2, <4>3 DEF FromAnnounced
    <3> QED
      BY <2>1, <3>2, <3>3
  <2> QED
    BY <1>0, <1>1, <2>1, <2>2, <2>3 DEF Ordered, Behind, RedisLeads, Newest
<1>6. CASE Expire
  <2>1. /\ redis' = None /\ polled' = polled /\ current' = current
        /\ announced' = announced /\ events' = events
    BY <1>6 DEF Expire, link
  <2> QED
    BY <1>0, <1>1, <2>1 DEF Ordered, Behind, FromAnnounced, RedisLeads, Newest
<1> QED
  BY <1>2, <1>3, <1>4, <1>5, <1>6

\* Fewer fetches, fewer events and the same alerts keep the order.
LEMMA FewerOrdered ==
    ASSUME Ordered, UNCHANGED backend, alerts' = alerts, events' \in {events, << >>},
           fetches' = Asked \/ fetches' \subseteq fetches
    PROVE  Ordered'
<1>1. Answered' \subseteq Answered
  BY DEF Answered
<1>2. Fresh'
  BY <1>1 DEF Ordered, Fresh
<1>3. FromAnnounced'
  BY DEF Ordered, FromAnnounced, backend
<1> QED
  BY <1>1, <1>2, <1>3 DEF Ordered, Behind, RedisLeads, Newest, backend

\* The page takes a list from what was announced, or from an answer.
LEMMA PageOrdered ==
    ASSUME TypeOK, TypeOK', Ordered, UNCHANGED backend, Event \/ HandleAlerts \/ ReplaceAlerts
    PROVE  Ordered'
<1> USE Numbers
<1>0. /\ current' = current /\ polled' = polled /\ redis' = redis
      /\ announced' = announced /\ Newest' = Newest
  BY DEF backend, Newest
<1>1. CASE Event
  <2>1. events # << >> /\ alerts' = Head(events) /\ events' = Tail(events) /\ fetches' = {}
    BY <1>1 DEF Event
  <2>2. Len(events) \in Nat \ {0} /\ Head(events) = events[1]
    BY <2>1 DEF TypeOK
  <2>3. alerts' <= announced /\ alerts' \in Nat
    BY <2>1, <2>2 DEF Ordered, FromAnnounced
  <2>4. Len(Tail(events)) = Len(events) - 1
        /\ \A i \in 1..Len(Tail(events)) : Tail(events)[i] = events[i + 1]
    BY <2>1, <2>2 DEF TypeOK
  <2>5. FromAnnounced'
    BY <1>0, <2>1, <2>2, <2>4 DEF Ordered, FromAnnounced
  <2>6. Answered' = {}
    BY <2>1 DEF Answered
  <2>7. announced <= Newest /\ Newest \in Nat
    BY DEF Ordered, Behind, Newest
  <2>8. Behind'
    BY <1>0, <2>3, <2>6, <2>7 DEF Ordered, Behind
  <2>9. RedisLeads'
    BY <1>0, <2>3, <2>6 DEF RedisLeads
  <2> QED
    BY <2>1, <2>5, <2>6, <2>8, <2>9 DEF Ordered, Fresh
<1>2. CASE HandleAlerts
  <2> DEFINE served == [at |-> "answered", list |-> redis, late |-> redis < announced]
             empty == [at |-> "answered", list |-> 0, late |-> TRUE]
  <2>1. events' = events /\ alerts' = alerts
    BY <1>2 DEF HandleAlerts, link
  <2>2. \E g : /\ fetches' = {g} /\ g.at = "answered"
               /\ \/ redis # None /\ g.list = redis /\ (~g.late => announced <= redis)
                  \/ g.list = 0 /\ g.late = TRUE
    <3>1. PICK f \in fetches :
            \/ redis # None /\ fetches' = {served} \cup (fetches \ {f})
            \/ fetches' = {empty} \cup (fetches \ {f})
      BY <1>2 DEF HandleAlerts
    <3>2. fetches \ {f} = {}
      BY DEF Ordered, Fresh
    <3>3. served.at = "answered" /\ served.list = redis /\ served.late = (redis < announced)
      OBVIOUS
    <3>4. ~served.late => ~(redis < announced)
      BY <3>3, Zenon
    <3>5. redis # None /\ ~served.late => announced <= redis
      BY <3>4
    <3>6. empty.at = "answered" /\ empty.list = 0 /\ empty.late = TRUE
      OBVIOUS
    <3> HIDE DEF served, empty
    <3> QED
      BY <3>1, <3>2, <3>3, <3>5, <3>6
  <2>3. PICK g : /\ fetches' = {g} /\ g.at = "answered"
                 /\ \/ redis # None /\ g.list = redis /\ (~g.late => announced <= redis)
                    \/ g.list = 0 /\ g.late = TRUE
    BY <2>2
  <2>4. Answered' = {g}
    BY <2>3 DEF Answered
  <2>5. Newest \in Nat
    BY DEF Ordered, Behind, Newest
  <2>6. Behind'
    BY <1>0, <2>1, <2>3, <2>4, <2>5 DEF Ordered, Behind
  <2>7. RedisLeads'
    BY <1>0, <2>1, <2>3, <2>4 DEF Ordered, RedisLeads
  <2>8. ~g.late => alerts <= g.list
    BY <2>3 DEF Ordered, RedisLeads
  <2>9. Fresh'
    BY <2>1, <2>3, <2>4, <2>8 DEF Fresh
  <2> QED
    BY <1>0, <2>1, <2>6, <2>7, <2>9 DEF Ordered, FromAnnounced
<1>3. CASE ReplaceAlerts
  <2>1. PICK f \in fetches : f.at = "answered" /\ alerts' = f.list /\ fetches' = fetches \ {f}
    BY <1>3 DEF ReplaceAlerts
  <2>2. f \in Answered /\ fetches' = {} /\ Answered' = {} /\ events' = events
    BY <1>3, <2>1 DEF Ordered, Fresh, Answered, ReplaceAlerts, link
  <2> QED
    BY <1>0, <2>1, <2>2 DEF Ordered, Behind, FromAnnounced, RedisLeads, Fresh
<1> QED
  BY <1>1, <1>2, <1>3

LEMMA OrderedStep == TypeOK /\ TypeOK' /\ Ordered /\ [Next]_vars => Ordered'
<1> SUFFICES ASSUME TypeOK, TypeOK', Ordered, [Next]_vars PROVE Ordered'
  OBVIOUS
<1>1. CASE NewAlerts \/ Poll \/ Store \/ Announce \/ Expire
  <2>1. UNCHANGED banner
    BY <1>1 DEF NewAlerts, Poll, Store, Announce, Expire
  <2> QED
    BY <1>1, <2>1, BackendOrdered
<1>2. CASE Event \/ HandleAlerts \/ ReplaceAlerts
  <2>1. UNCHANGED backend
    BY <1>2 DEF Event, HandleAlerts, ReplaceAlerts
  <2> QED
    BY <1>2, <2>1, PageOrdered
<1>3. CASE Onopen \/ Onerror \/ Interval \/ Resume \/ FetchFails
  <2>1. UNCHANGED backend /\ alerts' = alerts /\ events' \in {events, << >>}
    BY <1>3 DEF Onopen, Onerror, Interval, Resume, FetchFails, banner, link
  <2>2. fetches' = Asked \/ fetches' \subseteq fetches
    BY <1>3 DEF Onopen, Onerror, Interval, Resume, FetchFails, banner
  <2> QED
    BY <2>1, <2>2, FewerOrdered
<1>4. CASE UNCHANGED <<backend, events, banner>>
  BY <1>4, FewerOrdered DEF banner
<1>5. CASE Accept \/ Subscribe \/ Reconnect \/ Navigate \/ Reload \/ ReloadEarly \/ Loaded \/ LoadFails \/ Retry
  <2>1. UNCHANGED <<backend, events, banner>>
    BY <1>5 DEF Accept, Subscribe, Reconnect, Navigate, Reload, ReloadEarly, Loaded, LoadFails, Retry, link
  <2> QED
    BY <1>4, <2>1
<1>6. CASE UNCHANGED vars
  BY <1>4, <1>6 DEF vars, link
<1> QED
  BY <1>1, <1>2, <1>3, <1>5, <1>6 DEF Next, Poller, Connection, Alerts, Departures

\* An answer takes the page back only when Redis was behind what was announced,
\* had no list or failed, whatever fetches, events and polls interleave.
THEOREM NeverBack == Spec => NoStepBack
<1>1. Init => Ordered
  <2> SUFFICES ASSUME Init PROVE Ordered
    OBVIOUS
  <2>1. /\ current = 0 /\ polled.at = "idle" /\ redis = 0 /\ announced = 0 /\ alerts = 0
        /\ events = << >> /\ fetches = Asked
    BY DEF Init
  <2>2. Answered = {}
    BY <2>1 DEF Answered
  <2>3. Len(events) = 0
    BY <2>1
  <2> QED
    BY <2>1, <2>2, <2>3 DEF Ordered, Behind, FromAnnounced, RedisLeads, Fresh, Newest
<1>2. TypeOK /\ TypeOK' /\ Ordered /\ [Next]_vars =>
        [(alerts' < alerts /\ events' = events) =>
            \E f \in fetches \ fetches' : f.at = "answered" /\ f.late]_vars
  <2> SUFFICES ASSUME TypeOK, TypeOK', Ordered, [Next]_vars, alerts' < alerts, events' = events
               PROVE  \E f \in fetches \ fetches' : f.at = "answered" /\ f.late
    OBVIOUS
  <2>1. alerts' # alerts
    BY Numbers
  <2>2. ReplaceAlerts \/ Event
    BY <2>1 DEF Next, vars, banner, Poller, Connection, Alerts, Departures, NewAlerts, Poll, Store,
       Announce, Expire, Accept, Onopen, Subscribe, Reconnect, Onerror, Interval, HandleAlerts,
       Resume, FetchFails, Navigate, Reload, ReloadEarly, Loaded, LoadFails, Retry
  <2>3. CASE Event
    <3>1. events # << >> /\ events' = Tail(events)
      BY <2>3 DEF Event
    <3>2. events \in Seq(Lists)
      BY DEF TypeOK
    <3>3. Len(Tail(events)) = Len(events) - 1 /\ Len(events) \in Nat
      BY <3>1, <3>2
    <3> QED
      BY <3>1, <3>3
  <2>4. CASE ReplaceAlerts
    <3>1. PICK f \in fetches : f.at = "answered" /\ alerts' = f.list /\ fetches' = fetches \ {f}
      BY <2>4 DEF ReplaceAlerts
    <3>2. f \in Answered /\ f.list \in Nat /\ alerts \in Nat
      BY <3>1, Numbers DEF Answered
    <3>3. f.late
      BY <3>1, <3>2 DEF Ordered, Fresh
    <3> QED
      BY <3>1, <3>3
  <2> QED
    BY <2>2, <2>3, <2>4
<1> QED
  BY <1>1, <1>2, TypeCorrect, OrderedStep, PTL DEF Spec, NoStepBack
=============================================================================
