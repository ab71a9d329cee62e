-------------------------- MODULE DeparturesProofs --------------------------
(***************************************************************************)
(* What an answer of departures-api guarantees for any feeds, boards and   *)
(* delays and any number of writes of the poller between its reads, proved *)
(* with TLAPS.                                                             *)
(***************************************************************************)
EXTENDS Departures, CalendarProofs

\* The delay of the update that the lookups would find now.
Current ==
    IF updates.id # None THEN FindDelay(updates.id)
    ELSE IF updates.number # None THEN FindDelay(updates.number) ELSE 0

\* What the handler has found so far was there since the request came in,
\* unless the key has been touched.
FoundInv ==
    /\ pc # "done" => DelayOf(updates.id) \in held
    /\ pc \in {"delayByNumber", "statusByNumber"} /\ "updates" \notin touched => updates.id = None
    /\ pc = "delayByNumber" => None \in held
    /\ pc \in {"status", "statusByNumber"} /\ "updates" \notin touched => delay = Current

\* Once there is a delay, it is one that the train's own update had meanwhile.
OwnInv ==
    \/ pc \in {"schedule", "destination", "board", "glance", "delay", "delayByNumber"}
    \/ pc = "done" /\ ~dep.listed
    \/ None \in held \/ delay \in held

\* The actual time is as many minutes after midnight of the service day and the
\* departure, and some seconds.
Timely(t, d) ==
    /\ d.actual = None <=> d.minutes <= 0
    /\ d.actual # None => \E s \in 0..59 : d.actual = Scheduled(t) + 60 * d.minutes + s

\* The parts of a departure that must agree whatever sources it has been
\* through.
Agree(t, d) ==
    /\ d.status.text = "Delayed" => d.status.minutes = d.minutes /\ d.minutes >= 1
    /\ Timely(t, d)
    /\ d.cancelled => d.status = Cancelled

\* "On Time" next to delay minutes.
Calm(d) == d.status = OnTime /\ d.minutes >= 1

\* From the status on the parts of the departure agree; until service glance
\* is looked at, its minutes are those of the delay found.
AgreeInv ==
    /\ pc = "schedule" => dep = NoDep
    /\ pc \notin {"exceptions", "next", "platforms", "done"} => ~dep.cancelled
    /\ pc \in {"arrival", "enrich"} => dep.minutes = Minutes(delay)
    /\ pc \in {"arrival", "enrich", "exceptions", "next", "platforms", "done"} =>
          Agree(train, dep) /\ (Calm(dep) => "updates" \in touched)

\* Only a departure that has passed the exceptions is listed.
ListedInv ==
    /\ dep.listed => pc \in {"next", "platforms", "done"}
    /\ dep.listed /\ "exceptions" \notin touched /\ exceptions \in {"trip", "here"} => dep.cancelled

IInv == TypeOK /\ FoundInv /\ OwnInv /\ AgreeInv /\ ListedInv

-----------------------------------------------------------------------------
(* The operators.                                                           *)

LEMMA FindDelayInt ==
  ASSUME NEW e \in Entities
  PROVE  FindDelay(e) \in Int
  <1> DEFINE before == {i \in 1..Len(e.stops) : \A j \in 1..(i - 1) : e.stops[j].stop # "here"}
             delays == {i \in before : e.stops[i].delay # 0}
             last == CHOOSE i \in delays : \A j \in delays : j <= i
  <1>1. Len(e.stops) \in Nat /\ \A i \in 1..Len(e.stops) : e.stops[i].delay \in Int
    <2> DEFINE StopTime == [stop : {"here", "there"}, delay : Int]
    <2>1. e.stops \in Seq(StopTime)
      BY DEF Entities
    <2>2. Len(e.stops) \in Nat /\ \A i \in 1..Len(e.stops) : e.stops[i] \in StopTime
      <3> HIDE DEF StopTime
      <3> QED BY <2>1
    <2> QED BY <2>2
  <1>2. CASE delays = {}
    BY <1>2 DEF FindDelay
  <1>3. CASE delays # {}
    <2>1. \E k \in delays : \A j \in delays : j <= k
      <3>1. delays \in SUBSET (0..Len(e.stops))
        OBVIOUS
      <3> HIDE DEF delays
      <3> QED BY <1>1, <1>3, <3>1, LastExists
    <2>2. last \in delays
      <3> HIDE DEF delays
      <3> QED BY <2>1
    <2>3. e.stops[last].delay \in Int
      BY <1>1, <2>2
    <2>4. FindDelay(e) = e.stops[last].delay
      BY <1>3 DEF FindDelay
    <2> QED BY <2>3, <2>4
  <1> QED BY <1>2, <1>3

\* The lookups return nothing or an entity of the feed.
LEMMA IndexedTyped ==
  ASSUME NEW feed \in TripFeeds
  PROVE  Indexed(feed).id \in Entities \cup {None} /\ Indexed(feed).number \in Entities \cup {None}
  <1> DEFINE own == {i \in 1..Len(feed) : feed[i].id = "own"}
             last == CHOOSE i \in own : \A j \in own : j <= i
  <1>1. feed \in Seq(Entities)
    BY DeparturesAssumption
  <1>2. Len(feed) \in Nat /\ \A i \in 1..Len(feed) : feed[i] \in Entities
    <2> HIDE DEF own
    <2> QED BY <1>1
  <1>3. ByNumber(feed) \in Entities \cup {None}
    <2>1. CASE feed = << >>
      BY <2>1 DEF ByNumber
    <2>2. CASE feed # << >>
      <3>1. 1 \in 1..Len(feed)
        BY <1>1, <2>2
      <3> QED BY <1>2, <2>2, <3>1 DEF ByNumber
    <2> QED BY <2>1, <2>2
  <1>4. ById(feed) \in Entities \cup {None}
    <2>1. CASE own = {}
      BY <2>1 DEF ById
    <2>2. CASE own # {}
      <3>1. \E k \in own : \A j \in own : j <= k
        <4>1. own \in SUBSET (0..Len(feed))
          OBVIOUS
        <4> HIDE DEF own
        <4> QED BY <1>2, <2>2, <4>1, LastExists
      <3>2. last \in own
        <4> HIDE DEF own
        <4> QED BY <3>1
      <3>3. feed[last] \in Entities
        BY <1>2, <3>2
      <3>4. ById(feed) = feed[last]
        BY <2>2 DEF ById
      <3> QED BY <3>3, <3>4
    <2> QED BY <2>1, <2>2
  <1> QED BY <1>3, <1>4 DEF Indexed

\* Whatever Redis holds of the train, its delay is a number or unknown.
LEMMA UpdatesTyped ==
  ASSUME NEW u \in {Indexed(feed) : feed \in TripFeeds}
  PROVE  /\ u.id \in Entities \cup {None} /\ u.number \in Entities \cup {None}
         /\ u.id # None => FindDelay(u.id) \in Int
         /\ u.number # None => FindDelay(u.number) \in Int
         /\ DelayOf(u.id) \in Int \cup {None}
  <1>1. u.id \in Entities \cup {None} /\ u.number \in Entities \cup {None}
    BY IndexedTyped
  <1> QED BY <1>1, FindDelayInt DEF DelayOf

LEMMA MinutesInt ==
  /\ \A d \in Int : Minutes(d) \in Int
  /\ Minutes(0) = 0
  /\ \A d \in Int : d > 0 => Minutes(d) \in Nat
  BY DEF Minutes

\* A delay of some minutes is those minutes and less than one more.
LEMMA MinutesSplit ==
  ASSUME NEW d \in Int, Minutes(d) > 0
  PROVE  \E s \in 0..59 : d = 60 * Minutes(d) + s
  <1>1. d >= 0 /\ Minutes(d) = d \div 60
    BY DEF Minutes
  <1>2. d = 60 * (d \div 60) + (d % 60) /\ d % 60 \in 0..59
    OBVIOUS
  <1> QED BY <1>1, <1>2

\* Every train has a service day, and an instant of departure.
LEMMA ScheduledInt ==
  ASSUME NEW t \in Trains
  PROVE  /\ Scheduled(t) \in Int
         /\ OnMidnight(t) => Listed(t) = Scheduled(t)
  <1>1. t.base \in Nat /\ t.dep \in Nat
    BY DeparturesAssumption
  <1>2. PICK d \in Days : Midnight[d] <= t.base /\ t.base < Midnight[d] + DayLength[d]
    BY DeparturesAssumption
  <1>3. DateOf(t.base) = d /\ Midnight[d] \in Nat
    BY <1>1, <1>2, DateOfDay, Midnights
  <1> QED BY <1>1, <1>3 DEF Scheduled, ServiceDay, OnMidnight, Listed

-----------------------------------------------------------------------------
(* The three sources a departure goes through.                              *)

\* The texts of a status and the minutes after them.
Statuses == [text : {"On Time", "Cancelled", "Delayed", "PROCEED", "WAIT", "CANCELLED"}, minutes : Nat]

\* A departure just put together.
LEMMA NoDepTyped ==
  /\ NoDep \in Departure /\ (\A t : Agree(t, NoDep)) /\ ~Calm(NoDep)
  /\ ~NoDep.cancelled /\ ~NoDep.listed
  <1> DEFINE status == OnTime
             no == FALSE
             zero == 0
             never == None
             empty == ""
  <1>1. status \in Statuses
    BY DEF OnTime, Statuses
  <1>2. NoDep = [status |-> status, minutes |-> zero, actual |-> never, cancelled |-> no,
                 platform |-> empty, arrival |-> no, listed |-> no]
    BY DEF NoDep
  <1>3. /\ no \in BOOLEAN /\ zero \in Int /\ never \in Int \cup {None}
        /\ empty \in {"", "static", "dash", "union", "actual", "planned"}
    OBVIOUS
  <1>4. NoDep \in Departure
    <2> HIDE DEF status, no, zero, never, empty
    <2> QED BY <1>1, <1>2, <1>3 DEF Departure, Statuses
  <1>5. /\ NoDep.minutes = 0 /\ NoDep.actual = None /\ NoDep.status = OnTime
        /\ ~NoDep.cancelled /\ ~NoDep.listed
    BY DEF NoDep
  <1>6. OnTime.text = "On Time"
    BY DEF OnTime
  <1>7. NoDep.status.text # "Delayed" /\ ~(NoDep.minutes >= 1) /\ NoDep.minutes <= 0
    <2>1. NoDep.status.text # "Delayed"
      BY <1>5, <1>6
    <2>2. ~(NoDep.minutes >= 1) /\ NoDep.minutes <= 0
      BY <1>5
    <2> QED BY <2>1, <2>2
  <1>8. (\A t : Agree(t, NoDep)) /\ ~Calm(NoDep)
    BY <1>5, <1>7 DEF Agree, Timely, Calm
  <1> QED BY <1>4, <1>5, <1>8

\* Minutes, actual time and status are set together and nothing else is.
LEMMA TimedTyped ==
  ASSUME NEW d \in Departure, NEW late \in Int, NEW s \in Statuses, train \in Trains
  PROVE  LET c == Timed(d, late, s)
         IN  /\ c \in Departure
             /\ c.minutes = Minutes(late) /\ Timely(train, c) /\ c.status = s
             /\ c.cancelled = d.cancelled /\ c.listed = d.listed
  <1> DEFINE n == Minutes(late)
             a == IF n > 0 THEN Scheduled(train) + late ELSE None
             x == [d EXCEPT !.minutes = n]
             y == [x EXCEPT !.actual = a]
             z == [y EXCEPT !.status = s]
  <1>0. n \in Int
    BY MinutesInt
  <1>1. Timed(d, late, s) = z
    BY Zenon DEF Timed, n, a, x, y
  <1>2. /\ a \in Int \cup {None}
        /\ a = None <=> n <= 0
        /\ a # None => \E m \in 0..59 : a = Scheduled(train) + 60 * n + m
    <2>1. Scheduled(train) \in Int
      BY ScheduledInt
    <2>2. CASE n > 0
      <3>1. PICK m \in 0..59 : late = 60 * n + m
        BY <2>2, MinutesSplit
      <3>2. a = Scheduled(train) + late
        BY <2>2
      <3> HIDE DEF n, a
      <3>3. a = Scheduled(train) + 60 * n + m /\ a \in Int
        BY <1>0, <2>1, <3>1, <3>2
      <3>4. a # None /\ ~(n <= 0)
        <4>1. None \notin Int
          BY DeparturesAssumption
        <4>2. ~(n <= 0)
          BY <1>0, <2>2
        <4> QED BY <3>3, <4>1, <4>2
      <3> QED BY <3>3, <3>4, Zenon
    <2>3. CASE ~(n > 0)
      <3>1. a = None
        BY <2>3
      <3> HIDE DEF n, a
      <3> QED BY <1>0, <2>3, <3>1
    <2> QED BY <2>2, <2>3
  <1> HIDE DEF n, a
  <1>3. /\ x \in Departure /\ x.minutes = n
        /\ x.cancelled = d.cancelled /\ x.listed = d.listed
    BY <1>0 DEF Departure
  <1> HIDE DEF x
  <1>4. /\ y \in Departure /\ y.minutes = x.minutes /\ y.actual = a
        /\ y.cancelled = x.cancelled /\ y.listed = x.listed
    BY <1>2, <1>3 DEF Departure
  <1> HIDE DEF y
  <1>5. /\ z \in Departure /\ z.minutes = y.minutes /\ z.actual = y.actual /\ z.status = s
        /\ z.cancelled = y.cancelled /\ z.listed = y.listed
    BY <1>4 DEF Departure, Statuses
  <1> HIDE DEF z
  <1>6. Timely(train, z)
    <2>1. z.actual = a /\ z.minutes = n
      BY <1>3, <1>4, <1>5
    <2> QED BY <1>2, <2>1 DEF Timely
  <1>7. n = Minutes(late)
    BY DEF n
  <1> QED BY <1>1, <1>3, <1>4, <1>5, <1>6, <1>7

\* The status leaves the parts in agreement; it is calm with delay minutes
\* only if it found no update.
LEMMA JudgedAgrees ==
  ASSUME dep \in Departure, train \in Trains, delay \in Int, ~dep.cancelled, NEW e, e # None => e \in Entities
  PROVE  /\ Judged(e) \in Departure /\ Agree(train, Judged(e))
         /\ Judged(e).minutes = Minutes(delay)
         /\ ~Judged(e).cancelled /\ Judged(e).listed = dep.listed
         /\ Calm(Judged(e)) => e = None
  <1> DEFINE n == Minutes(delay)
             status == IF e = None THEN OnTime ELSE IF e.canceled THEN Cancelled
                       ELSE IF n >= 1 THEN Delayed(n) ELSE OnTime
  <1>1. n \in Int
    BY MinutesInt
  <1>2. /\ status \in Statuses
        /\ status.text = "Delayed" => status.minutes = n /\ n >= 1
        /\ status = OnTime /\ n >= 1 => e = None
    <2> HIDE DEF n
    <2>1. CASE e = None \/ e.canceled \/ ~(n >= 1)
      <3>1. status \in {OnTime, Cancelled}
        BY <2>1
      <3>2. status = OnTime /\ n >= 1 => e = None
        BY <1>1, <2>1 DEF OnTime, Cancelled
      <3> HIDE DEF status
      <3>3. status \in Statuses
        <4>1. OnTime \in Statuses /\ Cancelled \in Statuses
          BY DEF OnTime, Cancelled, Statuses
        <4> QED BY <3>1, <4>1
      <3>4. status.text # "Delayed"
        <4>1. OnTime.text = "On Time" /\ Cancelled.text = "Cancelled"
          BY DEF OnTime, Cancelled
        <4> QED BY <3>1, <4>1
      <3> QED BY <3>2, <3>3, <3>4
    <2>2. CASE ~(e = None \/ e.canceled \/ ~(n >= 1))
      <3>1. status = Delayed(n) /\ n \in Nat /\ n >= 1
        BY <1>1, <2>2
      <3> HIDE DEF status
      <3> QED BY <3>1 DEF OnTime, Delayed, Statuses
    <2> QED BY <2>1, <2>2
  <1>3. Judged(e) = Timed(dep, delay, status)
    BY DEF Judged
  <1> HIDE DEF status
  <1>4. /\ Judged(e) \in Departure
        /\ Judged(e).minutes = n /\ Timely(train, Judged(e))
        /\ Judged(e).status = status
        /\ Judged(e).cancelled = dep.cancelled /\ Judged(e).listed = dep.listed
    <2> QED BY <1>2, <1>3, TimedTyped
  <1> QED BY <1>2, <1>4 DEF Agree, Calm

\* Service glance sets minutes, status and actual time together, or finds the
\* minutes zero as they were.
LEMMA GlancedAgrees ==
  ASSUME NEW d \in Departure, Agree(train, d), ~d.cancelled, d.minutes = Minutes(delay),
         train \in Trains, delay \in Int, glanceRead \in Int \cup {None}
  PROVE  /\ Glanced(d) \in Departure /\ Agree(train, Glanced(d))
         /\ ~Glanced(d).cancelled /\ Glanced(d).listed = d.listed
         /\ Calm(Glanced(d)) => Calm(d)
  <1> DEFINE n == Minutes(glanceRead)
             c == Timed(d, glanceRead, Delayed(n))
  <1>1. CASE glanceRead = None \/ delay # 0 \/ glanceRead <= 0
    BY <1>1 DEF Glanced
  <1>2. CASE ~(glanceRead = None \/ delay # 0 \/ glanceRead <= 0)
    <2>1. n \in Nat /\ delay = 0 /\ d.minutes = 0
      BY <1>2, MinutesInt
    <2>2. Glanced(d) = IF n >= 1 THEN c ELSE [d EXCEPT !.minutes = 0]
      BY <1>2 DEF Glanced
    <2>3. CASE n >= 1
      <3>1. Glanced(d) = c
        BY <2>2, <2>3
      <3>2. Delayed(n) \in Statuses /\ glanceRead \in Int
        <4>1. glanceRead \in Int
          BY <1>2
        <4> HIDE DEF n
        <4> QED BY <2>1, <4>1 DEF Delayed, Statuses
      <3>3. /\ Glanced(d) \in Departure
            /\ Glanced(d).minutes = n /\ Timely(train, Glanced(d)) /\ Glanced(d).status = Delayed(n)
            /\ Glanced(d).cancelled = d.cancelled /\ Glanced(d).listed = d.listed
        BY <3>1, <3>2, TimedTyped
      <3> HIDE DEF n, c
      <3>4. Delayed(n).text = "Delayed" /\ Delayed(n).minutes = n /\ OnTime.text = "On Time"
        BY DEF Delayed, OnTime
      <3>5. ~Calm(Glanced(d))
        BY <3>3, <3>4 DEF Calm
      <3>6. ~Glanced(d).cancelled
        BY <3>3
      <3>7. Glanced(d).status.minutes = Glanced(d).minutes /\ Glanced(d).minutes >= 1
        BY <2>3, <3>3, <3>4
      <3>8. Agree(train, Glanced(d))
        BY <3>3, <3>6, <3>7 DEF Agree
      <3> QED BY <3>3, <3>5, <3>6, <3>8
    <2>4. CASE ~(n >= 1)
      <3>1. Glanced(d) = d
        BY <2>1, <2>2, <2>4 DEF Departure
      <3> QED BY <3>1
    <2> QED BY <2>3, <2>4
  <1> QED BY <1>1, <1>2

\* The Union board changes the status and the flag together, never the delay.
LEMMA BoardedAgrees ==
  ASSUME NEW d \in Departure, Agree(train, d), ~d.cancelled, boardRead \in Boards \cup {{}}
  PROVE  /\ Boarded(d) \in Departure /\ Agree(train, Boarded(d))
         /\ Boarded(d).listed = d.listed
         /\ Calm(Boarded(d)) => Calm(d)
  <1> DEFINE row == CHOOSE r \in boardRead : r.own
             status == IF row.info = "CANCELLED" THEN Cancelled
                       ELSE IF row.info # "" THEN Says(row.info) ELSE d.status
             platform == IF stop = "union" /\ d.platform = "" THEN row.platform ELSE d.platform
             flag == (row.info = "CANCELLED")
  <1>1. CASE \A r \in boardRead : ~r.own
    BY <1>1 DEF Boarded
  <1>2. CASE ~\A r \in boardRead : ~r.own
    <2>1. row \in boardRead
      BY <1>2
    <2>2. row \in [own : BOOLEAN, match : BOOLEAN, info : {"", "PROCEED", "WAIT", "CANCELLED"},
                   platform : {"", "dash", "union"}]
      BY <2>1, DeparturesAssumption
    <2>3. Boarded(d) = [d EXCEPT !.platform = platform, !.status = status, !.cancelled = flag]
      BY <1>2 DEF Boarded
    <2>4. row.info \in {"", "PROCEED", "WAIT", "CANCELLED"} /\ row.platform \in {"", "dash", "union"}
      BY <2>2
    <2> HIDE DEF row
    <2>5. d.status \in Statuses
          /\ d.platform \in {"", "static", "dash", "union", "actual", "planned"}
      BY DEF Departure, Statuses
    <2>6. /\ status \in Statuses
          /\ status.text = "Delayed" => status = d.status
          /\ status = OnTime => status = d.status
          /\ flag => status = Cancelled
      BY <2>4, <2>5 DEF Cancelled, Says, OnTime, Statuses
    <2>7. platform \in {"", "static", "dash", "union", "actual", "planned"} /\ flag \in BOOLEAN
      BY <2>4, <2>5
    <2> HIDE DEF status, platform, flag
    <2>8. /\ Boarded(d) \in Departure
          /\ Boarded(d).minutes = d.minutes /\ Boarded(d).actual = d.actual
          /\ Boarded(d).status = status /\ Boarded(d).cancelled = flag
          /\ Boarded(d).listed = d.listed
      BY <2>3, <2>6, <2>7 DEF Departure, Statuses
    <2> QED BY <2>6, <2>8 DEF Agree, Timely, Calm
  <1> QED BY <1>1, <1>2

-----------------------------------------------------------------------------
(* Every step preserves the invariant.                                      *)

LEMMA Bound ==
  MaxRewrites \in Nat
  BY DeparturesAssumption

\* A platform or an arrival time changes nothing else.
LEMMA Placed ==
  ASSUME NEW d \in Departure, NEW c,
         \/ c = d
         \/ \E p \in {"", "static", "dash", "union", "actual", "planned"} : c = [d EXCEPT !.platform = p]
         \/ c = [d EXCEPT !.arrival = TRUE]
  PROVE  /\ c \in Departure
         /\ c.status = d.status /\ c.minutes = d.minutes /\ c.actual = d.actual
         /\ c.cancelled = d.cancelled /\ c.listed = d.listed
  <1>1. CASE \E p \in {"", "static", "dash", "union", "actual", "planned"} : c = [d EXCEPT !.platform = p]
    BY <1>1 DEF Departure
  <1>2. CASE c = [d EXCEPT !.arrival = TRUE]
    BY <1>2 DEF Departure
  <1>3. CASE c = d
    BY <1>3
  <1> QED BY <1>1, <1>2, <1>3

\* So its parts agree if they did before.
LEMMA SameAgree ==
  ASSUME NEW d, NEW c, c.status = d.status, c.minutes = d.minutes, c.actual = d.actual,
         c.cancelled = d.cancelled
  PROVE  (Agree(train, d) => Agree(train, c)) /\ (Calm(c) => Calm(d))
  BY DEF Agree, Timely, Calm

LEMMA InitInv ==
  ASSUME Init
  PROVE  IInv
  <1>1. TypeOK
    <2>1. dep \in Departure
      BY NoDepTyped DEF Init
    <2>2. rewrites \in 0..MaxRewrites
      BY Bound DEF Init
    <2>3. /\ updates \in {Indexed(feed) : feed \in TripFeeds}
          /\ boardRead \in Boards \cup {{}} /\ glanceRead \in Glances \cup {None}
          /\ touched \subseteq {"updates", "glance", "board", "exceptions"}
          /\ held \subseteq Int \cup {None}
      BY DEF Init
    <2>4. pc = "done" /\ stop = "union" /\ delay = 0
      BY DEF Init
    <2>5. /\ dest \in BOOLEAN /\ destIDs \in BOOLEAN /\ train \in Trains
          /\ glance \in Glances /\ board \in Boards /\ exceptions \in Cancellations
      BY DEF Init
    <2> QED BY <2>1, <2>2, <2>3, <2>4, <2>5 DEF TypeOK
  <1>2. FoundInv /\ OwnInv /\ ListedInv
    BY NoDepTyped DEF Init, FoundInv, OwnInv, ListedInv
  <1>3. AgreeInv
    BY NoDepTyped DEF Init, AgreeInv
  <1> QED BY <1>1, <1>2, <1>3 DEF IInv

\* A write of the updates adds what they now say to what was held.
LEMMA WriteUpdatesInv ==
  ASSUME IInv, WriteUpdates
  PROVE  IInv'
  <1>1. \A u \in {Indexed(feed) : feed \in TripFeeds} : DelayOf(u.id) \in Int \cup {None}
    BY UpdatesTyped
  <1>2. held' \subseteq Int \cup {None}
    <2>1. held' = held \cup {DelayOf(updates'.id)}
      BY DEF WriteUpdates
    <2> QED BY <1>1, <2>1 DEF IInv, TypeOK, WriteUpdates
  <1>10. TypeOK'
    <2> USE DEF IInv, TypeOK, WriteUpdates, Rewrite, request, local
    <2>1. rewrites' \in 0..MaxRewrites
      BY Bound
    <2>2. dep' \in Departure
      BY NoDepTyped
    <2>3. /\ updates' \in {Indexed(feed) : feed \in TripFeeds}
          /\ boardRead' \in Boards \cup {{}} /\ glanceRead' \in Glances \cup {None}
          /\ touched' \subseteq {"updates", "glance", "board", "exceptions"}
          /\ delay' \in Int
      OBVIOUS
    <2>4. /\ pc' \in {"schedule", "destination", "board", "glance", "delay", "delayByNumber", "status",
                      "statusByNumber", "arrival", "enrich", "exceptions", "next", "platforms", "done"}
          /\ stop' \in {"union", "other"} /\ dest' \in BOOLEAN /\ destIDs' \in BOOLEAN
      OBVIOUS
    <2> QED BY <1>2, <2>1, <2>2, <2>3, <2>4
  <1>11. FoundInv'
    BY IInv, WriteUpdates
       DEF IInv, FoundInv, WriteUpdates, Current, Rewrite, request, local
  <1>12. OwnInv'
    BY IInv, WriteUpdates
       DEF IInv, OwnInv, WriteUpdates, Rewrite, request, local
  <1>13. AgreeInv'
    BY IInv, WriteUpdates
       DEF IInv, AgreeInv, WriteUpdates, Rewrite, request, local
  <1>14. ListedInv'
    BY IInv, WriteUpdates
       DEF IInv, ListedInv, WriteUpdates, Rewrite, request, local
  <1> QED BY <1>10, <1>11, <1>12, <1>13, <1>14 DEF IInv

\* The handler has what it has read.
LEMMA WriteGlanceInv ==
  ASSUME IInv, WriteGlance
  PROVE  IInv'
  <1>10. TypeOK'
    BY IInv, WriteGlance, Bound
       DEF IInv, TypeOK, WriteGlance, Rewrite, request, local
  <1>11. FoundInv'
    BY IInv, WriteGlance
       DEF IInv, FoundInv, WriteGlance, Current, Rewrite, request, local
  <1>12. OwnInv'
    BY IInv, WriteGlance
       DEF IInv, OwnInv, WriteGlance, Rewrite, request, local
  <1>13. AgreeInv'
    BY IInv, WriteGlance
       DEF IInv, AgreeInv, WriteGlance, Rewrite, request, local
  <1>14. ListedInv'
    BY IInv, WriteGlance
       DEF IInv, ListedInv, WriteGlance, Rewrite, request, local
  <1> QED BY <1>10, <1>11, <1>12, <1>13, <1>14 DEF IInv

\* The handler has what it has read.
LEMMA WriteBoardInv ==
  ASSUME IInv, WriteBoard
  PROVE  IInv'
  <1>10. TypeOK'
    BY IInv, WriteBoard, Bound
       DEF IInv, TypeOK, WriteBoard, Rewrite, request, local
  <1>11. FoundInv'
    BY IInv, WriteBoard
       DEF IInv, FoundInv, WriteBoard, Current, Rewrite, request, local
  <1>12. OwnInv'
    BY IInv, WriteBoard
       DEF IInv, OwnInv, WriteBoard, Rewrite, request, local
  <1>13. AgreeInv'
    BY IInv, WriteBoard
       DEF IInv, AgreeInv, WriteBoard, Rewrite, request, local
  <1>14. ListedInv'
    BY IInv, WriteBoard
       DEF IInv, ListedInv, WriteBoard, Rewrite, request, local
  <1> QED BY <1>10, <1>11, <1>12, <1>13, <1>14 DEF IInv

\* Whoever has been listed meanwhile has been checked before the write.
LEMMA WriteExceptionsInv ==
  ASSUME IInv, WriteExceptions
  PROVE  IInv'
  <1>10. TypeOK'
    BY IInv, WriteExceptions, Bound
       DEF IInv, TypeOK, WriteExceptions, Rewrite, request, local
  <1>11. FoundInv'
    BY IInv, WriteExceptions
       DEF IInv, FoundInv, WriteExceptions, Current, Rewrite, request, local
  <1>12. OwnInv'
    BY IInv, WriteExceptions
       DEF IInv, OwnInv, WriteExceptions, Rewrite, request, local
  <1>13. AgreeInv'
    BY IInv, WriteExceptions
       DEF IInv, AgreeInv, WriteExceptions, Rewrite, request, local
  <1>14. ListedInv'
    BY IInv, WriteExceptions
       DEF IInv, ListedInv, WriteExceptions, Rewrite, request, local
  <1> QED BY <1>10, <1>11, <1>12, <1>13, <1>14 DEF IInv

\* A request starts from an empty departure and the update of now.
LEMMA RequestInv ==
  ASSUME IInv, Request
  PROVE  IInv'
  <1>1. DelayOf(updates.id) \in Int \cup {None}
    BY UpdatesTyped, IInv DEF IInv, TypeOK
  <1>2. held' \subseteq Int \cup {None}
    <2>1. held' = {DelayOf(updates.id)}
      BY DEF Request
    <2> QED BY <1>1, <2>1 DEF IInv, TypeOK
  <1>10. TypeOK'
    <2> USE DEF IInv, TypeOK, Request, At, redis
    <2>1. rewrites' \in 0..MaxRewrites
      BY Bound
    <2>2. dep' \in Departure
      BY NoDepTyped
    <2>3. /\ updates' \in {Indexed(feed) : feed \in TripFeeds}
          /\ boardRead' \in Boards \cup {{}} /\ glanceRead' \in Glances \cup {None}
          /\ touched' \subseteq {"updates", "glance", "board", "exceptions"}
          /\ delay' \in Int
      OBVIOUS
    <2>4. /\ pc' \in {"schedule", "destination", "board", "glance", "delay", "delayByNumber", "status",
                      "statusByNumber", "arrival", "enrich", "exceptions", "next", "platforms", "done"}
          /\ stop' \in {"union", "other"} /\ dest' \in BOOLEAN /\ destIDs' \in BOOLEAN
      OBVIOUS
    <2> QED BY <1>2, <2>1, <2>2, <2>3, <2>4
  <1>11. FoundInv'
    BY NoDepTyped, IInv, Request
       DEF IInv, FoundInv, Request, At, redis
  <1>12. OwnInv'
    BY NoDepTyped, IInv, Request
       DEF IInv, OwnInv, Request, At, redis
  <1>13. AgreeInv'
    BY NoDepTyped, IInv, Request
       DEF IInv, AgreeInv, Request, At, redis
  <1>14. ListedInv'
    BY NoDepTyped, IInv, Request
       DEF IInv, ListedInv, Request, At, redis
  <1> QED BY <1>10, <1>11, <1>12, <1>13, <1>14 DEF IInv

\* An empty timetable ends the request with nothing listed.
LEMMA ScheduleInv ==
  ASSUME IInv, Schedule
  PROVE  IInv'
  <1>1. /\ dep' \in Departure
        /\ dep'.status = dep.status /\ dep'.minutes = dep.minutes /\ dep'.actual = dep.actual
        /\ dep'.cancelled = dep.cancelled /\ dep'.listed = dep.listed
    <2>1. dep \in Departure
      BY IInv DEF IInv, TypeOK
    <2>2. \/ dep' = dep
          \/ \E p \in {"", "static", "dash", "union", "actual", "planned"} : dep' = [dep EXCEPT !.platform = p]
      BY Schedule DEF Schedule
    <2> QED BY <2>1, <2>2, Placed
  <1>2. (Agree(train, dep) => Agree(train, dep')) /\ (Calm(dep') => Calm(dep))
    BY <1>1, SameAgree
  <1>10. TypeOK'
    BY IInv, Schedule, <1>1
       DEF IInv, TypeOK, Schedule, At, redis, request, local, history
  <1>11. FoundInv'
    BY IInv, Schedule
       DEF IInv, FoundInv, Schedule, At, redis, request, local, history, TypeOK, Current
  <1>12. OwnInv'
    BY IInv, Schedule, <1>1
       DEF IInv, OwnInv, Schedule, At, redis, request, local, history, TypeOK, ListedInv
  <1>13. AgreeInv'
    BY IInv, Schedule, <1>1, <1>2, NoDepTyped
       DEF IInv, AgreeInv, Schedule, At, redis, request, local, history, TypeOK
  <1>14. ListedInv'
    BY IInv, Schedule, <1>1
       DEF IInv, ListedInv, Schedule, At, redis, request, local, history, TypeOK
  <1> QED BY <1>10, <1>11, <1>12, <1>13, <1>14 DEF IInv

\* The destination plays no part in the status.
LEMMA DestinationInv ==
  ASSUME IInv, Destination
  PROVE  IInv'
  <1>10. TypeOK'
    BY IInv, Destination
       DEF IInv, TypeOK, Destination, At, redis, request, history
  <1>11. FoundInv'
    BY IInv, Destination
       DEF IInv, FoundInv, Destination, At, redis, request, history, TypeOK, Current
  <1>12. OwnInv'
    BY IInv, Destination
       DEF IInv, OwnInv, Destination, At, redis, request, history, TypeOK, ListedInv
  <1>13. AgreeInv'
    BY IInv, Destination
       DEF IInv, AgreeInv, Destination, At, redis, request, history, TypeOK
  <1>14. ListedInv'
    BY IInv, Destination
       DEF IInv, ListedInv, Destination, At, redis, request, history, TypeOK
  <1> QED BY <1>10, <1>11, <1>12, <1>13, <1>14 DEF IInv

\* The board is read.
LEMMA BoardInv ==
  ASSUME IInv, Board
  PROVE  IInv'
  <1>10. TypeOK'
    BY IInv, Board
       DEF IInv, TypeOK, Board, At, redis, request, Got
  <1>11. FoundInv'
    BY IInv, Board
       DEF IInv, FoundInv, Board, At, redis, request, Got, TypeOK, Current
  <1>12. OwnInv'
    BY IInv, Board
       DEF IInv, OwnInv, Board, At, redis, request, Got, TypeOK, ListedInv
  <1>13. AgreeInv'
    BY IInv, Board
       DEF IInv, AgreeInv, Board, At, redis, request, Got, TypeOK
  <1>14. ListedInv'
    BY IInv, Board
       DEF IInv, ListedInv, Board, At, redis, request, Got, TypeOK
  <1> QED BY <1>10, <1>11, <1>12, <1>13, <1>14 DEF IInv

\* Service glance is read.
LEMMA GlanceInv ==
  ASSUME IInv, Glance
  PROVE  IInv'
  <1>10. TypeOK'
    BY IInv, Glance
       DEF IInv, TypeOK, Glance, At, redis, request, Got
  <1>11. FoundInv'
    BY IInv, Glance
       DEF IInv, FoundInv, Glance, At, redis, request, Got, TypeOK, Current
  <1>12. OwnInv'
    BY IInv, Glance
       DEF IInv, OwnInv, Glance, At, redis, request, Got, TypeOK, ListedInv
  <1>13. AgreeInv'
    BY IInv, Glance
       DEF IInv, AgreeInv, Glance, At, redis, request, Got, TypeOK
  <1>14. ListedInv'
    BY IInv, Glance
       DEF IInv, ListedInv, Glance, At, redis, request, Got, TypeOK
  <1> QED BY <1>10, <1>11, <1>12, <1>13, <1>14 DEF IInv

\* The first lookup of findDelay finds the delay of the train's own update or
\* knows that it was not there, or not read.
LEMMA DelayByIdInv ==
  ASSUME IInv, DelayById
  PROVE  IInv'
  <1>10. TypeOK'
    BY IInv, DelayById, UpdatesTyped
       DEF IInv, TypeOK, DelayById, At, redis, request, GotUpdate, history, DelayOf
  <1>11. FoundInv'
    BY IInv, DelayById
       DEF IInv, FoundInv, DelayById, At, redis, request, GotUpdate, history, DelayOf, TypeOK, Current
  <1>12. OwnInv'
    <2>1. PICK e \in {updates.id, None} :
             /\ GotUpdate(e, updates.id)
             /\ delay' = IF e = None THEN delay ELSE FindDelay(e)
             /\ e = None => pc' = "delayByNumber"
      BY DelayById DEF DelayById, At
    <2>2. held \subseteq held'
      BY <2>1 DEF GotUpdate, history
    <2>3. e # None => FindDelay(e) \in held \/ None \in held'
      BY <2>1, IInv, DelayById DEF IInv, FoundInv, DelayById, At, DelayOf, GotUpdate, history
    <2> QED BY <2>1, <2>2, <2>3 DEF OwnInv
  <1>13. AgreeInv'
    BY IInv, DelayById
       DEF IInv, AgreeInv, DelayById, At, redis, request, GotUpdate, history, DelayOf, TypeOK
  <1>14. ListedInv'
    BY IInv, DelayById
       DEF IInv, ListedInv, DelayById, At, redis, request, GotUpdate, history, DelayOf, TypeOK
  <1> QED BY <1>10, <1>11, <1>12, <1>13, <1>14 DEF IInv

\* The second lookup of findDelay is made only when the first found nothing.
LEMMA DelayByNumberInv ==
  ASSUME IInv, DelayByNumber
  PROVE  IInv'
  <1>1. PICK e \in {updates.number, None} :
           GotUpdate(e, updates.number) /\ delay' = IF e = None THEN 0 ELSE FindDelay(e)
    BY DelayByNumber DEF DelayByNumber
  <1>2. delay' \in Int
    BY <1>1, UpdatesTyped, IInv DEF IInv, TypeOK
  <1>3. touched' \subseteq {"updates", "glance", "board", "exceptions"} /\ held' \subseteq Int \cup {None}
    BY <1>1, IInv DEF IInv, TypeOK, GotUpdate, history
  <1>4. rewrites' = rewrites
    BY <1>1 DEF GotUpdate, history
  <1>10. TypeOK'
    BY IInv, DelayByNumber, <1>2, <1>3, <1>4
       DEF IInv, TypeOK, DelayByNumber, At, redis, request
  <1>11. FoundInv'
    BY IInv, DelayByNumber
       DEF IInv, FoundInv, DelayByNumber, At, redis, request, GotUpdate, history, DelayOf, TypeOK, Current
  <1>12. OwnInv'
    <2>1. PICK u \in {updates.number, None} :
             /\ GotUpdate(u, updates.number)
             /\ delay' = IF u = None THEN 0 ELSE FindDelay(u)
             /\ u = None => pc' = "status"
      BY DelayByNumber DEF DelayByNumber, At
    <2>2. held \subseteq held'
      BY <2>1 DEF GotUpdate, history
    <2>3. None \in held
      BY <2>1, IInv, DelayByNumber DEF IInv, FoundInv, DelayByNumber, At, DelayOf, GotUpdate, history
    <2> QED BY <2>1, <2>2, <2>3 DEF OwnInv
  <1>13. AgreeInv'
    BY IInv, DelayByNumber
       DEF IInv, AgreeInv, DelayByNumber, At, redis, request, GotUpdate, history, DelayOf, TypeOK
  <1>14. ListedInv'
    BY IInv, DelayByNumber
       DEF IInv, ListedInv, DelayByNumber, At, redis, request, GotUpdate, history, DelayOf, TypeOK
  <1> QED BY <1>10, <1>11, <1>12, <1>13, <1>14 DEF IInv

\* Either lookup of the status, when it ends the search: delay minutes without
\* an update mean that the updates have been touched.
LEMMA StatusFound ==
  ASSUME IInv, pc \in {"status", "statusByNumber"},
         NEW e, e # None => e \in Entities,
         dep' = Judged(e), pc' = AfterStatus,
         touched \subseteq touched', touched' \subseteq {"updates", "glance", "board", "exceptions"},
         held \subseteq held', held' \subseteq Int \cup {None}, rewrites' = rewrites,
         UNCHANGED redis, UNCHANGED request, UNCHANGED local,
         e = None => "updates" \in touched' \/ delay = 0
  PROVE  IInv'
  <1>1. dep \in Departure /\ delay \in Int /\ ~dep.cancelled /\ ~dep.listed
    BY DEF IInv, TypeOK, AgreeInv, ListedInv
  <1>2. /\ dep' \in Departure /\ Agree(train, dep') /\ dep'.minutes = Minutes(delay)
        /\ ~dep'.cancelled /\ ~dep'.listed /\ (Calm(dep') => e = None)
    BY <1>1, JudgedAgrees DEF IInv, TypeOK
  <1>3. Calm(dep') => "updates" \in touched'
    <2>1. dep'.minutes = Minutes(delay)
      BY <1>2
    <2>2. CASE delay = 0
      <3>1. dep'.minutes = 0
        BY <2>1, <2>2, MinutesInt
      <3> QED BY <3>1 DEF Calm
    <2> QED BY <1>2, <2>2
  <1>4. pc' \in {"arrival", "enrich"}
    BY DEF AfterStatus
  <1>10. TypeOK'
    BY <1>2, <1>4 DEF IInv, TypeOK, redis, request, local
  <1>11. FoundInv'
    BY <1>4 DEF IInv, FoundInv, redis
  <1>12. OwnInv'
    BY <1>4 DEF IInv, OwnInv, local
  <1>13. AgreeInv'
    BY <1>2, <1>3, <1>4 DEF AgreeInv, local
  <1>14. ListedInv'
    BY <1>2 DEF ListedInv
  <1> QED BY <1>10, <1>11, <1>12, <1>13, <1>14 DEF IInv

\* The status by the train's own update.
LEMMA StatusByIdInv ==
  ASSUME IInv, StatusById
  PROVE  IInv'
  <1>1. PICK e \in {updates.id, None} :
           /\ GotUpdate(e, updates.id)
           /\ e = None => pc' = "statusByNumber" /\ dep' = dep
           /\ e # None => pc' = AfterStatus /\ dep' = Judged(e)
    BY StatusById DEF StatusById, At
  <1>2. pc = "status" /\ UNCHANGED redis /\ UNCHANGED request /\ UNCHANGED local
    BY StatusById DEF StatusById, At
  <1>3. /\ touched \subseteq touched' /\ held \subseteq held' /\ rewrites' = rewrites
        /\ touched' \subseteq {"updates", "glance", "board", "exceptions"} /\ held' \subseteq Int \cup {None}
        /\ "updates" \notin touched' => e = updates.id
        /\ "exceptions" \notin touched' => "exceptions" \notin touched
    BY <1>1, IInv DEF IInv, TypeOK, GotUpdate, history
  <1>4. CASE e = None
    <2>1. pc' = "statusByNumber" /\ dep' = dep
      BY <1>1, <1>4
    <2>10. TypeOK'
      BY <1>2, <1>3, <2>1, IInv DEF IInv, TypeOK, redis, request, local
    <2>11. FoundInv'
      BY <1>2, <1>3, <1>4, <2>1, IInv DEF IInv, FoundInv, Current, redis, local
    <2>12. OwnInv'
      BY <1>2, <1>3, <2>1, IInv DEF IInv, OwnInv, local
    <2>13. AgreeInv'
      BY <1>2, <2>1, IInv DEF IInv, AgreeInv
    <2>14. ListedInv'
      BY <1>2, <2>1, IInv DEF IInv, ListedInv
    <2> QED BY <2>10, <2>11, <2>12, <2>13, <2>14 DEF IInv
  <1>5. CASE e # None
    <2>1. e \in Entities
      BY <1>5, UpdatesTyped, IInv DEF IInv, TypeOK
    <2> QED BY <1>1, <1>2, <1>3, <1>5, <2>1, StatusFound, IInv
  <1> QED BY <1>4, <1>5

\* The status by the trip number, or without an update.
LEMMA StatusByNumberInv ==
  ASSUME IInv, StatusByNumber
  PROVE  IInv'
  <1>1. PICK e \in {updates.number, None} : GotUpdate(e, updates.number) /\ dep' = Judged(e)
    BY StatusByNumber DEF StatusByNumber
  <1>2. /\ pc = "statusByNumber" /\ pc' = AfterStatus
        /\ UNCHANGED redis /\ UNCHANGED request /\ UNCHANGED local
    BY StatusByNumber DEF StatusByNumber, At
  <1>3. /\ touched \subseteq touched' /\ held \subseteq held' /\ rewrites' = rewrites
        /\ touched' \subseteq {"updates", "glance", "board", "exceptions"} /\ held' \subseteq Int \cup {None}
        /\ "updates" \notin touched' => e = updates.number
    BY <1>1, IInv DEF IInv, TypeOK, GotUpdate, history
  <1>4. e # None => e \in Entities
    BY UpdatesTyped, IInv DEF IInv, TypeOK
  <1>5. e = None => "updates" \in touched' \/ delay = 0
    BY <1>2, <1>3, IInv DEF IInv, FoundInv, Current
  <1> QED BY <1>1, <1>2, <1>3, <1>4, <1>5, StatusFound, IInv

\* A train that does not go there is not listed, one that does has a time.
LEMMA ArrivalInv ==
  ASSUME IInv, Arrival
  PROVE  IInv'
  <1>1. /\ dep' \in Departure
        /\ dep'.status = dep.status /\ dep'.minutes = dep.minutes /\ dep'.actual = dep.actual
        /\ dep'.cancelled = dep.cancelled /\ dep'.listed = dep.listed
    <2>1. dep \in Departure
      BY IInv DEF IInv, TypeOK
    <2>2. dep' = dep \/ dep' = [dep EXCEPT !.arrival = TRUE]
      BY Arrival DEF Arrival
    <2> QED BY <2>1, <2>2, Placed
  <1>2. (Agree(train, dep) => Agree(train, dep')) /\ (Calm(dep') => Calm(dep))
    BY <1>1, SameAgree
  <1>10. TypeOK'
    BY IInv, Arrival, <1>1 DEF IInv, TypeOK, Arrival, At, redis, request, local, history
  <1>11. FoundInv'
    BY IInv, Arrival DEF IInv, FoundInv, Arrival, At, redis, history
  <1>12. OwnInv'
    BY IInv, Arrival DEF IInv, OwnInv, Arrival, At, local, history
  <1>13. AgreeInv'
    BY IInv, Arrival, <1>1, <1>2 DEF IInv, AgreeInv, Arrival, At, local, history
  <1>14. ListedInv'
    BY IInv, Arrival, <1>1 DEF IInv, ListedInv, Arrival, At
  <1> QED BY <1>10, <1>11, <1>12, <1>13, <1>14 DEF IInv

\* Service glance and the Union board, read before.
LEMMA EnrichInv ==
  ASSUME IInv, Enrich
  PROVE  IInv'
  <1>1. /\ dep \in Departure /\ Agree(train, dep) /\ ~dep.cancelled /\ ~dep.listed
        /\ dep.minutes = Minutes(delay) /\ delay \in Int /\ train \in Trains
        /\ Calm(dep) => "updates" \in touched
    BY IInv, Enrich DEF IInv, TypeOK, AgreeInv, ListedInv, Enrich, At
  <1>2. glanceRead \in Int \cup {None} /\ boardRead \in Boards \cup {{}}
    BY IInv, DeparturesAssumption DEF IInv, TypeOK
  <1>3. /\ Glanced(dep) \in Departure /\ Agree(train, Glanced(dep)) /\ ~Glanced(dep).cancelled
        /\ ~Glanced(dep).listed /\ (Calm(Glanced(dep)) => Calm(dep))
    BY <1>1, <1>2, GlancedAgrees
  <1>4. dep' = Boarded(Glanced(dep))
    BY Enrich DEF Enrich
  <1>5. dep' \in Departure /\ Agree(train, dep') /\ ~dep'.listed /\ (Calm(dep') => Calm(dep))
    BY <1>2, <1>3, <1>4, BoardedAgrees
  <1>10. TypeOK'
    BY IInv, Enrich, <1>5 DEF IInv, TypeOK, Enrich, At, redis, request, local, history
  <1>11. FoundInv'
    BY IInv, Enrich DEF IInv, FoundInv, Enrich, At, redis, history
  <1>12. OwnInv'
    BY IInv, Enrich DEF IInv, OwnInv, Enrich, At, local, history
  <1>13. AgreeInv'
    BY Enrich, <1>1, <1>5 DEF AgreeInv, Enrich, At, local, history
  <1>14. ListedInv'
    BY <1>5 DEF ListedInv
  <1> QED BY <1>10, <1>11, <1>12, <1>13, <1>14 DEF IInv

\* The exceptions have the last word on the status, and list the departure.
LEMMA CheckExceptionsInv ==
  ASSUME IInv, CheckExceptions
  PROVE  IInv'
  <1>1. PICK x \in {exceptions, None} :
           /\ Got("exceptions", x, exceptions)
           /\ dep' = IF IsStopCancelled(x)
                     THEN [dep EXCEPT !.cancelled = TRUE, !.status = Cancelled, !.listed = TRUE]
                     ELSE [dep EXCEPT !.listed = TRUE]
    BY CheckExceptions DEF CheckExceptions
  <1>2. /\ pc = "exceptions" /\ pc' = "next" /\ UNCHANGED redis /\ UNCHANGED request /\ delay' = delay
        /\ train' = train /\ destIDs' = FALSE /\ boardRead' = {} /\ glanceRead' = None
    BY CheckExceptions DEF CheckExceptions, At
  <1>3. /\ dep \in Departure /\ Agree(train, dep) /\ (Calm(dep) => "updates" \in touched)
        /\ touched \subseteq {"updates", "glance", "board", "exceptions"}
    BY <1>2, IInv DEF IInv, TypeOK, AgreeInv
  <1>4. /\ touched \subseteq touched' /\ held' = held /\ rewrites' = rewrites
        /\ touched' \subseteq {"updates", "glance", "board", "exceptions"}
        /\ "exceptions" \notin touched' => x = exceptions
    BY <1>1, <1>3 DEF Got
  <1>5. Cancelled \in Statuses /\ Cancelled.text = "Cancelled" /\ OnTime.text = "On Time"
    BY DEF Cancelled, OnTime, Statuses
  <1>6. /\ dep' \in Departure /\ Agree(train, dep') /\ (Calm(dep') => Calm(dep))
        /\ exceptions \in {"trip", "here"} /\ "exceptions" \notin touched' => dep'.cancelled
    <2>1. CASE IsStopCancelled(x)
      <3> DEFINE y == [dep EXCEPT !.cancelled = TRUE]
                 z == [y EXCEPT !.status = Cancelled]
                 w == [z EXCEPT !.listed = TRUE]
      <3>1. y \in Departure /\ y.minutes = dep.minutes /\ y.actual = dep.actual /\ y.cancelled
        BY <1>3 DEF Departure
      <3>2. dep' = w
        BY <1>1, <2>1, Zenon
      <3> HIDE DEF y
      <3>3. /\ z \in Departure /\ z.minutes = y.minutes /\ z.actual = y.actual
            /\ z.cancelled = y.cancelled /\ z.status = Cancelled
        BY <1>5, <3>1 DEF Departure, Statuses
      <3> HIDE DEF z
      <3>4. /\ w \in Departure /\ w.minutes = z.minutes /\ w.actual = z.actual
            /\ w.cancelled = z.cancelled /\ w.status = z.status
        BY <3>3 DEF Departure
      <3> HIDE DEF w
      <3>5. /\ dep' \in Departure /\ dep'.cancelled /\ dep'.status = Cancelled
            /\ dep'.minutes = dep.minutes /\ dep'.actual = dep.actual
        BY <3>1, <3>2, <3>3, <3>4
      <3>6. dep'.status.text # "Delayed" /\ ~Calm(dep')
        <4>1. dep'.status.text = "Cancelled"
          BY <1>5, <3>5
        <4> QED BY <1>5, <4>1 DEF Calm
      <3>7. Agree(train, dep')
        BY <1>3, <3>5, <3>6 DEF Agree, Timely
      <3> QED BY <3>5, <3>6, <3>7
    <2>2. CASE ~IsStopCancelled(x)
      <3>1. dep' = [dep EXCEPT !.listed = TRUE]
        BY <1>1, <2>2
      <3>2. /\ dep' \in Departure
            /\ dep'.status = dep.status /\ dep'.minutes = dep.minutes /\ dep'.actual = dep.actual
            /\ dep'.cancelled = dep.cancelled
        BY <1>3, <3>1 DEF Departure
      <3>3. "exceptions" \notin touched' => exceptions \notin {"trip", "here"}
        BY <1>4, <2>2 DEF IsStopCancelled
      <3>4. Agree(train, dep') /\ (Calm(dep') => Calm(dep))
        BY <1>3, <3>2, SameAgree
      <3> QED BY <3>2, <3>3, <3>4
    <2> QED BY <2>1, <2>2
  <1>10. TypeOK'
    BY <1>2, <1>4, <1>6, IInv DEF IInv, TypeOK, redis, request
  <1>11. FoundInv'
    BY <1>2, <1>4, IInv DEF IInv, FoundInv, redis
  <1>12. OwnInv'
    BY <1>2, <1>4, IInv DEF IInv, OwnInv
  <1>13. AgreeInv'
    BY <1>2, <1>3, <1>4, <1>6 DEF AgreeInv
  <1>14. ListedInv'
    BY <1>2, <1>6 DEF ListedInv, redis
  <1> QED BY <1>10, <1>11, <1>12, <1>13, <1>14 DEF IInv

\* NextService knows of platforms only.
LEMMA NextServiceInv ==
  ASSUME IInv, NextService
  PROVE  IInv'
  <1>1. /\ dep' \in Departure
        /\ dep'.status = dep.status /\ dep'.minutes = dep.minutes /\ dep'.actual = dep.actual
        /\ dep'.cancelled = dep.cancelled /\ dep'.listed = dep.listed
    <2>1. dep \in Departure /\ dep.platform \in {"", "static", "dash", "union", "actual", "planned"}
      BY IInv DEF IInv, TypeOK, Departure
    <2>2. \/ dep' = dep
          \/ \E p \in {"", "static", "dash", "union", "actual", "planned"} : dep' = [dep EXCEPT !.platform = p]
      BY <2>1, NextService DEF NextService
    <2> QED BY <2>1, <2>2, Placed
  <1>2. (Agree(train, dep) => Agree(train, dep')) /\ (Calm(dep') => Calm(dep))
    BY <1>1, SameAgree
  <1>10. TypeOK'
    BY IInv, NextService, <1>1 DEF IInv, TypeOK, NextService, At, redis, request, local, history
  <1>11. FoundInv'
    BY IInv, NextService DEF IInv, FoundInv, NextService, At, redis, history
  <1>12. OwnInv'
    BY IInv, NextService DEF IInv, OwnInv, NextService, At, local, history
  <1>13. AgreeInv'
    BY IInv, NextService, <1>1, <1>2 DEF IInv, AgreeInv, NextService, At, local, history
  <1>14. ListedInv'
    BY IInv, NextService, <1>1 DEF IInv, ListedInv, NextService, At, redis, history
  <1> QED BY <1>10, <1>11, <1>12, <1>13, <1>14 DEF IInv

\* So does the second pass over the Union board.
LEMMA PlatformsInv ==
  ASSUME IInv, Platforms
  PROVE  IInv'
  <1>1. /\ dep' \in Departure
        /\ dep'.status = dep.status /\ dep'.minutes = dep.minutes /\ dep'.actual = dep.actual
        /\ dep'.cancelled = dep.cancelled /\ dep'.listed = dep.listed
    <2>1. dep \in Departure
      BY IInv DEF IInv, TypeOK
    <2>2. dep' = dep \/ dep' = [dep EXCEPT !.platform = "union"]
      BY Platforms DEF Platforms
    <2> QED BY <2>1, <2>2, Placed
  <1>2. (Agree(train, dep) => Agree(train, dep')) /\ (Calm(dep') => Calm(dep))
    BY <1>1, SameAgree
  <1>3. /\ touched \subseteq touched' /\ held' = held /\ rewrites' = rewrites
        /\ touched' \subseteq {"updates", "glance", "board", "exceptions"}
    BY Platforms, IInv DEF IInv, TypeOK, Platforms, Got
  <1>4. /\ pc = "platforms" /\ pc' = "done" /\ UNCHANGED redis /\ UNCHANGED request /\ UNCHANGED local
    BY Platforms DEF Platforms, At
  <1>10. TypeOK'
    BY IInv, <1>1, <1>3, <1>4 DEF IInv, TypeOK, redis, request, local
  <1>11. FoundInv'
    BY <1>4 DEF FoundInv
  <1>12. OwnInv'
    BY IInv, <1>3, <1>4 DEF IInv, OwnInv, local
  <1>13. AgreeInv'
    BY IInv, <1>1, <1>2, <1>3, <1>4 DEF IInv, AgreeInv, local
  <1>14. ListedInv'
    BY IInv, <1>1, <1>3, <1>4 DEF IInv, ListedInv, redis
  <1> QED BY <1>10, <1>11, <1>12, <1>13, <1>14 DEF IInv

LEMMA NextInv ==
  ASSUME IInv, [Next]_vars
  PROVE  IInv'
  <1>1. CASE Poller
    BY <1>1, WriteUpdatesInv, WriteGlanceInv, WriteBoardInv, WriteExceptionsInv DEF Poller
  <1>2. CASE Handler
    BY <1>2, RequestInv, ScheduleInv, DestinationInv, BoardInv, GlanceInv, DelayByIdInv,
       DelayByNumberInv, StatusByIdInv, StatusByNumberInv, ArrivalInv, EnrichInv,
       CheckExceptionsInv, NextServiceInv, PlatformsInv
       DEF Handler
  <1>3. CASE UNCHANGED vars
    <2> USE <1>3 DEF vars, redis, request, local, history
    <2>1. TypeOK'
      BY DEF IInv, TypeOK
    <2>2. FoundInv' /\ OwnInv'
      BY DEF IInv, FoundInv, OwnInv, Current
    <2>3. AgreeInv' /\ ListedInv'
      BY DEF IInv, AgreeInv, ListedInv
    <2> QED BY <2>1, <2>2, <2>3 DEF IInv
  <1> QED BY <1>1, <1>2, <1>3 DEF Next

-----------------------------------------------------------------------------
(* An answer during which nothing is rewritten.                             *)

\* The status that the updates, then service glance, then the Union board, and
\* then the exceptions would give the train, all of them as they are now.
Known == updates.id # None \/ updates.number # None

Canceled == IF updates.id # None THEN updates.id.canceled ELSE updates.number.canceled

UpdatesSay ==
    IF ~Known THEN OnTime ELSE IF Canceled THEN Cancelled
    ELSE IF Minutes(Current) >= 1 THEN Delayed(Minutes(Current)) ELSE OnTime

GlanceSays ==
    IF glance = None \/ Current # 0 \/ glance <= 0 THEN UpdatesSay
    ELSE IF Minutes(glance) >= 1 THEN Delayed(Minutes(glance)) ELSE UpdatesSay

BoardSays ==
    IF \A row \in board : ~row.own THEN GlanceSays
    ELSE LET row == CHOOSE r \in board : r.own
         IN  IF row.info = "CANCELLED" THEN Cancelled
             ELSE IF row.info # "" THEN Says(row.info) ELSE GlanceSays

\* While nothing is touched the handler has what Redis has, and the departure
\* has the status of the sources it has been through.
SnapInv ==
    touched = {} =>
        /\ pc \in {"glance", "delay", "delayByNumber", "status", "statusByNumber", "arrival", "enrich"}
              => boardRead = board
        /\ pc \in {"delay", "delayByNumber", "status", "statusByNumber", "arrival", "enrich"}
              => glanceRead = glance
        /\ pc \in {"arrival", "enrich"} => delay = Current /\ dep.status = UpdatesSay
        /\ pc = "exceptions" => dep.status = BoardSays
        /\ dep.listed => dep.status = IF IsStopCancelled(exceptions) THEN Cancelled ELSE BoardSays

\* What the sources say one after the other is the verdict.
LEMMA SourcesAgree ==
  ASSUME TypeOK
  PROVE  (IF IsStopCancelled(exceptions) THEN Cancelled ELSE BoardSays) = Verdict
  <1> DEFINE e == IF updates.id # None THEN updates.id ELSE updates.number
             late == e # None /\ FindDelay(e) # 0
             n == Minutes(IF late THEN FindDelay(e)
                          ELSE IF glance # None /\ glance > 0 THEN glance ELSE 0)
             infos == {row.info : row \in {r \in board : r.own}} \ {""}
  <1>1. /\ glance \in Int \cup {None} /\ None \notin Int
        /\ e # None => FindDelay(e) \in Int
        /\ Current \in Int /\ (Current # 0 <=> late) /\ (late => Current = FindDelay(e))
    <2>1. updates \in {Indexed(feed) : feed \in TripFeeds} /\ glance \in Int \cup {None}
      BY DeparturesAssumption DEF TypeOK
    <2>2. /\ updates.id # None => FindDelay(updates.id) \in Int
          /\ updates.number # None => FindDelay(updates.number) \in Int
      BY <2>1, UpdatesTyped
    <2>3. None \notin Int
      BY DeparturesAssumption
    <2>4. CASE updates.id # None
      <3> DEFINE delayNow == FindDelay(updates.id)
      <3>1. e = updates.id /\ Current = delayNow /\ delayNow \in Int /\ e # None
        BY <2>2, <2>4 DEF Current
      <3>2. late <=> delayNow # 0
        BY <3>1
      <3>3. FindDelay(e) = delayNow
        BY <3>1
      <3> HIDE DEF e, delayNow, late
      <3> QED BY <2>1, <2>3, <3>1, <3>2, <3>3
    <2>5. CASE updates.id = None /\ updates.number # None
      <3> DEFINE delayNow == FindDelay(updates.number)
      <3>1. e = updates.number /\ Current = delayNow /\ delayNow \in Int /\ e # None
        BY <2>2, <2>5 DEF Current
      <3>2. late <=> delayNow # 0
        BY <3>1
      <3>3. FindDelay(e) = delayNow
        BY <3>1
      <3> HIDE DEF e, delayNow, late
      <3> QED BY <2>1, <2>3, <3>1, <3>2, <3>3
    <2>6. CASE updates.id = None /\ updates.number = None
      <3>1. e = None /\ Current = 0 /\ ~late
        BY <2>6 DEF Current
      <3> HIDE DEF e, late
      <3> QED BY <2>1, <2>3, <3>1
    <2> QED BY <2>4, <2>5, <2>6
  <1>2. /\ Known <=> e # None
        /\ Known => Canceled = e.canceled
    BY DEF Known, Canceled
  <1>3. n \in Int /\ (late => n = Minutes(Current)) /\ Minutes(0) = 0
        /\ (~late => n = IF glance # None /\ glance > 0 THEN Minutes(glance) ELSE 0)
    <2> HIDE DEF e
    <2> QED BY <1>1, MinutesInt
  <1> HIDE DEF late, n
  <1>4. GlanceSays = IF e # None /\ e.canceled /\ (late \/ n < 1) THEN Cancelled
                     ELSE IF n >= 1 THEN Delayed(n) ELSE OnTime
    <2> HIDE DEF e
    <2>1. CASE late
      <3>1. e # None
        BY <2>1 DEF late
      <3>2. GlanceSays = UpdatesSay
        BY <1>1, <2>1 DEF GlanceSays
      <3> QED BY <1>2, <1>3, <2>1, <3>1, <3>2 DEF UpdatesSay
    <2>2. CASE ~late
      <3>1. Current = 0 /\ Minutes(Current) = 0
        BY <1>1, <1>3, <2>2
      <3>2. UpdatesSay = IF e # None /\ e.canceled THEN Cancelled ELSE OnTime
        BY <1>2, <3>1 DEF UpdatesSay
      <3>3. CASE glance # None /\ glance > 0 /\ n >= 1
        <4>1. n = Minutes(glance) /\ ~(glance <= 0) /\ Minutes(glance) >= 1
          BY <1>1, <1>3, <2>2, <3>3
        <4>2. GlanceSays = Delayed(n)
          BY <3>1, <3>3, <4>1 DEF GlanceSays
        <4>3. ~(late \/ n < 1)
          BY <1>3, <2>2, <3>3
        <4> QED BY <3>3, <4>2, <4>3
      <3>4. CASE ~(glance # None /\ glance > 0 /\ n >= 1)
        <4>1. n < 1 /\ ~(n >= 1)
          BY <1>1, <1>3, <2>2, <3>4
        <4>2. GlanceSays = UpdatesSay
          <5>1. CASE glance = None \/ glance <= 0
            BY <5>1 DEF GlanceSays
          <5>2. CASE ~(glance = None \/ glance <= 0)
            <6>1. n = Minutes(glance)
              BY <1>1, <1>3, <2>2, <5>2
            <6> QED BY <4>1, <5>2, <6>1 DEF GlanceSays
          <5> QED BY <5>1, <5>2
        <4> QED BY <3>2, <4>1, <4>2
      <3> QED BY <3>3, <3>4
    <2> QED BY <2>1, <2>2
  <1>5. BoardSays = IF "CANCELLED" \in infos THEN Cancelled
                    ELSE IF infos # {} THEN Says(CHOOSE info \in infos : TRUE)
                    ELSE GlanceSays
    <2>1. CASE \A row \in board : ~row.own
      <3>1. infos = {}
        BY <2>1
      <3> QED BY <2>1, <3>1 DEF BoardSays
    <2>2. CASE ~\A row \in board : ~row.own
      <3> DEFINE row == CHOOSE r \in board : r.own
      <3>1. row \in board /\ row.own
        BY <2>2
      <3>2. BoardSays = IF row.info = "CANCELLED" THEN Cancelled
                        ELSE IF row.info # "" THEN Says(row.info) ELSE GlanceSays
        BY <2>2 DEF BoardSays
      <3> HIDE DEF row
      <3>3. \A r \in board : r.own => r = row
        BY <3>1, DeparturesAssumption DEF TypeOK
      <3>4. infos = {row.info} \ {""}
        BY <3>1, <3>3
      <3> HIDE DEF infos
      <3>5. CASE row.info = ""
        BY <3>2, <3>4, <3>5
      <3>6. CASE row.info # ""
        <4>1. infos = {row.info} /\ (CHOOSE info \in infos : TRUE) = row.info
          BY <3>4, <3>6
        <4> QED BY <3>2, <3>6, <4>1
      <3> QED BY <3>5, <3>6
    <2> QED BY <2>1, <2>2
  <1>6. Verdict = IF exceptions \in {"trip", "here"} \/ "CANCELLED" \in infos THEN Cancelled
                  ELSE IF infos # {} THEN Says(CHOOSE info \in infos : TRUE)
                  ELSE IF e # None /\ e.canceled /\ (late \/ n < 1) THEN Cancelled
                  ELSE IF n >= 1 THEN Delayed(n) ELSE OnTime
    BY Zenon DEF Verdict, late, n
  <1> HIDE DEF e, infos
  <1> QED BY <1>4, <1>5, <1>6 DEF IsStopCancelled

\* A read that finds the key untouched has found what is there.
LEMMA Untouched ==
  ASSUME TypeOK, touched' = {}
  PROVE  /\ \A key, value, there : Got(key, value, there) => value = there /\ touched = {}
         /\ \A e, there : GotUpdate(e, there) => e = there /\ touched = {}
         /\ \A key : ~Rewrite(key)
  BY DEF Got, GotUpdate, history, Rewrite

\* The status that each source leaves.
LEMMA StatusOf ==
  ASSUME NEW d \in Departure, TypeOK
  PROVE  /\ glanceRead = glance /\ delay = Current /\ d.status = UpdatesSay
               => Glanced(d) \in Departure /\ Glanced(d).status = GlanceSays
         /\ boardRead = board /\ d.status = GlanceSays => Boarded(d).status = BoardSays
  <1>1. ASSUME glanceRead = glance, delay = Current, d.status = UpdatesSay
        PROVE  Glanced(d) \in Departure /\ Glanced(d).status = GlanceSays
    <2> DEFINE n == Minutes(glanceRead)
    <2>1. CASE glanceRead = None \/ delay # 0 \/ glanceRead <= 0
      BY <1>1, <2>1 DEF Glanced, GlanceSays
    <2>2. CASE ~(glanceRead = None \/ delay # 0 \/ glanceRead <= 0)
      <3>0. glanceRead \in Int /\ glanceRead > 0
        <4>1. glanceRead \in Int \cup {None}
          BY DeparturesAssumption DEF TypeOK
        <4> QED BY <2>2, <4>1
      <3>1. n \in Nat
        BY <3>0, MinutesInt
      <3>2. Glanced(d) = IF n >= 1 THEN Timed(d, glanceRead, Delayed(n)) ELSE [d EXCEPT !.minutes = 0]
        BY <2>2 DEF Glanced
      <3>3. GlanceSays = IF n >= 1 THEN Delayed(n) ELSE UpdatesSay
        BY <1>1, <2>2 DEF GlanceSays
      <3> HIDE DEF n
      <3>4. CASE n >= 1
        <4>1. Delayed(n) \in Statuses /\ train \in Trains
          BY <3>1 DEF Delayed, Statuses, TypeOK
        <4>2. /\ Timed(d, glanceRead, Delayed(n)) \in Departure
              /\ Timed(d, glanceRead, Delayed(n)).status = Delayed(n)
          BY <3>0, <4>1, TimedTyped
        <4> QED BY <3>2, <3>3, <3>4, <4>2
      <3>5. CASE ~(n >= 1)
        <4>1. [d EXCEPT !.minutes = 0] \in Departure /\ [d EXCEPT !.minutes = 0].status = d.status
          <5> DEFINE zero == 0
          <5>1. zero \in Int /\ [d EXCEPT !.minutes = 0] = [d EXCEPT !.minutes = zero]
            OBVIOUS
          <5> HIDE DEF zero
          <5>2. [d EXCEPT !.minutes = zero] \in Departure /\ [d EXCEPT !.minutes = zero].status = d.status
            BY <5>1 DEF Departure
          <5> QED BY <5>1, <5>2
        <4> QED BY <1>1, <3>2, <3>3, <3>5, <4>1
      <3> QED BY <3>4, <3>5
    <2> QED BY <2>1, <2>2
  <1>2. ASSUME boardRead = board, d.status = GlanceSays
        PROVE  Boarded(d).status = BoardSays
    <2> DEFINE row == CHOOSE r \in boardRead : r.own
               status == IF row.info = "CANCELLED" THEN Cancelled
                         ELSE IF row.info # "" THEN Says(row.info) ELSE d.status
               platform == IF stop = "union" /\ d.platform = "" THEN row.platform ELSE d.platform
               flag == (row.info = "CANCELLED")
    <2>1. CASE \A r \in boardRead : ~r.own
      BY <1>2, <2>1 DEF Boarded, BoardSays
    <2>2. CASE ~\A r \in boardRead : ~r.own
      <3>1. Boarded(d) = [d EXCEPT !.platform = platform, !.status = status, !.cancelled = flag]
        BY <2>2 DEF Boarded
      <3>2. BoardSays = status
        BY <1>2, <2>2 DEF BoardSays
      <3> HIDE DEF status, platform, flag
      <3>3. Boarded(d).status = status
        BY <3>1 DEF Departure
      <3> QED BY <3>2, <3>3
    <2> QED BY <2>1, <2>2
  <1> QED BY <1>1, <1>2

\* The status that an update gives, found or not.
LEMMA StatusJudged ==
  ASSUME IInv, ~dep.cancelled, delay = Current, NEW e \in Entities \cup {None},
         e = IF updates.id # None THEN updates.id ELSE updates.number
  PROVE  Judged(e).status = UpdatesSay
  <1> DEFINE n == Minutes(delay)
             status == IF e = None THEN OnTime ELSE IF e.canceled THEN Cancelled
                       ELSE IF n >= 1 THEN Delayed(n) ELSE OnTime
  <1>1. status = UpdatesSay
    <2>1. (Known <=> e # None) /\ (Known => Canceled = e.canceled)
      BY DEF Known, Canceled
    <2> QED BY <2>1 DEF UpdatesSay
  <1>2. dep \in Departure /\ delay \in Int /\ train \in Trains
    BY DEF IInv, TypeOK
  <1>3. n \in Int
    BY <1>2, MinutesInt
  <1>4. status \in Statuses
    <2> HIDE DEF n
    <2>1. OnTime \in Statuses /\ Cancelled \in Statuses
      BY DEF OnTime, Cancelled, Statuses
    <2>2. n >= 1 => Delayed(n) \in Statuses
      BY <1>3 DEF Delayed, Statuses
    <2> QED BY <2>1, <2>2
  <1>5. Judged(e) = Timed(dep, delay, status)
    BY DEF Judged
  <1> HIDE DEF n, status
  <1>6. Timed(dep, delay, status).status = status
    BY <1>2, <1>3, <1>4, TimedTyped
  <1> QED BY <1>1, <1>5, <1>6

\* A write of the poller touches its key.
LEMMA SnapPoller ==
  ASSUME TypeOK, Poller
  PROVE  SnapInv'
  <1>1. PICK key : Rewrite(key)
    BY DEF Poller, WriteUpdates, WriteGlance, WriteBoard, WriteExceptions
  <1>2. touched' # {}
    BY <1>1 DEF Rewrite
  <1> QED BY <1>2 DEF SnapInv

\* What is read up to the delay.
LEMMA SnapReads ==
  ASSUME IInv, SnapInv,
         Request \/ Schedule \/ Destination \/ Board \/ Glance \/ DelayById \/ DelayByNumber
  PROVE  SnapInv'
  <1> SUFFICES ASSUME touched' = {}
               PROVE  SnapInv'
    BY DEF SnapInv
  <1>1. /\ \A key, value, there : Got(key, value, there) => value = there /\ touched = {}
        /\ \A e, there : GotUpdate(e, there) => e = there /\ touched = {}
    BY Untouched DEF IInv
  <1>2. CASE Request
    <2>1. pc' = "schedule" /\ ~dep'.listed
      BY <1>2, NoDepTyped DEF Request, At
    <2> QED BY <2>1 DEF SnapInv
  <1>3. CASE Schedule \/ Destination
    <2>1. pc' \in {"destination", "board", "done"} /\ pc \in {"schedule", "destination"}
      BY <1>3 DEF Schedule, Destination, At
    <2>2. ~dep.listed /\ dep \in Departure
      BY <2>1 DEF IInv, ListedInv, TypeOK
    <2>3. ~dep'.listed
      <3>1. dep' = dep \/ \E platform \in {"", "static"} : dep' = [dep EXCEPT !.platform = platform]
        BY <1>3 DEF Schedule, Destination
      <3> QED BY <2>2, <3>1 DEF Departure
    <2> QED BY <2>1, <2>3 DEF SnapInv
  <1>4. CASE Board
    <2>1. pc = "board" /\ pc' = "glance" /\ UNCHANGED <<redis, dep>> /\ boardRead' = board
      BY <1>1, <1>4 DEF Board, At
    <2>2. ~dep'.listed
      BY <2>1 DEF IInv, ListedInv
    <2> QED BY <2>1, <2>2 DEF SnapInv, redis
  <1>5. CASE Glance
    <2>1. /\ pc = "glance" /\ pc' = "delay" /\ UNCHANGED <<redis, dep, boardRead>>
          /\ glanceRead' = glance /\ touched = {}
      BY <1>1, <1>5 DEF Glance, At
    <2>2. ~dep'.listed /\ boardRead = board
      BY <2>1 DEF IInv, ListedInv, SnapInv
    <2> QED BY <2>1, <2>2 DEF SnapInv, redis
  <1>6. CASE DelayById \/ DelayByNumber
    <2>1. /\ pc \in {"delay", "delayByNumber"} /\ pc' \in {"delayByNumber", "status"}
          /\ UNCHANGED <<redis, dep, boardRead, glanceRead>> /\ touched = {}
      BY <1>1, <1>6 DEF DelayById, DelayByNumber, At
    <2>2. ~dep'.listed /\ boardRead = board /\ glanceRead = glance
      BY <2>1 DEF IInv, ListedInv, SnapInv
    <2> QED BY <2>1, <2>2 DEF SnapInv, redis
  <1> QED BY <1>2, <1>3, <1>4, <1>5, <1>6

\* While the updates stay as they are, the delay and the status are of one
\* update, though two lookups find it.
LEMMA SnapStatus ==
  ASSUME IInv, SnapInv, StatusById \/ StatusByNumber
  PROVE  SnapInv'
  <1> SUFFICES ASSUME touched' = {}
               PROVE  SnapInv'
    BY DEF SnapInv
  <1>1. \A e, there : GotUpdate(e, there) => e = there /\ touched = {}
    BY Untouched DEF IInv
  <1>2. /\ pc \in {"status", "statusByNumber"} /\ UNCHANGED redis /\ UNCHANGED local /\ touched = {}
        /\ pc = "statusByNumber" => updates.id = None
    <2>1. /\ pc \in {"status", "statusByNumber"} /\ UNCHANGED redis /\ UNCHANGED local
          /\ \E e, there : GotUpdate(e, there)
      BY DEF StatusById, StatusByNumber, At
    <2> QED BY <1>1, <2>1 DEF IInv, FoundInv
  <1>3. /\ boardRead = board /\ glanceRead = glance /\ delay = Current
        /\ ~dep.cancelled /\ ~dep.listed
    BY <1>2 DEF IInv, ListedInv, AgreeInv, FoundInv, SnapInv
  <1>4. /\ boardRead' = board' /\ glanceRead' = glance' /\ delay' = Current'
        /\ UpdatesSay' = UpdatesSay
    BY <1>2, <1>3 DEF Current, UpdatesSay, Known, Canceled, redis, local
  <1>5. CASE pc' = "statusByNumber"
    <2>1. dep' = dep
      <3>1. StatusById
        BY <1>5 DEF StatusByNumber, At, AfterStatus
      <3> QED BY <1>5, <3>1 DEF StatusById, At, AfterStatus
    <2> QED BY <1>3, <1>4, <1>5, <2>1 DEF SnapInv
  <1>6. CASE pc' # "statusByNumber"
    <2> DEFINE e == IF updates.id # None THEN updates.id ELSE updates.number
    <2>1. pc' = AfterStatus /\ dep' = Judged(e)
      <3>1. CASE StatusById
        <4>1. updates.id # None /\ dep' = Judged(updates.id) /\ pc' = AfterStatus
          BY <1>1, <1>6, <3>1 DEF StatusById, At
        <4> QED BY <4>1
      <3>2. CASE StatusByNumber
        <4>1. pc = "statusByNumber" /\ dep' = Judged(updates.number) /\ pc' = AfterStatus
          BY <1>1, <3>2 DEF StatusByNumber, At
        <4> QED BY <1>2, <4>1
      <3> QED BY <3>1, <3>2
    <2>2. e \in Entities \cup {None}
      BY UpdatesTyped DEF IInv, TypeOK
    <2>3. Judged(e).status = UpdatesSay
      BY <1>3, <2>2, StatusJudged
    <2>4. ~Judged(e).listed
      BY <1>3, <2>2, JudgedAgrees DEF IInv, TypeOK
    <2> HIDE DEF e
    <2>5. pc' \in {"arrival", "enrich"}
      BY <2>1 DEF AfterStatus
    <2> QED BY <1>4, <2>1, <2>3, <2>4, <2>5 DEF SnapInv
  <1> QED BY <1>5, <1>6

\* The arrival time does not concern the status; service glance and the Union
\* board were read before the loop.
LEMMA SnapEnrich ==
  ASSUME IInv, SnapInv, Arrival \/ Enrich
  PROVE  SnapInv'
  <1> SUFFICES ASSUME touched' = {}
               PROVE  SnapInv'
    BY DEF SnapInv
  <1>1. pc \in {"arrival", "enrich"} /\ UNCHANGED <<redis, request, local, history>> /\ touched = {}
    BY DEF Arrival, Enrich, At, history
  <1>2. /\ boardRead = board /\ glanceRead = glance /\ delay = Current /\ dep.status = UpdatesSay
        /\ ~dep.cancelled /\ ~dep.listed /\ dep \in Departure
    BY <1>1 DEF IInv, ListedInv, AgreeInv, TypeOK, SnapInv
  <1>3. /\ boardRead' = board' /\ glanceRead' = glance' /\ delay' = Current'
        /\ UpdatesSay' = UpdatesSay /\ BoardSays' = BoardSays
    BY <1>1, <1>2 DEF Current, BoardSays, GlanceSays, UpdatesSay, Known, Canceled, redis, local
  <1>4. CASE Arrival
    <2>1. pc' \in {"enrich", "platforms"} /\ (dep' = dep \/ dep' = [dep EXCEPT !.arrival = TRUE])
      BY <1>4 DEF Arrival, At
    <2>2. dep'.status = dep.status /\ dep'.listed = dep.listed
      BY <1>2, <2>1, Placed
    <2> QED BY <1>2, <1>3, <2>1, <2>2 DEF SnapInv
  <1>5. CASE Enrich
    <2>1. pc' = "exceptions" /\ dep' = Boarded(Glanced(dep))
      BY <1>5 DEF Enrich, At
    <2>2. Glanced(dep) \in Departure /\ Glanced(dep).status = GlanceSays
      BY <1>2, StatusOf DEF IInv
    <2>3. Boarded(Glanced(dep)).status = BoardSays
      BY <1>2, <2>2, StatusOf DEF IInv
    <2>4. ~dep'.listed
      <3>1. IInv'
        BY <1>5, EnrichInv
      <3> QED BY <2>1, <3>1 DEF IInv, ListedInv
    <2> QED BY <1>3, <2>1, <2>3, <2>4 DEF SnapInv
  <1> QED BY <1>4, <1>5

\* The exceptions give the last word; the platforms do not concern the status.
LEMMA SnapEnd ==
  ASSUME IInv, SnapInv, CheckExceptions \/ NextService \/ Platforms
  PROVE  SnapInv'
  <1> SUFFICES ASSUME touched' = {}
               PROVE  SnapInv'
    BY DEF SnapInv
  <1>1. \A key, value, there : Got(key, value, there) => value = there /\ touched = {}
    BY Untouched DEF IInv
  <1>2. UNCHANGED redis /\ touched = {} /\ dep \in Departure
    <2>1. UNCHANGED redis /\ touched = {}
      BY <1>1 DEF CheckExceptions, NextService, Platforms, history
    <2> QED BY <2>1 DEF IInv, TypeOK
  <1>3. BoardSays' = BoardSays /\ exceptions' = exceptions
    BY <1>2 DEF BoardSays, GlanceSays, UpdatesSay, Known, Canceled, Current, redis
  <1>4. CASE CheckExceptions
    <2>1. /\ pc = "exceptions" /\ pc' = "next"
          /\ dep' = IF IsStopCancelled(exceptions)
                    THEN [dep EXCEPT !.cancelled = TRUE, !.status = Cancelled, !.listed = TRUE]
                    ELSE [dep EXCEPT !.listed = TRUE]
      BY <1>1, <1>4 DEF CheckExceptions, At
    <2>2. dep.status = BoardSays
      BY <1>2, <2>1 DEF SnapInv
    <2>3. dep'.status = IF IsStopCancelled(exceptions) THEN Cancelled ELSE BoardSays
      BY <1>2, <2>1, <2>2 DEF Departure
    <2>4. IsStopCancelled(exceptions)' = IsStopCancelled(exceptions)
      BY <1>3 DEF IsStopCancelled
    <2> QED BY <1>3, <2>1, <2>3, <2>4 DEF SnapInv
  <1>5. CASE NextService \/ Platforms
    <2>1. pc \in {"next", "platforms"} /\ pc' \in {"platforms", "done"}
      BY <1>5 DEF NextService, Platforms, At
    <2>2. \/ dep' = dep
          \/ \E p \in {"", "static", "dash", "union", "actual", "planned"} : dep' = [dep EXCEPT !.platform = p]
      <3>1. dep.platform \in {"", "static", "dash", "union", "actual", "planned"}
        BY <1>2 DEF Departure
      <3> QED BY <1>5, <3>1 DEF NextService, Platforms
    <2>3. dep'.status = dep.status /\ dep'.listed = dep.listed
      BY <1>2, <2>2, Placed
    <2>4. IsStopCancelled(exceptions)' = IsStopCancelled(exceptions)
      BY <1>3 DEF IsStopCancelled
    <2> QED BY <1>2, <1>3, <2>1, <2>3, <2>4 DEF SnapInv
  <1> QED BY <1>4, <1>5

\* At the start no request has read anything.
LEMMA InitSnap == Init => SnapInv
  BY NoDepTyped DEF Init, SnapInv

\* One step of the poller or of the handler.
LEMMA SnapStep ==
  ASSUME IInv, SnapInv, [Next]_vars
  PROVE  SnapInv'
  <1>1. CASE Next
    BY <1>1, SnapPoller, SnapReads, SnapStatus, SnapEnrich, SnapEnd DEF Next, Handler, IInv
  <1>2. CASE UNCHANGED vars
    <2>1. /\ BoardSays' = BoardSays /\ UpdatesSay' = UpdatesSay /\ Current' = Current
          /\ IsStopCancelled(exceptions)' = IsStopCancelled(exceptions)
      BY <1>2 DEF vars, redis, BoardSays, GlanceSays, UpdatesSay, Known, Canceled, Current, IsStopCancelled
    <2> QED BY <1>2, <2>1 DEF vars, redis, local, history, SnapInv
  <1> QED BY <1>1, <1>2

-----------------------------------------------------------------------------
(* The theorems.                                                            *)

\* The invariant holds, from the first state on.
THEOREM Invariance == Spec => []IInv
  BY InitInv, NextInv, PTL DEF Spec

\* Every variable keeps its type; minutes and actual times stay numbers.
THEOREM TypeCorrect == Spec => []TypeOK
  <1>1. IInv => TypeOK
    BY DEF IInv
  <1> QED BY <1>1, Invariance, PTL

\* The parts of an answer agree, however many writes of the poller fall between
\* the reads of the request, and the clock has the actual time as many minutes
\* after the listed one, unless gtfs-static listed a train of a service day of
\* 23 or 25 hours from 24 hours before the midnight after it.
THEOREM DelayConsistent == Spec => []DelayAgrees
  <1>1. ASSUME IInv PROVE DelayAgrees
    <2> SUFFICES ASSUME Answered PROVE Agree(train, dep) => DelayAgrees
      BY <1>1 DEF IInv, AgreeInv, Answered, DelayAgrees
    <2> HAVE Agree(train, dep)
    <2>1. /\ dep.status.text = "Delayed" => dep.status.minutes = dep.minutes /\ dep.minutes >= 1
          /\ dep.actual = None <=> dep.minutes <= 0
      BY DEF Agree, Timely
    <2>2. ASSUME dep.actual # None, OnMidnight(train)
          PROVE  \E s \in 0..59 : Clock(dep.actual) = Clock(Listed(train) + 60 * dep.minutes + s)
      <3>1. PICK s \in 0..59 : dep.actual = Scheduled(train) + 60 * dep.minutes + s
        BY <2>2 DEF Agree, Timely
      <3>2. Listed(train) = Scheduled(train)
        BY <1>1, <2>2, ScheduledInt DEF IInv, TypeOK
      <3>3. Clock(dep.actual) = Clock(Listed(train) + 60 * dep.minutes + s)
        BY <3>1, <3>2
      <3> QED BY <3>3
    <2> QED BY <2>1, <2>2 DEF DelayAgrees
  <1> QED BY <1>1, Invariance, PTL

\* A departure flagged as cancelled says so.
THEOREM CancelConsistent == Spec => []CancelSays
  <1>1. ASSUME IInv PROVE CancelSays
    BY <1>1 DEF IInv, AgreeInv, Agree, CancelSays, Answered
  <1> QED BY <1>1, Invariance, PTL

\* What the exceptions cancel here throughout the request is flagged.
THEOREM CancellationReaches == Spec => []CancellationShown
  <1>1. ASSUME IInv PROVE CancellationShown
    BY <1>1 DEF IInv, ListedInv, CancellationShown, Answered
  <1> QED BY <1>1, Invariance, PTL

\* The delay of another day's train is never used while the train's own
\* update is there.
THEOREM DelayOwned == Spec => []OwnDelay
  <1>1. ASSUME IInv PROVE OwnDelay
    BY <1>1 DEF IInv, OwnInv, OwnDelay, Answered
  <1> QED BY <1>1, Invariance, PTL

\* "On Time" with delay minutes takes a write of the updates in between.
THEOREM CalmNeedsWrite == Spec => []CalmWithDelay
  <1>1. ASSUME IInv PROVE CalmWithDelay
    BY <1>1 DEF IInv, AgreeInv, Calm, CalmWithDelay, Answered
  <1> QED BY <1>1, Invariance, PTL

\* An answer during which nothing was rewritten has the status that the
\* sources, all seen at once, give the train by their precedence.
THEOREM SnapshotVerdict == Spec => []SnapshotAnswer
  <1>1. Spec => []SnapInv
    BY InitSnap, SnapStep, Invariance, PTL DEF Spec
  <1>2. ASSUME TypeOK, SnapInv PROVE SnapshotAnswer
    BY <1>2, SourcesAgree DEF SnapInv, SnapshotAnswer, Answered
  <1> QED BY <1>1, <1>2, TypeCorrect, PTL
=============================================================================
