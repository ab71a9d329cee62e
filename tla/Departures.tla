----------------------------- MODULE Departures -----------------------------
(***************************************************************************)
(* departures-api answers GET /departures/{stop}?dest= from the timetable  *)
(* (HTTP calls to gtfs-static) and from four Redis keys that the poller    *)
(* rewrites whenever it likes.  One train is followed through one request  *)
(* after another, one action per call that leaves the process.  Delays and *)
(* the instants of departures are in seconds.  Nothing else of a departure *)
(* depends on the moment at which a key is read: headsigns, cars, colours  *)
(* and alerts are left out.                                                *)
(***************************************************************************)
EXTENDS Calendar

CONSTANTS
    Trains,          \* candidates gtfs-static may list: the service day's base
                     \* in hours, the departure in seconds after it
    TripFeeds,       \* trip update feeds Metrolinx may publish
    Glances,         \* delays service glance may report (None: no entry)
    Boards,          \* rows of the Union board
    NextLines,       \* platforms NextService may know for the train
    MaxRewrites,     \* bound: writes of the poller during one request
    None             \* no entry

\* A feed lists entities of this train: "own" is the trip of the timetable,
\* "sibling" the one of another day with the same trip number.
Entities == [id : {"own", "sibling"}, canceled : BOOLEAN,
             stops : Seq([stop : {"here", "there"}, delay : Int])]

\* What the exceptions say of this train: all of it, or one stop.
Cancellations == {None, "trip", "here", "there"}

\* A base is a midnight, or 24 hours before one (ScheduleForStop).
ASSUME DeparturesAssumption ==
    /\ Trains # {} /\ Trains \subseteq [base : Nat, dep : Nat]
    /\ \A t \in Trains :
          /\ \E d \in Days : t.base \in {Midnight[d], Yesterday(Midnight[d])}
          /\ \E d \in Days : Midnight[d] <= t.base /\ t.base < Midnight[d] + DayLength[d]
    /\ TripFeeds \subseteq Seq(Entities)
    /\ Glances \subseteq Int \cup {None}
    /\ \A rows \in Boards : rows \subseteq
          [own : BOOLEAN, match : BOOLEAN, info : {"", "PROCEED", "WAIT", "CANCELLED"},
           platform : {"", "dash", "union"}]
    /\ \A rows \in Boards : \A r, q \in rows : r.own /\ q.own => r = q
    /\ NextLines \subseteq [actual : BOOLEAN, planned : BOOLEAN]
    /\ MaxRewrites \in Nat
    /\ None \notin Int /\ None \notin {"trip", "here", "there"} /\ None \notin Entities

VARIABLES
    updates,         \* transit:trip-updates, the two fields of this train
    glance,          \* transit:service-glance, likewise
    board,           \* transit:union-departures
    exceptions,      \* transit:exceptions, likewise
    pc,              \* the call the handler makes next
    stop, dest,      \* the request: from which stop, with a destination or not
    train,           \* the candidate
    destIDs,         \* the destination is known
    delay,           \* what findDelay returned
    boardRead, glanceRead,   \* what was read before the loop
    dep,             \* the departure being put together
    touched,         \* keys rewritten, or not read, since the request came in
    rewrites,        \* writes of the poller since then
    held             \* what was the delay of "own" meanwhile, None included

redis == <<updates, glance, board, exceptions>>
request == <<stop, dest>>
local == <<train, destIDs, delay, boardRead, glanceRead>>
history == <<touched, rewrites, held>>
vars == <<redis, pc, request, local, dep, history>>
-----------------------------------------------------------------------------
(* What the poller stores of a feed, and what the handler computes of it.   *)

\* ParseTripUpdates: the first entity of the feed has the trip number, the
\* last one of a trip has its id.
ByNumber(feed) == IF feed = << >> THEN None ELSE feed[1]

ById(feed) ==
    LET own == {i \in 1..Len(feed) : feed[i].id = "own"}
    IN  IF own = {} THEN None ELSE feed[CHOOSE i \in own : \A j \in own : j <= i]

Indexed(feed) == [id |-> ById(feed), number |-> ByNumber(feed)]

\* findDelay: the last delay that is not zero up to this stop, or up to the
\* end when the update does not mention this stop.
FindDelay(e) ==
    LET before == {i \in 1..Len(e.stops) : \A j \in 1..(i - 1) : e.stops[j].stop # "here"}
        delays == {i \in before : e.stops[i].delay # 0}
    IN  IF delays = {} THEN 0
        ELSE e.stops[CHOOSE i \in delays : \A j \in delays : j <= i].delay

DelayOf(e) == IF e = None THEN None ELSE FindDelay(e)

\* int(d.Minutes()) truncates towards zero.
Minutes(d) == IF d >= 0 THEN d \div 60 ELSE -((-d) \div 60)

\* The instant at which gtfs-static lists a train, and the one departures-api
\* makes of its service day, a date, and of the same departure.
Listed(t) == 3600 * t.base + t.dep

ServiceDay(t) == DateOf(t.base)

Scheduled(t) == 3600 * Midnight[ServiceDay(t)] + t.dep

\* formatTime: the minute of the day on the clock.
Clock(s) == 60 * Wall(s \div 3600) + (s % 3600) \div 60

OnTime == [text |-> "On Time", minutes |-> 0]
Cancelled == [text |-> "Cancelled", minutes |-> 0]
Delayed(n) == [text |-> "Delayed", minutes |-> n]
Says(info) == [text |-> info, minutes |-> 0]

NoDep == [status |-> OnTime, minutes |-> 0, actual |-> None, cancelled |-> FALSE,
          platform |-> "", arrival |-> FALSE, listed |-> FALSE]

Init ==
    /\ updates \in {Indexed(feed) : feed \in TripFeeds}
    /\ glance \in Glances /\ board \in Boards /\ exceptions \in Cancellations
    /\ pc = "done" /\ stop = "union" /\ dest = FALSE
    /\ train \in Trains /\ destIDs = FALSE /\ delay = 0 /\ boardRead = {} /\ glanceRead = None
    /\ dep = NoDep
    /\ touched = {} /\ rewrites = 0 /\ held = {}

-----------------------------------------------------------------------------
(* The poller, whose writes are atomic, and the expiry of a key, during a   *)
(* request.  What happens between requests is in the choice of Init.        *)

Rewrite(key) ==
    /\ pc # "done" /\ rewrites < MaxRewrites
    /\ rewrites' = rewrites + 1
    /\ touched' = touched \cup {key}

WriteUpdates ==
    /\ updates' \in {Indexed(feed) : feed \in TripFeeds}
    /\ Rewrite("updates") /\ held' = held \cup {DelayOf(updates'.id)}
    /\ UNCHANGED <<glance, board, exceptions, pc, request, local, dep>>

WriteGlance ==
    /\ glance' \in Glances /\ Rewrite("glance")
    /\ UNCHANGED <<updates, board, exceptions, pc, request, local, dep, held>>

WriteBoard ==
    /\ board' \in Boards /\ Rewrite("board")
    /\ UNCHANGED <<updates, glance, exceptions, pc, request, local, dep, held>>

WriteExceptions ==
    /\ exceptions' \in Cancellations /\ Rewrite("exceptions")
    /\ UNCHANGED <<updates, glance, board, pc, request, local, dep, held>>

-----------------------------------------------------------------------------
(* A request.  The calls of gtfs-static may fail; a read of Redis that      *)
(* fails counts as "nothing there".                                         *)

At(from, to) == pc = from /\ pc' = to

Got(key, value, there) ==
    /\ IF value = there THEN UNCHANGED touched ELSE touched' = touched \cup {key}
    /\ UNCHANGED <<rewrites, held>>

GotUpdate(e, there) ==
    IF e = there THEN UNCHANGED history
    ELSE /\ touched' = touched \cup {"updates"} /\ held' = held \cup {None}
         /\ UNCHANGED rewrites

Request ==
    /\ At("done", "schedule")
    /\ stop' \in {"union", "other"} /\ dest' \in BOOLEAN
    /\ destIDs' = FALSE /\ delay' = 0 /\ boardRead' = {} /\ glanceRead' = None
    /\ dep' = NoDep
    /\ touched' = {} /\ rewrites' = 0 /\ held' = {DelayOf(updates.id)}
    /\ UNCHANGED <<redis, train>>

\* GetSchedule: without it, or without candidates, the board is empty.
Schedule ==
    /\ \/ /\ At("schedule", IF dest THEN "destination" ELSE "board")
          /\ train' \in Trains
          /\ \E platform \in {"", "static"} : dep' = [dep EXCEPT !.platform = platform]
       \/ At("schedule", "done") /\ UNCHANGED <<train, dep>>
    /\ UNCHANGED <<redis, request, destIDs, delay, boardRead, glanceRead, history>>

\* StopIDsForCode: an error is logged, and the list is empty.
Destination ==
    /\ At("destination", "board")
    /\ destIDs' \in BOOLEAN
    /\ UNCHANGED <<redis, request, train, delay, boardRead, glanceRead, dep, history>>

Board ==
    /\ At("board", "glance")
    /\ \E rows \in {board, {}} : boardRead' = rows /\ Got("board", rows, board)
    /\ UNCHANGED <<redis, request, train, destIDs, delay, glanceRead, dep>>

Glance ==
    /\ At("glance", "delay")
    /\ \E g \in {glance, None} : glanceRead' = g /\ Got("glance", g, glance)
    /\ UNCHANGED <<redis, request, train, destIDs, delay, boardRead, dep>>

\* Mutant of DelayById: the trip number alone.
DelayById_Number ==
    /\ \E e \in {updates.number, None} :
          /\ GotUpdate(e, updates.number)
          /\ IF e = None THEN At("delay", "delayByNumber") /\ UNCHANGED delay
             ELSE At("delay", "status") /\ delay' = FindDelay(e)
    /\ UNCHANGED <<redis, request, train, destIDs, boardRead, glanceRead, dep>>

\* findDelay calls findTripUpdate: by trip id, then by trip number.
DelayById ==
    /\ \E e \in {updates.id, None} :
          /\ GotUpdate(e, updates.id)
          /\ IF e = None THEN At("delay", "delayByNumber") /\ UNCHANGED delay
             ELSE At("delay", "status") /\ delay' = FindDelay(e)
    /\ UNCHANGED <<redis, request, train, destIDs, boardRead, glanceRead, dep>>

DelayByNumber ==
    /\ At("delayByNumber", "status")
    /\ \E e \in {updates.number, None} :
          /\ GotUpdate(e, updates.number)
          /\ delay' = IF e = None THEN 0 ELSE FindDelay(e)
    /\ UNCHANGED <<redis, request, train, destIDs, boardRead, glanceRead, dep>>

\* The delay in minutes, the actual time, which an early train does not have,
\* and the status.
Timed(d, late, status) ==
    [d EXCEPT !.minutes = Minutes(late),
              !.actual = IF Minutes(late) > 0 THEN Scheduled(train) + late ELSE None,
              !.status = status]

\* Mutants of Judged: an early train is delayed by less than nothing; delays
\* of one minute do not count.
Judged_Early(e) ==
    Timed(dep, delay, IF e = None THEN OnTime ELSE IF e.canceled THEN Cancelled
                      ELSE IF Minutes(delay) # 0 THEN Delayed(Minutes(delay)) ELSE OnTime)

Judged_OneMinute(e) ==
    Timed(dep, delay, IF e = None THEN OnTime ELSE IF e.canceled THEN Cancelled
                      ELSE IF Minutes(delay) > 1 THEN Delayed(Minutes(delay)) ELSE OnTime)

\* The status from the delay found before and the update found now.
Judged(e) ==
    Timed(dep, delay, IF e = None THEN OnTime ELSE IF e.canceled THEN Cancelled
                      ELSE IF Minutes(delay) >= 1 THEN Delayed(Minutes(delay)) ELSE OnTime)

AfterStatus == IF destIDs THEN "arrival" ELSE "enrich"

StatusById ==
    /\ \E e \in {updates.id, None} :
          /\ GotUpdate(e, updates.id)
          /\ IF e = None THEN At("status", "statusByNumber") /\ UNCHANGED dep
             ELSE At("status", AfterStatus) /\ dep' = Judged(e)
    /\ UNCHANGED <<redis, request, local>>

StatusByNumber ==
    /\ At("statusByNumber", AfterStatus)
    /\ \E e \in {updates.number, None} : GotUpdate(e, updates.number) /\ dep' = Judged(e)
    /\ UNCHANGED <<redis, request, local>>

\* ArrivalTimeAtStop: a train that does not go there, or whose stops cannot
\* be looked up, is left out.
Arrival ==
    /\ \/ At("arrival", "enrich") /\ dep' = [dep EXCEPT !.arrival = TRUE]
       \/ At("arrival", "platforms") /\ UNCHANGED dep
    /\ UNCHANGED <<redis, request, local, history>>

\* Mutants of Glanced: DelayMinutes is not set; service glance always wins.
Glanced_NoMinutes(d) ==
    IF glanceRead = None \/ delay # 0 \/ Minutes(glanceRead) < 1 THEN d
    ELSE [Timed(d, glanceRead, Delayed(Minutes(glanceRead))) EXCEPT !.minutes = d.minutes]

Glanced_Always(d) ==
    IF glanceRead = None \/ Minutes(glanceRead) < 1 THEN d
    ELSE Timed(d, glanceRead, Delayed(Minutes(glanceRead)))

\* Service glance is asked when the trip updates know of no delay.
Glanced(d) ==
    IF glanceRead = None \/ delay # 0 \/ glanceRead <= 0 THEN d
    ELSE IF Minutes(glanceRead) >= 1 THEN Timed(d, glanceRead, Delayed(Minutes(glanceRead)))
    ELSE [d EXCEPT !.minutes = 0]

\* Mutant of Boarded: the two tests of Info in the other order.
Boarded_InfoLast(d) ==
    IF \A row \in boardRead : ~row.own THEN d
    ELSE LET row == CHOOSE r \in boardRead : r.own
         IN  [d EXCEPT
                 !.platform = IF stop = "union" /\ @ = "" THEN row.platform ELSE @,
                 !.status = IF row.info # "" THEN Says(row.info) ELSE @,
                 !.cancelled = (row.info = "CANCELLED")]

\* The row of this train on the Union board.
Boarded(d) ==
    IF \A row \in boardRead : ~row.own THEN d
    ELSE LET row == CHOOSE r \in boardRead : r.own
         IN  [d EXCEPT
                 !.platform = IF stop = "union" /\ @ = "" THEN row.platform ELSE @,
                 !.status = IF row.info = "CANCELLED" THEN Cancelled
                            ELSE IF row.info # "" THEN Says(row.info) ELSE @,
                 !.cancelled = (row.info = "CANCELLED")]

Enrich ==
    /\ At("enrich", "exceptions")
    /\ dep' = Boarded(Glanced(dep))
    /\ UNCHANGED <<redis, request, local, history>>

\* Mutant of IsStopCancelled: whole trips only, as for the Union page.
IsStopCancelled_Trip(x) == x = "trip"

IsStopCancelled(x) == x \in {"trip", "here"}

\* With it GetDepartures returns, and what it read is gone.
CheckExceptions ==
    /\ At("exceptions", "next")
    /\ \E x \in {exceptions, None} :
          /\ Got("exceptions", x, exceptions)
          /\ dep' = IF IsStopCancelled(x)
                    THEN [dep EXCEPT !.cancelled = TRUE, !.status = Cancelled, !.listed = TRUE]
                    ELSE [dep EXCEPT !.listed = TRUE]
    /\ destIDs' = FALSE /\ boardRead' = {} /\ glanceRead' = None
    /\ UNCHANGED <<redis, request, train, delay>>

\* GetNextService, from Redis or from Metrolinx, when there is a key and an
\* answer in time: what is cached is an earlier answer.
NextService ==
    /\ At("next", "platforms")
    /\ \/ UNCHANGED dep
       \/ \E line \in NextLines :
             dep' = [dep EXCEPT !.platform =
                       IF line.actual THEN "actual"
                       ELSE IF line.planned /\ @ = "" THEN "planned" ELSE @]
    /\ UNCHANGED <<redis, request, local, history>>

\* The Union board again: a row of the same line and time, at any stop.
Platforms ==
    /\ At("platforms", "done")
    /\ \E rows \in {board, {}} :
          /\ Got("board", rows, board)
          /\ dep' = IF /\ dep.platform = "" /\ dep.listed
                       /\ \E row \in rows : row.match /\ row.platform = "union"
                    THEN [dep EXCEPT !.platform = "union"] ELSE dep
    /\ UNCHANGED <<redis, request, local>>

-----------------------------------------------------------------------------

Poller == WriteUpdates \/ WriteGlance \/ WriteBoard \/ WriteExceptions

Handler ==
    \/ Request \/ Schedule \/ Destination \/ Board \/ Glance
    \/ DelayById \/ DelayByNumber \/ StatusById \/ StatusByNumber
    \/ Arrival \/ Enrich \/ CheckExceptions \/ NextService \/ Platforms

Next == Handler \/ Poller

Spec == Init /\ [][Next]_vars

-----------------------------------------------------------------------------
(* Properties.                                                              *)

Departure ==
    [status : [text : {"On Time", "Cancelled", "Delayed", "PROCEED", "WAIT", "CANCELLED"}, minutes : Nat],
     minutes : Int, actual : Int \cup {None}, cancelled : BOOLEAN,
     platform : {"", "static", "dash", "union", "actual", "planned"},
     arrival : BOOLEAN, listed : BOOLEAN]

\* Every variable has its type.
TypeOK ==
    /\ updates \in {Indexed(feed) : feed \in TripFeeds}
    /\ glance \in Glances /\ board \in Boards /\ exceptions \in Cancellations
    /\ pc \in {"schedule", "destination", "board", "glance", "delay", "delayByNumber", "status",
               "statusByNumber", "arrival", "enrich", "exceptions", "next", "platforms", "done"}
    /\ stop \in {"union", "other"} /\ dest \in BOOLEAN
    /\ train \in Trains /\ destIDs \in BOOLEAN
    /\ delay \in Int
    /\ boardRead \in Boards \cup {{}} /\ glanceRead \in Glances \cup {None}
    /\ dep \in Departure
    /\ touched \subseteq {"updates", "glance", "board", "exceptions"}
    /\ rewrites \in 0..MaxRewrites
    /\ held \subseteq Int \cup {None}

Answered == pc = "done" /\ dep.listed

\* gtfs-static counted the departure from the midnight of its service day.
\* It did not for a train of yesterday's service after a day of 23 or 25 hours.
OnMidnight(t) == t.base = Midnight[ServiceDay(t)]

\* However the poller's writes fall between the reads, the parts of an answer
\* agree: "Delayed +n" comes with n delay minutes, an actual time exactly when
\* there is a delay, and the actual time is that many minutes after the listed
\* one on the clock, or one more when a departure or a delay has seconds.
\* After a day on which the clocks changed this is false of the trains of its
\* service: gtfs-static lists them 24 hours before midnight plus the departure
\* (store.go:430), GetDepartures counts from midnight of the service day
\* (departures.go:60), and a train at 25:00 after a day of 25 hours, five
\* minutes late, is listed at 01:00 with the actual time 00:05.
DelayAgrees ==
    Answered =>
        /\ dep.status.text = "Delayed" => dep.status.minutes = dep.minutes /\ dep.minutes >= 1
        /\ dep.actual = None <=> dep.minutes <= 0
        /\ dep.actual # None /\ OnMidnight(train) =>
              \E s \in 0..59 : Clock(dep.actual) = Clock(Listed(train) + 60 * dep.minutes + s)

\* A departure flagged as cancelled says so, whichever source flagged it and
\* whatever the others wrote over it.
CancelSays == Answered /\ dep.cancelled => dep.status = Cancelled

\* A train that the exceptions cancel here from the request to the answer is
\* flagged as cancelled, as long as Redis answers.
CancellationShown ==
    Answered /\ "exceptions" \notin touched /\ exceptions \in {"trip", "here"} => dep.cancelled

\* A train whose own update is in the feed from the request to the answer is
\* never shown the delay of another day's train of the same number: what was
\* used is a delay its own update had meanwhile.
OwnDelay == Answered /\ None \notin held => delay \in held

\* "On Time" next to delay minutes is seen only when the trip updates were
\* rewritten, or not read, between the request and the answer: findDelay and
\* the status read the update separately.
CalmWithDelay ==
    Answered /\ dep.status = OnTime /\ dep.minutes >= 1 => "updates" \in touched

\* The status of a train by the precedence of its sources, all of them seen at
\* once: the exceptions, the Union board, service glance where the updates
\* have no delay, the updates.
Verdict ==
    LET e == IF updates.id # None THEN updates.id ELSE updates.number
        late == e # None /\ FindDelay(e) # 0
        n == Minutes(IF late THEN FindDelay(e)
                     ELSE IF glance # None /\ glance > 0 THEN glance ELSE 0)
        infos == {row.info : row \in {r \in board : r.own}} \ {""}
    IN  IF exceptions \in {"trip", "here"} \/ "CANCELLED" \in infos THEN Cancelled
        ELSE IF infos # {} THEN Says(CHOOSE info \in infos : TRUE)
        ELSE IF e # None /\ e.canceled /\ (late \/ n < 1) THEN Cancelled
        ELSE IF n >= 1 THEN Delayed(n) ELSE OnTime

\* An answer during which nothing was rewritten is the verdict on the one
\* state of Redis there was, in spite of half a dozen separate reads and of
\* each source writing over the ones before.
SnapshotAnswer == Answered /\ touched = {} => dep.status = Verdict

\* GTFS_MIGRATION_PLAN.md has "Cancelled" whenever the schedule relationship
\* is CANCELED.  Service glance and the Union board write over it.
CanceledShown ==
    Answered /\ "updates" \notin touched /\ updates.id # None /\ updates.id.canceled
        => dep.status = Cancelled \/ dep.cancelled

\* The comment on GetDepartures has an arrival time for each departure when
\* there is a destination.  Without the ids of the destination there is none,
\* and trains that do not go there are listed.
ArrivalPopulated == Answered /\ dest => dep.arrival
=============================================================================
