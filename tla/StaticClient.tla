---------------------------- MODULE StaticClient ----------------------------
(***************************************************************************)
(* departures-api asks gtfs-static for the board of a station and for the  *)
(* arrival of each of its trains at a destination (departures.go,          *)
(* staticclient.go).  Trips are cached for the life of the process, while  *)
(* gtfs-static reloads its timetable every day and forgets it in a         *)
(* restart.  One handler is followed through one request after another; of *)
(* the other handlers, which share the cache, one may have a trip on the   *)
(* way.                                                                    *)
(***************************************************************************)
EXTENDS Schedule

CONSTANTS
    Feeds,        \* the timetables Metrolinx may publish
    Requests,     \* [code, dest, now] that browsers send
    Busy,         \* the trips that other handlers ask for
    MaxRefreshes, \* bound: reloads and restarts of gtfs-static
    MaxRequests   \* bound: requests followed

TripIDs == UNION {{t.id : t \in f.trips} : f \in Feeds}

\* The calendar has the day before a request and the window after it.
ASSUME StaticClientAssumption ==
    /\ None \notin Feeds /\ None \notin TripIDs /\ None \notin Nat
    /\ Busy \subseteq TripIDs
    /\ \A f \in Feeds : WellFormed(f)
    /\ Requests # {}
    /\ \A r \in Requests :
          /\ r.now \in Nat
          /\ \E d \in Days : /\ d > 1 /\ Midnight[d] <= r.now
                             /\ r.now < Midnight[d] + DayLength[d]
          /\ \E d \in Days : /\ Midnight[d] <= r.now + LookAhead
                             /\ r.now + LookAhead < Midnight[d] + DayLength[d]
    /\ MaxRefreshes \in Nat /\ MaxRequests \in Nat

VARIABLES
    feed,        \* what gtfs-static serves, None before it has loaded
    refreshes,
    tripCache,   \* StaticClient.tripCache: trip id to calls
    late,        \* the answer on its way to another handler's getTrip
    pc,          \* the call the handler makes next
    req,         \* the request it answers
    asked,       \* requests begun
    todo,        \* the rows it has yet to look at
    destIDs,     \* what StopIDsForCode returned
    board,       \* its answer so far
    schedule, source,    \* history: the rows it was given, and from which feed
    failed       \* history: a call of this request has failed

remote == <<feed, refreshes>>
shared == <<tripCache, late>>
request == <<req, asked, schedule, source>>
vars == <<remote, shared, pc, request, todo, destIDs, board, failed>>

Init ==
    /\ feed = None /\ refreshes = 0
    /\ tripCache = [id \in TripIDs |-> None] /\ late = None
    /\ pc = "idle" /\ req = (CHOOSE r \in Requests : TRUE) /\ asked = 0
    /\ todo = << >> /\ destIDs = {} /\ board = << >>
    /\ schedule = << >> /\ source = None /\ failed = FALSE

-----------------------------------------------------------------------------
(* gtfs-static.                                                             *)

\* A refresh swaps the timetable; a restart leaves none for a while.
Refresh ==
    /\ refreshes < MaxRefreshes
    /\ feed' \in (Feeds \cup {None}) \ {feed}
    /\ refreshes' = refreshes + 1
    /\ UNCHANGED <<shared, pc, request, todo, destIDs, board, failed>>

\* GET /trips/{id}: the calls, or None for 404 and 503.
Trip(id) ==
    IF feed # None /\ \E t \in TripIndex(feed) : t.id = id
    THEN (CHOOSE t \in TripIndex(feed) : t.id = id).calls
    ELSE None

-----------------------------------------------------------------------------
(* GetDepartures, as far as gtfs-static goes.  Any call may fail.           *)

Request ==
    /\ pc = "idle" /\ asked < MaxRequests
    /\ pc' = "schedule"
    /\ req' \in Requests /\ asked' = asked + 1
    /\ todo' = << >> /\ destIDs' = {} /\ board' = << >>
    /\ schedule' = << >> /\ source' = None /\ failed' = FALSE
    /\ UNCHANGED <<remote, shared>>

GetSchedule ==
    /\ pc = "schedule" /\ feed # None
    /\ schedule' \in ScheduleForStop(feed, req.code, req.now)
    /\ source' = feed
    /\ todo' = schedule'
    /\ pc' = IF schedule' # << >> /\ req.dest # None THEN "ids" ELSE "rows"
    /\ UNCHANGED <<remote, shared, req, asked, destIDs, board, failed>>

\* The answer is an empty board.
GetScheduleFails ==
    /\ pc = "schedule"
    /\ pc' = "idle" /\ failed' = TRUE
    /\ UNCHANGED <<remote, shared, request, todo, destIDs, board>>

GetDestination ==
    /\ pc = "ids" /\ feed # None
    /\ destIDs' = StopIDsForCode(feed, req.dest)
    /\ pc' = "rows"
    /\ UNCHANGED <<remote, shared, request, todo, board, failed>>

\* The error is logged and the rows keep no arrival.
GetDestinationFails ==
    /\ pc = "ids"
    /\ pc' = "rows" /\ failed' = TRUE
    /\ UNCHANGED <<remote, shared, request, todo, destIDs, board>>

\* Mutant of Arrival: the station's first platform is taken for the origin.
Arrival_FromStart(row, calls) ==
    ArrivalTimeAtStop_FromStart(calls, destIDs, {row.stop})

Arrival(row, calls) == ArrivalTimeAtStop(calls, destIDs, {row.stop})

\* A train that does not go to the destination is left out.
Shown(row, calls) ==
    IF Arrival(row, calls) = None THEN board
    ELSE Append(board, [row |-> row, arrival |-> Arrival(row, calls)])

\* Without destination stops every row is listed.
Plain ==
    /\ pc = "rows" /\ todo # << >> /\ destIDs = {}
    /\ board' = Append(board, [row |-> Head(todo), arrival |-> None])
    /\ todo' = Tail(todo)
    /\ UNCHANGED <<remote, shared, pc, request, destIDs, failed>>

\* getTrip finds the trip in the cache.
Hit ==
    /\ pc = "rows" /\ todo # << >> /\ destIDs # {}
    /\ tripCache[Head(todo).trip] # None
    /\ board' = Shown(Head(todo), tripCache[Head(todo).trip])
    /\ todo' = Tail(todo)
    /\ UNCHANGED <<remote, shared, pc, request, destIDs, failed>>

\* getTrip asks gtfs-static, and stores what it says.
Fetched ==
    /\ pc = "rows" /\ todo # << >> /\ destIDs # {}
    /\ tripCache[Head(todo).trip] = None
    /\ Trip(Head(todo).trip) # None
    /\ tripCache' = [tripCache EXCEPT ![Head(todo).trip] = Trip(Head(todo).trip)]
    /\ board' = Shown(Head(todo), tripCache'[Head(todo).trip])
    /\ todo' = Tail(todo)
    /\ UNCHANGED <<remote, late, pc, request, destIDs, failed>>

\* Mutant of FetchFails: the failure is cached as a trip without calls.
FetchFails_Cached ==
    /\ pc = "rows" /\ todo # << >> /\ destIDs # {}
    /\ tripCache[Head(todo).trip] = None
    /\ tripCache' = [tripCache EXCEPT ![Head(todo).trip] = << >>]
    /\ todo' = Tail(todo)
    /\ failed' = TRUE
    /\ UNCHANGED <<remote, late, pc, request, destIDs, board>>

\* The request fails, or the trip is not found: the train is left out.
FetchFails ==
    /\ pc = "rows" /\ todo # << >> /\ destIDs # {}
    /\ tripCache[Head(todo).trip] = None
    /\ todo' = Tail(todo)
    /\ failed' = TRUE
    /\ UNCHANGED <<remote, shared, pc, request, destIDs, board>>

Answer ==
    /\ pc = "rows" /\ todo = << >>
    /\ pc' = "idle"
    /\ UNCHANGED <<remote, shared, request, todo, destIDs, board, failed>>

-----------------------------------------------------------------------------
(* Another handler's getTrip: a miss, answered, and stored in its own time. *)

OtherFetched(id) ==
    /\ late = None /\ tripCache[id] = None
    /\ Trip(id) # None
    /\ late' = [id |-> id, calls |-> Trip(id)]
    /\ UNCHANGED <<remote, tripCache, pc, request, todo, destIDs, board, failed>>

OtherStores ==
    /\ late # None
    /\ tripCache' = [tripCache EXCEPT ![late.id] = late.calls]
    /\ late' = None
    /\ UNCHANGED <<remote, pc, request, todo, destIDs, board, failed>>

Next ==
    \/ Refresh \/ Request \/ GetSchedule \/ GetScheduleFails
    \/ GetDestination \/ GetDestinationFails
    \/ Plain \/ Hit \/ Fetched \/ FetchFails \/ Answer
    \/ (\E id \in Busy : OtherFetched(id)) \/ OtherStores

Spec == Init /\ [][Next]_vars

-----------------------------------------------------------------------------
(* A reference for the schedule, by service days.                           *)

Runs(svc, d) == d \in ({x \in svc.from..svc.to : x % 7 \in svc.weekdays} \cup svc.added) \ svc.removed

\* The service days that ScheduleForStop tries.
Covered(now) == {DateOf(now), DateOf(now) - 1}

\* The clocks change neither today nor yesterday.
SteadyClocks(now) == \A d \in Covered(now) : DayLength[d] = 24

\* Nor do they on the day the window ends.
SteadyWindow(now) == SteadyClocks(now) /\ DayLength[DateOf(now + LookAhead)] = 24

\* All departures from a station towards another within the window, of
\* whatever service day: yesterday's trains may leave after midnight, and
\* tomorrow's before the window ends.
Departing(f, code, now) ==
    {x \in UNION {[trip : {t}, call : 1..(Len(t.calls) - 1), day : Days] : t \in f.trips} :
        /\ x.trip.route # None
        /\ x.trip.calls[x.call].stop \in StopIDsForCode(f, code)
        /\ Last(x.trip.calls).stop \notin StopIDsForCode(f, code)
        /\ Runs(f.services[x.trip.service], x.day)
        /\ Midnight[x.day] + x.trip.calls[x.call].dep \in now..(now + LookAhead)}

\* Those of the service days that are tried.
CoveredDeparting(f, code, now) == {x \in Departing(f, code, now) : x.day \in Covered(now)}

Instant(x) == Midnight[x.day] + x.trip.calls[x.call].dep

\* The second rule of Deduplicate.
SameLine(row, x) ==
    /\ row.route = x.trip.route /\ row.stop = x.trip.calls[x.call].stop
    /\ Midnight[row.day] + row.dep = Instant(x)

Given == source # None
Rows == {schedule[i] : i \in DOMAIN schedule}

-----------------------------------------------------------------------------
(* Properties.                                                              *)

\* Values: a trip is cached only as a timetable has it (getTrip).
Known(id) == {t.calls : t \in {u \in UNION {TripIndex(f) : f \in Feeds} : u.id = id}}

TypeOK ==
    /\ feed \in Feeds \cup {None} /\ refreshes \in 0..MaxRefreshes
    /\ \A id \in TripIDs : tripCache[id] \in {None} \cup Known(id)
    /\ late # None => late.id \in TripIDs /\ late.calls \in Known(late.id)
    /\ pc \in {"idle", "schedule", "ids", "rows"}
    /\ req \in Requests /\ asked \in 0..MaxRequests
    /\ source \in Feeds \cup {None} /\ failed \in BOOLEAN

\* Every row is a departure: a train that goes on from this station, on a day
\* its service runs, within the window, with the stops it has yet to call at
\* (ScheduleForStop, serviceActive).  On days the clocks change, and on the
\* day after, this fails: see LocalTime.
Sound ==
    Given /\ SteadyClocks(req.now) =>
        LET D == Departing(source, req.code, req.now) IN
        \A row \in Rows : \E x \in D :
            /\ row.trip = x.trip.id /\ row.day = x.day
            /\ row.stop = x.trip.calls[x.call].stop /\ row.dep = x.trip.calls[x.call].dep
            /\ IsSuffix(row.stops, [i \in DOMAIN x.trip.calls |-> x.trip.calls[i].stop])

\* The board lists no train and no minute of a line twice, in the order of the
\* scheduled departures, whatever their delays (the sort, seenTrip,
\* seenTimeLine).
OnceEach ==
    \A i, j \in DOMAIN schedule : i < j =>
        /\ schedule[i].number # schedule[j].number
        /\ <<schedule[i].time, schedule[i].route, schedule[i].stop>>
              # <<schedule[j].time, schedule[j].route, schedule[j].stop>>
        /\ SteadyClocks(req.now) =>
              Midnight[schedule[i].day] + schedule[i].dep <= Midnight[schedule[j].day] + schedule[j].dep

\* No departure of today's and yesterday's service is lost: it is listed, or
\* one of its line and minute is, or one of the line and minute of a departure
\* no later that had its number; or the board is full of departures no later
\* than it.  A departure of tomorrow's service is lost always: the loop of
\* ScheduleForStop over the service days (store.go:460) has only these two, so
\* that at 23:00 a train of the next day's service at 00:00 is not listed,
\* though it leaves within the window and is in Departing.  When an hour of
\* the window comes twice, a train in one half may be dropped for one of its
\* line in the other.
Represented ==
    Given /\ SteadyWindow(req.now) =>
        LET D == CoveredDeparting(source, req.code, req.now) IN
        \A x \in D :
            \/ \E y \in D : /\ y.trip.number = x.trip.number /\ Instant(y) <= Instant(x)
                            /\ \E row \in Rows : SameLine(row, y)
            \/ /\ Len(schedule) = MaxResults
               /\ \A row \in Rows : Midnight[row.day] + row.dep <= Instant(x)

\* A browser can find every train: from each call at which it may be boarded,
\* at a stop or a platform of a station with a position, there is a stop on
\* offer whose code leads to that call (the lists stops and stopCodes of load).
Findable ==
    feed # None =>
        \A t \in {u \in TripIndex(feed) : u.rail} : \A i \in 1..(Len(t.calls) - 1) :
            LET s == feed.stops[t.calls[i].stop] IN
            s.located \/ (s.parent # None /\ feed.stops[s.parent].located) =>
                \E code \in AllStops(feed) : t.calls[i].stop \in StopIDsForCode(feed, code)

\* A train whose calls no timetable changes, and which calls here once.
Steady(row) ==
    \E calls \in Known(row.trip) :
        /\ Known(row.trip) = {calls}
        /\ \A i, j \in DOMAIN calls : calls[i].stop = row.stop /\ calls[j].stop = row.stop => i = j

\* Where such a train next calls at the destination once it has left.
NextCalls(row) ==
    LET calls == CHOOSE c \in Known(row.trip) : TRUE
        after == {j \in DOMAIN calls : /\ calls[j].stop \in destIDs
                                       /\ \E i \in 1..(j - 1) : calls[i].stop = row.stop}
    IN  {calls[j].arr : j \in {k \in after : \A l \in after : k <= l}}

\* When no call failed, the answer lists just the trains that go on to the
\* destination, and says when they get there, whatever other handlers,
\* refreshes and earlier failures have left in the cache: staleness shows only
\* where a refresh changes a trip (getTrip, ArrivalTimeAtStop, GetDepartures).
BoardAgrees ==
    pc = "idle" /\ Given /\ ~failed /\ destIDs # {} =>
        \A row \in {r \in Rows : Steady(r)} :
            {b.arrival : b \in {board[i] : i \in {k \in DOMAIN board : board[k].row = row}}}
                = NextCalls(row)

\* GTFS_MIGRATION_PLAN.md:78: "Stop times in GTFS are local time strings",
\* which "can exceed 24:00:00 for trips past midnight": a train is listed at
\* the time of the clock that the timetable has.  The code adds the time to an
\* instant, the midnight of today or 24 hours before it, so it is an hour
\* wrong on the days the clocks change, and the day after a short day lists
\* trains of the day before yesterday.
LocalTime == \A row \in Rows : row.time = row.dep % 24
=============================================================================
