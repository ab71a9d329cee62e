------------------------------ MODULE Schedule ------------------------------
(***************************************************************************)
(* gtfs-static/store/store.go: what load makes of a timetable and what the *)
(* queries compute from it.                                                *)
(*                                                                         *)
(* The times of a trip are hours from the midnight of its service day and  *)
(* may exceed 24.  Names, colours and headsigns follow from the ids and    *)
(* are left out.                                                           *)
(***************************************************************************)
EXTENDS Calendar, FiniteSets, SequencesExt

CONSTANTS
    LookAhead,   \* how far a board looks ahead (3)
    MaxResults,  \* the rows of a board (20)
    None         \* no code, no parent, no route, no arrival

ASSUME ScheduleAssumption ==
    /\ LookAhead \in 1..22
    /\ MaxResults \in Nat \ {0}

\* Exceptions beat the weekly pattern, and a removed date an added one.
ServiceActive(svc, d) ==
    /\ d \notin svc.removed
    /\ d \in svc.added \/ (d \in svc.from..svc.to /\ d % 7 \in svc.weekdays)

-----------------------------------------------------------------------------
(* load: the indexes.  f.stops[id] has a code, a parent and a position or   *)
(* not, f.services[id] is a calendar, f.trips is a set of trips with their  *)
(* calls in order.                                                          *)

\* The references in a timetable lead somewhere, as GTFS has it.
WellFormed(f) ==
    /\ None \notin DOMAIN f.stops
    /\ \A id \in DOMAIN f.stops : f.stops[id].parent \in DOMAIN f.stops \cup {None}
    /\ IsFiniteSet(f.trips)
    /\ \A t \in f.trips : t.calls \in Seq([stop : DOMAIN f.stops, arr : Nat, dep : Nat])

Key(f, id) == IF f.stops[id].code = None THEN id ELSE f.stops[id].code

\* A station answers for its platforms, and a platform for itself.
StopIDsForCode(f, code) ==
    {id \in DOMAIN f.stops :
        \/ Key(f, id) = code
        \/ f.stops[id].parent # None /\ Key(f, f.stops[id].parent) = code}

\* A trip without route or with a single call is in no answer.
TripIndex(f) == {t \in f.trips : t.route # None /\ Len(t.calls) >= 2}

\* Mutant of RailStops: the parents of the platforms are not marked.
RailStops_PlatformsOnly(f) ==
    UNION {{t.calls[i].stop : i \in DOMAIN t.calls} : t \in {u \in f.trips : u.rail}}

\* Stops at which a train calls, and their stations.
RailStops(f) ==
    LET called == UNION {{t.calls[i].stop : i \in DOMAIN t.calls} :
                         t \in {u \in f.trips : u.rail /\ u.route # None}}
    IN  called \cup ({f.stops[id].parent : id \in called} \ {None})

\* The keys of the stops offered to the browsers.
AllStops(f) == {Key(f, id) : id \in {s \in RailStops(f) : f.stops[s].located}}

Ends(t) == <<t.route, t.calls[1].stop, Last(t.calls).stop>>

\* Fewer calls than the longest trip between the same ends.
IsExpress(f, t) == \E u \in TripIndex(f) : Ends(u) = Ends(t) /\ Len(u.calls) > Len(t.calls)

-----------------------------------------------------------------------------
(* ScheduleForStop.                                                         *)

Leaves(c) == c.base + c.dep

Line(c) == <<Wall(Leaves(c)), c.trip.route, c.stop>>

\* Mutant of GoingOn: trains that end here are listed.
GoingOn_All(f, ids) == TripIndex(f)

\* The trips that do not end at this station.
GoingOn(f, ids) == {t \in TripIndex(f) : Last(t.calls).stop \notin ids}

\* The calls at the stops of this code, by trips that go on from here, that
\* leave within the window as calls of today's service or, failing that, of
\* yesterday's.
Candidates(f, code, now) ==
    LET ids == StopIDsForCode(f, code)
        today == Midnight[DateOf(now)]
        CallsOf(t, b) == {[trip |-> t, stop |-> t.calls[i].stop, dep |-> t.calls[i].dep, base |-> b] :
                             i \in DOMAIN t.calls}
        On(b) == {c \in UNION {CallsOf(t, b) : t \in GoingOn(f, ids)} :
                     /\ c.stop \in ids
                     /\ ServiceActive(f.services[c.trip.service], DateOf(b))
                     /\ Leaves(c) \in now..(now + LookAhead)}
    IN  On(today) \cup {c \in On(Yesterday(today)) : [c EXCEPT !.base = today] \notin On(today)}

\* sort.Slice is not stable: departures of one instant come in any order.
Sorted(S) ==
    {s \in SetToSeqs(S) : \A i \in 1..(Len(s) - 1) : Leaves(s[i]) <= Leaves(s[i + 1])}

Nobody == [trips |-> {}, lines |-> {}, list |-> << >>]

\* Mutant of Keep: the trip numbers are not looked at.
Keep_ByLine(a, c) ==
    IF Len(a.list) = MaxResults \/ Line(c) \in a.lines THEN a
    ELSE [a EXCEPT !.lines = @ \cup {Line(c)}, !.list = Append(@, c)]

\* One row per trip number, and one per minute, route and stop.  A row that
\* the second rule drops has used up its trip number.
Keep(a, c) ==
    IF Len(a.list) = MaxResults \/ c.trip.number \in a.trips THEN a
    ELSE IF Line(c) \in a.lines THEN [a EXCEPT !.trips = @ \cup {c.trip.number}]
    ELSE [trips |-> a.trips \cup {c.trip.number},
          lines |-> a.lines \cup {Line(c)}, list |-> Append(a.list, c)]

\* The loop over the sorted candidates, with seenTrip, seenTimeLine and the
\* answer so far.
Deduplicate(s) ==
    LET loop[i \in 0..Len(s)] == IF i = 0 THEN Nobody ELSE Keep(loop[i - 1], s[i])
    IN  loop[Len(s)].list

\* The place of the first call at one of these stops, 0 when there is none.
FirstCallAt(calls, ids) == SelectInSeq(calls, LAMBDA k : k.stop \in ids)

\* The place of the first such call after place p.
NextCallAt(calls, p, ids) == SelectInSubSeq(calls, p + 1, Len(calls), LAMBDA k : k.stop \in ids)

\* The stops named on the row: those after the first call at this station.
Remaining(t, ids) == SubSeq(t.calls, FirstCallAt(t.calls, ids) + 1, Len(t.calls))

Row(f, code, c) ==
    [trip |-> c.trip.id, number |-> c.trip.number, route |-> c.trip.route, stop |-> c.stop,
     day |-> DateOf(c.base), dep |-> c.dep, time |-> Wall(Leaves(c)),
     stops |-> [i \in DOMAIN Remaining(c.trip, StopIDsForCode(f, code)) |->
                   Remaining(c.trip, StopIDsForCode(f, code))[i].stop],
     express |-> IsExpress(f, c.trip)]

\* The answers ScheduleForStop may give.
ScheduleForStop(f, code, now) ==
    {[i \in DOMAIN list |-> Row(f, code, list[i])] :
        list \in {Deduplicate(s) : s \in Sorted(Candidates(f, code, now))}}

-----------------------------------------------------------------------------
(* ArrivalTimeAtStop, in gtfs-static and again in departures-api.           *)

\* Mutant of ArrivalTimeAtStop: the search begins at the first call.
ArrivalTimeAtStop_FromStart(calls, dest, origin) ==
    LET at == FirstCallAt(calls, dest)
    IN  IF at = 0 THEN None ELSE calls[at].arr

\* The first call at one of dest after the first call at one of origin.
ArrivalTimeAtStop(calls, dest, origin) ==
    LET from == FirstCallAt(calls, origin)
        to == NextCallAt(calls, from, dest)
    IN  IF from = 0 \/ to = 0 THEN None ELSE calls[to].arr
=============================================================================
