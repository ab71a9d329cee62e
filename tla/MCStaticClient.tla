--------------------------- MODULE MCStaticClient ---------------------------
(***************************************************************************)
(* StaticClient for TLC: a station U with two platforms, one of which has  *)
(* its code, and two stops beyond it; seven days, the second short and the *)
(* sixth long; trains that share a number, a minute or a line, that run    *)
(* past midnight, by exception, in a loop, without route, or to nowhere.   *)
(***************************************************************************)
EXTENDS StaticClient

Seven == <<24, 23, 24, 24, 24, 25, 24>>

Stops ==
    [s \in {"U", "p1", "p2", "X", "Y"} |->
        [code |-> CASE s \in {"U", "p2"} -> "UN" [] s = "X" -> "XX" [] OTHER -> None,
         parent |-> IF s \in {"p1", "p2"} THEN "U" ELSE None,
         located |-> s \notin {"p1", "p2"}]]

Service(from, to, weekdays, added, removed) ==
    [from |-> from, to |-> to, weekdays |-> weekdays, added |-> added, removed |-> removed]

Services ==
    [s \in {"daily", "first", "extra"} |->
        CASE s = "daily" -> Service(1, 7, 0..6, {}, {})
          [] s = "first" -> Service(1, 7, {3, 5}, {}, {5})
          [] s = "extra" -> Service(3, 7, {2, 4}, {2, 6}, {6})]

Call(stop, t) == [stop |-> stop, arr |-> t, dep |-> t]

Trip_(id, number, route, service, calls) ==
    [id |-> id, number |-> number, route |-> route, service |-> service, rail |-> route # "bus",
     calls |-> calls]

\* The same train by two services, with a stop more by the second.
A1 == Trip_("a1", 1, "A", "daily", <<Call("p1", 8), Call("X", 9), Call("Y", 10)>>)
A2 == Trip_("a2", 1, "A", "extra", <<Call("p2", 8), Call("Y", 9)>>)
\* Of the same minute, line and platform as A1, and an hour later again.
A3 == Trip_("a3", 3, "A", "extra", <<Call("Y", 6), Call("p1", 8), Call("Y", 10)>>)
A4 == Trip_("a4", 3, "A", "daily", <<Call("Y", 7), Call("p1", 9), Call("X", 10)>>)
\* The same trip in another timetable.
A4x == Trip_("a4", 3, "A", "daily", <<Call("Y", 7), Call("p1", 9), Call("X", 10), Call("Y", 12)>>)
\* Past midnight, by the third day's service and by every day's.
B5 == Trip_("b5", 5, "B", "first", <<Call("p1", 24), Call("X", 25), Call("Y", 26)>>)
B6 == Trip_("b6", 6, "B", "daily", <<Call("X", 23), Call("p2", 25), Call("Y", 27)>>)
\* An hour after B6, and at the same time of the clock on a long day.
B9 == Trip_("b9", 9, "B", "daily", <<Call("p2", 26), Call("X", 27)>>)
\* Early, in a loop, ending here, and of no use.
C7 == Trip_("c7", 7, "bus", "daily", <<Call("p1", 0), Call("X", 1), Call("p1", 2), Call("Y", 3)>>)
D8 == Trip_("d8", 8, "A", "daily", <<Call("Y", 7), Call("X", 8), Call("p1", 9)>>)
E9 == Trip_("e9", 11, None, "daily", <<Call("p1", 8), Call("Y", 9)>>)
F0 == Trip_("f0", 10, "A", "daily", <<Call("p1", 8)>>)

Timetable(trips) == [stops |-> Stops, services |-> Services, trips |-> trips]

Timetables ==
    {Timetable({A1, A2, A3, A4, B5, B6, B9, D8, F0}),
     Timetable({A1, A3, A4x, B6, C7, E9}),
     Timetable({A2, A4, B5, C7, D8, E9})}

Ask(code, dest, now) == [code |-> code, dest |-> dest, now |-> now]

\* On a plain day in the morning, at its first hour and at its last, before
\* C7 of the next day; on the short day, on the eve of the long one, and on the
\* days after the short and the long one.
Asked ==
    {Ask("UN", "Y", 71 + 7), Ask("UN", None, 71 + 0), Ask("Y", "UN", 71 + 7),
     Ask("UN", "Y", 71 + 23), Ask("UN", "Y", 24 + 8), Ask("UN", "Y", 47 + 0),
     Ask("UN", "Y", 95 + 23), Ask("UN", "XX", 144 + 1)}
=============================================================================
