------------------------------ MODULE Calendar ------------------------------
(***************************************************************************)
(* Instants, dates and the clock on the wall, for gtfs-static (store.go)   *)
(* and departures-api (departures.go).                                     *)
(*                                                                         *)
(* An instant is counted in hours from the first midnight of a short       *)
(* calendar, in which a day has 23 or 25 hours when the clocks change at   *)
(* two in the morning.                                                     *)
(***************************************************************************)
EXTENDS Integers, Sequences

CONSTANT DayLength   \* the hours of each day of the calendar

ASSUME CalendarAssumption == DayLength \in Seq({23, 24, 25})

Days == 1..Len(DayLength)

Midnight[d \in Days] == IF d = 1 THEN 0 ELSE Midnight[d - 1] + DayLength[d - 1]

DateOf(t) == CHOOSE d \in Days : Midnight[d] <= t /\ t < Midnight[d] + DayLength[d]

\* What the clock on the wall shows.
Wall(t) ==
    LET d == DateOf(t)
        h == t - Midnight[d]
    IN  IF h < 2 THEN h ELSE h + 24 - DayLength[d]

\* Mutant of Yesterday: the wrong sign.
Yesterday_Tomorrow(today) == today + 24

\* today.Add(-24 * time.Hour): a midnight if yesterday had 24 hours.
Yesterday(today) == today - 24
=============================================================================
