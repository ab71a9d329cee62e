---------------------------- MODULE MCDepartures ----------------------------
(* Departures for TLC: a few feeds, boards and delays that differ in what   *)
(* the answer may be.                                                       *)
EXTENDS Departures

\* Seven days, the second short and the sixth long.
Seven == <<24, 23, 24, 24, 24, 25, 24>>

\* After midnight, a train of the fifth day's service, not on a whole minute,
\* and one of the sixth's, of 24 hours before the midnight after it.
SomeTrains ==
    {[base |-> 95, dep |-> 25 * 3600 + 30], [base |-> 144 - 24, dep |-> 25 * 3600]}

Update(i, c, ss) == [id |-> i, canceled |-> c, stops |-> ss]
Late(s, d) == [stop |-> s, delay |-> d]

\* Nothing; a minute here, growing after this stop, after its sibling, an
\* early train; the sibling alone; cancelled, without and with a delay.
SomeFeeds ==
    LET minute == Update("own", FALSE, <<Late("here", 60), Late("there", 300)>>)
        early == Update("sibling", FALSE, <<Late("there", -90)>>)
    IN  { << >>, <<early, minute>>, <<early>>,
          <<Update("own", TRUE, << >>)>>,
          <<Update("own", TRUE, <<Late("there", 120), Late("here", 0)>>)>> }

\* No entry is what a read that fails returns, too.
SomeGlances == {30, 240}

Row(own, match, info, platform) ==
    [own |-> own, match |-> match, info |-> info, platform |-> platform]

\* Nothing; this train; this train cancelled, and another at the same time.
SomeBoards ==
    { {}, {Row(TRUE, TRUE, "PROCEED", "union")},
      {Row(TRUE, FALSE, "CANCELLED", "dash"), Row(FALSE, TRUE, "WAIT", "union")} }

SomeLines == {[actual |-> TRUE, planned |-> TRUE], [actual |-> FALSE, planned |-> TRUE]}
=============================================================================
