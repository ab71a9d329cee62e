---------------------------- MODULE PollerProofs ----------------------------
(***************************************************************************)
(* What the poller's cache guarantees for any feeds and any times that     *)
(* leave the TTL longer than the health threshold and a cycle.             *)
(***************************************************************************)
EXTENDS Poller, TLAPS

\* Where the loop stands within a cycle, and how old its answers can be.
CycleInv ==
    /\ pc \in {"down", "wait"} =>
          elapsed = 0 /\ answer = Nothing /\ running = {} /\ at = 1 /\ step = "set"
    /\ pc = "fetch" => at = 1 /\ step = "set"
    /\ pc = "write" => running = {}
    /\ step # "set" => pc = "write" /\ at <= Len(Order) /\ answer[Order[at]] # None
    /\ \A f \in Feeds : answer[f] # None => answer[f] <= elapsed

\* What is stored for f is no older than its timestamp and a cycle, and was
\* stored no longer ago than that; and between SetData and SetStamp it is as
\* young as the cycle.
ServedInv ==
    \A f \in Feeds : last[f] = "stored" =>
        /\ stamp[f] # None /\ data[f].left > 0 =>
              /\ data[f].age <= stamp[f] + MaxCycle
              /\ TTL <= stamp[f] + MaxCycle + data[f].left
        /\ stamp[f] # None /\ data[f].left = 0 => TTL <= stamp[f] + MaxCycle
        /\ Writing(f, "publish") \/ Writing(f, "stamp") =>
              /\ data[f].left > 0 /\ data[f].age <= elapsed
              /\ TTL <= elapsed + data[f].left

\* Nothing newer than what Redis holds has been announced.
AnnouncedInv ==
    \A f \in Feeds :
        /\ announced[f] # None /\ answer[f] # None => answer[f] <= announced[f]
        /\ last[f] = "stored" /\ data[f].left > 0 =>
              /\ announced[f] # None => data[f].age <= announced[f]
              /\ Writing(f, "publish") => data[f].age = answer[f]

IInv == TypeOK /\ CycleInv /\ ServedInv /\ AnnouncedInv

-----------------------------------------------------------------------------
(* The constants, and ages.                                                 *)

LEMMA Caps ==
  /\ TTL \in Nat /\ Threshold \in Nat /\ MaxCycle \in Nat /\ MaxPolls \in Nat
  /\ AgeCap \in Nat /\ AgeCap = TTL + MaxCycle
  /\ MaxCycle < TTL /\ Threshold + MaxCycle < TTL
  /\ Period \in Nat /\ Period > 0
  /\ None \notin Nat
  /\ Len(Order) \in Nat
  /\ \A i \in 1..Len(Order) : Order[i] \in Feeds
  BY PollerAssumption DEF AgeCap, Feeds

LEMMA OlderAge ==
  /\ Older(None) = None
  /\ \A a \in Age : Older(a) \in Age /\ a <= Older(a) /\ Older(a) <= a + 1
  /\ \A a, b \in Age : a <= b => Older(a) <= Older(b)
  BY Caps DEF Older, Age

LEMMA AgedStamp ==
  /\ Aged(None) = None
  /\ \A a \in 0..(TTL - 1) : Aged(a) \in (0..(TTL - 1)) \cup {None}
  /\ \A a \in 0..(TTL - 1) : Aged(a) # None => Aged(a) = a + 1
  <1>1. Aged(None) = None
    BY DEF Aged
  <1>2. ASSUME NEW a \in 0..(TTL - 1)
        PROVE  a # None /\ a \in Nat /\ a + 1 \in Nat
    BY Caps
  <1>3. ASSUME NEW a \in 0..(TTL - 1)
        PROVE  /\ Aged(a) \in (0..(TTL - 1)) \cup {None}
               /\ Aged(a) # None => Aged(a) = a + 1
    <2>1. CASE a + 1 < TTL
      <3>1. Aged(a) = a + 1
        BY <1>2, <2>1 DEF Aged
      <3>2. a + 1 \in 0..(TTL - 1)
        BY <1>2, <2>1, Caps
      <3> QED BY <3>1, <3>2
    <2>2. CASE ~(a + 1 < TTL)
      BY <2>2 DEF Aged
    <2> QED BY <2>1, <2>2
  <1> QED BY <1>1, <1>3

-----------------------------------------------------------------------------

LEMMA InitInv == ASSUME Init PROVE IInv
  <1> USE Caps DEF Init, Nothing, NoKey
  <1>1. TypeOK
    <2>1. data \in [Feeds -> [age : Age, left : 0..TTL]]
      BY DEF Age
    <2>2. /\ answer \in [Feeds -> MaybeAge] /\ announced \in [Feeds -> MaybeAge]
          /\ stamp \in [Feeds -> 0..(TTL - 1) \cup {None}]
      BY DEF MaybeAge
    <2>3. /\ last \in [Feeds -> {"none", "stored", "empty", "failed"}]
          /\ polls \in [Feeds -> 0..MaxPolls]
          /\ at \in 1..(Len(Order) + 1)
      OBVIOUS
    <2>4. /\ timer \in (1..Period) \cup {None} /\ elapsed \in 0..MaxCycle
          /\ running \subseteq Feeds
      OBVIOUS
    <2>5. /\ pc \in {"down", "fetch", "write", "wait"} /\ step \in {"set", "publish", "stamp"}
          /\ odd \in BOOLEAN /\ fired \in BOOLEAN /\ cancelled \in BOOLEAN /\ outage \in BOOLEAN
      OBVIOUS
    <2> HIDE DEF Init
    <2> QED BY <2>1, <2>2, <2>3, <2>4, <2>5 DEF TypeOK
  <1>2. CycleInv
    BY DEF CycleInv, Nothing
  <1>3. ServedInv /\ AnnouncedInv
    BY DEF ServedInv, AnnouncedInv
  <1> QED BY <1>1, <1>2, <1>3 DEF IInv

LEMMA PollAllType ==
  ASSUME TypeOK, PollAll
  PROVE  running' \subseteq Feeds /\ polls' \in [Feeds -> 0..MaxPolls]
  BY Caps DEF TypeOK, PollAll

\* Start and TickerFires begin a cycle and touch nothing else.
LEMMA BeginInv ==
  ASSUME IInv, Start \/ TickerFires
  PROVE  IInv'
  <1>1. /\ pc \in {"down", "wait"} /\ pc' = "fetch"
        /\ fired' \in BOOLEAN
        /\ PollAll
        /\ UNCHANGED <<odd, timer, cancelled, elapsed, answer, at, step, store, announced, outage>>
    BY DEF Start, TickerFires, IInv, TypeOK
  <1>2. TypeOK'
    BY <1>1, PollAllType DEF IInv, TypeOK, store
  <1>3. CycleInv'
    BY <1>1 DEF IInv, CycleInv
  <1>4. ServedInv'
    BY <1>1 DEF IInv, ServedInv, Writing, store
  <1>5. AnnouncedInv'
    BY <1>1 DEF IInv, AnnouncedInv, Writing, store
  <1> QED BY <1>2, <1>3, <1>4, <1>5 DEF IInv

\* The goroutines change what is fetched, while nothing is being written.
LEMMA FetchInv ==
  ASSUME IInv, NEW f \in Feeds, Answered(f) \/ Parsed(f) \/ Failed(f)
  PROVE  IInv'
  <1>1. /\ f \in running /\ running' \in {running, running \ {f}}
        /\ UNCHANGED <<control, elapsed, at, step, store, announced, outage, polls>>
    BY DEF Answered, Parsed, Failed
  <1>2. \/ answer' = answer
        \/ answer' = [answer EXCEPT ![f] = 0]
        \/ answer' = [answer EXCEPT ![f] = None]
    BY DEF Answered, Parsed, Failed
  <1>3. pc = "fetch" /\ step = "set"
    BY <1>1 DEF IInv, TypeOK, CycleInv
  <1>4. /\ answer \in [Feeds -> MaybeAge] /\ answer' \in [Feeds -> MaybeAge]
        /\ \A g \in Feeds : answer'[g] \in {answer[g], 0, None}
    <2>1. 0 \in MaybeAge /\ None \in MaybeAge
      BY Caps DEF MaybeAge, Age
    <2>2. answer \in [Feeds -> MaybeAge]
      BY DEF IInv, TypeOK
    <2> QED BY <1>2, <2>1, <2>2
  <1>5. TypeOK'
    BY <1>1, <1>4 DEF IInv, TypeOK, control, store
  <1>6. CycleInv'
    <2>1. elapsed \in Nat
      BY Caps DEF IInv, TypeOK
    <2>2. \A g \in Feeds : answer'[g] # None => answer'[g] <= elapsed
      BY <1>4, <2>1 DEF IInv, CycleInv
    <2> QED BY <1>1, <1>3, <2>2 DEF IInv, CycleInv, control
  <1>7. ServedInv'
    BY <1>1, <1>3 DEF IInv, ServedInv, Writing, control, store
  <1>8. AnnouncedInv'
    <2>1. \A g \in Feeds : announced[g] # None => 0 <= announced[g]
      BY Caps DEF IInv, TypeOK, MaybeAge, Age
    <2>2. \A g \in Feeds : announced[g] # None /\ answer'[g] # None => answer'[g] <= announced[g]
      BY <1>4, <2>1 DEF IInv, AnnouncedInv
    <2> QED BY <1>1, <1>3, <2>2 DEF IInv, AnnouncedInv, Writing, control, store
  <1> QED BY <1>5, <1>6, <1>7, <1>8 DEF IInv

LEMMA GatheredInv == ASSUME IInv, Gathered PROVE IInv'
  <1> USE DEF IInv, Gathered, cycle, store
  <1>1. TypeOK'
    BY DEF TypeOK
  <1>2. CycleInv'
    BY DEF CycleInv
  <1>3. step = "set"
    BY DEF CycleInv
  <1>4. ServedInv'
    BY <1>3 DEF ServedInv, Writing
  <1>5. AnnouncedInv'
    BY <1>3 DEF AnnouncedInv, Writing
  <1> QED BY <1>1, <1>2, <1>4, <1>5

LEMMA SkipInv == ASSUME IInv, NEW f \in Feeds, Skip(f) PROVE IInv'
  <1> USE DEF IInv, Skip, control, store
  <1>1. pc = "write" /\ at <= Len(Order) /\ step = "set"
    BY DEF Writing
  <1>2. TypeOK'
    BY <1>1, Caps DEF TypeOK
  <1>3. CycleInv'
    BY <1>1 DEF CycleInv
  <1>4. ServedInv'
    BY <1>1 DEF ServedInv, Writing
  <1>5. AnnouncedInv'
    BY <1>1 DEF AnnouncedInv, Writing
  <1> QED BY <1>2, <1>3, <1>4, <1>5

LEMMA SetDataInv == ASSUME IInv, NEW f \in Feeds, SetData(f) PROVE IInv'
  <1>1. /\ pc = "write" /\ at <= Len(Order) /\ Order[at] = f /\ step = "set" /\ answer[f] # None
        /\ step' = "publish"
        /\ UNCHANGED <<control, elapsed, running, answer, at, stamp, announced, outage, polls>>
    BY DEF SetData, Writing
  <1>2. \/ Stored(f) /\ last' = [last EXCEPT ![f] = "stored"]
        \/ data' = [data EXCEPT ![f] = NoKey] /\ last' = [last EXCEPT ![f] = "empty"]
        \/ (Stored(f) \/ data' = data) /\ last' = [last EXCEPT ![f] = "failed"]
    BY DEF SetData
  <1>3. answer[f] \in Age /\ answer[f] <= elapsed /\ elapsed <= MaxCycle
    BY <1>1 DEF IInv, TypeOK, CycleInv, MaybeAge
  <1>4. TypeOK'
    <2>1. data' \in [Feeds -> [age : Age, left : 0..TTL]]
      <3>1. /\ [age |-> answer[f], left |-> TTL] \in [age : Age, left : 0..TTL]
            /\ NoKey \in [age : Age, left : 0..TTL]
        BY <1>3, Caps DEF NoKey, Age
      <3>2. data \in [Feeds -> [age : Age, left : 0..TTL]]
        BY DEF IInv, TypeOK
      <3> QED BY <1>2, <3>1, <3>2 DEF Stored
    <2>2. last' \in [Feeds -> {"none", "stored", "empty", "failed"}]
      BY <1>2 DEF IInv, TypeOK
    <2> QED BY <1>1, <2>1, <2>2 DEF IInv, TypeOK, control
  <1>5. CycleInv'
    BY <1>1 DEF IInv, CycleInv, control
  <1>6. \A g \in Feeds : g # f => data'[g] = data[g] /\ last'[g] = last[g]
                                  /\ ~Writing(g, "publish")' /\ ~Writing(g, "stamp")'
    BY <1>1, <1>2 DEF IInv, TypeOK, Stored, Writing
  <1>7. last'[f] = "stored" => data'[f] = [age |-> answer[f], left |-> TTL]
    BY <1>2 DEF IInv, TypeOK, Stored
  <1>8. ServedInv'
    <2> SUFFICES ASSUME NEW g \in Feeds, last'[g] = "stored"
                 PROVE  /\ stamp'[g] # None /\ data'[g].left > 0 =>
                              /\ data'[g].age <= stamp'[g] + MaxCycle
                              /\ TTL <= stamp'[g] + MaxCycle + data'[g].left
                        /\ stamp'[g] # None /\ data'[g].left = 0 => TTL <= stamp'[g] + MaxCycle
                        /\ Writing(g, "publish")' \/ Writing(g, "stamp")' =>
                              /\ data'[g].left > 0 /\ data'[g].age <= elapsed'
                              /\ TTL <= elapsed' + data'[g].left
      BY DEF ServedInv
    <2>1. CASE g = f
      <3>1. data'[f].age = answer[f] /\ data'[f].left = TTL
        BY <1>7, <2>1
      <3>2. stamp[f] # None => stamp[f] \in Nat
        BY Caps DEF IInv, TypeOK
      <3>3. elapsed \in Nat /\ elapsed' = elapsed /\ stamp' = stamp
        BY <1>1, Caps DEF IInv, TypeOK
      <3> QED BY <1>3, <2>1, <3>1, <3>2, <3>3, Caps DEF Age
    <2>2. CASE g # f
      BY <1>1, <1>6, <2>2 DEF IInv, ServedInv
    <2> QED BY <2>1, <2>2
  <1>9. AnnouncedInv'
    <2> SUFFICES ASSUME NEW g \in Feeds
                 PROVE  /\ announced'[g] # None /\ answer'[g] # None => answer'[g] <= announced'[g]
                        /\ last'[g] = "stored" /\ data'[g].left > 0 =>
                              /\ announced'[g] # None => data'[g].age <= announced'[g]
                              /\ Writing(g, "publish")' => data'[g].age = answer'[g]
      BY DEF AnnouncedInv
    <2>1. CASE g = f
      BY <1>1, <1>7, <2>1 DEF IInv, AnnouncedInv
    <2>2. CASE g # f
      BY <1>1, <1>6, <2>2 DEF IInv, AnnouncedInv
    <2> QED BY <2>1, <2>2
  <1> QED BY <1>4, <1>5, <1>8, <1>9 DEF IInv

LEMMA PublishInv == ASSUME IInv, NEW f \in Feeds, Publish(f) PROVE IInv'
  <1>1. /\ pc = "write" /\ at <= Len(Order) /\ Order[at] = f /\ step = "publish"
        /\ step' = "stamp"
        /\ UNCHANGED <<control, elapsed, running, answer, at, store, outage, polls>>
    BY DEF Publish, Writing
  <1>2. announced' = [announced EXCEPT ![f] = answer[f]] \/ announced' = announced
    BY DEF Publish
  <1>3. /\ answer \in [Feeds -> MaybeAge] /\ announced \in [Feeds -> MaybeAge]
        /\ announced' \in [Feeds -> MaybeAge]
    BY <1>2 DEF IInv, TypeOK
  <1>4. TypeOK'
    BY <1>1, <1>3 DEF IInv, TypeOK, control, store
  <1>5. CycleInv'
    BY <1>1 DEF IInv, CycleInv, control
  <1>6. ServedInv'
    BY <1>1 DEF IInv, ServedInv, Writing, control, store
  <1>7. AnnouncedInv'
    <2> SUFFICES ASSUME NEW g \in Feeds
                 PROVE  /\ announced'[g] # None /\ answer[g] # None => answer[g] <= announced'[g]
                        /\ last[g] = "stored" /\ data[g].left > 0 /\ announced'[g] # None
                              => data[g].age <= announced'[g]
      BY <1>1 DEF AnnouncedInv, Writing, store
    <2>1. CASE announced'[g] = announced[g]
      BY <2>1 DEF IInv, AnnouncedInv
    <2>2. CASE g = f /\ announced'[g] = answer[g]
      <3>1. last[f] = "stored" /\ data[f].left > 0 => data[f].age = answer[f]
        BY <1>1 DEF IInv, AnnouncedInv, Writing
      <3>2. answer[f] # None => answer[f] <= answer[f]
        BY <1>3, Caps DEF MaybeAge, Age
      <3> QED BY <2>2, <3>1, <3>2
    <2> QED BY <1>2, <1>3, <2>1, <2>2
  <1> QED BY <1>4, <1>5, <1>6, <1>7 DEF IInv

LEMMA SetStampInv == ASSUME IInv, NEW f \in Feeds, SetStamp(f) PROVE IInv'
  <1>1. /\ pc = "write" /\ at <= Len(Order) /\ Order[at] = f /\ step = "stamp"
        /\ step' = "set" /\ at' = at + 1
        /\ UNCHANGED <<control, elapsed, running, answer, data, last, announced, outage>>
    BY DEF SetStamp, Writing
  <1>2. \/ stamp' = [stamp EXCEPT ![f] = 0] /\ polls' = [polls EXCEPT ![f] = 0]
        \/ stamp' = stamp /\ polls' = polls
    BY DEF SetStamp
  <1>3. TypeOK'
    <2>1. /\ stamp \in [Feeds -> 0..(TTL - 1) \cup {None}]
          /\ 0 \in 0..(TTL - 1) \cup {None}
      BY Caps DEF IInv, TypeOK
    <2>2. polls \in [Feeds -> 0..MaxPolls] /\ 0 \in 0..MaxPolls
      BY Caps DEF IInv, TypeOK
    <2>3. /\ stamp' \in [Feeds -> 0..(TTL - 1) \cup {None}]
          /\ polls' \in [Feeds -> 0..MaxPolls]
      BY <1>2, <2>1, <2>2
    <2>4. at' \in 1..(Len(Order) + 1)
      BY <1>1, Caps DEF IInv, TypeOK
    <2> QED BY <1>1, <2>3, <2>4 DEF IInv, TypeOK, control
  <1>4. CycleInv'
    BY <1>1 DEF IInv, CycleInv, control
  <1>5. ServedInv'
    <2> SUFFICES ASSUME NEW g \in Feeds, last[g] = "stored", stamp'[g] # None
                 PROVE  /\ data[g].left > 0 =>
                              /\ data[g].age <= stamp'[g] + MaxCycle
                              /\ TTL <= stamp'[g] + MaxCycle + data[g].left
                        /\ data[g].left = 0 => TTL <= stamp'[g] + MaxCycle
      BY <1>1 DEF ServedInv, Writing
    <2>1. CASE stamp'[g] = stamp[g]
      BY <2>1 DEF IInv, ServedInv
    <2>2. CASE g = f /\ stamp'[g] = 0
      <3>1. data[f].left > 0 /\ data[f].age <= elapsed /\ TTL <= elapsed + data[f].left
        BY <1>1, <2>2 DEF IInv, ServedInv, Writing
      <3>2. /\ elapsed \in Nat /\ elapsed <= MaxCycle
            /\ data[f].age \in Nat /\ data[f].left \in Nat
            /\ TTL \in Nat /\ MaxCycle \in Nat
        BY Caps DEF IInv, TypeOK, Age
      <3>3. /\ data[f].left > 0 /\ data[f].age <= 0 + MaxCycle
            /\ TTL <= 0 + MaxCycle + data[f].left
        BY <3>1, <3>2
      <3> QED BY <2>2, <3>2, <3>3
    <2> QED BY <1>2, <2>1, <2>2 DEF IInv, TypeOK
  <1>6. AnnouncedInv'
    BY <1>1 DEF IInv, AnnouncedInv, Writing, control
  <1> QED BY <1>3, <1>4, <1>5, <1>6 DEF IInv

\* A cycle or the process ends: the result is dropped, Redis is left as it is.
LEMMA EndInv == ASSUME IInv, EndCycle \/ Gone PROVE IInv'
  <1>1. /\ pc' \in {"down", "wait"} /\ at' = 1 /\ elapsed' = 0 /\ answer' = Nothing
        /\ running' = {} /\ step' = "set"
        /\ UNCHANGED <<store, announced, outage>>
    BY DEF EndCycle, Gone, IInv, TypeOK, CycleInv
  <1>2. odd' \in BOOLEAN /\ fired' \in BOOLEAN /\ cancelled' \in BOOLEAN
    BY DEF EndCycle, Gone, IInv, TypeOK
  <1>3. timer' \in (1..Period) \cup {None}
    BY Caps DEF EndCycle, Gone, IInv, TypeOK
  <1>4. polls' \in [Feeds -> 0..MaxPolls]
    BY Caps DEF EndCycle, Gone, IInv, TypeOK
  <1>5. TypeOK'
    <2>1. answer' \in [Feeds -> MaybeAge] /\ elapsed' \in 0..MaxCycle /\ at' \in 1..(Len(Order) + 1)
      BY <1>1, Caps DEF Nothing, MaybeAge
    <2> QED BY <1>1, <1>2, <1>3, <1>4, <2>1 DEF IInv, TypeOK, store
  <1>6. CycleInv'
    BY <1>1 DEF CycleInv, Nothing
  <1>7. ServedInv'
    BY <1>1 DEF IInv, ServedInv, Writing, store
  <1>8. AnnouncedInv'
    BY <1>1 DEF IInv, AnnouncedInv, Writing, Nothing, store
  <1> QED BY <1>5, <1>6, <1>7, <1>8 DEF IInv

\* SIGTERM and the beginning and end of an outage touch no value.
LEMMA SurroundingsInv == ASSUME IInv, Sigterm \/ Trouble PROVE IInv'
  <1>1. /\ UNCHANGED <<pc, odd, timer, fired, cycle, store, announced, polls>>
        /\ cancelled' \in BOOLEAN /\ outage' \in BOOLEAN
    BY DEF Sigterm, Trouble, control, IInv, TypeOK
  <1>2. TypeOK'
    BY <1>1 DEF IInv, TypeOK, cycle, store
  <1>3. CycleInv'
    BY <1>1 DEF IInv, CycleInv, cycle
  <1>4. ServedInv' /\ AnnouncedInv'
    BY <1>1 DEF IInv, ServedInv, AnnouncedInv, Writing, cycle, store
  <1> QED BY <1>2, <1>3, <1>4 DEF IInv

LEMMA TickInv == ASSUME IInv, Tick PROVE IInv'
  <1>1. /\ UNCHANGED <<pc, odd, cancelled, running, at, step, last, outage, polls>>
        /\ answer' = [f \in Feeds |-> Older(answer[f])]
        /\ announced' = [f \in Feeds |-> Older(announced[f])]
        /\ stamp' = [f \in Feeds |-> Aged(stamp[f])]
        /\ data' = [f \in Feeds |->
                      IF data[f].left > 1
                      THEN [age |-> Older(data[f].age), left |-> data[f].left - 1]
                      ELSE NoKey]
    BY DEF Tick
  <1>2. /\ elapsed \in Nat /\ elapsed' \in 0..MaxCycle
        /\ pc \in {"fetch", "write"} => elapsed' = elapsed + 1
        /\ pc \in {"down", "wait"} => elapsed' = 0
    <2>1. pc \in {"down", "fetch", "write", "wait"} /\ elapsed \in 0..MaxCycle
      BY DEF IInv, TypeOK
    <2>2. /\ pc \in {"fetch", "write"} => elapsed < MaxCycle
          /\ elapsed' = IF pc \in {"fetch", "write"} THEN elapsed + 1 ELSE 0
      BY DEF Tick
    <2> QED BY <2>1, <2>2, Caps
  <1>3. \A f \in Feeds : /\ data[f].age \in Age /\ data[f].left \in 0..TTL
                        /\ answer[f] \in MaybeAge /\ announced[f] \in MaybeAge
                        /\ stamp[f] \in 0..(TTL - 1) \cup {None}
    BY DEF IInv, TypeOK
  <1>4. \A f \in Feeds : data'[f].left > 0 =>
            /\ data[f].left > 1 /\ data'[f].left = data[f].left - 1
            /\ data'[f].age = Older(data[f].age)
    BY <1>1 DEF NoKey
  <1>5. \A f \in Feeds : data'[f].left = 0 => data[f].left \in {0, 1}
    BY <1>1, <1>3, Caps
  <1>6. TypeOK'
    <2>1. answer' \in [Feeds -> MaybeAge] /\ announced' \in [Feeds -> MaybeAge]
      BY <1>1, <1>3, OlderAge DEF MaybeAge
    <2>2. stamp' \in [Feeds -> 0..(TTL - 1) \cup {None}]
      BY <1>1, <1>3, AgedStamp
    <2>3. data' \in [Feeds -> [age : Age, left : 0..TTL]]
      <3>1. ASSUME NEW f \in Feeds
            PROVE  /\ data[f].left > 1 => [age |-> Older(data[f].age), left |-> data[f].left - 1]
                                            \in [age : Age, left : 0..TTL]
                   /\ NoKey \in [age : Age, left : 0..TTL]
        <4>1. Older(data[f].age) \in Age /\ 0 \in Age
          <5>1. data[f].age \in Age
            BY <1>3
          <5>2. Older(data[f].age) \in Age
            BY <5>1, OlderAge
          <5>3. 0 \in Age
            BY Caps DEF Age
          <5> QED BY <5>2, <5>3
        <4>2. data[f].left > 1 => data[f].left - 1 \in 0..TTL
          BY <1>3, Caps
        <4> QED BY <4>1, <4>2, Caps DEF NoKey
      <3> QED BY <1>1, <3>1
    <2>4. timer' \in (1..Period) \cup {None}
      BY Caps DEF Tick, IInv, TypeOK
    <2>5. fired' \in BOOLEAN
      BY DEF Tick, IInv, TypeOK
    <2> QED BY <1>1, <1>2, <2>1, <2>2, <2>3, <2>4, <2>5 DEF IInv, TypeOK
  <1>7. CycleInv'
    <2>1. pc \in {"down", "wait"} => answer' = Nothing
      BY <1>1, OlderAge DEF IInv, CycleInv, Nothing
    <2>2. ASSUME NEW f \in Feeds, answer'[f] # None
          PROVE  answer[f] # None /\ answer'[f] <= elapsed'
      <3>1. answer[f] # None
        BY <1>1, <2>2, OlderAge
      <3>2. answer[f] \in Age /\ answer[f] <= elapsed /\ pc \in {"fetch", "write"}
        BY <1>3, <3>1 DEF IInv, TypeOK, CycleInv, MaybeAge, Nothing
      <3>3. answer'[f] \in Age /\ answer'[f] <= answer[f] + 1
        BY <1>1, <3>2, OlderAge
      <3> QED BY <1>2, <3>1, <3>2, <3>3, Caps DEF Age
    <2>3. \A f \in Feeds : answer[f] # None => answer'[f] # None
      <3>1. None \notin Age
        BY Caps DEF Age
      <3> QED BY <1>1, <1>3, <3>1, OlderAge DEF MaybeAge
    <2>4. step # "set" => pc = "write" /\ at <= Len(Order) /\ Order[at] \in Feeds /\ answer[Order[at]] # None
      BY Caps DEF IInv, TypeOK, CycleInv
    <2> QED BY <1>1, <1>2, <2>1, <2>2, <2>3, <2>4 DEF IInv, CycleInv
  <1>8. ServedInv'
    <2> SUFFICES ASSUME NEW f \in Feeds, last[f] = "stored"
                 PROVE  /\ stamp'[f] # None /\ data'[f].left > 0 =>
                              /\ data'[f].age <= stamp'[f] + MaxCycle
                              /\ TTL <= stamp'[f] + MaxCycle + data'[f].left
                        /\ stamp'[f] # None /\ data'[f].left = 0 => TTL <= stamp'[f] + MaxCycle
                        /\ Writing(f, "publish") \/ Writing(f, "stamp") =>
                              /\ data'[f].left > 0 /\ data'[f].age <= elapsed'
                              /\ TTL <= elapsed' + data'[f].left
      BY <1>1 DEF ServedInv, Writing
    <2>0. TTL \in Nat /\ MaxCycle \in Nat
      BY Caps
    <2>1. /\ data[f].age \in Nat /\ data[f].left \in Nat /\ data'[f].left \in Nat
          /\ data'[f].left > 0 => data'[f].age \in Nat /\ data'[f].age <= data[f].age + 1
      <3>1. Older(data[f].age) \in Age /\ Older(data[f].age) <= data[f].age + 1
        BY <1>3, OlderAge
      <3>2. data'[f].left \in Nat
        BY <1>6, Caps DEF TypeOK
      <3> QED BY <1>3, <1>4, <3>1, <3>2, Caps DEF Age
    <2>2. stamp'[f] # None => /\ stamp[f] # None /\ stamp[f] \in Nat /\ stamp'[f] = stamp[f] + 1
      BY <1>1, <1>3, AgedStamp, Caps
    <2>3. stamp[f] # None /\ data[f].left > 0 =>
              data[f].age <= stamp[f] + MaxCycle /\ TTL <= stamp[f] + MaxCycle + data[f].left
      BY DEF IInv, ServedInv
    <2>4. stamp[f] # None /\ data[f].left = 0 => TTL <= stamp[f] + MaxCycle
      BY DEF IInv, ServedInv
    <2>5. ASSUME stamp'[f] # None, data'[f].left > 0
          PROVE  data'[f].age <= stamp'[f] + MaxCycle /\ TTL <= stamp'[f] + MaxCycle + data'[f].left
      <3>1. data[f].left > 0 /\ data'[f].left = data[f].left - 1
        BY <1>4, <2>1, <2>5
      <3>2. data[f].age <= stamp[f] + MaxCycle /\ TTL <= stamp[f] + MaxCycle + data[f].left
        BY <2>2, <2>3, <2>5, <3>1
      <3> QED BY <2>0, <2>1, <2>2, <2>5, <3>1, <3>2
    <2>6. ASSUME stamp'[f] # None, data'[f].left = 0
          PROVE  TTL <= stamp'[f] + MaxCycle
      <3>1. CASE data[f].left = 0
        BY <2>0, <2>2, <2>4, <2>6, <3>1
      <3>2. CASE data[f].left = 1
        BY <2>0, <2>2, <2>3, <2>6, <3>2
      <3> QED BY <1>5, <2>6, <3>1, <3>2
    <2>7. ASSUME Writing(f, "publish") \/ Writing(f, "stamp")
          PROVE  /\ data'[f].left > 0 /\ data'[f].age <= elapsed'
                 /\ TTL <= elapsed' + data'[f].left
      <3>1. data[f].left > 0 /\ data[f].age <= elapsed /\ TTL <= elapsed + data[f].left
        BY <2>7 DEF IInv, ServedInv
      <3>2. elapsed' = elapsed + 1 /\ elapsed + 1 <= MaxCycle
        BY <1>2, <2>7, Caps DEF Writing
      <3>3. data[f].left > 1
        BY <1>2, <2>1, <3>1, <3>2, Caps
      <3>4. data'[f].left > 0 /\ data'[f].left = data[f].left - 1
        BY <1>5, <1>4, <2>1, <3>3
      <3> QED BY <1>2, <2>0, <2>1, <3>1, <3>2, <3>4
    <2> QED BY <2>5, <2>6, <2>7
  <1>9. AnnouncedInv'
    <2> SUFFICES ASSUME NEW f \in Feeds
                 PROVE  /\ announced'[f] # None /\ answer'[f] # None => answer'[f] <= announced'[f]
                        /\ last[f] = "stored" /\ data'[f].left > 0 =>
                              /\ announced'[f] # None => data'[f].age <= announced'[f]
                              /\ Writing(f, "publish") => data'[f].age = answer'[f]
      BY <1>1 DEF AnnouncedInv, Writing
    <2>1. /\ announced'[f] = Older(announced[f]) /\ answer'[f] = Older(answer[f])
          /\ announced'[f] # None => announced[f] # None /\ announced[f] \in Age
          /\ answer'[f] # None => answer[f] # None /\ answer[f] \in Age
      BY <1>1, <1>3, OlderAge DEF MaybeAge
    <2>2. announced'[f] # None /\ answer'[f] # None => answer'[f] <= announced'[f]
      BY <2>1, OlderAge DEF IInv, AnnouncedInv
    <2>3. ASSUME last[f] = "stored", data'[f].left > 0
          PROVE  /\ announced'[f] # None => data'[f].age <= announced'[f]
                 /\ Writing(f, "publish") => data'[f].age = answer'[f]
      <3>1. data[f].left > 0 /\ data'[f].age = Older(data[f].age) /\ data[f].age \in Age
        BY <1>3, <1>4, <2>3
      <3>2. /\ announced[f] # None => data[f].age <= announced[f]
            /\ Writing(f, "publish") => data[f].age = answer[f]
        BY <2>3, <3>1 DEF IInv, AnnouncedInv
      <3> QED BY <2>1, <3>1, <3>2, OlderAge
    <2> QED BY <2>2, <2>3
  <1> QED BY <1>6, <1>7, <1>8, <1>9 DEF IInv

LEMMA NextInv == ASSUME IInv, [Next]_vars PROVE IInv'
  <1>1. CASE Poll
    BY <1>1, BeginInv, GatheredInv, EndInv, FetchInv, SkipInv, SetDataInv, PublishInv, SetStampInv
    DEF Poll
  <1>2. CASE \E f \in Feeds : Failed(f)
    BY <1>2, FetchInv
  <1>3. CASE Exit \/ Crash
    BY <1>3, EndInv DEF Exit, Crash
  <1>4. CASE Sigterm \/ Trouble
    BY <1>4, SurroundingsInv
  <1>5. CASE Tick
    BY <1>5, TickInv
  <1>6. CASE UNCHANGED vars
    BY <1>6 DEF vars, control, cycle, store, IInv, TypeOK, CycleInv, ServedInv, AnnouncedInv, Writing
  <1> QED BY <1>1, <1>2, <1>3, <1>4, <1>5, <1>6 DEF Next

-----------------------------------------------------------------------------
(* How old a timestamp can be, by the polls begun since.                    *)

InCycle == pc \in {"fetch", "write"}

\* The age of the timestamp, or the least it can be when the key has expired.
Since(f) == IF stamp[f] = None THEN TTL ELSE stamp[f]

\* The cycles begun since the timestamp, those that leave f out included.
Begun(f) ==
    IF f \in EveryOther
    THEN 2 * polls[f] + (IF odd <=> pc # "wait" THEN 1 ELSE 0)
    ELSE polls[f]

\* The longest that n cycles can take to begin one after the other.
Span(n) == n * Slowest

\* The longest from the timestamp to the beginning of the cycle under way.
Behind(f) == IF Begun(f) = 0 THEN 0 ELSE MaxCycle + Period + Span(Begun(f) - 1)

\* Until the ticker's next firing there is no more than a Period from the
\* beginning of the cycle; the first cycle has no ticker.
TimerInv ==
    /\ pc = "down" => timer = None
    /\ pc = "wait" => timer # None
    /\ timer = None => ~odd /\ ~fired
    /\ InCycle /\ timer # None /\ ~fired => elapsed + timer <= Period

\* Only what is due is fetched, and nothing has been counted before the first
\* timestamp of a process.
PollsInv ==
    /\ pc = "down" => \A f \in Feeds : polls[f] = MaxPolls
    /\ InCycle => \A f \in Feeds : f \in running \/ answer[f] # None => Due(f)
    /\ InCycle /\ timer = None => \A f \in Feeds : polls[f] < MaxPolls => polls[f] = 0

\* From a timestamp to the next cycle there is at most the rest of its own
\* and a Period, and Slowest from one beginning of a cycle to the next.
StampInv ==
    \A f \in Feeds : polls[f] < MaxPolls =>
        /\ InCycle => Since(f) <= elapsed + Behind(f)
        /\ pc = "wait" => Since(f) + (IF fired THEN 0 ELSE timer)
                             <= MaxCycle + Period + Span(Begun(f))

AlarmInv == TimerInv /\ PollsInv /\ StampInv

\* What the multiplication of Span comes to; the proofs below use only this.
LEMMA Spans ==
  /\ Slowest \in Nat /\ MaxCycle <= Slowest /\ Period <= Slowest /\ Slowest > 0
  /\ \A n \in Int : Span(n) \in Int
  /\ \A n \in Int : Span(n + 1) = Span(n) + Slowest
  /\ \A m, n \in Int : m <= n => Span(m) <= Span(n)
  /\ Span(0) = 0
  /\ \A n \in Int : 0 <= n => 0 <= Span(n)
  <1>1. Slowest \in Nat /\ MaxCycle <= Slowest /\ Period <= Slowest /\ Slowest > 0
    BY Caps DEF Slowest
  <1> HIDE DEF Slowest
  <1>2. \A n \in Int : n * Slowest \in Int
    BY <1>1
  <1>3. \A n \in Int : (n + 1) * Slowest = n * Slowest + Slowest
    BY <1>1
  <1>4. \A k \in Int : k >= 0 => k * Slowest >= 0
    BY <1>1
  <1>5. ASSUME NEW m \in Int, NEW n \in Int, m <= n
        PROVE  m * Slowest <= n * Slowest
    <2>1. (n - m) * Slowest >= 0
      BY <1>4, <1>5
    <2>2. (n - m) * Slowest = n * Slowest - m * Slowest
      BY <1>1
    <2> QED BY <1>2, <2>1, <2>2
  <1>6. 0 * Slowest = 0
    BY <1>1
  <1> QED BY <1>1, <1>2, <1>3, <1>4, <1>5, <1>6 DEF Span

\* As many polls as may fail fit below the threshold.
LEMMA Tolerates ==
  ASSUME NEW f \in Feeds
  PROVE  /\ Tolerated(f) \in Int
         /\ f \notin EveryOther =>
               Span(Tolerated(f) + 1) <= Threshold + Slowest - 2 * MaxCycle - Period
         /\ f \in EveryOther =>
               Span(2 * Tolerated(f) + 2) <= Threshold + Slowest - 2 * MaxCycle - Period
  <1> DEFINE room == Threshold + Slowest - 2 * MaxCycle - Period
             stride == IF f \in EveryOther THEN 2 * Slowest ELSE Slowest
             q == room \div stride
  <1>1. room \in Int /\ stride \in Nat /\ stride > 0 /\ Slowest \in Nat
    BY Spans, Caps
  <1>2. Tolerated(f) = q - 1
    BY DEF Tolerated
  <1>3. q \in Int /\ q * stride <= room
    <2> HIDE DEF room, stride
    <2> QED BY <1>1
  <1>4. f \notin EveryOther => Span(q) <= room
    <2> HIDE DEF room, q
    <2> QED BY <1>3 DEF Span
  <1>5. f \in EveryOther => Span(2 * q) <= room
    <2> HIDE DEF room, q
    <2>1. q * (2 * Slowest) = (2 * q) * Slowest
      BY <1>1, <1>3
    <2> QED BY <1>3, <2>1 DEF Span
  <1>6. q = Tolerated(f) + 1 /\ 2 * q = 2 * Tolerated(f) + 2 /\ Tolerated(f) \in Int
    <2> HIDE DEF q
    <2> QED BY <1>2, <1>3
  <1> QED BY <1>4, <1>5, <1>6

\* The types, as the arithmetic needs them.
LEMMA AlarmTypes ==
  ASSUME TypeOK
  PROVE  /\ elapsed \in Nat /\ elapsed <= MaxCycle
         /\ timer # None => timer \in Nat /\ timer > 0 /\ timer <= Period
         /\ \A f \in Feeds : Since(f) \in Nat /\ polls[f] \in Nat /\ Begun(f) \in Nat
         /\ pc \in {"down", "fetch", "write", "wait"}
         /\ \A f \in Feeds : stamp[f] # None => stamp[f] \in 0..(TTL - 1)
  <1>1. /\ elapsed \in Nat /\ elapsed <= MaxCycle
        /\ timer # None => timer \in Nat /\ timer > 0 /\ timer <= Period
        /\ pc \in {"down", "fetch", "write", "wait"}
        /\ \A f \in Feeds : stamp[f] # None => stamp[f] \in 0..(TTL - 1)
    BY Caps DEF TypeOK
  <1>2. ASSUME NEW f \in Feeds
        PROVE  Since(f) \in Nat /\ polls[f] \in Nat /\ Begun(f) \in Nat
    <2>1. Since(f) \in Nat
      BY Caps DEF TypeOK, Since
    <2>2. polls[f] \in Nat
      BY Caps DEF TypeOK
    <2> QED BY <2>1, <2>2 DEF Begun
  <1> QED BY <1>1, <1>2

\* Steps that begin and end no cycle, set no timestamp and take no time.
LEMMA QuietAlarm ==
  ASSUME AlarmInv, UNCHANGED <<odd, timer, fired, elapsed, stamp, polls>>,
         pc' = pc \/ (pc = "fetch" /\ pc' = "write"),
         InCycle => \A f \in Feeds : f \in running' \/ answer'[f] # None
                                        => f \in running \/ answer[f] # None
  PROVE  AlarmInv'
  <1>1. /\ InCycle' <=> InCycle
        /\ pc' = "wait" <=> pc = "wait"
        /\ pc' = "down" <=> pc = "down"
    BY DEF InCycle
  <1>2. \A f : /\ Since(f)' = Since(f) /\ Begun(f)' = Begun(f) /\ Behind(f)' = Behind(f)
               /\ Due(f)' <=> Due(f)
    BY <1>1 DEF Since, Begun, Behind, Due
  <1>3. TimerInv'
    BY <1>1 DEF AlarmInv, TimerInv
  <1>4. PollsInv'
    BY <1>1, <1>2 DEF AlarmInv, PollsInv
  <1>5. StampInv'
    BY <1>1, <1>2 DEF AlarmInv, StampInv
  <1> QED BY <1>3, <1>4, <1>5 DEF AlarmInv

\* A cycle begins, with the first poll of a process or a firing.
LEMMA BeginAlarm ==
  ASSUME IInv, AlarmInv, Start \/ TickerFires
  PROVE  AlarmInv'
  <1>1. /\ pc' = "fetch" /\ InCycle' /\ ~InCycle /\ PollAll
        /\ UNCHANGED <<odd, timer, elapsed, answer, stamp>>
        /\ \/ pc = "down" /\ fired' = fired
           \/ pc = "wait" /\ fired /\ fired' = FALSE
    BY DEF Start, TickerFires, InCycle, store
  <1>2. elapsed = 0 /\ answer = Nothing
    BY <1>1 DEF IInv, CycleInv
  <1>3. /\ timer # None => timer \in Nat /\ timer > 0 /\ timer <= Period
        /\ \A f \in Feeds : Since(f) \in Nat /\ polls[f] \in Nat /\ Begun(f) \in Nat
        /\ MaxPolls \in Nat /\ Period \in Nat
    BY AlarmTypes, Caps DEF IInv
  <1>4. \A f \in Feeds : polls'[f] = IF Due(f) /\ polls[f] < MaxPolls THEN polls[f] + 1 ELSE polls[f]
    BY <1>1 DEF PollAll
  <1>5. TimerInv'
    BY <1>1, <1>2, <1>3 DEF AlarmInv, TimerInv
  <1>6. PollsInv'
    <2>1. \A f \in Feeds : f \in running' \/ answer'[f] # None => Due(f)'
      BY <1>1, <1>2 DEF PollAll, Nothing, Due
    <2>2. ASSUME timer' = None PROVE \A f \in Feeds : polls'[f] = MaxPolls
      <3>1. pc = "down"
        BY <1>1, <2>2 DEF AlarmInv, TimerInv
      <3> QED BY <1>3, <1>4, <3>1 DEF AlarmInv, PollsInv
    <2> QED BY <1>1, <1>3, <2>1, <2>2 DEF PollsInv
  <1>7. StampInv'
    <2> SUFFICES ASSUME NEW f \in Feeds, polls'[f] < MaxPolls
                 PROVE  Since(f)' <= elapsed' + Behind(f)'
      BY <1>1 DEF StampInv
    <2>1. polls[f] < MaxPolls /\ pc = "wait" /\ fired
      BY <1>1, <1>3, <1>4 DEF AlarmInv, PollsInv
    <2>2. Since(f)' = Since(f)
      BY <1>1 DEF Since
    <2>3. Since(f) <= MaxCycle + Period + Span(Begun(f))
      <3>1. Since(f) + 0 <= MaxCycle + Period + Span(Begun(f))
        BY <2>1 DEF AlarmInv, StampInv
      <3>2. Since(f) + 0 = Since(f)
        BY <1>3
      <3> QED BY <3>1, <3>2
    <2>4. Begun(f)' = Begun(f) + 1
      <3>1. CASE f \notin EveryOther
        BY <1>3, <1>4, <2>1, <3>1 DEF Begun, Due
      <3>2. CASE f \in EveryOther
        BY <1>1, <1>3, <1>4, <2>1, <3>2 DEF Begun, Due
      <3> QED BY <3>1, <3>2
    <2>5. Begun(f)' # 0 /\ Begun(f)' - 1 = Begun(f)
      BY <1>3, <2>4
    <2>6. Span(Begun(f)) \in Int /\ MaxCycle \in Nat
      BY <1>3, Spans, Caps
    <2>7. elapsed' = 0 /\ Behind(f)' = MaxCycle + Period + Span(Begun(f))
      BY <1>1, <1>2, <2>5 DEF Behind
    <2> QED BY <1>3, <2>2, <2>3, <2>6, <2>7
  <1> QED BY <1>5, <1>6, <1>7 DEF AlarmInv

\* A timestamp is set by a poll that was due.
LEMMA StampAlarm ==
  ASSUME IInv, AlarmInv, NEW f \in Feeds, SetStamp(f)
  PROVE  AlarmInv'
  <1>1. /\ pc = "write" /\ answer[f] # None /\ InCycle
        /\ UNCHANGED <<control, elapsed, running, answer>>
    BY DEF SetStamp, Writing, IInv, CycleInv, InCycle
  <1>2. CASE UNCHANGED <<stamp, polls>>
    BY <1>1, <1>2, QuietAlarm DEF control
  <1>3. CASE stamp' = [stamp EXCEPT ![f] = 0] /\ polls' = [polls EXCEPT ![f] = 0]
    <2>1. InCycle' /\ pc' = "write"
      BY <1>1 DEF InCycle, control
    <2>2. /\ \A g \in Feeds : g # f => polls'[g] = polls[g] /\ stamp'[g] = stamp[g]
          /\ polls'[f] = 0 /\ stamp'[f] = 0
      BY <1>3 DEF IInv, TypeOK
    <2>3. TimerInv'
      BY <1>1, <2>1 DEF AlarmInv, TimerInv, control, InCycle
    <2>4. PollsInv'
      BY <1>1, <2>1, <2>2 DEF AlarmInv, PollsInv, control, Due
    <2>5. StampInv'
      <3> SUFFICES ASSUME NEW g \in Feeds, polls'[g] < MaxPolls
                   PROVE  Since(g)' <= elapsed' + Behind(g)'
        BY <2>1 DEF StampInv
      <3>1. CASE g # f
        <4>1. Since(g)' = Since(g) /\ Begun(g)' = Begun(g) /\ polls[g] < MaxPolls
          BY <1>1, <2>2, <3>1 DEF Since, Begun, control
        <4>2. Since(g) <= elapsed + Behind(g)
          BY <1>1, <4>1 DEF AlarmInv, StampInv
        <4>3. elapsed' = elapsed /\ Behind(g)' = Behind(g)
          BY <1>1, <4>1 DEF Behind
        <4> QED BY <4>1, <4>2, <4>3
      <3>2. CASE g = f
        <4>1. Due(g)
          BY <1>1, <3>2 DEF AlarmInv, PollsInv
        <4>2. Begun(g)' = 0
          BY <1>1, <2>2, <3>2, <4>1 DEF Begun, Due, control
        <4>3. Since(g)' = 0
          BY <2>2, <3>2, Caps DEF Since
        <4>4. elapsed \in Nat /\ elapsed' = elapsed
          BY <1>1, AlarmTypes DEF IInv
        <4>5. Behind(g)' = 0
          BY <4>2 DEF Behind
        <4>6. 0 <= elapsed + 0
          BY <4>4
        <4> QED BY <4>3, <4>4, <4>5, <4>6, Zenon
      <3> QED BY <3>1, <3>2
    <2> QED BY <2>3, <2>4, <2>5 DEF AlarmInv
  <1> QED BY <1>2, <1>3 DEF SetStamp

\* At the end of a cycle there is at most a Period to wait.
LEMMA EndAlarm ==
  ASSUME IInv, AlarmInv, EndCycle
  PROVE  AlarmInv'
  <1>1. /\ pc = "write" /\ pc' = "wait" /\ InCycle /\ ~InCycle'
        /\ odd' = ~odd /\ timer' = (IF timer = None THEN Period ELSE timer)
        /\ UNCHANGED <<fired, stamp, polls>>
    BY DEF EndCycle, InCycle, store
  <1>2. /\ elapsed \in Nat /\ elapsed <= MaxCycle
        /\ timer # None => timer \in Nat /\ timer > 0 /\ timer <= Period
        /\ \A f \in Feeds : Since(f) \in Nat /\ polls[f] \in Nat /\ Begun(f) \in Nat
        /\ MaxCycle \in Nat /\ Period \in Nat /\ Period > 0 /\ None \notin Nat
    BY AlarmTypes, Caps DEF IInv
  <1>3. timer' # None /\ timer' \in Nat /\ timer' <= Period
    BY <1>1, <1>2
  <1>4. TimerInv'
    BY <1>1, <1>3 DEF TimerInv
  <1>5. PollsInv'
    BY <1>1 DEF PollsInv
  <1>6. StampInv'
    <2> SUFFICES ASSUME NEW f \in Feeds, polls[f] < MaxPolls
                 PROVE  Since(f) + (IF fired THEN 0 ELSE timer') <= MaxCycle + Period + Span(Begun(f))
      <3>1. \A g \in Feeds : Since(g)' = Since(g) /\ Begun(g)' = Begun(g)
        <4>1. odd \in BOOLEAN /\ ((odd' <=> pc' # "wait") <=> (odd <=> pc # "wait"))
          BY <1>1 DEF IInv, TypeOK
        <4> QED BY <1>1, <4>1 DEF Since, Begun
      <3> QED BY <1>1, <3>1 DEF StampInv
    <2>1. Since(f) <= elapsed + Behind(f)
      BY <1>1 DEF AlarmInv, StampInv
    <2>2. CASE Begun(f) = 0
      <3>1. Since(f) <= elapsed /\ Span(Begun(f)) = 0
        BY <1>2, <2>1, <2>2, Spans DEF Behind
      <3> QED BY <1>2, <1>3, <3>1
    <2>3. CASE Begun(f) # 0
      <3>1. timer # None
        <4> SUFFICES ASSUME timer = None PROVE FALSE
          OBVIOUS
        <4>1. polls[f] = 0 /\ ~odd
          BY <1>1 DEF AlarmInv, PollsInv, TimerInv
        <4>2. Begun(f) = 0
          BY <1>1, <4>1 DEF Begun
        <4> QED BY <2>3, <4>2
      <3>2. elapsed + (IF fired THEN 0 ELSE timer') <= Slowest
        <4>1. CASE fired
          BY <1>2, <4>1, Spans
        <4>2. CASE ~fired
          <5>1. elapsed + timer <= Period
            BY <1>1, <3>1, <4>2 DEF AlarmInv, TimerInv
          <5> QED BY <1>1, <1>2, <3>1, <4>2, <5>1, Spans
        <4> QED BY <4>1, <4>2
      <3>3. Since(f) <= elapsed + (MaxCycle + Period + Span(Begun(f) - 1))
        BY <2>1, <2>3 DEF Behind
      <3>4. Span(Begun(f)) = Span(Begun(f) - 1) + Slowest /\ Span(Begun(f) - 1) \in Int
        <4>1. Begun(f) - 1 \in Int /\ Begun(f) = (Begun(f) - 1) + 1
          BY <1>2
        <4> HIDE DEF Slowest
        <4> QED BY <4>1, Spans
      <3>5. (IF fired THEN 0 ELSE timer') \in Nat /\ Slowest \in Nat
        BY <1>3, Spans
      <3> QED BY <1>2, <3>2, <3>3, <3>4, <3>5
    <2> QED BY <2>2, <2>3
  <1> QED BY <1>4, <1>5, <1>6 DEF AlarmInv

\* A process that ends knows of no timestamp.
LEMMA GoneAlarm ==
  ASSUME IInv, Gone
  PROVE  AlarmInv'
  <1>1. pc' = "down" /\ timer' = None /\ ~odd' /\ ~fired' /\ ~InCycle' /\ pc' # "wait"
    BY DEF Gone, InCycle
  <1>2. \A f \in Feeds : polls'[f] = MaxPolls
    BY DEF Gone
  <1>3. TimerInv' /\ PollsInv'
    BY <1>1, <1>2 DEF TimerInv, PollsInv
  <1>4. StampInv'
    BY <1>1 DEF StampInv
  <1> QED BY <1>3, <1>4 DEF AlarmInv

\* Time adds to the age of a timestamp what it adds to the cycle, or takes
\* from the time until the ticker fires.
LEMMA TickAlarm ==
  ASSUME IInv, AlarmInv, Tick
  PROVE  AlarmInv'
  <1>1. /\ UNCHANGED <<pc, odd, running, polls>>
        /\ stamp' = [f \in Feeds |-> Aged(stamp[f])]
        /\ answer' = [f \in Feeds |-> Older(answer[f])]
        /\ timer' = CASE timer = None -> None [] timer = 1 -> Period [] OTHER -> timer - 1
        /\ fired' = (fired \/ timer = 1)
        /\ InCycle' <=> InCycle
    BY DEF Tick, InCycle
  <1>2. /\ elapsed \in Nat
        /\ timer # None => timer \in Nat /\ timer > 0 /\ timer <= Period
        /\ \A f \in Feeds : Since(f) \in Nat /\ Begun(f) \in Nat
        /\ pc \in {"down", "fetch", "write", "wait"}
        /\ MaxCycle \in Nat /\ Period \in Nat /\ Period > 0 /\ None \notin Nat
        /\ fired \in BOOLEAN
    <2>1. fired \in BOOLEAN
      BY DEF IInv, TypeOK
    <2> QED BY <2>1, AlarmTypes, Caps DEF IInv
  <1>3. /\ InCycle => elapsed' = elapsed + 1
        /\ pc = "wait" => ~fired
    BY DEF Tick, InCycle
  <1>4. /\ timer = None => timer' = None /\ fired' = fired
        /\ timer # None => timer' # None
        /\ timer # None /\ ~fired' => ~fired /\ timer' = timer - 1
    <2>1. CASE timer = None
      BY <1>1, <1>2, <2>1
    <2>2. CASE timer # None /\ timer = 1
      BY <1>1, <1>2, <2>2
    <2>3. CASE timer # None /\ timer # 1
      <3>1. timer' = timer - 1 /\ fired' = fired
        <4>1. timer' = timer - 1
          BY <1>1, <2>3
        <4>2. fired' = fired
          BY <1>1, <1>2, <2>3, Zenon
        <4> QED BY <4>1, <4>2
      <3>2. timer' \in Nat
        BY <1>2, <2>3, <3>1
      <3> QED BY <1>2, <2>3, <3>1, <3>2
    <2> QED BY <2>1, <2>2, <2>3
  <1>5. \A f \in Feeds : Since(f)' \in Nat /\ Since(f)' <= Since(f) + 1 /\ Begun(f)' = Begun(f)
    <2> TAKE f \in Feeds
    <2>1. Begun(f)' = Begun(f)
      BY <1>1 DEF Begun
    <2>2. stamp'[f] = Aged(stamp[f])
      BY <1>1
    <2>3. CASE stamp[f] = None
      <3>1. Since(f) = TTL /\ Since(f)' = TTL
        BY <2>2, <2>3 DEF Since, Aged
      <3> QED BY <2>1, <3>1, Caps
    <2>4. CASE stamp[f] # None
      <3>1. stamp[f] \in Nat /\ Since(f) = stamp[f]
        BY <2>4, AlarmTypes, Caps DEF IInv, Since
      <3>2. CASE stamp[f] + 1 < TTL
        <4>1. stamp'[f] = stamp[f] + 1 /\ stamp'[f] # None
          BY <1>2, <2>2, <2>4, <3>1, <3>2 DEF Aged
        <4> QED BY <2>1, <3>1, <4>1 DEF Since
      <3>3. CASE ~(stamp[f] + 1 < TTL)
        <4>1. Since(f)' = TTL
          BY <2>2, <2>4, <3>3 DEF Aged, Since
        <4> QED BY <2>1, <3>1, <3>3, <4>1, Caps
      <3> QED BY <3>2, <3>3
    <2> QED BY <2>3, <2>4
  <1>6. TimerInv'
    <2>1. ASSUME InCycle', timer' # None, ~fired'
          PROVE  elapsed' + timer' <= Period
      <3>1. timer # None /\ ~fired /\ timer' = timer - 1 /\ elapsed' = elapsed + 1 /\ InCycle
        BY <1>1, <1>3, <1>4, <2>1
      <3>2. elapsed + timer <= Period
        BY <3>1 DEF AlarmInv, TimerInv
      <3> QED BY <1>2, <3>1, <3>2
    <2> QED BY <1>1, <1>4, <2>1 DEF AlarmInv, TimerInv
  <1>7. PollsInv'
    <2>1. \A f \in Feeds : answer'[f] # None => answer[f] # None
      BY <1>1, OlderAge
    <2> QED BY <1>1, <1>4, <2>1 DEF AlarmInv, PollsInv, Due
  <1>8. StampInv'
    <2> SUFFICES ASSUME NEW f \in Feeds, polls[f] < MaxPolls
                 PROVE  /\ InCycle => Since(f)' <= elapsed' + Behind(f)
                        /\ pc = "wait" => Since(f)' + (IF fired' THEN 0 ELSE timer')
                             <= MaxCycle + Period + Span(Begun(f))
      BY <1>1, <1>5 DEF StampInv, Behind
    <2>1. ASSUME InCycle
          PROVE  Since(f)' <= elapsed' + Behind(f)
      <3>1. Behind(f) \in Int
        <4>1. Begun(f) - 1 \in Int
          BY <1>2
        <4>2. Span(Begun(f) - 1) \in Int
          BY <4>1, Spans
        <4> QED BY <1>2, <4>2 DEF Behind
      <3>2. Since(f) <= elapsed + Behind(f)
        BY <2>1 DEF AlarmInv, StampInv
      <3> QED BY <1>2, <1>3, <1>5, <2>1, <3>1, <3>2
    <2>2. ASSUME pc = "wait"
          PROVE  Since(f)' + (IF fired' THEN 0 ELSE timer') <= MaxCycle + Period + Span(Begun(f))
      <3> DEFINE most == MaxCycle + Period + Span(Begun(f))
      <3>1. most \in Int
        BY <1>2, Spans
      <3>2. timer # None /\ ~fired /\ Since(f) + timer <= most
        BY <1>3, <2>2 DEF AlarmInv, TimerInv, StampInv
      <3> HIDE DEF most
      <3>3. CASE fired'
        <4>1. Since(f) + 1 <= most
          BY <1>2, <3>1, <3>2
        <4> QED BY <1>2, <1>5, <3>1, <3>3, <4>1 DEF most
      <3>4. CASE ~fired'
        <4>1. timer' = timer - 1
          BY <1>4, <3>2, <3>4
        <4>2. Since(f)' + timer' <= most
          BY <1>2, <1>5, <3>1, <3>2, <4>1
        <4> QED BY <3>4, <4>2 DEF most
      <3> QED BY <3>3, <3>4
    <2> QED BY <2>1, <2>2
  <1> QED BY <1>6, <1>7, <1>8 DEF AlarmInv

\* AlarmInv is kept by every step, beside IInv.
LEMMA NextAlarm ==
  ASSUME IInv, AlarmInv, [Next]_vars
  PROVE  AlarmInv'
  <1>1. ASSUME NEW f \in Feeds, Answered(f) \/ Parsed(f) \/ Failed(f)
        PROVE  AlarmInv'
    <2>1. /\ f \in running /\ running' \subseteq running
          /\ UNCHANGED <<control, elapsed, store, polls>>
      BY <1>1 DEF Answered, Parsed, Failed
    <2>2. \A g \in Feeds : g # f => answer'[g] = answer[g]
      BY <1>1 DEF Answered, Parsed, Failed, IInv, TypeOK
    <2> QED BY <2>1, <2>2, QuietAlarm DEF control, store
  <1>2. ASSUME NEW f \in Feeds, Skip(f) \/ SetData(f) \/ Publish(f)
        PROVE  AlarmInv'
    BY <1>2, QuietAlarm DEF Skip, SetData, Publish, control, store
  <1>3. CASE Gathered \/ Sigterm \/ Trouble \/ UNCHANGED vars
    BY <1>3, QuietAlarm DEF Gathered, Sigterm, Trouble, vars, control, cycle, store
  <1>4. CASE Exit \/ Crash
    BY <1>4, GoneAlarm DEF Exit, Crash
  <1> QED BY <1>1, <1>2, <1>3, <1>4, BeginAlarm, StampAlarm, EndAlarm, TickAlarm DEF Next, Poll

\* At the start nothing is counted against any feed.
LEMMA InitAlarm == Init => AlarmInv
  BY DEF Init, AlarmInv, TimerInv, PollsInv, StampInv, InCycle

\* As long as no more polls have failed than may fail, the timestamp is below
\* the threshold.
LEMMA NoAlarmYet == ASSUME IInv, AlarmInv PROVE NoFalseAlarm
  <1> SUFFICES ASSUME NEW f \in Feeds,
                      polls[f] <= Tolerated(f) \/ (polls[f] = Tolerated(f) + 1 /\ InFlight(f))
               PROVE  Check(f) = "ok"
    BY DEF NoFalseAlarm
  <1>1. /\ elapsed \in Nat /\ elapsed <= MaxCycle /\ Since(f) \in Nat
        /\ polls[f] \in Nat /\ Begun(f) \in Nat /\ Tolerated(f) \in Int
        /\ timer # None => timer \in Nat
        /\ pc \in {"down", "fetch", "write", "wait"}
        /\ MaxCycle \in Nat /\ Period \in Nat /\ Slowest \in Nat
        /\ Threshold \in Nat /\ TTL \in Nat /\ Threshold < TTL
    <2>1. /\ elapsed \in Nat /\ elapsed <= MaxCycle /\ Since(f) \in Nat
          /\ polls[f] \in Nat /\ Begun(f) \in Nat
          /\ timer # None => timer \in Nat
          /\ pc \in {"down", "fetch", "write", "wait"}
      BY AlarmTypes DEF IInv
    <2>2. Tolerated(f) \in Int /\ Slowest \in Nat
      BY Tolerates, Spans
    <2>3. /\ MaxCycle \in Nat /\ Period \in Nat
          /\ Threshold \in Nat /\ TTL \in Nat /\ Threshold < TTL
      BY Caps
    <2> QED BY <2>1, <2>2, <2>3
  <1> HIDE DEF Slowest
  <1>2. polls[f] < MaxPolls
    BY <1>1, PollsAssumption, Caps
  <1>3. pc # "down"
    BY <1>1, <1>2, Caps DEF AlarmInv, PollsInv
  <1>4. CASE InCycle
    <2>1. Since(f) <= elapsed + Behind(f)
      BY <1>2, <1>4 DEF AlarmInv, StampInv
    <2>2. CASE Begun(f) = 0
      <3>1. Tolerated(f) + 1 >= 0
        BY <1>1
      <3>2. 0 <= Threshold + Slowest - 2 * MaxCycle - Period
        <4> DEFINE m == Tolerated(f) + 1
                   n == 2 * Tolerated(f) + 2
        <4>1. m \in Int /\ n \in Int /\ 0 <= m /\ 0 <= n
          BY <1>1, <3>1
        <4>2. /\ f \notin EveryOther => Span(m) <= Threshold + Slowest - 2 * MaxCycle - Period
              /\ f \in EveryOther => Span(n) <= Threshold + Slowest - 2 * MaxCycle - Period
          BY Tolerates
        <4> HIDE DEF m, n
        <4>3. 0 <= Span(m) /\ 0 <= Span(n) /\ Span(m) \in Int /\ Span(n) \in Int
          BY <4>1, Spans
        <4> QED BY <1>1, <4>2, <4>3
      <3>3. Slowest = MaxCycle \/ Slowest = Period
        BY DEF Slowest
      <3>4. Since(f) <= elapsed
        BY <1>1, <2>1, <2>2 DEF Behind
      <3>5. Since(f) <= Threshold
        BY <1>1, <3>2, <3>3, <3>4
      <3> QED BY <1>1, <3>5 DEF Check, Since
    <2>3. CASE Begun(f) # 0
      <3>0. Begun(f) - 1 \in Int /\ Span(Begun(f) - 1) \in Int
        <4>1. Begun(f) - 1 \in Int
          BY <1>1
        <4> QED BY <4>1, Spans
      <3>1. Since(f) <= MaxCycle + (MaxCycle + Period + Span(Begun(f) - 1))
        <4>1. Since(f) <= elapsed + (MaxCycle + Period + Span(Begun(f) - 1))
          BY <2>1, <2>3 DEF Behind
        <4> QED BY <1>1, <3>0, <4>1
      <3>2. Span(Begun(f) - 1) + Slowest <= Threshold + Slowest - 2 * MaxCycle - Period
        <4>1. Begun(f) - 1 \in Int /\ Span(Begun(f)) = Span(Begun(f) - 1) + Slowest
          <5>1. Begun(f) - 1 \in Int /\ Begun(f) = (Begun(f) - 1) + 1
            BY <1>1
          <5> QED BY <5>1, Spans
        <4>2. CASE f \notin EveryOther
          <5>1. Begun(f) <= Tolerated(f) + 1
            BY <1>1, <4>2 DEF Begun
          <5>2. Span(Begun(f)) <= Span(Tolerated(f) + 1) /\ Span(Tolerated(f) + 1) \in Int
            <6>1. Tolerated(f) + 1 \in Int
              BY <1>1
            <6> QED BY <1>1, <5>1, <6>1, Spans
          <5>3. Span(Tolerated(f) + 1) <= Threshold + Slowest - 2 * MaxCycle - Period
            BY <4>2, Tolerates
          <5> QED BY <1>1, <3>0, <4>1, <5>2, <5>3
        <4>3. CASE f \in EveryOther
          <5>1. Begun(f) <= 2 * Tolerated(f) + 2
            BY <1>1, <1>4, <4>3 DEF Begun, InFlight, Due, InCycle
          <5>2. Span(Begun(f)) <= Span(2 * Tolerated(f) + 2) /\ Span(2 * Tolerated(f) + 2) \in Int
            <6>1. 2 * Tolerated(f) + 2 \in Int
              BY <1>1
            <6> QED BY <1>1, <5>1, <6>1, Spans
          <5>3. Span(2 * Tolerated(f) + 2) <= Threshold + Slowest - 2 * MaxCycle - Period
            BY <4>3, Tolerates
          <5> QED BY <1>1, <3>0, <4>1, <5>2, <5>3
        <4> QED BY <4>2, <4>3
      <3>3. Since(f) <= Threshold
        BY <1>1, <3>0, <3>1, <3>2
      <3> QED BY <1>1, <3>3 DEF Check, Since
    <2> QED BY <2>2, <2>3
  <1>5. CASE pc = "wait"
    <2>1. Since(f) <= MaxCycle + Period + Span(Begun(f))
      <3>1. /\ Since(f) + (IF fired THEN 0 ELSE timer) <= MaxCycle + Period + Span(Begun(f))
            /\ timer # None
        BY <1>2, <1>5 DEF AlarmInv, StampInv, TimerInv
      <3>2. Span(Begun(f)) \in Int
        BY <1>1, Spans
      <3> QED BY <1>1, <3>1, <3>2
    <2>2. polls[f] <= Tolerated(f)
      BY <1>5 DEF InFlight
    <2>3. Span(Begun(f)) + Slowest <= Threshold + Slowest - 2 * MaxCycle - Period
      <3>1. Span(Begun(f) + 1) = Span(Begun(f)) + Slowest
        BY <1>1, Spans
      <3>2. CASE f \notin EveryOther
        <4>1. Begun(f) + 1 <= Tolerated(f) + 1
          BY <1>1, <2>2, <3>2 DEF Begun
        <4>2. Begun(f) + 1 \in Int /\ Tolerated(f) + 1 \in Int
          BY <1>1
        <4>3. Span(Begun(f) + 1) <= Span(Tolerated(f) + 1) /\ Span(Begun(f)) \in Int /\ Span(Tolerated(f) + 1) \in Int
          BY <1>1, <4>1, <4>2, Spans
        <4>4. Span(Tolerated(f) + 1) <= Threshold + Slowest - 2 * MaxCycle - Period
          BY <3>2, Tolerates
        <4> QED BY <1>1, <3>1, <4>3, <4>4
      <3>3. CASE f \in EveryOther
        <4>1. Begun(f) + 1 <= 2 * Tolerated(f) + 2
          BY <1>1, <2>2, <3>3 DEF Begun
        <4>2. Begun(f) + 1 \in Int /\ 2 * Tolerated(f) + 2 \in Int
          BY <1>1
        <4>3. Span(Begun(f) + 1) <= Span(2 * Tolerated(f) + 2) /\ Span(Begun(f)) \in Int /\ Span(2 * Tolerated(f) + 2) \in Int
          BY <1>1, <4>1, <4>2, Spans
        <4>4. Span(2 * Tolerated(f) + 2) <= Threshold + Slowest - 2 * MaxCycle - Period
          BY <3>3, Tolerates
        <4> QED BY <1>1, <3>1, <4>3, <4>4
      <3> QED BY <3>2, <3>3
    <2>4. Since(f) <= Threshold
      <3>1. Span(Begun(f)) \in Int
        BY <1>1, Spans
      <3> QED BY <1>1, <2>1, <2>3, <3>1
    <2> QED BY <1>1, <2>4 DEF Check, Since
  <1> QED BY <1>1, <1>3, <1>4, <1>5 DEF InCycle

-----------------------------------------------------------------------------
(* The theorems.                                                            *)

\* IInv is inductive: it holds in every reachable state.
THEOREM Invariance == Spec => []IInv
  BY InitInv, NextInv, PTL DEF Spec

\* Every variable keeps its type: no age, no time left and no position of the
\* loop leaves its range.
THEOREM TypeCorrect == Spec => []TypeOK
  <1>1. IInv => TypeOK
    BY DEF IInv
  <1> QED BY <1>1, Invariance, PTL

\* A feed health calls ok, and whose last write succeeded, is in Redis and at
\* most a cycle older than health says, whatever the feeds and the times.
THEOREM OkServes == Spec => []OkMeansServed
  <1>1. ASSUME IInv PROVE OkMeansServed
    <2> SUFFICES ASSUME NEW f \in Feeds, Check(f) = "ok", last[f] = "stored"
                 PROVE  data[f].left > 0 /\ data[f].age <= stamp[f] + MaxCycle
      BY DEF OkMeansServed
    <2>1. stamp[f] # None /\ ~(stamp[f] > Threshold)
      BY DEF Check
    <2>2. stamp[f] \in Nat /\ data[f].left \in Nat
      BY <1>1, <2>1, Caps DEF IInv, TypeOK
    <2>3. data[f].left # 0
      BY <1>1, <2>1, <2>2, Caps DEF IInv, ServedInv
    <2> QED BY <1>1, <2>1, <2>2, <2>3 DEF IInv, ServedInv
  <1> QED BY <1>1, Invariance, PTL

\* What NATS has announced is in Redis or newer contents are, as long as the
\* last write of the feed succeeded.
THEOREM AnnouncedCached == Spec => []AnnouncedIsCached
  <1>1. IInv => AnnouncedIsCached
    BY DEF IInv, AnnouncedInv, AnnouncedIsCached
  <1> QED BY <1>1, Invariance, PTL

\* Health raises no false alarm, whatever the times, the feeds and the number
\* of polls: while no more polls of a feed have failed than fit below the
\* threshold, it is ok.
THEOREM NoAlarm == Spec => []NoFalseAlarm
  <1>1. Spec => []AlarmInv
    BY InitAlarm, NextAlarm, Invariance, PTL DEF Spec
  <1> QED BY <1>1, NoAlarmYet, Invariance, PTL
=============================================================================
