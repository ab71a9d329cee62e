------------------------- MODULE StaticClientProofs -------------------------
(***************************************************************************)
(* What the board that ScheduleForStop answers says, and what departures-  *)
(* api makes of it, for any timetables, calendar, requests and number of   *)
(* refreshes: boards list departures, each once, and of the service days   *)
(* that are tried none is forgotten; browsers find every train; the cache  *)
(* holds nothing but what a timetable says, and the answer has each        *)
(* train's next call at the destination.                                   *)
(***************************************************************************)
EXTENDS StaticClient, CalendarProofs

\* The assumptions on a board, as the proofs below use them.
LEMMA Bounds == LookAhead \in Nat /\ LookAhead <= 22 /\ MaxResults \in Nat
BY ScheduleAssumption

-----------------------------------------------------------------------------
(* The loop of Deduplicate.                                                 *)

State(C) ==
    [trips : SUBSET {c.trip.number : c \in C}, lines : SUBSET {Line(c) : c \in C}, list : Seq(C)]

\* A step of the loop leaves sets of numbers and lines, and a list.
LEMMA KeepTyped ==
  ASSUME NEW C, NEW a \in State(C), NEW c \in C
  PROVE  Keep(a, c) \in State(C)
<1> DEFINE N == {d.trip.number : d \in C}
           L == {Line(d) : d \in C}
<1>1. /\ a = [trips |-> a.trips, lines |-> a.lines, list |-> a.list]
      /\ a.trips \subseteq N /\ a.lines \subseteq L /\ a.list \in Seq(C)
  BY DEF State
<1>2. c.trip.number \in N /\ Line(c) \in L
  OBVIOUS
<1>3. Append(a.list, c) \in Seq(C)
  BY <1>1
<1> HIDE DEF N, L
<1>4. [trips |-> a.trips \cup {c.trip.number}, lines |-> a.lines \cup {Line(c)}, list |-> Append(a.list, c)]
          \in [trips : SUBSET N, lines : SUBSET L, list : Seq(C)]
  BY <1>1, <1>2, <1>3
<1>5. [a EXCEPT !.trips = @ \cup {c.trip.number}] \in [trips : SUBSET N, lines : SUBSET L, list : Seq(C)]
  BY <1>1, <1>2
<1> QED BY <1>4, <1>5 DEF State, Keep, N, L

\* The loop goes from Nobody by Keep to the answer.
LEMMA Loop ==
  ASSUME NEW C, NEW s \in Seq(C)
  PROVE  \E f \in [0..Len(s) -> State(C)] :
           /\ Deduplicate(s) = f[Len(s)].list
           /\ f[0] = Nobody
           /\ \A i \in 1..Len(s) : f[i] = Keep(f[i - 1], s[i])
<1> DEFINE n == Len(s)
           F == [i \in 1..n |-> [v \in State(C) |-> Keep(v, s[i])]]
           unfold(f) == [i \in 0..Len(s) |-> IF i = 0 THEN Nobody ELSE Keep(f[i - 1], s[i])]
           loop == CHOOSE f : f = unfold(f)
           V == State(C)
<1>1. n \in Nat /\ Nobody \in V /\ F \in [1..n -> [V -> V]]
  <2>1. Nobody \in State(C)
    BY DEF Nobody, State
  <2>2. \A i \in 1..n : s[i] \in C
    OBVIOUS
  <2>3. \A v \in State(C) : \A i \in 1..n : Keep(v, s[i]) \in State(C)
    BY KeepTyped, <2>2
  <2> QED BY <2>1, <2>3
<1>2. PICK f \in [0..n -> V] : Unrolls(f, n, Nobody, F)
  <2> HIDE DEF F, n, V
  <2> QED BY <1>1, Recursion
<1>3. f = unfold(f)
  <2>1. \A i \in 1..n : f[i] = Keep(f[i - 1], s[i])
    <3> TAKE i \in 1..n
    <3>1. f[i - 1] \in V
      BY <1>1
    <3> QED BY <1>2, <3>1 DEF Unrolls
  <2> DEFINE g == unfold(f)
  <2>2. \A i \in 0..n : f[i] = g[i]
    <3> HIDE DEF F, V
    <3>1. \A i \in 0..n : i = 0 \/ i \in 1..n
      BY <1>1
    <3> QED BY <1>2, <2>1, <3>1 DEF Unrolls
  <2>3. g = [i \in 0..n |-> g[i]]
    OBVIOUS
  <2> HIDE DEF V, n, g
  <2>4. f = g
    BY <2>2, <2>3
  <2> QED BY <2>4 DEF g
<1>4. loop = unfold(loop)
  <2> HIDE DEF unfold
  <2> QED BY <1>3
<1>5. Deduplicate(s) = loop[Len(s)].list
  BY Zenon DEF Deduplicate
<1>6. /\ loop[0] = Nobody
      /\ \A i \in 1..Len(s) : loop[i] = Keep(loop[i - 1], s[i])
  <2> HIDE DEF loop
  <2> QED BY <1>1, <1>4
<1>7. loop \in [0..Len(s) -> State(C)]
  <2>1. \A i \in 0..Len(s) : loop[i] \in State(C)
    <3> DEFINE T == {i \in 0..Len(s) : loop[i] \in State(C)}
    <3>1. 0 \in T
      BY <1>1, <1>6
    <3>2. \A i \in 0..(Len(s) - 1) : i \in T => i + 1 \in T
      <4> TAKE i \in 0..(Len(s) - 1)
      <4>1. loop[i + 1] = Keep(loop[i], s[i + 1]) /\ s[i + 1] \in C
        <5> HIDE DEF loop
        <5> QED BY <1>1, <1>6
      <4> HIDE DEF loop
      <4> QED BY <4>1, KeepTyped, <1>1
    <3> HIDE DEF T
    <3>3. \A i \in 0..Len(s) : i \in T
      BY <1>1, <3>1, <3>2, Induct
    <3> QED BY <3>3 DEF T
  <2> HIDE DEF loop
  <2> QED BY <1>4, <2>1
<1> HIDE DEF loop
<1> QED BY <1>5, <1>6, <1>7

\* By the time of departure.
InOrder(s) == \A i, j \in DOMAIN s : i < j => Leaves(s[i]) <= Leaves(s[j])

\* s[j] is on the list, or one of its line is, or of the line of one of its
\* number that came before it; or the list is full of earlier ones.
Settled(a, s, j) ==
    \/ \E m \in 1..j : s[m].trip.number = s[j].trip.number /\ Line(s[m]) \in a.lines
    \/ /\ Len(a.list) = MaxResults
       /\ \A k \in DOMAIN a.list : Leaves(a.list[k]) <= Leaves(s[j])

\* No two of a list have a number or a line in common.
Distinct(list) ==
    \A k, l \in DOMAIN list : k < l =>
        list[k].trip.number # list[l].trip.number /\ Line(list[k]) # Line(list[l])

\* The state of the loop after i candidates.
Faithful(a, s, i) ==
    /\ Len(a.list) <= MaxResults
    /\ a.lines = {Line(a.list[k]) : k \in DOMAIN a.list}
    /\ \A k \in DOMAIN a.list : /\ \E j \in 1..i : a.list[k] = s[j]
                                /\ a.list[k].trip.number \in a.trips
    /\ Distinct(a.list) /\ InOrder(a.list)
    /\ \A n \in a.trips : \E j \in 1..i : s[j].trip.number = n /\ Line(s[j]) \in a.lines
    /\ \A j \in 1..i : Settled(a, s, j)

\* A candidate that is passed over is settled already.
LEMMA PassedOver ==
  ASSUME NEW C, \A c \in C : Leaves(c) \in Int,
         NEW s \in Seq(C), InOrder(s), NEW i \in 0..(Len(s) - 1),
         NEW a \in State(C), Faithful(a, s, i),
         Len(a.list) = MaxResults \/ s[i + 1].trip.number \in a.trips
  PROVE  Settled(a, s, i + 1)
<1>1. CASE Len(a.list) = MaxResults
  <2>1. \A k \in DOMAIN a.list : Leaves(a.list[k]) <= Leaves(s[i + 1])
    <3> TAKE k \in DOMAIN a.list
    <3>1. PICK j \in 1..i : a.list[k] = s[j]
      BY DEF Faithful
    <3>2. j \in DOMAIN s /\ i + 1 \in DOMAIN s /\ j < i + 1
      OBVIOUS
    <3> QED BY <3>1, <3>2 DEF InOrder
  <2> QED BY <1>1, <2>1 DEF Settled
<1>2. CASE s[i + 1].trip.number \in a.trips
  <2>1. PICK j \in 1..i : s[j].trip.number = s[i + 1].trip.number /\ Line(s[j]) \in a.lines
    BY <1>2 DEF Faithful
  <2>2. j \in 1..(i + 1)
    OBVIOUS
  <2> QED BY <2>1, <2>2 DEF Settled
<1> QED BY <1>1, <1>2

\* A step of the loop keeps the list faithful to the candidates so far.
LEMMA KeepFaithful ==
  ASSUME NEW C, \A c \in C : Leaves(c) \in Int,
         NEW s \in Seq(C), InOrder(s), NEW i \in 0..(Len(s) - 1),
         NEW a \in State(C), Faithful(a, s, i)
  PROVE  Faithful(Keep(a, s[i + 1]), s, i + 1)
<1> DEFINE c == s[i + 1]
           b == Keep(a, c)
<1> SUFFICES Faithful(b, s, i + 1)
  OBVIOUS
<1>0. /\ i \in Nat /\ i + 1 \in 1..(i + 1) /\ i + 1 \in DOMAIN s /\ c \in C
      /\ \A j \in 1..i : j \in 1..(i + 1) /\ j \in DOMAIN s /\ j < i + 1
      /\ \A j \in 1..(i + 1) : j \in 1..i \/ j = i + 1
      /\ a.list \in Seq(C) /\ MaxResults \in Nat
  <2>1. a.list \in Seq(C) /\ MaxResults \in Nat
    BY Bounds DEF State
  <2>2. i \in Nat /\ i + 1 \in DOMAIN s /\ c \in C /\ \A j \in 1..i : j \in DOMAIN s
    OBVIOUS
  <2> QED BY <2>1, <2>2
<1>1. CASE Len(a.list) = MaxResults \/ c.trip.number \in a.trips
  <2>1. b = a
    BY <1>1 DEF Keep
  <2>2. Settled(a, s, i + 1)
    BY <1>1, PassedOver
  <2>3. \A j \in 1..(i + 1) : Settled(a, s, j)
    BY <1>0, <2>2 DEF Faithful
  <2>4. \A k \in DOMAIN a.list : \E j \in 1..(i + 1) : a.list[k] = s[j]
    BY <1>0 DEF Faithful
  <2>5. \A n \in a.trips : \E j \in 1..(i + 1) : s[j].trip.number = n /\ Line(s[j]) \in a.lines
    BY <1>0 DEF Faithful
  <2>6. /\ Len(a.list) <= MaxResults
        /\ a.lines = {Line(a.list[k]) : k \in DOMAIN a.list}
        /\ \A k \in DOMAIN a.list : a.list[k].trip.number \in a.trips
        /\ Distinct(a.list) /\ InOrder(a.list)
    BY Zenon DEF Faithful
  <2>7. Faithful(a, s, i + 1)
    BY <2>3, <2>4, <2>5, <2>6, Zenon DEF Faithful
  <2> HIDE DEF b
  <2> QED BY <2>1, <2>7
<1>2. CASE Len(a.list) # MaxResults /\ c.trip.number \notin a.trips /\ Line(c) \in a.lines
  <2>1. b.trips = a.trips \cup {c.trip.number} /\ b.lines = a.lines /\ b.list = a.list
    BY <1>2 DEF Keep, State
  <2> HIDE DEF b
  <2>2. \A j \in 1..(i + 1) : Settled(b, s, j)
    <3> TAKE j \in 1..(i + 1)
    <3>1. CASE j \in 1..i
      BY <2>1, <3>1 DEF Faithful, Settled
    <3>2. CASE j = i + 1
      BY <1>0, <1>2, <2>1, <3>2 DEF Settled
    <3> QED BY <1>0, <3>1, <3>2
  <2>3. \A k \in DOMAIN b.list : (\E j \in 1..(i + 1) : b.list[k] = s[j]) /\ b.list[k].trip.number \in b.trips
    <3> TAKE k \in DOMAIN b.list
    <3>1. k \in DOMAIN a.list /\ b.list[k] = a.list[k]
      BY <2>1
    <3>2. a.list[k].trip.number \in a.trips /\ \E j \in 1..i : a.list[k] = s[j]
      BY <3>1, Zenon DEF Faithful
    <3> QED BY <1>0, <2>1, <3>1, <3>2
  <2>4. \A n \in b.trips : \E j \in 1..(i + 1) : s[j].trip.number = n /\ Line(s[j]) \in b.lines
    <3> TAKE n \in b.trips
    <3>1. CASE n \in a.trips
      BY <1>0, <2>1, <3>1 DEF Faithful
    <3>2. CASE n = c.trip.number
      BY <1>0, <1>2, <2>1, <3>2
    <3> QED BY <2>1, <3>1, <3>2
  <2>5. /\ Len(b.list) <= MaxResults
        /\ b.lines = {Line(b.list[k]) : k \in DOMAIN b.list}
        /\ Distinct(b.list) /\ InOrder(b.list)
    BY <2>1 DEF Faithful
  <2> QED BY <2>2, <2>3, <2>4, <2>5, Zenon DEF Faithful
<1>3. CASE Len(a.list) # MaxResults /\ c.trip.number \notin a.trips /\ Line(c) \notin a.lines
  <2> DEFINE m == Len(a.list)
  <2>1. /\ b.trips = a.trips \cup {c.trip.number} /\ b.lines = a.lines \cup {Line(c)}
        /\ b.list = Append(a.list, c)
    BY <1>3 DEF Keep
  <2>2. /\ m \in Nat /\ DOMAIN a.list = 1..m
        /\ DOMAIN b.list = 1..(m + 1) /\ Len(b.list) = m + 1
        /\ b.list[m + 1] = c /\ \A k \in 1..m : b.list[k] = a.list[k]
        /\ \A k \in 1..(m + 1) : k \in 1..m \/ k = m + 1
    <3> HIDE DEF b
    <3> QED BY <1>0, <2>1
  <2> HIDE DEF b, m
  <2>3. Len(b.list) <= MaxResults
    BY <1>0, <1>3, <2>2 DEF Faithful, m
  <2>4. b.lines = {Line(b.list[k]) : k \in DOMAIN b.list}
    <3>1. ASSUME NEW l \in b.lines PROVE \E k \in DOMAIN b.list : l = Line(b.list[k])
      <4>1. CASE l \in a.lines
        <5>1. PICK k \in DOMAIN a.list : l = Line(a.list[k])
          BY <4>1 DEF Faithful
        <5>2. k \in DOMAIN b.list /\ b.list[k] = a.list[k]
          BY <2>2
        <5> QED BY <5>1, <5>2
      <4>2. CASE l = Line(c)
        <5>1. m + 1 \in DOMAIN b.list
          BY <2>2
        <5> QED BY <2>2, <4>2, <5>1
      <4> QED BY <2>1, <4>1, <4>2
    <3>2. ASSUME NEW k \in DOMAIN b.list PROVE Line(b.list[k]) \in b.lines
      <4>1. CASE k \in 1..m
        BY <2>1, <2>2, <4>1 DEF Faithful
      <4>2. CASE k = m + 1
        BY <2>1, <2>2, <4>2
      <4> QED BY <2>2, <4>1, <4>2
    <3> QED BY <3>1, <3>2
  <2>5. \A k \in DOMAIN b.list : (\E j \in 1..(i + 1) : b.list[k] = s[j]) /\ b.list[k].trip.number \in b.trips
    <3> TAKE k \in DOMAIN b.list
    <3>1. CASE k \in 1..m
      <4>1. b.list[k] = a.list[k] /\ k \in DOMAIN a.list
        BY <2>2, <3>1
      <4>2. a.list[k].trip.number \in a.trips /\ \E j \in 1..i : a.list[k] = s[j]
        BY <4>1, Zenon DEF Faithful
      <4> QED BY <1>0, <2>1, <4>1, <4>2
    <3>2. CASE k = m + 1
      BY <1>0, <2>1, <2>2, <3>2
    <3> QED BY <2>2, <3>1, <3>2
  <2>6. \A k \in 1..m : /\ a.list[k].trip.number # c.trip.number /\ Line(a.list[k]) # Line(c)
                        /\ Leaves(a.list[k]) <= Leaves(c)
    <3> TAKE k \in 1..m
    <3>1. k \in DOMAIN a.list
      BY <2>2
    <3>2. a.list[k].trip.number \in a.trips /\ Line(a.list[k]) \in a.lines
      BY <3>1 DEF Faithful
    <3>3. PICK j \in 1..i : a.list[k] = s[j]
      BY <3>1 DEF Faithful
    <3>4. Leaves(s[j]) <= Leaves(s[i + 1])
      BY <1>0 DEF InOrder
    <3> QED BY <1>3, <3>2, <3>3, <3>4
  <2>7. Distinct(b.list) /\ InOrder(b.list)
    <3> SUFFICES ASSUME NEW k \in 1..(m + 1), NEW l \in 1..(m + 1), k < l
                 PROVE  /\ b.list[k].trip.number # b.list[l].trip.number /\ Line(b.list[k]) # Line(b.list[l])
                        /\ Leaves(b.list[k]) <= Leaves(b.list[l])
      BY <2>2, Zenon DEF Distinct, InOrder
    <3>1. k \in 1..m /\ b.list[k] = a.list[k]
      BY <2>2
    <3>2. CASE l \in 1..m
      <4>1. b.list[l] = a.list[l] /\ k \in DOMAIN a.list /\ l \in DOMAIN a.list
        BY <2>2, <3>1, <3>2
      <4>2. Distinct(a.list) /\ InOrder(a.list)
        BY DEF Faithful
      <4> QED BY <3>1, <4>1, <4>2 DEF Distinct, InOrder
    <3>3. CASE l = m + 1
      BY <2>2, <2>6, <3>1, <3>3
    <3> QED BY <2>2, <3>2, <3>3
  <2>8. \A n \in b.trips : \E j \in 1..(i + 1) : s[j].trip.number = n /\ Line(s[j]) \in b.lines
    <3> TAKE n \in b.trips
    <3>1. CASE n \in a.trips
      BY <1>0, <2>1, <3>1 DEF Faithful
    <3>2. CASE n = c.trip.number
      BY <1>0, <2>1, <3>2
    <3> QED BY <2>1, <3>1, <3>2
  <2>9. \A j \in 1..(i + 1) : Settled(b, s, j)
    <3> TAKE j \in 1..(i + 1)
    <3>1. CASE j \in 1..i
      <4>1. Settled(a, s, j)
        BY <3>1 DEF Faithful
      <4> QED BY <1>3, <2>1, <4>1 DEF Settled
    <3>2. CASE j = i + 1
      BY <1>0, <2>1, <3>2 DEF Settled
    <3> QED BY <1>0, <3>1, <3>2
  <2> QED BY <2>3, <2>4, <2>5, <2>7, <2>8, <2>9, Zenon DEF Faithful
<1> QED BY <1>1, <1>2, <1>3

\* What Deduplicate makes of candidates in order: a list of some of them, no
\* longer than a board, without doubles, in order, with each of them settled.
LEMMA Deduplicated ==
  ASSUME NEW C, \A c \in C : Leaves(c) \in Int, NEW s \in Seq(C), InOrder(s)
  PROVE  \E a \in State(C) : Deduplicate(s) = a.list /\ Faithful(a, s, Len(s))
<1>1. PICK f \in [0..Len(s) -> State(C)] :
           /\ Deduplicate(s) = f[Len(s)].list
           /\ f[0] = Nobody
           /\ \A i \in 1..Len(s) : f[i] = Keep(f[i - 1], s[i])
  BY Loop
<1> DEFINE T == {i \in 0..Len(s) : Faithful(f[i], s, i)}
<1>2. 0 \in T
  <2>1. Faithful(Nobody, s, 0)
    BY Bounds DEF Faithful, Nobody, Distinct, InOrder
  <2>2. 0 \in 0..Len(s)
    OBVIOUS
  <2> QED BY <1>1, <2>1, <2>2
<1>3. \A i \in 0..(Len(s) - 1) : i \in T => i + 1 \in T
  <2> SUFFICES ASSUME NEW i \in 0..(Len(s) - 1), i \in T PROVE i + 1 \in T
    OBVIOUS
  <2>1. f[i] \in State(C) /\ f[i + 1] = Keep(f[i], s[i + 1]) /\ i + 1 \in 0..Len(s)
    <3>1. i \in 0..Len(s) /\ i + 1 \in 1..Len(s) /\ (i + 1) - 1 = i
      OBVIOUS
    <3> QED BY <1>1, <3>1
  <2>2. Faithful(Keep(f[i], s[i + 1]), s, i + 1)
    BY <2>1, KeepFaithful
  <2> QED BY <2>1, <2>2
<1>4. Len(s) \in T
  <2> HIDE DEF T
  <2>1. Len(s) \in Nat /\ Len(s) \in 0..Len(s)
    OBVIOUS
  <2>2. \A i \in 0..Len(s) : i \in T
    BY <1>2, <1>3, <2>1, Induct
  <2> QED BY <2>1, <2>2
<1>5. f[Len(s)] \in State(C)
  OBVIOUS
<1> QED BY <1>1, <1>4, <1>5


-----------------------------------------------------------------------------
(* The candidates.                                                          *)

\* An ordering of a finite set has each element, and has them in order.
LEMMA SortedInOrder ==
  ASSUME NEW S, IsFiniteSet(S), \A c \in S : Leaves(c) \in Int, NEW s \in Sorted(S)
  PROVE  s \in Seq(S) /\ InOrder(s) /\ \A c \in S : \E j \in DOMAIN s : s[j] = c
<1> DEFINE n == Cardinality(S)
<1>1. n \in Nat
  BY FS_CardinalityType
<1>2. /\ s \in [1..n -> S] /\ \A i, j \in 1..n : i # j => s[i] # s[j]
      /\ \A i \in 1..(Len(s) - 1) : Leaves(s[i]) <= Leaves(s[i + 1])
  BY DEF Sorted, SetToSeqs
<1>3. s \in Seq(S) /\ Len(s) = n
  BY <1>1, <1>2
<1>4. \A c \in S : \E j \in DOMAIN s : s[j] = c
  <2>1. s \in Injection(1..n, S)
    BY <1>2, Zenon DEF Injection, IsInjective
  <2>2. IsFiniteSet(1..n) /\ Cardinality(1..n) = n
    BY <1>1, FS_Interval
  <2>3. s \in Surjection(1..n, S)
    BY <2>1, <2>2, FS_Injection
  <2> QED BY <1>2, <2>3 DEF Surjection
<1>5. InOrder(s)
  <2> SUFFICES ASSUME NEW i \in 1..n, NEW j \in 1..n, i < j PROVE Leaves(s[i]) <= Leaves(s[j])
    BY <1>2 DEF InOrder
  <2> DEFINE T == {m \in 0..(j - i) : Leaves(s[i]) <= Leaves(s[i + m])}
  <2> HIDE DEF n
  <2>1. \A k \in 1..n : Leaves(s[k]) \in Int
    BY <1>2
  <2>2. 0 \in T
    BY <2>1
  <2>3. \A m \in 0..((j - i) - 1) : m \in T => m + 1 \in T
    <3> TAKE m \in 0..((j - i) - 1)
    <3> DEFINE k == i + m
    <3>1. k \in 1..n /\ k + 1 \in 1..n /\ k \in 1..(Len(s) - 1) /\ m + 1 \in 0..(j - i) /\ i + (m + 1) = k + 1
      BY <1>1, <1>3
    <3>2. Leaves(s[k]) <= Leaves(s[k + 1])
      BY <1>2, <3>1
    <3>3. Leaves(s[i]) <= Leaves(s[k]) => Leaves(s[i]) <= Leaves(s[k + 1])
      <4>1. Leaves(s[i]) \in Int /\ Leaves(s[k]) \in Int /\ Leaves(s[k + 1]) \in Int
        <5> HIDE DEF k
        <5> QED BY <2>1, <3>1
      <4> QED BY <3>2, <4>1
    <3> QED BY <3>1, <3>3
  <2>4. j - i \in T
    <3> HIDE DEF T
    <3>1. j - i \in Nat /\ j - i \in 0..(j - i)
      BY <1>1
    <3>2. \A m \in 0..(j - i) : m \in T
      BY <2>2, <2>3, <3>1, Induct
    <3> QED BY <3>1, <3>2
  <2>5. i + (j - i) = j
    BY <1>1
  <2> QED BY <2>4, <2>5
<1> QED BY <1>3, <1>4, <1>5

\* What WellFormed says of the trips that a board is made of.
LEMMA Trips ==
  ASSUME NEW f \in Feeds
  PROVE  /\ IsFiniteSet(f.trips)
         /\ \A t \in f.trips :
               /\ Len(t.calls) \in Nat /\ DOMAIN t.calls = 1..Len(t.calls)
               /\ \A i \in DOMAIN t.calls : /\ t.calls[i].stop \in DOMAIN f.stops
                                            /\ t.calls[i].dep \in Nat /\ t.calls[i].arr \in Nat
         /\ TripIndex(f) \subseteq f.trips /\ \A ids : GoingOn(f, ids) \subseteq TripIndex(f)
<1>1. WellFormed(f)
  BY StaticClientAssumption
<1>2. ASSUME NEW t \in f.trips
      PROVE  /\ Len(t.calls) \in Nat /\ DOMAIN t.calls = 1..Len(t.calls)
             /\ \A i \in DOMAIN t.calls : /\ t.calls[i].stop \in DOMAIN f.stops
                                          /\ t.calls[i].dep \in Nat /\ t.calls[i].arr \in Nat
  <2> DEFINE K == [stop : DOMAIN f.stops, arr : Nat, dep : Nat]
  <2>1. t.calls \in Seq(K)
    BY <1>1 DEF WellFormed
  <2>2. \A k \in K : k.stop \in DOMAIN f.stops /\ k.dep \in Nat /\ k.arr \in Nat
    OBVIOUS
  <2> HIDE DEF K
  <2> QED BY <2>1, <2>2
<1> QED BY <1>1, <1>2 DEF WellFormed, TripIndex, GoingOn

CallAt(t, i, b) == [trip |-> t, stop |-> t.calls[i].stop, dep |-> t.calls[i].dep, base |-> b]

\* The calls of the service day that begins at b.
Offered(f, code, now, b) ==
    {c \in UNION {{CallAt(t, i, b) : i \in DOMAIN t.calls} : t \in GoingOn(f, StopIDsForCode(f, code))} :
        /\ c.stop \in StopIDsForCode(f, code)
        /\ ServiceActive(f.services[c.trip.service], DateOf(b))
        /\ Leaves(c) \in now..(now + LookAhead)}

\* A candidate is offered by one of the two midnights that the loops try.
LEMMA CandidatesOffered ==
  ASSUME NEW f, NEW code, NEW now
  PROVE  LET today == Midnight[DateOf(now)] IN
         Candidates(f, code, now) =
             Offered(f, code, now, today)
             \cup {c \in Offered(f, code, now, Yesterday(today)) :
                     [c EXCEPT !.base = today] \notin Offered(f, code, now, today)}
BY Zenon DEF Candidates, Offered, CallAt

\* There are finitely many, and each leaves within the window.
LEMMA CandidatesFinite ==
  ASSUME NEW f \in Feeds, NEW code, NEW r \in Requests
  PROVE  /\ IsFiniteSet(Candidates(f, code, r.now))
         /\ \A c \in Candidates(f, code, r.now) : Leaves(c) \in r.now..(r.now + LookAhead)
<1> DEFINE today == Midnight[DateOf(r.now)]
           off(b) == Offered(f, code, r.now, b)
           going == GoingOn(f, StopIDsForCode(f, code))
           calls(t, b) == {CallAt(t, i, b) : i \in DOMAIN t.calls}
           ofYesterday == {c \in off(Yesterday(today)) : [c EXCEPT !.base = today] \notin off(today)}
<1>1. Candidates(f, code, r.now) = off(today) \cup ofYesterday
  BY CandidatesOffered, Zenon
<1>2. ASSUME NEW b PROVE IsFiniteSet(off(b))
  <2>1. IsFiniteSet(going) /\ going \subseteq f.trips
    BY Trips, FS_Subset
  <2>2. ASSUME NEW t \in going PROVE IsFiniteSet(calls(t, b))
    <3> DEFINE g == [i \in DOMAIN t.calls |-> CallAt(t, i, b)]
    <3>1. g \in Surjection(DOMAIN t.calls, calls(t, b))
      BY DEF Surjection
    <3>2. IsFiniteSet(DOMAIN t.calls)
      <4>1. Len(t.calls) \in Nat /\ DOMAIN t.calls = 1..Len(t.calls)
        BY <2>1, Trips
      <4> QED BY <4>1, FS_Interval
    <3> HIDE DEF g
    <3> QED BY <3>1, <3>2, FS_Surjection
  <2> DEFINE all == {calls(t, b) : t \in going}
             h == [t \in going |-> calls(t, b)]
  <2>3. h \in Surjection(going, all)
    <3> HIDE DEF going, calls
    <3> QED BY DEF Surjection
  <2>4. IsFiniteSet(all)
    <3> HIDE DEF h, all, going, calls
    <3> QED BY <2>1, <2>3, FS_Surjection
  <2>5. IsFiniteSet(UNION all)
    <3>1. \A x \in all : IsFiniteSet(x)
      <4> HIDE DEF going, calls
      <4> QED BY <2>2
    <3> HIDE DEF all
    <3> QED BY <2>4, <3>1, FS_UNION
  <2>6. off(b) \in SUBSET (UNION all)
    BY DEF Offered
  <2> HIDE DEF all
  <2> QED BY <2>5, <2>6, FS_Subset
<1>3. \A b : \A c \in off(b) : Leaves(c) \in r.now..(r.now + LookAhead)
  BY DEF Offered
<1>4. IsFiniteSet(ofYesterday)
  <2>1. ofYesterday \in SUBSET off(Yesterday(today))
    OBVIOUS
  <2> HIDE DEF ofYesterday, off
  <2> QED BY <1>2, <2>1, FS_Subset
<1>5. IsFiniteSet(off(today) \cup ofYesterday)
  <2> HIDE DEF ofYesterday, off
  <2> QED BY <1>2, <1>4, FS_Union
<1> QED BY <1>1, <1>3, <1>5

-----------------------------------------------------------------------------
(* The days of a request.                                                   *)

\* The calendar has the day of a request, the day before it, and the day on
\* which its window ends.
LEMMA RequestDays ==
  ASSUME NEW r \in Requests
  PROVE  /\ r.now \in Nat
         /\ DateOf(r.now) \in Days /\ DateOf(r.now) - 1 \in Days
         /\ Midnight[DateOf(r.now)] <= r.now
         /\ r.now < Midnight[DateOf(r.now)] + DayLength[DateOf(r.now)]
         /\ Midnight[DateOf(r.now)] = Midnight[DateOf(r.now) - 1] + DayLength[DateOf(r.now) - 1]
         /\ DateOf(r.now + LookAhead) \in Days
         /\ Midnight[DateOf(r.now + LookAhead)] <= r.now + LookAhead
         /\ r.now + LookAhead
               < Midnight[DateOf(r.now + LookAhead)] + DayLength[DateOf(r.now + LookAhead)]
<1>1. r.now \in Nat /\ r.now + LookAhead \in Nat
  BY StaticClientAssumption, Bounds
<1>2. PICK d \in Days : d > 1 /\ Midnight[d] <= r.now /\ r.now < Midnight[d] + DayLength[d]
  BY StaticClientAssumption
<1>3. PICK e \in Days : Midnight[e] <= r.now + LookAhead /\ r.now + LookAhead < Midnight[e] + DayLength[e]
  BY StaticClientAssumption
<1>4. DateOf(r.now) = d
  BY <1>1, <1>2, DateOfDay
<1>5. DateOf(r.now + LookAhead) = e
  BY <1>1, <1>3, DateOfDay
<1>6. d - 1 \in Days /\ Midnight[d] = Midnight[d - 1] + DayLength[d - 1]
  BY <1>2, Midnights
<1> QED BY <1>1, <1>2, <1>3, <1>4, <1>5, <1>6

\* While the clocks are steady, 24 hours before midnight is a midnight.
LEMMA SteadyDays ==
  ASSUME NEW r \in Requests, SteadyClocks(r.now)
  PROVE  LET D == DateOf(r.now) IN
         /\ Yesterday(Midnight[D]) = Midnight[D - 1]
         /\ DateOf(Midnight[D]) = D /\ DateOf(Midnight[D - 1]) = D - 1
<1> DEFINE D == DateOf(r.now)
<1>1. /\ D \in Days /\ D - 1 \in Days
      /\ Midnight[D] = Midnight[D - 1] + DayLength[D - 1]
  BY RequestDays
<1>2. DayLength[D] = 24 /\ DayLength[D - 1] = 24
  BY DEF SteadyClocks, Covered
<1>3. Midnight[D] \in Nat /\ Midnight[D - 1] \in Nat
  BY <1>1, Midnights
<1>4. DateOf(Midnight[D]) = D
  <2> HIDE DEF D
  <2> QED BY <1>1, <1>2, <1>3, DateOfDay
<1>5. DateOf(Midnight[D - 1]) = D - 1
  <2> HIDE DEF D
  <2> QED BY <1>1, <1>2, <1>3, DateOfDay
<1> HIDE DEF D
<1>6. Yesterday(Midnight[D]) = Midnight[D - 1]
  BY <1>1, <1>2, <1>3 DEF Yesterday
<1> QED BY <1>4, <1>5, <1>6 DEF D

\* In a steady window the clock on the wall shows no time twice.
LEMMA WallOnce ==
  ASSUME NEW r \in Requests, SteadyWindow(r.now),
         NEW t \in r.now..(r.now + LookAhead), NEW u \in r.now..(r.now + LookAhead),
         Wall(t) = Wall(u)
  PROVE  t = u
<1> DEFINE D == DateOf(r.now)
           E == DateOf(r.now + LookAhead)
<1>1. /\ r.now \in Nat /\ D \in Days /\ E \in Days
      /\ Midnight[D] <= r.now /\ r.now < Midnight[D] + DayLength[D]
      /\ Midnight[E] <= r.now + LookAhead
      /\ r.now + LookAhead < Midnight[E] + DayLength[E]
  BY RequestDays
<1>2. DayLength[D] = 24 /\ DayLength[E] = 24
  BY DEF SteadyWindow, SteadyClocks, Covered
<1>3. Midnight[D] \in Nat /\ Midnight[E] \in Nat /\ D \in Nat /\ E \in Nat /\ LookAhead \in Nat /\ LookAhead <= 22
  BY <1>1, Midnights, Lengths, Bounds
<1> HIDE DEF D, E
<1>4. E = D \/ (E = D + 1 /\ Midnight[E] = Midnight[D] + 24)
  <2>1. ~(E < D)
    <3>1. E < D => Midnight[E] + DayLength[E] <= Midnight[D]
      BY <1>1, MidnightsGrow
    <3> QED BY <1>1, <1>2, <1>3, <3>1
  <2>2. CASE E > D
    <3>1. D + 1 \in Days /\ D + 1 > 1 /\ (D + 1) - 1 = D
      BY <1>1, <1>3, <2>2, Lengths
    <3>2. Midnight[D + 1] = Midnight[D] + 24
      BY <1>2, <3>1, Midnights
    <3>3. DayLength[D + 1] \in {23, 24, 25}
      BY <3>1, Lengths
    <3>4. D + 1 < E => Midnight[D + 1] + DayLength[D + 1] <= Midnight[E]
      BY <1>1, <3>1, MidnightsGrow
    <3>5. ~(D + 1 < E)
      BY <1>1, <1>2, <1>3, <3>2, <3>3, <3>4
    <3>6. E = D + 1
      BY <1>3, <2>2, <3>5
    <3> QED BY <3>2, <3>6
  <2> QED BY <1>3, <2>1, <2>2
<1>5. ASSUME NEW x \in r.now..(r.now + LookAhead)
      PROVE  \/ DateOf(x) = D /\ Wall(x) = x - Midnight[D] /\ x < Midnight[D] + 24
             \/ DateOf(x) = E /\ Wall(x) = x - Midnight[E] /\ x >= Midnight[E]
  <2>1. x \in Nat /\ Midnight[D] <= x /\ x < Midnight[E] + 24
    BY <1>1, <1>2, <1>3
  <2>2. CASE x < Midnight[D] + 24
    <3>1. DateOf(x) = D
      BY <1>1, <1>2, <2>1, <2>2, DateOfDay
    <3>2. Wall(x) = x - Midnight[D]
      BY <1>2, <1>3, <2>1, <3>1 DEF Wall
    <3> QED BY <2>2, <3>1, <3>2
  <2>3. CASE ~(x < Midnight[D] + 24)
    <3>0. x >= Midnight[E]
      BY <1>3, <1>4, <2>1, <2>3
    <3>1. DateOf(x) = E
      BY <1>1, <1>2, <2>1, <3>0, DateOfDay
    <3>2. Wall(x) = x - Midnight[E]
      BY <1>2, <1>3, <2>1, <3>1 DEF Wall
    <3> QED BY <3>0, <3>1, <3>2
  <2> QED BY <2>2, <2>3
<1>6. t \in Nat /\ u \in Nat /\ t - u <= 22 /\ u - t <= 22
  BY <1>1, <1>3
<1>7. /\ Wall(t) = t - Midnight[D] \/ Wall(t) = t - Midnight[E]
      /\ Wall(u) = u - Midnight[D] \/ Wall(u) = u - Midnight[E]
  BY <1>5
<1> HIDE DEF Wall
<1> QED BY <1>3, <1>4, <1>6, <1>7

\* x is a departure in the reference; this is the candidate it becomes.
CallOf(x) == CallAt(x.trip, x.call, Midnight[x.day])

\* The two ways of saying that a service runs agree.
LEMMA RunsActive == \A svc, d : Runs(svc, d) <=> ServiceActive(svc, d)
BY DEF Runs, ServiceActive

\* While the clocks are steady each candidate is a departure of a service day
\* that is tried.
LEMMA CandidateDeparts ==
  ASSUME NEW f \in Feeds, NEW code, NEW r \in Requests, SteadyClocks(r.now),
         NEW c \in Candidates(f, code, r.now)
  PROVE  \E x \in CoveredDeparting(f, code, r.now) : c = CallOf(x)
<1> DEFINE D == DateOf(r.now)
           ids == StopIDsForCode(f, code)
<1>1. PICK d \in Covered(r.now) : c \in Offered(f, code, r.now, Midnight[d]) /\ DateOf(Midnight[d]) = d
  <2>1. c \in Offered(f, code, r.now, Midnight[D]) \/ c \in Offered(f, code, r.now, Midnight[D - 1])
    BY CandidatesOffered, SteadyDays
  <2> QED BY <2>1, SteadyDays DEF Covered
<1>2. PICK t \in GoingOn(f, ids) : c \in {CallAt(t, i, Midnight[d]) : i \in DOMAIN t.calls}
  BY <1>1 DEF Offered
<1>3. PICK i \in DOMAIN t.calls : c = CallAt(t, i, Midnight[d])
  BY <1>2
<1>4. /\ t \in f.trips /\ t.route # None /\ Last(t.calls).stop \notin ids
      /\ Len(t.calls) \in Nat /\ DOMAIN t.calls = 1..Len(t.calls)
  BY Trips DEF GoingOn, TripIndex
<1>5. /\ c.stop \in ids /\ ServiceActive(f.services[t.service], d)
      /\ Leaves(c) \in r.now..(r.now + LookAhead)
      /\ c.stop = t.calls[i].stop /\ Leaves(c) = Midnight[d] + t.calls[i].dep
  <2>1. c.trip = t /\ c.stop = t.calls[i].stop /\ c.dep = t.calls[i].dep /\ c.base = Midnight[d]
    BY <1>3 DEF CallAt
  <2> QED BY <1>1, <2>1 DEF Offered, Leaves
<1>6. i \in 1..(Len(t.calls) - 1)
  <2>1. i # Len(t.calls)
    BY <1>4, <1>5 DEF Last
  <2> QED BY <1>4, <2>1
<1> DEFINE x == [trip |-> t, call |-> i, day |-> d]
<1>7. x \in CoveredDeparting(f, code, r.now)
  <2>0. d \in Days
    BY RequestDays DEF Covered
  <2>1. x \in UNION {[trip : {u}, call : 1..(Len(u.calls) - 1), day : Days] : u \in f.trips}
    BY <1>4, <1>6, <2>0
  <2>2. Runs(f.services[t.service], d)
    BY <1>5, RunsActive
  <2>3. x \in Departing(f, code, r.now)
    BY <1>4, <1>5, <2>1, <2>2 DEF Departing
  <2> QED BY <2>3 DEF CoveredDeparting
<1>8. c = CallOf(x)
  BY <1>3 DEF CallOf
<1> HIDE DEF x
<1> QED BY <1>7, <1>8

\* And each such departure is a candidate: today's call of a train that also left
\* within the window yesterday would leave 24 hours after it.
LEMMA DepartureIsCandidate ==
  ASSUME NEW f \in Feeds, NEW code, NEW r \in Requests, SteadyClocks(r.now),
         NEW x \in CoveredDeparting(f, code, r.now)
  PROVE  /\ CallOf(x) \in Candidates(f, code, r.now)
         /\ Leaves(CallOf(x)) = Instant(x)
<1> DEFINE D == DateOf(r.now)
           ids == StopIDsForCode(f, code)
           c == CallOf(x)
           t == x.trip
<1>1. /\ t \in f.trips /\ x.call \in 1..(Len(t.calls) - 1) /\ x.day \in Covered(r.now)
      /\ t.route # None /\ t.calls[x.call].stop \in ids /\ Last(t.calls).stop \notin ids
      /\ ServiceActive(f.services[t.service], x.day)
      /\ Midnight[x.day] + t.calls[x.call].dep \in r.now..(r.now + LookAhead)
  <2>0. x \in Departing(f, code, r.now) /\ x.day \in Covered(r.now)
    BY DEF CoveredDeparting
  <2>1. PICK u \in f.trips : x \in [trip : {u}, call : 1..(Len(u.calls) - 1), day : Days]
    BY <2>0 DEF Departing
  <2>2. t = u /\ x.call \in 1..(Len(u.calls) - 1)
    BY <2>1
  <2>3. Runs(f.services[t.service], x.day)
    BY <2>0 DEF Departing
  <2>4. ServiceActive(f.services[t.service], x.day)
    BY <2>3, RunsActive
  <2> QED BY <2>0, <2>2, <2>4 DEF Departing
<1>2. Len(t.calls) \in Nat /\ DOMAIN t.calls = 1..Len(t.calls)
  BY <1>1, Trips
<1>3. t \in GoingOn(f, ids) /\ x.call \in DOMAIN t.calls
  <2>1. Len(t.calls) >= 2 /\ x.call \in 1..Len(t.calls)
    BY <1>1, <1>2
  <2> QED BY <1>1, <1>2, <2>1 DEF GoingOn, TripIndex
<1>4. /\ c = CallAt(t, x.call, Midnight[x.day]) /\ c.trip = t /\ c.stop = t.calls[x.call].stop
      /\ c.dep = t.calls[x.call].dep /\ c.base = Midnight[x.day] /\ Leaves(c) = Instant(x)
  BY DEF CallOf, CallAt, Leaves, Instant
<1>5. DateOf(Midnight[x.day]) = x.day
  BY <1>1, SteadyDays DEF Covered
<1>6. c \in Offered(f, code, r.now, Midnight[x.day])
  <2>1. c \in UNION {{CallAt(u, i, Midnight[x.day]) : i \in DOMAIN u.calls} : u \in GoingOn(f, ids)}
    <3> HIDE DEF c, t, ids
    <3> QED BY <1>3, <1>4
  <2>2. Leaves(c) \in r.now..(r.now + LookAhead)
    BY <1>1, <1>4 DEF Instant
  <2> HIDE DEF c, t
  <2> QED BY <1>1, <1>4, <1>5, <2>1, <2>2 DEF Offered
<1>7. CASE x.day = D
  <2>1. c \in Offered(f, code, r.now, Midnight[D])
    BY <1>6, <1>7
  <2>2. c \in Candidates(f, code, r.now)
    <3> HIDE DEF c
    <3> QED BY <2>1, CandidatesOffered
  <2> QED BY <1>4, <2>2
<1>8. CASE x.day = D - 1
  <2> DEFINE later == [c EXCEPT !.base = Midnight[D]]
  <2>1. Midnight[D] = Midnight[D - 1] + 24 /\ Midnight[D - 1] \in Nat
    <3>1. D - 1 \in Days /\ Midnight[D] = Midnight[D - 1] + DayLength[D - 1]
      BY RequestDays
    <3>2. DayLength[D - 1] = 24
      BY DEF SteadyClocks, Covered
    <3>3. Midnight[D - 1] \in Nat
      BY <3>1, Midnights
    <3> QED BY <3>1, <3>2, <3>3
  <2>2. Leaves(later) = Midnight[D] + c.dep
    BY DEF CallOf, CallAt, Leaves
  <2>3. c.dep \in Nat
    BY <1>1, <1>3, <1>4, Trips
  <2>4. Leaves(c) = Midnight[D - 1] + c.dep /\ Leaves(c) \in r.now..(r.now + LookAhead)
    BY <1>1, <1>4, <1>8 DEF Instant
  <2>5. r.now \in Nat /\ LookAhead \in Nat /\ LookAhead <= 22
    BY RequestDays, Bounds
  <2>6. Leaves(later) \notin r.now..(r.now + LookAhead)
    <3> HIDE DEF later, c, D
    <3> QED BY <2>1, <2>2, <2>3, <2>4, <2>5
  <2>7. later \notin Offered(f, code, r.now, Midnight[D])
    <3> HIDE DEF later
    <3> QED BY <2>6 DEF Offered
  <2>8. Midnight[x.day] = Yesterday(Midnight[D])
    BY <1>8, SteadyDays
  <2>9. c \in Offered(f, code, r.now, Yesterday(Midnight[D]))
    <3> HIDE DEF c, D
    <3> QED BY <1>6, <2>8
  <2>10. c \in Candidates(f, code, r.now)
    <3> HIDE DEF c
    <3> QED BY <2>7, <2>9, CandidatesOffered
  <2> QED BY <1>4, <2>10
<1> QED BY <1>1, <1>4, <1>7, <1>8 DEF Covered

-----------------------------------------------------------------------------
(* Looking for a stop among the calls of a trip.                            *)

\* The least of some numbers.
LEMMA LeastOf ==
  ASSUME NEW D \in SUBSET Nat, D # {}
  PROVE  Min(D) \in D /\ \A i \in D : Min(D) <= i
<1>1. PICK m : m \in D
  OBVIOUS
<1>2. \E k \in D : \A i \in D : k <= i
  BY <1>1, FirstExists
<1> QED BY <1>2 DEF Min

\* The first call at one of these stops, and 0 when there is none.
LEMMA FirstCall ==
  ASSUME NEW calls, Len(calls) \in Nat, NEW ids
  PROVE  LET at == FirstCallAt(calls, ids) IN
         /\ at \in 0..Len(calls)
         /\ at = 0 => \A i \in 1..Len(calls) : calls[i].stop \notin ids
         /\ at # 0 => calls[at].stop \in ids /\ \A i \in 1..(at - 1) : calls[i].stop \notin ids
<1> DEFINE I == {i \in 1..Len(calls) : calls[i].stop \in ids}
           at == IF I # {} THEN Min(I) ELSE 0
<1>1. /\ at \in 0..Len(calls)
      /\ at = 0 => \A i \in 1..Len(calls) : calls[i].stop \notin ids
      /\ at # 0 => calls[at].stop \in ids /\ \A i \in 1..(at - 1) : calls[i].stop \notin ids
  <2>1. CASE I = {}
    BY <2>1
  <2>2. CASE I # {}
    <3>1. I \in SUBSET Nat
      OBVIOUS
    <3>2. at \in I /\ \A i \in I : at <= i
      <4> HIDE DEF I
      <4> QED BY <2>2, <3>1, LeastOf
    <3> HIDE DEF at
    <3>3. \A i \in 1..(at - 1) : i \notin I /\ i \in 1..Len(calls)
      BY <3>2
    <3> QED BY <3>2, <3>3
  <2> QED BY <2>1, <2>2
<1> QED BY <1>1 DEF FirstCallAt, SelectInSeq

\* The first such call from one call on.
LEMMA NextCall ==
  ASSUME NEW calls, Len(calls) \in Nat, NEW p \in Nat, NEW ids
  PROVE  LET at == NextCallAt(calls, p, ids) IN
         /\ at = 0 \/ at \in (p + 1)..Len(calls)
         /\ at = 0 => \A i \in (p + 1)..Len(calls) : calls[i].stop \notin ids
         /\ at # 0 => calls[at].stop \in ids /\ \A i \in (p + 1)..(at - 1) : calls[i].stop \notin ids
<1> DEFINE I == {i \in (p + 1)..Len(calls) : calls[i].stop \in ids}
           at == IF I # {} THEN Min(I) ELSE 0
<1>1. /\ at = 0 \/ at \in (p + 1)..Len(calls)
      /\ at = 0 => \A i \in (p + 1)..Len(calls) : calls[i].stop \notin ids
      /\ at # 0 => calls[at].stop \in ids /\ \A i \in (p + 1)..(at - 1) : calls[i].stop \notin ids
  <2>1. CASE I = {}
    BY <2>1
  <2>2. CASE I # {}
    <3>1. I \in SUBSET Nat
      OBVIOUS
    <3>2. at \in I /\ \A i \in I : at <= i
      <4> HIDE DEF I
      <4> QED BY <2>2, <3>1, LeastOf
    <3> HIDE DEF at
    <3>3. \A i \in (p + 1)..(at - 1) : i \notin I /\ i \in (p + 1)..Len(calls)
      BY <3>2
    <3> QED BY <3>2, <3>3
  <2> QED BY <2>1, <2>2
<1> QED BY <1>1 DEF NextCallAt, SelectInSubSeq

\* What is left of a sequence is its end.
LEMMA RestIsSuffix ==
  ASSUME NEW S, NEW s \in Seq(S), NEW p \in 0..Len(s), NEW t \in Seq(S),
         Len(t) = Len(s) - p, \A i \in 1..Len(t) : t[i] = s[p + i]
  PROVE  IsSuffix(t, s)
<1> DEFINE n == Len(s)
           m == Len(t)
<1>1. n \in Nat /\ m \in Nat /\ m = n - p /\ m <= n
  OBVIOUS
<1>2. Len(Reverse(t)) = m /\ Len(Reverse(s)) = n
  BY <1>1 DEF Reverse
<1>3. \A i \in 1..m : Reverse(t)[i] = Reverse(s)[i]
  <2> TAKE i \in 1..m
  <2>1. (m - i) + 1 \in 1..m /\ p + ((m - i) + 1) = (n - i) + 1 /\ i \in 1..n
    BY <1>1
  <2>2. Reverse(t)[i] = t[(m - i) + 1] /\ Reverse(s)[i] = s[(n - i) + 1]
    BY <2>1 DEF Reverse
  <2> QED BY <2>1, <2>2
<1>4. Reverse(s) \in Seq(S) /\ Reverse(t) \in Seq(S)
  <2>1. \A i \in 1..n : s[(n - i) + 1] \in S
    BY <1>1
  <2>2. \A i \in 1..m : t[(m - i) + 1] \in S
    BY <1>1
  <2> QED BY <1>1, <2>1, <2>2 DEF Reverse
<1>5. SubSeq(Reverse(t), 1, m) = SubSeq(Reverse(s), 1, m)
  <2> HIDE DEF m, n
  <2> QED BY <1>1, <1>2, <1>3, <1>4
<1> QED BY <1>1, <1>2, <1>5 DEF IsSuffix, IsPrefix


\* The stops on a row are the last ones of the trip.
LEMMA RemainingIsSuffix ==
  ASSUME NEW f \in Feeds, NEW t \in f.trips, NEW ids
  PROVE  IsSuffix([i \in DOMAIN Remaining(t, ids) |-> Remaining(t, ids)[i].stop],
                  [i \in DOMAIN t.calls |-> t.calls[i].stop])
<1> DEFINE n == Len(t.calls)
           p == FirstCallAt(t.calls, ids)
           K == [stop : DOMAIN f.stops, arr : Nat, dep : Nat]
           S == DOMAIN f.stops
           left == Remaining(t, ids)
           stops == [i \in DOMAIN left |-> left[i].stop]
           all == [i \in DOMAIN t.calls |-> t.calls[i].stop]
<1>1. t.calls \in Seq(K)
  BY StaticClientAssumption DEF WellFormed
<1>2. n \in Nat /\ DOMAIN t.calls = 1..n
  BY <1>1
<1>3. p \in 0..n
  BY <1>2, FirstCall
<1>4. left = SubSeq(t.calls, p + 1, n)
  BY DEF Remaining
<1>5. left \in Seq(K) /\ Len(left) = n - p /\ \A i \in 1..(n - p) : left[i] = t.calls[p + i]
  <2> HIDE DEF left, p, K
  <2> QED BY <1>1, <1>2, <1>3, <1>4
<1>6. \A k \in K : k.stop \in S
  OBVIOUS
<1>7. all \in Seq(S) /\ Len(all) = n /\ \A i \in 1..n : all[i] = t.calls[i].stop
  <2>1. \A i \in 1..n : t.calls[i].stop \in S
    <3> HIDE DEF K, S
    <3> QED BY <1>1, <1>6
  <2> HIDE DEF S
  <2> QED BY <1>2, <2>1
<1>8. stops \in Seq(S) /\ Len(stops) = n - p /\ \A i \in 1..(n - p) : stops[i] = left[i].stop
  <2>0. Len(left) \in Nat /\ DOMAIN left = 1..Len(left)
    BY <1>5
  <2>1. \A i \in 1..Len(left) : left[i].stop \in S
    <3> HIDE DEF K, S, left
    <3> QED BY <1>5, <1>6
  <2>2. stops \in Seq(S) /\ Len(stops) = Len(left) /\ \A i \in 1..Len(left) : stops[i] = left[i].stop
    <3> HIDE DEF S, left
    <3> QED BY <2>0, <2>1
  <2> HIDE DEF stops, left, p
  <2> QED BY <1>5, <2>2
<1>9. \A i \in 1..Len(stops) : stops[i] = all[p + i]
  <2> TAKE i \in 1..Len(stops)
  <2>1. i \in 1..(n - p) /\ p + i \in 1..n
    <3> HIDE DEF stops, p
    <3> QED BY <1>2, <1>3, <1>8
  <2> HIDE DEF stops, all, left, p
  <2> QED BY <1>5, <1>7, <1>8, <2>1
<1>10. IsSuffix(stops, all)
  <2> HIDE DEF stops, all, S, p, n
  <2> QED BY <1>2, <1>3, <1>7, <1>8, <1>9, RestIsSuffix
<1> QED BY <1>10

-----------------------------------------------------------------------------
(* The board.                                                               *)

\* c has a row, or one of its line has, or of the line of one of its number
\* that leaves no later; or the board is full of departures no later than c.
Listed(list, S, c) ==
    \/ \E d \in S : /\ d.trip.number = c.trip.number /\ Leaves(d) <= Leaves(c)
                    /\ \E k \in DOMAIN list : Line(list[k]) = Line(d)
    \/ /\ Len(list) = MaxResults
       /\ \A k \in DOMAIN list : Leaves(list[k]) <= Leaves(c)

\* A board has a row for each of a list of candidates, in order and without
\* doubles, and no candidate is forgotten.
LEMMA Boards ==
  ASSUME NEW f \in Feeds, NEW code, NEW r \in Requests, NEW answer \in ScheduleForStop(f, code, r.now)
  PROVE  LET S == Candidates(f, code, r.now) IN
         \E list \in Seq(S) :
            /\ answer = [k \in DOMAIN list |-> Row(f, code, list[k])]
            /\ Len(list) <= MaxResults /\ Distinct(list) /\ InOrder(list)
            /\ \A c \in S : Listed(list, S, c)
<1> DEFINE S == Candidates(f, code, r.now)
<1>1. IsFiniteSet(S) /\ \A c \in S : Leaves(c) \in Int
  <2>1. r.now \in Nat
    BY StaticClientAssumption
  <2>2. \A c \in S : Leaves(c) \in r.now..(r.now + LookAhead)
    BY CandidatesFinite
  <2>3. \A c \in S : Leaves(c) \in Int
    <3> HIDE DEF S
    <3> QED BY <2>1, <2>2, Bounds
  <2> QED BY <2>3, CandidatesFinite
<1>2. PICK s \in Sorted(S) : answer = [k \in DOMAIN Deduplicate(s) |-> Row(f, code, Deduplicate(s)[k])]
  BY DEF ScheduleForStop
<1> HIDE DEF S
<1>3. s \in Seq(S) /\ InOrder(s) /\ \A c \in S : \E j \in DOMAIN s : s[j] = c
  BY <1>1, SortedInOrder
<1>4. PICK a \in State(S) : Deduplicate(s) = a.list /\ Faithful(a, s, Len(s))
  BY <1>1, <1>3, Deduplicated
<1>5. a.list \in Seq(S)
  BY DEF State
<1>6. ASSUME NEW c \in S PROVE Listed(a.list, S, c)
  <2>1. PICK j \in DOMAIN s : s[j] = c
    BY <1>3
  <2>2. j \in 1..Len(s) /\ \A m \in 1..j : m \in DOMAIN s /\ s[m] \in S /\ (m < j \/ m = j)
    BY <1>3
  <2>3. Settled(a, s, j)
    BY <1>4, <2>2 DEF Faithful
  <2>4. CASE \E m \in 1..j : s[m].trip.number = s[j].trip.number /\ Line(s[m]) \in a.lines
    <3>1. PICK m \in 1..j : s[m].trip.number = s[j].trip.number /\ Line(s[m]) \in a.lines
      BY <2>4
    <3>2. \E k \in DOMAIN a.list : Line(a.list[k]) = Line(s[m])
      BY <1>4, <3>1 DEF Faithful
    <3>3. Leaves(s[m]) <= Leaves(s[j])
      <4>1. CASE m < j
        BY <1>3, <2>2, <4>1 DEF InOrder
      <4>2. CASE m = j
        BY <1>1, <2>1, <4>2
      <4> QED BY <2>2, <4>1, <4>2
    <3>4. s[m] \in S
      BY <2>2
    <3> QED BY <2>1, <3>1, <3>2, <3>3, <3>4, Zenon DEF Listed
  <2>5. CASE Len(a.list) = MaxResults /\ \A k \in DOMAIN a.list : Leaves(a.list[k]) <= Leaves(s[j])
    BY <2>1, <2>5 DEF Listed
  <2> QED BY <2>3, <2>4, <2>5 DEF Settled
<1>7. /\ answer = [k \in DOMAIN a.list |-> Row(f, code, a.list[k])]
      /\ Len(a.list) <= MaxResults /\ Distinct(a.list) /\ InOrder(a.list)
  BY <1>2, <1>4, Zenon DEF Faithful
<1> QED BY <1>5, <1>6, <1>7 DEF S

\* While the clocks are steady, the day and the time of a row tell when its
\* train leaves.
LEMMA RowLeaves ==
  ASSUME NEW f \in Feeds, NEW code, NEW r \in Requests, SteadyClocks(r.now),
         NEW c \in Candidates(f, code, r.now)
  PROVE  LET row == Row(f, code, c) IN
         /\ Midnight[row.day] + row.dep = Leaves(c)
         /\ \E x \in CoveredDeparting(f, code, r.now) :
               /\ c = CallOf(x) /\ x.trip \in f.trips
               /\ row.day = x.day /\ c.trip = x.trip
               /\ row.stop = x.trip.calls[x.call].stop /\ row.dep = x.trip.calls[x.call].dep
<1>1. PICK x \in CoveredDeparting(f, code, r.now) : c = CallOf(x)
  BY CandidateDeparts
<1>2. x.trip \in f.trips /\ x.day \in Covered(r.now)
  <2>1. x \in Departing(f, code, r.now) /\ x.day \in Covered(r.now)
    BY DEF CoveredDeparting
  <2>2. PICK u \in f.trips : x \in [trip : {u}, call : 1..(Len(u.calls) - 1), day : Days]
    BY <2>1 DEF Departing
  <2> QED BY <2>1, <2>2
<1>3. DateOf(Midnight[x.day]) = x.day
  BY <1>2, SteadyDays DEF Covered
<1>4. c.trip = x.trip /\ c.stop = x.trip.calls[x.call].stop /\ c.dep = x.trip.calls[x.call].dep
      /\ c.base = Midnight[x.day]
  BY <1>1 DEF CallOf, CallAt
<1> DEFINE row == Row(f, code, c)
<1>5. row.day = DateOf(c.base) /\ row.dep = c.dep /\ row.stop = c.stop
  BY DEF Row
<1> HIDE DEF row
<1>6. Midnight[row.day] + row.dep = Leaves(c)
  BY <1>3, <1>4, <1>5 DEF Leaves
<1> QED BY <1>1, <1>2, <1>3, <1>4, <1>5, <1>6 DEF row


\* A board is a sequence of its rows.
LEMMA BoardIsSequence ==
  ASSUME NEW f \in Feeds, NEW code, NEW r \in Requests, NEW answer \in ScheduleForStop(f, code, r.now)
  PROVE  answer \in Seq({answer[k] : k \in DOMAIN answer})
<1> DEFINE S == Candidates(f, code, r.now)
<1>1. PICK list \in Seq(S) :
         /\ answer = [k \in DOMAIN list |-> Row(f, code, list[k])]
         /\ Len(list) <= MaxResults /\ Distinct(list) /\ InOrder(list)
         /\ \A c \in S : Listed(list, S, c)
  BY Boards
<1>2. Len(list) \in Nat /\ DOMAIN list = 1..Len(list)
  <2> HIDE DEF S
  <2> QED BY <1>1
<1>3. answer \in [1..Len(list) -> {answer[k] : k \in DOMAIN answer}]
  BY <1>1, <1>2
<1> QED BY <1>2, <1>3

-----------------------------------------------------------------------------
(* The cache of trips.                                                      *)

\* The cache is indexed by trips, and has each as a timetable has it or not.
CacheOK ==
    /\ DOMAIN tripCache = TripIDs
    /\ \A id \in TripIDs : tripCache[id] \in {None} \cup Known(id)
    /\ late # None => late.id \in TripIDs /\ late.calls \in Known(late.id)

RestOK ==
    /\ feed \in Feeds \cup {None} /\ refreshes \in 0..MaxRefreshes
    /\ pc \in {"idle", "schedule", "ids", "rows"}
    /\ req \in Requests /\ asked \in 0..MaxRequests
    /\ source \in Feeds \cup {None} /\ failed \in BOOLEAN

\* What gtfs-static answers for a trip is what the timetable it serves says.
LEMMA TripKnown ==
    ASSUME feed \in Feeds \cup {None}, NEW id, Trip(id) # None
    PROVE  Trip(id) \in Known(id)
<1>1. feed # None /\ \E t \in TripIndex(feed) : t.id = id
  BY DEF Trip
<1> DEFINE t == CHOOSE u \in TripIndex(feed) : u.id = id
<1>2. t \in TripIndex(feed) /\ t.id = id
  BY <1>1
<1>3. Trip(id) = t.calls /\ feed \in Feeds
  BY <1>1 DEF Trip
<1> HIDE DEF t
<1> QED
  BY <1>2, <1>3 DEF Known

\* An entry is stored only with what gtfs-static answered for its trip.
LEMMA CacheStep == CacheOK /\ RestOK /\ [Next]_vars => CacheOK'
<1> SUFFICES ASSUME CacheOK, RestOK, [Next]_vars PROVE CacheOK'
  OBVIOUS
<1>1. CASE UNCHANGED shared
  BY <1>1 DEF shared, CacheOK
<1>2. CASE Fetched
  <2>1. PICK id : /\ Trip(id) # None
                  /\ tripCache' = [tripCache EXCEPT ![id] = Trip(id)] /\ late' = late
    BY <1>2 DEF Fetched
  <2>2. Trip(id) \in Known(id)
    BY <2>1, TripKnown DEF RestOK
  <2> QED
    BY <2>1, <2>2 DEF CacheOK
<1>3. ASSUME NEW id \in Busy, OtherFetched(id) PROVE CacheOK'
  <2>1. id \in TripIDs /\ Trip(id) \in Known(id)
    BY <1>3, TripKnown, StaticClientAssumption DEF OtherFetched, RestOK
  <2>2. tripCache' = tripCache /\ late'.id = id /\ late'.calls = Trip(id)
    BY <1>3 DEF OtherFetched
  <2> QED
    BY <2>1, <2>2 DEF CacheOK
<1>4. CASE OtherStores
  <2>1. late.id \in TripIDs /\ late.calls \in Known(late.id) /\ late' = None
        /\ tripCache' = [tripCache EXCEPT ![late.id] = late.calls]
    BY <1>4 DEF OtherStores, CacheOK
  <2> QED
    BY <2>1 DEF CacheOK
<1> QED
  BY <1>1, <1>2, <1>3, <1>4
  DEF Next, vars, Refresh, Request, GetSchedule, GetScheduleFails, GetDestination,
      GetDestinationFails, Plain, Hit, FetchFails, Answer

\* The variables of the request and of gtfs-static keep their types.
LEMMA RestStep == RestOK /\ [Next]_vars => RestOK'
<1> SUFFICES ASSUME RestOK, [Next]_vars PROVE RestOK'
  OBVIOUS
<1>0. MaxRefreshes \in Nat /\ MaxRequests \in Nat
  BY StaticClientAssumption
<1>1. CASE Refresh
  BY <1>0, <1>1 DEF Refresh, RestOK, request
<1>2. CASE Request
  <2>1. /\ UNCHANGED <<feed, refreshes>> /\ pc' = "schedule" /\ req' \in Requests
        /\ asked < MaxRequests /\ asked' = asked + 1 /\ source' = None
    BY <1>2 DEF Request, remote
  <2>2. failed' = FALSE
    BY <1>2, Zenon DEF Request
  <2>3. asked' \in 0..MaxRequests
    BY <1>0, <2>1 DEF RestOK
  <2> QED
    BY <2>1, <2>2, <2>3, Zenon DEF RestOK
<1>3. CASE GetSchedule
  <2>1. /\ UNCHANGED <<feed, refreshes, req, asked, failed>> /\ source' = feed
        /\ pc' \in {"ids", "rows"}
    BY <1>3 DEF GetSchedule, remote
  <2> QED
    BY <2>1 DEF RestOK
<1>4. CASE GetScheduleFails \/ GetDestination \/ GetDestinationFails \/ FetchFails \/ Answer
  <2>1. UNCHANGED <<feed, refreshes, request>> /\ pc' \in {"idle", "rows"} \cup {pc}
        /\ failed' \in {failed, TRUE}
    BY <1>4 DEF GetScheduleFails, GetDestination, GetDestinationFails, FetchFails, Answer, remote
  <2> QED
    BY <2>1 DEF RestOK, request
<1>5. CASE Plain \/ Hit \/ Fetched \/ (\E id \in Busy : OtherFetched(id)) \/ OtherStores \/ UNCHANGED vars
  <2>1. UNCHANGED <<remote, request, pc, failed>>
    BY <1>5 DEF Plain, Hit, Fetched, OtherFetched, OtherStores, vars
  <2> QED
    BY <2>1 DEF RestOK, remote, request
<1> QED
  BY <1>1, <1>2, <1>3, <1>4, <1>5 DEF Next

\* They have them from the start: CHOOSE takes one of the requests given.
LEMMA InitRest == Init => RestOK
<1> SUFFICES ASSUME Init PROVE RestOK
  OBVIOUS
<1>1. req \in Requests
  BY StaticClientAssumption DEF Init
<1>2. failed = FALSE
  BY Zenon DEF Init
<1>3. feed = None /\ refreshes = 0 /\ pc = "idle" /\ asked = 0 /\ source = None
  BY DEF Init
<1>4. 0 \in 0..MaxRefreshes /\ 0 \in 0..MaxRequests
  BY StaticClientAssumption
<1> QED
  BY <1>1, <1>2, <1>3, <1>4, Zenon DEF RestOK

\* A trip is cached, or on its way into the cache, only as a timetable has it:
\* no failure, no answer of an empty store and no other trip's calls.
THEOREM TypeCorrect == Spec => []TypeOK
<1>1. Init => CacheOK /\ RestOK
  <2>1. Init => CacheOK
    BY DEF Init, CacheOK
  <2> QED
    BY <2>1, InitRest
<1>2. CacheOK /\ RestOK /\ [Next]_vars => (CacheOK /\ RestOK)'
  BY CacheStep, RestStep
<1>3. CacheOK /\ RestOK => TypeOK
  BY DEF CacheOK, RestOK, TypeOK
<1> QED
  BY <1>1, <1>2, <1>3, PTL DEF Spec

-----------------------------------------------------------------------------
(* The rows a handler was given.                                            *)

\* They are an answer of ScheduleForStop to this very request.
GivenOK ==
    /\ source = None => schedule = << >>
    /\ source # None => schedule \in ScheduleForStop(source, req.code, req.now)

\* Only GetSchedule gives rows, and a new request forgets the old ones.
LEMMA GivenStep == GivenOK /\ [Next]_vars => GivenOK'
<1> SUFFICES ASSUME GivenOK, [Next]_vars PROVE GivenOK'
  OBVIOUS
<1>1. CASE UNCHANGED request
  BY <1>1 DEF request, GivenOK
<1>2. CASE Request
  BY <1>2 DEF Request, GivenOK
<1>3. CASE GetSchedule
  BY <1>3 DEF GetSchedule, GivenOK
<1> QED
  BY <1>1, <1>2, <1>3
  DEF Next, vars, Refresh, GetScheduleFails, GetDestination, GetDestinationFails,
      Plain, Hit, Fetched, FetchFails, Answer, OtherFetched, OtherStores

\* The two together, as the invariant the properties of the rows rest on.
LEMMA GivenCorrect == Spec => [](RestOK /\ GivenOK)
<1>1. Init => RestOK /\ GivenOK
  BY InitRest DEF Init, GivenOK
<1>2. RestOK /\ GivenOK /\ [Next]_vars => (RestOK /\ GivenOK)'
  BY RestStep, GivenStep
<1> QED
  BY <1>1, <1>2, PTL DEF Spec

\* What the lemmas about Schedule say of the rows.
LEMMA RowsOfBoard ==
  ASSUME RestOK, GivenOK, Given
  PROVE  /\ source \in Feeds /\ req \in Requests
         /\ LET S == Candidates(source, req.code, req.now) IN
            \E list \in Seq(S) :
              /\ schedule = [k \in DOMAIN list |-> Row(source, req.code, list[k])]
              /\ DOMAIN schedule = DOMAIN list /\ Len(schedule) = Len(list)
              /\ Len(list) <= MaxResults /\ Distinct(list) /\ InOrder(list)
              /\ \A c \in S : Listed(list, S, c)
<1> DEFINE S == Candidates(source, req.code, req.now)
<1>1. source \in Feeds /\ req \in Requests /\ schedule \in ScheduleForStop(source, req.code, req.now)
  BY DEF RestOK, GivenOK, Given
<1>2. PICK list \in Seq(S) :
              /\ schedule = [k \in DOMAIN list |-> Row(source, req.code, list[k])]
              /\ Len(list) <= MaxResults /\ Distinct(list) /\ InOrder(list)
              /\ \A c \in S : Listed(list, S, c)
  BY <1>1, Boards
<1>3. DOMAIN schedule = DOMAIN list /\ Len(schedule) = Len(list)
  <2> HIDE DEF S
  <2>1. Len(list) \in Nat /\ DOMAIN list = 1..Len(list)
    BY <1>2
  <2> QED BY <1>2, <2>1
<1> QED BY <1>1, <1>2, <1>3

\* Every row is a departure within the window, by a train that goes on, on a
\* day it runs, with the stops it has yet to call at.
THEOREM RowsDepart == Spec => []Sound
<1>1. RestOK /\ GivenOK => Sound
  <2> SUFFICES ASSUME RestOK, GivenOK, Given, SteadyClocks(req.now), NEW row \in Rows
               PROVE  \E x \in Departing(source, req.code, req.now) :
                        /\ row.trip = x.trip.id /\ row.day = x.day
                        /\ row.stop = x.trip.calls[x.call].stop /\ row.dep = x.trip.calls[x.call].dep
                        /\ IsSuffix(row.stops, [i \in DOMAIN x.trip.calls |-> x.trip.calls[i].stop])
    BY DEF Sound
  <2> DEFINE S == Candidates(source, req.code, req.now)
  <2>1. PICK list \in Seq(S) :
           /\ schedule = [k \in DOMAIN list |-> Row(source, req.code, list[k])]
           /\ DOMAIN schedule = DOMAIN list
    BY RowsOfBoard
  <2>2. PICK k \in DOMAIN schedule : row = schedule[k]
    BY DEF Rows
  <2> DEFINE c == list[k]
  <2>3. c \in S /\ row = Row(source, req.code, c)
    <3> HIDE DEF S
    <3> QED BY <2>1, <2>2
  <2>4. source \in Feeds /\ req \in Requests
    BY RowsOfBoard
  <2> HIDE DEF c
  <2>5. PICK x \in Departing(source, req.code, req.now) :
           /\ x.trip \in source.trips /\ row.day = x.day /\ c.trip = x.trip
           /\ row.stop = x.trip.calls[x.call].stop /\ row.dep = x.trip.calls[x.call].dep
    BY <2>3, <2>4, RowLeaves DEF CoveredDeparting
  <2>6. row.trip = c.trip.id
    BY <2>3 DEF Row
  <2> DEFINE ids == StopIDsForCode(source, req.code)
  <2>7. row.stops = [i \in DOMAIN Remaining(c.trip, ids) |-> Remaining(c.trip, ids)[i].stop]
    <3> HIDE DEF S
    <3> QED BY <2>3 DEF Row
  <2>8. IsSuffix(row.stops, [i \in DOMAIN x.trip.calls |-> x.trip.calls[i].stop])
    <3> HIDE DEF ids
    <3> QED BY <2>4, <2>5, <2>7, RemainingIsSuffix
  <2> QED BY <2>5, <2>6, <2>8
<1> QED
  BY <1>1, GivenCorrect, PTL

\* No train number and no minute of a line is on the board twice, and the
\* departures are in order.
THEOREM NoDoubles == Spec => []OnceEach
<1>1. RestOK /\ GivenOK => OnceEach
  <2> SUFFICES ASSUME RestOK, GivenOK, NEW i \in DOMAIN schedule, NEW j \in DOMAIN schedule, i < j
               PROVE  /\ schedule[i].number # schedule[j].number
                      /\ <<schedule[i].time, schedule[i].route, schedule[i].stop>>
                            # <<schedule[j].time, schedule[j].route, schedule[j].stop>>
                      /\ SteadyClocks(req.now) =>
                            Midnight[schedule[i].day] + schedule[i].dep <= Midnight[schedule[j].day] + schedule[j].dep
    BY DEF OnceEach
  <2>0. Given
    BY DEF Given, GivenOK
  <2> DEFINE S == Candidates(source, req.code, req.now)
  <2>1. PICK list \in Seq(S) :
           /\ schedule = [k \in DOMAIN list |-> Row(source, req.code, list[k])]
           /\ DOMAIN schedule = DOMAIN list /\ Distinct(list) /\ InOrder(list)
    BY <2>0, RowsOfBoard
  <2>2. /\ i \in DOMAIN list /\ j \in DOMAIN list /\ list[i] \in S /\ list[j] \in S
        /\ schedule[i] = Row(source, req.code, list[i])
        /\ schedule[j] = Row(source, req.code, list[j])
    <3> HIDE DEF S
    <3> QED BY <2>1
  <2>3. /\ list[i].trip.number # list[j].trip.number /\ Line(list[i]) # Line(list[j])
        /\ Leaves(list[i]) <= Leaves(list[j])
    BY <2>1, <2>2 DEF Distinct, InOrder
  <2>4. \A c : LET row == Row(source, req.code, c) IN
               row.number = c.trip.number /\ <<row.time, row.route, row.stop>> = Line(c)
    BY DEF Row, Line
  <2>5. ASSUME SteadyClocks(req.now)
        PROVE  /\ Midnight[schedule[i].day] + schedule[i].dep = Leaves(list[i])
               /\ Midnight[schedule[j].day] + schedule[j].dep = Leaves(list[j])
    <3>1. source \in Feeds /\ req \in Requests
      BY <2>0, RowsOfBoard
    <3> QED BY <2>2, <2>5, <3>1, RowLeaves
  <2> HIDE DEF S
  <2>6. schedule[i].number # schedule[j].number
    BY <2>2, <2>3, <2>4
  <2>7. /\ <<schedule[i].time, schedule[i].route, schedule[i].stop>> = Line(list[i])
        /\ <<schedule[j].time, schedule[j].route, schedule[j].stop>> = Line(list[j])
    BY <2>2, <2>4
  <2> QED BY <2>3, <2>5, <2>6, <2>7
<1> QED
  BY <1>1, GivenCorrect, PTL


\* Each departure within the window that belongs to today's or yesterday's
\* service is listed, or one of its line and minute is, or one of the line and
\* minute of a departure no later that had its number; or the board is full of
\* departures no later than it.
THEOREM CoveredNotForgotten == Spec => []Represented
<1>1. RestOK /\ GivenOK => Represented
  <2> DEFINE D == CoveredDeparting(source, req.code, req.now)
             S == Candidates(source, req.code, req.now)
  <2> SUFFICES ASSUME RestOK, GivenOK, Given, SteadyWindow(req.now), NEW x \in D
               PROVE  \/ \E y \in D : /\ y.trip.number = x.trip.number /\ Instant(y) <= Instant(x)
                                      /\ \E row \in Rows : SameLine(row, y)
                      \/ /\ Len(schedule) = MaxResults
                         /\ \A row \in Rows : Midnight[row.day] + row.dep <= Instant(x)
    BY DEF Represented
  <2>0. SteadyClocks(req.now) /\ source \in Feeds /\ req \in Requests
    BY RowsOfBoard DEF SteadyWindow
  <2>1. PICK list \in Seq(S) :
           /\ schedule = [k \in DOMAIN list |-> Row(source, req.code, list[k])]
           /\ DOMAIN schedule = DOMAIN list /\ Len(schedule) = Len(list)
           /\ \A c \in S : Listed(list, S, c)
    BY RowsOfBoard
  <2>2. \A k \in DOMAIN list : list[k] \in S /\ schedule[k] = Row(source, req.code, list[k]) /\ schedule[k] \in Rows
    <3> HIDE DEF S
    <3> QED BY <2>1 DEF Rows
  <2>3. \A row \in Rows : \E k \in DOMAIN list : row = schedule[k]
    BY <2>1 DEF Rows
  <2>4. \A c \in S : Midnight[Row(source, req.code, c).day] + Row(source, req.code, c).dep = Leaves(c)
    BY <2>0, RowLeaves
  <2>5. CallOf(x) \in S /\ Leaves(CallOf(x)) = Instant(x) /\ CallOf(x).trip = x.trip
    BY <2>0, DepartureIsCandidate DEF CallOf, CallAt
  <2>6. Listed(list, S, CallOf(x))
    BY <2>1, <2>5
  <2>7. ASSUME NEW d \in S, d.trip.number = x.trip.number, Leaves(d) <= Instant(x),
               NEW k \in DOMAIN list, Line(list[k]) = Line(d)
        PROVE  \E y \in D : /\ y.trip.number = x.trip.number /\ Instant(y) <= Instant(x)
                            /\ \E row \in Rows : SameLine(row, y)
    <3>1. PICK y \in D : d = CallOf(y)
      BY <2>0, CandidateDeparts
    <3>2. d.trip = y.trip /\ d.stop = y.trip.calls[y.call].stop /\ Leaves(d) = Instant(y)
      BY <3>1 DEF CallOf, CallAt, Leaves, Instant
    <3> DEFINE row == schedule[k]
               c == list[k]
    <3>3. c \in S /\ row = Row(source, req.code, c) /\ row \in Rows
      BY <2>2
    <3> HIDE DEF row, c
    <3>4. /\ row.route = c.trip.route /\ row.stop = c.stop
          /\ Midnight[row.day] + row.dep = Leaves(c)
      <4>1. row.route = c.trip.route /\ row.stop = c.stop
        BY <3>3, Zenon DEF Row
      <4>2. Midnight[row.day] + row.dep = Leaves(c)
        <5> HIDE DEF S
        <5> QED BY <2>4, <3>3
      <4> QED BY <4>1, <4>2
    <3>5. Wall(Leaves(c)) = Wall(Leaves(d)) /\ c.trip.route = d.trip.route /\ c.stop = d.stop
      BY <2>7 DEF Line, c
    <3>6. Leaves(c) \in req.now..(req.now + LookAhead) /\ Leaves(d) \in req.now..(req.now + LookAhead)
      BY <2>0, <2>7, <3>3, CandidatesFinite
    <3>7. Leaves(c) = Leaves(d)
      BY <2>0, <3>5, <3>6, WallOnce
    <3>8. SameLine(row, y)
      BY <3>2, <3>4, <3>5, <3>7 DEF SameLine
    <3>9. y.trip.number = x.trip.number /\ Instant(y) <= Instant(x)
      BY <2>7, <3>2
    <3> HIDE DEF D
    <3> QED BY <3>1, <3>3, <3>8, <3>9
  <2>8. CASE Len(list) = MaxResults /\ \A k \in DOMAIN list : Leaves(list[k]) <= Leaves(CallOf(x))
    <3>1. ASSUME NEW row \in Rows PROVE Midnight[row.day] + row.dep <= Instant(x)
      <4>1. PICK k \in DOMAIN list : row = schedule[k]
        BY <2>3
      <4>2. Midnight[row.day] + row.dep = Leaves(list[k])
        <5> HIDE DEF S
        <5> QED BY <2>2, <2>4, <4>1
      <4> QED BY <2>5, <2>8, <4>2
    <3> QED BY <2>1, <2>8, <3>1
  <2>9. CASE \E d \in S : /\ d.trip.number = CallOf(x).trip.number /\ Leaves(d) <= Leaves(CallOf(x))
                          /\ \E k \in DOMAIN list : Line(list[k]) = Line(d)
    <3>1. PICK d \in S, k \in DOMAIN list :
             d.trip.number = x.trip.number /\ Leaves(d) <= Instant(x) /\ Line(list[k]) = Line(d)
      <4> HIDE DEF S
      <4> QED BY <2>5, <2>9
    <3> QED BY <2>7, <3>1
  <2> QED BY <2>6, <2>8, <2>9, Zenon DEF Listed
<1> QED
  BY <1>1, GivenCorrect, PTL


-----------------------------------------------------------------------------
(* What browsers can find.                                                  *)

\* From each call of a train at which it may be boarded, at a stop or a
\* platform of a station with a position, a stop on offer leads to that call.
THEOREM TrainsFindable == Spec => []Findable
<1>1. RestOK => Findable
  <2> SUFFICES ASSUME RestOK, feed # None,
                      NEW t \in TripIndex(feed), t.rail, NEW i \in 1..(Len(t.calls) - 1),
                      LET s == feed.stops[t.calls[i].stop] IN
                      s.located \/ (s.parent # None /\ feed.stops[s.parent].located)
               PROVE  \E code \in AllStops(feed) : t.calls[i].stop \in StopIDsForCode(feed, code)
    BY Zenon DEF Findable
  <2> DEFINE id == t.calls[i].stop
             s == feed.stops[id]
             called == UNION {{u.calls[k].stop : k \in DOMAIN u.calls} :
                              u \in {u \in feed.trips : u.rail /\ u.route # None}}
  <2>1. feed \in Feeds /\ t \in feed.trips /\ t.route # None
    BY DEF RestOK, TripIndex
  <2>2. i \in DOMAIN t.calls /\ id \in DOMAIN feed.stops
    BY <2>1, Trips
  <2>3. id \in called
    <3>1. id \in {t.calls[k].stop : k \in DOMAIN t.calls}
      BY <2>2
    <3>2. t \in {u \in feed.trips : u.rail /\ u.route # None}
      BY <2>1
    <3> HIDE DEF id
    <3> QED BY <3>1, <3>2
  <2>4. RailStops(feed) = called \cup ({feed.stops[k].parent : k \in called} \ {None})
    BY Zenon DEF RailStops
  <2>5. CASE s.located
    <3>1. id \in RailStops(feed)
      <4> HIDE DEF called, id
      <4> QED BY <2>3, <2>4
    <3>2. Key(feed, id) \in AllStops(feed)
      BY <2>5, <3>1 DEF AllStops
    <3>3. id \in StopIDsForCode(feed, Key(feed, id))
      <4> HIDE DEF id
      <4> QED BY <2>2 DEF StopIDsForCode
    <3> QED BY <3>2, <3>3
  <2>6. CASE s.parent # None /\ feed.stops[s.parent].located
    <3>1. s.parent \in RailStops(feed)
      <4> HIDE DEF called, id
      <4> QED BY <2>3, <2>4, <2>6
    <3>2. Key(feed, s.parent) \in AllStops(feed)
      BY <2>6, <3>1 DEF AllStops
    <3>3. id \in StopIDsForCode(feed, Key(feed, s.parent))
      <4> HIDE DEF id
      <4> QED BY <2>2, <2>6 DEF StopIDsForCode
    <3> QED BY <3>2, <3>3
  <2> QED BY <2>5, <2>6
<1> QED
  BY <1>1, GivenCorrect, PTL

-----------------------------------------------------------------------------
(* What the handler answers.                                                *)

Arrivals(row) == {b.arrival : b \in {board[i] : i \in {k \in DOMAIN board : board[k].row = row}}}

\* Each row is yet to be looked at, or the board has its next call.
BoardOK ==
    /\ todo \in Seq(Rows) /\ board \in Seq([row : Rows, arrival : Nat \cup {None}])
    /\ pc \in {"schedule", "ids"} => board = << >>
    /\ pc = "schedule" => source = None /\ destIDs = {}
    /\ pc = "ids" => todo = schedule
    /\ pc = "idle" /\ Given /\ ~failed => todo = << >>
    /\ destIDs # {} => \A i \in DOMAIN board :
          Steady(board[i].row) => board[i].arrival \in NextCalls(board[i].row)
    /\ destIDs # {} /\ ~failed => \A row \in Rows : Steady(row) =>
          (\E i \in DOMAIN todo : todo[i] = row) \/ NextCalls(row) \subseteq Arrivals(row)

\* What a timetable has for a trip is a list of calls with times.
LEMMA KnownCalls ==
  ASSUME NEW id, NEW calls \in Known(id)
  PROVE  /\ Len(calls) \in Nat /\ DOMAIN calls = 1..Len(calls)
         /\ \A i \in DOMAIN calls : calls[i].arr \in Nat
<1>1. PICK f \in Feeds : \E t \in TripIndex(f) : calls = t.calls
  BY DEF Known
<1> QED BY <1>1, Trips

\* ArrivalTimeAtStop finds where a steady train next calls.
LEMMA ArrivalAgrees ==
  ASSUME NEW row, Steady(row), NEW calls \in Known(row.trip)
  PROVE  /\ Arrival(row, calls) = None => NextCalls(row) = {}
         /\ Arrival(row, calls) # None => NextCalls(row) = {Arrival(row, calls)}
<1> DEFINE from == FirstCallAt(calls, {row.stop})
           to == NextCallAt(calls, from, destIDs)
           after == {j \in DOMAIN calls : /\ calls[j].stop \in destIDs
                                          /\ \E i \in 1..(j - 1) : calls[i].stop = row.stop}
           first == {k \in after : \A l \in after : k <= l}
<1>1. Len(calls) \in Nat /\ DOMAIN calls = 1..Len(calls) /\ \A i \in DOMAIN calls : calls[i].arr \in Nat
  BY KnownCalls
<1>2. NextCalls(row) = {calls[j].arr : j \in first}
  <2>1. Known(row.trip) = {calls}
    BY DEF Steady
  <2> DEFINE chosen == CHOOSE c \in Known(row.trip) : TRUE
             later(c) == {j \in DOMAIN c : /\ c[j].stop \in destIDs
                                           /\ \E i \in 1..(j - 1) : c[i].stop = row.stop}
             next(c) == {c[j].arr : j \in {k \in later(c) : \A l \in later(c) : k <= l}}
  <2>2. chosen = calls
    BY <2>1
  <2>3. NextCalls(row) = next(chosen)
    BY Zenon DEF NextCalls
  <2>4. NextCalls(row) = next(calls)
    <3> HIDE DEF chosen, next
    <3> QED BY <2>2, <2>3
  <2> QED BY <2>4
<1>3. /\ from \in 0..Len(calls)
      /\ from = 0 => \A i \in 1..Len(calls) : calls[i].stop # row.stop
      /\ from # 0 => calls[from].stop = row.stop /\ \A i \in 1..(from - 1) : calls[i].stop # row.stop
  BY <1>1, FirstCall
<1>4. /\ to = 0 \/ to \in (from + 1)..Len(calls)
      /\ to = 0 => \A i \in (from + 1)..Len(calls) : calls[i].stop \notin destIDs
      /\ to # 0 => calls[to].stop \in destIDs /\ \A i \in (from + 1)..(to - 1) : calls[i].stop \notin destIDs
  <2>1. from \in Nat
    BY <1>1, <1>3
  <2> HIDE DEF from
  <2> QED BY <1>1, <2>1, NextCall
<1>5. Arrival(row, calls) = IF from = 0 \/ to = 0 THEN None ELSE calls[to].arr
  BY DEF Arrival, ArrivalTimeAtStop
<1> HIDE DEF from, to
<1>6. CASE from = 0
  <2>1. after = {}
    BY <1>1, <1>3, <1>6
  <2> QED BY <1>2, <1>5, <1>6, <2>1, StaticClientAssumption
<1>7. CASE from # 0
  <2>1. \A j \in DOMAIN calls : (\E i \in 1..(j - 1) : calls[i].stop = row.stop) <=> j > from
    <3> TAKE j \in DOMAIN calls
    <3>1. ASSUME NEW i \in 1..(j - 1), calls[i].stop = row.stop PROVE j > from
      BY <1>1, <1>3, <1>7, <3>1
    <3>2. j > from => from \in 1..(j - 1)
      BY <1>1, <1>3, <1>7
    <3> QED BY <1>3, <1>7, <3>1, <3>2
  <2>2. after = {j \in DOMAIN calls : calls[j].stop \in destIDs /\ j > from}
    BY <2>1
  <2> HIDE DEF after
  <2>3. CASE to = 0
    <3>1. \A j \in DOMAIN calls : j > from => calls[j].stop \notin destIDs
      BY <1>1, <1>3, <1>4, <2>3
    <3>2. after = {}
      BY <2>2, <3>1
    <3> QED BY <1>2, <1>5, <2>3, <3>2
  <2>4. CASE to # 0
    <3>1. to \in DOMAIN calls /\ to > from /\ calls[to].stop \in destIDs
      BY <1>1, <1>3, <1>4, <2>4
    <3>2. \A j \in after : j \in DOMAIN calls /\ ~(j < to)
      BY <1>1, <1>3, <1>4, <2>2, <2>4
    <3>3. first = {to}
      <4>1. to \in after
        BY <2>2, <3>1
      <4>2. \A j \in after : j \in Nat /\ to <= j
        BY <1>1, <3>1, <3>2
      <4> QED BY <4>1, <4>2
    <3>4. NextCalls(row) = {calls[to].arr} /\ calls[to].arr \in Nat
      <4> HIDE DEF first
      <4> QED BY <1>1, <1>2, <3>1, <3>3
    <3> QED BY <1>5, <1>7, <2>4, <3>4, StaticClientAssumption
  <2> QED BY <2>3, <2>4
<1> QED BY <1>6, <1>7

\* A row names a trip of some timetable.
LEMMA RowsTrips ==
  ASSUME RestOK, GivenOK, NEW row \in Rows
  PROVE  row.trip \in TripIDs
<1>1. Given
  BY DEF Rows, GivenOK, Given
<1> DEFINE S == Candidates(source, req.code, req.now)
<1>2. PICK list \in Seq(S) : schedule = [k \in DOMAIN list |-> Row(source, req.code, list[k])]
  BY <1>1, RowsOfBoard
<1>3. PICK k \in DOMAIN list : row = Row(source, req.code, list[k]) /\ list[k] \in S
  <2> HIDE DEF S
  <2> QED BY <1>2 DEF Rows
<1>4. source \in Feeds
  BY <1>1, RowsOfBoard
<1>5. list[k].trip \in source.trips
  <2>1. PICK b : list[k] \in Offered(source, req.code, req.now, b)
    BY <1>3, CandidatesOffered
  <2>2. PICK t \in GoingOn(source, StopIDsForCode(source, req.code)) :
           list[k] \in {CallAt(t, i, b) : i \in DOMAIN t.calls}
    BY <2>1 DEF Offered
  <2>3. list[k].trip = t
    BY <2>2 DEF CallAt
  <2>4. t \in source.trips
    BY <1>4, Trips
  <2> QED BY <2>3, <2>4
<1>6. row.trip = list[k].trip.id
  BY <1>3 DEF Row
<1> QED BY <1>4, <1>5, <1>6 DEF TripIDs


\* The next row is looked at: it is listed with its arrival, or left out when
\* the train does not go to the destination.
LEMMA ShownStep ==
  ASSUME RestOK, GivenOK, BoardOK, pc = "rows", todo # << >>, destIDs # {},
         NEW calls \in Known(Head(todo).trip),
         board' = Shown(Head(todo), calls), todo' = Tail(todo),
         pc' = pc, UNCHANGED <<request, destIDs, failed>>
  PROVE  BoardOK'
<1> DEFINE row == Head(todo)
           at == Arrival(row, calls)
           E == [row : Rows, arrival : Nat \cup {None}]
           Kept ==
             /\ board' \in Seq(E)
             /\ \A i \in DOMAIN board' : Steady(board'[i].row) => board'[i].arrival \in NextCalls(board'[i].row)
             /\ ~failed => \A r \in Rows : Steady(r) =>
                   (\E i \in DOMAIN todo' : todo'[i] = r) \/ NextCalls(r) \subseteq Arrivals(r)'
<1>1. /\ Rows' = Rows /\ schedule' = schedule /\ source' = source /\ Given' = Given
      /\ destIDs' = destIDs /\ failed' = failed /\ pc' = "rows"
      /\ \A r : Steady(r)' = Steady(r) /\ NextCalls(r)' = NextCalls(r)
  BY DEF request, Rows, Given, Steady, NextCalls
<1>2. /\ todo \in Seq(Rows) /\ board \in Seq(E)
      /\ \A i \in DOMAIN board : Steady(board[i].row) => board[i].arrival \in NextCalls(board[i].row)
      /\ ~failed => \A r \in Rows : Steady(r) =>
            (\E i \in DOMAIN todo : todo[i] = r) \/ NextCalls(r) \subseteq Arrivals(r)
  BY DEF BoardOK
<1>3. /\ row \in Rows /\ todo' \in Seq(Rows)
      /\ \A r : (\E i \in DOMAIN todo : todo[i] = r) => r = row \/ (\E i \in DOMAIN todo' : todo'[i] = r)
  <2>1. row = todo[1] /\ row \in Rows /\ todo' \in Seq(Rows) /\ Len(todo') = Len(todo) - 1
    BY <1>2
  <2>2. ASSUME NEW i \in DOMAIN todo, i # 1 PROVE i - 1 \in DOMAIN todo' /\ todo'[i - 1] = todo[i]
    BY <1>2, <2>2
  <2> QED BY <2>1, <2>2
<1>4. at # None => at \in Nat
  <2>1. PICK j \in Int : at = None \/ (at = calls[j].arr /\ j \in DOMAIN calls)
    <3>1. Len(calls) \in Nat /\ DOMAIN calls = 1..Len(calls)
      BY KnownCalls
    <3> DEFINE from == FirstCallAt(calls, {row.stop})
               to == NextCallAt(calls, from, destIDs)
    <3>2. from \in 0..Len(calls)
      BY <3>1, FirstCall
    <3>3. to = 0 \/ to \in (from + 1)..Len(calls)
      <4>1. from \in Nat
        BY <3>1, <3>2
      <4> HIDE DEF from
      <4> QED BY <3>1, <4>1, NextCall
    <3>4. at = IF from = 0 \/ to = 0 THEN None ELSE calls[to].arr
      BY DEF Arrival, ArrivalTimeAtStop
    <3> HIDE DEF from, to, at
    <3>5. to \in Int /\ (to # 0 => to \in DOMAIN calls)
      BY <3>1, <3>2, <3>3
    <3> QED BY <3>4, <3>5
  <2> HIDE DEF at
  <2> QED BY <2>1, KnownCalls
<1> HIDE DEF row, at, E, Kept
<1>5. ASSUME at = None PROVE Kept
  <2>1. board' = board
    BY <1>5 DEF Shown, row, at
  <2>2. Steady(row) => NextCalls(row) = {}
    BY <1>5, ArrivalAgrees DEF row, at
  <2>3. \A r : Arrivals(r)' = Arrivals(r)
    BY <2>1 DEF Arrivals
  <2>4. ~failed => \A r \in Rows : Steady(r) =>
            (\E i \in DOMAIN todo' : todo'[i] = r) \/ NextCalls(r) \subseteq Arrivals(r)
    BY <1>2, <1>3, <2>2
  <2>5. board' \in Seq(E)
    BY <1>2, <2>1
  <2> QED BY <1>2, <2>1, <2>3, <2>4, <2>5, Zenon DEF Kept
<1>6. ASSUME at # None PROVE Kept
  <2> DEFINE e == [row |-> row, arrival |-> at]
             n == Len(board)
  <2>1. board' = Append(board, e)
    BY <1>6 DEF Shown, row, at
  <2>2. e \in E /\ n \in Nat
    BY <1>2, <1>3, <1>4, <1>6 DEF E
  <2>3. /\ board' \in Seq(E) /\ DOMAIN board = 1..n /\ DOMAIN board' = 1..(n + 1)
        /\ board'[n + 1] = e /\ \A i \in 1..n : board'[i] = board[i]
    <3>1. /\ Append(board, e) \in Seq(E) /\ DOMAIN board = 1..n
          /\ DOMAIN Append(board, e) = 1..(n + 1)
          /\ Append(board, e)[n + 1] = e /\ \A i \in 1..n : Append(board, e)[i] = board[i]
      <4> HIDE DEF e
      <4> QED BY <1>2, <2>2
    <3> QED BY <2>1, <3>1, Zenon
  <2> HIDE DEF n
  <2>4. Steady(row) => NextCalls(row) = {at}
    BY <1>6, ArrivalAgrees DEF row, at
  <2>5. \A i \in DOMAIN board' : Steady(board'[i].row) => board'[i].arrival \in NextCalls(board'[i].row)
    <3> TAKE i \in DOMAIN board'
    <3>1. CASE i \in 1..n
      BY <1>2, <2>3, <3>1
    <3>2. CASE i = n + 1
      BY <2>3, <2>4, <3>2
    <3> QED BY <2>2, <2>3, <3>1, <3>2
  <2>6. \A r : Arrivals(r) \subseteq Arrivals(r)' /\ (r = row => at \in Arrivals(r)')
    <3> TAKE r
    <3>1. ASSUME NEW a \in Arrivals(r) PROVE a \in Arrivals(r)'
      <4>1. PICK i \in DOMAIN board : board[i].row = r /\ a = board[i].arrival
        BY <3>1 DEF Arrivals
      <4>2. i \in DOMAIN board' /\ board'[i] = board[i]
        BY <2>2, <2>3
      <4> QED BY <4>1, <4>2 DEF Arrivals
    <3>2. r = row => at \in Arrivals(r)'
      <4>1. n + 1 \in DOMAIN board'
        BY <2>2, <2>3
      <4>2. board'[n + 1].row = row /\ board'[n + 1].arrival = at
        BY <2>3
      <4> QED BY <4>1, <4>2 DEF Arrivals
    <3> QED BY <3>1, <3>2
  <2>7. ~failed => \A r \in Rows : Steady(r) =>
            (\E i \in DOMAIN todo' : todo'[i] = r) \/ NextCalls(r) \subseteq Arrivals(r)'
    <3> SUFFICES ASSUME ~failed, NEW r \in Rows, Steady(r)
                 PROVE  (\E i \in DOMAIN todo' : todo'[i] = r) \/ NextCalls(r) \subseteq Arrivals(r)'
      OBVIOUS
    <3>1. (\E i \in DOMAIN todo : todo[i] = r) \/ NextCalls(r) \subseteq Arrivals(r)
      BY <1>2
    <3>2. CASE r = row
      BY <2>4, <2>6, <3>2
    <3>3. CASE r # row
      BY <1>3, <2>6, <3>1, <3>3
    <3> QED BY <3>2, <3>3
  <2> QED BY <2>3, <2>5, <2>7, Zenon DEF Kept
<1>7. Kept
  BY <1>5, <1>6
<1>8. (todo \in Seq(Rows) /\ board \in Seq([row : Rows, arrival : Nat \cup {None}]))'
  BY <1>1, <1>3, <1>7 DEF Kept, E
<1>9. (destIDs # {} => \A i \in DOMAIN board :
          Steady(board[i].row) => board[i].arrival \in NextCalls(board[i].row))'
  <2>1. \A i \in DOMAIN board' : Steady(board'[i].row) => board'[i].arrival \in NextCalls(board'[i].row)
    BY <1>7, Zenon DEF Kept
  <2> QED BY <1>1, <2>1
<1>10. (destIDs # {} /\ ~failed => \A r \in Rows : Steady(r) =>
          (\E i \in DOMAIN todo : todo[i] = r) \/ NextCalls(r) \subseteq Arrivals(r))'
  <2>1. ~failed => \A r \in Rows : Steady(r) =>
            (\E i \in DOMAIN todo' : todo'[i] = r) \/ NextCalls(r) \subseteq Arrivals(r)'
    BY <1>7, Zenon DEF Kept
  <2> QED BY <1>1, <2>1
<1> QED BY <1>1, <1>8, <1>9, <1>10, Zenon DEF BoardOK


\* A step that leaves the rows, the board and the destination alone.
LEMMA BoardStays ==
  ASSUME BoardOK, UNCHANGED <<request, todo, board, destIDs>>,
         failed' = failed \/ failed' = TRUE,
         \/ pc' = pc
         \/ pc' = "rows"
         \/ pc' = "idle" /\ (failed' = TRUE \/ todo = << >>)
  PROVE  BoardOK'
<1>1. /\ Rows' = Rows /\ schedule' = schedule /\ source' = source /\ Given' = Given
      /\ destIDs' = destIDs /\ todo' = todo /\ board' = board
      /\ \A r : Steady(r)' = Steady(r) /\ NextCalls(r)' = NextCalls(r) /\ Arrivals(r)' = Arrivals(r)
  BY DEF request, Rows, Given, Steady, NextCalls, Arrivals
<1>2. /\ (pc \in {"schedule", "ids"})' => pc \in {"schedule", "ids"}
      /\ (pc = "schedule")' => pc = "schedule"
      /\ (pc = "ids")' => pc = "ids"
      /\ ~failed' => ~failed
      /\ (pc = "idle")' => pc = "idle" \/ failed' \/ todo = << >>
  OBVIOUS
<1>3. (destIDs # {} => \A i \in DOMAIN board :
          Steady(board[i].row) => board[i].arrival \in NextCalls(board[i].row))'
  BY <1>1 DEF BoardOK
<1>4. (destIDs # {} /\ ~failed => \A r \in Rows : Steady(r) =>
          (\E i \in DOMAIN todo : todo[i] = r) \/ NextCalls(r) \subseteq Arrivals(r))'
  BY <1>1, <1>2 DEF BoardOK
<1>5. /\ (todo \in Seq(Rows) /\ board \in Seq([row : Rows, arrival : Nat \cup {None}]))'
      /\ (pc \in {"schedule", "ids"} => board = << >>)'
      /\ (pc = "schedule" => source = None /\ destIDs = {})'
      /\ (pc = "ids" => todo = schedule)'
      /\ (pc = "idle" /\ Given /\ ~failed => todo = << >>)'
  BY <1>1, <1>2 DEF BoardOK
<1> QED BY <1>3, <1>4, <1>5, Zenon DEF BoardOK

\* One case per step of the handler; the others leave its rows alone, and the
\* cache gives it what a timetable has.
LEMMA BoardStep == RestOK /\ CacheOK /\ GivenOK /\ GivenOK' /\ RestOK' /\ BoardOK /\ [Next]_vars => BoardOK'
<1> SUFFICES ASSUME RestOK, CacheOK, GivenOK, GivenOK', RestOK', BoardOK, [Next]_vars PROVE BoardOK'
  OBVIOUS
<1>1. CASE \/ Refresh \/ GetScheduleFails \/ GetDestinationFails \/ Answer
           \/ (\E id \in Busy : OtherFetched(id)) \/ OtherStores \/ UNCHANGED vars
  <2>1. /\ UNCHANGED <<request, todo, board, destIDs>>
        /\ failed' = failed \/ failed' = TRUE
        /\ pc' = pc \/ pc' = "rows" \/ (pc' = "idle" /\ (failed' = TRUE \/ todo = << >>))
    BY <1>1 DEF Refresh, GetScheduleFails, GetDestinationFails, Answer, OtherFetched, OtherStores, vars
  <2> QED BY <2>1, BoardStays
<1>2. CASE Request
  <2>1. pc' = "schedule" /\ todo' = << >> /\ board' = << >> /\ destIDs' = {} /\ source' = None /\ schedule' = << >>
    BY <1>2 DEF Request
  <2> QED BY <2>1 DEF BoardOK
<1>3. CASE GetSchedule
  <2>1. /\ schedule' \in ScheduleForStop(feed, req.code, req.now) /\ todo' = schedule'
        /\ source' = feed /\ feed # None /\ pc' \in {"ids", "rows"}
        /\ board' = board /\ destIDs' = destIDs /\ pc = "schedule" /\ req' = req
    BY <1>3 DEF GetSchedule
  <2>2. board = << >> /\ destIDs = {}
    BY <2>1 DEF BoardOK
  <2>3. todo' \in Seq(Rows')
    <3>1. feed \in Feeds /\ req \in Requests
      BY <2>1 DEF RestOK
    <3>2. schedule' \in Seq({schedule'[i] : i \in DOMAIN schedule'})
      BY <2>1, <3>1, BoardIsSequence
    <3> QED BY <2>1, <3>2 DEF Rows
  <2> QED BY <2>1, <2>2, <2>3 DEF BoardOK
<1>4. CASE GetDestination
  <2>1. /\ pc = "ids" /\ pc' = "rows" /\ UNCHANGED <<request, todo, board, failed>>
    BY <1>4 DEF GetDestination
  <2>2. board = << >> /\ todo = schedule /\ todo \in Seq(Rows)
    BY <2>1 DEF BoardOK
  <2>3. Rows' = Rows /\ todo' = todo /\ board' = << >>
    BY <2>1, <2>2 DEF Rows, request
  <2>4. \A r \in Rows : \E i \in DOMAIN todo : todo[i] = r
    BY <2>2 DEF Rows
  <2> QED BY <2>1, <2>2, <2>3, <2>4 DEF BoardOK
<1>5. CASE Plain
  <2>1. /\ pc = "rows" /\ pc' = pc /\ todo # << >> /\ destIDs = {} /\ destIDs' = {} /\ todo' = Tail(todo)
        /\ board' = Append(board, [row |-> Head(todo), arrival |-> None])
        /\ UNCHANGED request
    BY <1>5 DEF Plain
  <2>2. Rows' = Rows /\ todo \in Seq(Rows) /\ board \in Seq([row : Rows, arrival : Nat \cup {None}])
    BY <2>1 DEF Rows, request, BoardOK
  <2>3. Tail(todo) \in Seq(Rows) /\ Head(todo) \in Rows
    BY <2>1, <2>2
  <2>4. [row |-> Head(todo), arrival |-> None] \in [row : Rows, arrival : Nat \cup {None}]
    BY <2>3
  <2>5. board' \in Seq([row : Rows, arrival : Nat \cup {None}])
    BY <2>1, <2>2, <2>4
  <2> QED BY <2>1, <2>2, <2>3, <2>5 DEF BoardOK
<1>6. CASE Hit \/ Fetched
  <2>1. /\ pc = "rows" /\ pc' = pc /\ todo # << >> /\ destIDs # {} /\ todo' = Tail(todo)
        /\ UNCHANGED <<request, destIDs, failed>>
    BY <1>6 DEF Hit, Fetched
  <2>2. Head(todo) \in Rows
    BY <2>1 DEF BoardOK
  <2>3. Head(todo).trip \in TripIDs
    BY <2>2, RowsTrips
  <2>4. \E calls \in Known(Head(todo).trip) : board' = Shown(Head(todo), calls)
    <3>1. CASE Hit
      <4>1. /\ tripCache[Head(todo).trip] # None
            /\ board' = Shown(Head(todo), tripCache[Head(todo).trip])
        BY <3>1 DEF Hit
      <4>2. tripCache[Head(todo).trip] \in Known(Head(todo).trip)
        BY <2>3, <4>1 DEF CacheOK
      <4> QED BY <4>1, <4>2
    <3>2. CASE Fetched
      <4>1. /\ Trip(Head(todo).trip) # None
            /\ tripCache' = [tripCache EXCEPT ![Head(todo).trip] = Trip(Head(todo).trip)]
            /\ board' = Shown(Head(todo), tripCache'[Head(todo).trip])
        BY <3>2 DEF Fetched
      <4>2. tripCache'[Head(todo).trip] = Trip(Head(todo).trip)
        BY <2>3, <4>1 DEF CacheOK
      <4>3. Trip(Head(todo).trip) \in Known(Head(todo).trip)
        BY <4>1, TripKnown DEF RestOK
      <4> QED BY <4>1, <4>2, <4>3
    <3> QED BY <1>6, <3>1, <3>2
  <2>5. PICK calls \in Known(Head(todo).trip) : board' = Shown(Head(todo), calls)
    BY <2>4
  <2> QED BY <2>1, <2>5, ShownStep
<1>7. CASE FetchFails
  <2>1. /\ pc = "rows" /\ pc' = pc /\ todo # << >> /\ todo' = Tail(todo) /\ failed' = TRUE
        /\ UNCHANGED <<request, board, destIDs>>
    BY <1>7 DEF FetchFails
  <2>2. /\ Rows' = Rows /\ \A r : Steady(r)' = Steady(r) /\ NextCalls(r)' = NextCalls(r)
    BY <2>1 DEF Rows, request, Steady, NextCalls
  <2>3. Tail(todo) \in Seq(Rows)
    BY <2>1 DEF BoardOK
  <2>4. (destIDs # {} => \A i \in DOMAIN board :
            Steady(board[i].row) => board[i].arrival \in NextCalls(board[i].row))'
    BY <2>1, <2>2 DEF BoardOK
  <2> QED BY <2>1, <2>2, <2>3, <2>4 DEF BoardOK
<1> QED
  BY <1>1, <1>2, <1>3, <1>4, <1>5, <1>6, <1>7 DEF Next

\* When no call failed, the answer lists just the steady trains that go on to
\* the destination, each with its arrival there, whatever the cache holds.
THEOREM AnswerAgrees == Spec => []BoardAgrees
<1>1. Init => CacheOK /\ RestOK /\ GivenOK /\ BoardOK
  <2>1. Init => CacheOK
    BY DEF Init, CacheOK
  <2>2. Init => GivenOK /\ BoardOK
    BY DEF Init, GivenOK, BoardOK, Given, Rows
  <2> QED BY <2>1, <2>2, InitRest
<1>2. CacheOK /\ RestOK /\ GivenOK /\ BoardOK /\ [Next]_vars => (CacheOK /\ RestOK /\ GivenOK /\ BoardOK)'
  BY CacheStep, RestStep, GivenStep, BoardStep
<1>3. BoardOK => BoardAgrees
  <2> SUFFICES ASSUME BoardOK, pc = "idle", Given, ~failed, destIDs # {}, NEW row \in Rows, Steady(row)
               PROVE  Arrivals(row) = NextCalls(row)
    BY Zenon DEF BoardAgrees, Arrivals
  <2>1. todo = << >>
    BY DEF BoardOK
  <2>2. NextCalls(row) \subseteq Arrivals(row)
    BY <2>1 DEF BoardOK
  <2>3. ASSUME NEW a \in Arrivals(row) PROVE a \in NextCalls(row)
    <3>1. PICK i \in DOMAIN board : board[i].row = row /\ a = board[i].arrival
      BY DEF Arrivals
    <3> QED BY <3>1 DEF BoardOK
  <2> QED BY <2>2, <2>3
<1> QED
  BY <1>1, <1>2, <1>3, PTL DEF Spec

=============================================================================
