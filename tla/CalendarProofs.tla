--------------------------- MODULE CalendarProofs ---------------------------
(***************************************************************************)
(* Every instant of a calendar has one date, whatever days are short or    *)
(* long, proved with TLAPS.                                                *)
(*                                                                         *)
(* The induction theorems of the library take a predicate as a parameter.  *)
(* Here induction is over a set of numbers instead, and a recursive        *)
(* definition is over a step that is a function (Induct and Recursion).    *)
(***************************************************************************)
EXTENDS Calendar, FiniteSetTheorems, WellFoundedInduction, TLAPS

-----------------------------------------------------------------------------
(* Induction, recursion and extrema over 0..n.                              *)

\* A bounded set of numbers that is not empty has a last one.
LEMMA LastExists ==
  ASSUME NEW n \in Nat, NEW D \in SUBSET (0..n), D # {}
  PROVE  \E k \in D : \A j \in D : j <= k
  <1> DEFINE after(k) == {j \in D : j > k}
             family == {after(k) : k \in D}
  <1>1. IsFiniteSet(0..n)
    BY FS_Interval
  <1>2. family \subseteq FiniteSubsetsOf(0..n) /\ family # {}
    <2>1. FiniteSubsetsOf(0..n) = SUBSET (0..n)
      BY <1>1, FS_FiniteSubsetsOfFinite
    <2>2. \A k \in D : after(k) \in SUBSET (0..n)
      OBVIOUS
    <2>3. family \subseteq SUBSET (0..n) /\ family # {}
      BY <2>2
    <2> QED BY <2>1, <2>3
  <1>3. IsWellFoundedOn(StrictSubsetOrdering(0..n), FiniteSubsetsOf(0..n))
    BY FS_StrictSubsetOrderingWellFounded
  <1>4. PICK x \in family : \A y \in family : <<y, x>> \notin StrictSubsetOrdering(0..n)
    <2> HIDE DEF family
    <2> QED BY <1>2, <1>3, WFMin
  <1>5. PICK k \in D : x = after(k)
    BY <1>4
  <1>6. ASSUME NEW j \in D, j > k PROVE FALSE
    <2>1. after(j) \subseteq after(k) /\ j \in after(k) /\ j \notin after(j)
      <3>1. \A m \in D : m \in Int
        OBVIOUS
      <3>2. j \in D /\ k \in D /\ j > k
        BY <1>5, <1>6
      <3>3. \A m \in D : m > j => m > k
        BY <3>1, <3>2
      <3>4. ~(j > j)
        BY <3>1, <3>2
      <3> QED BY <3>2, <3>3, <3>4
    <2>2. after(j) \in SUBSET (0..n) /\ after(k) \in SUBSET (0..n) /\ after(j) \in family
      <3>1. j \in D /\ k \in D
        BY <1>5, <1>6
      <3>2. after(j) \in family
        BY <3>1
      <3>3. after(j) \subseteq 0..n /\ after(k) \subseteq 0..n
        OBVIOUS
      <3> QED BY <3>2, <3>3
    <2>3. <<after(j), after(k)>> \in StrictSubsetOrdering(0..n)
      <3> HIDE DEF after
      <3> QED BY <2>1, <2>2 DEF StrictSubsetOrdering
    <2> QED BY <1>4, <1>5, <2>2, <2>3
  <1> QED BY <1>6

\* A set with 0 and with each number's successor has all numbers up to n.
LEMMA Induct ==
  ASSUME NEW n \in Nat, NEW T, 0 \in T, \A i \in 0..(n - 1) : i \in T => i + 1 \in T
  PROVE  \A i \in 0..n : i \in T
  <1> SUFFICES ASSUME NEW i \in 0..n, i \notin T PROVE FALSE
    OBVIOUS
  <1> DEFINE D == {j \in 0..i : j \in T}
  <1>1. D \in SUBSET (0..i) /\ 0 \in D /\ i \in Nat
    OBVIOUS
  <1>2. PICK k \in D : \A j \in D : j <= k
    <2> HIDE DEF D
    <2> QED BY <1>1, LastExists
  <1>3. k + 1 \in D
    <2>1. k \in 0..i /\ k \in T /\ k # i
      OBVIOUS
    <2> QED BY <2>1
  <1> QED BY <1>2, <1>3

\* f is what F makes of b in n steps.
Unrolls(f, n, b, F) == f[0] = b /\ \A i \in 1..n : f[i] = F[i][f[i - 1]]

\* A recursion over 0..n has a solution.
LEMMA Recursion ==
  ASSUME NEW n \in Nat, NEW V, NEW b \in V, NEW F \in [1..n -> [V -> V]]
  PROVE  \E f \in [0..n -> V] : Unrolls(f, n, b, F)
  <1> DEFINE Upto(m, f) == f[0] = b /\ \A i \in 1..m : f[i] = F[i][f[i - 1]]
             T == {m \in 0..n : \E f \in [0..m -> V] : Upto(m, f)}
  <1>1. 0 \in T
    <2> DEFINE f == [i \in 0..0 |-> b]
    <2>1. f \in [0..0 -> V] /\ Upto(0, f)
      OBVIOUS
    <2>2. 0 \in 0..n
      OBVIOUS
    <2> HIDE DEF f, Upto
    <2> QED BY <2>1, <2>2
  <1>2. ASSUME NEW m \in 0..(n - 1), m \in T PROVE m + 1 \in T
    <2>0. m \in Nat /\ m + 1 \in 1..n /\ m + 1 \in 0..n
      OBVIOUS
    <2>1. PICK f \in [0..m -> V] : Upto(m, f)
      BY <1>2
    <2> DEFINE v == F[m + 1][f[m]]
               g == [i \in 0..(m + 1) |-> IF i <= m THEN f[i] ELSE v]
    <2>2. v \in V
      <3>1. f[m] \in V
        BY <2>0
      <3>2. F[m + 1] \in [V -> V]
        BY <2>0
      <3> QED BY <3>1, <3>2
    <2>3. g \in [0..(m + 1) -> V]
      <3> HIDE DEF v
      <3>1. \A i \in 0..(m + 1) : i <= m => f[i] \in V
        BY <2>0
      <3> QED BY <2>2, <3>1
    <2>4. /\ \A i \in 0..m : g[i] = f[i]
          /\ g[m + 1] = v
      <3> HIDE DEF v
      <3> QED BY <2>0
    <2>5. \A i \in 1..(m + 1) : g[i] = F[i][g[i - 1]]
      <3> HIDE DEF g
      <3> TAKE i \in 1..(m + 1)
      <3>1. CASE i <= m
        <4>1. i \in 1..m /\ i \in 0..m /\ i - 1 \in 0..m
          BY <2>0, <3>1
        <4> QED BY <2>1, <2>4, <4>1
      <3>2. CASE i = m + 1
        <4>1. i - 1 = m /\ m \in 0..m
          BY <2>0, <3>2
        <4> QED BY <2>4, <3>2, <4>1
      <3> QED BY <2>0, <3>1, <3>2
    <2>6. g[0] = b
      <3> HIDE DEF g
      <3>1. 0 \in 0..m
        BY <2>0
      <3> QED BY <2>1, <2>4, <3>1
    <2>7. Upto(m + 1, g)
      <3> HIDE DEF g
      <3> QED BY <2>5, <2>6
    <2> HIDE DEF g, Upto
    <2> QED BY <2>0, <2>3, <2>7
  <1>3. n \in T
    <2>1. \A m \in 0..(n - 1) : m \in T => m + 1 \in T
      BY <1>2
    <2> HIDE DEF T
    <2>2. \A m \in 0..n : m \in T
      BY <1>1, <2>1, Induct
    <2> QED BY <2>2
  <1> QED BY <1>3 DEF Unrolls

\* A set of natural numbers that is not empty has a first one.
LEMMA FirstExists ==
  ASSUME NEW D \in SUBSET Nat, NEW m \in D
  PROVE  \E k \in D : \A j \in D : k <= j
  <1> DEFINE least(k) == \A j \in D : k <= j
             T == {i \in 0..m : (\A j \in 0..i : j \notin D) \/ \E k \in D : least(k)}
  <1>1. 0 \in T
    <2>1. CASE 0 \in D
      <3>1. least(0)
        OBVIOUS
      <3> QED BY <2>1, <3>1
    <2>2. CASE 0 \notin D
      BY <2>2
    <2> QED BY <2>1, <2>2
  <1>2. \A i \in 0..(m - 1) : i \in T => i + 1 \in T
    <2> SUFFICES ASSUME NEW i \in 0..(m - 1), i \in T PROVE i + 1 \in T
      OBVIOUS
    <2>1. CASE \E k \in D : least(k)
      BY <2>1
    <2>2. CASE \A j \in 0..i : j \notin D
      <3>1. CASE i + 1 \in D
        <4>1. \A j \in D : j \in Nat /\ ~(j <= i)
          BY <2>2
        <4>2. least(i + 1)
          BY <4>1
        <4> QED BY <3>1, <4>2
      <3>2. CASE i + 1 \notin D
        <4>1. \A j \in 0..(i + 1) : j \notin D
          BY <2>2, <3>2
        <4> QED BY <4>1
      <3> QED BY <3>1, <3>2
    <2> QED BY <2>1, <2>2
  <1>3. m \in T
    <2> HIDE DEF T
    <2>1. \A i \in 0..m : i \in T
      BY <1>1, <1>2, Induct
    <2> QED BY <2>1
  <1> QED BY <1>3

-----------------------------------------------------------------------------
(* The calendar.                                                            *)

\* The assumption on the calendar, as the proofs below use it.
LEMMA Lengths ==
  /\ Len(DayLength) \in Nat /\ Days = 1..Len(DayLength)
  /\ \A d \in Days : DayLength[d] \in {23, 24, 25} /\ DayLength[d] \in Nat
BY CalendarAssumption DEF Days

\* Each midnight is as many hours after the one before as that day has.
LEMMA Midnights ==
  /\ \A d \in Days : Midnight[d] \in Nat
  /\ \A d \in Days : d > 1 => d - 1 \in Days /\ Midnight[d] = Midnight[d - 1] + DayLength[d - 1]
<1> DEFINE n == Len(DayLength)
           sound(f) == f = [d \in Days |-> IF d = 1 THEN 0 ELSE f[d - 1] + DayLength[d - 1]]
<1>1. CASE n = 0
  BY <1>1, Lengths
<1>2. CASE n > 0
  <2> DEFINE F == [i \in 1..(n - 1) |-> [v \in Nat |-> v + DayLength[i]]]
  <2>1. n - 1 \in Nat /\ 0 \in Nat /\ F \in [1..(n - 1) -> [Nat -> Nat]]
    <3>1. \A i \in 1..(n - 1) : DayLength[i] \in Nat
      BY Lengths
    <3> QED BY <1>2, <3>1, Lengths
  <2>2. PICK g \in [0..(n - 1) -> Nat] : Unrolls(g, n - 1, 0, F)
    <3> HIDE DEF F
    <3> QED BY <2>1, Recursion
  <2>3. \A i \in 1..(n - 1) : g[i] = g[i - 1] + DayLength[i]
    <3> TAKE i \in 1..(n - 1)
    <3>0. i - 1 \in 0..(n - 1)
      BY Lengths
    <3>1. g[i - 1] \in Nat
      BY <3>0
    <3> QED BY <2>2, <3>1 DEF Unrolls
  <2> DEFINE f == [d \in Days |-> g[d - 1]]
  <2>4. sound(f)
    <3> DEFINE h == [d \in Days |-> IF d = 1 THEN 0 ELSE f[d - 1] + DayLength[d - 1]]
    <3>1. \A d \in Days : f[d] = h[d]
      <4> TAKE d \in Days
      <4>1. CASE d = 1
        <5>1. f[d] = g[0] /\ h[d] = 0
          BY <4>1
        <5> QED BY <2>2, <5>1 DEF Unrolls
      <4>2. CASE d # 1
        <5>1. d - 1 \in Days /\ d - 1 \in 1..(n - 1)
          BY <4>2, Lengths
        <5>2. f[d] = g[d - 1] /\ f[d - 1] = g[(d - 1) - 1]
          BY <5>1
        <5> QED BY <2>3, <4>2, <5>1, <5>2
      <4> QED BY <4>1, <4>2
    <3> QED BY <3>1
  <2>5. sound(Midnight)
    <3>1. Midnight = CHOOSE z : sound(z)
      BY DEF Midnight
    <3> HIDE DEF f, sound
    <3> QED BY <2>4, <3>1
  <2>6. \A d \in Days : d > 1 => d - 1 \in Days /\ Midnight[d] = Midnight[d - 1] + DayLength[d - 1]
    <3> TAKE d \in Days
    <3> HAVE d > 1
    <3>1. d - 1 \in Days /\ d # 1
      BY Lengths
    <3>2. Midnight[d] = IF d = 1 THEN 0 ELSE Midnight[d - 1] + DayLength[d - 1]
      BY <2>5, Zenon
    <3> QED BY <3>1, <3>2
  <2>7. \A d \in Days : Midnight[d] \in Nat
    <3> DEFINE T == {i \in 0..(n - 1) : Midnight[i + 1] \in Nat}
    <3>1. 0 \in T
      BY <1>2, <2>5, Lengths
    <3>2. \A i \in 0..((n - 1) - 1) : i \in T => i + 1 \in T
      <4> TAKE i \in 0..((n - 1) - 1)
      <4>1. i + 2 \in Days /\ i + 2 > 1 /\ (i + 2) - 1 = i + 1 /\ i + 1 \in Days /\ i + 1 \in 0..(n - 1)
        BY Lengths
      <4>2. Midnight[i + 2] = Midnight[i + 1] + DayLength[i + 1]
        BY <2>6, <4>1
      <4>3. i \in T => Midnight[(i + 1) + 1] \in Nat
        BY <4>1, <4>2, Lengths
      <4> QED BY <4>1, <4>3
    <3>3. \A i \in 0..(n - 1) : i \in T
      <4> HIDE DEF T
      <4> QED BY <2>1, <3>1, <3>2, Induct
    <3> TAKE d \in Days
    <3>4. d - 1 \in 0..(n - 1) /\ (d - 1) + 1 = d
      BY Lengths
    <3> QED BY <3>3, <3>4
  <2> QED BY <2>6, <2>7
<1> QED BY <1>1, <1>2, Lengths

\* A later day begins when the earlier one has ended, or later.
LEMMA MidnightsGrow ==
  ASSUME NEW d \in Days, NEW e \in Days, d < e
  PROVE  Midnight[d] + DayLength[d] <= Midnight[e]
<1> DEFINE T == {i \in 0..(e - (d + 1)) : Midnight[d] + DayLength[d] <= Midnight[d + 1 + i]}
<1>0. d \in Nat /\ e \in Nat /\ e - (d + 1) \in Nat /\ d >= 1 /\ e <= Len(DayLength)
  BY Lengths
<1>1. 0 \in T
  <2>1. d + 1 \in Days /\ d + 1 > 1 /\ (d + 1) - 1 = d
    BY <1>0, Lengths
  <2>2. Midnight[d + 1] = Midnight[d] + DayLength[d]
    BY <2>1, Midnights
  <2>3. Midnight[d + 1] \in Nat
    BY <2>1, Midnights
  <2> QED BY <1>0, <2>2, <2>3
<1>2. \A i \in 0..((e - (d + 1)) - 1) : i \in T => i + 1 \in T
  <2> TAKE i \in 0..((e - (d + 1)) - 1)
  <2> DEFINE k == d + 1 + i
  <2>1. k \in Days /\ k + 1 \in Days /\ k + 1 > 1 /\ (k + 1) - 1 = k /\ i + 1 \in 0..(e - (d + 1)) /\ d + 1 + (i + 1) = k + 1
    BY <1>0, Lengths
  <2>2. Midnight[k + 1] = Midnight[k] + DayLength[k] /\ Midnight[k] \in Nat /\ DayLength[k] \in Nat
    BY <2>1, Midnights, Lengths
  <2>3. Midnight[d] \in Nat /\ DayLength[d] \in Nat
    BY Midnights, Lengths
  <2>4. Midnight[d] + DayLength[d] <= Midnight[k] => Midnight[d] + DayLength[d] <= Midnight[k + 1]
    <3> HIDE DEF k
    <3> QED BY <2>2, <2>3
  <2> QED BY <2>1, <2>4
<1>3. \A i \in 0..(e - (d + 1)) : i \in T
  <2> HIDE DEF T
  <2> QED BY <1>0, <1>1, <1>2, Induct
<1>4. e - (d + 1) \in 0..(e - (d + 1)) /\ d + 1 + (e - (d + 1)) = e
  BY <1>0
<1>5. e - (d + 1) \in T
  <2> HIDE DEF T
  <2> QED BY <1>3, <1>4
<1> QED BY <1>4, <1>5

\* A day on which t falls is the day of t.
LEMMA DateOfDay ==
  ASSUME NEW t \in Nat, NEW d \in Days, Midnight[d] <= t, t < Midnight[d] + DayLength[d]
  PROVE  DateOf(t) = d
<1> DEFINE on(e) == Midnight[e] <= t /\ t < Midnight[e] + DayLength[e]
<1>1. ASSUME NEW e \in Days, on(e) PROVE e = d
  <2>1. Midnight[d] \in Nat /\ Midnight[e] \in Nat /\ DayLength[d] \in Nat /\ DayLength[e] \in Nat
    BY Midnights, Lengths
  <2>2. d < e => Midnight[d] + DayLength[d] <= Midnight[e]
    BY MidnightsGrow
  <2>3. e < d => Midnight[e] + DayLength[e] <= Midnight[d]
    BY MidnightsGrow
  <2>4. d \in Nat /\ e \in Nat
    BY Lengths
  <2> QED BY <1>1, <2>1, <2>2, <2>3, <2>4
<1>2. \A e \in Days : on(e) <=> e = d
  BY <1>1
<1>3. DateOf(t) = CHOOSE e \in Days : on(e)
  BY DEF DateOf
<1> HIDE DEF on
<1> QED BY <1>2, <1>3
=============================================================================
