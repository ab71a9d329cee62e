----------------------------- MODULE GtfsProofs -----------------------------
(***************************************************************************)
(* What gtfs-static guarantees for any number of handlers, parts, attempts *)
(* and timetables, proved with TLAPS.                                      *)
(***************************************************************************)
EXTENDS GtfsStatic, TLAPS

\* The program counters say who owns StaticStore.mu and who reads under it,
\* and a loader that has begun to assign is alone.
LockInv ==
    /\ writer = Loader <=> pc \in {"lock", "swap"}
    /\ \A r \in Handlers : r \in readers \cup waiting <=> h[r] \in {"checking", "reading"}
    /\ readers \cap waiting = {}
    /\ writer = None => waiting = {}
    /\ pc = "swap" => readers = {}

\* Outside of a swap the store is of one timetable; within, what has been
\* assigned is of the new one.  The store never gets ahead of Metrolinx nor,
\* once loaded, falls behind an answer, and what is being loaded is no older.
StoreInv ==
    /\ pc # "swap" => todo = {} /\ \A p, q \in Parts : store[p] = store[q]
    /\ pc = "swap" => \A p \in Parts \ todo : store[p] = zip
    /\ \A p \in Parts : store[p] <= published
    /\ newest <= published
    /\ loaded => \A p \in Parts : store[p] >= 1 /\ store[p] >= newest
    /\ pc \in {"load", "lock", "swap"} =>
          /\ zip >= 1 /\ zip >= newest /\ zip <= published
          /\ \A p \in Parts : store[p] <= zip

\* While r reads, what it has read is still in the store; what it has read is
\* no older than what was answered before.
ReadInv ==
    \A r \in Handlers :
        /\ h[r] \in {"ready", "reading"} => loaded
        /\ h[r] \in {"checking", "ready"} => seen[r] = Unread
        /\ h[r] = "reading" => \A p \in Parts : seen[r][p] \in {None, store[p]}
        /\ h[r] = "reading" /\ r \notin readers => seen[r] = Unread
        /\ floor[r] <= newest

\* The loader has an attempt left whenever it is about to begin one.
AttemptInv == pc \in {"attempt", "backoff"} => attempt < Rounds

Answers == OneTimetable /\ NeverEmpty /\ NeverBack

IInv == TypeOK /\ AttemptInv /\ LockInv /\ StoreInv /\ ReadInv /\ Answers

-----------------------------------------------------------------------------

LEMMA RoundsNat == ASSUME TypeOK PROVE Rounds \in Nat \ {0}
  BY GtfsAssumption DEF TypeOK, Rounds

LEMMA InitInv == ASSUME Init PROVE IInv
  <1> USE GtfsAssumption DEF Init, Mu!Unlocked, Empty, Unread
  <1>a. Rounds = StartupAttempts /\ attempt \in 0..Rounds /\ attempt < Rounds
    BY DEF Rounds
  <1>b. 0 \in Version /\ 1 \in 1..MaxVersion
    BY DEF Version
  <1>1. TypeOK /\ AttemptInv
    BY <1>a, <1>b DEF TypeOK, AttemptInv
  <1>2. LockInv
    BY DEF LockInv
  <1>3. StoreInv /\ ReadInv
    BY DEF StoreInv, ReadInv
  <1>4. Answers
    BY DEF Answers, OneTimetable, NeverEmpty, NeverBack
  <1> QED BY <1>1, <1>2, <1>3, <1>4 DEF IInv

\* A step that leaves what was read, and when it was asked for, alone.
LEMMA AnswersKept ==
  ASSUME Answers, UNCHANGED <<seen, floor>>
  PROVE  Answers'
  BY DEF Answers, OneTimetable, NeverEmpty, NeverBack

\* A step that touches neither the store, its lock nor the handlers.
LEMMA ElsewhereInv ==
  ASSUME IInv, TypeOK', AttemptInv',
         UNCHANGED <<muVars, zip, todo, contents, handlers>>,
         published <= published',
         pc \in {"lock", "swap"} <=> pc' \in {"lock", "swap"},
         pc = "swap" <=> pc' = "swap",
         pc' = "load" => pc = "load"
  PROVE  IInv'
  <1> USE DEF IInv, muVars, contents, handlers
  <1>1. LockInv'
    BY DEF LockInv
  <1>2. StoreInv'
    <2>1. published \in Nat /\ published' \in Nat /\ newest \in Nat /\ zip \in Nat
          /\ \A p \in Parts : store[p] \in Nat
      BY GtfsAssumption DEF TypeOK, Version
    <2> QED BY <2>1 DEF StoreInv
  <1>3. ReadInv'
    BY DEF ReadInv
  <1>4. Answers'
    BY AnswersKept
  <1> QED BY <1>1, <1>2, <1>3, <1>4

-----------------------------------------------------------------------------
(* One lemma per action, the simple ones together.                          *)

LEMMA WaitingInv ==
  ASSUME IInv, Attempt \/ WakeUp \/ TickerFires \/ Refresh \/ Stop
  PROVE  IInv'
  <1>1. /\ UNCHANGED <<published, outage, cancelled, starting, zip, todo, muVars, contents, handlers>>
        /\ pc' = pc \/ (/\ pc \in {"attempt", "backoff", "pause", "tick"}
                        /\ pc' \in {"attempt", "download", "stopped"})
    BY DEF Attempt, WakeUp, TickerFires, Refresh, Stop, LoaderAt
  <1>2. fired' \in BOOLEAN
    BY DEF Attempt, WakeUp, TickerFires, Refresh, Stop, IInv, TypeOK
  <1>3. Rounds' = Rounds /\ Rounds \in Nat \ {0}
    BY <1>1, RoundsNat DEF IInv, Rounds
  <1>4. attempt' \in 0..Rounds /\ (pc' \in {"attempt", "backoff"} => attempt' < Rounds)
    BY <1>3 DEF IInv, TypeOK, AttemptInv, Attempt, WakeUp, TickerFires, Refresh, Stop, LoaderAt
  <1>5. TypeOK'
    BY <1>1, <1>2, <1>3, <1>4 DEF IInv, TypeOK, muVars, contents, handlers
  <1>6. AttemptInv'
    BY <1>3, <1>4 DEF AttemptInv
  <1>7. published <= published'
    BY <1>1, GtfsAssumption DEF IInv, TypeOK
  <1>8. UNCHANGED <<muVars, zip, todo, contents, handlers>>
    BY <1>1
  <1>9. /\ pc \in {"lock", "swap"} <=> pc' \in {"lock", "swap"}
        /\ pc = "swap" <=> pc' = "swap"
        /\ pc' = "load" => pc = "load"
    BY <1>1
  <1> QED BY <1>5, <1>6, <1>7, <1>8, <1>9, ElsewhereInv

LEMMA LoadFailsInv ==
  ASSUME IInv, LoadFails
  PROVE  IInv'
  <1> USE GtfsAssumption DEF muVars, contents, handlers, LoadFails, AfterFailure
  <1>a. Rounds' = Rounds /\ Rounds \in Nat \ {0}
    BY RoundsNat DEF IInv, Rounds
  <1>b. attempt' \in 0..Rounds /\ (pc' \in {"attempt", "backoff"} => attempt' < Rounds)
    BY <1>a DEF IInv, TypeOK, AttemptInv
  <1>1. TypeOK' /\ AttemptInv'
    BY <1>a, <1>b DEF IInv, TypeOK, AttemptInv
  <1>2. published <= published'
    BY DEF IInv, TypeOK
  <1> QED BY <1>1, <1>2, ElsewhereInv

LEMMA SurroundingsInv ==
  ASSUME IInv, Publish \/ Trouble \/ Sigterm
  PROVE  IInv'
  <1>1. /\ UNCHANGED <<pc, starting, attempt, fired, zip, todo, muVars, contents, handlers>>
        /\ outage' \in BOOLEAN /\ cancelled' \in BOOLEAN
    BY DEF Publish, Trouble, Sigterm, loader, IInv, TypeOK
  <1>2. published' \in 1..MaxVersion /\ published <= published'
    BY GtfsAssumption DEF Publish, Trouble, Sigterm, IInv, TypeOK
  <1>3. TypeOK'
    BY <1>1, <1>2 DEF IInv, TypeOK, Rounds, muVars, contents, handlers
  <1>4. AttemptInv'
    BY <1>1 DEF IInv, AttemptInv, Rounds
  <1> QED BY <1>1, <1>2, <1>3, <1>4, ElsewhereInv

LEMMA DownloadedInv ==
  ASSUME IInv, Downloaded
  PROVE  IInv'
  <1> USE GtfsAssumption DEF IInv, Downloaded, LoaderAt, muVars, contents, handlers
  <1>1. TypeOK' /\ AttemptInv'
    BY DEF TypeOK, AttemptInv, Rounds, Version
  <1>2. LockInv' /\ ReadInv'
    BY DEF LockInv, ReadInv
  <1>3. StoreInv'
    BY DEF StoreInv, TypeOK
  <1>4. Answers'
    BY AnswersKept
  <1> QED BY <1>1, <1>2, <1>3, <1>4

LEMMA ParsedInv ==
  ASSUME IInv, Parsed
  PROVE  IInv'
  <1> USE GtfsAssumption DEF IInv, Parsed, LoaderAt, Mu!Lock, contents, handlers
  <1>1. TypeOK' /\ AttemptInv'
    BY DEF TypeOK, AttemptInv, Rounds
  <1>2. LockInv' /\ ReadInv'
    BY DEF LockInv, ReadInv
  <1>3. StoreInv'
    BY DEF StoreInv
  <1>4. Answers'
    BY AnswersKept
  <1> QED BY <1>1, <1>2, <1>3, <1>4

LEMMA BeginSwapInv ==
  ASSUME IInv, BeginSwap
  PROVE  IInv'
  <1> USE GtfsAssumption DEF IInv, BeginSwap, LoaderAt, Mu!HasLock, muVars, contents, handlers
  <1>1. TypeOK' /\ AttemptInv'
    BY DEF TypeOK, AttemptInv, Rounds
  <1>2. LockInv' /\ ReadInv'
    BY DEF LockInv, ReadInv
  <1>3. StoreInv'
    BY DEF StoreInv
  <1>4. Answers'
    BY AnswersKept
  <1> QED BY <1>1, <1>2, <1>3, <1>4

\* While a part is assigned nobody reads, so no reader's part changes.
LEMMA AssignInv ==
  ASSUME IInv, NEW p \in Parts, Assign(p)
  PROVE  IInv'
  <1> USE GtfsAssumption DEF IInv, Assign, muVars, handlers
  <1>1. TypeOK' /\ AttemptInv'
    BY DEF TypeOK, AttemptInv, Rounds
  <1>2. LockInv'
    BY DEF LockInv
  <1>3. StoreInv'
    <2>1. published \in Nat /\ newest \in Nat /\ zip \in Nat /\ \A q \in Parts : store[q] \in Nat
      BY DEF TypeOK, Version
    <2>2. \A q \in Parts : store'[q] = IF q = p THEN zip ELSE store[q]
      BY DEF TypeOK
    <2> QED BY <2>1, <2>2 DEF StoreInv
  <1>4. ReadInv'
    <2>1. readers = {}
      BY DEF LockInv
    <2>2. \A r \in Handlers : h[r] = "reading" => \A q \in Parts : seen[r][q] = None
      BY <2>1 DEF ReadInv, Unread
    <2> QED BY <2>1, <2>2 DEF ReadInv
  <1>5. Answers'
    BY AnswersKept
  <1> QED BY <1>1, <1>2, <1>3, <1>4, <1>5

LEMMA EndSwapInv ==
  ASSUME IInv, EndSwap
  PROVE  IInv'
  <1> USE GtfsAssumption DEF IInv, EndSwap, LoaderAt, Mu!Unlock, handlers
  <1>a. Rounds' = RefreshAttempts /\ attempt' \in 0..Rounds' /\ attempt' < Rounds'
    BY DEF Rounds
  <1>1. TypeOK' /\ AttemptInv'
    BY <1>a DEF TypeOK, AttemptInv
  <1>2. LockInv'
    BY DEF LockInv
  <1>3. StoreInv'
    BY DEF StoreInv, TypeOK, Version
  <1>4. ReadInv'
    BY DEF ReadInv, LockInv
  <1>5. Answers'
    BY AnswersKept
  <1> QED BY <1>1, <1>2, <1>3, <1>4, <1>5

\* What a request has read is wiped, and it may ask for all that was answered.
LEMMA RequestInv ==
  ASSUME IInv, NEW r \in Handlers, Request(r)
  PROVE  IInv'
  <1> USE GtfsAssumption DEF IInv, Request, HandlerAt, Mu!RLock, loader, contents
  <1>1. TypeOK' /\ AttemptInv'
    BY DEF TypeOK, AttemptInv, Rounds, Unread
  <1>2. LockInv'
    BY DEF LockInv, TypeOK
  <1>3. StoreInv'
    BY DEF StoreInv
  <1>4. ReadInv'
    BY DEF ReadInv, TypeOK, Version
  <1>5. Answers'
    BY DEF Answers, OneTimetable, NeverEmpty, NeverBack, TypeOK, Unread
  <1> QED BY <1>1, <1>2, <1>3, <1>4, <1>5

LEMMA CheckReadyInv ==
  ASSUME IInv, NEW r \in Handlers, CheckReady(r)
  PROVE  IInv'
  <1> USE GtfsAssumption DEF IInv, CheckReady, HandlerAt, Mu!HasRLock, Mu!RUnlock, loader, contents
  <1>1. TypeOK' /\ AttemptInv'
    BY DEF TypeOK, AttemptInv, Rounds
  <1>2. LockInv'
    BY DEF LockInv, TypeOK
  <1>3. StoreInv'
    BY DEF StoreInv
  <1>4. ReadInv'
    BY DEF ReadInv, TypeOK
  <1>5. Answers'
    BY AnswersKept
  <1> QED BY <1>1, <1>2, <1>3, <1>4, <1>5

LEMMA OpenInv ==
  ASSUME IInv, NEW r \in Handlers, Open(r)
  PROVE  IInv'
  <1> USE GtfsAssumption DEF IInv, Open, HandlerAt, Mu!RLock, loader, contents
  <1>1. TypeOK' /\ AttemptInv'
    BY DEF TypeOK, AttemptInv, Rounds
  <1>2. LockInv'
    BY DEF LockInv, TypeOK
  <1>3. StoreInv'
    BY DEF StoreInv
  <1>4. ReadInv'
    BY DEF ReadInv, TypeOK, Unread
  <1>5. Answers'
    BY AnswersKept
  <1> QED BY <1>1, <1>2, <1>3, <1>4, <1>5

\* A reader keeps the loader out, so the store it reads is of one timetable.
LEMMA ReadStepInv ==
  ASSUME IInv, NEW r \in Handlers, NEW p \in Parts, Read(r, p)
  PROVE  IInv'
  <1> USE GtfsAssumption DEF IInv, Read, Mu!HasRLock, loader, muVars, contents
  <1>1. seen' = [seen EXCEPT ![r] = [seen[r] EXCEPT ![p] = store[p]]]
        /\ seen \in [Handlers -> [Parts -> Version \cup {None}]]
        /\ store \in [Parts -> Version]
    BY DEF TypeOK
  <1>2. TypeOK' /\ AttemptInv'
    BY <1>1 DEF TypeOK, AttemptInv, Rounds
  <1>3. LockInv' /\ StoreInv'
    BY DEF LockInv, StoreInv
  <1>4. ReadInv'
    BY <1>1 DEF ReadInv
  <1>5. \A q \in Parts : seen'[r][q] \in {None, store[p]}
    <2>1. pc # "swap"
      BY DEF LockInv
    <2> QED BY <1>1, <2>1 DEF ReadInv, StoreInv
  <1>6. store[p] \in Nat /\ store[p] >= 1 /\ store[p] >= floor[r]
    BY <1>1 DEF ReadInv, StoreInv, TypeOK, Version
  <1>7. \A s \in Handlers : s # r => seen'[s] = seen[s]
    BY <1>1
  <1>8. Answers'
    BY <1>5, <1>6, <1>7 DEF Answers, OneTimetable, NeverEmpty, NeverBack
  <1> QED BY <1>2, <1>3, <1>4, <1>8

\* What is answered is in the store still.
LEMMA AnswerInv ==
  ASSUME IInv, NEW r \in Handlers, Answer(r)
  PROVE  IInv'
  <1> USE GtfsAssumption DEF IInv, Answer, HandlerAt, Mu!HasRLock, Mu!RUnlock, loader, contents
  <1>1. newest \in Nat /\ published \in Nat /\ zip \in Nat
        /\ \A p \in Parts : store[p] \in Nat
    BY DEF TypeOK, Version
  <1>2. pc # "swap" /\ loaded /\ readers # {}
    BY DEF LockInv, ReadInv
  <1>3. newest' \in Version /\ newest <= newest'
        /\ (newest' = newest \/ \E p \in Parts : newest' = store[p])
    <2>1. CASE \E p \in Parts : seen[r][p] # None /\ seen[r][p] > newest
      <3>1. \E v \in Version : \E p \in Parts : seen[r][p] = v /\ v > newest
        BY <2>1 DEF TypeOK
      <3>2. \E p \in Parts : seen[r][p] = newest' /\ newest' > newest
        BY <2>1, <3>1
      <3>3. newest' \in Version
        BY <2>1, <3>1
      <3>4. newest' \in Nat /\ newest' # None
        <4>1. \A v \in Version : v \in Nat
          BY DEF Version
        <4> QED BY <3>3, <4>1
      <3>5. \E p \in Parts : newest' = store[p]
        BY <3>2, <3>4 DEF ReadInv
      <3>6. newest <= newest'
        BY <1>1, <3>2, <3>4
      <3> QED BY <3>3, <3>5, <3>6
    <2>2. CASE ~ \E p \in Parts : seen[r][p] # None /\ seen[r][p] > newest
      BY <1>1, <2>2 DEF TypeOK
    <2> QED BY <2>1, <2>2
  <1>4. newest' \in Nat
    BY <1>3 DEF Version
  <1>5. TypeOK' /\ AttemptInv'
    BY <1>3 DEF TypeOK, AttemptInv, Rounds
  <1>6. LockInv'
    BY DEF LockInv, TypeOK
  <1>7. StoreInv'
    <2>1. PICK p \in Parts : newest' = newest \/ newest' = store[p]
      BY <1>3
    <2>2. \A q \in Parts : store[q] = store[p]
      BY <1>2 DEF StoreInv
    <2>3. \A q \in Parts : store[q] >= 1 /\ store[q] >= newest
      BY <1>2 DEF StoreInv
    <2>4. \A q \in Parts : store[q] >= newest'
      <3>1. CASE newest' = newest
        BY <2>3, <3>1
      <3>2. CASE newest' = store[p]
        <4> HIDE DEF IInv, Answer
        <4>1. \A q \in Parts : store[q] = newest'
          BY <2>2, <3>2
        <4> QED BY <1>4, <4>1
      <3> QED BY <2>1, <3>1, <3>2
    <2>5. newest' <= published
      BY <1>1, <2>1 DEF StoreInv
    <2>6. pc \in {"load", "lock"} => zip >= newest'
      BY <1>1, <2>1 DEF StoreInv
    <2> QED BY <1>2, <2>3, <2>4, <2>5, <2>6 DEF StoreInv
  <1>8. ReadInv'
    <2>1. \A s \in Handlers : floor[s] \in Nat
      BY DEF TypeOK, Version
    <2>2. \A s \in Handlers : floor'[s] <= newest'
      BY <1>1, <1>3, <1>4, <2>1 DEF ReadInv
    <2> QED BY <2>2 DEF ReadInv, TypeOK
  <1>9. Answers'
    BY AnswersKept
  <1> QED BY <1>5, <1>6, <1>7, <1>8, <1>9

LEMMA RestartInv ==
  ASSUME IInv, Restart
  PROVE  IInv'
  <1> USE GtfsAssumption DEF IInv, Restart, Empty
  <1>a. Rounds' = StartupAttempts /\ attempt' \in 0..Rounds' /\ attempt' < Rounds'
    BY DEF Rounds
  <1>b. 0 \in Version
    BY DEF Version
  <1>1. TypeOK' /\ AttemptInv'
    BY <1>a, <1>b DEF TypeOK, AttemptInv, Unread
  <1>2. LockInv'
    BY DEF LockInv
  <1>3. StoreInv'
    BY DEF StoreInv, TypeOK, Version
  <1>4. ReadInv'
    BY DEF ReadInv, Unread
  <1>5. Answers'
    BY DEF Answers, OneTimetable, NeverEmpty, NeverBack, Unread
  <1> QED BY <1>1, <1>2, <1>3, <1>4, <1>5

LEMMA NextInv == ASSUME IInv, [Next]_vars PROVE IInv'
  <1>1. ASSUME UNCHANGED vars PROVE IInv'
    <2> USE <1>1 DEF vars, loader, muVars, contents, handlers, IInv
    <2>1. TypeOK' /\ AttemptInv'
      BY DEF TypeOK, AttemptInv, Rounds
    <2>2. LockInv' /\ StoreInv' /\ ReadInv'
      BY DEF LockInv, StoreInv, ReadInv
    <2>3. Answers'
      BY AnswersKept
    <2> QED BY <2>1, <2>2, <2>3
  <1>2. ASSUME Load PROVE IInv'
    BY <1>2, WaitingInv, LoadFailsInv, DownloadedInv, ParsedInv, BeginSwapInv, AssignInv,
       EndSwapInv DEF Load
  <1>3. ASSUME NEW r \in Handlers, Request(r) \/ Handle(r) \/ \E p \in Parts : Read(r, p)
        PROVE  IInv'
    BY <1>3, RequestInv, CheckReadyInv, OpenInv, AnswerInv, ReadStepInv DEF Handle
  <1>4. ASSUME TickerFires \/ Publish \/ Trouble \/ Sigterm \/ Restart PROVE IInv'
    BY <1>4, WaitingInv, SurroundingsInv, RestartInv
  <1> QED BY <1>1, <1>2, <1>3, <1>4 DEF Next

\* The inductive invariant.
THEOREM Invariance == Spec => []IInv
  <1> QED BY InitInv, NextInv, PTL DEF Spec

-----------------------------------------------------------------------------

\* Every variable keeps its type, and no round has more attempts than it may.
THEOREM TypeCorrect == Spec => []TypeOK
  <1>1. IInv => TypeOK
    BY DEF IInv
  <1> QED BY <1>1, Invariance, PTL

\* However many handlers read and however a refresh falls, an answer is read
\* from one timetable.
THEOREM Snapshot == Spec => []OneTimetable
  <1>1. IInv => OneTimetable
    BY DEF IInv, Answers
  <1> QED BY <1>1, Invariance, PTL

\* A handler that Ready has let pass never reads the empty store.
THEOREM ReadyMeansData == Spec => []NeverEmpty
  <1>1. IInv => NeverEmpty
    BY DEF IInv, Answers
  <1> QED BY <1>1, Invariance, PTL

\* No answer is older than an answer given before its request came in, over
\* refreshes and restarts.
THEOREM Monotone == Spec => []NeverBack
  <1>1. IInv => NeverBack
    BY DEF IInv, Answers
  <1> QED BY <1>1, Invariance, PTL
=============================================================================
