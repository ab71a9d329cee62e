--------------------------- MODULE SseSlotsProofs ---------------------------
(***************************************************************************)
(* Proofs about SseSlots, for any number of requests and any limit: its    *)
(* types, the limit on open connections, and what alone lets the counter   *)
(* of an address drop below, or stay above, the slots that are claimed.    *)
(***************************************************************************)
EXTENDS SseSlots, FiniteSetTheorems, TLAPS

Places == {"idle", "incr", "undo", "undoDel", "expire", "resolve", "stream", "closing"}

\* The actions of one request.
Act(r) == Arrive(r) \/ Handle(r) \/ Leave(r) \/ Release(r)

-----------------------------------------------------------------------------
(* Types.                                                                   *)

KeyOK ==
    /\ count \in Int \cup {None} /\ ttl \in 1..TTL \cup {None}
    /\ count = None => ttl = None

RequestsOK ==
    /\ pc \in [Requests -> Places]
    /\ gone \in [Requests -> BOOLEAN]
    /\ ret \in [Requests -> [Releases -> {"none", "decr", "del"}]]

MemoryOK == memory \in 0..MaxConnections /\ failures \in 0..MaxFailures

LEMMA TypeParts == TypeOK <=> KeyOK /\ RequestsOK /\ MemoryOK /\ exact \in BOOLEAN
BY DEF TypeOK, KeyOK, RequestsOK, MemoryOK, Places

\* What the four calls of Redis, in effect or not, make of the key.
LEMMA CallTypes ==
    ASSUME KeyOK, Incr \/ Decr \/ Del \/ SetTTL \/ UNCHANGED key
    PROVE  KeyOK'
<1> USE SseSlotsAssumption
<1>1. Number \in Int
  BY DEF KeyOK, Number
<1>2. CASE Incr
  BY <1>1, <1>2 DEF Incr, KeyOK
<1>3. CASE Decr
  BY <1>1, <1>3 DEF Decr, KeyOK
<1>4. CASE Del
  BY <1>4 DEF Del, KeyOK
<1>5. CASE SetTTL
  BY <1>5 DEF SetTTL, KeyOK
<1>6. CASE UNCHANGED key
  BY <1>6 DEF key, KeyOK
<1> QED
  BY <1>2, <1>3, <1>4, <1>5, <1>6

LEMMA KeyStep == KeyOK /\ [Next]_vars => KeyOK'
<1> SUFFICES ASSUME KeyOK, [Next]_vars PROVE KeyOK'
  OBVIOUS
<1>1. CASE Tick
  BY <1>1, SseSlotsAssumption DEF Tick, Del, KeyOK
<1>2. CASE RestartWeb \/ RestartRedis \/ UNCHANGED vars
  BY <1>2, CallTypes DEF RestartWeb, RestartRedis, vars
<1>3. ASSUME NEW r \in Requests, Act(r) PROVE KeyOK'
  <2>1. Incr \/ Decr \/ Del \/ SetTTL \/ UNCHANGED key
    BY <1>3 DEF Act, Arrive, Handle, TakeSlot, Undo, UndoDel, Refresh, Streams, NoStream, Leave,
       Release, GiveBack, Delete, Fails
  <2> QED
    BY <2>1, CallTypes
<1> QED
  BY <1>1, <1>2, <1>3 DEF Next, Step, Act

LEMMA MemoryStep == MemoryOK /\ [Next]_vars => MemoryOK'
<1> SUFFICES ASSUME MemoryOK, [Next]_vars PROVE MemoryOK'
  OBVIOUS
<1> USE SseSlotsAssumption
<1>1. CASE Tick \/ RestartWeb \/ RestartRedis \/ UNCHANGED vars
  BY <1>1 DEF Tick, RestartWeb, RestartRedis, vars, Fail, MemoryOK
<1>2. ASSUME NEW r \in Requests, Act(r) PROVE MemoryOK'
  <2>1. \/ UNCHANGED <<memory, failures>>
        \/ failures < MaxFailures /\ failures' = failures + 1 /\ (InMemory(r) \/ MemoryClose)
    BY <1>2 DEF Act, Arrive, Handle, TakeSlot, Undo, UndoDel, Refresh, Streams, NoStream, Leave,
       Release, GiveBack, Delete, Fails, Fail, Succeed
  <2> QED
    BY <2>1 DEF InMemory, MemoryClose, MemoryOK
<1> QED
  BY <1>1, <1>2 DEF Next, Step, Act

LEMMA RequestsStep == RequestsOK /\ [Next]_vars => RequestsOK'
<1> SUFFICES ASSUME RequestsOK, [Next]_vars PROVE RequestsOK'
  OBVIOUS
<1>1. CASE Tick \/ RestartRedis \/ UNCHANGED vars
  BY <1>1 DEF Tick, RestartRedis, vars, RequestsOK
<1>2. CASE RestartWeb
  BY <1>2 DEF RestartWeb, RequestsOK, Places, Releases
<1>3. ASSUME NEW r \in Requests, Act(r) PROVE RequestsOK'
  <2>1. gone' \in [Requests -> BOOLEAN]
    BY <1>3 DEF Act, Arrive, Handle, TakeSlot, Undo, UndoDel, Refresh, Streams, NoStream, Leave,
       Release, GiveBack, Delete, RequestsOK
  <2>2. pc' = pc \/ \E p \in Places : pc' = [pc EXCEPT ![r] = p]
    BY <1>3 DEF Act, Arrive, Handle, TakeSlot, Undo, UndoDel, Refresh, Streams, NoStream, Leave,
       Release, GiveBack, Delete, Released, InMemory, Goto, Places
  <2>3. \/ ret' = ret
        \/ \E by \in Releases, x \in {"none", "decr", "del"} : ret' = [ret EXCEPT ![r][by] = x]
    BY <1>3 DEF Act, Arrive, Handle, TakeSlot, Undo, UndoDel, Refresh, Streams, NoStream, Leave,
       Release, GiveBack, Delete, Released, Releases
  <2>4. pc' \in [Requests -> Places]
    BY <2>2 DEF RequestsOK
  <2>5. ret' \in [Requests -> [Releases -> {"none", "decr", "del"}]]
    BY <2>3 DEF RequestsOK
  <2> QED
    BY <2>1, <2>4, <2>5 DEF RequestsOK
<1> QED
  BY <1>1, <1>2, <1>3 DEF Next, Step, Act

\* Every variable keeps its type, the key has no time to live without a value,
\* and the counter in memory stays between zero and the limit.
THEOREM TypeCorrect == Spec => []TypeOK
<1>1. Init => TypeOK
  <2> SUFFICES ASSUME Init PROVE TypeOK
    OBVIOUS
  <2>1. KeyOK /\ MemoryOK
    BY SseSlotsAssumption DEF Init, KeyOK, MemoryOK
  <2>2. RequestsOK
    BY DEF Init, RequestsOK, Places, Releases
  <2>3. exact = TRUE
    BY Zenon DEF Init
  <2> QED
    BY <2>1, <2>2, <2>3, TypeParts
<1>2. TypeOK /\ [Next]_vars => TypeOK'
  <2> SUFFICES ASSUME TypeOK, [Next]_vars PROVE TypeOK'
    OBVIOUS
  <2>1. KeyOK' /\ RequestsOK' /\ MemoryOK'
    BY TypeParts, KeyStep, RequestsStep, MemoryStep
  <2>2. exact' \in BOOLEAN
    BY Zenon DEF TypeOK, Next, vars
  <2> QED
    BY <2>1, <2>2 DEF TypeOK, KeyOK, RequestsOK, MemoryOK, Places
<1> QED
  BY <1>1, <1>2, PTL DEF Spec

-----------------------------------------------------------------------------
(* Claims.                                                                  *)

\* A request without a slot owes no release, the handler releases only while
\* it is closing, and the listener only when the browser has left.
Owing ==
    \A r \in Requests :
        /\ pc[r] \in {"incr", "undo", "undoDel", "expire"} =>
              ret[r]["abort"] = "none" /\ ret[r]["path"] = "none"
        /\ ret[r]["path"] # "none" => pc[r] = "closing"
        /\ ret[r]["abort"] # "none" => gone[r]

\* What r claims depends on its own state alone.
IsOpen(r) == pc[r] \in {"expire", "resolve", "stream"} /\ ~gone[r]
IsClaim(r) ==
    IsOpen(r) \/ pc[r] \in {"undo", "expire"} \/ ret[r]["abort"] = "decr" \/ ret[r]["path"] = "decr"

Same(q) == pc'[q] = pc[q] /\ gone'[q] = gone[q] /\ ret'[q] = ret[q]

LEMMA ClaimSets ==
    /\ Open = {r \in Requests : IsOpen(r)} /\ Claims = {r \in Requests : IsClaim(r)}
    /\ Open' = {r \in Requests : IsOpen(r)'} /\ Claims' = {r \in Requests : IsClaim(r)'}
BY DEF Open, Claims, IsOpen, IsClaim, Releases

\* An action of one request leaves the others alone.
LEMMA Framed ==
    ASSUME RequestsOK, NEW r \in Requests, Act(r)
    PROVE  \A q \in Requests \ {r} : Same(q)
<1> SUFFICES ASSUME NEW q \in Requests \ {r} PROVE Same(q)
  OBVIOUS
<1>1. gone'[q] = gone[q]
  BY DEF Act, Arrive, Handle, TakeSlot, Undo, UndoDel, Refresh, Streams, NoStream, Leave,
     Release, GiveBack, Delete, RequestsOK
<1>2. pc' = pc \/ \E p : pc' = [pc EXCEPT ![r] = p]
  BY DEF Act, Arrive, Handle, TakeSlot, Undo, UndoDel, Refresh, Streams, NoStream, Leave,
     Release, GiveBack, Delete, Released, InMemory, Goto
<1>3. ret' = ret \/ \E by, x : ret' = [ret EXCEPT ![r][by] = x]
  BY DEF Act, Arrive, Handle, TakeSlot, Undo, UndoDel, Refresh, Streams, NoStream, Leave,
     Release, GiveBack, Delete, Released
<1>4. pc'[q] = pc[q]
  BY <1>2 DEF RequestsOK
<1>5. ret'[q] = ret[q]
  BY <1>3 DEF RequestsOK
<1> QED
  BY <1>1, <1>4, <1>5 DEF Same

\* What the actions of r make of r.  Each is stated with what the key, the
\* failures and the other requests have to do with it.
LEMMA OwingStep ==
    ASSUME RequestsOK, Owing, NEW r \in Requests, Act(r)
    PROVE  Owing'
<1>1. \A q \in Requests \ {r} : Same(q)
  BY Framed
<1>2. RequestsOK /\ ret[r] \in [Releases -> {"none", "decr", "del"}] /\ pc[r] \in Places
      /\ gone[r] \in BOOLEAN
  BY DEF RequestsOK
<1> DEFINE Own ==
        /\ pc[r] \in {"incr", "undo", "undoDel", "expire"} =>
              ret[r]["abort"] = "none" /\ ret[r]["path"] = "none"
        /\ ret[r]["path"] # "none" => pc[r] = "closing"
        /\ ret[r]["abort"] # "none" => gone[r]
<1>3. Own
  BY DEF Owing
<1> USE DEF Releases
<1>4. Own'
  <2>1. CASE Arrive(r)
    <3>1. /\ pc' = [pc EXCEPT ![r] = "incr"] /\ ret' = ret
          /\ ret[r]["abort"] = "none" /\ ret[r]["path"] = "none"
      BY <2>1 DEF Arrive, Goto
    <3> QED
      BY <1>2, <3>1 DEF RequestsOK
  <2>2. CASE TakeSlot(r) \/ Undo(r) \/ UndoDel(r) \/ Refresh(r) \/ Streams(r)
    <3>1. ret' = ret /\ gone' = gone
      BY <2>2 DEF TakeSlot, Undo, UndoDel, Refresh, Streams
    <3>2. pc[r] \in {"incr", "undo", "undoDel", "expire", "resolve"} /\ pc[r] # "closing"
      BY <2>2 DEF TakeSlot, Undo, UndoDel, Refresh, Streams
    <3>3. pc'[r] \in Places /\ (pc[r] = "resolve" => pc'[r] \in {"idle", "stream"})
      BY <1>2, <2>2 DEF TakeSlot, Undo, UndoDel, Refresh, Streams, Goto, InMemory, RequestsOK, Places
    <3> QED
      BY <1>2, <1>3, <3>1, <3>2, <3>3
  <2>3. CASE NoStream(r)
    <3>1. /\ pc[r] = "resolve" /\ pc' = [pc EXCEPT ![r] = "closing"]
          /\ ret' = [ret EXCEPT ![r]["path"] = "decr"] /\ gone' = gone
      BY <2>3 DEF NoStream, Goto
    <3>2. pc'[r] = "closing" /\ ret'[r]["abort"] = ret[r]["abort"]
      BY <1>2, <3>1 DEF RequestsOK
    <3> QED
      BY <1>3, <3>1, <3>2
  <2>4. CASE Leave(r)
    <3>1. gone'[r]
      BY <1>2, <2>4 DEF Leave, RequestsOK
    <3>2. /\ pc' = [pc EXCEPT ![r] = IF pc[r] = "stream" THEN "idle" ELSE pc[r]]
          /\ ret' = ret \/ (pc[r] \in {"resolve", "stream", "closing"}
                            /\ ret' = [ret EXCEPT ![r]["abort"] = "decr"])
      BY <1>2, <2>4 DEF Leave, RequestsOK
    <3>3. ret'[r]["path"] = ret[r]["path"]
      BY <1>2, <3>2 DEF RequestsOK
    <3>4. pc'[r] = IF pc[r] = "stream" THEN "idle" ELSE pc[r]
      BY <1>2, <3>2 DEF RequestsOK
    <3> QED
      BY <1>3, <3>1, <3>2, <3>3, <3>4
  <2>5. CASE Release(r)
    <3>1. PICK by \in Releases : GiveBack(r, by) \/ Delete(r, by)
      BY <2>5 DEF Release
    <3>2. PICK x \in {"none", "del"} : Released(r, by, x) /\ gone' = gone /\ ret[r][by] # "none"
      BY <3>1 DEF GiveBack, Delete
    <3>3. ret' = [ret EXCEPT ![r][by] = x]
          /\ pc' = IF by = "path" /\ x = "none" THEN [pc EXCEPT ![r] = "idle"] ELSE pc
      BY <3>2 DEF Released
    <3>4. /\ by = "abort" => /\ ret'[r]["path"] = ret[r]["path"] /\ pc'[r] = pc[r]
                             /\ gone[r]
          /\ by = "path" => /\ ret'[r]["abort"] = ret[r]["abort"] /\ ret'[r]["path"] = x
                            /\ pc'[r] = (IF x = "none" THEN "idle" ELSE "closing")
      BY <1>2, <1>3, <3>2, <3>3 DEF RequestsOK
    <3>5. pc[r] \notin {"incr", "undo", "undoDel", "expire"}
      BY <1>3, <3>2
    <3> QED
      BY <1>3, <3>2, <3>4, <3>5
  <2> QED
    BY <2>1, <2>2, <2>3, <2>4, <2>5 DEF Act, Handle
<1> HIDE DEF Own
<1>5. \A q \in Requests \ {r} :
        /\ pc'[q] \in {"incr", "undo", "undoDel", "expire"} =>
              ret'[q]["abort"] = "none" /\ ret'[q]["path"] = "none"
        /\ ret'[q]["path"] # "none" => pc'[q] = "closing"
        /\ ret'[q]["abort"] # "none" => gone'[q]
  BY <1>1 DEF Owing, Same
<1> QED
  BY <1>4, <1>5 DEF Own, Owing

-----------------------------------------------------------------------------
(* The effect of a request's action in which no call fails.                 *)

\* The response path gives back what the abort listener gives back too.
Twice(r) == gone'[r] /\ "closing" \in {pc[r], pc'[r]}
\* A browser that has left before its slot was granted.
LeftEarly(r) == gone[r] /\ pc[r] # pc'[r]

Taken(r) ==
    /\ Number' = Number + 1 /\ ~IsClaim(r) /\ IsClaim(r)'
    /\ IsOpen(r)' => Number' <= MaxConnections
Given(r) == Number' = Number - 1 /\ IsClaim(r) /\ ~IsOpen(r)' /\ (IsClaim(r)' => Twice(r))
Kept(r) ==
    /\ Number' = Number /\ (IsOpen(r)' => IsOpen(r))
    /\ IsClaim(r)' => IsClaim(r) \/ Twice(r)
    /\ IsClaim(r) => IsClaim(r)' \/ LeftEarly(r)
Deleted(r) ==
    /\ count' = None /\ Number' = 0 /\ (count # None \/ Number = 0)
    /\ ~IsOpen(r)' /\ (IsClaim(r)' => IsClaim(r))

LEMMA Effect ==
    ASSUME TypeOK, Owing, NEW r \in Requests, Act(r), failures' = failures
    PROVE  Taken(r) \/ Given(r) \/ Kept(r) \/ Deleted(r)
<1>0. RequestsOK /\ KeyOK /\ ret[r] \in [Releases -> {"none", "decr", "del"}] /\ pc[r] \in Places
      /\ gone[r] \in BOOLEAN /\ failures \in Nat /\ Number \in Int
  BY TypeParts, SseSlotsAssumption DEF RequestsOK, MemoryOK, KeyOK, Number
<1>1. ~Fail
  BY <1>0 DEF Fail
<1>2. /\ pc[r] \in {"incr", "undo", "undoDel", "expire"} =>
              ret[r]["abort"] = "none" /\ ret[r]["path"] = "none"
      /\ ret[r]["path"] # "none" => pc[r] = "closing"
      /\ ret[r]["abort"] # "none" => gone[r]
  BY DEF Owing
<1>3. /\ Incr => Number' = Number + 1
      /\ Decr => Number' = Number - 1
      /\ Del => count' = None /\ Number' = 0
      /\ UNCHANGED count => Number' = Number
  <2>1. None \notin Int
    BY SseSlotsAssumption
  <2> QED
    BY <1>0, <2>1 DEF Incr, Decr, Del, Number
<1>4. CASE Arrive(r)
  <2>1. /\ pc[r] = "idle" /\ pc'[r] = "incr" /\ ret' = ret /\ UNCHANGED count
        /\ ret[r]["abort"] = "none" /\ ret[r]["path"] = "none"
    BY <1>0, <1>4 DEF Arrive, Goto, RequestsOK, key, Releases
  <2> QED
    BY <1>3, <2>1 DEF Kept, IsOpen, IsClaim
<1>5. CASE TakeSlot(r)
  <2>1. /\ pc[r] = "incr" /\ pc'[r] = (IF Full THEN "undo" ELSE "expire")
        /\ Incr /\ gone' = gone /\ ret' = ret
    BY <1>0, <1>1, <1>5 DEF TakeSlot, Goto, RequestsOK, Fails
  <2>2. ~Full => Number' <= MaxConnections
    BY <1>0, <1>3, <2>1, SseSlotsAssumption DEF Full
  <2> QED
    BY <1>2, <1>3, <2>1, <2>2 DEF Taken, IsOpen, IsClaim
<1>6. CASE Undo(r)
  <2>1. pc[r] = "undo" /\ pc'[r] \in {"undoDel", "idle"} /\ Decr /\ gone' = gone /\ ret' = ret
    BY <1>0, <1>1, <1>6 DEF Undo, Goto, RequestsOK, Fails
  <2> QED
    BY <1>2, <1>3, <2>1 DEF Given, IsOpen, IsClaim
<1>7. CASE UndoDel(r)
  <2>1. pc[r] = "undoDel" /\ pc'[r] = "idle" /\ Del /\ gone' = gone /\ ret' = ret
    BY <1>0, <1>1, <1>7 DEF UndoDel, Goto, RequestsOK, Fails
  <2> QED
    BY <1>2, <1>3, <2>1 DEF Deleted, IsOpen, IsClaim, Number
<1>8. CASE Refresh(r)
  <2>1. pc[r] = "expire" /\ pc'[r] = "resolve" /\ UNCHANGED count /\ gone' = gone /\ ret' = ret
    BY <1>0, <1>1, <1>8 DEF Refresh, Goto, RequestsOK, Fails, SetTTL
  <2> QED
    BY <1>2, <1>3, <2>1 DEF Kept, IsOpen, IsClaim, LeftEarly
<1>9. CASE Streams(r)
  <2>1. /\ pc[r] = "resolve" /\ pc'[r] = (IF gone[r] THEN "idle" ELSE "stream")
        /\ UNCHANGED count /\ gone' = gone /\ ret' = ret
    BY <1>0, <1>9 DEF Streams, Goto, RequestsOK, key
  <2> QED
    BY <1>3, <2>1 DEF Kept, IsOpen, IsClaim, LeftEarly
<1>10. CASE NoStream(r)
  <2>1. /\ pc[r] = "resolve" /\ pc'[r] = "closing" /\ UNCHANGED count /\ gone' = gone
        /\ ret'[r]["path"] = "decr" /\ ret'[r]["abort"] = ret[r]["abort"]
    BY <1>0, <1>10 DEF NoStream, Goto, RequestsOK, key, Releases
  <2> QED
    BY <1>3, <2>1 DEF Kept, IsOpen, IsClaim, Twice
<1>11. CASE Leave(r)
  <2>1. /\ pc[r] # "idle" /\ ~gone[r] /\ gone'[r] /\ UNCHANGED count
        /\ pc'[r] = (IF pc[r] = "stream" THEN "idle" ELSE pc[r])
        /\ ret'[r]["path"] = ret[r]["path"]
        /\ ret'[r]["abort"] = (IF pc[r] \in {"resolve", "stream", "closing"} THEN "decr" ELSE ret[r]["abort"])
    BY <1>0, <1>11 DEF Leave, RequestsOK, key, Releases
  <2> QED
    BY <1>2, <1>3, <2>1 DEF Kept, IsOpen, IsClaim, Twice
<1>12. ASSUME NEW by \in Releases, GiveBack(r, by) PROVE Given(r)
  <2>1. PICK x \in {"none", "del"} : Released(r, by, x) /\ gone' = gone /\ ret[r][by] = "decr" /\ Decr
    BY <1>1, <1>12 DEF GiveBack, Fails
  <2>2. CASE by = "abort"
    <3>1. /\ gone[r] /\ gone'[r] /\ pc'[r] = pc[r] /\ ret'[r]["abort"] = x
          /\ ret'[r]["path"] = ret[r]["path"]
      BY <1>0, <1>2, <2>1, <2>2 DEF Released, RequestsOK, Releases
    <3>2. IsClaim(r) /\ ~IsOpen(r)' /\ (IsClaim(r)' => pc[r] \in {"undo", "expire", "closing"})
      BY <1>2, <2>1, <2>2, <3>1 DEF IsOpen, IsClaim
    <3> QED
      BY <1>2, <1>3, <2>1, <2>2, <3>1, <3>2 DEF Given, Twice
  <2>3. CASE by = "path"
    <3>1. /\ pc[r] = "closing" /\ gone'[r] = gone[r] /\ pc'[r] \in {"idle", "closing"}
          /\ ret'[r]["path"] = x /\ ret'[r]["abort"] = ret[r]["abort"]
      BY <1>0, <1>2, <2>1, <2>3 DEF Released, RequestsOK, Releases
    <3> QED
      BY <1>2, <1>3, <2>1, <2>3, <3>1 DEF Given, IsOpen, IsClaim, Twice
  <2> QED
    BY <2>2, <2>3 DEF Releases
<1>13. ASSUME NEW by \in Releases, Delete(r, by) PROVE Deleted(r)
  <2>1. Released(r, by, "none") /\ gone' = gone /\ ret[r][by] = "del" /\ Del
    BY <1>1, <1>13 DEF Delete, Fails
  <2>2. CASE by = "abort"
    <3>1. /\ gone[r] /\ gone'[r] /\ pc'[r] = pc[r] /\ ret'[r]["abort"] = "none"
          /\ ret'[r]["path"] = ret[r]["path"]
      BY <1>0, <1>2, <2>1, <2>2 DEF Released, RequestsOK, Releases
    <3> QED
      BY <1>3, <2>1, <3>1 DEF Deleted, IsOpen, IsClaim, Number
  <2>3. CASE by = "path"
    <3>1. /\ pc[r] = "closing" /\ gone'[r] = gone[r] /\ pc'[r] = "idle"
          /\ ret'[r]["path"] = "none" /\ ret'[r]["abort"] = ret[r]["abort"]
      BY <1>0, <1>2, <2>1, <2>3 DEF Released, RequestsOK, Releases
    <3> QED
      BY <1>3, <2>1, <3>1 DEF Deleted, IsOpen, IsClaim, Number
  <2> QED
    BY <2>2, <2>3 DEF Releases
<1> QED
  BY <1>4, <1>5, <1>6, <1>7, <1>8, <1>9, <1>10, <1>11, <1>12, <1>13 DEF Act, Handle, Release

-----------------------------------------------------------------------------
(* Counting.                                                                *)

\* Two sets of requests that differ at most in r.
LEMMA Differ ==
    ASSUME NEW A \in SUBSET Requests, NEW B \in SUBSET Requests, NEW r \in Requests, A \ {r} = B \ {r}
    PROVE  /\ Cardinality(A) \in Nat /\ Cardinality(B) \in Nat
           /\ Cardinality(B) = Cardinality(A) + (IF r \in B THEN 1 ELSE 0) - (IF r \in A THEN 1 ELSE 0)
<1>1. IsFiniteSet(A) /\ IsFiniteSet(B) /\ IsFiniteSet(A \ {r})
  BY SseSlotsAssumption, FS_Subset
<1>2. ASSUME NEW S \in SUBSET Requests, IsFiniteSet(S)
      PROVE  /\ Cardinality(S) \in Nat
             /\ Cardinality(S) = Cardinality(S \ {r}) + (IF r \in S THEN 1 ELSE 0)
             /\ Cardinality(S \ {r}) \in Nat
  <2>1. Cardinality(S) \in Nat /\ IsFiniteSet(S \ {r}) /\ Cardinality(S \ {r}) \in Nat
    BY <1>2, FS_Subset, FS_CardinalityType
  <2>2. r \in S => Cardinality(S \ {r}) = Cardinality(S) - 1
    BY <1>2, FS_RemoveElement
  <2>3. r \notin S => S \ {r} = S
    OBVIOUS
  <2> QED
    BY <2>1, <2>2, <2>3
<1> QED
  BY <1>1, <1>2

LEMMA ClaimsDiffer ==
    ASSUME RequestsOK, NEW r \in Requests, Act(r)
    PROVE  /\ Cardinality(Claims) \in Nat /\ Cardinality(Claims') \in Nat
           /\ Cardinality(Claims') =
                 Cardinality(Claims) + (IF IsClaim(r)' THEN 1 ELSE 0) - (IF IsClaim(r) THEN 1 ELSE 0)
           /\ (IsOpen(r)' => IsOpen(r)) => Open' \subseteq Open
<1>1. \A q \in Requests \ {r} : (IsClaim(q)' <=> IsClaim(q)) /\ (IsOpen(q)' <=> IsOpen(q))
  BY Framed DEF Same, IsClaim, IsOpen
<1>2. Claims \ {r} = Claims' \ {r} /\ Claims \in SUBSET Requests /\ Claims' \in SUBSET Requests
      /\ (r \in Claims <=> IsClaim(r)) /\ (r \in Claims' <=> IsClaim(r)')
      /\ ((IsOpen(r)' => IsOpen(r)) => Open' \subseteq Open)
  BY <1>1, ClaimSets, Zenon
<1> QED
  BY <1>2, Differ

\* What has no part in the requests.
Around == Tick \/ RestartWeb \/ RestartRedis

LEMMA StepCases ==
    Step => (\E r \in Requests : Act(r)) \/ Around
BY DEF Step, Act, Around

LEMMA OwingInv == Spec => []Owing
<1>1. Init => Owing
  BY DEF Init, Owing, Releases
<1>2. TypeOK /\ Owing /\ [Next]_vars => Owing'
  <2> SUFFICES ASSUME TypeOK, Owing, [Next]_vars PROVE Owing'
    OBVIOUS
  <2>1. ASSUME NEW r \in Requests, Act(r) PROVE Owing'
    BY <2>1, OwingStep, TypeParts
  <2>2. CASE Tick \/ RestartRedis \/ UNCHANGED vars
    BY <2>2 DEF Tick, RestartRedis, vars, Owing
  <2>3. CASE RestartWeb
    BY <2>3 DEF RestartWeb, Owing, Releases
  <2> QED
    BY <2>1, <2>2, <2>3, StepCases DEF Next, Around
<1> QED
  BY <1>1, <1>2, TypeCorrect, PTL DEF Spec

\* While no claim has been missing in the counter, none is.
Counted == exact => Number >= Cardinality(Claims)

LEMMA CountedInv == Spec => []Counted
<1>1. Init => Counted
  <2> SUFFICES ASSUME Init PROVE Number >= Cardinality(Claims)
    BY DEF Counted
  <2>1. Claims = {} /\ Number = 0
    BY DEF Init, Claims, Open, Releases, Number
  <2> QED
    BY <2>1, FS_EmptySet
<1>2. Counted /\ [Next]_vars => Counted'
  <2>1. Next => Counted'
    BY Zenon DEF Next, Counted
  <2>2. Counted /\ UNCHANGED vars => Counted'
    BY DEF Counted, vars, Claims, Open, Number, key
  <2> QED
    BY <2>1, <2>2
<1> QED
  BY <1>1, <1>2, PTL DEF Spec

-----------------------------------------------------------------------------
(* The properties.                                                          *)

\* As long as no call has failed and no claim has been missing, an address has
\* no more open connections than it may, for any limit.
THEOREM Limited == Spec => []AtMost
<1>1. Init => AtMost
  <2> SUFFICES ASSUME Init PROVE Cardinality(Open) <= MaxConnections
    BY DEF AtMost
  <2>1. Open = {}
    BY DEF Init, Open
  <2> QED
    BY <2>1, FS_EmptySet, SseSlotsAssumption
<1>2. TypeOK /\ TypeOK' /\ Owing /\ Counted' /\ AtMost /\ [Next]_vars => AtMost'
  <2> SUFFICES ASSUME TypeOK, TypeOK', Owing, Counted', AtMost, [Next]_vars, exact', failures' = 0
               PROVE  Cardinality(Open)' <= MaxConnections
    BY DEF AtMost
  <2>1. CASE UNCHANGED vars
    BY <2>1 DEF vars, AtMost, Open
  <2>2. CASE Next
    <3>1. exact /\ Number' >= Cardinality(Claims')
      BY <2>2, Zenon DEF Next
    <3>2. /\ Open' \in SUBSET Claims' /\ Open \in SUBSET Requests
          /\ Claims' \in SUBSET Requests
      BY ClaimSets DEF IsOpen, IsClaim
    <3>3. IsFiniteSet(Open) /\ IsFiniteSet(Claims')
      BY <3>2, SseSlotsAssumption, FS_Subset
    <3>4. failures \in Nat /\ Number' \in Int /\ MaxConnections \in Nat
      BY SseSlotsAssumption DEF TypeOK, Number
    <3>5. ASSUME Number' <= MaxConnections PROVE Cardinality(Open') <= MaxConnections
      BY <3>1, <3>2, <3>3, <3>4, <3>5, FS_Subset, FS_CardinalityType
    <3>6. ASSUME Open' \subseteq Open, failures = 0 PROVE Cardinality(Open') <= MaxConnections
      BY <3>1, <3>3, <3>4, <3>6, FS_Subset, FS_CardinalityType DEF AtMost
    <3>7. CASE Around
      <4>1. Tick /\ failures = 0
        BY <3>4, <3>7 DEF Around, Tick, RestartWeb, RestartRedis, Fail
      <4>2. Open' = Open
        BY <4>1 DEF Tick, Open
      <4> QED
        BY <3>6, <4>1, <4>2
    <3>8. ASSUME NEW r \in Requests, Act(r) PROVE Cardinality(Open') <= MaxConnections
      <4>1. failures = 0
        BY <3>4, <3>8 DEF Act, Arrive, Handle, TakeSlot, Undo, UndoDel, Refresh, Streams, NoStream,
           Leave, Release, GiveBack, Delete, Fails, Fail, Succeed
      <4>2. Taken(r) \/ Given(r) \/ Kept(r) \/ Deleted(r)
        BY <3>8, <4>1, Effect
      <4>3. (IsOpen(r)' /\ Number' <= MaxConnections) \/ (IsOpen(r)' => IsOpen(r))
        BY <4>2 DEF Taken, Given, Kept, Deleted
      <4> QED
        BY <3>5, <3>6, <3>8, <4>1, <4>3, ClaimsDiffer, TypeParts
    <3> QED
      BY <2>2, <3>7, <3>8, StepCases DEF Next
  <2> QED
    BY <2>1, <2>2
<1> QED
  BY <1>1, <1>2, TypeCorrect, OwingInv, CountedInv, PTL DEF Spec

\* A claim drops out of the counter only when the key ends under it, a call
\* fails, or the abort listener and the response path both give a slot back.
THEOREM DropsOnlyBy == Spec => CountedUnless
<1>1. TypeOK /\ TypeOK' /\ Owing /\ Counted /\ [Next]_vars =>
        [exact /\ ~exact' =>
          \/ count # None /\ count' = None
          \/ failures' # failures
          \/ \E r \in Requests : gone'[r] /\ "closing" \in {pc[r], pc'[r]}]_vars
  <2> SUFFICES ASSUME TypeOK, TypeOK', Owing, Counted, Next, exact, ~exact', failures' = failures,
                      ~(count # None /\ count' = None)
               PROVE  \E r \in Requests : Twice(r)
    BY Zenon DEF Twice, vars
  <2>1. Number >= Cardinality(Claims) /\ ~(Number' >= Cardinality(Claims'))
    BY Zenon DEF Counted, Next
  <2>2. Number \in Int /\ Number' \in Int /\ failures \in Nat
    BY SseSlotsAssumption DEF TypeOK, Number
  <2>3. ~Around
    <3>1. Around => Tick
      BY <2>2 DEF Around, RestartWeb, RestartRedis, Fail
    <3>2. Tick => count # None
      BY DEF Tick, TypeOK
    <3>3. Tick => UNCHANGED count /\ Claims' = Claims
      BY <3>2 DEF Tick, Del, Claims, Open
    <3> QED
      BY <2>1, <3>1, <3>3 DEF Number
  <2>4. PICK r \in Requests : Act(r)
    BY <2>3, StepCases DEF Next
  <2>5. /\ Cardinality(Claims) \in Nat /\ Cardinality(Claims') \in Nat
        /\ Cardinality(Claims') =
              Cardinality(Claims) + (IF IsClaim(r)' THEN 1 ELSE 0) - (IF IsClaim(r) THEN 1 ELSE 0)
    BY <2>4, ClaimsDiffer, TypeParts
  <2>6. Taken(r) \/ Given(r) \/ Kept(r) \/ Deleted(r)
    BY <2>4, Effect
  <2>7. CASE Taken(r) \/ Given(r) \/ Kept(r)
    BY <2>1, <2>2, <2>5, <2>7 DEF Taken, Given, Kept
  <2>8. CASE Deleted(r)
    BY <2>1, <2>2, <2>5, <2>8 DEF Deleted
  <2> QED
    BY <2>6, <2>7, <2>8
<1> QED
  BY <1>1, TypeCorrect, OwingInv, CountedInv, PTL DEF Spec, CountedUnless

\* The counter comes to count a slot that nobody will give back only by a
\* browser that leaves before its slot is granted, a failed call or a restart.
THEOREM LeaksOnlyBy == Spec => LeakedOnlyBy
<1>1. TypeOK /\ TypeOK' /\ Owing /\ [Next]_vars =>
        [~Overcounts /\ Overcounts' =>
          failures' # failures \/ \E r \in Requests : gone[r] /\ pc[r] # pc'[r]]_vars
  <2> SUFFICES ASSUME TypeOK, TypeOK', Owing, Next, ~Overcounts, Overcounts', failures' = failures
               PROVE  \E r \in Requests : LeftEarly(r)
    BY Zenon DEF LeftEarly, vars
  <2>1. ~(Number > Cardinality(Claims)) /\ Number' > Cardinality(Claims')
    BY DEF Overcounts
  <2>2. Number \in Int /\ Number' \in Int /\ failures \in Nat
    BY SseSlotsAssumption DEF TypeOK, Number
  <2>3. Claims \in SUBSET Requests
    BY ClaimSets
  <2>4. Cardinality(Claims) \in Nat
    BY <2>3, SseSlotsAssumption, FS_Subset, FS_CardinalityType
  <2>5. ~Around
    <3>1. Around => Tick
      BY <2>2 DEF Around, RestartWeb, RestartRedis, Fail
    <3>2. Tick => Claims' = Claims /\ (Number' = Number \/ Number' = 0)
      BY DEF Tick, Del, Claims, Open, Number
    <3> QED
      BY <2>1, <2>2, <2>4, <3>1, <3>2
  <2>6. PICK r \in Requests : Act(r)
    BY <2>5, StepCases DEF Next
  <2>7. /\ Cardinality(Claims) \in Nat /\ Cardinality(Claims') \in Nat
        /\ Cardinality(Claims') =
              Cardinality(Claims) + (IF IsClaim(r)' THEN 1 ELSE 0) - (IF IsClaim(r) THEN 1 ELSE 0)
    BY <2>6, ClaimsDiffer, TypeParts
  <2>8. Taken(r) \/ Given(r) \/ Kept(r) \/ Deleted(r)
    BY <2>6, Effect
  <2>9. CASE Taken(r) \/ Given(r) \/ Kept(r)
    BY <2>1, <2>2, <2>7, <2>9 DEF Taken, Given, Kept
  <2>10. CASE Deleted(r)
    BY <2>1, <2>2, <2>7, <2>10 DEF Deleted
  <2> QED
    BY <2>8, <2>9, <2>10
<1> QED
  BY <1>1, TypeCorrect, OwingInv, PTL DEF Spec, LeakedOnlyBy
=============================================================================
