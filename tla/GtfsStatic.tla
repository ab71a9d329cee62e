----------------------------- MODULE GtfsStatic -----------------------------
(***************************************************************************)
(* services/gtfs-static: the loader goroutine (ManageGTFS, store/          *)
(* download.go), the StaticStore it fills (store/store.go) and the HTTP    *)
(* handlers that read it (main.go).                                        *)
(*                                                                         *)
(* A timetable is its version: 0 is the empty store, and Metrolinx         *)
(* publishes 1, 2, ... under one URL.  The store is a handful of maps,     *)
(* Parts, that load swaps one assignment at a time and a handler reads one *)
(* after the other.  Waits (backoff, the minute between startup rounds,    *)
(* the 24 hours of the ticker) end at any time.                            *)
(***************************************************************************)
EXTENDS Naturals, FiniteSets

CONSTANTS
    Parts,             \* the maps of StaticStore: stopIndex, tripIndex, ...
    Handlers,          \* HTTP handler goroutines, used again and again
    Loader,            \* the goroutine of ManageGTFS
    StartupAttempts,   \* maxAttempts of loadGTFSIntoStore (5)
    RefreshAttempts,   \* maxRetries of refreshLoop (3)
    MaxVersion,        \* bound: timetables Metrolinx publishes
    None               \* not a goroutine, not a version

ASSUME GtfsAssumption ==
    /\ Parts # {}
    /\ Loader \notin Handlers
    /\ None \notin Handlers \cup {Loader}
    /\ StartupAttempts \in Nat \ {0} /\ RefreshAttempts \in Nat \ {0}
    /\ MaxVersion \in Nat \ {0}
    /\ None \notin Nat

VARIABLES
    published,   \* the timetable Metrolinx publishes
    outage,      \* Metrolinx or the platform is in trouble
    cancelled,   \* ctx is done: SIGTERM has arrived
    pc,          \* where the loader stands
    starting,    \* TRUE in loadGTFSIntoStore, FALSE in refreshLoop
    attempt,     \* attempts begun in this round
    fired,       \* a firing waits in ticker.C
    zip,         \* the timetable downloaded
    todo,        \* the parts load has yet to assign
    writer, readers, waiting,      \* StaticStore.mu
    store,       \* store[p]: the timetable part p is from
    loaded,      \* StaticStore.loaded
    h,           \* h[r]: where handler r stands
    seen,        \* seen[r][p]: the timetable r has read part p of
    newest,      \* history: the newest timetable an answer was read from
    floor        \* floor[r]: newest when the request of r came in

muVars == <<writer, readers, waiting>>
loader == <<cancelled, pc, starting, attempt, fired, zip, todo>>
contents == <<store, loaded>>
handlers == <<h, seen, newest, floor>>
vars == <<published, outage, loader, muVars, contents, handlers>>

Mu == INSTANCE RWMutex

Version == 0..MaxVersion
Unread == [p \in Parts |-> None]

Empty == [p \in Parts |-> 0]

Init ==
    /\ published = 1 /\ outage = TRUE /\ cancelled = FALSE
    /\ pc = "attempt" /\ starting = TRUE /\ attempt = 0 /\ fired = FALSE
    /\ zip = 0 /\ todo = {}
    /\ Mu!Unlocked
    /\ store = Empty /\ loaded = FALSE
    /\ h = [r \in Handlers |-> "idle"] /\ seen = [r \in Handlers |-> Unread]
    /\ newest = 0 /\ floor = [r \in Handlers |-> 0]

-----------------------------------------------------------------------------
(* ManageGTFS: loadGTFSIntoStore until it succeeds, then refreshLoop.       *)

LoaderAt(from, to) == pc = from /\ pc' = to

\* The head of either loop over the attempts.
Attempt ==
    /\ ~cancelled
    /\ LoaderAt("attempt", "download")
    /\ attempt' = attempt + 1
    /\ UNCHANGED <<published, outage, cancelled, starting, fired, zip, todo, muVars, contents, handlers>>

\* Mutant of Downloaded: a copy on the way answers with an older body.
Downloaded_Stale ==
    /\ ~cancelled
    /\ LoaderAt("download", "load")
    /\ zip' \in 1..published
    /\ UNCHANGED <<published, outage, cancelled, starting, attempt, fired, todo, muVars, contents, handlers>>

\* DownloadURL returns what is published.
Downloaded ==
    /\ ~cancelled
    /\ LoaderAt("download", "load")
    /\ zip' = published
    /\ UNCHANGED <<published, outage, cancelled, starting, attempt, fired, todo, muVars, contents, handlers>>

Rounds == IF starting THEN StartupAttempts ELSE RefreshAttempts

\* Mutant of AfterFailure: one attempt too many.
AfterFailure_OneTooMany ==
    IF attempt <= Rounds THEN "backoff" ELSE IF starting THEN "pause" ELSE "tick"

AfterFailure ==
    IF attempt < Rounds THEN "backoff" ELSE IF starting THEN "pause" ELSE "tick"

\* Mutant of LoadFails: the loader gives up after the last startup attempt.
LoadFails_GivesUp ==
    /\ \/ pc = "download" /\ (outage \/ cancelled)
       \/ pc = "load" /\ outage
    /\ pc' = IF attempt < Rounds THEN "backoff" ELSE IF starting THEN "stopped" ELSE "tick"
    /\ UNCHANGED <<published, outage, cancelled, starting, attempt, fired, zip, todo, muVars, contents, handlers>>

\* The download fails, or what came does not parse.
LoadFails ==
    /\ \/ pc = "download" /\ (outage \/ cancelled)
       \/ pc = "load" /\ outage
    /\ pc' = AfterFailure
    /\ UNCHANGED <<published, outage, cancelled, starting, attempt, fired, zip, todo, muVars, contents, handlers>>

\* sleepContext returns true: the next attempt, or the next round of them.
WakeUp ==
    /\ pc \in {"backoff", "pause"} /\ ~cancelled
    /\ pc' = "attempt"
    /\ attempt' = IF pc = "pause" THEN 0 ELSE attempt
    /\ UNCHANGED <<published, outage, cancelled, starting, fired, zip, todo, muVars, contents, handlers>>

\* The new maps are built; load calls Lock.
Parsed ==
    /\ LoaderAt("load", "lock")
    /\ Mu!Lock(Loader)
    /\ UNCHANGED <<published, outage, cancelled, starting, attempt, fired, zip, todo, contents, handlers>>

\* Mutant of BeginSwap: no wait for the readers.
BeginSwap_UnderReaders ==
    /\ LoaderAt("lock", "swap")
    /\ todo' = Parts
    /\ UNCHANGED <<published, outage, cancelled, starting, attempt, fired, zip, muVars, contents, handlers>>

BeginSwap ==
    /\ Mu!HasLock(Loader)
    /\ LoaderAt("lock", "swap")
    /\ todo' = Parts
    /\ UNCHANGED <<published, outage, cancelled, starting, attempt, fired, zip, muVars, contents, handlers>>

Assign(p) ==
    /\ pc = "swap" /\ p \in todo
    /\ store' = [store EXCEPT ![p] = zip]
    /\ todo' = todo \ {p}
    /\ UNCHANGED <<published, outage, cancelled, pc, starting, attempt, fired, zip, muVars, loaded, handlers>>

\* Mutant of EndSwap: an early return that forgets the Unlock.
EndSwap_NoUnlock ==
    /\ todo = {} /\ LoaderAt("swap", "tick")
    /\ loaded' = TRUE
    /\ starting' = FALSE /\ attempt' = 0
    /\ UNCHANGED <<published, outage, cancelled, fired, zip, todo, muVars, store, handlers>>

\* loaded is set, then Unlock; ManageGTFS goes on to wait for the ticker.
EndSwap ==
    /\ todo = {} /\ LoaderAt("swap", "tick")
    /\ loaded' = TRUE
    /\ starting' = FALSE /\ attempt' = 0
    /\ Mu!Unlock
    /\ UNCHANGED <<published, outage, cancelled, fired, zip, todo, store, handlers>>

TickerFires ==
    /\ ~starting /\ ~fired
    /\ fired' = TRUE
    /\ UNCHANGED <<published, outage, cancelled, pc, starting, attempt, zip, todo, muVars, contents, handlers>>

Refresh ==
    /\ fired
    /\ LoaderAt("tick", "attempt")
    /\ fired' = FALSE /\ attempt' = 0
    /\ UNCHANGED <<published, outage, cancelled, starting, zip, todo, muVars, contents, handlers>>

\* The loader sees ctx.Done() wherever it waits and between attempts.
Stop ==
    /\ cancelled
    /\ pc \in {"attempt", "backoff", "pause", "tick"}
    /\ pc' = "stopped"
    /\ UNCHANGED <<published, outage, cancelled, starting, attempt, fired, zip, todo, muVars, contents, handlers>>

-----------------------------------------------------------------------------
(* An HTTP handler: Ready takes the read lock, and the query takes it again. *)

HandlerAt(r, from, to) == h[r] = from /\ h' = [h EXCEPT ![r] = to]

Request(r) ==
    /\ HandlerAt(r, "idle", "checking")
    /\ Mu!RLock(r)
    /\ seen' = [seen EXCEPT ![r] = Unread]
    /\ floor' = [floor EXCEPT ![r] = newest]
    /\ UNCHANGED <<published, outage, loader, contents, newest>>

\* Mutant of CheckReady: the answer of Ready is not looked at.
CheckReady_Ignored(r) ==
    /\ Mu!HasRLock(r)
    /\ HandlerAt(r, "checking", "ready")
    /\ Mu!RUnlock(r)
    /\ UNCHANGED <<published, outage, loader, contents, seen, newest, floor>>

\* Ready returns; without data the handler answers 503.
CheckReady(r) ==
    /\ Mu!HasRLock(r)
    /\ IF loaded THEN HandlerAt(r, "checking", "ready") ELSE HandlerAt(r, "checking", "idle")
    /\ Mu!RUnlock(r)
    /\ UNCHANGED <<published, outage, loader, contents, seen, newest, floor>>

Open(r) ==
    /\ HandlerAt(r, "ready", "reading")
    /\ Mu!RLock(r)
    /\ UNCHANGED <<published, outage, loader, contents, seen, newest, floor>>

Read(r, p) ==
    /\ h[r] = "reading" /\ Mu!HasRLock(r)
    /\ seen[r][p] = None
    /\ seen' = [seen EXCEPT ![r][p] = store[p]]
    /\ UNCHANGED <<published, outage, loader, muVars, contents, h, newest, floor>>

\* The deferred RUnlock; the answer is written.
Answer(r) ==
    /\ Mu!HasRLock(r)
    /\ HandlerAt(r, "reading", "idle")
    /\ Mu!RUnlock(r)
    /\ newest' = IF \E p \in Parts : seen[r][p] # None /\ seen[r][p] > newest
                 THEN CHOOSE v \in Version : \E p \in Parts : seen[r][p] = v /\ v > newest
                 ELSE newest
    /\ UNCHANGED <<published, outage, loader, contents, seen, floor>>

-----------------------------------------------------------------------------
(* The surroundings.                                                        *)

Publish ==
    /\ published < MaxVersion
    /\ published' = published + 1
    /\ UNCHANGED <<outage, loader, muVars, contents, handlers>>

Trouble ==
    /\ outage' = ~outage
    /\ UNCHANGED <<published, loader, muVars, contents, handlers>>

Sigterm ==
    /\ outage /\ ~cancelled
    /\ cancelled' = TRUE
    /\ UNCHANGED <<published, outage, pc, starting, attempt, fired, zip, todo, muVars, contents, handlers>>

\* main returns after Shutdown, or the process is killed, and the platform
\* starts another: nothing is kept on disk.
Restart ==
    /\ cancelled \/ outage
    /\ cancelled' = FALSE
    /\ pc' = "attempt" /\ starting' = TRUE /\ attempt' = 0 /\ fired' = FALSE
    /\ zip' = 0 /\ todo' = {}
    /\ writer' = None /\ readers' = {} /\ waiting' = {}
    /\ store' = Empty /\ loaded' = FALSE
    /\ h' = [r \in Handlers |-> "idle"] /\ seen' = [r \in Handlers |-> Unread]
    /\ UNCHANGED <<published, outage, newest, floor>>

-----------------------------------------------------------------------------

Load ==
    \/ Attempt \/ Downloaded \/ LoadFails \/ WakeUp \/ Parsed
    \/ BeginSwap \/ (\E p \in Parts : Assign(p)) \/ EndSwap \/ Refresh \/ Stop

Handle(r) == CheckReady(r) \/ Open(r) \/ Answer(r)

Next ==
    \/ Load \/ TickerFires
    \/ \E r \in Handlers : Request(r) \/ Handle(r) \/ \E p \in Parts : Read(r, p)
    \/ Publish \/ Trouble \/ Sigterm \/ Restart

Spec == Init /\ [][Next]_vars

\* Goroutines that can run do, calls return (they have timeouts), timers fire,
\* and main returns within ten seconds of SIGTERM.  Nothing makes requests
\* come, Metrolinx publish or trouble end.
Fairness ==
    /\ WF_vars(Load)
    /\ WF_vars(TickerFires)
    /\ \A r \in Handlers : WF_vars(Handle(r))
    /\ WF_vars(cancelled /\ Restart)

FairSpec == Spec /\ Fairness

-----------------------------------------------------------------------------
(* Properties.                                                              *)

\* Every variable has its type.
TypeOK ==
    /\ published \in 1..MaxVersion
    /\ outage \in BOOLEAN /\ cancelled \in BOOLEAN /\ starting \in BOOLEAN
    /\ fired \in BOOLEAN /\ loaded \in BOOLEAN
    /\ pc \in {"attempt", "download", "load", "backoff", "pause", "lock", "swap", "tick", "stopped"}
    /\ attempt \in 0..Rounds
    /\ zip \in Version
    /\ todo \subseteq Parts
    /\ writer \in {Loader, None}
    /\ readers \subseteq Handlers /\ waiting \subseteq Handlers
    /\ store \in [Parts -> Version]
    /\ h \in [Handlers -> {"idle", "checking", "ready", "reading"}]
    /\ seen \in [Handlers -> [Parts -> Version \cup {None}]]
    /\ newest \in Version
    /\ floor \in [Handlers -> Version]

\* An answer is read from one timetable: no handler joins the trips of one
\* with the stops of another, however a refresh falls.
OneTimetable ==
    \A r \in Handlers, p, q \in Parts :
        seen[r][p] # None /\ seen[r][q] # None => seen[r][p] = seen[r][q]

\* A handler that Ready has let pass never reads the empty store, although it
\* gives up the lock between the check and the read.
NeverEmpty == \A r \in Handlers, p \in Parts : seen[r][p] # 0

\* No answer is from an older timetable than an answer given before the
\* request came in, over refreshes and restarts.
NeverBack ==
    \A r \in Handlers, p \in Parts : seen[r][p] # None => seen[r][p] >= floor[r]

\* When the trouble is over the service comes to serve what Metrolinx
\* publishes, however many attempts have failed before.
CatchesUp == <>[](~outage) => <>[](loaded /\ \A p \in Parts : store[p] = published)

\* Every request is answered, whatever the loader is doing.
Answered == \A r \in Handlers : h[r] # "idle" ~> h[r] = "idle"
=============================================================================
