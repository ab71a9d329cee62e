# Rail Six: a formal model

TLA+ modules, TLC configurations and TLAPS proofs about the services under `services/`: what they keep, the order
in which they change it, and what a browser or an operator may rely on.

    tlc -workers 2 -config MCBroker.cfg MCBroker          # the runs, see "Runs"
    tlapm BrokerProofs.tla                                # the proofs, see "Proofs"

## The system

Metrolinx publishes five realtime feeds and a GTFS timetable. `realtime-poller` fetches the feeds every 30 s, writes
each to Redis and publishes it on NATS. `sse-push` fans two of the NATS subjects out to browsers over server-sent
events. `gtfs-static` keeps the timetable in memory and refreshes it daily. `departures-api` answers a browser from
the timetable (HTTP to gtfs-static) and the realtime data (Redis). `web` is the SvelteKit server and the pages.
README.md also names an `api-gateway`; there is none in the repository.

    Metrolinx --> realtime-poller --> Redis --> departures-api --> web server --> browser
                        |    \                      |                  |
                        |     `--> NATS --> sse-push ------------------'  (SSE, proxied)
                        `------> gtfs-static <------'                     (HTTP lookups)

| Component | State it keeps | Operations | Hard part | Must hold |
|---|---|---|---|---|
| sse-push (`broker.go`, `main.go`) | registry of channels under an RWMutex, one buffered channel per connection | Subscribe, Unsubscribe, Broadcast, ClientCount; NATS callbacks; SSE handler loop | send against close, full buffers, stalled browsers, lock queueing | no panic, no leak, nobody waits on a slow client, every event offered once and in order |
| realtime-poller (`main.go`, `poller.go`, `shared/cache`, `shared/bus`) | tick count, ticker, PollResult; five Redis keys and their `updated-at` keys, each with a TTL | pollAll, runPollCycle, SetJSON, SetHashJSON, SetTimestamp, Publish | partial failure between three writes, two TTLs, slow cycles, a feed polled every other tick, shutdown in mid-cycle | health tells the truth, and raises no false alarm; what is announced is readable |
| health (`realtime-poller/health.go`, `departures-api/health.go`) | none | compares an age with a threshold | threshold against period, TTL and cycle | as above |
| gtfs-static (`store/`, `main.go`) | eight maps and `loaded` under an RWMutex | ManageGTFS, load, Refresh; handlers: Ready, then a query | swap under readers, check then read, retries, restart | answers of one timetable, never empty, never older than before; catches up |
| schedule queries (`store.go`) | none (pure) | load's indexes, ScheduleForStop, serviceActive, ArrivalTimeAtStop | service days, after-midnight trips, clock changes, deduplication, cut at 20 | agree with a reference by service days; every train can be found |
| departures-api (`departures.go`, `redisclient.go`, `main.go`) | none of its own | GetDepartures: schedule, destination ids, Union board, glance, per trip update, exceptions; handleAlerts | a dozen reads of two stores that move; precedence of statuses | one departure tells one story |
| lookup caches (`staticclient.go`, `lookup.go`) | permanent caches of trips, routes, names | getTrip, ArrivalTimeAtStop, GetRoute | refreshes and restarts behind a cache that handlers share | nothing cached that no timetable says; arrivals as the timetable has them |
| feed parsing (`shared/gtfsrt`, `shared/metrolinx`) | none (pure) | ParseTripUpdates, ParseAlerts, EnrichAlerts, Fetch | first-wins index, size limit | - |
| web SSE client (`lib/sse.ts`) | EventSource, timer, backoff, `stopped` | connectSSE, onopen, onerror, timer | events lost around a reconnect | reconnects for ever; what was lost is made up for |
| web rate limiter (`rate-limit.ts`, `hooks.server.ts`) | Redis counters with TTLs, in-memory fallback | isRateLimited, openSSE, closeSSE, abort listener | calls of Redis apart, double release, TTL against long streams, restarts | a slot counted is a slot held; no more than three streams an address (`SSE_MAX_PER_IP`) |
| commute board (`MyCommute.svelte`) | departures, alerts, two AbortControllers | loadDepartures, loadAlerts, SSE events, intervals, changes of the URL | abort, retry and events out of order | the newest answer stays on screen, and once loaded is of this trip |
| display times (`display.ts`), split-flap | a generation counter | departureTargetMs; flipToTarget | midnight; superseded flips | - |

## How the project is laid out

Block by block, the most important behaviour first. A component is a module of its own, with an `MC` module and a
`.cfg` for TLC and a `Proofs` module for TLAPS.

1. `RWMutex`, `EventFanout`, `Broker` (`BrokerProofs`); `Poller` (`PollerProofs`); `GtfsStatic`
   (`GtfsProofs`).
2. `Calendar` (`CalendarProofs`): instants, dates and clocks, which `Departures` and `Schedule` both extend.
   `Departures` (`DeparturesProofs`): requests against the Redis keys of the poller, call by call.
3. `Schedule`, the pure part of gtfs-static, and `StaticClient`, which extends it: requests, caches and refreshes over
   the same operators. `StaticClientProofs` has the lemmas about the operators and the theorems.
4. `CommutePage` (`CommutePageProofs`): poller, Redis, NATS, broker, API and page composed, at the grain that the page
   can tell apart. It stands on what block 1 shows: `AnnouncedIsCached` (Redis before NATS) is the order of its `Store`
   and `Announce`, `EventFanout` its queue of events.
5. `SseSlots` (`SseSlotsProofs`): the web server's limit on SSE connections.

## Modules and how they correspond to the code

### RWMutex
Go's `sync.RWMutex`, external to the repository. `writer` is who got past the inner mutex, `readers` who holds the
read lock, `waiting` the readers parked behind a writer. Writer preference is modelled (a reader that arrives after a
writer parks), as are the two things callers can rely on: `Lock` returns when the earlier readers have left, and
`Unlock` lets the parked readers in first. Without writer preference the liveness results below would be about another
lock.

### Broker
Every connection is a handler goroutine with a program counter (`pc`), every NATS subject a callback goroutine (`cb`):
nats.go runs the callbacks of one subscription one after the other, those of two subscriptions concurrently. One
action per step another goroutine can see: `Deliver`, `StartLoop`, `Send` (the non-blocking send, one client at a time,
in any order, as Go ranges over a map), `EndLoop` are Broadcast; `Connect`, `AskLock`, `Register` Subscribe; `Cancelled`
to `Close` the deferred Unsubscribe, with delete and close apart; `AskCount`, `EndCount` the two ClientCount calls of
the log lines. `Receive`, `Keepalive`, `Flushed` are the select loop, with the time a write takes in between. Sending on
or closing a closed channel sets `crashed`, after which nothing moves. An event is its subject and number: payloads are
never looked at.

### EventFanout
What sse-push promises, without locks: a subscriber is offered every event published while it is subscribed, per
subject once and in order, and loses one only when its own queue is full. `RefinesFanout` maps a subscriber's queue to
its channel's buffer and counts an event as published when its loop starts.

### Poller
The loop of `main`, `pollAll` with one goroutine per feed, and for each feed in turn the three calls of runPollCycle:
`SetData`, `Publish`, `SetStamp`. A write in trouble may fail, or be carried out and still report an error. SetHashJSON
with no items leaves no key. SIGTERM cancels Redis calls and fetches but not NATS publishes, which take no context.
There is no clock: a value is its age, a key the time it has left, and `Tick` ages everything. `Check` is the test both
health endpoints apply. `outage` is the switch under which anything may fail; without it everything works, which is
what lets `NoFalseAlarm` and `Recovers` be stated. The timestamp of the code is in whole seconds, one thirtieth of a
`Tick`.

### GtfsStatic
ManageGTFS and its two loops, the swap of the store map by map under the write lock (in any order: without the lock
no order would be visible to readers), and HTTP handlers: Ready under the read lock, then the query under the read lock
again, reading part after part. A timetable is its version. `newest` and `floor` are history, for `NeverBack`. Waits
end at any time, so every relation between backoff, refresh interval and request is covered.

### Calendar
An instant is a number of hours on a calendar whose days may have 23 or 25 of them, `DayLength`, the clocks changing at
two in the morning. `Midnight` is truncateDay, `DateOf` the date of an instant, `Wall` what fmtTime and formatTime show,
`Yesterday` the subtraction of 24 hours that ScheduleForStop makes, which is a midnight only after a day of 24 hours.

### Departures
One train through one request of `GET /departures/{stop}?dest=` after another. Every call that leaves the process is an
action: GetSchedule (`Schedule`), StopIDsForCode (`Destination`), the two bulk reads before the loop (`Board`,
`Glance`), the lookups of findDelay by trip id and by trip number (`DelayById`, `DelayByNumber`), the same two again for
the status (`StatusById`, `StatusByNumber`), ArrivalTimeAtStop (`Arrival`), the exceptions, NextService and the second
read of the board (`Platforms`). What the code computes in between is part of the action that follows or precedes:
`Judged` the status, `Glanced` and `Boarded` the enrichment of lines 107 to 139. Any HTTP call may fail, any read of
Redis may find nothing, and `WriteUpdates`, `WriteGlance`, `WriteBoard`, `WriteExceptions` (the poller, or an expiry)
come anywhere in between. SetHashJSON runs in a transaction and SetJSON is one command, so a write is one step.

`updates` is what ParseTripUpdates makes of a feed for this train: the entity under its trip id, the last of the feed,
and the one under its trip number, the first of any day. A delay is in seconds and truncated to minutes as in the code;
the instant of a departure is in seconds as well;
a platform is the source it came from; a row of the board is whether it is of this train (`own`) and whether it has its
line and time (`match`). `touched`, `rewrites` and `held` are history, for the properties.

The two services compute the time of a train apart, and so does the model. `train` has what gtfs-static starts from: the
base of its service day, a midnight or 24 hours before one, and the departure after it. `Listed` is the instant shown as
the scheduled time (store.go, line 546). The candidate carries the base as a date (`ServiceDay`, line 553), and
GetDepartures adds departure and delay to the midnight of that date (`Scheduled`, departures.go, lines 60 and 61): this
is the actual time of `Timed`. The two are the same instant only if the base is a midnight (`OnMidnight`).

### Schedule
What `load` makes of a timetable and what the queries compute from it, as operators. A timetable is a record: stops
(code, parent, position), services (calendar), trips (route, number, calls in order). Time is counted in hours on the
calendar of `Calendar`. `Candidates` is the two loops of ScheduleForStop with the break at the
first service day that fits, `Sorted` every order a sort that is not stable may leave, `Deduplicate` the loop over
them with the two maps `seenTrip` and `seenTimeLine` and the cut at `MaxResults` (`Keep` is one turn of it), `Row` the record of the answer. `TripIndex`, `RailStops`
and `AllStops` are the indexes. Names, colours, headsigns and platforms follow from ids and are left out.
`WellFormed` is what is taken for granted of a feed: the stops that calls and platforms name exist, trips are finitely
many, and times are not negative. GTFS asks this of a feed; `load` does not check it.

### StaticClient
One handler of departures-api through one request after another, call by call: `GetSchedule`, `GetDestination`, and for
each row getTrip (`Hit`, `Fetched`, `FetchFails`) with the arrival computed from what the cache has. A call may fail at
any point, and gtfs-static may swap its timetable (`Refresh`) or have none. Other handlers share the cache: a miss of
theirs may be answered now and stored later (`OtherFetched`, `OtherStores`), past a refresh. `schedule`, `source` and
`failed` are history. The reference in this module (`Runs`, `Departing`) is written by service days and instants, without
indexes and caches, over all the service days of the calendar, tomorrow's among them, and the properties compare with it.
`Covered` are the two days the code tries.

### CommutePage
A list of alerts is its number in the order Metrolinx has them; 0 is the empty list. `Poll`, `Store`, `Announce` are a
poll cycle, `Expire` the key's end; `Accept`, `Onopen`, `Subscribe` the two ends of a connection, which may see each
other in either order because the handler flushes before it subscribes; `Onerror` and `Reconnect` the loss and the timer.
A fetch or load is a record in a set: aborting it takes it out, and its continuation would return at the check of its
signal. `Event` is applyRealtimeAlerts, `Interval` and `Resume` loadAlerts, `HandleAlerts` the API's handler, which
answers an empty list when Redis has none or fails. `Load` is the beginning of loadDepartures, called by `Navigate` (the
effect on the trip), `Reload` and `ReloadEarly` (the interval, with the last load ended or not); `LoadFails` and
`Retry` are its two attempts. Everything that goes wrong, and every fetch that overtakes another, is counted in
`troubles`. One page, because pages share nothing but the broker, which `Broker` covers.

### SseSlots
Every request of an address has a program counter through openSSE and `handle`, and up to two releases under way
(`ret`): of the abort listener, which may come at any time once it is registered, and of the handler's own path. INCR,
DECR, DEL, EXPIRE are single steps; a call that fails may have had its effect or not, and the request goes on in memory
as the code does. `Tick` is the time to live; `RestartWeb` and `RestartRedis` lose what lives in each. `exact` is
history: whether the counter has counted every claim (a stream, a slot being granted, a release owed) so far.

## Runs

| Run | Question | Bounds |
|---|---|---|
| `broker` | Does it panic, leak, block or lose more than it may? Does it implement EventFanout? | 2 connections, 2 subjects, capacity 1, 2 events each |
| `poller` | Do health and NATS tell the truth about Redis for a feed polled every other tick, stored as a hash? | `Period` 1 = 30 s, `TTL` 10, `Threshold` 6, as in the code; `MaxCycle` 1; `MaxPolls` 3 |
| `poller_updated` | Does a timestamp mean that the data was updated? (violated) | same |
| `gtfs_static` | Are answers whole, present, never older; does the loader ever give up? | 2 handlers, 2 parts, 2 attempts a round, 2 timetables |
| `departures` | Do the parts of an answer agree, and is it the verdict on what Redis holds? | 7 days of 24, 23, 24, 24, 24, 25, 24 hours, 2 trains after midnight (one after the long day), 5 feeds, 2 glances, 3 boards, `MaxRewrites` 1 |
| `departures_canceled` | Is a trip that the updates cancel shown as cancelled? (violated) | same |
| `departures_arrival` | Has every departure an arrival time when a destination is asked for? (violated) | same |
| `static_client` | Are boards what the timetable says, on any day and through refreshes? Can every train be found? | 3 timetables, 7 days of 24, 23, 24, 24, 24, 25, 24 hours, `LookAhead` 3, `MaxResults` 2, 8 requests of which 2 are made, 2 refreshes |
| `local_time` | Is a train listed at the time the timetable has? (violated) | same, without refreshes mattering |
| `commute_page` | Does the page show the newest alerts and its own trip's departures, and come to show them whatever is lost? | 3 lists of alerts, one-place buffer, 2 trips, 2 troubles, 2 changes of the URL |
| `sse_slots` | Does the limit hold, what alone can make the counter wrong, and does it mend? | 2 requests, 1 slot, `TTL` 2, 2 failures |
| `sse_lockout` | Does a lockout end? (violated) | same |

What they show:

- `broker`: `NoPanic` (no send on a closed channel, no double close), `NoLeak` (a finished handler leaves nothing
  behind), `BroadcastCompletes` (browsers that stall do not hold up a broadcast), `LeaverReleased` (a browser that
  leaves is unsubscribed however busy the lock), `RefinesFanout`. One-place channels make the drop common, two events
  per subject are enough for one to be lost, kept, repeated or overtaken; a third connection adds no new role (one
  being sent to, one joining or leaving).
- `poller`: `OkMeansServed`: when health says ok and the last write succeeded, the data is there and
  no older than the age health reports plus a cycle. `AnnouncedIsCached`: whoever hears of new contents by NATS and then
  reads Redis is not given older ones. `NoFalseAlarm` says exactly how many polls may fail, `Tolerated`: with cycles of
  up to 30 s, one for exceptions and three for the other feeds; one more does raise the alarm. `Recovers`: when the
  trouble is over every feed becomes ok and stays ok. One feed at a time: feeds share only the cycle, and time may pass
  anywhere in it, as the work of other feeds would make it.
- `poller_updated`: violated. In the first cycle SetJSON fails, SetTimestamp succeeds, and health is ok with nothing in
  Redis. docs/plans/2026-03-09-prod-hardening.md, line 77, has "each cache type tracks when it was last successfully
  updated".
- `gtfs_static`: `OneTimetable`, `NeverEmpty`, `NeverBack`, `CatchesUp` (the loader never gives up, whatever has failed
  before) and `Answered`. Two handlers are enough for one to park behind the writer while another still reads; two
  timetables for a stale one. The code makes five attempts at startup and three on refresh; the run makes two, the
  proofs any number.
- `departures`: `DelayAgrees`: status, delay minutes and actual time agree although three sources set them, and the
  actual time is that many minutes after the listed one on the clock, or one more when there are seconds, although two
  services compute the two. The exception is named: after a day of 23 or 25 hours it is false of that day's trains past
  midnight. After a 25-hour Sunday a train at 25:00, five minutes late, is listed at 01:00 with the actual time 00:05,
  and TLC finds this when the precondition `OnMidnight` is left out. Times of arrival (departures.go, line 104) count
  from the same midnight and are off from the listed times in the same way; `Departures` has of an arrival only whether
  there is one.
  `CancelSays`, `CancellationShown`: a flag and its text go together, and a cancellation in the exceptions reaches the
  answer. `OwnDelay`: the fallback to the trip number never gives a train the delay of its namesake of another day while
  its own update is there. `CalmWithDelay`: the two lookups of the update are a torn read, and this is all it can do.
  `SnapshotAnswer`: an answer during which Redis stood still is `Verdict`, the precedence of the sources written down
  as one expression. The feeds tell the first from the last entity, a delay before this stop from one after it, one of
  exactly a minute, an early train, and CANCELED with and without a delay. One write per request is what there is: the
  poller writes a key every 30 s; the proofs allow any number. What is written between requests is in the choice of the
  first state: a request starts from any combination.
- `departures_canceled`: violated. A service-glance delay or an Info of the Union board replaces the status that the
  updates gave, and IsCancelled is never set from them; GTFS_MIGRATION_PLAN.md, line 122, has "Cancelled" for CANCELED.
- `departures_arrival`: violated. StopIDsForCode fails, the error is logged, and the filter and the arrival times are
  gone; the comment on GetDepartures (departures.go, line 26) has an arrival time for each departure.
- `static_client`: `Sound`: every row is a departure of the reference. `Represented`: of today's and yesterday's service
  no departure is lost but to the two rules of deduplication or to a full board, and which of them may drop which is
  said exactly. Tomorrow's departures are lost always: the code tries today and yesterday only (store.go, line 460), so
  that at 23:00 a train of the next day's service at 00:00 is not listed although it leaves within the window. The
  reference has it, one of the requests meets it, and `Represented` over all of `Departing` is violated; no doc says how
  far past midnight a board looks, so this is stated as the property's limit and not as a run of its own. `OnceEach`: no
  number and no minute of a line twice, in order of the scheduled departures (GTFS_MIGRATION_PLAN.md, line 123, asks for
  the adjusted ones, which the code does not sort by). All three on days when the clocks stand still; `OnceEach` on all
  days. `Represented` holds when the window ends on a day of 24 hours as well: on the eve of a day of 25 hours the
  window reaches the hour that the clock shows twice, and a train in its second half is dropped for one of its line in
  the first (the key of `seenTimeLine` has the time of the clock, store.go, line 496). One of the requests is of that
  eve. `Findable`: from every call of a rail trip there is a stop on offer that leads to it. `BoardAgrees`: when no call
  failed, the trains listed with a destination are those that go there, with the arrival of the first call there after
  this stop, whatever refreshes, earlier failures and other handlers left in the cache; a stale answer is possible only
  for a trip that a refresh changed. The three timetables have between them a train under one number by two services,
  two of one minute and line, trips past midnight, one that starts at midnight and calls twice at the station, one that
  ends there, one without a route, one of a single call, one that a refresh makes longer, and trips that a refresh
  drops; the services have a weekly pattern, added days and removed days, one of them both. Two rows make the board
  full, two requests a hit on what the first left, two refreshes a timetable that comes back.
- `local_time`: violated. A train of 08:00 is listed at another hour on the day the clocks change.
  GTFS_MIGRATION_PLAN.md, line 78, has stop times as local time strings.
- `commute_page`: `NoStepBack`: an answer never takes the page back, unless Redis had lost the list, failed, or missed
  the write of what was announced: the event that overtakes a fetch aborts it, and Redis is written before NATS.
  `OwnDepartures`: with no load under way and no error shown, the departures are those of the trip in the URL; while a
  load is in flight, and after one that failed, the rows of the trip before are still on the page
  (docs/plans/code-review-2026-03-12.md, line 47, tells of the time they were not). `Settles`: when changes and failures
  end, the page comes to show the alerts in force and its own departures, whatever was lost: the event in the gap before
  Subscribe, at a full buffer, on NATS or with the connection, the write, the key, the answers. Three lists let an
  answer be one or two behind; two troubles let the first hide the second; a one-place buffer is full at once.
- `sse_slots`: `AtMost`: the limit holds until a call fails or a claim drops out; how a claim may drop out is for the
  next property to say. `CountedUnless`: a claim drops out only
  when the key ends under it (it expires after two minutes under older streams, Redis restarts, DEL follows a DECR that
  an INCR has overtaken), a call fails, or one request gives its slot back twice. `LeakedOnlyBy`: a slot is counted that
  nobody will give back only by a browser that leaves before the listener is there, a failed call or a restart.
  `ExpiryHeals`: a counter that keeps having a time to live is no lockout. Each of the exceptions does happen: the runs
  without one of the disjuncts are violated. Two requests are the one that holds and the one that is refused, or the one
  that closes and the one that comes; the proofs have any number.
- `sse_lockout`: violated. INCR, then the web process restarts before EXPIRE: the counter is full and has no time to
  live, and each later attempt is refused and rolled back without EXPIRE. The run has one slot; with the three of the
  code (hooks.server.ts, line 5) it takes three such requests without an accepted one after them, whose EXPIRE would
  mend it. docs/sse-reconnecting-investigation.md, line 21, has "leaked Redis counters self-heal in 2 min".

### Fairness

- `Broker`: callbacks weakly, handlers strongly fair: the Go scheduler runs what can run, a mutex in starvation mode
  serves waiters in order, and select picks at random among its ready cases. A write to a browser that is still there
  may never return; one to a browser that has gone does. NATS, new browsers and departures are not fair.
- `Departures`, `StaticClient`: none; they have safety properties only.
- `CommutePage`: the poller's cycle, the connection's steps, the delivery of events, loadAlerts and loadDepartures,
  weakly: tickers and timers fire, and an answer comes or fails within the 10 s of the proxy. Changes and troubles are
  not fair, and end because they are counted.
- `SseSlots`: each request's handler and releases, the clock, and new attempts (the browser's reconnect timer runs for
  ever), weakly. Failures and restarts are not fair.
- `Poller`: the loop, weakly (calls have timeouts: 10 s for a fetch, 5 s for a lookup); time; and, strongly, the exit
  that select offers after SIGTERM next to a ticker that may be ready too. The platform restarts the service.
- `GtfsStatic`: loader, handlers and ticker weakly; after SIGTERM main returns within ten seconds. Requests and
  publications are not fair, and trouble need not end: `CatchesUp` and `Recovers` assume that it does.

## Proofs

For every value of the constants, from the assumption each module names:

| Theorem | Says | Rests on |
|---|---|---|
| `BrokerProofs!TypeCorrect`, `PanicFree`, `LeakFree` | `TypeOK`, `NoPanic`, `NoLeak` | `IInv` = types, `LockInv`, `RegistryInv`, `LoopInv` |
| `BrokerProofs!Refinement` | `Spec => RefinesFanout` | `IInv` and `FreshInv` (the channel of a connection not yet registered is empty) |
| `PollerProofs!TypeCorrect`, `OkServes`, `AnnouncedCached` | `TypeOK`, `OkMeansServed`, `AnnouncedIsCached` | `CycleInv`, `ServedInv`, `AnnouncedInv`; `Threshold + MaxCycle < TTL` |
| `PollerProofs!NoAlarm` | `NoFalseAlarm` | `AlarmInv` = `TimerInv`, `PollsInv`, `StampInv`; `MaxPolls` is above what is tolerated |
| `GtfsProofs!TypeCorrect`, `Snapshot`, `ReadyMeansData`, `Monotone` | `TypeOK`, `OneTimetable`, `NeverEmpty`, `NeverBack` | `AttemptInv`, `LockInv`, `StoreInv`, `ReadInv` |
| `DeparturesProofs!TypeCorrect`, `DelayConsistent`, `CancelConsistent`, `CancellationReaches`, `DelayOwned`, `CalmNeedsWrite` | `TypeOK`, `DelayAgrees`, `CancelSays`, `CancellationShown`, `OwnDelay`, `CalmWithDelay` | `FoundInv`, `OwnInv`, `AgreeInv`, `ListedInv`; at most one row of the board is of the train; the lemmas of `CalendarProofs` |
| `DeparturesProofs!SnapshotVerdict` | `SnapshotAnswer` | `SnapInv` |
| `StaticClientProofs!TypeCorrect` | `TypeOK`: the cache has only what a timetable says | `CacheOK`, `RestOK` |
| `StaticClientProofs!RowsDepart`, `NoDoubles`, `CoveredNotForgotten` | `Sound`, `OnceEach`, `Represented` (of the two service days that the code tries) | `GivenOK`; `Deduplicated`, `Boards` and the lemmas of `CalendarProofs`; `WellFormed` |
| `StaticClientProofs!TrainsFindable` | `Findable` | `WellFormed` |
| `StaticClientProofs!AnswerAgrees` | `BoardAgrees` | `BoardOK`, `CacheOK`; the lemmas `FirstCall`, `NextCall` |
| `CommutePageProofs!TypeCorrect`, `OwnTrip`, `NeverBack` | `TypeOK`, `OwnDepartures`, `NoStepBack` | `Ordered` = `Behind`, `FromAnnounced`, `RedisLeads`, `Fresh` |
| `SseSlotsProofs!TypeCorrect`, `Limited`, `DropsOnlyBy`, `LeaksOnlyBy` | `TypeOK`, `AtMost`, `CountedUnless`, `LeakedOnlyBy` | `Owing`, `Counted`; the lemmas `Effect` and `ClaimsDiffer` |

Why the strengthenings are needed:

- *Broker.* That `Close` finds no loop holding its channel is not visible in `NoPanic`. `LockInv` ties the program
  counters to the lock (a handler that is closing is alone), `RegistryInv` says that the registry is exactly the
  handlers between Register and Delete and that channels are open exactly from Connect to Close, `LoopInv` that loops
  hold registered channels only. `WriterAlone` joins them. In the refinement each step is an abstract step or a
  stutter: StartLoop is Publish, Send is Offer, Register is Join, Delete is Leave, Receive is Take.
- *Poller.* `OkMeansServed` compares two keys written at different times by one cycle. `ServedInv` keeps, besides the
  bound on the age, that the time the data has left, its timestamp's age and a cycle add up to at least the TTL, and,
  between the two writes, the same with `elapsed` for the timestamp; the assumption on the constants then rules out the
  expiry. `AnnouncedInv` needs that an answer in hand is never older than what was announced. `NoFalseAlarm` counts
  polls and reads an age, so `StampInv` bounds the one by the other: in a cycle the timestamp is no older than `elapsed`
  and what lies `Behind` (the rest of its own cycle, a Period, and the slowest of every further cycle begun, those that
  leave the feed out included); between cycles the time the ticker has left is added. It needs `TimerInv`, that a cycle
  and the ticker together take no more than a Period unless the ticker has fired, and `PollsInv`, that only what is due
  is fetched. `Begun` turns polls into cycles for a feed polled every other tick.
- *gtfs-static.* `OneTimetable` is about what was read in the past, so `ReadInv` says that while a handler reads, what
  it has read is still in the store; `LockInv` that nobody reads during a swap; `StoreInv` that outside a swap the store
  is uniform, and that the timetable being loaded is no older than what is stored or was answered.
- *Departures.* The properties are about finished answers; the invariant follows the departure through the handler.
  `FoundInv` says that, unless the updates were touched, the delay found is the one the lookups would find now, and that
  a handler at the second lookup knows the first key to be missing: that is what makes a calm status with delay minutes
  impossible without a write. `OwnInv` needs the history `held` from the request on. `AgreeInv` carries `Agree`, the
  relation between status, minutes, actual time and flag, through `Judged`, `Glanced` and `Boarded`, each a lemma;
  `Glanced` needs in addition that the minutes are still those of the delay. `Timely` is the step to the clock: a base
  that is a midnight makes the two instants differ by the delay alone, of which `MinutesSplit` says that it is its
  minutes and less than a minute more. `SnapInv` says, while Redis stands still, what the handler has at each point is
  what the sources say up to there: the board and the glance as read, the delay and the status of the updates, the
  status after the board; `SourcesAgree` is the step from there to `Verdict`. Types rest on `FindDelayInt`: a set of
  positions that is not empty has a last one, by well-foundedness of strict inclusion.

- *StaticClient.* `TypeOK` says of the cache that each entry is what some timetable has for that trip, so it is a claim
  about every answer, failure and refresh, and inductive with the domain of the cache added. `GivenOK` says that the
  rows are an answer of ScheduleForStop to this very request, which takes the three properties of the rows to the lemmas
  about that operator. `BoardOK` follows the handler through its rows: each row of a steady train is still to be looked
  at, or its next call is on the board; and what is on the board is the next call. A hit in the cache is as good as an
  answer because `CacheOK` says that both are what some timetable has.
- *CommutePage.* `NoStepBack` is about one step, and needs an order of all the places a list passes: nobody is ahead of
  the poller (`Behind`), events come from what was announced (`FromAnnounced`), and unless Redis has missed an announced
  list, neither the page nor an answer on its way is ahead of Redis (`RedisLeads`). `Fresh` says that there is one fetch
  at a time, and that its answer is no step back unless it was late when it was given. `OwnDepartures` is inductive
  because it also says of every load in flight that it is for this trip.
- *SseSlots.* The counter and the number of claims are compared by what one action does to each: `Effect` says that an
  action in which no call fails takes a slot, gives one, keeps the count or deletes the key, and what that does to its
  request's claim; `ClaimsDiffer` turns it into cardinalities. `Owing` (who may owe a release where) is what excludes
  the cases that do not happen.

`CalendarProofs`, and the first half of `StaticClientProofs`, are about operators alone. `Deduplicate` and `Midnight`
are recursive functions, and what they compute is shown by induction all the same: the induction theorems of the library
take a predicate as a parameter, which the provers here cannot instantiate, so `Induct` has a set of numbers in its
place, proved from the well-foundedness of strict inclusion (`LastExists`); `Recursion` shows that a recursion over 0..n
has a solution, which the CHOOSE behind a recursive function then is. From these come the midnights (`Midnights`,
`MidnightsGrow`, `DateOfDay`: a moment has one date), the loop of `Deduplicate` (`Loop`: it goes from the empty board by
one `Keep` per candidate; `KeepFaithful`: after each turn every candidate so far is settled, and `Deduplicated` carries
this to the end), and the searches of `ArrivalTimeAtStop` and `Remaining` (`FirstCall`, `NextCall`,
`RemainingIsSuffix`). The two loops of ScheduleForStop and the service days of the reference are compared by
`CandidateDeparts` and `DepartureIsCandidate`: on days of 24 hours the two candidates that `Yesterday` separates are a
service day apart. `WallOnce` is why `Represented` needs the day the window ends on: within the window a time of the
clock comes once.

The bound `MaxPolls` is part of an assumption, `PollsAssumption`: polls are counted beyond the number that the threshold
tolerates. It is about the bound, not about the code; with a smaller bound a failing poll would no longer count.

Every invariant and every action property of the passing runs, and the refinement, is proved. Only model-checked are
the liveness properties (`BroadcastCompletes`, `LeaverReleased`, `Recovers`, `CatchesUp`, `Answered`, `Settles`,
`ExpiryHeals`): they need fairness and ENABLED, which are out of the provers' reach. The properties of the runs that
expect a violation are refuted by them.

## Not modelled

- In `Departures`: cars, motion, headsigns, colours and the alert texts of the envelope; the two halves of a look at
  NextService (its cache, then Metrolinx), of which only what it may answer is kept; several trains in one request,
  whose iterations share nothing but the two bulk reads. Stop codes and stop ids are one: `here` is what the exceptions
  and the timetable both call the station. The other handlers of departures-api pass a cached value on.
- Contents of messages and formats of logs and JSON; the pings of the health endpoints; CORS and origin checks.
- Shutdown of sse-push: `srv.Shutdown` waits its five seconds, because handlers watch only their own request; the
  process then ends and keeps nothing.
- NATS itself: at most once, in order per subject. Messages published while sse-push is disconnected are lost; the
  browser's own refresh makes up for it, which `CommutePage` shows.
- Cycles longer than `MaxCycle`: the code does not bound a cycle (route lookups are sequential), the model does, and
  the assumption `Threshold + MaxCycle < TTL` says how much room there is: two minutes.
- In `Schedule`: DeparturesForStop and the readers of one map; the parsing of CSV and of times. Minutes are hours there:
  nothing in the code depends on a finer grain.
- In `StaticClient`: the caches of routes and stop names, which have the shape of the cache of trips, and the methods of
  StaticClient that nothing in departures-api calls. The poller's route cache has one goroutine.
- In `CommutePage`: the countdown, analytics, the station page (whose loading has the same shape), disconnectSSE (only
  the unmounting of the layout calls it).
- In `SseSlots`: isRateLimited, a counter of a fixed window with the same gap between INCR and PEXPIRE but a key of its
  own for every window, so that it locks nobody out; the connection to Redis itself.
- Display times, the split-flap animation, the other pages and the service worker: rendering, and no state that the
  components above share. Their one interleaving, a flip superseded between two awaits, is cut off by a generation
  counter.
