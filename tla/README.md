# A TLA+ model of jaspy

Jaspy monitors a network of switches.  Its core is **nexus** (`nexus/src`, Rust): one
process whose threads ping devices, poll them over SNMP, receive traps, crawl the
topology, derive issues, and serve everything over HTTP, WebSocket, Prometheus and
MQTT.  The threads share a few mutex-protected stores and one SQL database.  Around it
are two browser programs: the web UI, which nexus serves, and the weathermap page.

This directory models the parts whose correctness depends on how threads, callbacks and
answers interleave and on calls that fail, checks them with TLC, and proves the most
important properties for every value of the parameters with TLAPS.

Paths below are relative to `src/nexus/src/` unless they start with `src/`;
`useLiveSocket.ts` is `src/nexus/webui/src/hooks/useLiveSocket.ts`, and `app.js`,
`device.js`, `devicegraph.js`, `linkgroup.js` are under `src/weathermap/js/`.

## 1. The system

### 1.1 Components, their state and their operations

| component | state it keeps | operations |
|---|---|---|
| pinger (`collectors/pinger.rs`) | per shard worker: an accounting entry per device (last known state, two hysteresis counters) | each second: list the monitored devices of the shard, seed newcomers from IMDS, ping, report the transitions; drop everything while paused |
| IMDS (`utilities/imds.rs`) | in memory: an entry per device (up, base MAC) with one per interface (attributes, counters, violation count, last report) | refresh from the database (`main.rs`); `report_device` and `report_interfaces`, by the collectors and by the routes of external agents (`PUT /dev/device/monitor`, `PUT /dev/interface/monitor`); reads |
| poller (`collectors/poller.rs`) | `poll_workers`, `reap_threads`; per worker a stop flag and a finished channel | reload the device list, start and retire workers, reap them, pause, shut down; a worker polls three tables and reports |
| trap receiver (`snmp/trap.rs`, `traphandler.rs`) | none | a link trap becomes an interface report |
| issues (`utilities/issues.rs`, `routes/api/v1.rs`) | tracker: an occurrence (first and last seen) per issue key; cache: the tracked list and its expiry; database: acknowledgements, suppressed types | scan thread; list, acknowledge, unacknowledge, suppress, unsuppress; seeding at start |
| discovery (`collectors/discovery.rs`, `routes/dev/discovery.rs`) | control block: configuration, status, pending trigger, single-device queue; per crawl: in-flight, detected and failed devices, thread handles | trigger, configure, periodic run, crawl with one thread per device, single-device lane |
| discovery ingest (`utilities/discovery.rs`) | database: device and interface rows, links | upsert a device with its interfaces, reconcile links |
| SNMP admission (`utilities/semaphore.rs`, `collectors/pool.rs`, `snmp/source.rs`) | permits in use, waiters, the queue of a batch | acquire, release, run a bounded fan-out |
| embedded SNMP client (`snmp/embedded.rs`, `main.rs`) | per device: smoothed latency, timeout, streak, dead flag; per thread: a socket | query with retries, adapt, seed from and flush to the database |
| VLAN, LAG, entity pollers (`collectors/*`) | a store with one record per device; the VLAN poll-now set | cycle, replace on success, retain |
| weathermap routes (`routes/dev/weathermap.rs`, `utilities/cache.rs`) | a cached topology; saved positions in the database | build and serve the topology, serve states and positions, store a position |
| weathermap page (`src/weathermap/js`) | devices with links, colours and places; timers; the freeze of the position poll | poll topology, states and positions, merge and draw; edits with the mouse |
| web UI (`src/nexus/webui`) | per page: a WebSocket, its timers, a status | connect, probe, retry, wake up, change topic; the rest is tables over HTTP |
| event bus (`utilities/msgbus.rs`, `livelog.rs`, `models/events.rs`) | the MQTT client's request channel, live topics with their backlog | publish, subscribe |
| health (`utilities/health.rs`) | windowed samples per interface, a state file | ingest, prune, summarise, dump, load |
| spanning tree (`utilities/stp.rs`) | none | build the forest from port tables |

Everything else (`switchmaster`, the command line tool, packaging, MIB data, the mock
network, vendored JavaScript) is outside the model; `PROJECT.json` lists each with its
reason.

### 1.2 How they interact

* **Shared memory.**  IMDS has one mutex; pinger, poller, trap receiver and the refresh
  thread all write it, the issue derivation, the exporters and the routes read it.  The
  issue tracker, the issue cache, the discovery control block, the crawl state and each
  device's latency record have a mutex each.  Except where the IMDS lock is kept to
  publish events, handlers take one after the other, so what was read under the first may
  be stale under the second.
* **Database.**  Rows appear and vanish through discovery and the device routes; the
  pinger, the pollers and the refresh thread each re-read the *monitored* list at their own
  pace.  `models/dbo.rs` turns a failed query into an empty list or `None`, so callers
  cannot tell failure from absence.  No transaction spans two statements.
* **Panics.**  `Interface::device` (`models/dbo.rs:622`) unwraps: a device that was deleted since
  its interface was read, or a failing query, panics in the caller.  Under the mutex of IMDS or
  of the topology cache that poisons the store for good, and every later access to it is
  skipped; elsewhere it ends the thread, which nobody restarts, or fails the request.
* **Admission.**  All collectors' SNMP requests pass one counting semaphore.
* **Messages.**  Changes are published as events while the IMDS mutex is held; browsers
  hear of them over a WebSocket and refetch.  The weathermap page polls, and answers of its
  three polls overtake each other.
* **Threads.**  Poller and discovery spawn and join their own threads, the store pollers a
  bounded fan-out per batch; a master switch (`PollingControl`) pauses all collectors;
  `running` ends the process.

### 1.3 What is hard about it

Stale lists applied late (the refresh of IMDS, the prune of acknowledgements, rows
written back whole); reports that overtake each other (a poll applied after a newer trap,
a position answer after an edit); streaks that must restart in exactly the right places
(ping hysteresis, counter violations, timeouts); a restart between two collectors' first
polls; threads started by threads that are being joined; wake-ups that find the permit
taken; callbacks of a closed socket that find its successor; failing calls that read as
empty answers.  The list, each entry at its line, is `hazards` in `PROJECT.json`.

### 1.4 What makes each component correct

* reachability: between the reports of external agents a shown state flips only after a full
  streak; worker and store come apart in named ways only; a monitored device's state becomes
  known and converges;
* interface state: a counter falls only for a wrap or a confirmed reset; subscribers and
  IMDS agree; events annotate bundle members truthfully; the shown state converges;
* poller: one worker per device, none leaked, silence during a pause, termination;
* issues: an acknowledgement lives exactly as long as its occurrence; a recurrence
  re-alerts; the cache is never wrong for long;
* discovery: each device is crawled once, links are built from a complete crawl, no
  accepted request is lost, the configuration survives a restart;
* ingest: one row per device and port, as long as reads answer; a link is never undone
  by a run that did not look at it; what runs leave wrong is repaired;
* admission: never more than the permits in flight, and no permit idle while one waits;
* store pollers: a poll-now request of a device on the list that was read is answered by a
  poll made after it, and every request is answered; data of devices that left goes;
* adaptive timeout: dead means silent, a device that answers recovers, what was learned is
  kept, and one query's leftovers do not spoil the next;
* live socket: never two connections, none after unmounting, in the end one that works;
* weathermap: the loop goes on, an edit the server stores stands, the map catches up with the
  database.

## 2. Modules

| module | models | extends |
|---|---|---|
| `Hysteresis` | the pure filter `advance_hysteresis` | Naturals |
| `Reachability` | pinger workers, refresh thread, device state in IMDS, device rows | `Hysteresis` |
| `InterfaceMonitor` | one device's ports, poll worker, traps, refresh, interface entries in IMDS | Naturals |
| `PollerSupervisor` | supervising thread, worker threads, pause, shutdown | Naturals |
| `IssueTracking` | tracker, cache, acknowledgements, suppression, scan thread, handlers | Naturals |
| `DiscoveryEngine` | control block, supervisor, crawl threads, single-device lane | Naturals, Sequences |
| `DiscoveryIngest` | device and interface tables, ingest threads of a full run, a single-device run, link reconciliation | Integers, FiniteSets |
| `InflightPermits` | abstractly, what the cap on requests in flight promises | Naturals, FiniteSets |
| `SnmpAdmission` | the semaphore: permit count, condition variable, waiters | Naturals, FiniteSets |
| `VlanPoller` | the VLAN collector on its bounded fan-out, behind the admission it shares with other collectors | `SnmpAdmission` |
| `AdaptiveTimeout` | the embedded client's latency record, sockets, retries, seeding and flush | Naturals |
| `LiveSocket` | `useLiveSocket` with its timers and browser events | Naturals, FiniteSets |
| `WeatherMap` | weathermap routes with the topology cache, and the page | Naturals, FiniteSets |
| `ReachabilityProofs`, `InterfaceProofs`, `PollerProofs`, `IssueProofs`, `DiscoveryProofs`, `IngestProofs` | theorems | the module they are about, TLAPS |
| `SnmpProofs` | theorems about the SNMP client and its users | `VlanPoller`, `AdaptiveTimeout`, TLAPS |
| `WebUiProofs` | theorems about the two browser programs | `WeatherMap`, `LiveSocket`, TLAPS |
| `MC...` | the small sets that instantiate a module | its module |

Operators beside a definition whose comment begins "Mutant:"
are a plausible wrong version of it.  No action uses them; replacing the definition by one
makes the property named in `PROJECT.json` fail, which shows that the property depends on
that piece of the code.

### 2.1 Reachability

`row` is the device's database row, `imds[d]` the `up` of its entry, `told[d]` what a bus
subscriber last heard, `acc[d]` the accounting of the worker that owns `d`.  A tick of a
worker is `LoadShard` (query and `retain`), one `SeedNewcomer` per new device (each takes
the IMDS lock), `PingShard` (`advance_shard` folds one answer per device), and one
`ReportUp` per transition, or `LoseReport` when no connection is to be had.  `SkipPing` is
a local send error, `PausedTick` the master switch.  The refresh thread is two steps,
`RefreshLoad` (outside the lock) and `RefreshApply` (inside).  `MonitoredDeviceReport` is
`PUT /dev/device/monitor`: an external agent sets any device up or down, at once, without a
hysteresis and without the worker knowing (`routes/dev/device.rs:147-152`).  A report that flips
a known state reads the neighbors from the database to announce them, before it stores the
state; `ReportPanics` is the panic in that read.  It leaves IMDS `poisoned`; in a worker it also
ends the thread (`DieReporting`).

History: `run` is the streak really observed; `cleared` whose accounting a pause has dropped;
`pushed` the tracked devices whose first known state an agent reported; `adrift` the devices
whose entry and accounting may have come apart.  A device becomes adrift when its row turns on
while a refresh that lacks it is on its way or before its worker has noticed it off, when the
refresh's list fails, when its report is lost, when an agent says the contrary of the worker,
and when IMDS is poisoned; the worker's next report of the device brings them together again.

The process has the pinger enabled; when it is disabled the poll worker reports device
state instead (`poller.rs:364`), without hysteresis.  The answer to a ping is any
assignment of up and down.

### 2.2 InterfaceMonitor

The eleven counters are one counter (the code treats them alike: one regression rejects
the report), an attribute has two values, `Limit` stands for 10 and `WrapGap` for
2147483647.  `Poll` reads the device into `sample`; `PollReport`, possibly much later,
applies it; `TrapReport` applies a link trap in between.  `NotNewer` is the time guard:
the stamp is the wall clock in milliseconds when the report is applied, so a second report in the same
millisecond, or any after the clock was set back, is skipped; `MaxTies` bounds how often.
`RefreshApply` is the refresh with its reset of all entries on a change of base MAC.
`AgentReport` is `PUT /dev/interface/monitor`.

Which ports a link event names is read from the database for every event: `links` are the
ports linked to the neighbor now, which discovery changes like `rows` (`Discover`); a statement
that fails leaves ports out, one that is unwrapped panics (`ReportPanics`) with the batch applied
up to that event and the mutex `poisoned`.  `Apply` is a batch, applied whole (`ReportAll`) or up
to a panic; `annotated` has the link events of the last report with the states they tell.
`regressed` counts, independently of the code's own count, how many reports in a row went
backwards.

### 2.3 PollerSupervisor

`sup` is where the supervising thread is in its loop: `Reload` (load the list, start and
retire), `Reap` (after a reload and on every other tick), `BeginJoin`/`EndJoin` (pause and
shutdown).  A thread runs `BeginPoll`, `EndPoll`, `Exit`; `Panic` kills it in mid-poll.
`Thread` is a set of slots; a joined thread frees its slot.

### 2.4 IssueTracking

A handler is a thread whose `req` record holds its program counter and local values; each
access to tracker, cache or database is a step.  A derivation is as many steps as it reads
apart (`v1.rs:911-1213`): the list of devices, which may fail (`FailDevices`, an empty
derivation), then, key by key in any order, what stores and rows tell of it (`Look`), and last
the suppressed types (`Collect`, may fail).  The condition of a key is what its own reads add up
to; faults, collectors and other requests move between those of different keys.  A panic in it
answers a request with 500 (`Fail`) and ends the scan thread for good (`ScannerDies`).

The clock counts ticks.  `Timely` states the one assumption on speed: a scan with its pause,
and a request, take at most `Within` (15 s and seconds in the code).  `PeriodAssumption` says that
a list lives no longer than the pause between two scans and that the grace is no shorter than it
(`v1.rs:11-22`, `main.rs:454`).  Nothing is assumed of the collectors: after a start each key is
`cold` until its own collector has polled (`WarmUp(k)`), at any time.  In the code the first cycle
of the LAG and VLAN collectors may come 150 s, that of the entity collector 120 s after the start,
the grace is 60 s.

History: `since` (the last change of what stores, rows and suppressions show of the key, or the
last derivation that misread it), `cleared` (the end of the condition itself), `acked`, and
`held`: the acknowledged keys that have stayed visible since and are still promised something.
The promise ends where the code cannot keep it, each place by name: a start that could not read
the rows (`Restart`), a collector later than `WarmWithin` (the grace less one scan) after a start
(`Tick`), a failed device query that is not `Spared`, that is, not between scans that went well,
and, when the acknowledgement is stored, a prune under way that read the keys too early
(`PruneMisses`) or an older acknowledgement under way (`Overtaken`).  An absence is measured from
`cleared`: an issue that is suppressed leaves `since` behind but not the tracker, for a
derivation whose read of the suppressed types failed derives it all the same.

### 2.5 DiscoveryEngine

`sup` walks through one iteration of `run`: `DrainSingles`, `NextRunParams`, `StartCrawl`,
`JoinDrained` until quiescent, `IngestLinks`, `FinishRun`.  A crawl thread is `Collect`,
then `StartNeighbor` and `PushHandle` for each neighbour (spawning and pushing are
separate: the child may run and end before its handle is pushed), then `IngestDevice`.
`topo` is the network's neighbour relation.  What is written to the database is not part
of this module.

### 2.6 DiscoveryIngest

What those threads write.  `devices` and `interfaces` are the two tables (sets of rows with
ids that are never reused), `job[w]` a thread between two database statements: `Collect`,
`FindDevice` or `CreateDevice`, `LoadInterfaces`, one `UpsertInterface` per announced port,
then per stale row `BeginDelete`, `UnlinkPeer` for each row that links to it,
`DeleteInterface`.  `rows` and `peers` of a job are copies: writes send them back whole, and
the foreign key makes a write of a dangling link, or the delete of a row in use, fail
without further effect.  `FindNothing` and `LoadNothing` are the reads of `ingest_device` that fail: they
count as "no such row" (`dbo.rs:431-433`, `:489-498`), and the device, or every port of it, is
inserted again.  `exposed` is history: a read failed, or two threads have ingested one device at
the same time.  When all threads have ended, `BuildConnections`, then per device
`LoadLinks` and one `IngestLink` per row of the copy.  The reads and writes for one row in
`ingest_links` are one step; only a single-device thread could run between them, and what
it writes there it can as well write before or after.  `net` is the network, changing at any
time; how LLDP and CDP entries are matched is abstracted to the port each entry resolves to.
All threads of a full run are there from its start: one whose device is met late is one that
waits to collect.

### 2.7 InflightPermits, SnmpAdmission, VlanPoller

`InflightPermits` is the abstract specification: threads want in, enter while there is room,
leave; and no permit stays idle for ever while a thread wants in (`NoIdlePermit`).  It has
no queue and no condition variable.  `SnmpAdmission` is the code: `permits` under a mutex, threads
in `pc` "want" (before the mutex), "asleep", "awake", "in"; one notification per release, a
newcomer may take the permit before the woken thread looks, and a sleeper may wake unasked.
It takes no part in deciding when a thread asks; `VlanPoller` does: its workers draw devices from
`queue`, ask for admission, poll, store.  The collector's thread waits for all of them, and
dies with them when one panicked, after the guard has given its permit back.  `Other` are
the threads of the other collectors.  `pending` is the set behind 409; `owed` and `unlisted`
are history: requests no poll made since has covered, and those taken up by the present pass
whose device was not on the list read for it, because it was not monitored or because the query
failed.

### 2.8 AdaptiveTimeout

`lat` is one device's record, updated by `Answered` and `TimedOut` (`adapt`); `sock[t]` the
socket a thread keeps, with the timeout and retries it was opened with; `query[t]` one
call of `with_session`, which makes requests until its walk ends.  An attempt is answered,
expires, is refused, or finds a leftover: a late answer to an earlier attempt of the same
request is accepted (the library repeats the id), one to an earlier request is a mismatch,
after which the query runs once more on a clean socket.  `db` and `last` are the row and
the flush thread's memory.  Milliseconds are coarse units, and the weighted mean moves a
unit at a time.  `silent` is history.  Names that `VlanPoller` has too are prefixed
(`SessionInit`, `SessionNext`, `SessionSpec`), as in `LiveSocket` those of `WeatherMap`
(`HookInit`, `HookNext`, `HookSpec`), so that one proof module can extend both.

### 2.9 LiveSocket

One action per browser event, with the handler it runs.  `close()` makes a socket
"closing"; its `onclose` comes any time later.  Refs (`socketRef`, `connectTimer`, `retry`)
and the timers themselves are apart: `strays` are reconnect timers that were overwritten
and can no longer be cancelled.  `wasLive` is `status` as the effect's closures captured it.

### 2.10 WeatherMap

The server: `net` and `marks` in the database, `imds`, a build of the topology that lists
devices in one step (`listing`) and reads ports and peers in many more until it ends: each link is
what some network since the listing had (`Readings`), or is missing where a read failed; a failed
list is an empty topology.  A peer's device that is gone, or cannot be read, panics under the
cache's mutex (`BuildPanics`): the cache is `poisoned`, and pages get an empty topology from then
on.  `Put` stores a record, or drops it where a statement or the pool fails, and is answered
either way (`weathermap.rs:223`), as is a request that a guard refuses (`device.js:71-75`).  The page:
`answers` under way in any order, merged by `Receive`; `frame` is what the animation loop
does when a timer is due, and ends the loop where the code throws in it; `mousedown`,
`mouseup` and the answers of PUTs handle the freeze of the position poll.  `torn`, `cut` and
`wish` are history.  The two flags a user may set of a device are one `mark`; the place, which the
animation moves too, is not modelled.

## 3. Runs

All runs finish; the passing ones explore their whole state space (state counts are
distinct states).

| run | properties | instance |
|---|---|---|
| `Reachability` | `WorkerAgreesWithIMDS`, `SubscriberAgrees`, `FlipNeedsStreak`, `KnownUnlessAdrift`, `Converges` | 1 device, 1 worker, limit 3, 2 row changes, 2 flips of the switch, 1 report of an agent, 1 failing call or panic; 358k |
| `ReachabilityLateRefresh` | **violated**: `KnownEventually` | 1 device, 1 row change |
| `Interface` | `CounterDropsConfirmed`, `SubscriberAgrees`, `LagAnnotationTrue`, `Converges` | 2 ports of one bundle, one with a counter 0..2; 2 disturbances out of flaps, resets, swap, change of rows and links, failing or panicking call, tie, or 1 report of an agent; 222k |
| `Poller` | `NoLeakedWorker`, `QuietWhenStopped`, `PolledForever`, `PollingEnds` | 1 device, 3 slots, 2 row changes, pause and resume, a failed load, a panic, shutdown; 22k |
| `Issues` | `AckSurvives`, `RecurrenceRealerts`, `CacheCatchesUp` | 1 key, 1 client, the scanner, grace, lifetime and scan 1 tick each, 6 ticks; 3 events out of 2 requests, 2 flips of the fault, a suppression (with its request), a restart, a failing or panicking call; 3.1M |
| `Discovery` | `CrawledOnce`, `CrawlComplete`, `AcceptedNotLost`, `ConfigSurvivesRestart`, `CrawlEnds`, `RequestsServed` | 3 devices in a cycle, one of them announced by both others; 2 triggers, 1 PUT, periodic runs, 1 single-device request; 1 fault out of a failing write and a restart (that can or cannot read its configuration); 213k |
| `DiscoveryIngest` | `UniqueRows`, `SecondRunExact`, `StableKeepsLinks` | 2 switches of 2 ports, one of them in the database; 5 networks, 1 change of it, 1 single-device run (or, in place of both, 1 failing read), stable and unstable full runs without bound; 4.1M |
| `DiscoverySingleClears` | **violated**: `SingleKeepsLinks` | 2 switches, 1 network, stable runs, 1 single-device run of the new switch |
| `VlanPoller` | `NoLostWakeup`, `AnsweredByFreshPoll`, `PollNowServed`, `UnmonitoredLeaves`, `ImplementsPermits` | 2 devices, 2 workers, another collector's thread, no cap or a cap of 1; 1 disturbance out of a row change, pause, failing load, panic, shutdown; 277k |
| `AdaptiveTimeout` | `FailedOnlyIfMissed`, `DeadIsSilent`, `Recovers`, `FlushCatchesUp` | 2 threads, a device that is fast (the floor), slow (the ceiling) or silent and changes once; 1 retry, dead after 2; 1 fault out of a lost packet, a refusal, a failing write, a restart; 269k |
| `LiveSocket` | `OneSocket`, `EventuallyLive` | 4 sockets, 2 topics, 3 disturbances out of sleep, network loss, server restart, change of topic, click, unmounting; 95k |
| `WeatherMap` | `LoopSurvives`, `EditStands`, `MapCatchesUp` | 2 devices of 2 ports, one of which comes and goes; 1 click and 1 disturbance (a change of the network or of a state, another page's edit, an outage, a failing or panicking statement); 266k |

Every module states a type invariant (`TypeOK`, `SessionTypeOK`, `HookTypeOK`).  TLC was used to debug
with them, and the proofs need and prove most of them; no run spends a property on one.

**Why the bounds are enough.**  A property about one device, port or issue key is checked
with one, since the code has no step that couples two; where it has, two or more are used
(members of one bundle, the crawl, ingest, the batch, the map).  For the safety properties
of `Reachability`, `InterfaceMonitor`, `PollerSupervisor` and the crawl the theorems of
section 5 cover every number of devices, workers, slots and every network; the runs then
serve for the liveness properties, whose scenarios need one of each.  Limits are scaled down
(streaks of 2 or 3 for 10), never to 1, so that an interrupted streak differs from a full
one.  In `Issues` the 6 ticks let an absence exceed the grace plus every delay and the fault
come back.  With a grace of one scan a collector must poll in the tick of a restart for
`AckSurvives` to go on promising anything after it, and no failed device query is `Spared`
(that takes a grace of three scans): what a longer grace makes possible is covered by
`AcknowledgementsSurvive` only.  The ring of `Discovery` has a cycle and a device that two threads
meet at once.
Two workers and one more thread are the fewest with which a woken waiter can lose
its permit to a newcomer while another waits.  Two threads are the fewest with which one
records an answer while another's timeout is on its way.  Four socket slots hold one socket
more than three disturbances can leave closing.  Bounds on disturbances are shared
(`MaxDisturbances`, `MaxUpsets`, `MaxFaults`): every kind occurs, and every pair where the bound is 2.

`DiscoveryIngest`: the networks are one cable, the same ports crossed over, a loop on one
switch, a lost line card and a switch that does not answer; the run covers every change
from one to another, at any moment of a run.  One switch is new, so that rows are created
as well as updated.  One undisturbed run is
not enough for `SecondRunExact`: after the loop has been recabled across, a run stores a
link and then clears it again through its stale copy of the loop's other end.

**What conditions a property carries.**

* `WorkerAgreesWithIMDS`, `KnownUnlessAdrift` and `Converges` of `Reachability` speak of all
  executions, with row changes, failing calls and agents, and excuse the devices that are `adrift`
  (section 2.1).  `SubscriberAgrees` speaks of executions without a failing call or row change
  (`Undisturbed`): the event needs the row.  `FlipNeedsStreak` constrains every step but the
  reports of agents; it excuses `pushed` devices, whose first known state an agent reported after
  their worker had begun to track them: there the worker's first observation replaces it at once.
* `Converges` of `InterfaceMonitor` excuses a poisoned IMDS.  In `LagAnnotationTrue` an event
  after a failing read names some of the members, and none that is not one.
* `AckSurvives` speaks of the keys in `held` (section 2.4).  `RecurrenceRealerts` excludes
  restarts and a dead scan thread.  `Timely` excludes that a scan is skipped because the pool has
  no connection.  `CacheCatchesUp` counts a misreading as a change: a failed read of the suppressed
  types lists everything, for as long as a list lives.
* `ConfigSurvivesRestart` excludes a start that could not read its configuration, and is
  checked with one client.
* `PolledForever` excuses a device whose worker panicked: nothing restarts it.
* `UniqueRows` ends with a failed read, or with two threads on one device at the same time
  (`exposed`): both do insert a second row.  `StableKeepsLinks` is about full runs alone, failed
  reads included.  `SecondRunExact` is about executions in which no device has two rows (`OneRow`).
* `AnsweredByFreshPoll` excuses requests whose device was not on the list read for the pass; when
  the query fails that is every device.
* `PollNowServed` and `UnmonitoredLeaves` assume `Alive`: the collector is not shut down,
  paused or dead, and the threads of other collectors are out of the back end and its
  queue, since a semaphore without fairness lets others go first for ever.
* `Recovers` is about devices that answer within the floor; slower ones may stay dead
  (section 4).
* `LoopSurvives` and `MapCatchesUp` excuse a torn topology, `MapCatchesUp` also a poisoned
  cache and the mark of a device that vanished under the mouse; `EditStands` is about an edit that
  begins while no other edit and no position answer is under way, and whose records the server
  stores (section 4).

**Fairness.**  `Reachability`: the loops of refresh thread and workers go on (weak), and a
send that can succeed again and again does (strong, for `PingShard`): local send errors are
transient.  `InterfaceMonitor`: both loops go on; a trap arrives or is lost.
`PollerSupervisor`: supervisor and workers go on; a poll ends because SNMP requests time
out.  `DiscoveryEngine`: `FairSpec` lets supervisor, lane workers and crawl threads go on;
`LaneFairSpec` leaves out the crawl's threads, which is what "not blocked by the crawl"
means in `SingleNotBlocked`: the lane's progress may not rest on theirs.  `VlanPoller`: the
collector, its workers and each thread's admission go on, responses come or time out, the
cycle's time passes; `SpuriousWake` is not fair, nor is a new request.  `AdaptiveTimeout`:
the threads and the flush go on, and a walk ends (strong: a table has finitely many rows,
though after each answer the next request may come first).  `LiveSocket`: sockets open, answer,
close or fail, timers fire, a machine wakes and a stopped server starts again.
`WeatherMap`: a build ends or the cache expires, each timer of a living loop comes due, an
answer of each kind is received, the mouse button is released and PUTs end (`Settle`).
`IssueTracking` and `DiscoveryIngest` have no liveness property; the former bounds
lateness by its clock.  Environment actions are otherwise never fair.

## 4. What TLC found the code not to keep

Two statements of the sources are refuted by a run:

* `ReachabilityLateRefresh`: the refresh lists the monitored devices before it locks IMDS;
  a device that became monitored and was reported in between is purged, recreated without
  a state, and not reported again until its state changes.  `imds.rs:194-196` says that
  creating entries on demand prevents a device staying unknown.
* `DiscoverySingleClears`: a single-device run loads a device's rows, the full run stores a
  link in one, the single-device run writes its copy back and the link is gone until the
  next run.  `collectors/discovery.rs:1246` says such runs "must never clear the device's
  links".

The modules state further sentences of the sources that the modelled code does not keep
either.  No run of this project checks them; they are kept as definitions, and the
executions are:

* `SuppressImmediate` (`cache.rs:75`): a derivation that read the suppressed types before
  the toggle stores its list after the invalidation.
* `AckOnlyActive` (`v1.rs:1333`): an issue that has cleared but is within the grace is
  still tracked, so it is acknowledged instead of refused with 409.
* `ResumeReportsAfresh` (`pinger.rs:118`): after a pause a worker seeds from IMDS, whose
  entries keep their state, so the first observation is compared with the state before the
  pause.
* `PurgeOnlyDeleted` (`main.rs:27`, `dbo.rs:377`): a failed query is an empty list, and the
  refresh purges every entry.
* `CommunityApplied` (`poller.rs:390`): a worker keeps the community it was started with.
* `SingleNotBlocked` (`collectors/discovery.rs:2038`): the single-device queue is drained by
  the thread that runs the full crawl, between crawls only.  `models/json.rs:109` says such
  runs are not blocked by it.
* `TriggeredPollCompletes` (`collectors/vlanpoller.rs:570-577`): a request is to stay pending until
  its poll completes, but when the list of devices cannot be read every request taken up is
  released, monitored devices unpolled.
* `SlowNeverDead` (`snmp/embedded.rs:237`): a switch "still ramping" is "never mistaken for
  dead", but timeouts of queries that were sent with the smaller timeout are counted once
  the record has reached the ceiling: three threads that ask at once suffice when the
  ceiling is one step away.
* `SlowRecovers` (`main.rs:260`): switches "whose replies exceed snmp_timeout_ms still get
  polled", but one that was declared dead (it was rebooting, say) is asked with the floor and
  no retry, never answers in time, and so stays dead, over restarts too.
* `TopicFollowsPage` (`useLiveSocket.ts:39`): `onclose` of a socket that a change of topic
  has replaced arms a reconnect for the old topic; if the new socket has closed by then, the
  page connects to the old one.
* `StatusSettles` (`useLiveSocket.ts:21-23`, `:115`): a late `onclose` of a replaced socket
  sets the status to connecting over the working successor.
* `UnknownNotDown` (`routes/dev/weathermap.rs:120`): a device nexus knows nothing of is
  reported down as soon as one of its interfaces has a metric.
* `LinksLeaveTheirPort` (`linkgroup.js:34-41`): a link is known by its far end only, so one
  recabled to another local port keeps showing the figures of the old one.

Also seen while modelling, as executions of the modules without a property of their own:

* The prune of acknowledgements (`v1.rs:1298`): a list request copies the tracker's keys, another
  request acknowledges an issue that is new since, the first deletes that row (`PruneMisses`).  The
  comment at `v1.rs:1304` says only forgotten issues are pruned.
* An ack request whose derivation no longer finds its issue reconciles while the occurrence is
  within the grace (`v1.rs:1333`) and is delayed; the scan forgets the occurrence, the
  condition returns and another request acknowledges it; the first then writes the old stamp
  over the new one (`Overtaken`).
* After a restart an acknowledgement whose collector first polls after the grace is lost, and the
  issue comes back as new: 60 s of grace (`main.rs:454`) against up to 150 s (`lagpoller.rs:468`,
  `vlanpoller.rs:558`, `collectors/pool.rs:33`).
* An agent's report that contradicts the worker leaves IMDS wrong until the device's state next
  changes, while all pings agree: the worker reports its own transitions only
  (`routes/dev/device.rs:147`, `pinger.rs:52`).
* A peer's device that is deleted, or cannot be read, while a flip is announced poisons IMDS: device
  and interface state stay as they were until the process restarts.  In a derivation it ends the
  scan thread, in a topology build it poisons the cache (`models/dbo.rs:622`).
* A failed read makes an ingest insert its device, or all ports of it, again, and nothing removes the
  second rows (`dbo.rs:431-433`, `:489-498`).
* When the query of the err-disable table fails, the merged entry reads as "not err-disabled"
  (`poller.rs:78`).  A trap in the millisecond of another report, or after the clock was set back,
  is dropped (`imds.rs:392`).
* Two suppression toggles at once lose one, and a failed read of the set makes the next
  toggle overwrite it (`v1.rs:1532`, `dbo.rs:138`).
* A restart that seeds acknowledgements of long cleared issues (`main.rs:463`) brings these
  back as tracked, so a recurrence within the grace after it is shown acknowledged; one that
  cannot read them forgets them.
* Two `PUT /config` at once (`routes/dev/discovery.rs:111`) may persist in one order and
  apply in the other.  A trigger without a root device is dropped
  (`collectors/discovery.rs:1149`).  The comment at `models/json.rs:72-73` that the
  configuration is reset on restart is out of date: `main.rs:376` loads the persisted one.
* A failed list of devices drops the VLAN data of all of them
  (`collectors/vlanpoller.rs:486-504`, `:553`).  A panicking work item ends the
  collector's thread (`collectors/pool.rs:43`); the requests pending then answer 409 for
  good.
* A socket opened while its device was thought dead keeps zero retries for as long as it
  is used (`snmp/embedded.rs:786`).
* An event between a page's load and its socket's first opening is not refetched
  (`src/nexus/webui/src/App.tsx:52`).
* A topology built while a row is inserted may name a device it does not list
  (`routes/dev/weathermap.rs:12-54`); drawing it throws inside the animation loop
  (`device.js:380`), which then asks for no further frame (`app.js:242`).
* A position that the server fails to store is answered like one it stored, and the next poll puts
  the device back (`routes/dev/weathermap.rs:223`, `device.js:71-75`).
* On the page, a position answer that was on its way when an edit began puts the device
  back; the answer of one edit's PUT unfreezes the poll during another's drag; a device
  removed in mid-drag leaves the poll frozen; a state for a device that was never drawn
  throws and drops the rest of that answer (`devicegraph.js:148`); nothing goes stale while the
  server is unreachable; `device.js:439` names a variable `fqdn` that does not exist.

## 5. Proofs

Each proof module proves its theorems for all values of the constants that satisfy the
named `ASSUME`s of the model (types of the parameters, bounds in `Nat`, `None`, `Nothing`
and "none" outside the sets they extend; `ShardAssumption`: `shard_of` maps every device to a
worker; `HystLimitAssumption` and `LimitAssumption`: the limits are positive;
`ThreadAssumption`, `DeviceAssumption`: finitely many threads, finitely many devices;
`StoredAssumption`: the rows found at the start are well-formed, unique and of devices
found with them, as the foreign key demands;
`PeriodAssumption`: section 2.4; `TimeoutAssumption`: the floor is positive and not above the
ceiling).  Bounds on disturbances are constants too, so the theorems hold for any number of
them.  One theorem has a hypothesis on the execution besides, since with any number of
clients the property is false (section 4): `ConfigurationSurvives` assumes `[]OnePutAtATime`, that
no two PUTs are between their two writes at once.  An execution with one client satisfies it.  All
other interleavings of requests with each other and with the scanner or the supervisor, restarts,
failing calls and panics are covered.

Each module states its inductive invariants as conjunctions of named parts, has a lemma per
action or group of actions, and one that puts them together.

| module | theorems | run property |
|---|---|---|
| `ReachabilityProofs` | `TypeCorrect`; `FlipsAreConfirmed`; `WorkersAgree`; `SubscribersAgree` | `FlipNeedsStreak`, `WorkerAgreesWithIMDS`, `SubscriberAgrees` |
| `InterfaceProofs` | `TypeCorrect`; `DropsAreConfirmed`; `SubscribersAgree`; `AnnotationsTrue` | `CounterDropsConfirmed`, `SubscriberAgrees`, `LagAnnotationTrue` |
| `PollerProofs` | `NoWorkerLeaks`; `PausedIsQuiet` | `NoLeakedWorker`, `QuietWhenStopped` |
| `IssueProofs` | `IssuesTyped`; `RecurrenceIsFresh`; `CacheIsCurrent`; `AcknowledgementsSurvive` | `RecurrenceRealerts`, `CacheCatchesUp`, `AckSurvives` |
| `DiscoveryProofs` | `EachCrawledOnce`; `CrawlMeetsAll`; `NoAcceptedRunLost`; with one PUT at a time: `ConfigurationSurvives` | `CrawledOnce`, `CrawlComplete`, `AcceptedNotLost`, `ConfigSurvivesRestart` |
| `IngestProofs` | `RowsStayUnique`; `StableRunsKeepLinks`; `SecondRunIsExact` | `UniqueRows`, `StableKeepsLinks`, `SecondRunExact` |
| `SnmpProofs` | `NoWakeupLost`; `AdmissionImplementsPermits`; `CapHolds`; `PollNowAnsweredFresh`; `TimeoutWithinBounds`; `NoFailureByLeftovers`; `DeadOnlyOnSilence` | `NoLostWakeup`; the safety part of `ImplementsPermits`; `AnsweredByFreshPoll`; `FailedOnlyIfMissed`, `DeadIsSilent` |
| `WebUiProofs` | `LoopSurvivesAlways`; `EditStandsAlways`; `OneSocketAlways` | `LoopSurvives`, `EditStands`, `OneSocket` |

**ReachabilityProofs.**  `FlipNeedsStreak` constrains the step that writes IMDS, but the
streak that justifies it was observed steps earlier by a worker, with refreshes, pauses,
row changes and other reports in between.  `IInv` bridges that distance: a worker handles
devices of its own shard only, so no two write one entry (`ShardOK`); a transition waits only
in a report phase, with a known state (`PendingOK`); the hysteresis counters never claim more
agreement than was observed (`StreakOK`); a device whose worker has no state for it has none in
IMDS either, unless an agent pushed one, without which a first observation could flip a shown
state (`UnknownOK`); a waiting transition was confirmed by a full streak (`FlipOK`).
`WorkersAgree` needs `Agree`: a refresh on its way lacks no monitored device that is not adrift
(`ListedOK`), a poisoned store leaves every device adrift (`PoisonOK`), and hence what a worker has
reported is what IMDS shows.  `SubscribersAgree` needs `Calm`: as long as nothing has been
disturbed the lists read earlier are still the monitored set, so a refresh purges nothing, and
every flip, whoever reports it, has its event.  `ReachabilityLateRefresh` shows what a list read
too early does.

**InterfaceProofs.**  The count of violations in an entry is the number of reports in a row
that went backwards (`CountOK`), whatever traps, agents, refreshes, swaps and skipped reports came
between; so the report that is accepted after the limit follows a full streak.  For the
subscriber: an event is published for every attribute that changes, and a reset entry is one
of which nothing has been heard.  Both are shown per interface, for one that takes up its report
(`ReportStep`, which a panic may cut off after some attributes) and for one that does not
(`UntouchedStep`); `ApplyKeeps` puts them together for a batch applied whole or up to a panic.  The
annotations need that the worker applies one batch at a time (`OneSample`); then for each member,
`LagStatus` of the batch is what the batch found or what IMDS shows afterwards, whether that
member's own report is accepted, rejected or skipped (`MemberShown`), and an event names the
members that were read (`ApplyAnnotates`).

**PollerProofs.**  `NoLeakedWorker` is not inductive: a thread is known in one place only
(`KnownOnce`: running in `poll_workers`, or told to stop in `reap_threads`), `poll_workers`
names the device's own thread (`OwnedOK`), and `reap_threads` names threads that exist
(`RetiredOK`).  Then joining the two places together leaves no thread, which is
`PausedIsQuiet`.

**DiscoveryProofs.**  `CrawledOnce` follows from the claims: `inFlight` has exactly the
devices of the threads (`ClaimsOK`).  For completeness each thread's progress tells what it
has recorded and whom it still has to start (`ProgressOK`), and during the join a thread is in
the join loop's lists, done, or about to be pushed by its parent (`AccountedOK`).
`QuiescentIsDone` is the heart: if both lists are empty, every thread is done, because the
least unfinished thread would have to be pushed by a parent that was started earlier and is
unfinished too.  The least element comes from well-foundedness of `<`, not from induction.
`ConfigurationSurvives` follows from `SettingInv`: while a PUT is between its two writes, the
row is ahead of the control block by exactly what that PUT will apply (`RowAhead`), so a crash
there loses nothing and a failing write changes neither; what was read at the start keeps
them equal from then on.

**IngestProofs.**  `Sound` is what every execution keeps: ids, copies that name their row,
threads at rest while links are written.  `UInv` adds, as long as nothing is `exposed`, `Careful`:
one row per device and per port (`OneRow`, `OnePort`), no two threads on one device (`Alone`), and
what a thread is about to insert is not there (`Heedful`).

`StableRunsKeepLinks` has an invariant for executions without single-device runs (`LinkInv`),
`CopiesAgree`: a thread writes rows back
whole, so a link could come back or go with an old copy.  During a crawl links only go, for
links are stored when all threads have ended; so a row and a copy of it that both have a link
have the same one (`AgreeWith`), two copies as well (`PeersAgree`), a thread's copies are of
its own device's rows (`OwnCopies`), and the rows it unlinks are those that link to the row it
is about to delete (`PeerCopies`).

`SecondRunIsExact` spans two whole runs.  Its invariant `SInv` holds with single-device runs
and failed reads too.  Beside `Sound` it is conditional on an undisturbed run (`Calm`) and on
`OneRow`.  During the crawl (`Progress`) a thread knows what its device announces, every port
it is done with has a row, and such rows are never deleted.  In the phase of links
(`Linking`) a row whose turn is over is `Weak`: its link is missing or leads where the
neighbor is.  Missing is as much as one run promises: a later turn may clear the link of a
former peer.  In the next run, where the copies are weak as well (`Repaired`), no link but
the right one can be read back, so the row of a former peer is never the wrong one to keep:
nothing is cleared, a link that is missing is stored (`Exact`, `Relinking`); and nothing
comes to link to a stale row, so its delete succeeds.

**IssueProofs.**  `Sane` is typing with the clock: no stamp lies in the future, and no thread
is later than `Timely` allows.  Three arguments build on it.

*A recurrence.*  After the condition of a key has ended, whatever still speaks of it, a row,
an occurrence, a cached or served list, a request, is at most so much younger than its end
(`GoneKeeps`, measured from `cleared`); an occurrence is not kept beyond the grace, by a scan
that is never further away than its period (`ForgetsInTime`).  Hence when the condition comes
back after a long absence no occurrence and no list is left that the old row fits, and from
then on, until somebody acknowledges it, none appears (`FreshOccurrence`).

*The cache.*  `CacheInv`: a derivation that began after the last change of a key's visibility
agrees with it, and so do the list it makes and the cache it stores it in (`Agrees`);
one that began before is stored too early to be served for long, by `Timely` and the lifetime.
A derivation reads the keys one by one, so this is shown key by key; one that a failing query
made misread a key counts as begun before a change, by the stamp `Misread` leaves.

*Acknowledgements.*  `HeldInv`: a held occurrence was seen recently enough (`HeldKey`) that no
reconciliation drops it before its key is seen again, after a restart neither as long as the
collector is not late; a request that is about to write or to prune has read what still holds
(`HeldRequest`), since the others, under way when the acknowledgement was stored, are excluded by
`PruneMisses` and `Overtaken`.  A failed device query derives nothing, in the scan or in a request;
that the occurrence outlives it needs that the scans before and after found the key: `SeesInv`,
with `CacheInv`, says what the scan under way sees of a key (`ScanSees`).

The first attempt to prove `RecurrenceIsFresh` failed, for a reason TLC had not met within its
bounds: the absence was measured from the last change of visibility, so a key that had been
suppressed for long, and was derived again because the read of the suppressed types failed,
counted as long absent although its condition, and its occurrence, had never gone.  The
history variable `cleared` corrects the property; the modelled code is unchanged.

**SnmpProofs.**  Admission: the invariant relates counts: permits plus holders are the
limit, and free permits do not exceed the woken threads while anyone sleeps.  Each step of the
semaphore then maps to a step of `InflightPermits` or a stutter, and `VlanStepAdmitted` shows
that the collectors use it only through its own actions, so the theorem holds in `VlanPoller`.

Poll-now: `AnsweredByFreshPoll` is about the one step that releases requests, long after the
polls.  `PollInv` carries it there: what a pass took up and still owes is in the queue of its
batch or was not on its list (`OwedQueued`), a batch with a queue has a worker to empty it
(`QueueStaffed`), and no worker has ended while items remain (`QueueDrained`), so when all have ended nothing taken up
is owed but what was not listed; a batch with a panic releases nothing.  Here the finiteness of
`Device` is needed: a batch over a set without a cardinality would start no worker.

Adaptive timeout: `SessionInv` has the types (the arithmetic of `adapt` stays between floor
and ceiling, `TimeoutWithinBounds`), the sockets of queries under way (`SocketHeld`), and that
a query which has reopened its socket and missed nothing since has a clean one, as only its own
missed attempts could leave late answers there (`LeftoversOwn`).  `StreakSilent` bounds the
streak in a living record by the timeouts since the last answer.

**WebUiProofs.**  Weathermap: unless a torn topology has been built, everything under way is
sound (cache, answers), so merging it leaves every drawn link with both ends present
(`PageInv`).  For edits, `WishInv` follows one from the mouse to the database: the page shows
it (`WishShown`), every PUT of its device carries it (`WishSent`), every position on its way
says it (`WishAnswered`), and until the database has it the poll is frozen and no PUT but its
own can thaw it (`WishAwaited`).  A record that is dropped ends the wish.

Live connection: a socket that is open or handshaking is the one `socketRef` names;
every way into `connect` passes the test for a busy socket or has just closed it.

Only model-checked: liveness (`Converges`, `KnownUnlessAdrift`, `PolledForever`,
`PollingEnds`, `CrawlEnds`, `RequestsServed`, `PollNowServed`, `UnmonitoredLeaves`,
`EventuallyLive`, `MapCatchesUp`, `Recovers`, `FlushCatchesUp`, the fairness part of
`ImplementsPermits`), which is out of the prover's reach with `ENABLED`.  All safety
properties of the passing runs are theorems.

## 6. Not modelled

`components` in `PROJECT.json` lists each part with its reason.

* Of the JavaScript and TypeScript in the repository (53.9k lines) 46.6k are vendored
  libraries under `src/weathermap/js` (pixi, pixi-viewport, victor); of the rest most are
  the web UI's tables and types.  What has state that changes with time (the page's loop and
  merge, the live connection) is modelled; a map over those files cannot come near a third of
  their lines.  The nexus itself is Rust.
* Event bus: in the modules an event is a step of what subscribers were told.  Left out are
  the MQTT client's bounded channel (whether it fills is decided in the library) and the lag
  of WebSocket subscribers, which makes a page refetch.
* Health history, spanning tree, entity, PoE, QoS and media pollers: sequential arithmetic
  or decoding over one record; the pollers' cycle is that of `VlanPoller`.
* The order in which `main` joins its threads; each joins on its own loop's end.
* Decoding of SNMP values and MIBs, HTML and JSON rendering, the individual issue rules,
  matching of LLDP and CDP rows, the connection pool and the SQL dialects, metrics export,
  mock network, switchmaster, command line tool, packaging.
* Within modelled parts: `PUT /dev/discovery/links` and rows with a virtual connection
  (`DiscoveryIngest`); failing writes during ingest (each loses that write), and failing reads
  while links are stored; in `IssueTracking` mutexes poisoned by a panic elsewhere, and the prune
  row by row (one step here: each row goes at one moment of it, and the properties are about one
  key); speed-change events and health
  samples of a report (`InterfaceMonitor`); the mode without adaptation, and sockets that
  cannot be opened (`AdaptiveTimeout`); the statistics from Prometheus and all animation
  (`WeatherMap`).

## 7. What could follow

1. `DiscoveryIngest`: failing writes and the reads of the link phase, the PUT routes.
2. An abstract `DeviceStatus` specification that `Reachability` implements (a shown state is
   an eventually accurate reading), and an abstract crawl for `DiscoveryEngine`.
3. The shutdown of the whole process, with the last flushes.
