---------------------------- MODULE Reachability ----------------------------
(***************************************************************************)
(* Device up/down monitoring: the pinger's shard workers, the IMDS worker  *)
(* that mirrors the database into memory, and the in-memory device entries *)
(* they share (IMDS, one mutex: every access below is one atomic step).    *)
(*                                                                         *)
(* A worker's tick is several steps: it lists its devices from the DB,     *)
(* seeds newcomers from IMDS, pings, and reports transitions one device at *)
(* a time.  The IMDS worker reads the DB first and takes the IMDS lock     *)
(* afterwards, so what it applies may be stale.  Operators change the      *)
(* monitored set and pause polling at any moment; an external agent may    *)
(* report a device up or down; a DB call may fail.  A panic under the IMDS *)
(* lock poisons it: from then on every access to IMDS is skipped.          *)
(***************************************************************************)
EXTENDS Hysteresis, FiniteSets

CONSTANTS
    Device,          \* fqdns
    Worker,          \* shard workers of the pinger (JASPY_PINGER_WORKERS)
    ShardOf,         \* shard_of: the worker that owns a device
    MaxMembershipOps,  \* bound on changes of the monitored set
    MaxPollingOps,   \* bound on flips of the polling master switch
    MaxPushes,       \* bound on reports of external agents
    MaxDbFailures    \* bound on DB calls that fail

ASSUME ShardAssumption == ShardOf \in [Device -> Worker]
ASSUME BoundAssumption ==
    {MaxMembershipOps, MaxPollingOps, MaxPushes, MaxDbFailures} \subseteq Nat

VARIABLES
    row,         \* DB: "none", or the device's row with polling "off" or "on"
    enabled,     \* PollingControl
    imds,        \* imds[d]: "absent", or DeviceMetrics.up of its entry
    poisoned,    \* a thread panicked with IMDS locked
    told,        \* told[d]: what a bus subscriber last heard of d ("none": nothing)
    refreshPc,   \* IMDS worker: "idle", or "loaded" between its DB read and the lock
    refreshList, \* the fqdns it read
    pc,          \* pc[w]: "top", "seed" (shard listed), "report" or "dead"
    shard,       \* shard[w]: the devices of this tick
    acc,         \* acc[d]: accounting entry kept by d's worker, or NoEntry
    pending,     \* pending[w]: transitions of this tick not yet reported
    run,         \* history: last observation of d and how often in a row
    cleared,     \* history: d's accounting was dropped by a pause, d not pinged since
    pushed,      \* history: tracked devices whose first known state an agent reported
    adrift,      \* history: devices whose entry and accounting may have come apart
    memberOps, pollingOps, pushes, dbFailures  \* spent bounds

store == <<imds, poisoned>>
refresh == <<refreshPc, refreshList>>
worker == <<pc, shard, acc, pending>>
history == <<run, cleared, pushed, adrift>>
bounds == <<memberOps, pollingOps, pushes, dbFailures>>
vars == <<row, enabled, store, told, refresh, worker, history, bounds>>

\* Device::monitored: rows whose polling_enabled is not false.
monitored == {d \in Device : row[d] = "on"}

NoEntry == [responsive |-> "untracked"]
Tracked(d) == acc[d] # NoEntry

Init ==
    /\ row \in [Device -> {"none", "off", "on"}]
    /\ enabled = TRUE
    /\ imds = [d \in Device |-> "absent"] /\ poisoned = FALSE
    /\ told = [d \in Device |-> "none"]
    /\ refreshPc = "idle" /\ refreshList = {}
    /\ pc = [w \in Worker |-> "top"]
    /\ shard = [w \in Worker |-> {}]
    /\ acc = [d \in Device |-> NoEntry]
    /\ pending = [w \in Worker |-> {}]
    /\ run = [d \in Device |-> [seen |-> "none", n |-> 0]]
    /\ cleared = {} /\ pushed = {} /\ adrift = {}
    /\ memberOps = 0 /\ pollingOps = 0 /\ pushes = 0 /\ dbFailures = 0

\* A refresh is on its way with a list that lacks d.
Missed(d) == refreshPc = "loaded" /\ d \notin refreshList

-----------------------------------------------------------------------------
(* Operators: the device routes, discovery and reset change a device's row; *)
(* PUT /api/v1/system/polling flips the master switch.                     *)

\* A row that turns on while a refresh is about to purge it, or while its worker has
\* not noticed that it was off, sets worker and IMDS adrift.
ChangeRow(d) ==
    /\ memberOps < MaxMembershipOps /\ memberOps' = memberOps + 1
    /\ \E state \in {"none", "off", "on"} \ {row[d]} :
          /\ row' = [row EXCEPT ![d] = state]
          /\ adrift' = IF state = "on" /\ (Missed(d) \/ Tracked(d))
                       THEN adrift \cup {d} ELSE adrift
    /\ UNCHANGED <<enabled, store, told, refresh, worker, run, cleared, pushed,
                   pollingOps, pushes, dbFailures>>

SystemPollingSet ==
    /\ pollingOps < MaxPollingOps /\ pollingOps' = pollingOps + 1
    /\ enabled' = ~enabled
    /\ UNCHANGED <<row, store, told, refresh, worker, history, memberOps, pushes, dbFailures>>

\* A DB call: its answer, or what the caller makes of an error.
DbRead(answer, result) ==
    \/ result = answer /\ UNCHANGED dbFailures
    \/ /\ dbFailures < MaxDbFailures /\ dbFailures' = dbFailures + 1
       /\ result = {}

-----------------------------------------------------------------------------
(* IMDS worker: refresh_imds_items.                                        *)

\* Device::monitored maps a query error to an empty list.
RefreshLoad ==
    /\ refreshPc = "idle"
    /\ refreshPc' = "loaded"
    /\ \E list \in {monitored, {}} :
          /\ DbRead(monitored, list)
          /\ refreshList' = list
          /\ adrift' = adrift \cup (monitored \ list)
    /\ UNCHANGED <<row, enabled, store, told, worker, run, cleared, pushed, memberOps,
                   pollingOps, pushes>>

\* Mutant: refresh_device rebuilds the entry instead of updating it in place.
RefreshedAnew(list) ==
    [d \in Device |-> IF d \notin list THEN "absent" ELSE "none"]

\* retain_devices, then refresh_device for every device read.
Refreshed(list) ==
    [d \in Device |-> IF d \notin list THEN "absent"
                      ELSE IF imds[d] = "absent" THEN "none" ELSE imds[d]]

RefreshApply ==
    /\ refreshPc = "loaded"
    /\ imds' = IF poisoned THEN imds ELSE Refreshed(refreshList)
    /\ refreshPc' = "idle" /\ refreshList' = {}
    /\ UNCHANGED <<row, enabled, poisoned, told, worker, history, bounds>>

-----------------------------------------------------------------------------
(* IMDS::report_device, called by the workers and by the agents' route.    *)

\* Mutant: a report of a device IMDS does not know yet is ignored.
ReportDeviceIfKnown(d, up) ==
    imds' = IF imds[d] = "absent" THEN imds ELSE [imds EXCEPT ![d] = up]

\* The entry is created on demand.
ReportDevice(d, up) == imds' = [imds EXCEPT ![d] = up]

Contrary(d, up) == imds[d] \in Seen \ {up}

\* Mutant: only outages are announced, recoveries are not.
EmitPingChangeDownOnly(d, up) ==
    IF imds[d] = "up" /\ up = "down"
    THEN \E found \in SUBSET {d} :
            /\ DbRead({x \in {d} : row[x] # "none"}, found)
            /\ told' = IF d \in found THEN [told EXCEPT ![d] = up] ELSE told
    ELSE UNCHANGED <<told, dbFailures>>

\* The change event: only for a known device, and only if find_by_fqdn still finds
\* its row (a query error reads as "not found").
EmitPingChange(d, up) ==
    IF Contrary(d, up)
    THEN \E found \in SUBSET {d} :
            /\ DbRead({x \in {d} : row[x] # "none"}, found)
            /\ told' = IF d \in found THEN [told EXCEPT ![d] = up] ELSE told
    ELSE UNCHANGED <<told, dbFailures>>

\* The event names the neighbors: a peer's device that cannot be read, or was deleted
\* since the peer's interface was read, panics before the state is stored.
ReportPanics(d, up) ==
    /\ ~poisoned /\ Contrary(d, up) /\ row[d] # "none"
    /\ dbFailures < MaxDbFailures /\ dbFailures' = dbFailures + 1
    /\ poisoned' = TRUE /\ adrift' = Device
    /\ UNCHANGED <<imds, told>>

\* PUT /dev/device/monitor: an agent reports any device, without a hysteresis and
\* without the worker knowing.
MonitoredDeviceReport(d, up) ==
    /\ pushes < MaxPushes /\ pushes' = pushes + 1
    /\ ~poisoned
    /\ \/ /\ ReportDevice(d, up) /\ EmitPingChange(d, up) /\ UNCHANGED poisoned
          /\ pushed' = IF Tracked(d) /\ imds[d] \notin Seen THEN pushed \cup {d} ELSE pushed
          /\ adrift' = IF Tracked(d) /\ acc[d].responsive \in Seen \ {up}
                       THEN adrift \cup {d} ELSE adrift
       \/ ReportPanics(d, up) /\ UNCHANGED pushed
    /\ UNCHANGED <<row, enabled, refresh, worker, run, cleared, memberOps, pollingOps>>

-----------------------------------------------------------------------------
(* Shard worker: ping_shard_worker.                                        *)

OwnedBy(w) == {d \in Device : ShardOf[d] = w}

\* Paused: drop the accounting, issue nothing.
PausedTick(w) ==
    /\ pc[w] = "top" /\ ~enabled
    /\ acc' = [d \in Device |-> IF d \in OwnedBy(w) THEN NoEntry ELSE acc[d]]
    /\ cleared' = cleared \cup {d \in OwnedBy(w) : Tracked(d)}
    /\ UNCHANGED <<row, enabled, store, told, refresh, pc, shard, pending, run, pushed,
                   adrift, bounds>>

\* load_device_fqdns, and the retain of reconcile_accounting.
LoadShard(w) ==
    /\ pc[w] = "top" /\ enabled
    /\ \E list \in {monitored, {}} :
          /\ DbRead(monitored, list)
          /\ shard' = [shard EXCEPT ![w] = list \cap OwnedBy(w)]
          /\ acc' = [d \in Device |->
                       IF d \in OwnedBy(w) \ list THEN NoEntry ELSE acc[d]]
          /\ cleared' = cleared \ (OwnedBy(w) \ list)
    /\ pc' = [pc EXCEPT ![w] = "seed"]
    /\ UNCHANGED <<row, enabled, store, told, refresh, pending, run, pushed, adrift,
                   memberOps, pollingOps, pushes>>

\* reconcile_accounting: last-known up of a newcomer, IMDS locked once per device.
SeedFrom(d) == IF poisoned \/ imds[d] = "absent" THEN "none" ELSE imds[d]

SeedNewcomer(w, d) ==
    /\ pc[w] = "seed" /\ d \in shard[w] /\ ~Tracked(d)
    /\ acc' = [acc EXCEPT ![d] = NewAccounting(SeedFrom(d))]
    /\ UNCHANGED <<row, enabled, store, told, refresh, pc, shard, pending, history, bounds>>

Seeded(w) == pc[w] = "seed" /\ \A d \in shard[w] : Tracked(d)

\* The next value of run[d] after an observation.
Observe(r, seen) ==
    IF r.seen # seen THEN [seen |-> seen, n |-> 1] ELSE [r EXCEPT !.n = Bump(@)]

\* A send that returned: advance_shard folds in one observation per device (a
\* device without a reply row counts as down).
PingShard(w) ==
    /\ Seeded(w) /\ shard[w] # {}
    /\ \E responded \in [shard[w] -> Seen] :
          LET moved == {d \in shard[w] : Reports(acc[d], responded[d])} IN
          /\ acc' = [d \in Device |-> IF d \in shard[w]
                                      THEN AdvanceInfo(acc[d], responded[d]) ELSE acc[d]]
          /\ run' = [d \in Device |-> IF d \in shard[w]
                                      THEN Observe(run[d], responded[d]) ELSE run[d]]
          /\ pending' = [pending EXCEPT ![w] = moved]
          /\ pc' = [pc EXCEPT ![w] = IF moved = {} THEN "top" ELSE "report"]
    /\ cleared' = cleared \ shard[w]
    /\ UNCHANGED <<row, enabled, store, told, refresh, shard, pushed, adrift, bounds>>

\* Empty shard, nothing resolved, or a local send error: accounting is untouched.
SkipPing(w) ==
    /\ Seeded(w)
    /\ pc' = [pc EXCEPT ![w] = "top"]
    /\ UNCHANGED <<row, enabled, store, told, refresh, shard, acc, pending, history, bounds>>

Reported(w, d) ==
    /\ pending' = [pending EXCEPT ![w] = @ \ {d}]
    /\ pc' = [pc EXCEPT ![w] = IF pending[w] = {d} THEN "top" ELSE @]

\* report_up of one transition: IMDS has the worker's state again, for good unless a
\* refresh is about to purge it.
ReportUp(w, d) ==
    /\ pc[w] = "report" /\ d \in pending[w] /\ ~poisoned
    /\ ReportDevice(d, acc[d].responsive)
    /\ EmitPingChange(d, acc[d].responsive)
    /\ Reported(w, d)
    /\ pushed' = pushed \ {d}
    /\ adrift' = IF Missed(d) THEN adrift ELSE adrift \ {d}
    /\ UNCHANGED <<row, enabled, poisoned, refresh, shard, acc, run, cleared, memberOps,
                   pollingOps, pushes>>

\* report_up without a pooled connection, or with IMDS poisoned: the transition is
\* dropped.
LoseReport(w, d) ==
    /\ pc[w] = "report" /\ d \in pending[w]
    /\ \/ poisoned /\ UNCHANGED dbFailures
       \/ dbFailures < MaxDbFailures /\ dbFailures' = dbFailures + 1
    /\ Reported(w, d)
    /\ adrift' = adrift \cup {d}
    /\ UNCHANGED <<row, enabled, store, told, refresh, shard, acc, run, cleared, pushed,
                   memberOps, pollingOps, pushes>>

\* report_up that panics: the worker's thread ends, and nobody restarts it.
DieReporting(w, d) ==
    /\ pc[w] = "report" /\ d \in pending[w]
    /\ ReportPanics(d, acc[d].responsive)
    /\ pc' = [pc EXCEPT ![w] = "dead"]
    /\ pending' = [pending EXCEPT ![w] = {}]
    /\ acc' = [x \in Device |-> IF x \in OwnedBy(w) THEN NoEntry ELSE acc[x]]
    /\ UNCHANGED <<row, enabled, refresh, shard, run, cleared, pushed, memberOps,
                   pollingOps, pushes>>

-----------------------------------------------------------------------------
WorkerStep(w) ==
    \/ PausedTick(w) \/ LoadShard(w) \/ PingShard(w) \/ SkipPing(w)
    \/ \E d \in Device : SeedNewcomer(w, d) \/ ReportUp(w, d) \/ LoseReport(w, d)
                          \/ DieReporting(w, d)

Next ==
    \/ \E d \in Device : ChangeRow(d) \/ \E up \in Seen : MonitoredDeviceReport(d, up)
    \/ SystemPollingSet
    \/ RefreshLoad \/ RefreshApply
    \/ \E w \in Worker : WorkerStep(w)

Spec == Init /\ [][Next]_vars

\* The threads keep running (weak fairness of each loop) and local ping errors
\* are transient (a send that can be tried forever succeeds again and again).
Fairness ==
    /\ WF_vars(RefreshLoad) /\ WF_vars(RefreshApply)
    /\ \A w \in Worker : WF_vars(WorkerStep(w)) /\ SF_vars(PingShard(w))

FairSpec == Spec /\ Fairness
-----------------------------------------------------------------------------
(* Properties.                                                             *)

TypeOK ==
    /\ row \in [Device -> {"none", "off", "on"}]
    /\ enabled \in BOOLEAN /\ poisoned \in BOOLEAN
    /\ imds \in [Device -> OptSeen \cup {"absent"}]
    /\ told \in [Device -> OptSeen]
    /\ refreshPc \in {"idle", "loaded"} /\ refreshList \subseteq Device
    /\ pc \in [Worker -> {"top", "seed", "report", "dead"}]
    /\ shard \in [Worker -> SUBSET Device]
    /\ acc \in [Device -> PingAccountingInfo \cup {NoEntry}]
    /\ pending \in [Worker -> SUBSET Device]
    /\ run \in [Device -> [seen : OptSeen, n : 0..HystLimit]]
    /\ cleared \subseteq Device /\ pushed \subseteq Device /\ adrift \subseteq Device
    /\ {memberOps, pollingOps, pushes, dbFailures} \subseteq Nat

\* Between the reports of agents a device shown up or down flips to the other state
\* only when the last HystLimit pings of it all agreed on the new state, whatever
\* refreshes, pauses, lost reports and membership changes happened in between
\* (pinger.rs: "a device only flips after PING_HYST_LIMIT consecutive contrary
\* observations").  One exception: where an agent's report is the first known state of a
\* device its worker has already begun to track, the worker's first observation
\* replaces it at once.
FlipNeedsStreak ==
    [][\A d \in Device \ pushed :
          (imds[d] \in Seen /\ imds'[d] \in Seen /\ imds'[d] # imds[d] /\ pushes' = pushes)
             => run[d].seen = imds'[d] /\ run[d].n = HystLimit]_imds

\* A worker that is between ticks agrees with IMDS about every monitored device it
\* tracks: no report is dropped, overwritten by a refresh that raced it, or lost when
\* rows change, workers pause or a list fails to load, but for these ways to come
\* apart, until the next report of the device: its row turned on while a refresh that
\* lacked it was on its way or before its worker had noticed it off; the refresh's list
\* failed; the report was lost; an agent said the contrary; IMDS is poisoned.
WorkerAgreesWithIMDS ==
    \A d \in monitored \ adrift :
        (/\ Tracked(d) /\ acc[d].responsive \in Seen
         /\ d \notin pending[ShardOf[d]])
           => imds[d] = acc[d].responsive

\* No DB call failed and the monitored set did not change.
Undisturbed == memberOps + dbFailures = 0

\* A bus subscriber that heard of a monitored device knows the state IMDS shows, whoever
\* reported it: no flip goes without its ping change event.
SubscriberAgrees ==
    Undisturbed => \A d \in monitored : told[d] # "none" => told[d] = imds[d]

\* imds.rs (report_device): creating the entry on demand keeps "an early up/down
\* report from being dropped -- otherwise a reachable device ... would stay unknown
\* (up=None) forever".  A device that stays monitored while polling is enabled is
\* eventually shown up or down, and stays known.
KnownEventually ==
    \A d \in Device :
        <>[](d \in monitored /\ enabled) => <>[](imds[d] \in Seen)

\* The part of KnownEventually that holds: a monitored device that is not adrift
\* becomes known and stays so, whatever pauses, refreshes, ping errors, row changes and
\* failing calls there were.
KnownUnlessAdrift ==
    \A d \in Device :
        <>[](d \in monitored \ adrift /\ enabled) => <>[](imds[d] \in Seen)

\* A device that is not adrift and whose pings all agree from some point on is
\* eventually shown in that state: the hysteresis neither gets stuck nor loses the
\* confirming report.
Converges ==
    \A d \in Device : \A s \in Seen :
        <>[](d \in monitored \ adrift /\ enabled /\ run[d].seen = s)
            => <>[](imds[d] = s)

\* pinger.rs (pause): "on resume each device's first observation is reported afresh
\* (matching startup) rather than diffed against a now-stale pre-pause state": an
\* entry made after a pause dropped the previous one has no known state.
ResumeReportsAfresh ==
    \A d \in cleared : Tracked(d) => acc[d].responsive = "none"

\* imds.rs (retain_devices): "Drop devices that no longer exist in the database":
\* an entry is purged only if its device is no longer monitored.
PurgeOnlyDeleted ==
    [][\A d \in Device :
          imds[d] # "absent" /\ imds'[d] = "absent" => d \notin monitored]_imds
=============================================================================
