-------------------------- MODULE PollerSupervisor --------------------------
(***************************************************************************)
(* The SNMP poller's supervisor and its per-device worker threads: starts  *)
(* a worker per monitored device, retires workers of devices that left,    *)
(* reaps the retired ones, tears all down on a pause and on shutdown.      *)
(* What a worker reports is the subject of InterfaceMonitor.               *)
(***************************************************************************)
EXTENDS Naturals, FiniteSets

CONSTANTS
    Device, Community,
    Thread,          \* bound: thread slots (a joined thread frees its slot)
    MaxRowOps, MaxPollingOps, MaxDbFailures, MaxPanics  \* bounds

ASSUME NoneAssumption == "none" \notin Thread
ASSUME PollerBoundAssumption ==
    {MaxRowOps, MaxPollingOps, MaxDbFailures, MaxPanics} \subseteq Nat

VARIABLES
    row,       \* DB: snmp_community of a monitored device, or "off"
    enabled,   \* PollingControl
    running,   \* the process is not shutting down
    sup,       \* supervisor: "up", "reaping" (after a reload), "joining", "paused",
               \* "closing" or "stopped"
    workers,   \* poll_workers: thread of a device, or "none"
    reap,      \* reap_threads
    thread,    \* thread[t]: its device, community, running flag and state, or Free
    rowOps, pollingOps, dbFailures, panics  \* spent bounds

env == <<row, enabled, running>>
bounds == <<rowOps, pollingOps, dbFailures, panics>>
vars == <<env, sup, workers, reap, thread, bounds>>

Free == [state |-> "free"]
Owned == {t \in Thread : \E d \in Device : workers[d] = t}
Ended(t) == thread[t].state \in {"done", "dead"}

Init ==
    /\ row \in [Device -> Community \cup {"off"}]
    /\ enabled = TRUE /\ running = TRUE /\ sup = "up"
    /\ workers = [d \in Device |-> "none"] /\ reap = {}
    /\ thread = [t \in Thread |-> Free]
    /\ rowOps = 0 /\ pollingOps = 0 /\ dbFailures = 0 /\ panics = 0

-----------------------------------------------------------------------------
(* Operators and shutdown.                                                 *)

ChangeRow(d) ==
    /\ rowOps < MaxRowOps /\ rowOps' = rowOps + 1
    /\ \E r \in (Community \cup {"off"}) \ {row[d]} : row' = [row EXCEPT ![d] = r]
    /\ UNCHANGED <<enabled, running, sup, workers, reap, thread, pollingOps,
                   dbFailures, panics>>

SystemPollingSet ==
    /\ pollingOps < MaxPollingOps /\ pollingOps' = pollingOps + 1
    /\ enabled' = ~enabled
    /\ UNCHANGED <<row, running, sup, workers, reap, thread, rowOps, dbFailures, panics>>

Shutdown ==
    /\ running /\ running' = FALSE
    /\ UNCHANGED <<row, enabled, sup, workers, reap, thread, bounds>>

-----------------------------------------------------------------------------
(* Supervisor.                                                             *)

\* load_devices: no connection or a failed query reads as an empty list.
LoadDevices(list) ==
    \/ list = {d \in Device : row[d] # "off"} /\ UNCHANGED dbFailures
    \/ list = {} /\ dbFailures < MaxDbFailures /\ dbFailures' = dbFailures + 1

Stopped(ts) ==
    [t \in Thread |-> IF t \in ts THEN [thread[t] EXCEPT !.flag = FALSE] ELSE thread[t]]

\* Mutant: an expired worker is moved to the reap list but not told to stop.
RetiredRunning(ts) == thread

\* Mutant: a reload tells every worker to stop, not only the expired ones.
RetiredAll(ts) == Stopped(Owned)

\* check_expired_fqdn_workers: the retired workers' running flags are cleared.
Retired(ts) == Stopped(ts)

\* A reload: a worker for every listed device without one, retirement of workers
\* whose device is not listed.  A worker keeps the community it was started with.
Reload ==
    /\ sup \in {"up", "paused"} /\ enabled /\ running
    /\ \E list \in SUBSET Device :
          LET needed == {d \in list : workers[d] = "none"}
              expired == {d \in Device \ list : workers[d] # "none"}
              slots == {t \in Thread : thread[t] = Free} IN
          /\ LoadDevices(list)
          /\ \E slot \in [needed -> slots] :
                /\ \A a, b \in needed : slot[a] = slot[b] => a = b
                /\ workers' = [d \in Device |-> IF d \in needed THEN slot[d]
                                 ELSE IF d \in expired THEN "none" ELSE workers[d]]
                /\ reap' = reap \cup {workers[d] : d \in expired}
                /\ thread' = [t \in Thread |->
                      IF \E d \in needed : slot[d] = t
                      THEN LET d == CHOOSE d \in needed : slot[d] = t IN
                           [state |-> "top", dev |-> d, community |-> row[d], flag |-> TRUE]
                      ELSE Retired({workers[d] : d \in expired})[t]]
    /\ sup' = "reaping"
    /\ UNCHANGED <<env, rowOps, pollingOps, panics>>

\* reap_finished_threads: ends every tick, with or without a reload before it.
Reap ==
    /\ sup \in {"up", "reaping"} /\ sup' = "up"
    /\ sup = "up" => running /\ enabled
    /\ thread' = [t \in Thread |-> IF t \in reap /\ Ended(t) THEN Free ELSE thread[t]]
    /\ reap' = {t \in reap : ~Ended(t)}
    /\ UNCHANGED <<env, workers, bounds>>

\* Paused or shutting down: stop the workers, then join them and the retired ones.
BeginJoin ==
    /\ \/ sup = "up" /\ running /\ ~enabled /\ sup' = "joining"
       \/ sup \in {"up", "paused"} /\ ~running /\ sup' = "closing"
    /\ thread' = Stopped(Owned)
    /\ UNCHANGED <<env, workers, reap, bounds>>

\* Mutant: the threads on the reap list are forgotten, not joined.
JoinedOwned == Owned

\* What the supervisor waits for.
Joined == Owned \cup reap

EndJoin ==
    /\ sup \in {"joining", "closing"}
    /\ \A t \in Joined : Ended(t)
    /\ thread' = [t \in Thread |-> IF t \in Joined THEN Free ELSE thread[t]]
    /\ workers' = [d \in Device |-> "none"] /\ reap' = {}
    /\ sup' = IF sup = "joining" THEN "paused" ELSE "stopped"
    /\ UNCHANGED <<env, bounds>>

-----------------------------------------------------------------------------
(* poll_worker: the running flag is tested between polls.                  *)

BeginPoll(t) ==
    /\ thread[t].state = "top" /\ thread[t].flag
    /\ thread' = [thread EXCEPT ![t].state = "polling"]
    /\ UNCHANGED <<env, sup, workers, reap, bounds>>

EndPoll(t) ==
    /\ thread[t].state = "polling"
    /\ thread' = [thread EXCEPT ![t].state = "top"]
    /\ UNCHANGED <<env, sup, workers, reap, bounds>>

Exit(t) ==
    /\ thread[t].state = "top" /\ ~thread[t].flag
    /\ thread' = [thread EXCEPT ![t].state = "done"]
    /\ UNCHANGED <<env, sup, workers, reap, bounds>>

\* A worker that panics drops its end of the channel; only a retired one is reaped.
Panic(t) ==
    /\ thread[t].state = "polling"
    /\ panics < MaxPanics /\ panics' = panics + 1
    /\ thread' = [thread EXCEPT ![t].state = "dead"]
    /\ UNCHANGED <<env, sup, workers, reap, rowOps, pollingOps, dbFailures>>

-----------------------------------------------------------------------------
ThreadStep(t) == BeginPoll(t) \/ EndPoll(t) \/ Exit(t)

Next ==
    \/ \E d \in Device : ChangeRow(d)
    \/ SystemPollingSet \/ Shutdown
    \/ Reload \/ Reap \/ BeginJoin \/ EndJoin
    \/ \E t \in Thread : ThreadStep(t) \/ Panic(t)

Spec == Init /\ [][Next]_vars

\* The supervisor keeps ticking and reloading; a poll ends (SNMP has timeouts).
FairSpec ==
    /\ Spec
    /\ WF_vars(Reload) /\ WF_vars(Reap) /\ WF_vars(BeginJoin) /\ WF_vars(EndJoin)
    /\ \A t \in Thread : WF_vars(ThreadStep(t))
-----------------------------------------------------------------------------
(* Properties.                                                             *)

TypeOK ==
    /\ row \in [Device -> Community \cup {"off"}]
    /\ enabled \in BOOLEAN /\ running \in BOOLEAN
    /\ sup \in {"up", "reaping", "joining", "paused", "closing", "stopped"}
    /\ workers \in [Device -> Thread \cup {"none"}] /\ reap \subseteq Thread
    /\ \A t \in Thread :
          \/ thread[t] = Free
          \/ thread[t] \in [state : {"top", "polling", "done", "dead"}, dev : Device,
                            community : Community, flag : BOOLEAN]
    /\ {rowOps, pollingOps, dbFailures, panics} \subseteq Nat

\* A thread that may go on polling is the one its device's entry in poll_workers
\* names, so at most one per device, and every other thread is told to stop: no
\* device list, however it changes or fails to load, leaks a worker or starts a
\* second one beside it.
NoLeakedWorker ==
    \A t \in Thread : thread[t] # Free =>
        IF thread[t].flag THEN workers[thread[t].dev] = t ELSE t \in reap \/ sup \in {"joining", "closing"}

\* poller.rs: "Paused: stop every worker so no SNMP is issued, then idle"; and a
\* stopped supervisor leaves no thread behind: the workers that were being retired
\* at that moment are waited for as well.
QuietWhenStopped ==
    sup \in {"paused", "stopped"} => \A t \in Thread : thread[t] = Free

\* A device that stays monitored while polling is enabled is polled again and
\* again, after any pauses, failed loads and retirements of its worker; only a
\* worker that panicked keeps its place, and its device unpolled.
PolledForever ==
    \A d \in Device :
        (<>[](row[d] # "off" /\ enabled /\ running))
           => \/ []<>(\E t \in Thread : thread[t].state = "polling" /\ thread[t].dev = d)
              \/ <>[](workers[d] # "none" /\ thread[workers[d]].state = "dead")

\* API.md, PUT /api/v1/devices/{fqdn}: "Only `pollingEnabled`, `osInfo`, `baseMac`,
\* and `snmpCommunity` are applied".  A device whose community was changed for good
\* is in the end polled with the new one.
CommunityApplied ==
    \A d \in Device, c \in Community :
        (<>[](row[d] = c /\ enabled /\ running))
           => <>[](\A t \in Thread : thread[t].state = "polling" /\ thread[t].dev = d
                                        => thread[t].community = c)

\* A device that is no longer monitored, or any device once polling is paused, is
\* eventually no longer polled; and shutdown completes.
PollingEnds ==
    /\ \A d \in Device : <>[](row[d] = "off" \/ ~enabled) =>
          <>[](\A t \in Thread : thread[t].state = "polling" => thread[t].dev # d)
    /\ (~running) ~> (sup = "stopped")
=============================================================================
