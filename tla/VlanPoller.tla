------------------------------ MODULE VlanPoller ------------------------------
(***************************************************************************)
(* The VLAN collector: its cycle over the monitored devices, the poll-now  *)
(* queue filled by a route, and the bounded fan-out that both use, on top  *)
(* of the SNMP admission it shares with the other collectors.  The LAG     *)
(* collector runs the same cycle without a poll-now queue.                 *)
(*                                                                         *)
(* A batch is drained by at most Worker threads; the collector's thread    *)
(* goes on only when all of them have ended, and ends itself when one of   *)
(* them panicked.                                                          *)
(***************************************************************************)
EXTENDS SnmpAdmission

CONSTANTS
    Device,
    Worker,         \* MAX_POLL_WORKERS thread slots, a subset of Thread
    MaxDisturbances \* bound: row changes, pauses, DB failures, panics, shutdown

ASSUME WorkerAssumption == Worker \subseteq Thread /\ Worker # {}
ASSUME DeviceAssumption == IsFiniteSet(Device)

VARIABLES
    row,        \* DB: "none", or a device with polling "off" or "on"
    enabled,    \* PollingControl
    running,    \* the process is not shutting down
    loop,       \* collector: "top", "cycle", "queue", "load", "batch", "stopped", "dead"
    due,        \* now >= next_cycle
    store,      \* devices with VLAN data
    pending,    \* VlanPollerControl.pending
    triggered,  \* the requests taken up by the poll-now pass
    queue,      \* devices of the batch not yet taken by a worker
    work,       \* work[k]: NoThread, Idle (draws next), Ended, Panicked, or the device
                \* it polls and whether the request was made (a poll's table
                \* requests are taken as one)
    owed,       \* history: pending devices not polled since their request was accepted
    unlisted,   \* history: requests of the running poll-now pass whose device was not
                \* on the list read for it
    spent       \* disturbances so far

env == <<row, enabled, running>>
batch == <<queue, work>>
history == <<owed, unlisted>>
vars == <<admission, env, loop, due, store, pending, triggered, batch, history, spent>>

NoThread == [is |-> "none"]
Idle == [is |-> "idle"]
Ended == [is |-> "ended"]
Panicked == [is |-> "panicked"]
Polling(d, asked) == [is |-> "polling", device |-> d, asked |-> asked]
NoThreads == [k \in Worker |-> NoThread]

Init ==
    /\ AdmissionInit
    /\ row \in [Device -> {"off", "on"}]
    /\ enabled = TRUE /\ running = TRUE
    /\ loop = "top" /\ due = TRUE
    /\ store = {} /\ pending = {} /\ triggered = {} /\ queue = {}
    /\ owed = {} /\ unlisted = {}
    /\ work = NoThreads
    /\ spent = 0

-----------------------------------------------------------------------------
(* Operators, the poll-now route, shutdown, time.                          *)

Disturb == spent < MaxDisturbances /\ spent' = spent + 1

ChangeRow(d) ==
    /\ Disturb
    /\ \E s \in {"none", "off", "on"} \ {row[d]} : row' = [row EXCEPT ![d] = s]
    /\ UNCHANGED <<admission, enabled, running, loop, due, store, pending, triggered,
                   batch, history>>

SystemPollingSet ==
    /\ Disturb
    /\ enabled' = ~enabled
    /\ UNCHANGED <<admission, row, running, loop, due, store, pending, triggered,
                   batch, history>>

\* POST /devices/<fqdn>/vlans/poll: 404 without a row, 409 while pending.
device_vlan_poll(d) ==
    /\ row[d] # "none" /\ d \notin pending
    /\ pending' = pending \cup {d} /\ owed' = owed \cup {d}
    /\ UNCHANGED <<admission, env, loop, due, store, triggered, batch, unlisted, spent>>

Shutdown ==
    /\ Disturb /\ running /\ running' = FALSE
    /\ UNCHANGED <<admission, row, enabled, loop, due, store, pending, triggered,
                   batch, history>>

Elapse ==
    /\ ~due /\ due' = TRUE
    /\ UNCHANGED <<admission, env, loop, store, pending, triggered, batch, history, spent>>

-----------------------------------------------------------------------------
(* run_bounded.                                                            *)

\* The threads spawned for n items.
Spawned(n) == CHOOSE S \in SUBSET Worker :
                 Cardinality(S) = IF n < Cardinality(Worker) THEN n ELSE Cardinality(Worker)

StartBatch(items) ==
    /\ queue' = items
    /\ work' = [k \in Worker |-> IF k \in Spawned(Cardinality(items)) THEN Idle
                                 ELSE NoThread]

\* The scope's end: every thread spawned has ended.
Joined == \A k \in Worker : work[k] \in {NoThread, Ended, Panicked}

AnyPanicked == \E k \in Worker : work[k] = Panicked

PopItem(k) ==
    /\ work[k] = Idle
    /\ IF queue = {}
       THEN work' = [work EXCEPT ![k] = Ended] /\ UNCHANGED <<queue, owed>>
       ELSE \E d \in queue : /\ work' = [work EXCEPT ![k] = Polling(d, FALSE)]
                             /\ queue' = queue \ {d} /\ owed' = owed \ {d}
    /\ UNCHANGED <<admission, env, loop, due, store, pending, triggered, unlisted, spent>>

Fetching(k) == work[k].is = "polling"

\* fetch_table, up to the reply: asks for a permit and waits for it.
FetchTable(k) ==
    /\ Fetching(k) /\ ~work[k].asked
    /\ Request(k)
    /\ work' = [work EXCEPT ![k].asked = TRUE]
    /\ UNCHANGED <<env, loop, due, store, pending, triggered, queue, history, spent>>

\* A reply or its timeout: the device's poll ends with data, which replaces what the
\* store had, or without.
Respond(k) ==
    /\ Fetching(k) /\ Release(k)
    /\ work' = [work EXCEPT ![k] = Idle]
    /\ store' \in {store, store \cup {work[k].device}}
    /\ UNCHANGED <<env, loop, due, pending, triggered, queue, history, spent>>

\* The work closure panics during a request: unwinding drops the guard.
Panic(k) ==
    /\ Fetching(k) /\ Release(k)
    /\ Disturb
    /\ work' = [work EXCEPT ![k] = Panicked]
    /\ UNCHANGED <<env, loop, due, store, pending, triggered, queue, history>>

-----------------------------------------------------------------------------
(* run: the collector's thread.                                            *)

\* load_devices: an error of the pool or of the query reads as no device.
Loads(list) ==
    \/ list = {d \in Device : row[d] = "on"} /\ UNCHANGED spent
    \/ list = {} /\ Disturb

Stop ==
    /\ loop = "top" /\ ~running /\ loop' = "stopped"
    /\ UNCHANGED <<admission, env, due, store, pending, triggered, batch, history, spent>>

\* Mutant: the cycle adds to the store and never retains.
RetainAll(list) == store

Retain(list) == store \cap list

Cycle ==
    /\ loop = "top" /\ running /\ enabled /\ due
    /\ \E list \in SUBSET Device :
          /\ Loads(list) /\ StartBatch(list) /\ store' = Retain(list)
    /\ loop' = "cycle"
    /\ UNCHANGED <<admission, env, due, pending, triggered, history>>

EndCycle ==
    /\ loop = "cycle" /\ Joined
    /\ IF AnyPanicked THEN loop' = "dead" /\ UNCHANGED due
       ELSE loop' = "queue" /\ due' = FALSE
    /\ work' = NoThreads
    /\ UNCHANGED <<admission, env, store, pending, triggered, queue, history, spent>>

TakeTriggered ==
    /\ loop = "queue" \/ (loop = "top" /\ running /\ enabled /\ ~due)
    /\ triggered' = pending
    /\ loop' = IF pending = {} THEN "top" ELSE "load"
    /\ UNCHANGED <<admission, env, due, store, pending, batch, history, spent>>

\* The devices asked for that load_devices lists.
PollNow ==
    /\ loop = "load"
    /\ \E list \in SUBSET Device :
          /\ Loads(list) /\ StartBatch(list \cap triggered)
          /\ unlisted' = triggered \ list
    /\ loop' = "batch"
    /\ UNCHANGED <<admission, env, due, store, pending, triggered, owed>>

\* Mutant: every request is released, those made during the batch too.
UnreleasedNone == {}

\* Mutant: a request is released once its device has data.
UnreleasedUntilData == pending \ (triggered \cap store)

\* What retain keeps of the pending requests.
Unreleased == pending \ triggered

EndPollNow ==
    /\ loop = "batch" /\ Joined
    /\ IF AnyPanicked THEN loop' = "dead" /\ UNCHANGED <<pending, triggered>>
       ELSE loop' = "top" /\ pending' = Unreleased /\ triggered' = {}
    /\ work' = NoThreads /\ unlisted' = {}
    /\ UNCHANGED <<admission, env, due, store, queue, owed, spent>>

CollectorStep ==
    Stop \/ Cycle \/ EndCycle \/ TakeTriggered \/ PollNow \/ EndPollNow

-----------------------------------------------------------------------------
(* Threads of the other collectors: any number of requests, one at a time. *)

Other == Thread \ Worker

OtherRest == <<env, loop, due, store, pending, triggered, batch, history, spent>>

OtherRequest(t) == Request(t) /\ UNCHANGED OtherRest
OtherRespond(t) == Release(t) /\ UNCHANGED OtherRest
Admit(t) == AdmissionStep(t) /\ UNCHANGED OtherRest
Spurious(t) == SpuriousWake(t) /\ UNCHANGED OtherRest

WorkerStep(k) == PopItem(k) \/ FetchTable(k) \/ Respond(k) \/ Panic(k)

Next ==
    \/ \E d \in Device : ChangeRow(d) \/ device_vlan_poll(d)
    \/ SystemPollingSet \/ Shutdown \/ Elapse
    \/ CollectorStep
    \/ \E k \in Worker : WorkerStep(k)
    \/ \E t \in Other : OtherRequest(t) \/ OtherRespond(t)
    \/ \E t \in Thread : Admit(t) \/ Spurious(t)

Spec == Init /\ [][Next]_vars

\* Threads run, the clock advances and a request in the back end ends, with its
\* timeout at the latest.  Nothing is assumed of the order in which threads get
\* permits.
FairSpec ==
    /\ Spec
    /\ WF_vars(CollectorStep) /\ WF_vars(Elapse)
    /\ \A k \in Worker : WF_vars(PopItem(k) \/ FetchTable(k) \/ Respond(k))
    /\ \A t \in Thread : WF_vars(Admit(t))
    /\ \A t \in Other : WF_vars(OtherRespond(t))

-----------------------------------------------------------------------------
TypeOK ==
    /\ AdmissionTypeOK
    /\ row \in [Device -> {"none", "off", "on"}]
    /\ loop \in {"top", "cycle", "queue", "load", "batch", "stopped", "dead"}
    /\ {store, pending, triggered, queue, owed, unlisted} \subseteq SUBSET Device

\* A poll-now pass releases a request only if the device was polled after the request was
\* accepted, or if the list read for the pass lacked the device: a request that arrives
\* during a batch is never answered by it.  A list that could not be read lacks every
\* device, so a failing query releases monitored devices unpolled.
AnsweredByFreshPoll ==
    [][\A d \in Device :
          d \in pending /\ d \notin pending' => d \notin owed \/ d \in unlisted]_pending

\* vlanpoller.rs (VlanPollerControl): a fqdn stays pending "from the POST until" its
\* triggered poll completes: a request is released unpolled only if its device is not
\* monitored any more.
TriggeredPollCompletes ==
    [][\A d \in Device :
          d \in pending /\ d \notin pending' => d \notin owed \/ row[d] # "on"]_pending

\* The collector goes on for good: it is not shut down, paused or dead; and, as the
\* semaphore is not fair, the other collectors are between their cycles.
Alive ==
    /\ running /\ enabled /\ loop # "dead"
    /\ \A t \in Other : pc[t] = "out"

\* A request does not answer 409 for ever: it is released, whatever the database
\* fails to answer and whether or not the device is still monitored.
PollNowServed ==
    \A d \in Device : <>[]Alive => []<>(d \notin pending)

\* retain: data of a device that is no longer monitored leaves the store, even when
\* its poll was under way as it left.
UnmonitoredLeaves ==
    \A d \in Device : <>[](Alive /\ row[d] # "on") => <>[](d \notin store)

\* The semaphore, as this collector and the others use it, keeps its promise: the cap
\* holds and no permit stays idle, panics included.
ImplementsPermits == Permits!Spec
=============================================================================
