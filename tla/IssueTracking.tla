--------------------------- MODULE IssueTracking ---------------------------
(***************************************************************************)
(* Fleet issues: the tracker that stamps an occurrence per issue, the      *)
(* short-lived cache of the tracked list, the persisted acknowledgements   *)
(* and suppressed types, and the threads that share them: the background   *)
(* scanner and the request handlers (list, ack, unack, suppress,           *)
(* unsuppress).                                                            *)
(*                                                                         *)
(* The tracker and the cache each have their own mutex and the DB has its  *)
(* own transactions; a handler touches them one after the other, so every  *)
(* access is a step; so is, within a derivation, the list of devices, what *)
(* the stores say of one key, and the suppressed types.  An issue key      *)
(* stands for its type too.  A condition is what its own stores and rows,  *)
(* read one after the other, add up to: a mixture that no moment had       *)
(* counts as a condition of that moment.                                   *)
(***************************************************************************)
EXTENDS Naturals

CONSTANTS
    Key,             \* issue keys
    Client,          \* request threads
    Scanner,         \* the background scan thread
    Grace,           \* grace_ms of the tracker, in ticks
    Ttl,             \* lifetime of a cached list, in ticks
    Within,          \* timeliness: ticks a scan with its pause, or a request, may take
    MaxClock, MaxFlips, MaxSuppressOps, MaxRestarts, MaxDbFailures,
    MaxRequests,     \* bounds: on the clock and on what disturbs the scans
    MaxDisturbances  \* bound: on the sum of all but the clock

ASSUME ScannerAssumption == Scanner \notin Client
ASSUME TimeAssumption ==
    /\ {Grace, Ttl, Within, MaxClock, MaxFlips, MaxSuppressOps,
        MaxRestarts, MaxDbFailures, MaxDisturbances, MaxRequests} \subseteq Nat
    /\ MaxClock > 0
\* A list lives as long as the pause between two scans (15 s), and the grace (60 s)
\* is longer than a scan with its pause.
ASSUME PeriodAssumption == Ttl <= Within /\ Within <= Grace

VARIABLES
    now,         \* the clock; 0 is "never"
    faults,      \* the conditions that really hold in the fleet
    cold,        \* the conditions whose collector has not polled since the start
    started,     \* when the process started, until no condition is cold
    seen,        \* tracker: seen[k] is k's occurrence, or NoOccurrence
    cache,       \* CachedIssues: its valid_until and the tracked list
    acks,        \* DB: first_seen of k's acknowledgement row, or 0
    suppressed,  \* DB: the suppressed_issue_types setting
    req,         \* req[t]: the step thread t is at, with its local values
    began,       \* when thread t began its latest round (Scanner) or present request
    since,       \* history: when k's condition last appeared, went, was hidden, shown or misread
    cleared,     \* history: when the condition of k ended, or 0 while it holds
    acked,       \* history: keys acknowledged in the current episode of the fault
    held,        \* history: acked keys that were visible ever since
    flips, suppressOps, restarts, dbFailures, requests  \* spent bounds

db == <<acks, suppressed>>
history == <<since, cleared, acked, held>>
local == <<req, began>>
bounds == <<flips, suppressOps, restarts, dbFailures, requests>>
vars == <<now, faults, cold, started, seen, cache, db, local, history, bounds>>

Thread == Client \cup {Scanner}
Time == 0..MaxClock

NoOccurrence == [first |-> 0, last |-> 0]
Tracked(k) == seen[k] # NoOccurrence
NoIssues == [k \in Key |-> 0]  \* a tracked list: first_seen of each issue, or 0

\* A cached list that may no longer be served is forgotten: nobody reads it.
NoCache == [until |-> 0, list |-> NoIssues]

Idle == [pc |-> "idle"]
Dead == [pc |-> "dead"]  \* the scan thread after a panic, which nobody restarts
Scanning == req[Scanner].pc # "dead"

\* What the stores and rows show of k, and what a derivation would make of it.
Shown(k) == k \in faults /\ k \notin cold
Visible(k) == Shown(k) /\ k \notin suppressed

SinceUpdate ==
    since' = [k \in Key |-> IF Shown(k)' = Shown(k) /\ (k \in suppressed' <=> k \in suppressed)
                            THEN since[k] ELSE now]
Misread(keys) == since' = [k \in Key |-> IF k \in keys THEN now ELSE since[k]]

\* Mutant: the seeded occurrence keeps the acknowledged stamp as last_seen.
SeededStale(rows) ==
    [k \in Key |-> IF rows[k] = 0 THEN NoOccurrence ELSE [first |-> rows[k], last |-> rows[k]]]

\* IssueTracker::seed for every persisted acknowledgement.
Seeded(rows) ==
    [k \in Key |-> IF rows[k] = 0 THEN NoOccurrence ELSE [first |-> rows[k], last |-> now]]

Init ==
    /\ now = 1 /\ started = 1
    /\ faults \in SUBSET Key /\ cold = Key
    /\ seen = [k \in Key |-> NoOccurrence]
    /\ cache = NoCache
    /\ acks = [k \in Key |-> 0]
    /\ suppressed = {}
    /\ req = [t \in Thread |-> Idle] /\ began = [t \in Thread |-> IF t = Scanner THEN 1 ELSE 0]
    /\ since = [k \in Key |-> 1] /\ cleared = [k \in Key |-> IF k \in faults THEN 0 ELSE 1]
    /\ acked = {} /\ held = {}
    /\ flips = 0 /\ suppressOps = 0 /\ restarts = 0 /\ dbFailures = 0 /\ requests = 0

Spare == flips + suppressOps + restarts + dbFailures + requests < MaxDisturbances

\* A DB read: its answer, or what the caller makes of an error.
DbRead(answer, default, result) ==
    \/ result = answer /\ UNCHANGED dbFailures
    \/ result = default /\ Spare /\ dbFailures < MaxDbFailures /\ dbFailures' = dbFailures + 1

-----------------------------------------------------------------------------
(* Environment: time, faults, collectors, crash and restart.               *)

\* No thread is late: scans repeat and requests finish in time (the periods of the
\* code are 15 s and seconds).  Nothing bounds a collector's first poll: those of
\* the LAG, VLAN and entity collectors may come 120 s or 150 s after the start.
Due(t, q) == IF t = Scanner THEN q # Dead ELSE q # Idle
Timely == \A t \in Thread : Due(t, req[t]) => now - began[t] < Within

\* The part of the grace in which a scan that begins is over before its end.
WarmWithin == Grace - Within

\* An acknowledgement is promised nothing once its collector is later than that.
Tick ==
    /\ now < MaxClock /\ Timely
    /\ now' = now + 1
    /\ cache' = IF now + 1 < cache.until THEN cache ELSE NoCache
    /\ held' = IF now + 1 > started + WarmWithin THEN held \ cold ELSE held
    /\ UNCHANGED <<faults, cold, started, seen, db, local, since, cleared, acked, bounds>>

\* An absence this long is noticed by a scan after the grace has run out.
LongAbsent(k) == k \notin faults /\ now - cleared[k] > Grace + 3 * Within

Raise(k) ==
    /\ Spare /\ flips < MaxFlips /\ flips' = flips + 1
    /\ k \notin faults /\ faults' = faults \cup {k}
    /\ acked' = IF LongAbsent(k) THEN acked \ {k} ELSE acked
    /\ cleared' = [cleared EXCEPT ![k] = 0]
    /\ UNCHANGED <<now, cold, started, seen, cache, db, local, held,
                   suppressOps, restarts, dbFailures, requests>>
    /\ SinceUpdate

Clear(k) ==
    /\ Spare /\ flips < MaxFlips /\ flips' = flips + 1
    /\ k \in faults /\ faults' = faults \ {k}
    /\ held' = held \ {k} /\ cleared' = [cleared EXCEPT ![k] = now]
    /\ UNCHANGED <<now, cold, started, seen, cache, db, local, acked,
                   suppressOps, restarts, dbFailures, requests>>
    /\ SinceUpdate

\* The collector of k has polled the fleet again.
WarmUp(k) ==
    /\ k \in cold /\ cold' = cold \ {k}
    /\ started' = IF cold' = {} THEN 0 ELSE started
    /\ UNCHANGED <<now, faults, seen, cache, db, local, cleared, acked, held, bounds>>
    /\ SinceUpdate

\* The process stops at any point and starts again: memory is lost, the tracker
\* is seeded from the acknowledgements (a failed query seeds nothing).
Restart ==
    /\ Spare /\ restarts < MaxRestarts /\ restarts' = restarts + 1
    /\ \E rows \in {acks, NoIssues} :
          /\ DbRead(acks, NoIssues, rows)
          /\ seen' = Seeded(rows)
          /\ held' = IF rows = acks THEN held ELSE {}  \* nothing is promised without the rows
    /\ started' = now /\ cold' = Key
    /\ cache' = NoCache
    /\ req' = [t \in Thread |-> Idle] /\ began' = [t \in Thread |-> IF t = Scanner THEN now ELSE 0]
    /\ UNCHANGED <<now, faults, db, cleared, acked, flips, suppressOps, requests>>
    /\ SinceUpdate

-----------------------------------------------------------------------------
(* Deriving and tracking, shared by the scanner, the list and the ack      *)
(* handlers.                                                               *)

Goto(t, state) == req' = [req EXCEPT ![t] = state] /\ UNCHANGED began
Finish(t) ==
    /\ req' = [req EXCEPT ![t] = Idle]
    /\ began' = [began EXCEPT ![t] = IF t = Scanner THEN @ ELSE 0]
Start(t, state) ==
    /\ req[t] = Idle
    /\ req' = [req EXCEPT ![t] = state]
    /\ began' = [began EXCEPT ![t] = now]
Spend == Spare /\ requests < MaxRequests /\ requests' = requests + 1
Ask(c, state) == Start(c, state) /\ Spend

\* CacheController::fresh_issues.
Fresh == now < cache.until

\* The scanner's next round; a list request that misses the cache; an ack request.
BeginScan ==
    /\ Start(Scanner, [pc |-> "collect", op |-> "scan", derived |-> {}, left |-> Key])
    /\ UNCHANGED <<now, faults, cold, started, seen, cache, db, history, bounds>>

BeginListMiss(c) ==
    /\ ~Fresh
    /\ Ask(c, [pc |-> "collect", op |-> "list", derived |-> {}, left |-> Key])
    /\ UNCHANGED <<now, faults, cold, started, seen, cache, db, history,
                   flips, suppressOps, restarts, dbFailures>>

BeginListHit(c) ==
    /\ Fresh
    /\ Ask(c, [pc |-> "listed", list |-> cache.list])
    /\ UNCHANGED <<now, faults, cold, started, seen, cache, db, history,
                   flips, suppressOps, restarts, dbFailures>>

BeginAck(c, k) ==
    /\ Ask(c, [pc |-> "collect", op |-> "ack", key |-> k, derived |-> {}, left |-> Key])
    /\ UNCHANGED <<now, faults, cold, started, seen, cache, db, history,
                   flips, suppressOps, restarts, dbFailures>>

\* collect_issues reads the devices, and no key is found if that query fails (an
\* acknowledgement is promised to outlive that if the scans went well before) ...
Spared(k) == Scanning /\ since[k] + 2 * Within < now /\ 3 * Within <= Grace

FailDevices(t) ==
    /\ req[t].pc = "collect" /\ req[t].left = Key
    /\ Spare /\ dbFailures < MaxDbFailures /\ dbFailures' = dbFailures + 1
    /\ Goto(t, [req[t] EXCEPT !.left = {}])
    /\ Misread(Key) /\ held' = {k \in held : Spared(k)}
    /\ UNCHANGED <<now, faults, cold, started, seen, cache, db, cleared, acked,
                   flips, suppressOps, restarts, requests>>

\* ... then, one after the other, the stores and rows that tell of a key ...
Found(derived, k) == IF Shown(k) THEN derived \cup {k} ELSE derived \ {k}

Look(t, k) ==
    /\ req[t].pc = "collect" /\ k \in req[t].left
    /\ Goto(t, [req[t] EXCEPT !.left = @ \ {k}, !.derived = Found(@, k)])
    /\ UNCHANGED <<now, faults, cold, started, seen, cache, db, history, bounds>>

\* Mutant: suppressed types are not filtered out.
DerivedUnfiltered(derived, hidden) == derived

\* ... and last the suppressed types, which it filters out.
Derived(derived, hidden) == derived \ hidden

Collect(t) ==
    /\ req[t].pc = "collect" /\ req[t].left = {}
    /\ \E hidden \in {suppressed, {}} :
          /\ DbRead(suppressed, {}, hidden)
          /\ Goto(t, [req[t] EXCEPT !.pc = "reconcile", !.derived = Derived(@, hidden)])
          /\ Misread(suppressed \ hidden)
    /\ UNCHANGED <<now, faults, cold, started, seen, cache, db, cleared, acked, held,
                   flips, suppressOps, restarts, requests>>

\* A peer that is gone, or cannot be read, is a panic (Interface::device): a
\* request fails (see Fail), the scan thread ends for good.
ScannerDies ==
    /\ req[Scanner].pc = "collect"
    /\ Spare /\ dbFailures < MaxDbFailures /\ dbFailures' = dbFailures + 1
    /\ Goto(Scanner, Dead)
    /\ UNCHANGED <<now, faults, cold, started, seen, cache, db, history, flips,
                   suppressOps, restarts, requests>>

\* IssueTracker::reconcile (the stamp is read just before the tracker is locked;
\* the retain's cutoff saturates at 0).
Reconciled(derived) ==
    [k \in Key |->
        IF k \in derived
        THEN [first |-> IF Tracked(k) THEN seen[k].first ELSE now, last |-> now]
        ELSE IF seen[k].last + Grace >= now THEN seen[k] ELSE NoOccurrence]

\* The active issues reconcile returns, with their first_seen.
TrackedList(derived) ==
    [k \in Key |-> IF k \in derived THEN Reconciled(derived)[k].first ELSE 0]

Reconcile(t) ==
    /\ req[t].pc = "reconcile" /\ req[t].op # "ack"
    /\ seen' = Reconciled(req[t].derived)
    /\ Goto(t, [pc |-> "store", list |-> TrackedList(req[t].derived)])
    /\ UNCHANGED <<now, faults, cold, started, cache, db, history, bounds>>

\* store_issues; the scanner's round ends, a list request goes on to answer.
Store(t) ==
    /\ req[t].pc = "store"
    /\ cache' = [until |-> now + Ttl, list |-> req[t].list]
    /\ IF t = Scanner THEN Finish(t) ELSE Goto(t, [pc |-> "listed", list |-> req[t].list])
    /\ UNCHANGED <<now, faults, cold, started, seen, db, history, bounds>>

-----------------------------------------------------------------------------
(* GET /issues: after the list, the tracker's keys, then the prune of      *)
(* acknowledgements outside them (the answer joins the rows read there).   *)

\* IssueTracker::known_keys.
KnownKeys(c) == {k \in Key : Tracked(k)}

ReadKnown(c) ==
    /\ req[c].pc = "listed"
    /\ Goto(c, [pc |-> "prune", list |-> req[c].list, known |-> KnownKeys(c)])
    /\ UNCHANGED <<now, faults, cold, started, seen, cache, db, history, bounds>>

\* IssueAck::delete_orphans (a failed query removes nothing), then the answer.
Prune(c) ==
    /\ req[c].pc = "prune"
    /\ \E kept \in {req[c].known, Key} :
          /\ DbRead(req[c].known, Key, kept)
          /\ acks' = [k \in Key |-> IF k \in kept THEN acks[k] ELSE 0]
    /\ Finish(c)
    /\ UNCHANGED <<now, faults, cold, started, seen, cache, suppressed, history,
                   flips, suppressOps, restarts, requests>>

\* The device view joins the list with the acknowledgements and prunes nothing.
AnswerDevice(c) ==
    /\ req[c].pc = "listed"
    /\ Finish(c)
    /\ UNCHANGED <<now, faults, cold, started, seen, cache, db, history, bounds>>

\* Mutant: an acknowledgement counts for every occurrence of its key.
AckAppliesToKey(list, k) == list[k] # 0 /\ acks[k] # 0

\* tracked_to_api_issues: an acknowledgement counts for its own occurrence only.
AckApplies(list, k) == list[k] # 0 /\ acks[k] = list[k]

-----------------------------------------------------------------------------
(* POST /issues/ack and /issues/unack.                                     *)

\* reconcile and first_seen_of under one lock; 409 if the key is not tracked.
ReconcileAck(c) ==
    /\ req[c].pc = "reconcile" /\ req[c].op = "ack"
    /\ LET tracker == Reconciled(req[c].derived)
           k == req[c].key IN
       /\ seen' = tracker
       /\ \/ tracker[k] = NoOccurrence /\ Finish(c)
          \/ /\ tracker[k] # NoOccurrence
             /\ Goto(c, [pc |-> "upsert", key |-> k, first |-> tracker[k].first,
                         derived |-> req[c].derived])
    /\ UNCHANGED <<now, faults, cold, started, cache, db, history, bounds>>

\* What undoes an acknowledgement that is stored now: a prune that read the keys
\* before this one was tracked, and an earlier request's row for another occurrence.
PruneMisses(k) == \E c \in Client : req[c].pc = "prune" /\ k \notin req[c].known
Overtaken(k, first) ==
    \E c \in Client : req[c].pc = "upsert" /\ req[c].key = k /\ req[c].first # first

Upsert(c) ==
    /\ req[c].pc = "upsert"
    /\ LET k == req[c].key IN
       /\ acks' = [acks EXCEPT ![k] = req[c].first]
       /\ acked' = acked \cup {k}
       /\ held' = IF /\ k \in req[c].derived /\ Visible(k) /\ since[k] <= began[c]
                     /\ ~PruneMisses(k) /\ ~Overtaken(k, req[c].first)
                  THEN held \cup {k} ELSE held
    /\ Finish(c)
    /\ UNCHANGED <<now, faults, cold, started, seen, cache, suppressed, since,
                   cleared, bounds>>

Unack(c, k) ==
    /\ req[c] = Idle
    /\ acks' = [acks EXCEPT ![k] = 0]
    /\ acked' = acked \ {k} /\ held' = held \ {k}
    /\ UNCHANGED <<now, faults, cold, started, seen, cache, suppressed, local,
                   since, cleared, bounds>>

-----------------------------------------------------------------------------
(* POST /issues/suppress and /issues/unsuppress: load, modify, persist,    *)
(* invalidate.                                                             *)

Toggled(set, op, k) == IF op = "suppress" THEN set \cup {k} ELSE set \ {k}

LoadSuppressed(c, op, k) ==
    /\ Spare /\ suppressOps < MaxSuppressOps /\ suppressOps' = suppressOps + 1
    /\ \E set \in {suppressed, {}} :
          /\ DbRead(suppressed, {}, set)
          /\ Ask(c, [pc |-> "persist", op |-> op, key |-> k, set |-> Toggled(set, op, k)])
    /\ UNCHANGED <<now, faults, cold, started, seen, cache, db, history, flips, restarts>>

PersistSuppressed(c) ==
    /\ req[c].pc = "persist"
    /\ suppressed' = req[c].set
    /\ held' = held \ suppressed'
    /\ Goto(c, [pc |-> "invalidate"])
    /\ UNCHANGED <<now, faults, cold, started, seen, cache, acks, cleared, acked, bounds>>
    /\ SinceUpdate

\* invalidate_issues_cache.
Invalidate(c) ==
    /\ req[c].pc = "invalidate"
    /\ cache' = NoCache
    /\ Finish(c)
    /\ UNCHANGED <<now, faults, cold, started, seen, db, history, bounds>>

\* Creating, deleting and resetting devices, and expected-roots, do the same.
InvalidateFleetChange ==
    /\ Fresh
    /\ cache' = NoCache /\ Spend
    /\ UNCHANGED <<now, faults, cold, started, seen, db, local, history,
                   flips, suppressOps, restarts, dbFailures>>

\* A write fails, or a derivation panics: the handler answers 500.
Fail(c) ==
    /\ req[c].pc \in {"collect", "upsert", "persist"}
    /\ Spare /\ dbFailures < MaxDbFailures /\ dbFailures' = dbFailures + 1
    /\ Finish(c)
    /\ UNCHANGED <<now, faults, cold, started, seen, cache, db, history, flips,
                   suppressOps, restarts, requests>>

-----------------------------------------------------------------------------
Environment ==
    \/ Tick \/ Restart
    \/ \E k \in Key : Raise(k) \/ Clear(k) \/ WarmUp(k)

Derive(t) == FailDevices(t) \/ (\E k \in Key : Look(t, k)) \/ Collect(t)

ScanStep ==
    BeginScan \/ Derive(Scanner) \/ Reconcile(Scanner) \/ Store(Scanner) \/ ScannerDies

ClientStep(c) ==
    \/ BeginListMiss(c) \/ BeginListHit(c) \/ Derive(c) \/ Reconcile(c) \/ Store(c)
    \/ ReadKnown(c) \/ Prune(c) \/ AnswerDevice(c)
    \/ ReconcileAck(c) \/ Upsert(c)
    \/ PersistSuppressed(c) \/ Invalidate(c) \/ Fail(c)
    \/ \E k \in Key :
          \/ BeginAck(c, k) \/ Unack(c, k)
          \/ \E op \in {"suppress", "unsuppress"} : LoadSuppressed(c, op, k)

Next == Environment \/ InvalidateFleetChange \/ ScanStep \/ \E c \in Client : ClientStep(c)

Spec == Init /\ [][Next]_vars
-----------------------------------------------------------------------------
(* Properties.                                                             *)

List == [Key -> Time]
Request ==
         {Idle, Dead, [pc |-> "invalidate"]}
    \cup [pc : {"collect", "reconcile"}, op : {"scan", "list"}, derived : SUBSET Key,
          left : SUBSET Key]
    \cup [pc : {"collect", "reconcile"}, op : {"ack"}, key : Key, derived : SUBSET Key,
          left : SUBSET Key]
    \cup [pc : {"store", "listed"}, list : List]
    \cup [pc : {"prune"}, list : List, known : SUBSET Key]
    \cup [pc : {"upsert"}, key : Key, first : Time \ {0}, derived : SUBSET Key]
    \cup [pc : {"persist"}, op : {"suppress", "unsuppress"}, key : Key, set : SUBSET Key]

\* Values stay in their types, and a tracked occurrence was first seen no later
\* than it was last seen, across reconciles, seeding and restarts.
TypeOK ==
    /\ now \in Time \ {0} /\ started \in Time /\ cold \subseteq Key
    /\ faults \subseteq Key /\ suppressed \subseteq Key
    /\ seen \in [Key -> [first : Time, last : Time]]
    /\ \A k \in Key : seen[k].first <= seen[k].last /\ seen[k].last <= now
    /\ cache \in [until : 0..(MaxClock + Ttl), list : List]
    /\ acks \in List
    /\ req \in [Thread -> Request] /\ began \in [Thread -> Time]
    /\ since \in List /\ cleared \in List
    /\ acked \subseteq Key /\ held \subseteq Key
    /\ {flips, suppressOps, restarts, dbFailures, requests} \subseteq Nat

\* Every list a reader may be answered with now.
Served ==
    {req[c].list : c \in {x \in Client : req[x].pc \in {"listed", "prune"}}}
        \cup {l \in {cache.list} : Fresh}

\* issues.rs: "a cleared-then-recurring condition gets a fresh first_seen and
\* re-alerts".  A condition that was away longer than the grace is shown as
\* acknowledged only if it was acknowledged since it came back, whatever rows an
\* earlier episode left behind (as long as the process, whose start revives the
\* acknowledged occurrences, did not restart, and the scan thread has not died).
RecurrenceRealerts ==
    \A list \in Served : \A k \in Key :
        restarts = 0 /\ Scanning /\ Visible(k) /\ AckApplies(list, k) => k \in acked

\* issues.rs: the grace exists "so a single missed scan ... doesn't reset
\* first_seen", and seed leaves "a still-active fault time to re-materialize".  The
\* acknowledgement of a condition that stays visible keeps its row and the
\* occurrence it is bound to through prunes, overlapping requests, a derivation
\* whose device query fails once among good scans, and a restart after which the
\* condition's collector polls before the grace is over but for one scan (see held
\* for all that ends the promise: a later collector, a start that could not read
\* the rows, a prune or an older acknowledgement that was already under way).
AckSurvives ==
    \A k \in held : Tracked(k) /\ acks[k] = seen[k].first

\* A served cache agrees with the fleet about every key that changed, or that a
\* failing query made a derivation misread, longer ago than a list's lifetime plus
\* one derivation: a new fault or an unsuppressed type is listed, a cleared or
\* suppressed one is not, although a derivation reads the keys one by one and the
\* suppressed types last, and one that started earlier may be stored later.
CacheCatchesUp ==
    \A k \in Key :
        Fresh /\ now - since[k] > Ttl + Within => (cache.list[k] # 0 <=> Visible(k))

\* cache.rs: a suppression toggle invalidates the cache "so the effect is
\* immediate, not up to one TTL late".
SuppressImmediate ==
    \A k \in suppressed :
        Fresh /\ (\A c \in Client : req[c].pc # "invalidate") => cache.list[k] = 0

\* v1.rs (issue_ack): "409 if the issue is not currently active": an accepted
\* acknowledgement is of an issue its own derivation found, or that is there now.
AckOnlyActive ==
    [][\A c \in Client : req[c].pc = "upsert" /\ acks' # acks =>
          req[c].key \in req[c].derived \/ Visible(req[c].key)]_acks
=============================================================================
