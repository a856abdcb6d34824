----------------------------- MODULE IssueProofs -----------------------------
(***************************************************************************)
(* Proofs about IssueTracking, for any issues, durations and bounds: which *)
(* issues raise alerts again, what the issue cache may serve, and what     *)
(* becomes of an operator's acknowledgements.                              *)
(*                                                                         *)
(* The tracker and the cache need two invariants that follow time: an      *)
(* issue absent for longer than the grace period is forgotten by the next  *)
(* reconciliation, which is never further away than a scan interval; and   *)
(* every change of the inputs since the newest list that was built is one  *)
(* that has not yet been announced.  The acknowledgements need one on what *)
(* the requests under way read.                                            *)
(***************************************************************************)
EXTENDS IssueTracking, TLAPS

-----------------------------------------------------------------------------
(* Requests: what a thread at a given step holds.                          *)

ScanReq == [pc : {"collect", "reconcile"}, op : {"scan", "list"}, derived : SUBSET Key,
            left : SUBSET Key]
AckReq == [pc : {"collect", "reconcile"}, op : {"ack"}, key : Key, derived : SUBSET Key,
           left : SUBSET Key]
ListReq == [pc : {"store", "listed"}, list : List]
PruneReq == [pc : {"prune"}, list : List, known : SUBSET Key]
UpsertReq == [pc : {"upsert"}, key : Key, first : Time \ {0}, derived : SUBSET Key]
PersistReq == [pc : {"persist"}, op : {"suppress", "unsuppress"}, key : Key, set : SUBSET Key]
Invalidating == [pc |-> "invalidate"]

LEMMA RequestIs ==
    ASSUME NEW q \in Request
    PROVE  /\ q.pc \in {"collect", "reconcile"} => q \in ScanReq \cup AckReq
           /\ q.pc \in {"store", "listed"} => q \in ListReq
           /\ q.pc = "prune" => q \in PruneReq
           /\ q.pc = "upsert" => q \in UpsertReq
           /\ q.pc = "persist" => q \in PersistReq
<1>0. Idle.pc = "idle" /\ Dead.pc = "dead" /\ Invalidating.pc = "invalidate"
  BY DEF Idle, Dead, Invalidating
<1>1. q \in {Idle, Dead, Invalidating} \cup ScanReq \cup AckReq \cup ListReq \cup PruneReq
           \cup UpsertReq \cup PersistReq
  BY DEF Request, Invalidating, ScanReq, AckReq, ListReq, PruneReq, UpsertReq, PersistReq
<1>2. /\ q \in ScanReq \cup AckReq => q.pc \in {"collect", "reconcile"}
      /\ q \in ListReq => q.pc \in {"store", "listed"}
      /\ q \in PruneReq => q.pc = "prune"
      /\ q \in UpsertReq => q.pc = "upsert"
      /\ q \in PersistReq => q.pc = "persist"
  BY DEF ScanReq, AckReq, ListReq, PruneReq, UpsertReq, PersistReq
<1>3. QED
  BY <1>0, <1>1, <1>2

LEMMA IsRequest ==
    /\ Idle \in Request /\ Dead \in Request /\ Invalidating \in Request
    /\ ScanReq \subseteq Request /\ AckReq \subseteq Request /\ ListReq \subseteq Request
    /\ PruneReq \subseteq Request /\ UpsertReq \subseteq Request /\ PersistReq \subseteq Request
BY DEF Request, Invalidating, ScanReq, AckReq, ListReq, PruneReq, UpsertReq, PersistReq

-----------------------------------------------------------------------------
(* Values in their types, stamps that are not in the future, and threads   *)
(* that are not late.                                                      *)

ClockOK ==
    /\ now \in Time \ {0} /\ started \in Time /\ started <= now /\ cold \in SUBSET Key

SeenOK ==
    /\ seen \in [Key -> [first : Time, last : Time]]
    /\ \A k \in Key : /\ seen[k].first <= seen[k].last /\ seen[k].last <= now
                      /\ Tracked(k) => seen[k].first # 0

CacheOK ==
    /\ cache \in [until : 0..(MaxClock + Ttl), list : List]
    /\ cache.until <= now + Ttl
    /\ cache = NoCache \/ now <= cache.until

StampsOK ==
    /\ acks \in List /\ since \in List /\ cleared \in List
    /\ \A k \in Key : acks[k] <= now /\ since[k] <= now /\ cleared[k] <= now

SetsOK ==
    /\ faults \in SUBSET Key /\ suppressed \in SUBSET Key
    /\ acked \in SUBSET Key /\ held \in SUBSET Key
    /\ flips \in Nat /\ suppressOps \in Nat /\ restarts \in Nat /\ dbFailures \in Nat
    /\ requests \in Nat

\* A thread's request and when it began.
ThreadSane(t, q, b) ==
    /\ q \in Request /\ b \in Time
    /\ Due(t, q) => b <= now /\ now <= b + Within
    /\ q.pc = "upsert" => q.first <= now

RequestsOK ==
    /\ req \in [Thread -> Request] /\ began \in [Thread -> Time]
    /\ \A t \in Thread : ThreadSane(t, req[t], began[t])

Sane == ClockOK /\ SeenOK /\ CacheOK /\ StampsOK /\ SetsOK /\ RequestsOK

LEMMA Numbers ==
    /\ Grace \in Nat /\ Ttl \in Nat /\ Within \in Nat /\ WarmWithin \in Nat
    /\ MaxClock \in Nat /\ MaxClock > 0 /\ Ttl <= Within /\ Within + WarmWithin <= Grace
    /\ 0 \in Time /\ 1 \in Time \ {0} /\ Time \subseteq Nat
    /\ Scanner \in Thread /\ Client \subseteq Thread /\ Scanner \notin Client
BY TimeAssumption, PeriodAssumption, ScannerAssumption DEF Time, Thread, WarmWithin

LEMMA Nothing ==
    /\ NoIssues \in List /\ NoOccurrence \in [first : Time, last : Time]
    /\ NoOccurrence.first = 0 /\ NoOccurrence.last = 0
    /\ NoCache \in [until : 0..(MaxClock + Ttl), list : List]
    /\ NoCache.until = 0 /\ \A k \in Key : NoCache.list[k] = 0
    /\ Idle.pc = "idle" /\ Dead.pc = "dead"
BY Numbers DEF NoIssues, NoOccurrence, NoCache, Idle, Dead, List

\* Who is waited for: the scanner while it lives, and a request until it is answered.
LEMMA DueIs ==
    ASSUME NEW t \in Thread, NEW q
    PROVE  /\ q.pc \notin {"idle", "dead"} => Due(t, q)
           /\ t = Scanner /\ q.pc # "dead" => Due(t, q)
           /\ t # Scanner => ~Due(t, Idle)
           /\ t = Scanner => ~Due(t, Dead)
BY Nothing DEF Due

\* What a thread holds and when it began change together.
Moves(t, q, b) == req' = [req EXCEPT ![t] = q] /\ began' = [began EXCEPT ![t] = b]

LEMMA StepMoves ==
    ASSUME RequestsOK, NEW t \in Thread, NEW q
    PROVE  /\ Goto(t, q) => Moves(t, q, began[t])
           /\ Finish(t) => Moves(t, Idle, IF t = Scanner THEN began[t] ELSE 0)
           /\ Start(t, q) => Moves(t, q, now) /\ req[t].pc = "idle"
BY DEF Goto, Finish, Start, Moves, RequestsOK, Idle

\* The others keep what they hold.
LEMMA MovesAre ==
    ASSUME RequestsOK, NEW t \in Thread, NEW q, NEW b, Moves(t, q, b)
    PROVE  /\ req'[t] = q /\ began'[t] = b
           /\ \A u \in Thread : u # t => req'[u] = req[u] /\ began'[u] = began[u]
BY DEF Moves, RequestsOK

LEMMA ThreadMoves ==
    ASSUME RequestsOK, NEW t \in Thread, NEW q, NEW b, ThreadSane(t, q, b), now' = now,
           Moves(t, q, b)
    PROVE  RequestsOK'
<1>1. q \in Request /\ b \in Time
  BY DEF ThreadSane
<1>2. req' \in [Thread -> Request] /\ began' \in [Thread -> Time]
  BY <1>1 DEF RequestsOK, Moves
<1>4. \A u \in Thread : ThreadSane(u, req'[u], began'[u])
  BY MovesAre DEF RequestsOK
<1>5. QED
  BY <1>2, <1>4 DEF RequestsOK, ThreadSane

LEMMA IssuesInitial == Init => Sane
<1> SUFFICES ASSUME Init PROVE Sane
  OBVIOUS
<1>0. now = 1 /\ started = 1 /\ 1 \in Time \ {0} /\ cold \in SUBSET Key
  BY Numbers DEF Init
<1>1. ClockOK
  BY <1>0 DEF ClockOK
<1>6. CacheOK
  BY Numbers, Nothing DEF Init, CacheOK
<1>2. SeenOK
  BY Numbers, Nothing DEF Init, SeenOK, Tracked
<1>3. StampsOK
  BY Numbers DEF Init, StampsOK, List
<1>4. SetsOK
  BY DEF Init, SetsOK
<1>5. RequestsOK
  BY Numbers, Nothing, IsRequest, DueIs DEF Init, RequestsOK, ThreadSane
<1>7. QED
  BY <1>1, <1>2, <1>3, <1>4, <1>5, <1>6 DEF Sane

\* A step preserves what it does not touch.
LEMMA Kept ==
    ASSUME Sane
    PROVE  /\ UNCHANGED <<now, started, cold>> => ClockOK'
           /\ UNCHANGED <<now, seen>> => SeenOK'
           /\ UNCHANGED <<now, cache>> => CacheOK'
           /\ UNCHANGED <<now, acks, since, cleared>> => StampsOK'
           /\ UNCHANGED <<faults, suppressed, acked, held, bounds>> => SetsOK'
           /\ UNCHANGED <<now, req, began>> => RequestsOK'
<1>1. UNCHANGED <<now, started, cold>> => ClockOK'
  BY DEF Sane, ClockOK
<1>2. UNCHANGED <<now, seen>> => SeenOK'
  BY DEF Sane, SeenOK, Tracked
<1>3. UNCHANGED <<now, cache>> => CacheOK'
  BY DEF Sane, CacheOK
<1>4. UNCHANGED <<now, acks, since, cleared>> => StampsOK'
  BY DEF Sane, StampsOK
<1>5. UNCHANGED <<faults, suppressed, acked, held, bounds>> => SetsOK'
  BY DEF Sane, SetsOK, bounds
<1>6. UNCHANGED <<now, req, began>> => RequestsOK'
  BY DEF Sane, RequestsOK, ThreadSane
<1>7. QED
  BY <1>1, <1>2, <1>3, <1>4, <1>5, <1>6

LEMMA SinceStamps ==
    ASSUME Sane, SinceUpdate
    PROVE  /\ since' \in List
           /\ \A k \in Key :
                 /\ since'[k] <= now /\ since'[k] \in {since[k], now}
                 /\ IF Shown(k)' = Shown(k) /\ (k \in suppressed' <=> k \in suppressed)
                    THEN since'[k] = since[k] ELSE since'[k] = now
<1>1. now \in Time /\ now \in Nat
  BY Numbers DEF Sane, ClockOK
<1>2. since \in [Key -> Time] /\ \A k \in Key : since[k] <= now
  BY DEF Sane, StampsOK, List
<1>3. since' = [k \in Key |->
                  IF Shown(k)' = Shown(k) /\ (k \in suppressed' <=> k \in suppressed)
                  THEN since[k] ELSE now]
  BY DEF SinceUpdate
<1>4. QED
  BY <1>1, <1>2, <1>3 DEF List

\* What a derivation misreads counts as changed now.
LEMMA MisreadStamps ==
    ASSUME Sane, NEW keys, Misread(keys)
    PROVE  /\ since' \in List
           /\ \A k \in Key : /\ since'[k] <= now
                             /\ since'[k] = IF k \in keys THEN now ELSE since[k]
<1>1. now \in Time /\ now \in Nat
  BY Numbers DEF Sane, ClockOK
<1>2. since \in [Key -> Time] /\ \A k \in Key : since[k] <= now
  BY DEF Sane, StampsOK, List
<1>3. since' = [k \in Key |-> IF k \in keys THEN now ELSE since[k]]
  BY DEF Misread
<1>4. QED
  BY <1>1, <1>2, <1>3 DEF List

\* What reconcile leaves in the tracker and in the list.
LEMMA ReconciledIs ==
    ASSUME Sane, NEW derived \in SUBSET Key
    PROVE  /\ Reconciled(derived) \in [Key -> [first : Time, last : Time]]
           /\ TrackedList(derived) \in List
           /\ \A k \in Key :
                 /\ k \in derived => /\ Reconciled(derived)[k].last = now
                                     /\ Tracked(k) => Reconciled(derived)[k].first = seen[k].first
                                     /\ ~Tracked(k) => Reconciled(derived)[k].first = now
                                     /\ TrackedList(derived)[k] = Reconciled(derived)[k].first
                                     /\ TrackedList(derived)[k] # 0
                 /\ k \notin derived => /\ TrackedList(derived)[k] = 0
                                        /\ \/ Reconciled(derived)[k] = seen[k]
                                              /\ seen[k].last + Grace >= now
                                           \/ Reconciled(derived)[k] = NoOccurrence
                                              /\ now > seen[k].last + Grace
<1>1. now \in Time \ {0} /\ now \in Nat
  BY Numbers DEF Sane, ClockOK
<1>2. seen \in [Key -> [first : Time, last : Time]]
  BY DEF Sane, SeenOK
<1>3. \A k \in Key : Tracked(k) => seen[k].first # 0
  BY DEF Sane, SeenOK
<1>4. NoOccurrence \in [first : Time, last : Time]
  BY Nothing
<1>5. \A k \in Key : Reconciled(derived)[k] =
         IF k \in derived
         THEN [first |-> IF Tracked(k) THEN seen[k].first ELSE now, last |-> now]
         ELSE IF seen[k].last + Grace >= now THEN seen[k] ELSE NoOccurrence
  BY DEF Reconciled
<1>6. \A k \in Key : Reconciled(derived)[k] \in [first : Time, last : Time]
  <2>1. TAKE k \in Key
  <2> DEFINE s == Reconciled(derived)[k]
  <2>2. CASE k \in derived /\ Tracked(k)
    <3>1. s = [first |-> seen[k].first, last |-> now]
      BY <1>5, <2>2
    <3>2. QED
      BY <3>1, <1>1, <1>2
  <2>3. CASE k \in derived /\ ~Tracked(k)
    <3>1. s = [first |-> now, last |-> now]
      BY <1>5, <2>3
    <3>2. QED
      BY <3>1, <1>1
  <2>4. CASE k \notin derived
    <3>1. s = seen[k] \/ s = NoOccurrence
      BY <1>5, <2>4
    <3>2. QED
      BY <3>1, <1>2, <1>4
  <2>5. QED
    BY <2>2, <2>3, <2>4
<1>7. Reconciled(derived) \in [Key -> [first : Time, last : Time]]
  BY <1>6 DEF Reconciled
<1>8. \A k \in Key : TrackedList(derived)[k] =
         IF k \in derived THEN Reconciled(derived)[k].first ELSE 0
  BY DEF TrackedList
<1>9. \A k \in Key : TrackedList(derived)[k] \in Time
  BY <1>6, <1>8, Numbers
<1>10. TrackedList(derived) \in List
  BY <1>9 DEF TrackedList, List
<1>11. ASSUME NEW k \in Key, k \in derived
       PROVE  /\ Reconciled(derived)[k].last = now
              /\ Tracked(k) => Reconciled(derived)[k].first = seen[k].first
              /\ ~Tracked(k) => Reconciled(derived)[k].first = now
              /\ TrackedList(derived)[k] = Reconciled(derived)[k].first
              /\ TrackedList(derived)[k] # 0
  <2>1. Tracked(k) => Reconciled(derived)[k] = [first |-> seen[k].first, last |-> now]
    BY <1>5, <1>11
  <2>2. ~Tracked(k) => Reconciled(derived)[k] = [first |-> now, last |-> now]
    BY <1>5, <1>11
  <2>3. TrackedList(derived)[k] = Reconciled(derived)[k].first
    BY <1>8, <1>11
  <2>4. QED
    BY <1>1, <1>3, <2>1, <2>2, <2>3
<1>12. ASSUME NEW k \in Key, k \notin derived
       PROVE  /\ TrackedList(derived)[k] = 0
              /\ \/ Reconciled(derived)[k] = seen[k] /\ seen[k].last + Grace >= now
                 \/ Reconciled(derived)[k] = NoOccurrence /\ now > seen[k].last + Grace
  <2>1. seen[k].last \in Nat /\ Grace \in Nat
    BY <1>2, Numbers
  <2>2. TrackedList(derived)[k] = 0
    BY <1>8, <1>12
  <2>3. seen[k].last + Grace >= now => Reconciled(derived)[k] = seen[k]
    BY <1>5, <1>12
  <2>4. ~(seen[k].last + Grace >= now) => Reconciled(derived)[k] = NoOccurrence
    BY <1>5, <1>12
  <2>5. QED
    BY <1>1, <2>1, <2>2, <2>3, <2>4
<1>13. QED
  BY <1>7, <1>10, <1>11, <1>12

LEMMA ReconciledSane ==
    ASSUME Sane, NEW derived \in SUBSET Key, seen' = Reconciled(derived), now' = now
    PROVE  SeenOK'
<1>1. now \in Nat /\ \A k \in Key : /\ seen[k].first \in Nat /\ seen[k].last \in Nat
                                    /\ seen[k].first <= seen[k].last /\ seen[k].last <= now
                                    /\ Tracked(k) => seen[k].first # 0
  BY Numbers DEF Sane, ClockOK, SeenOK
<1>2. seen' \in [Key -> [first : Time, last : Time]]
  BY ReconciledIs
<1>3. ASSUME NEW k \in Key
      PROVE  /\ seen'[k].first <= seen'[k].last /\ seen'[k].last <= now
             /\ seen'[k] # NoOccurrence => seen'[k].first # 0
  <2>1. CASE k \in derived
    <3>1. seen'[k].last = now /\ seen'[k].first \in {seen[k].first, now} /\ seen'[k].first # 0
      BY <2>1, ReconciledIs
    <3>2. QED
      BY <3>1, <1>1
  <2>2. CASE k \notin derived
    <3>1. seen'[k] = seen[k] \/ seen'[k] = NoOccurrence
      BY <2>2, ReconciledIs
    <3>2. QED
      BY <3>1, <1>1, Nothing DEF Tracked
  <2>3. QED
    BY <2>1, <2>2
<1>4. QED
  BY <1>2, <1>3 DEF SeenOK, Tracked

-----------------------------------------------------------------------------
(* Every action keeps the state sane.                                      *)

LEMMA TickSane == Sane /\ Tick => Sane'
<1> SUFFICES ASSUME Sane, Tick PROVE Sane'
  OBVIOUS
<1>0. /\ now \in Nat /\ now < MaxClock /\ now' = now + 1 /\ now' \in Time \ {0}
      /\ MaxClock \in Nat /\ Ttl \in Nat /\ Within \in Nat /\ WarmWithin \in Nat /\ Time \subseteq Nat
  BY Numbers DEF Sane, ClockOK, Tick, Time
<1>1. ClockOK'
  <2>1. started' = started /\ cold' = cold
    BY DEF Tick
  <2>2. started \in Nat /\ started \in Time /\ started <= now /\ cold \in SUBSET Key
    BY <1>0 DEF Sane, ClockOK
  <2>3. QED
    BY <1>0, <2>1, <2>2 DEF ClockOK
<1>2. SeenOK'
  <2>1. seen' = seen /\ seen \in [Key -> [first : Time, last : Time]]
    BY DEF Tick, Sane, SeenOK
  <2>2. \A k \in Key : /\ seen[k].last \in Nat /\ seen[k].first <= seen[k].last
                       /\ seen[k].last <= now /\ (seen[k] # NoOccurrence => seen[k].first # 0)
    BY <1>0, <2>1 DEF Sane, SeenOK, Tracked
  <2>3. \A k \in Key : seen[k].last <= now'
    BY <1>0, <2>2
  <2>4. QED
    BY <2>1, <2>2, <2>3 DEF SeenOK, Tracked
<1>3. CacheOK'
  <2>1. cache' = IF now + 1 < cache.until THEN cache ELSE NoCache
    BY DEF Tick
  <2>2. cache.until \in Nat /\ cache.until <= now + Ttl
    BY <1>0 DEF Sane, CacheOK
  <2>3. CASE now + 1 < cache.until
    BY <1>0, <2>1, <2>2, <2>3 DEF Sane, CacheOK
  <2>4. CASE ~(now + 1 < cache.until)
    BY <1>0, <2>1, <2>4, Nothing DEF CacheOK
  <2>5. QED
    BY <2>3, <2>4
<1>4. StampsOK'
  <2>1. UNCHANGED <<acks, since, cleared>>
    BY DEF Tick, db
  <2>2. \A k \in Key : acks[k] \in Nat /\ since[k] \in Nat /\ cleared[k] \in Nat
    BY <1>0 DEF Sane, StampsOK, List
  <2>3. QED
    BY <1>0, <2>1, <2>2 DEF Sane, StampsOK
<1>5. SetsOK'
  BY DEF Sane, SetsOK, Tick, db, bounds
<1>6. RequestsOK'
  <2>1. UNCHANGED <<req, began>>
    BY DEF Tick, local
  <2>2. ASSUME NEW t \in Thread PROVE ThreadSane(t, req[t], began[t])'
    <3>1. /\ req[t] \in Request /\ began[t] \in Time /\ began[t] \in Nat
          /\ Due(t, req[t]) => began[t] <= now
          /\ req[t].pc = "upsert" => req[t].first <= now
      BY <1>0 DEF Sane, RequestsOK, ThreadSane
    <3>2. Due(t, req[t]) => now - began[t] < Within
      BY DEF Tick, Timely
    <3>3. Due(t, req[t]) => began[t] <= now' /\ now' <= began[t] + Within
      BY <1>0, <3>1, <3>2
    <3>4. req[t].pc = "upsert" => req[t].first <= now'
      <4>1. req[t].pc = "upsert" => req[t].first \in Nat
        BY <1>0, <3>1, RequestIs DEF UpsertReq
      <4>2. QED
        BY <1>0, <3>1, <4>1
    <3>5. QED
      BY <2>1, <3>1, <3>3, <3>4 DEF ThreadSane, Due
  <2>3. QED
    BY <2>1, <2>2 DEF Sane, RequestsOK
<1>7. QED
  BY <1>1, <1>2, <1>3, <1>4, <1>5, <1>6 DEF Sane

LEMMA StampsAfter ==
    ASSUME Sane, SinceUpdate, UNCHANGED <<now, acks>>, cleared' \in List,
           \A k \in Key : cleared'[k] <= now
    PROVE  StampsOK'
BY SinceStamps DEF Sane, StampsOK

LEMMA FaultSane == ASSUME Sane, NEW k \in Key, Raise(k) \/ Clear(k) PROVE Sane'
<1>1. /\ UNCHANGED <<now, started, cold>> /\ UNCHANGED <<now, seen>> /\ UNCHANGED <<now, cache>>
      /\ UNCHANGED <<now, acks>> /\ UNCHANGED <<now, req, began>> /\ SinceUpdate
  BY DEF Raise, Clear, db, local
<1>2. cleared' \in List /\ \A j \in Key : cleared'[j] <= now
  <2>1. now \in Time /\ now <= now /\ 0 \in Time /\ 0 <= now /\ cleared \in [Key -> Time] /\ \A j \in Key : cleared[j] <= now
    BY Numbers DEF Sane, ClockOK, StampsOK, List
  <2>2. cleared' = [cleared EXCEPT ![k] = 0] \/ cleared' = [cleared EXCEPT ![k] = now]
    BY DEF Raise, Clear
  <2>3. QED
    BY <2>1, <2>2 DEF List
<1>3. StampsOK'
  BY <1>1, <1>2, StampsAfter
<1>4. SetsOK'
  BY DEF Sane, SetsOK, Raise, Clear, db
<1>5. QED
  BY <1>1, <1>3, <1>4, Kept DEF Sane

Warms == \E j \in Key : WarmUp(j)

LEMMA WarmUpSane == Sane /\ Warms => Sane'
<1> SUFFICES ASSUME Sane, NEW j \in Key, WarmUp(j) PROVE Sane'
  BY DEF Warms
<1>1. /\ UNCHANGED <<now, seen>> /\ UNCHANGED <<now, cache>> /\ UNCHANGED <<now, acks>>
      /\ UNCHANGED <<now, req, began>> /\ SinceUpdate /\ cleared' = cleared
      /\ UNCHANGED <<faults, suppressed, acked, held, bounds>>
  BY DEF WarmUp, db, local
<1>2. ClockOK'
  <2>1. cold' = cold \ {j} /\ started' \in {0, started}
    BY DEF WarmUp
  <2>2. now \in Nat /\ 0 \in Time
    BY Numbers DEF Sane, ClockOK
  <2>3. QED
    BY <1>1, <2>1, <2>2 DEF Sane, ClockOK
<1>3. StampsOK'
  BY <1>1, StampsAfter DEF Sane, StampsOK
<1>5. QED
  BY <1>1, <1>2, <1>3, Kept DEF Sane

LEMMA RestartSane == Sane /\ Restart => Sane'
<1> SUFFICES ASSUME Sane, Restart PROVE Sane'
  OBVIOUS
<1>0. PICK rows \in {acks, NoIssues} :
         /\ DbRead(acks, NoIssues, rows) /\ seen' = Seeded(rows)
         /\ held' = IF rows = acks THEN held ELSE {}
  BY DEF Restart
<1>1. /\ now \in Nat /\ now \in Time \ {0} /\ now' = now /\ now <= now + Within /\ 0 \in Time
  BY Numbers DEF Sane, ClockOK, Restart
<1>2. ClockOK'
  <2>1. started' = now /\ cold' = Key /\ now <= now
    BY <1>1 DEF Restart
  <2>2. QED
    BY <1>1, <2>1 DEF ClockOK
<1>3. SeenOK'
  <2>1. \A k \in Key : rows[k] \in Time /\ rows[k] <= now
    BY <1>1, Numbers DEF Sane, StampsOK, List, NoIssues
  <2>2. \A k \in Key :
           seen'[k] = IF rows[k] = 0 THEN NoOccurrence ELSE [first |-> rows[k], last |-> now]
    BY <1>0 DEF Seeded
  <2>3. ASSUME NEW k \in Key
        PROVE  /\ seen'[k] \in [first : Time, last : Time]
               /\ seen'[k].first <= seen'[k].last /\ seen'[k].last <= now
               /\ seen'[k] # NoOccurrence => seen'[k].first # 0
    <3>1. CASE rows[k] = 0
      <4>1. seen'[k] = NoOccurrence
        BY <2>2, <3>1
      <4>2. QED
        BY <1>1, <4>1, Nothing
    <3>2. CASE rows[k] # 0
      <4>1. seen'[k] = [first |-> rows[k], last |-> now]
        BY <2>2, <3>2
      <4>2. QED
        BY <1>1, <2>1, <3>2, <4>1
    <3>3. QED
      BY <3>1, <3>2
  <2>4. seen' \in [Key -> [first : Time, last : Time]]
    BY <1>0, <2>3 DEF Seeded
  <2>5. QED
    BY <1>1, <2>3, <2>4 DEF SeenOK, Tracked
<1>4. CacheOK'
  BY <1>1, Numbers, Nothing DEF Restart, CacheOK
<1>5. StampsOK'
  BY StampsAfter DEF Restart, db, Sane, StampsOK
<1>6. SetsOK'
  BY <1>0 DEF Sane, SetsOK, Restart, db, DbRead
<1>7. RequestsOK'
  BY <1>1, Numbers, Nothing, IsRequest, DueIs DEF Restart, RequestsOK, ThreadSane
<1>8. QED
  BY <1>2, <1>3, <1>4, <1>5, <1>6, <1>7 DEF Sane

\* What a step that restarts nothing may spend.
Counted ==
    /\ flips' \in Nat /\ suppressOps' \in Nat /\ dbFailures' \in Nat /\ requests' \in Nat
    /\ restarts' = restarts

\* A step of a thread that touches the shared state nowhere.
LEMMA OnlyRequests ==
    ASSUME Sane, UNCHANGED <<now, faults, cold, started, seen, cache, db, history>>, Counted,
           NEW t \in Thread, NEW q, NEW b, Moves(t, q, b), ThreadSane(t, q, b)
    PROVE  Sane'
<1>1. /\ UNCHANGED <<now, started, cold>> /\ UNCHANGED <<now, seen>> /\ UNCHANGED <<now, cache>>
      /\ UNCHANGED <<now, acks, since, cleared>>
  BY DEF db, history
<1>2. SetsOK'
  BY DEF Sane, SetsOK, db, history, Counted
<1>3. RequestsOK'
  BY ThreadMoves DEF Sane
<1>4. QED
  BY <1>1, <1>2, <1>3, Kept DEF Sane

\* What a thread that is at a step may go on to.
LEMMA MayHold ==
    ASSUME Sane, NEW t \in Thread
    PROVE  /\ ThreadSane(t, req[t], began[t])
           /\ \A q \in Request : q.pc # "upsert" => ThreadSane(t, q, now)
           /\ t # Scanner \/ req[t].pc # "dead" =>
                 ThreadSane(t, Idle, IF t = Scanner THEN began[t] ELSE 0)
           /\ \A q \in Request : req[t].pc \notin {"idle", "dead"} /\ (q.pc = "upsert" => q.first <= now)
                  => ThreadSane(t, q, began[t])
           /\ ThreadSane(Scanner, Dead, began[Scanner])
           /\ flips \in Nat /\ suppressOps \in Nat /\ dbFailures \in Nat /\ requests \in Nat
           /\ restarts \in Nat
<1>1. now \in Time /\ now \in Nat /\ now <= now /\ now <= now + Within /\ 0 \in Time
  BY Numbers DEF Sane, ClockOK
<1>2. ThreadSane(t, req[t], began[t]) /\ began[Scanner] \in Time
  BY Numbers DEF Sane, RequestsOK
<1>3. Idle \in Request /\ Idle.pc = "idle" /\ Dead \in Request /\ Dead.pc = "dead"
  BY IsRequest, Nothing
<1>4. ThreadSane(Scanner, Dead, began[Scanner])
  BY <1>2, <1>3, DueIs, Numbers DEF ThreadSane
<1>5. ASSUME t # Scanner \/ req[t].pc # "dead"
      PROVE  ThreadSane(t, Idle, IF t = Scanner THEN began[t] ELSE 0)
  BY <1>1, <1>2, <1>3, <1>5, DueIs DEF ThreadSane
<1>6. ASSUME NEW q \in Request, req[t].pc \notin {"idle", "dead"}, q.pc = "upsert" => q.first <= now
      PROVE  ThreadSane(t, q, began[t])
  BY <1>2, <1>6, DueIs DEF ThreadSane
<1>7. QED
  BY <1>1, <1>2, <1>4, <1>5, <1>6 DEF ThreadSane, Sane, SetsOK

Quietly == UNCHANGED <<now, faults, cold, started, seen, cache, db, history>>

LEMMA BeginIs ==
    ASSUME Sane, NEW t \in Thread,
           \/ (BeginScan /\ t = Scanner)
           \/ BeginListMiss(t) \/ BeginListHit(t)
           \/ \E k \in Key : \/ BeginAck(t, k)
                             \/ \E op \in {"suppress", "unsuppress"} : LoadSuppressed(t, op, k)
    PROVE  \E q \in Request :
              /\ Moves(t, q, now) /\ Quietly /\ req[t].pc = "idle" /\ Counted
              /\ q.pc \in {"collect", "listed", "persist"}
              /\ q.pc = "collect" => q.left = Key /\ q.derived = {}
              /\ q.pc = "listed" => q.list = cache.list /\ now < cache.until
<1>0. {} \in SUBSET Key /\ cache.list \in List /\ suppressed \in SUBSET Key
  BY DEF Sane, CacheOK, SetsOK
<1>1. PICK q : /\ Start(t, q) /\ Quietly
               /\ q \in {[pc |-> "listed", list |-> cache.list]}
                    \cup ScanReq \cup AckReq \cup PersistReq
               /\ q.pc \in {"collect", "listed", "persist"}
               /\ q.pc = "collect" => q.left = Key /\ q.derived = {}
               /\ q.pc = "listed" => q.list = cache.list /\ now < cache.until
  <2>0. ASSUME NEW op \in {"scan", "list"}
        PROVE  \E q \in ScanReq :
                  /\ q = [pc |-> "collect", op |-> op, derived |-> {}, left |-> Key]
                  /\ q.pc = "collect" /\ q.left = Key /\ q.derived = {}
    <3>1. PICK q : q = [pc |-> "collect", op |-> op, derived |-> {}, left |-> Key]
      OBVIOUS
    <3>2. q \in ScanReq /\ q.pc = "collect" /\ q.left = Key /\ q.derived = {}
      BY <1>0, <3>1 DEF ScanReq
    <3>3. QED
      BY <3>1, <3>2
  <2>1. CASE BeginScan /\ t = Scanner
    BY <2>0, <2>1 DEF BeginScan, Quietly
  <2>2. CASE BeginListMiss(t)
    BY <2>0, <2>2 DEF BeginListMiss, Quietly, Ask
  <2>3. CASE BeginListHit(t)
    BY <2>3 DEF BeginListHit, Quietly, Fresh, Ask
  <2>4. ASSUME NEW k \in Key, BeginAck(t, k)
        PROVE  \E q \in AckReq : /\ Start(t, q) /\ Quietly
                                 /\ q.pc = "collect" /\ q.left = Key /\ q.derived = {}
    <3>1. PICK q : q = [pc |-> "collect", op |-> "ack", key |-> k, derived |-> {}, left |-> Key]
      OBVIOUS
    <3>2. q \in AckReq /\ q.pc = "collect" /\ q.left = Key /\ q.derived = {}
      BY <1>0, <3>1 DEF AckReq
    <3>3. QED
      BY <2>4, <3>1, <3>2 DEF BeginAck, Quietly, Ask
  <2>5. ASSUME NEW k \in Key, NEW op \in {"suppress", "unsuppress"}, LoadSuppressed(t, op, k)
        PROVE  \E q \in PersistReq : Start(t, q) /\ Quietly /\ q.pc = "persist"
    <3>1. PICK set \in {suppressed, {}} :
             Start(t, [pc |-> "persist", op |-> op, key |-> k, set |-> Toggled(set, op, k)])
      BY <2>5 DEF LoadSuppressed, Ask
    <3>2. Toggled(set, op, k) \in SUBSET Key
      BY <1>0 DEF Toggled
    <3>3. [pc |-> "persist", op |-> op, key |-> k, set |-> Toggled(set, op, k)] \in PersistReq
      BY <3>2 DEF PersistReq
    <3>4. QED
      BY <2>5, <3>1, <3>3 DEF LoadSuppressed, Quietly
  <2>6. QED
    BY <2>1, <2>2, <2>3, <2>4, <2>5
<1>2. q \in Request
  <2>1. [pc |-> "listed", list |-> cache.list] \in ListReq
    BY <1>0 DEF ListReq
  <2>2. QED
    BY <1>1, <2>1, IsRequest
<1>3. Moves(t, q, now) /\ req[t].pc = "idle"
  BY <1>1, StepMoves DEF Sane
<1>4. Counted
  <2>1. /\ flips \in Nat /\ suppressOps \in Nat /\ restarts \in Nat /\ dbFailures \in Nat
        /\ requests \in Nat
    BY MayHold
  <2>2. /\ UNCHANGED <<flips, restarts>>
        /\ requests' \in {requests, requests + 1} /\ suppressOps' \in {suppressOps, suppressOps + 1}
        /\ dbFailures' \in {dbFailures, dbFailures + 1}
    BY DEF BeginScan, BeginListMiss, BeginListHit, BeginAck, LoadSuppressed, DbRead, Ask, Spend,
           bounds
  <2>3. QED
    BY <2>1, <2>2 DEF Counted
<1>5. QED
  BY <1>1, <1>2, <1>3, <1>4

LEMMA BeginSane ==
    ASSUME Sane, NEW t \in Thread,
           \/ (BeginScan /\ t = Scanner)
           \/ BeginListMiss(t) \/ BeginListHit(t)
           \/ \E k \in Key : \/ BeginAck(t, k)
                             \/ \E op \in {"suppress", "unsuppress"} : LoadSuppressed(t, op, k)
    PROVE  Sane'
<1>1. PICK q \in Request :
         Moves(t, q, now) /\ Quietly /\ q.pc \in {"collect", "listed", "persist"} /\ Counted
  BY BeginIs
<1>2. ThreadSane(t, q, now)
  BY <1>1, MayHold
<1>3. QED
  BY <1>1, <1>2, OnlyRequests DEF Quietly

\* The request of a derivation that goes on.
Left(q, rest) == [q EXCEPT !.left = rest]
Looked(q, rest, found) == [q EXCEPT !.left = rest, !.derived = found]
Filtered(q, found) == [q EXCEPT !.pc = "reconcile", !.derived = found]

LEMMA DerivingIs ==
    ASSUME NEW q \in Request, q.pc = "collect", NEW found \in SUBSET Key, NEW rest \in SUBSET Key
    PROVE  /\ q.derived \in SUBSET Key /\ q.left \in SUBSET Key
           /\ Left(q, rest) \in Request /\ Left(q, rest).pc = "collect"
           /\ Left(q, rest).left = rest /\ Left(q, rest).derived = q.derived
           /\ Filtered(q, found) \in Request /\ Filtered(q, found).pc = "reconcile"
           /\ Filtered(q, found).derived = found
<1>1. q \in ScanReq \cup AckReq
  BY RequestIs
<1>2. CASE q \in ScanReq
  <2>1. q.derived \in SUBSET Key /\ q.left \in SUBSET Key
    BY <1>2 DEF ScanReq
  <2>2. PICK r : r = Left(q, rest)
    OBVIOUS
  <2>3. r \in ScanReq /\ r.pc = "collect" /\ r.left = rest /\ r.derived = q.derived
    BY <1>2, <2>2 DEF ScanReq, Left
  <2>4. PICK u : u = Filtered(q, found)
    OBVIOUS
  <2>5. u \in ScanReq /\ u.pc = "reconcile" /\ u.derived = found
    BY <1>2, <2>4 DEF ScanReq, Filtered
  <2>6. QED
    BY <2>1, <2>2, <2>3, <2>4, <2>5, IsRequest
<1>3. CASE q \in AckReq
  <2>1. q.derived \in SUBSET Key /\ q.left \in SUBSET Key
    BY <1>3 DEF AckReq
  <2>2. PICK r : r = Left(q, rest)
    OBVIOUS
  <2>3. r \in AckReq /\ r.pc = "collect" /\ r.left = rest /\ r.derived = q.derived
    BY <1>3, <2>2 DEF AckReq, Left
  <2>4. PICK u : u = Filtered(q, found)
    OBVIOUS
  <2>5. u \in AckReq /\ u.pc = "reconcile" /\ u.derived = found
    BY <1>3, <2>4 DEF AckReq, Filtered
  <2>6. QED
    BY <2>1, <2>2, <2>3, <2>4, <2>5, IsRequest
<1>4. QED
  BY <1>1, <1>2, <1>3

\* The steps of a derivation, and its panic in the scan thread.
Reads(t) == Derive(t) \/ (t = Scanner /\ ScannerDies)

\* What a read does to what thread t, which goes on with q, holds of k.
ReadsKey(t, q, k) ==
    /\ since'[k] \in {since[k], now}
    /\ k \in held' /\ k \notin suppressed => since'[k] = since[k] \/ Spared(k)
    /\ q.pc \in {"collect", "reconcile"} /\ k \in q.derived /\ k \notin faults =>
          k \in req[t].derived
    /\ since'[k] # now =>
          /\ q.pc = "collect" /\ k \notin q.left =>
                \/ k \in q.derived <=> Shown(k)
                \/ k \notin req[t].left /\ (k \in q.derived <=> k \in req[t].derived)
          /\ q.pc = "reconcile" =>
                k \notin req[t].left /\ (k \in q.derived <=> k \in req[t].derived /\ k \notin suppressed)

\* What a read leaves alone.
ReadOnly ==
    /\ UNCHANGED <<now, faults, cold, started, seen, cache, db, cleared, acked>> /\ Counted
    /\ since' \in List /\ (\A k \in Key : since'[k] <= now) /\ held' \subseteq held

LEMMA LookedIs ==
    ASSUME NEW q \in Request, q.pc = "collect", NEW found \in SUBSET Key, NEW rest \in SUBSET Key
    PROVE  /\ Looked(q, rest, found) \in Request /\ Looked(q, rest, found).pc = "collect"
           /\ Looked(q, rest, found).left = rest /\ Looked(q, rest, found).derived = found
<1>1. q \in ScanReq \cup AckReq
  BY RequestIs
<1>2. PICK r : r = Looked(q, rest, found)
  OBVIOUS
<1>3. CASE q \in ScanReq
  <2>1. r \in ScanReq /\ r.pc = "collect" /\ r.left = rest /\ r.derived = found
    BY <1>2, <1>3 DEF ScanReq, Looked
  <2>2. QED
    BY <1>2, <2>1, IsRequest
<1>4. CASE q \in AckReq
  <2>1. r \in AckReq /\ r.pc = "collect" /\ r.left = rest /\ r.derived = found
    BY <1>2, <1>4 DEF AckReq, Looked
  <2>2. QED
    BY <1>2, <2>1, IsRequest
<1>5. QED
  BY <1>1, <1>3, <1>4

LEMMA FailDevicesIs ==
    ASSUME Sane, NEW t \in Thread, FailDevices(t)
    PROVE  /\ ReadOnly /\ req[t].pc = "collect"
           /\ \E q \in Request :
                 /\ q.pc = "collect" /\ Moves(t, q, began[t]) /\ \A k \in Key : ReadsKey(t, q, k)
<1>0. req[t] \in Request /\ req[t].pc = "collect"
  BY DEF Sane, RequestsOK, FailDevices
<1>1. ReadOnly
  <2>1. /\ UNCHANGED <<now, faults, cold, started, seen, cache, db, cleared, acked>>
        /\ UNCHANGED <<flips, suppressOps, restarts, requests>> /\ dbFailures' = dbFailures + 1
        /\ held' \subseteq held /\ Misread(Key)
    BY DEF FailDevices
  <2>2. Counted
    BY <2>1, MayHold DEF Counted
  <2>3. QED
    BY <2>1, <2>2, MisreadStamps DEF ReadOnly
<1>2. PICK q : q = Left(req[t], {})
  OBVIOUS
<1>3. q \in Request /\ q.pc = "collect" /\ q.derived = req[t].derived
  <2>1. {} \in SUBSET Key
    OBVIOUS
  <2>2. QED
    BY <1>0, <1>2, <2>1, DerivingIs
<1>4. Goto(t, q) /\ Misread(Key) /\ held' = {k \in held : Spared(k)}
  BY <1>2 DEF FailDevices, Left
<1>5. Moves(t, q, began[t])
  BY <1>4, StepMoves DEF Sane
<1>6. ASSUME NEW k \in Key PROVE ReadsKey(t, q, k)
  <2>1. since'[k] = now
    BY <1>4, MisreadStamps
  <2>2. k \in held' => Spared(k)
    BY <1>4
  <2>3. QED
    BY <2>1, <2>2, <1>3 DEF ReadsKey
<1>7. QED
  BY <1>0, <1>1, <1>3, <1>5, <1>6

LEMMA LookIs ==
    ASSUME Sane, NEW t \in Thread, NEW j \in Key, Look(t, j)
    PROVE  /\ ReadOnly /\ req[t].pc = "collect"
           /\ \E q \in Request :
                 /\ q.pc = "collect" /\ Moves(t, q, began[t]) /\ \A k \in Key : ReadsKey(t, q, k)
<1>0. req[t] \in Request /\ req[t].pc = "collect"
  BY DEF Sane, RequestsOK, Look
<1>1. UNCHANGED <<now, faults, cold, started, seen, cache, db, history, bounds>>
  BY DEF Look
<1>2. ReadOnly
  BY <1>1, MayHold DEF ReadOnly, Counted, bounds, history, Sane, StampsOK
<1>3. req[t].derived \in SUBSET Key /\ req[t].left \in SUBSET Key
  BY <1>0, DerivingIs
<1>4. PICK found \in SUBSET Key, rest \in SUBSET Key :
         found = Found(req[t].derived, j) /\ rest = req[t].left \ {j}
  BY <1>3 DEF Found
<1>5. PICK q : q = Looked(req[t], rest, found)
  OBVIOUS
<1>6. Goto(t, q)
  BY <1>4, <1>5 DEF Look, Looked
<1>7. Moves(t, q, began[t])
  BY <1>6, StepMoves DEF Sane
<1>8. q \in Request /\ q.pc = "collect" /\ q.derived = found /\ q.left = rest
  BY <1>0, <1>4, <1>5, LookedIs
<1>9. ASSUME NEW k \in Key PROVE ReadsKey(t, q, k)
  <2>1. since'[k] = since[k]
    BY <1>1 DEF history
  <2>2. k = j => (k \in q.derived <=> Shown(k))
    BY <1>3, <1>4, <1>8 DEF Found
  <2>3. k # j => (k \in q.derived <=> k \in req[t].derived) /\ (k \in q.left <=> k \in req[t].left)
    BY <1>3, <1>4, <1>8 DEF Found
  <2>4. Shown(k) => k \in faults
    BY DEF Shown
  <2>5. QED
    BY <1>8, <2>1, <2>2, <2>3, <2>4 DEF ReadsKey
<1>10. QED
  BY <1>0, <1>2, <1>7, <1>8, <1>9

LEMMA CollectIs ==
    ASSUME Sane, NEW t \in Thread, Collect(t)
    PROVE  /\ ReadOnly /\ req[t].pc = "collect"
           /\ \E q \in Request :
                 /\ q.pc = "reconcile" /\ Moves(t, q, began[t]) /\ \A k \in Key : ReadsKey(t, q, k)
<1>0. req[t] \in Request /\ req[t].pc = "collect" /\ req[t].left = {}
  BY DEF Sane, RequestsOK, Collect
<1>1. PICK hidden \in {suppressed, {}} :
         /\ DbRead(suppressed, {}, hidden)
         /\ Goto(t, [req[t] EXCEPT !.pc = "reconcile", !.derived = Derived(@, hidden)])
         /\ Misread(suppressed \ hidden)
  BY DEF Collect
<1>2. ReadOnly
  <2>1. /\ UNCHANGED <<now, faults, cold, started, seen, cache, db, cleared, acked, held>>
        /\ UNCHANGED <<flips, suppressOps, restarts, requests>>
        /\ dbFailures' \in {dbFailures, dbFailures + 1}
    BY <1>1 DEF Collect, DbRead
  <2>2. Counted
    BY <2>1, MayHold DEF Counted
  <2>3. QED
    BY <1>1, <2>1, <2>2, MisreadStamps DEF ReadOnly
<1> DEFINE found == Derived(req[t].derived, hidden)
<1>3. found = req[t].derived \ hidden /\ found \in SUBSET Key
  <2>1. {} \in SUBSET Key
    OBVIOUS
  <2>2. req[t].derived \in SUBSET Key
    BY <1>0, <2>1, DerivingIs
  <2>3. QED
    BY <2>2 DEF Derived
<1>4. PICK q : q = Filtered(req[t], found)
  OBVIOUS
<1>5. Goto(t, q)
  BY <1>1, <1>4 DEF Filtered
<1>6. Moves(t, q, began[t])
  BY <1>5, StepMoves DEF Sane
<1> HIDE DEF found
<1>7. q \in Request /\ q.pc = "reconcile" /\ q.derived = found
  BY <1>0, <1>3, <1>4, DerivingIs
<1>8. ASSUME NEW k \in Key PROVE ReadsKey(t, q, k)
  <2>1. since'[k] = IF k \in suppressed \ hidden THEN now ELSE since[k]
    BY <1>1, MisreadStamps
  <2>2. k \in q.derived <=> k \in req[t].derived /\ k \notin hidden
    BY <1>3, <1>7
  <2>3. since'[k] # now => (k \in hidden <=> k \in suppressed)
    BY <2>1
  <2>4. QED
    BY <1>0, <1>7, <2>1, <2>2, <2>3 DEF ReadsKey
<1>9. QED
  BY <1>0, <1>2, <1>6, <1>7, <1>8

LEMMA ScannerDiesIs ==
    ASSUME Sane, ScannerDies
    PROVE  /\ ReadOnly /\ req[Scanner].pc = "collect"
           /\ Moves(Scanner, Dead, began[Scanner]) /\ \A k \in Key : ReadsKey(Scanner, Dead, k)
<1>1. /\ UNCHANGED <<now, faults, cold, started, seen, cache, db, history>>
      /\ UNCHANGED <<flips, suppressOps, restarts, requests>> /\ dbFailures' = dbFailures + 1
      /\ req[Scanner].pc = "collect" /\ Goto(Scanner, Dead) /\ Scanner \in Thread
  BY Numbers DEF ScannerDies
<1>2. Counted
  BY <1>1, MayHold DEF Counted
<1>3. ReadOnly
  BY <1>1, <1>2 DEF ReadOnly, history, Sane, StampsOK
<1>4. ASSUME NEW k \in Key PROVE ReadsKey(Scanner, Dead, k)
  BY <1>1, Nothing DEF ReadsKey, history
<1>5. QED
  BY <1>1, <1>3, <1>4, StepMoves DEF Sane

LEMMA ReadIs ==
    ASSUME Sane, NEW t \in Thread, Reads(t)
    PROVE  /\ ReadOnly /\ req[t].pc = "collect"
           /\ \E q \in Request :
                 /\ Moves(t, q, began[t]) /\ ThreadSane(t, q, began[t])
                 /\ \/ q.pc \in {"collect", "reconcile"}
                    \/ q = Dead /\ t = Scanner
                 /\ \A k \in Key : ReadsKey(t, q, k)
<1>1. CASE Derive(t)
  <2>1. /\ ReadOnly /\ req[t].pc = "collect"
        /\ \E q \in Request : /\ q.pc \in {"collect", "reconcile"} /\ Moves(t, q, began[t])
                              /\ \A k \in Key : ReadsKey(t, q, k)
    BY <1>1, FailDevicesIs, LookIs, CollectIs DEF Derive
  <2>2. \A q \in Request : q.pc \in {"collect", "reconcile"} => ThreadSane(t, q, began[t])
    BY <2>1, MayHold
  <2>3. QED
    BY <2>1, <2>2
<1>2. CASE t = Scanner /\ ScannerDies
  BY <1>2, ScannerDiesIs, MayHold, IsRequest
<1>3. QED
  BY <1>1, <1>2 DEF Reads

LEMMA ReadSane == ASSUME Sane, NEW t \in Thread, Reads(t) PROVE Sane'
<1>1. PICK q \in Request : Moves(t, q, began[t]) /\ ThreadSane(t, q, began[t])
  BY ReadIs
<1>2. ReadOnly
  BY ReadIs
<1>3. /\ UNCHANGED <<now, started, cold>> /\ UNCHANGED <<now, seen>> /\ UNCHANGED <<now, cache>>
  BY <1>2 DEF ReadOnly
<1>4. StampsOK'
  BY <1>2 DEF ReadOnly, Sane, StampsOK, db
<1>5. SetsOK'
  BY <1>2 DEF ReadOnly, Counted, Sane, SetsOK, db
<1>6. RequestsOK'
  BY <1>1, <1>3, ThreadMoves DEF Sane
<1>7. QED
  BY <1>3, <1>4, <1>5, <1>6, Kept DEF Sane

LEMMA AnswerIs ==
    ASSUME Sane, NEW c \in Client, ReadKnown(c) \/ AnswerDevice(c) \/ Fail(c)
    PROVE  \E q \in Request, b \in {0, began[c]} :
              /\ Moves(c, q, b) /\ ThreadSane(c, q, b) /\ Quietly
              /\ \/ q = Idle
                 \/ /\ ReadKnown(c) /\ b = began[c] /\ req[c].pc = "listed" /\ q.pc = "prune"
                    /\ q.list = req[c].list /\ q.known = KnownKeys(c)
              /\ Counted
<1>0. c \in Thread /\ c # Scanner
  BY Numbers
<1>1. Quietly
  BY DEF ReadKnown, AnswerDevice, Fail, Quietly
<1>2. Counted
  <2>1. /\ UNCHANGED <<flips, suppressOps, restarts, requests>>
        /\ dbFailures' \in {dbFailures, dbFailures + 1}
    BY DEF ReadKnown, AnswerDevice, Fail, bounds
  <2>2. QED
    BY <1>0, <2>1, MayHold DEF Counted
<1>3. CASE ReadKnown(c)
  <2> DEFINE q == [pc |-> "prune", list |-> req[c].list, known |-> KnownKeys(c)]
  <2>1. req[c].pc = "listed" /\ Goto(c, q)
    BY <1>3 DEF ReadKnown
  <2>2. req[c].list \in List
    BY <1>0, <2>1, RequestIs DEF Sane, RequestsOK, ListReq
  <2>3. q \in PruneReq /\ q.pc = "prune" /\ q.list = req[c].list /\ q.known = KnownKeys(c)
    BY <2>2 DEF PruneReq, KnownKeys
  <2>4. Moves(c, q, began[c])
    BY <1>0, <2>1, StepMoves DEF Sane
  <2> HIDE DEF q
  <2>5. ThreadSane(c, q, began[c]) /\ q \in Request
    BY <1>0, <2>1, <2>3, MayHold, IsRequest
  <2>6. QED
    BY <1>1, <1>2, <1>3, <2>1, <2>3, <2>4, <2>5
<1>4. CASE AnswerDevice(c) \/ Fail(c)
  <2>1. Finish(c)
    BY <1>4 DEF AnswerDevice, Fail
  <2>2. Moves(c, Idle, 0) /\ ThreadSane(c, Idle, 0) /\ Idle \in Request
    BY <1>0, <2>1, StepMoves, MayHold, IsRequest DEF Sane
  <2>3. QED
    BY <1>1, <1>2, <2>2
<1>5. QED
  BY <1>3, <1>4

LEMMA AnswerSane ==
    ASSUME Sane, NEW c \in Client, ReadKnown(c) \/ AnswerDevice(c) \/ Fail(c)
    PROVE  Sane'
<1>1. PICK q \in Request, b \in {0, began[c]} :
         Moves(c, q, b) /\ ThreadSane(c, q, b) /\ Quietly /\ Counted
  BY AnswerIs
<1>2. QED
  BY <1>1, Numbers, OnlyRequests DEF Quietly

LEMMA ReconcileIs ==
    ASSUME Sane, NEW t \in Thread, Reconcile(t)
    PROVE  /\ req[t].pc = "reconcile" /\ req[t].derived \in SUBSET Key
           /\ seen' = Reconciled(req[t].derived)
           /\ UNCHANGED <<now, faults, cold, started, cache, db, history, bounds>>
           /\ \E q \in Request :
                 /\ q.pc = "store" /\ q.list = TrackedList(req[t].derived)
                 /\ Moves(t, q, began[t]) /\ ThreadSane(t, q, began[t])
<1>0. req[t] \in Request /\ req[t].pc = "reconcile" /\ req[t].derived \in SUBSET Key
  BY RequestIs DEF Sane, RequestsOK, Reconcile, ScanReq, AckReq
<1>1. seen' = Reconciled(req[t].derived)
      /\ UNCHANGED <<now, faults, cold, started, cache, db, history, bounds>>
  BY DEF Reconcile
<1> DEFINE q == [pc |-> "store", list |-> TrackedList(req[t].derived)]
<1>2. q \in ListReq /\ q.pc = "store" /\ q.list = TrackedList(req[t].derived)
  BY <1>0, ReconciledIs DEF ListReq
<1>3. Moves(t, q, began[t])
  BY StepMoves DEF Sane, Reconcile
<1> HIDE DEF q
<1>4. ThreadSane(t, q, began[t]) /\ q \in Request
  BY <1>0, <1>2, MayHold, IsRequest
<1>5. QED
  BY <1>0, <1>1, <1>2, <1>3, <1>4

LEMMA ReconcileSane == ASSUME Sane, NEW t \in Thread, Reconcile(t) PROVE Sane'
<1>1. /\ req[t].derived \in SUBSET Key /\ seen' = Reconciled(req[t].derived)
      /\ UNCHANGED <<now, faults, cold, started, cache, db, history, bounds>>
  BY ReconcileIs
<1>2. SeenOK'
  BY <1>1, ReconciledSane
<1>3. PICK q \in Request : Moves(t, q, began[t]) /\ ThreadSane(t, q, began[t])
  BY ReconcileIs
<1>4. RequestsOK'
  BY <1>1, <1>3, ThreadMoves DEF Sane
<1>5. QED
  BY <1>1, <1>2, <1>4, Kept DEF Sane, db, history

LEMMA ReconcileAckIs ==
    ASSUME Sane, NEW c \in Client, ReconcileAck(c)
    PROVE  /\ req[c].pc = "reconcile" /\ req[c].derived \in SUBSET Key /\ req[c].key \in Key
           /\ seen' = Reconciled(req[c].derived) /\ SeenOK'
           /\ UNCHANGED <<now, faults, cold, started, cache, db, history, bounds>>
           /\ \E q \in Request, b \in {0, began[c]} :
                 /\ Moves(c, q, b) /\ ThreadSane(c, q, b)
                 /\ \/ q = Idle
                    \/ /\ b = began[c] /\ q.pc = "upsert" /\ q.key = req[c].key
                       /\ q.derived = req[c].derived
                       /\ seen'[q.key] # NoOccurrence /\ q.first = seen'[q.key].first
<1>0. c \in Thread /\ c # Scanner /\ req[c] \in AckReq
  <2>1. c \in Thread /\ req[c] \in Request /\ req[c].pc = "reconcile" /\ req[c].op = "ack"
    BY Numbers DEF Sane, RequestsOK, ReconcileAck
  <2>2. req[c] \in ScanReq => req[c].op # "ack"
    BY DEF ScanReq
  <2>3. QED
    BY <2>1, <2>2, RequestIs, Numbers
<1>1. /\ req[c].derived \in SUBSET Key /\ req[c].key \in Key /\ req[c].pc = "reconcile"
      /\ seen' = Reconciled(req[c].derived)
      /\ UNCHANGED <<now, faults, cold, started, cache, db, history, bounds>>
  BY <1>0 DEF ReconcileAck, AckReq
<1>2. SeenOK'
  BY <1>1, ReconciledSane
<1>3. CASE Finish(c)
  <2>1. Moves(c, Idle, 0) /\ ThreadSane(c, Idle, 0) /\ Idle \in Request
    BY <1>0, <1>3, StepMoves, MayHold, IsRequest DEF Sane
  <2>2. QED
    BY <1>1, <1>2, <2>1
<1>4. CASE ~Finish(c)
  <2> DEFINE s == Reconciled(req[c].derived)[req[c].key]
             q == [pc |-> "upsert", key |-> req[c].key, first |-> s.first,
                   derived |-> req[c].derived]
  <2>1. s # NoOccurrence /\ Goto(c, q)
    BY <1>4 DEF ReconcileAck
  <2>0. s = seen'[req[c].key] /\ seen'[req[c].key] # NoOccurrence
    BY <1>1, <2>1
  <2>2. s.first \in Time \ {0} /\ s.first <= now
    <3> DEFINE f == seen'[req[c].key].first
               l == seen'[req[c].key].last
    <3>1. now \in Nat /\ Time \subseteq Nat
      BY Numbers DEF Sane, ClockOK
    <3>2. f \in Nat /\ l \in Nat /\ f <= l /\ l <= now /\ f \in Time /\ f # 0
      BY <1>1, <1>2, <2>0, <3>1 DEF SeenOK, Tracked
    <3> HIDE DEF f, l
    <3>3. f \in Time \ {0} /\ f <= now
      BY <3>1, <3>2
    <3>4. QED
      BY <2>0, <3>3 DEF f
  <2>3. /\ q \in UpsertReq /\ q.pc = "upsert" /\ q.first <= now
        /\ q.key = req[c].key /\ q.derived = req[c].derived /\ q.first = s.first
    BY <1>1, <2>2 DEF UpsertReq
  <2>4. Moves(c, q, began[c])
    BY <1>0, <2>1, StepMoves DEF Sane
  <2>5. /\ q.key = req[c].key /\ q.first = seen'[q.key].first /\ seen'[q.key] # NoOccurrence
    BY <2>0, <2>3
  <2> HIDE DEF q
  <2>6. ThreadSane(c, q, began[c]) /\ q \in Request
    BY <1>0, <1>1, <2>3, MayHold, IsRequest
  <2>7. QED
    BY <1>1, <1>2, <2>3, <2>4, <2>5, <2>6
<1>5. QED
  BY <1>3, <1>4

LEMMA ReconcileAckSane == ASSUME Sane, NEW c \in Client, ReconcileAck(c) PROVE Sane'
<1>1. SeenOK' /\ UNCHANGED <<now, faults, cold, started, cache, db, history, bounds>>
  BY ReconcileAckIs
<1>2. PICK q \in Request, b \in {0, began[c]} : Moves(c, q, b) /\ ThreadSane(c, q, b)
  BY ReconcileAckIs
<1>3. RequestsOK'
  BY <1>1, <1>2, Numbers, ThreadMoves DEF Sane
<1>4. QED
  BY <1>1, <1>3, Kept DEF Sane, db, history

LEMMA StoreIs ==
    ASSUME Sane, NEW t \in Thread, Store(t)
    PROVE  /\ req[t].pc = "store" /\ req[t].list \in List
           /\ cache' = [until |-> now + Ttl, list |-> req[t].list]
           /\ UNCHANGED <<now, faults, cold, started, seen, db, history, bounds>>
           /\ \E q \in Request :
                 /\ Moves(t, q, began[t]) /\ ThreadSane(t, q, began[t])
                 /\ \/ q = Idle /\ t = Scanner
                    \/ q.pc = "listed" /\ q.list = req[t].list
<1>0. req[t] \in ListReq /\ req[t].list \in List /\ req[t].pc = "store"
  BY RequestIs DEF Sane, RequestsOK, Store, ListReq
<1>1. /\ cache' = [until |-> now + Ttl, list |-> req[t].list]
      /\ UNCHANGED <<now, faults, cold, started, seen, db, history, bounds>>
  BY DEF Store
<1>2. CASE t = Scanner
  <2>1. Moves(t, Idle, began[t]) /\ ThreadSane(t, Idle, began[t]) /\ Idle \in Request
    BY <1>2, StepMoves, MayHold, IsRequest DEF Sane, Store
  <2>2. QED
    BY <1>0, <1>1, <1>2, <2>1
<1>3. CASE t # Scanner
  <2> DEFINE q == [pc |-> "listed", list |-> req[t].list]
  <2>1. q \in ListReq /\ q.pc = "listed" /\ q.list = req[t].list
    BY <1>0 DEF ListReq
  <2>2. Moves(t, q, began[t])
    BY <1>3, StepMoves DEF Sane, Store
  <2> HIDE DEF q
  <2>3. ThreadSane(t, q, began[t]) /\ q \in Request
    BY <1>0, <2>1, MayHold, IsRequest
  <2>4. QED
    BY <1>0, <1>1, <2>1, <2>2, <2>3
<1>4. QED
  BY <1>2, <1>3

LEMMA StoreSane == ASSUME Sane, NEW t \in Thread, Store(t) PROVE Sane'
<1>1. /\ cache' = [until |-> now + Ttl, list |-> req[t].list] /\ req[t].list \in List
      /\ UNCHANGED <<now, faults, cold, started, seen, db, history, bounds>>
  BY StoreIs
<1>2. CacheOK'
  <2>1. now \in 0..MaxClock /\ now \in Nat /\ Ttl \in Nat /\ MaxClock \in Nat
    BY Numbers DEF Sane, ClockOK, Time
  <2>2. now + Ttl \in 0..(MaxClock + Ttl)
    BY <2>1
  <2>3. cache' \in [until : 0..(MaxClock + Ttl), list : List] /\ cache'.until = now + Ttl
    BY <1>1, <2>2
  <2>4. QED
    BY <1>1, <2>1, <2>3 DEF CacheOK
<1>3. PICK q \in Request : Moves(t, q, began[t]) /\ ThreadSane(t, q, began[t])
  BY StoreIs
<1>4. RequestsOK'
  BY <1>1, <1>3, ThreadMoves DEF Sane
<1>5. QED
  BY <1>1, <1>2, <1>4, Kept DEF Sane, db, history

\* A request that ends leaves the others as they are.
LEMMA FinishSane ==
    ASSUME Sane, NEW c \in Client, Finish(c), now' = now PROVE RequestsOK'
BY StepMoves, MayHold, ThreadMoves, Numbers DEF Sane

LEMMA RowsSane ==
    ASSUME Sane, NEW c \in Client,
           Prune(c) \/ Upsert(c) \/ \E k \in Key : Unack(c, k)
    PROVE  Sane'
<1>0. c \in Thread /\ req[c] \in Request
  BY Numbers DEF Sane, RequestsOK
<1>1. acks \in [Key -> Time] /\ \A k \in Key : acks[k] <= now
  BY DEF Sane, StampsOK, List
<1>2. now \in Nat /\ 0 \in Time /\ 0 <= now
  BY Numbers DEF Sane, ClockOK
<1>3. acks' \in [Key -> Time] /\ \A k \in Key : acks'[k] <= now
  <2>1. CASE Prune(c)
    <3>1. PICK kept : acks' = [k \in Key |-> IF k \in kept THEN acks[k] ELSE 0]
      BY <2>1 DEF Prune
    <3>2. QED
      BY <1>1, <1>2, <3>1
  <2>2. CASE Upsert(c)
    <3>1. req[c] \in UpsertReq /\ req[c].first <= now
      BY <1>0, <2>2, RequestIs DEF Upsert, Sane, RequestsOK, ThreadSane
    <3>2. req[c].first \in Time /\ acks' = [acks EXCEPT ![req[c].key] = req[c].first]
      BY <2>2, <3>1 DEF Upsert, UpsertReq
    <3>3. QED
      BY <1>1, <3>1, <3>2
  <2>3. ASSUME NEW k \in Key, Unack(c, k)
        PROVE  acks' \in [Key -> Time] /\ \A j \in Key : acks'[j] <= now
    BY <1>1, <1>2, <2>3 DEF Unack
  <2>4. QED
    BY <2>1, <2>2, <2>3
<1>4. /\ UNCHANGED <<now, started, cold>> /\ UNCHANGED <<now, seen>> /\ UNCHANGED <<now, cache>>
      /\ UNCHANGED <<since, cleared, now>>
  BY DEF Prune, Upsert, Unack, history
<1>5. StampsOK'
  BY <1>3, <1>4 DEF Sane, StampsOK, List
<1>6. SetsOK'
  <2>1. CASE Prune(c)
    BY <2>1 DEF Sane, SetsOK, Prune, DbRead, history
  <2>2. CASE Upsert(c)
    <3>1. req[c].key \in Key
      BY <1>0, <2>2, RequestIs DEF Upsert, UpsertReq
    <3>2. QED
      BY <2>2, <3>1 DEF Sane, SetsOK, Upsert, bounds
  <2>3. ASSUME NEW k \in Key, Unack(c, k) PROVE SetsOK'
    BY <2>3 DEF Sane, SetsOK, Unack, bounds
  <2>4. QED
    BY <2>1, <2>2, <2>3
<1>7. RequestsOK'
  <2>1. CASE Prune(c) \/ Upsert(c)
    BY <1>0, <1>4, <2>1, FinishSane DEF Prune, Upsert
  <2>2. CASE \E k \in Key : Unack(c, k)
    BY <1>4, <2>2, Kept DEF Unack, local
  <2>3. QED
    BY <2>1, <2>2
<1>8. QED
  BY <1>4, <1>5, <1>6, <1>7, Kept DEF Sane

LEMMA PersistSane == ASSUME Sane, NEW c \in Client, PersistSuppressed(c) PROVE Sane'
<1>0. c \in Thread /\ req[c] \in PersistReq /\ req[c].pc = "persist"
  BY Numbers, RequestIs DEF Sane, RequestsOK, PersistSuppressed
<1>1. /\ UNCHANGED <<now, started, cold>> /\ UNCHANGED <<now, seen>> /\ UNCHANGED <<now, cache>>
      /\ UNCHANGED <<now, acks>> /\ cleared' = cleared /\ SinceUpdate
      /\ suppressed' = req[c].set /\ held' = held \ suppressed' /\ UNCHANGED <<faults, acked, bounds>>
  BY DEF PersistSuppressed
<1>2. StampsOK'
  BY <1>1, StampsAfter DEF Sane, StampsOK
<1>3. SetsOK'
  <2>1. req[c].set \in SUBSET Key
    BY <1>0 DEF PersistReq
  <2>2. QED
    BY <1>1, <2>1 DEF Sane, SetsOK, bounds
<1>4. RequestsOK'
  <2>1. Moves(c, Invalidating, began[c])
    BY <1>0, StepMoves DEF Sane, PersistSuppressed, Invalidating
  <2>2. ThreadSane(c, Invalidating, began[c])
    <3>1. Invalidating \in Request /\ Invalidating.pc # "upsert"
      BY IsRequest DEF Invalidating
    <3>2. QED
      BY <1>0, <3>1, MayHold
  <2>3. QED
    BY <1>0, <1>1, <2>1, <2>2, ThreadMoves DEF Sane
<1>5. QED
  BY <1>1, <1>2, <1>3, <1>4, Kept DEF Sane

LEMMA InvalidateSane ==
    ASSUME Sane, InvalidateFleetChange \/ \E c \in Client : Invalidate(c)
    PROVE  Sane'
<1>1. /\ UNCHANGED <<now, started, cold>> /\ UNCHANGED <<now, seen>>
      /\ UNCHANGED <<now, acks, since, cleared>>
      /\ UNCHANGED <<faults, suppressed, acked, held>> /\ Counted /\ cache' = NoCache
  <2>0. flips \in Nat /\ suppressOps \in Nat /\ dbFailures \in Nat /\ requests \in Nat
    BY DEF Sane, SetsOK
  <2>1. CASE InvalidateFleetChange
    BY <2>0, <2>1 DEF InvalidateFleetChange, Spend, Counted, db, history
  <2>2. ASSUME NEW c \in Client, Invalidate(c)
        PROVE  /\ UNCHANGED <<now, started, cold, seen, acks, since, cleared>>
               /\ UNCHANGED <<faults, suppressed, acked, held>> /\ Counted /\ cache' = NoCache
    BY <2>0, <2>2 DEF Invalidate, Counted, bounds, db, history
  <2>3. QED
    BY <2>1, <2>2
<1>2. CacheOK'
  BY <1>1, Nothing, Numbers DEF Sane, ClockOK, CacheOK
<1>3. RequestsOK'
  <2>1. CASE InvalidateFleetChange
    BY <1>1, <2>1, Kept DEF InvalidateFleetChange, local
  <2>2. ASSUME NEW c \in Client, Invalidate(c) PROVE RequestsOK'
    BY <1>1, <2>2, Numbers, FinishSane DEF Invalidate
  <2>3. QED
    BY <2>1, <2>2
<1>4. SetsOK'
  BY <1>1, Numbers DEF Sane, SetsOK, Counted
<1>5. QED
  BY <1>1, <1>2, <1>3, <1>4, Kept DEF Sane

LEMMA StutterSane == Sane /\ UNCHANGED vars => Sane'
<1> SUFFICES ASSUME Sane, UNCHANGED vars PROVE Sane'
  OBVIOUS
<1>1. QED
  BY Kept DEF Sane, vars, db, local, history, bounds

\* The steps of the scanner and of the requests, thread by thread.
LEMMA NextIs ==
    ASSUME Next
    PROVE  \/ Tick \/ Warms \/ Restart \/ InvalidateFleetChange
           \/ \E k \in Key : Raise(k) \/ Clear(k)
           \/ \E t \in Thread :
                 \/ (BeginScan /\ t = Scanner)
                 \/ Reads(t) \/ Reconcile(t) \/ Store(t)
           \/ \E c \in Client :
                 \/ BeginListMiss(c) \/ BeginListHit(c)
                 \/ \E k \in Key : \/ BeginAck(c, k)
                                   \/ \E op \in {"suppress", "unsuppress"} : LoadSuppressed(c, op, k)
                 \/ ReadKnown(c) \/ AnswerDevice(c) \/ Fail(c)
                 \/ ReconcileAck(c)
                 \/ Prune(c) \/ Upsert(c) \/ \E k \in Key : Unack(c, k)
                 \/ PersistSuppressed(c) \/ Invalidate(c)
<1>1. ScanStep => \E t \in Thread : \/ (BeginScan /\ t = Scanner)
                                    \/ Reads(t) \/ Reconcile(t) \/ Store(t)
  BY Numbers DEF ScanStep, Reads
<1>2. ASSUME NEW c \in Client, ClientStep(c)
      PROVE  \/ Reads(c) \/ Reconcile(c) \/ Store(c)
             \/ BeginListMiss(c) \/ BeginListHit(c)
             \/ \E k \in Key : \/ BeginAck(c, k)
                               \/ \E op \in {"suppress", "unsuppress"} : LoadSuppressed(c, op, k)
             \/ ReadKnown(c) \/ AnswerDevice(c) \/ Fail(c)
             \/ ReconcileAck(c)
             \/ Prune(c) \/ Upsert(c) \/ \E k \in Key : Unack(c, k)
             \/ PersistSuppressed(c) \/ Invalidate(c)
  BY <1>2 DEF ClientStep, Reads
<1>3. \A c \in Client : c \in Thread
  BY Numbers
<1>4. CASE Environment
  BY <1>4 DEF Environment, Warms
<1>5. CASE \E c \in Client : ClientStep(c)
  BY <1>5, <1>2, <1>3
<1>6. QED
  BY <1>1, <1>4, <1>5 DEF Next

LEMMA SaneNext == Sane /\ [Next]_vars => Sane'
<1> SUFFICES ASSUME Sane, [Next]_vars PROVE Sane'
  OBVIOUS
<1>1. CASE Tick
  BY <1>1, TickSane
<1>2. ASSUME NEW k \in Key, Raise(k) \/ Clear(k) PROVE Sane'
  BY <1>2, FaultSane
<1>3. CASE Warms
  BY <1>3, WarmUpSane
<1>4. CASE Restart
  BY <1>4, RestartSane
<1>5. CASE InvalidateFleetChange
  BY <1>5, InvalidateSane
<1>6. ASSUME NEW t \in Thread, (BeginScan /\ t = Scanner) \/ Reads(t) \/ Reconcile(t) \/ Store(t)
      PROVE  Sane'
  BY <1>6, BeginSane, ReadSane, ReconcileSane, StoreSane
<1>7. ASSUME NEW c \in Client,
             \/ BeginListMiss(c) \/ BeginListHit(c)
             \/ \E k \in Key : \/ BeginAck(c, k)
                               \/ \E op \in {"suppress", "unsuppress"} : LoadSuppressed(c, op, k)
      PROVE  Sane'
  <2>1. c \in Thread
    BY Numbers
  <2>2. QED
    BY <1>7, <2>1, BeginSane
<1>8. ASSUME NEW c \in Client, ReadKnown(c) \/ AnswerDevice(c) \/ Fail(c)
      PROVE  Sane'
  BY <1>8, AnswerSane
<1>9. ASSUME NEW c \in Client, ReconcileAck(c) PROVE Sane'
  BY <1>9, ReconcileAckSane
<1>10. ASSUME NEW c \in Client, Prune(c) \/ Upsert(c) \/ \E k \in Key : Unack(c, k)
       PROVE  Sane'
  BY <1>10, RowsSane
<1>11. ASSUME NEW c \in Client, PersistSuppressed(c) \/ Invalidate(c) PROVE Sane'
  BY <1>11, PersistSane, InvalidateSane
<1>12. CASE UNCHANGED vars
  BY <1>12, StutterSane
<1>13. QED
  BY <1>1, <1>2, <1>3, <1>4, <1>5, <1>6, <1>7, <1>8, <1>9, <1>10, <1>11, <1>12, NextIs

LEMMA SaneIsTyped == Sane => TypeOK
<1> SUFFICES ASSUME Sane PROVE TypeOK
  OBVIOUS
<1>1. \A k \in Key : seen[k].first <= seen[k].last /\ seen[k].last <= now
  BY DEF Sane, SeenOK
<1>2. QED
  BY <1>1 DEF Sane, ClockOK, SeenOK, CacheOK, StampsOK, SetsOK, RequestsOK, TypeOK

\* Values stay in their types, and a tracked occurrence was first seen no later
\* than last (reconcile, seed and the restart of the tracker).
THEOREM IssuesTyped == Spec => []TypeOK
<1>1. QED
  BY IssuesInitial, SaneNext, SaneIsTyped, PTL DEF Spec

-----------------------------------------------------------------------------
(* A condition that came back after the grace.  While it is away, whatever *)
(* remembers it stays close to the moment it ended; the scanner then       *)
(* forgets it, and nothing still speaks of the earlier occurrence.         *)

\* What a thread holds about a condition that is away was found before it ended.
ThreadGone(q, b, k) ==
    /\ q.pc \in {"collect", "reconcile"} /\ k \in q.derived => b <= cleared[k]
    /\ q.pc = "upsert" /\ q.key = k => q.first <= cleared[k] + Within
    /\ q.pc = "store" /\ q.list[k] # 0 => b <= cleared[k]
    /\ q.pc \in {"listed", "prune"} /\ q.list[k] # 0 => b <= cleared[k] + Within + Ttl

KeyGone(k) ==
    /\ Tracked(k) => seen[k].last <= cleared[k] + Within
    /\ acks[k] <= cleared[k] + Within
    /\ cache.list[k] # 0 => cache.until <= cleared[k] + Within + Ttl

Gone(k) == KeyGone(k) /\ \A t \in Thread : ThreadGone(req[t], began[t], k)
GoneKeeps == \A k \in Key \ faults : Gone(k)

LEMMA Stamps ==
    ASSUME Sane, NEW k \in Key
    PROVE  /\ now \in Nat /\ now # 0 /\ Grace \in Nat /\ Ttl \in Nat /\ Within \in Nat
           /\ cleared[k] \in Nat /\ cleared[k] <= now /\ since[k] \in Nat /\ since[k] <= now
           /\ acks[k] \in Nat /\ acks[k] <= now
           /\ seen[k].first \in Nat /\ seen[k].last \in Nat
           /\ seen[k].first <= seen[k].last /\ seen[k].last <= now
           /\ (seen[k] # NoOccurrence => seen[k].first # 0)
           /\ cache.until \in Nat /\ cache.until <= now + Ttl /\ cache.list[k] \in Nat
<1>1. now \in Nat /\ now # 0 /\ Grace \in Nat /\ Ttl \in Nat /\ Within \in Nat /\ Time \subseteq Nat
      /\ MaxClock \in Nat
  BY Numbers DEF Sane, ClockOK
<1>2. cleared[k] \in Time /\ since[k] \in Time /\ acks[k] \in Time
      /\ cleared[k] <= now /\ since[k] <= now /\ acks[k] <= now
  BY DEF Sane, StampsOK, List
<1>3. /\ seen[k].first \in Time /\ seen[k].last \in Time
      /\ seen[k].first <= seen[k].last /\ seen[k].last <= now
      /\ (seen[k] # NoOccurrence => seen[k].first # 0)
  BY DEF Sane, SeenOK, Tracked
<1>4. cache.until \in Nat /\ cache.until <= now + Ttl /\ cache.list[k] \in Time
  BY <1>1 DEF Sane, CacheOK, List
<1>5. QED
  BY <1>1, <1>2, <1>3, <1>4

LEMMA ThreadStamps ==
    ASSUME Sane, NEW t \in Thread
    PROVE  /\ began[t] \in Nat /\ req[t] \in Request
           /\ req[t].pc \notin {"idle", "dead"} => began[t] <= now /\ now <= began[t] + Within
           /\ t = Scanner /\ Scanning => began[t] <= now /\ now <= began[t] + Within
           /\ req[t].pc = "upsert" => /\ req[t].first \in Nat /\ req[t].first <= now
                                      /\ req[t].first # 0 /\ req[t].key \in Key
           /\ req[t].pc = "reconcile" => req[t].derived \in SUBSET Key
           /\ req[t].pc \in {"store", "listed", "prune"} => \A k \in Key : req[t].list[k] \in Nat
<1>1. ThreadSane(t, req[t], began[t]) /\ Time \subseteq Nat
  BY Numbers DEF Sane, RequestsOK
<1>2. req[t] \in Request /\ began[t] \in Nat
  BY <1>1 DEF ThreadSane
<1>3. req[t].pc = "upsert" => req[t].first \in Time \ {0} /\ req[t].key \in Key
  BY <1>2, RequestIs DEF UpsertReq
<1>4. req[t].pc = "reconcile" => req[t].derived \in SUBSET Key
  BY <1>2, RequestIs DEF ScanReq, AckReq
<1>5. req[t].pc \in {"store", "listed", "prune"} => req[t].list \in [Key -> Time]
  BY <1>2, RequestIs DEF ListReq, PruneReq, List
<1>6. QED
  BY <1>1, <1>2, <1>3, <1>4, <1>5, DueIs DEF ThreadSane, Scanning

\* A step moves one thread at most, which is not dead.
LEMMA OneMoves ==
    ASSUME Sane, [Next]_vars
    PROVE  \/ Restart
           \/ UNCHANGED <<req, began>>
           \/ \E t \in Thread : Reads(t)
           \/ \E t \in Thread, q \in Request : \E b : Moves(t, q, b) /\ (t = Scanner => Scanning)
<1> DEFINE Goal == \E t \in Thread, q \in Request : \E b : Moves(t, q, b) /\ (t = Scanner => Scanning)
<1>1. ASSUME Tick \/ Warms \/ InvalidateFleetChange \/ UNCHANGED vars
               \/ \E j \in Key : Raise(j) \/ Clear(j)
      PROVE  UNCHANGED <<req, began>>
  BY <1>1 DEF Tick, Warms, WarmUp, InvalidateFleetChange, Raise, Clear, vars, local
<1>2. ASSUME NEW t \in Thread,
             \/ BeginScan /\ t = Scanner
             \/ BeginListMiss(t) \/ BeginListHit(t)
             \/ \E j \in Key : \/ BeginAck(t, j)
                               \/ \E op \in {"suppress", "unsuppress"} : LoadSuppressed(t, op, j)
      PROVE  Goal
  BY <1>2, BeginIs DEF Scanning
<1>3. ASSUME NEW t \in Thread, Reconcile(t) PROVE Goal
  BY <1>3, ReconcileIs DEF Scanning
<1>4. ASSUME NEW t \in Thread, Store(t) PROVE Goal
  BY <1>4, StoreIs DEF Scanning
<1>5. ASSUME NEW c \in Client, ReadKnown(c) \/ AnswerDevice(c) \/ Fail(c) \/ ReconcileAck(c)
      PROVE  Goal
  BY <1>5, AnswerIs, ReconcileAckIs, Numbers
<1>6. ASSUME NEW c \in Client,
             \/ Prune(c) \/ Upsert(c) \/ \E j \in Key : Unack(c, j)
             \/ PersistSuppressed(c) \/ Invalidate(c)
      PROVE  UNCHANGED <<req, began>> \/ Goal
  <2>1. UNCHANGED <<req, began>> \/ Finish(c) \/ Goto(c, Invalidating)
    BY <1>6 DEF Prune, Upsert, Unack, PersistSuppressed, Invalidate, Invalidating, local
  <2>2. QED
    BY <2>1, StepMoves, Numbers, IsRequest DEF Sane
<1> HIDE DEF Goal
<1>7. \A c \in Client : c \in Thread
  BY Numbers
<1>8. Restart \/ UNCHANGED <<req, began>> \/ (\E t \in Thread : Reads(t)) \/ Goal
  BY <1>1, <1>2, <1>3, <1>4, <1>5, <1>6, <1>7, NextIs
<1>9. QED
  BY <1>8 DEF Goal

\* The scan thread that ended is not there again before the next start.
LEMMA ScanningBefore == Sane /\ [Next]_vars /\ ~Restart /\ Scanning' => Scanning
<1> SUFFICES ASSUME Sane, [Next]_vars, ~Restart, Scanning' PROVE Scanning
  OBVIOUS
<1>1. CASE UNCHANGED <<req, began>>
  BY <1>1 DEF Scanning
<1>2. ASSUME NEW t \in Thread, Reads(t) PROVE Scanning
  <2>1. req[t].pc = "collect" /\ \E q : Moves(t, q, began[t])
    BY <1>2, ReadIs
  <2>2. QED
    BY <2>1, MovesAre, Numbers DEF Sane, Scanning
<1>3. ASSUME NEW t \in Thread, \E q \in Request : \E b : Moves(t, q, b), t = Scanner => Scanning
      PROVE  Scanning
  BY <1>3, MovesAre, Numbers DEF Sane, Scanning
<1>4. QED
  BY <1>1, <1>2, <1>3, OneMoves

\* A condition that ends now: nothing is remembered from the future.
LEMMA GoneNow ==
    ASSUME Sane, NEW k \in Key, cleared'[k] = now, UNCHANGED <<seen, acks, cache, req, began>>
    PROVE  Gone(k)'
<1>1. KeyGone(k)'
  BY Stamps DEF KeyGone, Tracked
<1>2. ASSUME NEW t \in Thread PROVE ThreadGone(req[t], began[t], k)'
  <2>1. now \in Nat /\ Within \in Nat /\ Ttl \in Nat
    BY Stamps
  <2>2. req[t].pc \notin {"idle", "dead"} => began[t] \in Nat /\ began[t] <= now
    BY ThreadStamps
  <2>3. req[t].pc = "upsert" => req[t].first \in Nat /\ req[t].first <= now
    BY ThreadStamps
  <2>4. QED
    BY <2>1, <2>2, <2>3 DEF ThreadGone
<1>3. QED
  BY <1>1, <1>2 DEF Gone

\* One thread moves; the other threads hold what they held.
LEMMA GoneThreads ==
    ASSUME Sane, NEW k \in Key, Gone(k), cleared'[k] = cleared[k],
           NEW t \in Thread, NEW q, NEW b, Moves(t, q, b), ThreadGone(q, b, k)
    PROVE  \A u \in Thread : ThreadGone(req[u], began[u], k)'
<1>1. \A u \in Thread : ThreadGone(req'[u], began'[u], k)
  BY MovesAre DEF Sane, Gone
<1>2. QED
  BY <1>1 DEF ThreadGone

LEMMA GoneKey ==
    ASSUME Sane, NEW k \in Key, KeyGone(k), cleared'[k] = cleared[k],
           seen'[k] = seen[k] \/ seen'[k] = NoOccurrence, acks'[k] \in {acks[k], 0},
           cache' = cache \/ cache' = NoCache
    PROVE  KeyGone(k)'
<1>1. cleared[k] \in Nat /\ Within \in Nat /\ acks[k] \in Nat
  BY Stamps
<1>2. cache'.list[k] # 0 => cache' = cache
  BY Nothing
<1>3. QED
  BY <1>1, <1>2 DEF KeyGone, Tracked

LEMMA GoneKept ==
    ASSUME Sane, NEW k \in Key, Gone(k), cleared'[k] = cleared[k],
           UNCHANGED <<seen, acks, req, began>>, cache' = cache \/ cache' = NoCache
    PROVE  Gone(k)'
<1>1. KeyGone(k)'
  BY GoneKey DEF Gone
<1>2. QED
  BY <1>1 DEF Gone, ThreadGone

LEMMA GoneEnvironment ==
    ASSUME Sane, GoneKeeps, NEW k \in Key \ faults',
           \/ Tick \/ Warms \/ InvalidateFleetChange \/ UNCHANGED vars
           \/ \E j \in Key : Raise(j) \/ Clear(j)
    PROVE  Gone(k)'
<1>1. CASE Tick \/ Warms \/ InvalidateFleetChange \/ UNCHANGED vars
  <2>1. UNCHANGED <<faults, seen, acks, req, began, cleared>> /\ cache' \in {cache, NoCache}
    BY <1>1 DEF Tick, Warms, WarmUp, InvalidateFleetChange, vars, db, local, history
  <2>2. QED
    BY <2>1, GoneKept DEF GoneKeeps
<1>2. ASSUME NEW j \in Key, Raise(j) PROVE Gone(k)'
  <2>1. /\ UNCHANGED <<seen, acks, req, began, cache>> /\ faults' = faults \cup {j}
        /\ cleared' = [cleared EXCEPT ![j] = 0] /\ cleared \in [Key -> Time] /\ k # j
    BY <1>2 DEF Raise, db, local, Sane, StampsOK, List
  <2>2. QED
    BY <2>1, GoneKept DEF GoneKeeps
<1>3. ASSUME NEW j \in Key, Clear(j) PROVE Gone(k)'
  <2>1. /\ UNCHANGED <<seen, acks, req, began, cache>> /\ faults' = faults \ {j}
        /\ cleared' = [cleared EXCEPT ![j] = now] /\ cleared \in [Key -> Time]
    BY <1>3 DEF Clear, db, local, Sane, StampsOK, List
  <2>2. CASE k = j
    BY <2>1, <2>2, GoneNow
  <2>3. CASE k # j
    BY <2>1, <2>3, GoneKept DEF GoneKeeps
  <2>4. QED
    BY <2>2, <2>3
<1>4. QED
  BY <1>1, <1>2, <1>3

\* A thread moves on and touches nothing that is shared.
LEMMA GoneQuietly ==
    ASSUME Sane, NEW k \in Key, Gone(k), UNCHANGED <<cleared, seen, acks, cache>>,
           NEW t \in Thread, NEW q, NEW b, Moves(t, q, b), ThreadGone(q, b, k)
    PROVE  Gone(k)'
<1>1. KeyGone(k)'
  BY GoneKey DEF Gone
<1>2. QED
  BY <1>1, GoneThreads DEF Gone

LEMMA IdleGone == ASSUME NEW b, NEW k PROVE ThreadGone(Idle, b, k)
BY Nothing DEF ThreadGone

LEMMA GoneBegin ==
    ASSUME Sane, NEW k \in Key, Gone(k), NEW t \in Thread,
           \/ (BeginScan /\ t = Scanner)
           \/ BeginListMiss(t) \/ BeginListHit(t)
           \/ \E j \in Key : \/ BeginAck(t, j)
                             \/ \E op \in {"suppress", "unsuppress"} : LoadSuppressed(t, op, j)
    PROVE  Gone(k)'
<1>1. PICK q \in Request :
         /\ Moves(t, q, now) /\ Quietly /\ q.pc \in {"collect", "listed", "persist"}
         /\ q.pc = "collect" => q.derived = {}
         /\ q.pc = "listed" => q.list = cache.list /\ now < cache.until
  BY BeginIs
<1>2. ThreadGone(q, now, k)
  BY <1>1, Stamps DEF Gone, KeyGone, ThreadGone
<1>3. QED
  BY <1>1, <1>2, GoneQuietly DEF Quietly, history, db

LEMMA GoneDerive ==
    ASSUME Sane, NEW k \in Key, Gone(k), k \notin faults, NEW t \in Thread,
           Reads(t) \/ Reconcile(t) \/ Store(t)
    PROVE  Gone(k)'
<1>0. /\ now \in Nat /\ Within \in Nat /\ Ttl \in Nat /\ cleared[k] \in Nat /\ began[t] \in Nat
      /\ req[t].pc \notin {"idle", "dead"} => now <= began[t] + Within
  BY Stamps, ThreadStamps
<1>1. CASE Reads(t)
  <2>1. ReadOnly /\ req[t].pc = "collect" /\ ThreadGone(req[t], began[t], k)
    BY <1>1, ReadIs DEF Gone
  <2>2. PICK q \in Request :
           /\ Moves(t, q, began[t]) /\ ReadsKey(t, q, k)
           /\ q.pc \in {"collect", "reconcile"} \/ q = Dead
    BY <1>1, ReadIs
  <2>3. ThreadGone(q, began[t], k)
    BY <2>1, <2>2, Nothing DEF ThreadGone, ReadsKey
  <2>4. QED
    BY <2>1, <2>2, <2>3, GoneQuietly DEF ReadOnly, db
<1>2. CASE Reconcile(t)
  <2>1. /\ req[t].pc = "reconcile" /\ req[t].derived \in SUBSET Key
        /\ seen' = Reconciled(req[t].derived)
        /\ UNCHANGED <<cache, acks, cleared>>
    BY <1>2, ReconcileIs DEF db, history
  <2>2. PICK q \in Request :
           /\ q.pc = "store" /\ q.list = TrackedList(req[t].derived) /\ Moves(t, q, began[t])
    BY <1>2, ReconcileIs
  <2>3. ThreadGone(req[t], began[t], k) /\ KeyGone(k)
    BY DEF Gone
  <2>4. CASE k \in req[t].derived
    <3>1. began[t] <= cleared[k] /\ seen'[k].last = now
      BY <2>1, <2>3, <2>4, ReconciledIs DEF ThreadGone
    <3>2. KeyGone(k)'
      <4>1. seen'[k].last <= cleared[k] + Within
        BY <1>0, <2>1, <3>1
      <4>2. QED
        BY <2>1, <2>3, <4>1 DEF KeyGone, Tracked
    <3>3. ThreadGone(q, began[t], k)
      BY <2>2, <3>1 DEF ThreadGone
    <3>4. QED
      BY <2>1, <2>2, <3>2, <3>3, GoneThreads DEF Gone
  <2>5. CASE k \notin req[t].derived
    <3>1. q.list[k] = 0 /\ (seen'[k] = seen[k] \/ seen'[k] = NoOccurrence)
      BY <2>1, <2>2, <2>5, ReconciledIs
    <3>2. KeyGone(k)'
      BY <2>1, <2>3, <3>1, GoneKey
    <3>3. ThreadGone(q, began[t], k)
      BY <2>2, <3>1 DEF ThreadGone
    <3>4. QED
      BY <2>1, <2>2, <3>2, <3>3, GoneThreads DEF Gone
  <2>6. QED
    BY <2>4, <2>5
<1>3. CASE Store(t)
  <2>1. /\ req[t].pc = "store" /\ req[t].list \in List
        /\ cache' = [until |-> now + Ttl, list |-> req[t].list]
        /\ UNCHANGED <<seen, acks, cleared>>
    BY <1>3, StoreIs DEF db, history
  <2>2. PICK q \in Request :
           /\ Moves(t, q, began[t])
           /\ \/ q = Idle
              \/ q.pc = "listed" /\ q.list = req[t].list
    BY <1>3, StoreIs
  <2>3. ThreadGone(req[t], began[t], k) /\ KeyGone(k)
    BY DEF Gone
  <2>4. req[t].list[k] # 0 => began[t] <= cleared[k]
    BY <2>1, <2>3 DEF ThreadGone
  <2>5. KeyGone(k)'
    <3>1. cache'.list[k] # 0 => cache'.until <= cleared[k] + Within + Ttl
      BY <1>0, <2>1, <2>4
    <3>2. QED
      BY <2>1, <2>3, <3>1 DEF KeyGone, Tracked
  <2>6. ThreadGone(q, began[t], k)
    <3>1. req[t].list[k] # 0 => began[t] <= cleared[k] + Within + Ttl
      BY <1>0, <2>4
    <3>2. QED
      BY <2>2, <3>1, IdleGone DEF ThreadGone
  <2>7. QED
    BY <2>1, <2>2, <2>5, <2>6, GoneThreads DEF Gone
<1>4. QED
  BY <1>1, <1>2, <1>3

LEMMA GoneRequest ==
    ASSUME Sane, NEW k \in Key, Gone(k), NEW c \in Client,
           \/ ReadKnown(c) \/ AnswerDevice(c) \/ Fail(c) \/ ReconcileAck(c)
           \/ Prune(c) \/ Upsert(c) \/ \E j \in Key : Unack(c, j)
           \/ PersistSuppressed(c) \/ Invalidate(c)
    PROVE  Gone(k)'
<1>0. /\ now \in Nat /\ Within \in Nat /\ Ttl \in Nat /\ cleared[k] \in Nat /\ c \in Thread
      /\ began[c] \in Nat /\ (req[c].pc \notin {"idle", "dead"} => now <= began[c] + Within)
      /\ ThreadGone(req[c], began[c], k) /\ KeyGone(k)
  BY Stamps, ThreadStamps, Numbers DEF Gone
<1>1. CASE ReadKnown(c) \/ AnswerDevice(c) \/ Fail(c)
  <2>1. PICK q \in Request, b \in {0, began[c]} :
              /\ Moves(c, q, b) /\ Quietly
              /\ \/ q = Idle
                 \/ /\ b = began[c] /\ req[c].pc = "listed" /\ q.pc = "prune"
                    /\ q.list = req[c].list
    BY <1>1, AnswerIs
  <2>2. ThreadGone(q, b, k)
    BY <1>0, <2>1, IdleGone DEF ThreadGone
  <2>3. QED
    BY <1>0, <2>1, <2>2, GoneQuietly DEF Quietly, history, db
<1>2. CASE ReconcileAck(c)
  <2>1. /\ req[c].pc = "reconcile" /\ req[c].derived \in SUBSET Key
        /\ seen' = Reconciled(req[c].derived) /\ SeenOK' /\ UNCHANGED <<cache, acks, cleared>>
    BY <1>2, ReconcileAckIs DEF db, history
  <2>2. PICK q \in Request, b \in {0, began[c]} :
                 /\ Moves(c, q, b)
                 /\ \/ q = Idle
                    \/ /\ q.pc = "upsert"
                       /\ seen'[q.key] # NoOccurrence /\ q.first = seen'[q.key].first
    BY <1>2, ReconcileAckIs
  <2>3. KeyGone(k)'
    <3>1. CASE k \in req[c].derived
      <4>1. began[c] <= cleared[k] /\ seen'[k].last = now
        BY <1>0, <2>1, <3>1, ReconciledIs DEF ThreadGone
      <4>2. seen'[k].last <= cleared[k] + Within
        BY <1>0, <2>1, <4>1
      <4>3. QED
        BY <1>0, <2>1, <4>2 DEF KeyGone, Tracked
    <3>2. CASE k \notin req[c].derived
      <4>1. seen'[k] = seen[k] \/ seen'[k] = NoOccurrence
        BY <2>1, <3>2, ReconciledIs
      <4>2. QED
        BY <1>0, <2>1, <4>1, GoneKey
    <3>3. QED
      BY <3>1, <3>2
  <2>4. ThreadGone(q, b, k)
    <3>1. CASE q.pc = "upsert" /\ q.key = k /\ seen'[k] # NoOccurrence /\ q.first = seen'[k].first
      <4>1. seen'[k].first <= seen'[k].last /\ seen'[k].first \in Nat /\ seen'[k].last \in Nat
        BY <2>1, Numbers DEF SeenOK
      <4>2. seen'[k].last <= cleared[k] + Within
        BY <2>1, <2>3, <3>1 DEF KeyGone, Tracked
      <4>3. q.first <= cleared[k] + Within
        BY <1>0, <3>1, <4>1, <4>2
      <4>4. QED
        BY <3>1, <4>3 DEF ThreadGone
    <3>2. CASE q.pc = "upsert" /\ q.key # k
      BY <3>2 DEF ThreadGone
    <3>3. QED
      BY <2>2, <3>1, <3>2, IdleGone
  <2>5. QED
    BY <1>0, <2>1, <2>2, <2>3, <2>4, GoneThreads DEF Gone
<1>3. CASE Prune(c)
  <2>1. UNCHANGED <<seen, cache, cleared>> /\ acks'[k] \in {acks[k], 0} /\ Finish(c)
    BY <1>3 DEF Prune, history
  <2>2. PICK b : Moves(c, Idle, b)
    BY <1>0, <2>1, StepMoves DEF Sane
  <2>3. QED
    BY <1>0, <2>1, <2>2, IdleGone, GoneKey, GoneThreads DEF Gone
<1>4. CASE Upsert(c)
  <2>1. /\ UNCHANGED <<seen, cache, cleared>> /\ Finish(c) /\ req[c].pc = "upsert"
        /\ acks' = [acks EXCEPT ![req[c].key] = req[c].first] /\ acks \in [Key -> Time]
    BY <1>4 DEF Upsert, Sane, StampsOK, List
  <2>2. acks'[k] <= cleared[k] + Within
    BY <1>0, <2>1 DEF KeyGone, ThreadGone
  <2>3. KeyGone(k)'
    BY <1>0, <2>1, <2>2 DEF KeyGone, Tracked
  <2>4. PICK b : Moves(c, Idle, b)
    BY <1>0, <2>1, StepMoves DEF Sane
  <2>5. QED
    BY <1>0, <2>1, <2>3, <2>4, IdleGone, GoneThreads DEF Gone
<1>5. ASSUME NEW j \in Key, Unack(c, j) PROVE Gone(k)'
  <2>1. /\ UNCHANGED <<seen, cache, cleared, req, began>>
        /\ acks' = [acks EXCEPT ![j] = 0] /\ acks \in [Key -> Time]
    BY <1>5 DEF Unack, local, Sane, StampsOK, List
  <2>2. acks'[k] \in {acks[k], 0}
    BY <2>1
  <2>3. KeyGone(k)'
    BY <1>0, <2>1, <2>2, GoneKey
  <2>4. QED
    BY <2>1, <2>3 DEF Gone, ThreadGone
<1>6. CASE PersistSuppressed(c)
  <2>1. /\ UNCHANGED <<seen, cache, cleared, acks>> /\ Goto(c, Invalidating)
    BY <1>6 DEF PersistSuppressed, Invalidating
  <2>2. Moves(c, Invalidating, began[c]) /\ ThreadGone(Invalidating, began[c], k)
    BY <1>0, <2>1, StepMoves DEF Sane, ThreadGone, Invalidating
  <2>3. QED
    BY <1>0, <2>1, <2>2, GoneKey, GoneThreads DEF Gone
<1>7. CASE Invalidate(c)
  <2>1. UNCHANGED <<seen, cleared, acks>> /\ cache' = NoCache /\ Finish(c)
    BY <1>7 DEF Invalidate, db, history
  <2>2. PICK b : Moves(c, Idle, b)
    BY <1>0, <2>1, StepMoves DEF Sane
  <2>3. QED
    BY <1>0, <2>1, <2>2, IdleGone, GoneKey, GoneThreads DEF Gone
<1>8. QED
  BY <1>1, <1>2, <1>3, <1>4, <1>5, <1>6, <1>7

\* Only the start of the process counts as one.
LEMMA RestartsKept == [Next]_vars /\ ~Restart => UNCHANGED restarts
<1> SUFFICES ASSUME [Next]_vars, ~Restart PROVE UNCHANGED restarts
  OBVIOUS
<1>1. CASE Tick \/ Warms \/ InvalidateFleetChange \/ UNCHANGED vars
           \/ \E k \in Key : Raise(k) \/ Clear(k)
  BY <1>1 DEF Tick, Warms, WarmUp, InvalidateFleetChange, Raise, Clear, vars, bounds
<1>2. ASSUME NEW t \in Thread, BeginScan \/ Reads(t) \/ Reconcile(t) \/ Store(t)
      PROVE  UNCHANGED restarts
  BY <1>2 DEF BeginScan, Reads, Derive, FailDevices, Look, Collect, ScannerDies, Reconcile, Store, bounds
<1>3. ASSUME NEW c \in Client,
             \/ BeginListMiss(c) \/ BeginListHit(c)
             \/ \E k \in Key : \/ BeginAck(c, k)
                               \/ \E op \in {"suppress", "unsuppress"} : LoadSuppressed(c, op, k)
             \/ ReadKnown(c) \/ AnswerDevice(c) \/ Fail(c)
      PROVE  UNCHANGED restarts
  BY <1>3 DEF BeginListMiss, BeginListHit, BeginAck, LoadSuppressed, ReadKnown,
              AnswerDevice, Fail, bounds
<1>4. ASSUME NEW c \in Client,
             \/ ReconcileAck(c)
             \/ Prune(c) \/ Upsert(c) \/ \E k \in Key : Unack(c, k)
             \/ PersistSuppressed(c) \/ Invalidate(c)
      PROVE  UNCHANGED restarts
  BY <1>4 DEF ReconcileAck, Prune, Upsert, Unack, PersistSuppressed, Invalidate, bounds
<1>5. QED
  BY <1>1, <1>2, <1>3, <1>4, NextIs

LEMMA GoneNext == ASSUME Sane, GoneKeeps, [Next]_vars, ~Restart PROVE GoneKeeps'
<1> SUFFICES ASSUME NEW k \in Key \ faults' PROVE Gone(k)'
  BY DEF GoneKeeps
<1>1. CASE Tick \/ Warms \/ InvalidateFleetChange \/ UNCHANGED vars
           \/ \E j \in Key : Raise(j) \/ Clear(j)
  BY <1>1, GoneEnvironment
<1>2. ASSUME NEW t \in Thread,
             (BeginScan /\ t = Scanner) \/ Reads(t) \/ Reconcile(t) \/ Store(t)
      PROVE  Gone(k)'
  <2>1. faults' = faults
    BY <1>2 DEF BeginScan, Reads, Derive, FailDevices, Look, Collect, ScannerDies, Reconcile, Store
  <2>2. QED
    BY <1>2, <2>1, GoneBegin, GoneDerive DEF GoneKeeps
<1>3. ASSUME NEW c \in Client,
             \/ BeginListMiss(c) \/ BeginListHit(c)
             \/ \E j \in Key : \/ BeginAck(c, j)
                               \/ \E op \in {"suppress", "unsuppress"} : LoadSuppressed(c, op, j)
      PROVE  Gone(k)'
  <2>1. faults' = faults /\ c \in Thread
    BY <1>3, Numbers DEF BeginListMiss, BeginListHit, BeginAck, LoadSuppressed
  <2>2. QED
    BY <1>3, <2>1, GoneBegin DEF GoneKeeps
<1>4. ASSUME NEW c \in Client,
             \/ ReadKnown(c) \/ AnswerDevice(c) \/ Fail(c) \/ ReconcileAck(c)
             \/ Prune(c) \/ Upsert(c) \/ \E j \in Key : Unack(c, j)
             \/ PersistSuppressed(c) \/ Invalidate(c)
      PROVE  Gone(k)'
  <2>1. faults' = faults
    BY <1>4 DEF ReadKnown, AnswerDevice, Fail, ReconcileAck, Prune, Upsert, Unack,
                PersistSuppressed, Invalidate
  <2>2. QED
    BY <1>4, <2>1, GoneRequest DEF GoneKeeps
<1>5. QED
  BY <1>1, <1>2, <1>3, <1>4, NextIs

\* A tracked occurrence was seen, or is about to be forgotten by the round that
\* the scanner is in.
Unforgotten(k) ==
    /\ req[Scanner].pc \in {"collect", "reconcile"} =>
          began[Scanner] <= seen[k].last + Grace + Within
    /\ req[Scanner].pc \notin {"collect", "reconcile"} => began[Scanner] <= seen[k].last + Grace

ForgetsInTime == \A k \in Key : Tracked(k) => Unforgotten(k)

LEMMA ScannerElsewhere ==
    ASSUME Sane, NEW t \in Thread, t # Scanner, NEW q, NEW b, Moves(t, q, b)
    PROVE  UNCHANGED <<req[Scanner], began[Scanner]>>
BY Numbers, MovesAre DEF Sane

LEMMA ForgetsKept ==
    ASSUME ForgetsInTime, UNCHANGED <<seen, req[Scanner], began[Scanner]>>
    PROVE  ForgetsInTime'
BY DEF ForgetsInTime, Unforgotten, Tracked

LEMMA ForgetsReconciled ==
    ASSUME Sane, Scanning, ForgetsInTime, NEW derived \in SUBSET Key, seen' = Reconciled(derived),
           began'[Scanner] = began[Scanner],
           \/ req'[Scanner] = req[Scanner]
           \/ req'[Scanner].pc = "store"
    PROVE  ForgetsInTime'
<1> SUFFICES ASSUME NEW k \in Key, Tracked(k)' PROVE Unforgotten(k)'
  BY DEF ForgetsInTime
<1>1. /\ now \in Nat /\ Grace \in Nat /\ Within \in Nat /\ seen[k].last \in Nat
      /\ Scanner \in Thread /\ began[Scanner] \in Nat /\ began[Scanner] <= now
  BY Stamps, ThreadStamps, Numbers
<1>2. CASE seen'[k].last = now
  <2>1. began[Scanner] <= now + Grace /\ began[Scanner] <= now + Grace + Within
    BY <1>1
  <2>2. QED
    BY <1>2, <2>1 DEF Unforgotten
<1>3. CASE seen'[k] = seen[k] /\ seen[k].last + Grace >= now
  <2>1. began[Scanner] <= seen[k].last + Grace /\ began[Scanner] <= seen[k].last + Grace + Within
    BY <1>1, <1>3
  <2>2. QED
    BY <1>3, <2>1 DEF Unforgotten
<1>4. QED
  BY <1>2, <1>3, ReconciledIs DEF Tracked

LEMMA ForgetsNext ==
    ASSUME Sane, Scanning, Scanning', ForgetsInTime, [Next]_vars, ~Restart PROVE ForgetsInTime'
<1>1. CASE Tick \/ Warms \/ InvalidateFleetChange \/ UNCHANGED vars
           \/ \E j \in Key : Raise(j) \/ Clear(j)
  <2>1. UNCHANGED <<seen, req, began>>
    BY <1>1 DEF Tick, Warms, WarmUp, InvalidateFleetChange, Raise, Clear, vars, local
  <2>2. QED
    BY <2>1, ForgetsKept
<1>2. CASE BeginScan
  <2>1. PICK q : Moves(Scanner, q, now) /\ req[Scanner].pc = "idle" /\ q.pc = "collect"
    BY <1>2, Numbers, StepMoves DEF BeginScan, Sane
  <2>2. seen' = seen /\ req'[Scanner] = q /\ began'[Scanner] = now
    BY <1>2, <2>1, Numbers, MovesAre DEF BeginScan, Sane
  <2>3. ASSUME NEW k \in Key, Tracked(k) PROVE now <= seen[k].last + Grace + Within
    <3>1. began[Scanner] <= seen[k].last + Grace
      BY <2>1, <2>3 DEF ForgetsInTime, Unforgotten
    <3>2. /\ now \in Nat /\ Grace \in Nat /\ Within \in Nat /\ seen[k].last \in Nat
          /\ began[Scanner] \in Nat /\ now <= began[Scanner] + Within
      BY Stamps, ThreadStamps, Numbers
    <3>3. QED
      BY <3>1, <3>2
  <2>4. QED
    BY <2>1, <2>2, <2>3 DEF ForgetsInTime, Unforgotten, Tracked
<1>3. ASSUME NEW t \in Thread, Reads(t) PROVE ForgetsInTime'
  <2>1. PICK q \in Request :
           Moves(t, q, began[t]) /\ (q.pc \in {"collect", "reconcile"} \/ (q = Dead /\ t = Scanner))
    BY <1>3, ReadIs
  <2>2. seen' = seen /\ req[t].pc = "collect" /\ req'[t] = q /\ began'[t] = began[t]
    BY <1>3, <2>1, ReadIs, MovesAre DEF ReadOnly, Sane
  <2>3. CASE t # Scanner
    BY <2>1, <2>2, <2>3, ScannerElsewhere, ForgetsKept
  <2>4. CASE t = Scanner
    <3>1. q.pc \in {"collect", "reconcile"}
      BY <2>1, <2>2, <2>4, Nothing DEF Scanning
    <3>2. QED
      BY <2>2, <2>4, <3>1 DEF ForgetsInTime, Unforgotten, Tracked
  <2>5. QED
    BY <2>3, <2>4
<1>4. ASSUME NEW t \in Thread, Reconcile(t) PROVE ForgetsInTime'
  <2>1. req[t].derived \in SUBSET Key /\ seen' = Reconciled(req[t].derived)
    BY <1>4, ReconcileIs
  <2>2. PICK q \in Request : q.pc = "store" /\ Moves(t, q, began[t])
    BY <1>4, ReconcileIs
  <2>3. req'[t] = q /\ began'[t] = began[t]
    BY <2>2, MovesAre DEF Sane
  <2>4. QED
    BY <2>1, <2>2, <2>3, ScannerElsewhere, ForgetsReconciled
<1>5. ASSUME NEW t \in Thread, Store(t) PROVE ForgetsInTime'
  <2>1. seen' = seen /\ req[t].pc = "store"
    BY <1>5, StoreIs
  <2>2. PICK q \in Request : Moves(t, q, began[t]) /\ q.pc \in {"idle", "listed"}
    BY <1>5, StoreIs, Nothing
  <2>3. req'[t] = q /\ began'[t] = began[t]
    BY <2>2, MovesAre DEF Sane
  <2>4. CASE t # Scanner
    BY <2>1, <2>2, <2>4, ScannerElsewhere, ForgetsKept
  <2>5. CASE t = Scanner
    BY <2>1, <2>2, <2>3, <2>5 DEF ForgetsInTime, Unforgotten, Tracked
  <2>6. QED
    BY <2>4, <2>5
<1>6. ASSUME NEW c \in Client, ReconcileAck(c) PROVE ForgetsInTime'
  <2>1. req[c].derived \in SUBSET Key /\ seen' = Reconciled(req[c].derived)
    BY <1>6, ReconcileAckIs
  <2>2. PICK q, b : Moves(c, q, b)
    BY <1>6, ReconcileAckIs
  <2>3. QED
    BY <2>1, <2>2, Numbers, ScannerElsewhere, ForgetsReconciled
<1>7. ASSUME NEW c \in Client,
             \/ BeginListMiss(c) \/ BeginListHit(c)
             \/ \E j \in Key : \/ BeginAck(c, j)
                               \/ \E op \in {"suppress", "unsuppress"} : LoadSuppressed(c, op, j)
             \/ ReadKnown(c) \/ AnswerDevice(c) \/ Fail(c)
             \/ Prune(c) \/ Upsert(c) \/ \E j \in Key : Unack(c, j)
             \/ PersistSuppressed(c) \/ Invalidate(c)
      PROVE  ForgetsInTime'
  <2>1. seen' = seen
    BY <1>7 DEF BeginListMiss, BeginListHit, BeginAck, LoadSuppressed, ReadKnown, AnswerDevice,
                Ask, Fail, Prune, Upsert, Unack, PersistSuppressed, Invalidate
  <2>2. \/ UNCHANGED local \/ Finish(c) \/ \E q : Goto(c, q) \/ Start(c, q)
    BY <1>7 DEF BeginListMiss, BeginListHit, BeginAck, LoadSuppressed, ReadKnown, AnswerDevice,
                Ask, Fail, Prune, Upsert, Unack, PersistSuppressed, Invalidate
  <2>3. UNCHANGED local \/ \E q, b : Moves(c, q, b)
    BY <2>2, StepMoves, Numbers DEF Sane
  <2>4. QED
    BY <2>1, <2>3, Numbers, ScannerElsewhere, ForgetsKept DEF local
<1>8. QED
  BY <1>1, <1>2, <1>3, <1>4, <1>5, <1>6, <1>7, NextIs

\* Nothing the program holds speaks of the occurrence a left-over row is bound to.
KeyRenewed(k) == acks[k] < now /\ seen[k].first # acks[k] /\ cache.list[k] # acks[k]
ThreadRenewed(q, k) == q.pc \in {"store", "listed", "prune"} => q.list[k] # acks[k]

Renewed(k) ==
    k \notin acked /\ acks[k] # 0 =>
        KeyRenewed(k) /\ \A t \in Thread : ThreadRenewed(req[t], k)
FreshOccurrence == \A k \in Key : Renewed(k)

\* The condition comes back after the grace: all that was remembered is gone.
LEMMA RenewedByAbsence ==
    ASSUME Sane, Scanning, GoneKeeps, ForgetsInTime, NEW k \in Key, k \notin faults, LongAbsent(k),
           acks[k] # 0
    PROVE  KeyRenewed(k) /\ \A t \in Thread : ThreadRenewed(req[t], k)
<1>1. KeyGone(k) /\ \A t \in Thread : ThreadGone(req[t], began[t], k)
  BY DEF GoneKeeps, Gone
<1>2. /\ now \in Nat /\ Grace \in Nat /\ Within \in Nat /\ Ttl \in Nat /\ Ttl <= Within
      /\ cleared[k] \in Nat /\ cleared[k] <= now /\ acks[k] \in Nat /\ cache.until \in Nat
      /\ seen[k].last \in Nat
  BY Stamps, Numbers
<1>3. now > cleared[k] + Grace + 3 * Within
  BY <1>2 DEF LongAbsent
<1>4. acks[k] < now
  BY <1>1, <1>2, <1>3 DEF KeyGone
<1>5. seen[k] = NoOccurrence
  <2> SUFFICES ASSUME seen[k] # NoOccurrence PROVE FALSE
    OBVIOUS
  <2>1. seen[k].last <= cleared[k] + Within
    BY <1>1 DEF KeyGone, Tracked
  <2>2. began[Scanner] \in Nat /\ now <= began[Scanner] + Within
    BY ThreadStamps, Numbers
  <2>3. \/ began[Scanner] <= seen[k].last + Grace + Within
        \/ began[Scanner] <= seen[k].last + Grace
    BY DEF ForgetsInTime, Unforgotten, Tracked
  <2>4. QED
    BY <1>2, <1>3, <2>1, <2>2, <2>3
<1>6. ASSUME NEW t \in Thread, req[t].pc \in {"store", "listed", "prune"} PROVE req[t].list[k] = 0
  <2>1. began[t] \in Nat /\ began[t] <= now /\ now <= began[t] + Within
    BY <1>6, ThreadStamps
  <2>2. req[t].list[k] # 0 => \/ began[t] <= cleared[k]
                              \/ began[t] <= cleared[k] + Within + Ttl
    BY <1>1, <1>6 DEF ThreadGone
  <2>3. QED
    BY <1>2, <1>3, <2>1, <2>2
<1>7. cache.list[k] = 0
  <2>1. cache.list[k] # 0 => cache # NoCache /\ cache.until <= cleared[k] + Within + Ttl
    BY <1>1, Nothing DEF KeyGone
  <2>2. cache = NoCache \/ now <= cache.until
    BY DEF Sane, CacheOK
  <2>3. QED
    BY <1>2, <1>3, <2>1, <2>2
<1>8. QED
  BY <1>4, <1>5, <1>6, <1>7, Nothing DEF KeyRenewed, ThreadRenewed

\* An unacknowledged condition with a row had it before the step.
LEMMA RowStays ==
    ASSUME Sane, [Next]_vars, ~Restart, NEW k \in Key, k \notin acked', acks'[k] # 0
    PROVE  /\ acks'[k] = acks[k] /\ now' \in Nat /\ now <= now'
           /\ k \notin acked \/ (Raise(k) /\ LongAbsent(k))
<1>0. acks \in [Key -> Time] /\ now \in Nat
  BY Stamps DEF Sane, StampsOK, List
<1>1. CASE Tick \/ Warms \/ InvalidateFleetChange \/ UNCHANGED vars
  BY <1>0, <1>1 DEF Tick, Warms, WarmUp, InvalidateFleetChange, vars, db, history
<1>2. ASSUME NEW j \in Key, Raise(j) \/ Clear(j)
      PROVE  /\ acks' = acks /\ now' = now
             /\ k \notin acked \/ (Raise(k) /\ LongAbsent(k))
  <2>1. acks' = acks /\ now' = now
    BY <1>2 DEF Raise, Clear, db
  <2>2. CASE Clear(j)
    BY <2>1, <2>2 DEF Clear
  <2>3. CASE Raise(j)
    <3>1. acked' = IF LongAbsent(j) THEN acked \ {j} ELSE acked
      BY <2>3 DEF Raise
    <3>2. CASE j = k
      BY <2>1, <2>3, <3>1, <3>2
    <3>3. CASE j # k
      BY <2>1, <3>1, <3>3
    <3>4. QED
      BY <3>2, <3>3
  <2>4. QED
    BY <1>2, <2>2, <2>3
<1>3. ASSUME NEW t \in Thread, BeginScan \/ Reads(t) \/ Reconcile(t) \/ Store(t)
      PROVE  UNCHANGED <<now, acks, acked>>
  BY <1>3, ReadIs DEF ReadOnly, BeginScan, Reconcile, Store, db, history
<1>4. ASSUME NEW c \in Client,
             \/ BeginListMiss(c) \/ BeginListHit(c)
             \/ \E j \in Key : \/ BeginAck(c, j)
                               \/ \E op \in {"suppress", "unsuppress"} : LoadSuppressed(c, op, j)
             \/ ReadKnown(c) \/ AnswerDevice(c) \/ Fail(c)
      PROVE  UNCHANGED <<now, acks, acked>>
  BY <1>4 DEF BeginListMiss, BeginListHit, BeginAck, LoadSuppressed, ReadKnown,
              AnswerDevice, Fail, db, history
<1>5. ASSUME NEW c \in Client, ReconcileAck(c) \/ PersistSuppressed(c) \/ Invalidate(c)
      PROVE  UNCHANGED <<now, acks, acked>>
  BY <1>5 DEF ReconcileAck, PersistSuppressed, Invalidate, db, history
<1>6. ASSUME NEW c \in Client, Prune(c)
      PROVE  UNCHANGED <<now, acked>> /\ acks'[k] \in {acks[k], 0}
  BY <1>6 DEF Prune, history
<1>7. ASSUME NEW c \in Client, Upsert(c)
      PROVE  now' = now /\ acked \subseteq acked' /\ acks'[k] = acks[k]
  <2>1. /\ now' = now /\ acks' = [acks EXCEPT ![req[c].key] = req[c].first]
        /\ acked' = acked \cup {req[c].key}
    BY <1>7 DEF Upsert
  <2>2. QED
    BY <1>0, <2>1
<1>8. ASSUME NEW c \in Client, NEW j \in Key, Unack(c, j)
      PROVE  now' = now /\ k \notin acked /\ acks'[k] = acks[k]
  <2>1. /\ now' = now /\ acks' = [acks EXCEPT ![j] = 0] /\ acked' = acked \ {j}
    BY <1>8 DEF Unack
  <2>2. QED
    BY <1>0, <2>1
<1>9. QED
  BY <1>0, <1>1, <1>2, <1>3, <1>4, <1>5, <1>6, <1>7, <1>8, NextIs

LEMMA RenewedKey ==
    ASSUME Sane, NEW k \in Key, KeyRenewed(k), acks[k] # 0, acks'[k] = acks[k],
           now' \in Nat, now <= now', seen'[k].first \in {seen[k].first, 0, now},
           cache'.list[k] \in {cache.list[k], 0}
    PROVE  KeyRenewed(k)'
BY Stamps DEF KeyRenewed

LEMMA RenewedThreads ==
    ASSUME Sane, NEW k \in Key, \A u \in Thread : ThreadRenewed(req[u], k),
           acks'[k] = acks[k],
           NEW t \in Thread, NEW q, NEW b, Moves(t, q, b), ThreadRenewed(q, k)
    PROVE  \A u \in Thread : ThreadRenewed(req[u], k)'
<1>1. \A u \in Thread : ThreadRenewed(req'[u], k)
  BY MovesAre DEF Sane
<1>2. QED
  BY <1>1 DEF ThreadRenewed

LEMMA IdleRenewed == ASSUME NEW k PROVE ThreadRenewed(Idle, k)
BY Nothing DEF ThreadRenewed

\* What a reconcile tracks and lists is the earlier occurrence or one of now.
LEMMA RenewedReconciled ==
    ASSUME Sane, NEW k \in Key, KeyRenewed(k), acks[k] # 0, NEW derived \in SUBSET Key
    PROVE  /\ Reconciled(derived)[k].first \in {seen[k].first, 0, now}
           /\ TrackedList(derived)[k] # acks[k]
<1>1. /\ now \in Nat /\ acks[k] \in Nat /\ acks[k] < now /\ seen[k].first # acks[k]
  BY Stamps DEF KeyRenewed
<1>2. CASE k \in derived
  <2>1. Reconciled(derived)[k].first \in {seen[k].first, now}
    BY <1>2, ReconciledIs
  <2>2. TrackedList(derived)[k] = Reconciled(derived)[k].first
    BY <1>2, ReconciledIs
  <2>3. QED
    BY <1>1, <2>1, <2>2
<1>3. CASE k \notin derived
  <2>1. TrackedList(derived)[k] = 0
    BY <1>3, ReconciledIs
  <2>2. Reconciled(derived)[k] \in {seen[k], NoOccurrence}
    BY <1>3, ReconciledIs
  <2>3. QED
    BY <2>1, <2>2, Nothing
<1>4. QED
  BY <1>2, <1>3

LEMMA RenewedNext ==
    ASSUME Sane, Scanning, GoneKeeps, ForgetsInTime, FreshOccurrence, [Next]_vars, ~Restart
    PROVE  FreshOccurrence'
<1> DEFINE Goal(k) == KeyRenewed(k)' /\ \A t \in Thread : ThreadRenewed(req[t], k)'
<1> SUFFICES ASSUME NEW k \in Key, k \notin acked', acks'[k] # 0
             PROVE  Goal(k)
  BY DEF FreshOccurrence, Renewed
<1>0. acks'[k] = acks[k] /\ now' \in Nat /\ now <= now' /\ acks[k] # 0
  BY RowStays
<1>1. CASE Raise(k) /\ LongAbsent(k)
  <2>1. UNCHANGED <<now, acks, seen, cache, req>> /\ k \notin faults
    BY <1>1 DEF Raise, db, local
  <2>2. KeyRenewed(k) /\ \A t \in Thread : ThreadRenewed(req[t], k)
    BY <1>0, <1>1, <2>1, RenewedByAbsence
  <2>3. QED
    BY <2>1, <2>2 DEF KeyRenewed, ThreadRenewed
<1>2. CASE k \notin acked
  <2>0. KeyRenewed(k) /\ \A t \in Thread : ThreadRenewed(req[t], k)
    BY <1>0, <1>2 DEF FreshOccurrence, Renewed
  <2>1. CASE Tick \/ Warms \/ InvalidateFleetChange \/ UNCHANGED vars
             \/ \E j \in Key : Raise(j) \/ Clear(j)
    <3>1. UNCHANGED <<seen, req>> /\ cache' \in {cache, NoCache}
      BY <2>1 DEF Tick, Warms, WarmUp, InvalidateFleetChange, Raise, Clear, vars, local
    <3>2. KeyRenewed(k)'
      BY <1>0, <2>0, <3>1, Nothing, RenewedKey
    <3>3. QED
      BY <1>0, <2>0, <3>1, <3>2 DEF ThreadRenewed
  <2>2. ASSUME NEW t \in Thread,
               \/ (BeginScan /\ t = Scanner)
               \/ BeginListMiss(t) \/ BeginListHit(t)
               \/ \E j \in Key : \/ BeginAck(t, j)
                                 \/ \E op \in {"suppress", "unsuppress"} : LoadSuppressed(t, op, j)
        PROVE  Goal(k)
    <3>1. PICK q \in Request :
             /\ Moves(t, q, now) /\ Quietly /\ q.pc \in {"collect", "listed", "persist"}
             /\ q.pc = "listed" => q.list = cache.list /\ now < cache.until
      BY <2>2, BeginIs
    <3>2. ThreadRenewed(q, k)
      BY <2>0, <3>1 DEF KeyRenewed, ThreadRenewed
    <3>3. KeyRenewed(k)'
      BY <1>0, <2>0, <3>1, RenewedKey DEF Quietly
    <3>4. QED
      BY <1>0, <2>0, <3>1, <3>2, <3>3, RenewedThreads
  <2>3. ASSUME NEW t \in Thread, Reads(t) PROVE Goal(k)
    <3>1. PICK q \in Request :
             Moves(t, q, began[t]) /\ (q.pc \in {"collect", "reconcile"} \/ q = Dead)
      BY <2>3, ReadIs
    <3>2. ThreadRenewed(q, k)
      BY <3>1, Nothing DEF ThreadRenewed
    <3>3. KeyRenewed(k)'
      BY <1>0, <2>0, <2>3, ReadIs, RenewedKey DEF ReadOnly
    <3>4. QED
      BY <1>0, <2>0, <3>1, <3>2, <3>3, RenewedThreads
  <2>4. ASSUME NEW t \in Thread, Reconcile(t) PROVE Goal(k)
    <3>1. /\ req[t].derived \in SUBSET Key /\ seen' = Reconciled(req[t].derived)
          /\ UNCHANGED <<cache, acks, now>>
      BY <2>4, ReconcileIs DEF db
    <3>2. PICK q \in Request :
             q.list = TrackedList(req[t].derived) /\ Moves(t, q, began[t])
      BY <2>4, ReconcileIs
    <3>3. seen'[k].first \in {seen[k].first, 0, now} /\ ThreadRenewed(q, k)
      BY <1>0, <2>0, <3>1, <3>2, RenewedReconciled DEF ThreadRenewed
    <3>4. KeyRenewed(k)'
      BY <1>0, <2>0, <3>1, <3>3, RenewedKey
    <3>5. QED
      BY <1>0, <2>0, <3>2, <3>3, <3>4, RenewedThreads
  <2>5. ASSUME NEW t \in Thread, Store(t) PROVE Goal(k)
    <3>1. /\ req[t].pc = "store" /\ cache' = [until |-> now + Ttl, list |-> req[t].list]
          /\ UNCHANGED <<seen, acks, now>>
      BY <2>5, StoreIs DEF db
    <3>2. PICK q \in Request :
             /\ Moves(t, q, began[t])
             /\ \/ q = Idle
                \/ q.pc = "listed" /\ q.list = req[t].list
      BY <2>5, StoreIs
    <3>3. req[t].list[k] # acks[k]
      BY <2>0, <3>1 DEF ThreadRenewed
    <3>4. ThreadRenewed(q, k)
      BY <3>2, <3>3, IdleRenewed DEF ThreadRenewed
    <3>5. KeyRenewed(k)'
      BY <1>0, <2>0, <3>1, <3>3 DEF KeyRenewed
    <3>6. QED
      BY <1>0, <2>0, <3>2, <3>4, <3>5, RenewedThreads
  <2>6. ASSUME NEW c \in Client, ReadKnown(c) \/ AnswerDevice(c) \/ Fail(c) PROVE Goal(k)
    <3>1. PICK q \in Request, b \in {0, began[c]} :
             /\ Moves(c, q, b) /\ Quietly
             /\ \/ q = Idle
                \/ req[c].pc = "listed" /\ q.pc = "prune" /\ q.list = req[c].list
      BY <2>6, AnswerIs
    <3>2. c \in Thread
      BY Numbers
    <3>3. ThreadRenewed(q, k)
      BY <2>0, <3>1, <3>2, IdleRenewed DEF ThreadRenewed
    <3>4. KeyRenewed(k)'
      BY <1>0, <2>0, <3>1, RenewedKey DEF Quietly
    <3>5. QED
      BY <1>0, <2>0, <3>1, <3>2, <3>3, <3>4, RenewedThreads
  <2>7. ASSUME NEW c \in Client, ReconcileAck(c) PROVE Goal(k)
    <3>1. /\ req[c].derived \in SUBSET Key /\ seen' = Reconciled(req[c].derived)
          /\ UNCHANGED <<cache, acks, now>>
      BY <2>7, ReconcileAckIs DEF db
    <3>2. PICK q \in Request, b \in {0, began[c]} :
             Moves(c, q, b) /\ (q = Idle \/ q.pc = "upsert")
      BY <2>7, ReconcileAckIs
    <3>3. c \in Thread /\ ThreadRenewed(q, k)
      BY <3>2, IdleRenewed, Numbers DEF ThreadRenewed
    <3>4. seen'[k].first \in {seen[k].first, 0, now}
      BY <1>0, <2>0, <3>1, RenewedReconciled
    <3>5. KeyRenewed(k)'
      BY <1>0, <2>0, <3>1, <3>4, RenewedKey
    <3>6. QED
      BY <1>0, <2>0, <3>2, <3>3, <3>5, RenewedThreads
  <2>8. ASSUME NEW c \in Client,
               \/ Prune(c) \/ Upsert(c) \/ \E j \in Key : Unack(c, j)
               \/ PersistSuppressed(c) \/ Invalidate(c)
        PROVE  Goal(k)
    <3>1. seen' = seen /\ cache' \in {cache, NoCache}
      BY <2>8 DEF Prune, Upsert, Unack, PersistSuppressed, Invalidate
    <3>2. KeyRenewed(k)'
      BY <1>0, <2>0, <3>1, Nothing, RenewedKey
    <3>3. UNCHANGED local \/ Finish(c) \/ Goto(c, Invalidating)
      BY <2>8 DEF Prune, Upsert, Unack, PersistSuppressed, Invalidate, Invalidating
    <3>4. CASE UNCHANGED local
      BY <1>0, <2>0, <3>2, <3>4 DEF ThreadRenewed, local
    <3>5. CASE Finish(c) \/ Goto(c, Invalidating)
      <4>1. \E q \in {Idle, Invalidating} : \E b : Moves(c, q, b)
        BY <3>5, StepMoves, Numbers DEF Sane
      <4>2. \A q \in {Idle, Invalidating} : ThreadRenewed(q, k)
        BY IdleRenewed DEF ThreadRenewed, Invalidating
      <4>3. QED
        BY <1>0, <2>0, <3>2, <4>1, <4>2, RenewedThreads, Numbers
    <3>6. QED
      BY <3>3, <3>4, <3>5
  <2> HIDE DEF Goal
  <2>9. \A c \in Client : c \in Thread
    BY Numbers
  <2>10. QED
    BY <2>1, <2>2, <2>3, <2>4, <2>5, <2>6, <2>7, <2>8, <2>9, NextIs
<1>3. QED
  BY <1>1, <1>2, RowStays

\* As long as the process has not restarted, for a start revives what was
\* acknowledged, and the scan thread lives.
RecurrenceInv == restarts = 0 /\ Scanning => GoneKeeps /\ ForgetsInTime /\ FreshOccurrence

LEMMA RecurrenceInitial == Init => RecurrenceInv
<1> SUFFICES ASSUME Init PROVE GoneKeeps /\ ForgetsInTime /\ FreshOccurrence
  BY DEF RecurrenceInv
<1>1. /\ \A k \in Key : acks[k] = 0 /\ seen[k] = NoOccurrence /\ cleared[k] \in {0, 1}
      /\ cache = NoCache /\ \A t \in Thread : req[t] = Idle
  BY DEF Init
<1>2. GoneKeeps
  <2>1. \A k \in Key : KeyGone(k)
    <3>1. 0 <= 0 + Within /\ 0 <= 1 + Within
      BY Numbers
    <3>2. QED
      BY <1>1, <3>1, Nothing DEF KeyGone, Tracked
  <2>2. QED
    BY <1>1, <2>1, IdleGone DEF GoneKeeps, Gone
<1>3. ForgetsInTime /\ FreshOccurrence
  BY <1>1 DEF ForgetsInTime, FreshOccurrence, Renewed, Tracked
<1>4. QED
  BY <1>2, <1>3

LEMMA RecurrenceNext == Sane /\ RecurrenceInv /\ [Next]_vars => RecurrenceInv'
<1> SUFFICES ASSUME Sane, RecurrenceInv, [Next]_vars, restarts' = 0, Scanning'
             PROVE  (GoneKeeps /\ ForgetsInTime /\ FreshOccurrence)'
  BY DEF RecurrenceInv
<1>1. ~Restart
  BY DEF Restart, Sane, SetsOK
<1>2. restarts = 0 /\ Scanning
  BY <1>1, RestartsKept, ScanningBefore
<1>3. QED
  BY <1>1, <1>2, GoneNext, ForgetsNext, RenewedNext DEF RecurrenceInv

LEMMA RecurrenceHolds == Sane /\ RecurrenceInv => RecurrenceRealerts
<1> SUFFICES ASSUME Sane, RecurrenceInv, NEW list \in Served, NEW k \in Key,
                    restarts = 0, Scanning, AckApplies(list, k), k \notin acked
             PROVE  FALSE
  BY DEF RecurrenceRealerts
<1>1. acks[k] # 0 /\ acks[k] = list[k]
  BY DEF AckApplies
<1>2. KeyRenewed(k) /\ \A t \in Thread : ThreadRenewed(req[t], k)
  BY <1>1 DEF RecurrenceInv, FreshOccurrence, Renewed
<1>3. list # cache.list
  BY <1>1, <1>2 DEF KeyRenewed
<1>4. PICK c \in Client : req[c].pc \in {"listed", "prune"} /\ list = req[c].list
  BY <1>3 DEF Served
<1>5. QED
  BY <1>1, <1>2, <1>4, Numbers DEF ThreadRenewed

\* issues.rs: "a cleared-then-recurring condition gets a fresh first_seen and
\* re-alerts", for any number of requests that race the scanner and each other.
THEOREM RecurrenceIsFresh == Spec => []RecurrenceRealerts
<1>1. Init => Sane /\ RecurrenceInv
  BY IssuesInitial, RecurrenceInitial
<1>2. Sane /\ RecurrenceInv /\ [Next]_vars => (Sane /\ RecurrenceInv)'
  BY SaneNext, RecurrenceNext
<1>3. QED
  BY <1>1, <1>2, RecurrenceHolds, PTL DEF Spec

-----------------------------------------------------------------------------
(* The cached list.  A derivation that began after the last change of an   *)
(* issue's visibility agrees with it, and a list that lives so long was    *)
(* derived after the change.                                               *)

ThreadAgrees(q, b, k) ==
    b > since[k] =>
        /\ q.pc = "collect" /\ k \notin q.left => (k \in q.derived <=> Shown(k))
        /\ q.pc = "reconcile" => (k \in q.derived <=> Visible(k))
        /\ q.pc = "store" => (q.list[k] # 0 <=> Visible(k))

CacheAgrees(k) ==
    cache.until > since[k] + Within + Ttl => (cache.list[k] # 0 <=> Visible(k))

Agrees(k) == CacheAgrees(k) /\ \A t \in Thread : ThreadAgrees(req[t], began[t], k)
CacheInv == \A k \in Key : Agrees(k)

Same(k) ==
    /\ since'[k] = since[k] /\ (Shown(k)' <=> Shown(k))
    /\ k \in suppressed' <=> k \in suppressed

LEMMA SameVisibility ==
    ASSUME NEW k \in Key
    PROVE  /\ UNCHANGED <<faults, cold, suppressed, since>> => Same(k)
           /\ Same(k) => (Visible(k)' <=> Visible(k))
           /\ Sane /\ SinceUpdate => Same(k) \/ since'[k] = now
<1>1. UNCHANGED <<faults, cold, suppressed, since>> => Same(k)
  BY DEF Same, Shown
<1>2. Same(k) => (Visible(k)' <=> Visible(k))
  BY DEF Same, Visible
<1>3. ASSUME Sane, SinceUpdate PROVE Same(k) \/ since'[k] = now
  BY <1>3, SinceStamps DEF Same
<1>4. QED
  BY <1>1, <1>2, <1>3

\* What changes now, or is misread now, concerns nothing that began earlier.
LEMMA AgreesNow ==
    ASSUME Sane, NEW k \in Key, since'[k] = now, cache' \in {cache, NoCache},
           \A u \in Thread : req'[u].pc \in {"collect", "reconcile", "store"} =>
              began'[u] \in Nat /\ began'[u] <= now
    PROVE  Agrees(k)'
<1>0. /\ now \in Nat /\ cache.until \in Nat /\ cache.until <= now + Ttl /\ NoCache.until = 0
      /\ Ttl \in Nat /\ Within \in Nat
  BY Stamps, Nothing
<1>1. CacheAgrees(k)'
  <2>1. ~(cache'.until > since'[k] + Within + Ttl)
    BY <1>0
  <2>2. QED
    BY <2>1 DEF CacheAgrees
<1>2. ASSUME NEW u \in Thread PROVE ThreadAgrees(req[u], began[u], k)'
  <2>1. req'[u].pc \in {"collect", "reconcile", "store"} => ~(began'[u] > since'[k])
    BY <1>0
  <2>2. QED
    BY <2>1 DEF ThreadAgrees
<1>3. QED
  BY <1>1, <1>2 DEF Agrees

\* Visibility changes now: what began earlier is not concerned.
LEMMA AgreesUpdate ==
    ASSUME Sane, NEW k \in Key, Agrees(k), SinceUpdate, cache' = cache,
           NEW t \in Thread, UNCHANGED <<req, began>> \/ Moves(t, Invalidating, began[t])
    PROVE  Agrees(k)'
<1>1. \A u \in Thread : \/ req'[u] = req[u] /\ began'[u] = began[u]
                        \/ req'[u].pc = "invalidate"
  <2>1. CASE UNCHANGED <<req, began>>
    BY <2>1
  <2>2. CASE Moves(t, Invalidating, began[t])
    BY <2>2, MovesAre DEF Sane, Invalidating
  <2>3. QED
    BY <2>1, <2>2
<1>2. CASE since'[k] = now
  <2>1. \A u \in Thread : req'[u].pc \in {"collect", "reconcile", "store"} =>
           began'[u] \in Nat /\ began'[u] <= now
    BY <1>1, ThreadStamps
  <2>2. QED
    BY <1>2, <2>1, AgreesNow
<1>3. CASE Same(k)
  <2>1. CacheAgrees(k)'
    BY <1>3, SameVisibility DEF Agrees, CacheAgrees, Same
  <2>2. ASSUME NEW u \in Thread PROVE ThreadAgrees(req[u], began[u], k)'
    <3>1. ThreadAgrees(req[u], began[u], k)
      BY DEF Agrees
    <3>2. CASE req'[u] = req[u] /\ began'[u] = began[u]
      BY <1>3, <3>1, <3>2, SameVisibility DEF ThreadAgrees, Same
    <3>3. CASE req'[u].pc = "invalidate"
      BY <3>3 DEF ThreadAgrees
    <3>4. QED
      BY <1>1, <3>2, <3>3
  <2>3. QED
    BY <2>1, <2>2 DEF Agrees
<1>4. QED
  BY <1>2, <1>3, SameVisibility

LEMMA AgreesThreads ==
    ASSUME Sane, NEW k \in Key, Agrees(k), Same(k),
           NEW t \in Thread, NEW q, NEW b, Moves(t, q, b), ThreadAgrees(q, b, k)
    PROVE  \A u \in Thread : ThreadAgrees(req[u], began[u], k)'
<1>1. \A u \in Thread : ThreadAgrees(req'[u], began'[u], k)
  BY MovesAre DEF Sane, Agrees
<1>2. QED
  BY <1>1, SameVisibility DEF ThreadAgrees, Same

LEMMA AgreesCache ==
    ASSUME Sane, NEW k \in Key, Agrees(k), Same(k), cache' \in {cache, NoCache}
    PROVE  CacheAgrees(k)'
<1>1. CASE cache' = cache
  BY <1>1, SameVisibility DEF Agrees, CacheAgrees, Same
<1>2. CASE cache' = NoCache
  <2>1. ~(cache'.until > since'[k] + Within + Ttl)
    BY <1>2, Stamps, Nothing DEF Same
  <2>2. QED
    BY <2>1 DEF CacheAgrees
<1>3. QED
  BY <1>1, <1>2

LEMMA AgreesKept ==
    ASSUME Sane, NEW k \in Key, Agrees(k), Same(k), cache' \in {cache, NoCache},
           UNCHANGED <<req, began>>
    PROVE  Agrees(k)'
BY AgreesCache, SameVisibility DEF Agrees, ThreadAgrees, Same

LEMMA AgreesIdly ==
    ASSUME Sane, NEW k \in Key, Agrees(k), Same(k), cache' \in {cache, NoCache},
           NEW t \in Thread, NEW q, NEW b, Moves(t, q, b), q.pc \notin {"reconcile", "store"},
           q.pc = "collect" => q.left = Key
    PROVE  Agrees(k)'
<1>1. ThreadAgrees(q, b, k)
  BY DEF ThreadAgrees
<1>2. QED
  BY <1>1, AgreesCache, AgreesThreads DEF Agrees

LEMMA AgreesEnvironment ==
    ASSUME Sane, NEW k \in Key, Agrees(k),
           \/ Tick \/ Warms \/ Restart \/ InvalidateFleetChange \/ UNCHANGED vars
           \/ \E j \in Key : Raise(j) \/ Clear(j)
    PROVE  Agrees(k)'
<1>1. CASE Tick \/ InvalidateFleetChange \/ UNCHANGED vars
  <2>1. UNCHANGED <<faults, cold, suppressed, since, req, began>> /\ cache' \in {cache, NoCache}
    BY <1>1 DEF Tick, InvalidateFleetChange, vars, db, local, history
  <2>2. QED
    BY <2>1, SameVisibility, AgreesKept
<1>2. CASE Warms \/ \E j \in Key : Raise(j) \/ Clear(j)
  <2>1. SinceUpdate /\ UNCHANGED <<cache, req, began>> /\ Scanner \in Thread
    BY <1>2, Numbers DEF Warms, WarmUp, Raise, Clear, local
  <2>2. QED
    BY <2>1, AgreesUpdate
<1>3. CASE Restart
  <2>1. /\ SinceUpdate /\ cache' = NoCache /\ \A t \in Thread : req'[t] = Idle
    BY <1>3 DEF Restart
  <2>2. since' \in [Key -> Time]
    BY <2>1, SinceStamps DEF List
  <2>3. CacheAgrees(k)'
    <3>1. since'[k] \in Nat /\ Within \in Nat /\ Ttl \in Nat /\ cache'.until = 0
      BY <2>1, <2>2, Nothing, Numbers
    <3>2. ~(cache'.until > since'[k] + Within + Ttl)
      BY <3>1
    <3>3. QED
      BY <3>2 DEF CacheAgrees
  <2>4. QED
    BY <2>1, <2>3, Nothing DEF Agrees, ThreadAgrees
<1>4. QED
  BY <1>1, <1>2, <1>3

LEMMA AgreesDerive ==
    ASSUME Sane, NEW k \in Key, Agrees(k), NEW t \in Thread,
           Reads(t) \/ Reconcile(t) \/ Store(t)
    PROVE  Agrees(k)'
<1>1. ThreadAgrees(req[t], began[t], k)
  BY DEF Agrees
<1>2. ASSUME Reconcile(t) \/ Store(t) PROVE Same(k)
  <2>1. UNCHANGED <<faults, cold, suppressed, since>>
    BY <1>2 DEF Reconcile, Store, db, history
  <2>2. QED
    BY <2>1, SameVisibility
<1>3. CASE Reads(t)
  <2>1. ReadOnly /\ req[t].pc = "collect"
    BY <1>3, ReadIs
  <2>2. PICK q \in Request :
           /\ Moves(t, q, began[t]) /\ ReadsKey(t, q, k)
           /\ q.pc \in {"collect", "reconcile"} \/ q = Dead
    BY <1>3, ReadIs
  <2>3. CASE since'[k] = now
    <3>1. \A u \in Thread : req'[u].pc \in {"collect", "reconcile", "store"} =>
             began'[u] \in Nat /\ began'[u] <= now
      BY <2>1, <2>2, MovesAre, ThreadStamps DEF Sane
    <3>2. QED
      BY <2>1, <2>3, <3>1, AgreesNow DEF ReadOnly
  <2>4. CASE since'[k] # now
    <3>1. Same(k)
      BY <2>1, <2>2, <2>4 DEF ReadOnly, ReadsKey, Same, Shown, db
    <3>2. ThreadAgrees(q, began[t], k)
      <4> SUFFICES ASSUME began[t] > since[k] PROVE ThreadAgrees(q, began[t], k)
        BY DEF ThreadAgrees
      <4>1. k \notin req[t].left => (k \in req[t].derived <=> Shown(k))
        BY <1>1, <2>1 DEF ThreadAgrees
      <4>2. q.pc = "collect" /\ k \notin q.left => (k \in q.derived <=> Shown(k))
        BY <2>2, <2>4, <4>1 DEF ReadsKey
      <4>3. q.pc = "reconcile" => (k \in q.derived <=> Visible(k))
        BY <2>2, <2>4, <4>1 DEF ReadsKey, Visible
      <4>4. QED
        BY <2>2, <4>2, <4>3, Nothing DEF ThreadAgrees
    <3>3. QED
      BY <2>1, <2>2, <3>1, <3>2, AgreesCache, AgreesThreads DEF Agrees, ReadOnly
  <2>5. QED
    BY <2>3, <2>4
<1>4. CASE Reconcile(t)
  <2>0. Same(k)
    BY <1>2, <1>4
  <2>1. req[t].pc = "reconcile" /\ req[t].derived \in SUBSET Key /\ cache' = cache
    BY <1>4, ReconcileIs
  <2>2. PICK q \in Request :
           /\ q.pc = "store" /\ q.list = TrackedList(req[t].derived) /\ Moves(t, q, began[t])
    BY <1>4, ReconcileIs
  <2>3. q.list[k] # 0 <=> k \in req[t].derived
    BY <2>1, <2>2, ReconciledIs
  <2>4. ThreadAgrees(q, began[t], k)
    BY <1>1, <2>1, <2>2, <2>3 DEF ThreadAgrees
  <2>5. QED
    BY <2>0, <2>1, <2>2, <2>4, AgreesCache, AgreesThreads DEF Agrees
<1>5. CASE Store(t)
  <2>0. Same(k)
    BY <1>2, <1>5
  <2>1. req[t].pc = "store" /\ cache' = [until |-> now + Ttl, list |-> req[t].list]
    BY <1>5, StoreIs
  <2>2. PICK q \in Request : Moves(t, q, began[t]) /\ q.pc \in {"idle", "listed"}
    BY <1>5, StoreIs, Nothing
  <2>3. ThreadAgrees(q, began[t], k)
    BY <2>2 DEF ThreadAgrees
  <2>4. CacheAgrees(k)'
    <3>1. ASSUME cache'.until > since[k] + Within + Ttl
          PROVE  req[t].list[k] # 0 <=> Visible(k)
      <4>1. /\ now \in Nat /\ Ttl \in Nat /\ Within \in Nat /\ since[k] \in Nat
            /\ began[t] \in Nat /\ now <= began[t] + Within
        BY <2>1, Stamps, ThreadStamps
      <4>2. now + Ttl > since[k] + Within + Ttl
        BY <2>1, <3>1
      <4>3. began[t] > since[k]
        BY <4>1, <4>2
      <4>4. QED
        BY <1>1, <2>1, <4>3 DEF ThreadAgrees
    <3>2. QED
      BY <2>0, <2>1, <3>1, SameVisibility DEF CacheAgrees, Same
  <2>5. QED
    BY <2>0, <2>2, <2>3, <2>4, AgreesThreads DEF Agrees
<1>6. QED
  BY <1>3, <1>4, <1>5

LEMMA AgreesRequest ==
    ASSUME Sane, NEW k \in Key, Agrees(k), NEW t \in Thread,
           \/ (BeginScan /\ t = Scanner)
           \/ BeginListMiss(t) \/ BeginListHit(t)
           \/ \E j \in Key : \/ BeginAck(t, j)
                             \/ \E op \in {"suppress", "unsuppress"} : LoadSuppressed(t, op, j)
           \/ /\ t \in Client
              /\ \/ ReadKnown(t) \/ AnswerDevice(t) \/ Fail(t)
                 \/ ReconcileAck(t)
                 \/ Prune(t) \/ Upsert(t) \/ \E j \in Key : Unack(t, j)
                 \/ PersistSuppressed(t) \/ Invalidate(t)
    PROVE  Agrees(k)'
<1>1. CASE \/ (BeginScan /\ t = Scanner)
           \/ BeginListMiss(t) \/ BeginListHit(t)
           \/ \E j \in Key : \/ BeginAck(t, j)
                             \/ \E op \in {"suppress", "unsuppress"} : LoadSuppressed(t, op, j)
  <2>1. PICK q \in Request :
           /\ Moves(t, q, now) /\ Quietly /\ q.pc \in {"collect", "listed", "persist"}
           /\ q.pc = "collect" => q.left = Key
    BY <1>1, BeginIs
  <2>2. UNCHANGED <<faults, cold, suppressed, since, cache>>
    BY <2>1 DEF Quietly, db, history
  <2>3. QED
    BY <2>1, <2>2, SameVisibility, AgreesIdly
<1>2. CASE t \in Client /\ (ReadKnown(t) \/ AnswerDevice(t) \/ Fail(t))
  <2>1. PICK q \in Request, b \in {0, began[t]} :
           Moves(t, q, b) /\ Quietly /\ q.pc \in {"idle", "prune"}
    BY <1>2, AnswerIs, Nothing
  <2>2. UNCHANGED <<faults, cold, suppressed, since, cache>>
    BY <2>1 DEF Quietly, db, history
  <2>3. QED
    BY <2>1, <2>2, SameVisibility, AgreesIdly
<1>3. CASE t \in Client /\ ReconcileAck(t)
  <2>1. PICK q \in Request, b \in {0, began[t]} : Moves(t, q, b) /\ q.pc \in {"idle", "upsert"}
    BY <1>3, ReconcileAckIs, Nothing
  <2>2. UNCHANGED <<faults, cold, suppressed, since, cache>>
    BY <1>3 DEF ReconcileAck, db, history
  <2>3. QED
    BY <2>1, <2>2, SameVisibility, AgreesIdly
<1>4. CASE t \in Client /\ (Prune(t) \/ Upsert(t) \/ Invalidate(t) \/ \E j \in Key : Unack(t, j))
  <2>1. UNCHANGED <<faults, cold, suppressed, since>> /\ cache' \in {cache, NoCache}
    BY <1>4 DEF Prune, Upsert, Invalidate, Unack, db, history
  <2>2. UNCHANGED <<req, began>> \/ Finish(t)
    BY <1>4 DEF Prune, Upsert, Invalidate, Unack, local
  <2>3. UNCHANGED <<req, began>> \/ \E b : Moves(t, Idle, b)
    BY <2>2, StepMoves DEF Sane
  <2>4. Idle.pc \notin {"collect", "reconcile", "store"}
    BY Nothing
  <2>5. QED
    BY <2>1, <2>3, <2>4, SameVisibility, AgreesIdly, AgreesKept
<1>5. CASE t \in Client /\ PersistSuppressed(t)
  <2>1. SinceUpdate /\ cache' = cache /\ Goto(t, Invalidating)
    BY <1>5 DEF PersistSuppressed, Invalidating
  <2>2. Moves(t, Invalidating, began[t])
    BY <2>1, StepMoves DEF Sane
  <2>3. QED
    BY <2>1, <2>2, AgreesUpdate
<1>6. QED
  BY <1>1, <1>2, <1>3, <1>4, <1>5

LEMMA CacheNext == Sane /\ CacheInv /\ [Next]_vars => CacheInv'
<1> SUFFICES ASSUME Sane, CacheInv, [Next]_vars, NEW k \in Key
             PROVE  Agrees(k)'
  BY DEF CacheInv
<1>1. Agrees(k)
  BY DEF CacheInv
<1>2. CASE \/ Tick \/ Warms \/ Restart \/ InvalidateFleetChange \/ UNCHANGED vars
           \/ \E j \in Key : Raise(j) \/ Clear(j)
  BY <1>1, <1>2, AgreesEnvironment
<1>3. ASSUME NEW t \in Thread, (BeginScan /\ t = Scanner) \/ Reads(t) \/ Reconcile(t) \/ Store(t)
      PROVE  Agrees(k)'
  BY <1>1, <1>3, AgreesDerive, AgreesRequest
<1>4. ASSUME NEW c \in Client,
             \/ BeginListMiss(c) \/ BeginListHit(c)
             \/ \E j \in Key : \/ BeginAck(c, j)
                               \/ \E op \in {"suppress", "unsuppress"} : LoadSuppressed(c, op, j)
             \/ ReadKnown(c) \/ AnswerDevice(c) \/ Fail(c)
             \/ ReconcileAck(c)
             \/ Prune(c) \/ Upsert(c) \/ \E j \in Key : Unack(c, j)
             \/ PersistSuppressed(c) \/ Invalidate(c)
      PROVE  Agrees(k)'
  <2>1. c \in Thread
    BY Numbers
  <2>2. QED
    BY <1>1, <1>4, <2>1, AgreesRequest
<1>5. QED
  BY <1>2, <1>3, <1>4, NextIs

LEMMA CacheInitial == Init => CacheInv
<1> SUFFICES ASSUME Init, NEW k \in Key PROVE Agrees(k)
  BY DEF CacheInv
<1>1. since[k] = 1 /\ cache = NoCache /\ \A t \in Thread : req[t] = Idle
  BY DEF Init
<1>2. ~(cache.until > since[k] + Within + Ttl)
  BY <1>1, Nothing, Numbers
<1>3. QED
  BY <1>1, <1>2, Nothing DEF Agrees, CacheAgrees, ThreadAgrees

LEMMA CacheHolds == Sane /\ CacheInv => CacheCatchesUp
<1> SUFFICES ASSUME Sane, CacheInv, NEW k \in Key, Fresh, now - since[k] > Ttl + Within
             PROVE  cache.list[k] # 0 <=> Visible(k)
  BY DEF CacheCatchesUp
<1>1. cache.until > since[k] + Within + Ttl
  BY Stamps DEF Fresh
<1>2. QED
  BY <1>1 DEF CacheInv, Agrees, CacheAgrees

\* A served cache agrees with the fleet about what changed, or what a failing query
\* made a derivation misread, longer ago than a list's lifetime and one derivation,
\* although keys are read one by one and lists may be stored out of order.
THEOREM CacheIsCurrent == Spec => []CacheCatchesUp
<1>1. Init => Sane /\ CacheInv
  BY IssuesInitial, CacheInitial
<1>2. Sane /\ CacheInv /\ [Next]_vars => (Sane /\ CacheInv)'
  BY SaneNext, CacheNext
<1>3. QED
  BY <1>1, <1>2, CacheHolds, PTL DEF Spec

-----------------------------------------------------------------------------
(* Acknowledgements, with any number of requests beside the scanner.  What *)
(* a request is about to write or to prune is right about every key that   *)
(* is held, and the scanner has seen each visible key a round ago at most. *)

\* An acknowledged occurrence that is held was seen recently enough to be kept.
HeldKey(k) ==
    /\ Tracked(k) /\ acks[k] = seen[k].first
    /\ k \in faults /\ k \notin suppressed
    /\ k \notin cold => since[k] <= seen[k].last + WarmWithin
    /\ k \in cold => started <= seen[k].last /\ now <= started + WarmWithin

HeldRequest(q, b) ==
    /\ q.pc = "prune" => held \subseteq q.known
    /\ q.pc = "upsert" =>
          /\ q.key \in q.derived => seen[q.key].first = q.first /\ b <= seen[q.key].last
          /\ q.key \in held => seen[q.key].first = q.first

\* The scanner, if it has been reading k long enough, has seen it: in this round,
\* or in the one before if it has not reconciled yet.
ScanSees(k) ==
    /\ req[Scanner].pc \notin {"collect", "reconcile"} /\ began[Scanner] > since[k] =>
          began[Scanner] <= seen[k].last
    /\ req[Scanner].pc \in {"collect", "reconcile"} /\ began[Scanner] > since[k] + Within =>
          began[Scanner] <= seen[k].last + Within

SeesInv ==
    Scanning /\ 3 * Within <= Grace => \A k \in Key : Visible(k) => ScanSees(k)

HeldInv ==
    /\ \A k \in held : HeldKey(k)
    /\ \A c \in Client : HeldRequest(req[c], began[c])

\* Nothing changes for a key that is the same and that the scanner sees as before.
LEMMA SeesKept ==
    ASSUME NEW k \in Key, Visible(k) => ScanSees(k), Visible(k)', Same(k), seen'[k] = seen[k],
           UNCHANGED <<req[Scanner], began[Scanner]>>
    PROVE  ScanSees(k)'
BY SameVisibility DEF ScanSees, Same

\* What changes now is younger than the scanner's round.
LEMMA SeesNow ==
    ASSUME Sane, NEW k \in Key, since'[k] = now, began'[Scanner] \in Nat, began'[Scanner] <= now
    PROVE  ScanSees(k)'
BY Stamps DEF ScanSees

LEMMA SeesReconciled ==
    ASSUME Sane, NEW k \in Key, Agrees(k), Scanning, 3 * Within <= Grace, Visible(k), ScanSees(k),
           NEW t \in Thread, req[t].pc = "reconcile", seen' = Reconciled(req[t].derived),
           Same(k), began'[Scanner] = began[Scanner],
           t # Scanner => req'[Scanner] = req[Scanner],
           t = Scanner => req'[Scanner].pc = "store"
    PROVE  ScanSees(k)'
<1>0. /\ now \in Nat /\ Grace \in Nat /\ Within \in Nat /\ since[k] \in Nat /\ seen[k].last \in Nat
      /\ began[Scanner] \in Nat /\ began[Scanner] <= now /\ now <= began[Scanner] + Within
      /\ req[t].derived \in SUBSET Key /\ since'[k] = since[k]
  BY Stamps, ThreadStamps, Numbers DEF Same
<1>1. CASE k \in req[t].derived
  <2>1. seen'[k].last = now
    BY <1>0, <1>1, ReconciledIs
  <2>2. began'[Scanner] <= seen'[k].last /\ began'[Scanner] <= seen'[k].last + Within
    BY <1>0, <2>1
  <2>3. QED
    BY <2>2 DEF ScanSees
<1>2. CASE k \notin req[t].derived /\ t = Scanner
  <2>1. ~(began[Scanner] > since[k])
    BY <1>2 DEF Agrees, ThreadAgrees
  <2>2. QED
    BY <1>0, <1>2, <2>1 DEF ScanSees
<1>3. CASE k \notin req[t].derived /\ t # Scanner
  <2>1. seen[k].last + Grace >= now => seen'[k] = seen[k]
    BY <1>0, <1>3, ReconciledIs
  <2>2. CASE began[Scanner] <= seen[k].last + Within
    <3>1. seen'[k] = seen[k]
      BY <1>0, <2>1, <2>2
    <3>2. QED
      BY <1>0, <1>3, <3>1 DEF ScanSees
  <2>3. CASE ~(began[Scanner] <= seen[k].last + Within)
    <3>1. ~(began[Scanner] <= seen[k].last)
      BY <1>0, <2>3
    <3>2. /\ req[Scanner].pc \notin {"collect", "reconcile"} => ~(began[Scanner] > since[k])
          /\ req[Scanner].pc \in {"collect", "reconcile"} => ~(began[Scanner] > since[k] + Within)
      BY <2>3, <3>1 DEF ScanSees
    <3>3. QED
      BY <1>0, <1>3, <3>2 DEF ScanSees
  <2>4. QED
    BY <2>2, <2>3
<1>4. QED
  BY <1>1, <1>2, <1>3

\* The scanner itself goes on.
LEMMA SeesScan ==
    ASSUME Sane, NEW k \in Key, Scanning, ScanSees(k),
           since'[k] = since[k], seen' = seen, NEW q, NEW b, Moves(Scanner, q, b),
           \/ req[Scanner].pc = "idle" /\ b = now /\ q.pc = "collect"
           \/ /\ b = began[Scanner]
              /\ \/ req[Scanner].pc = "collect" /\ q.pc \in {"collect", "reconcile"}
                 \/ req[Scanner].pc = "store" /\ q.pc = "idle"
    PROVE  ScanSees(k)'
<1>0. /\ now \in Nat /\ Within \in Nat /\ since[k] \in Nat /\ seen[k].last \in Nat
      /\ began[Scanner] \in Nat /\ began[Scanner] <= now /\ now <= began[Scanner] + Within
  BY Stamps, ThreadStamps, Numbers
<1>1. req'[Scanner] = q /\ began'[Scanner] = b
  BY MovesAre, Numbers DEF Sane
<1>2. CASE req[Scanner].pc = "idle" /\ b = now /\ q.pc = "collect"
  <2>1. ASSUME now > since[k] + Within PROVE now <= seen[k].last + Within
    <3>1. began[Scanner] > since[k]
      BY <1>0, <2>1
    <3>2. began[Scanner] <= seen[k].last
      BY <1>2, <3>1 DEF ScanSees
    <3>3. QED
      BY <1>0, <3>2
  <2>2. QED
    BY <1>1, <1>2, <2>1 DEF ScanSees
<1>3. CASE b = began[Scanner] /\ req[Scanner].pc = "collect" /\ q.pc \in {"collect", "reconcile"}
  BY <1>1, <1>3 DEF ScanSees
<1>4. CASE b = began[Scanner] /\ req[Scanner].pc = "store" /\ q.pc = "idle"
  BY <1>1, <1>4 DEF ScanSees
<1>5. QED
  BY <1>2, <1>3, <1>4

\* A step that leaves the tracker and the scanner alone.
LEMMA SeesAside ==
    ASSUME Sane, NEW k \in Key, Visible(k) => ScanSees(k), Scanning, Visible(k)',
           Same(k) \/ since'[k] = now, UNCHANGED <<seen, req[Scanner], began[Scanner]>>
    PROVE  ScanSees(k)'
<1>1. CASE Same(k)
  BY <1>1, SeesKept
<1>2. CASE since'[k] = now
  BY <1>2, SeesNow, ThreadStamps, Numbers
<1>3. QED
  BY <1>1, <1>2

LEMMA SeesNext == Sane /\ CacheInv /\ SeesInv /\ [Next]_vars => SeesInv'
<1> SUFFICES ASSUME Sane, CacheInv, SeesInv, [Next]_vars, Scanning', 3 * Within <= Grace,
                    NEW k \in Key, Visible(k)'
             PROVE  ScanSees(k)'
  BY DEF SeesInv
<1>0. ~Restart
  BY DEF Restart, Visible, Shown
<1>1. Scanning /\ (Visible(k) => ScanSees(k)) /\ Agrees(k) /\ Scanner \in Thread
  BY <1>0, ScanningBefore, Numbers DEF SeesInv, CacheInv
<1>2. CASE Tick \/ InvalidateFleetChange \/ UNCHANGED vars
  <2>1. UNCHANGED <<faults, cold, suppressed, since, seen, req, began>>
    BY <1>2 DEF Tick, InvalidateFleetChange, vars, db, local, history
  <2>2. QED
    BY <1>1, <2>1, SameVisibility, SeesAside
<1>3. CASE Warms \/ \E j \in Key : Raise(j) \/ Clear(j)
  <2>1. SinceUpdate /\ UNCHANGED <<seen, req, began>>
    BY <1>3 DEF Warms, WarmUp, Raise, Clear, local
  <2>2. QED
    BY <1>1, <2>1, SameVisibility, SeesAside
<1>4. CASE BeginScan
  <2>1. Same(k) /\ seen' = seen
    BY <1>4, SameVisibility DEF BeginScan, db, history
  <2>2. PICK q : Moves(Scanner, q, now) /\ req[Scanner].pc = "idle" /\ q.pc = "collect"
    BY <1>1, <1>4, StepMoves DEF BeginScan, Sane
  <2>3. ScanSees(k) /\ since'[k] = since[k]
    BY <1>1, <2>1, SameVisibility DEF Same
  <2>4. QED
    BY <1>1, <2>1, <2>2, <2>3, SeesScan
<1>5. ASSUME NEW t \in Thread, Reads(t) PROVE ScanSees(k)'
  <2>1. ReadOnly /\ req[t].pc = "collect"
    BY <1>5, ReadIs
  <2>2. PICK q \in Request :
           /\ Moves(t, q, began[t]) /\ ReadsKey(t, q, k)
           /\ q.pc \in {"collect", "reconcile"} \/ (q = Dead /\ t = Scanner)
    BY <1>5, ReadIs
  <2>3. seen' = seen /\ (Visible(k)' <=> Visible(k)) /\ since'[k] \in {since[k], now}
    BY <2>1, <2>2 DEF ReadOnly, ReadsKey, Visible, Shown, db
  <2>4. CASE since'[k] = now
    <3>1. began'[Scanner] = began[Scanner]
      BY <1>1, <2>2, MovesAre DEF Sane
    <3>2. QED
      BY <1>1, <2>4, <3>1, SeesNow, ThreadStamps
  <2>5. CASE since'[k] = since[k] /\ t = Scanner
    <3>1. q.pc \in {"collect", "reconcile"}
      BY <1>1, <2>2, <2>5, MovesAre, Nothing DEF Sane, Scanning
    <3>2. QED
      BY <1>1, <2>1, <2>2, <2>3, <2>5, <3>1, SeesScan
  <2>6. CASE since'[k] = since[k] /\ t # Scanner
    <3>1. UNCHANGED <<req[Scanner], began[Scanner]>>
      BY <2>2, <2>6, ScannerElsewhere
    <3>2. QED
      BY <1>1, <2>3, <2>6, <3>1 DEF ScanSees
  <2>7. QED
    BY <2>3, <2>4, <2>5, <2>6
<1>6. ASSUME NEW t \in Thread, Reconcile(t) PROVE ScanSees(k)'
  <2>1. /\ req[t].pc = "reconcile" /\ seen' = Reconciled(req[t].derived) /\ Same(k)
    BY <1>6, ReconcileIs, SameVisibility DEF db, history
  <2>2. PICK q \in Request : q.pc = "store" /\ Moves(t, q, began[t])
    BY <1>6, ReconcileIs
  <2>3. /\ began'[Scanner] = began[Scanner] /\ (t # Scanner => req'[Scanner] = req[Scanner])
        /\ t = Scanner => req'[Scanner].pc = "store"
    BY <1>1, <2>2, MovesAre DEF Sane
  <2>4. Visible(k) /\ ScanSees(k)
    BY <1>1, <2>1, SameVisibility
  <2>5. QED
    BY <1>1, <2>1, <2>3, <2>4, SeesReconciled
<1>7. ASSUME NEW t \in Thread, Store(t) PROVE ScanSees(k)'
  <2>1. req[t].pc = "store" /\ seen' = seen /\ Same(k)
    BY <1>7, StoreIs, SameVisibility DEF db, history
  <2>2. PICK q \in Request : Moves(t, q, began[t]) /\ (t = Scanner => q = Idle \/ q.pc = "listed")
    BY <1>7, StoreIs
  <2>3. CASE t # Scanner
    BY <1>1, <2>1, <2>2, <2>3, ScannerElsewhere, SeesKept
  <2>4. CASE t = Scanner
    <3>1. Moves(Scanner, Idle, began[Scanner])
      BY <1>1, <1>7, <2>4, StepMoves DEF Store, Sane
    <3>2. ScanSees(k) /\ since'[k] = since[k]
      BY <1>1, <2>1, SameVisibility DEF Same
    <3>3. QED
      BY <1>1, <2>1, <2>4, <3>1, <3>2, SeesScan, Nothing
  <2>5. QED
    BY <2>3, <2>4
<1>8. ASSUME NEW c \in Client, ReconcileAck(c) PROVE ScanSees(k)'
  <2>1. /\ req[c].pc = "reconcile" /\ seen' = Reconciled(req[c].derived) /\ Same(k)
    BY <1>8, ReconcileAckIs, SameVisibility DEF db, history
  <2>2. PICK q, b : Moves(c, q, b)
    BY <1>8, ReconcileAckIs
  <2>3. UNCHANGED <<req[Scanner], began[Scanner]>> /\ c \in Thread /\ c # Scanner
    BY <2>2, ScannerElsewhere, Numbers
  <2>4. Visible(k) /\ ScanSees(k)
    BY <1>1, <2>1, SameVisibility
  <2>5. QED
    BY <1>1, <2>1, <2>3, <2>4, SeesReconciled
<1>9. ASSUME NEW c \in Client,
             \/ BeginListMiss(c) \/ BeginListHit(c)
             \/ \E j \in Key : \/ BeginAck(c, j)
                               \/ \E op \in {"suppress", "unsuppress"} : LoadSuppressed(c, op, j)
             \/ ReadKnown(c) \/ AnswerDevice(c) \/ Fail(c)
             \/ Prune(c) \/ Upsert(c) \/ \E j \in Key : Unack(c, j)
             \/ PersistSuppressed(c) \/ Invalidate(c)
      PROVE  ScanSees(k)'
  <2>1. seen' = seen
    BY <1>9 DEF BeginListMiss, BeginListHit, BeginAck, LoadSuppressed, ReadKnown, AnswerDevice,
                Fail, Prune, Upsert, Unack, PersistSuppressed, Invalidate
  <2>2. UNCHANGED <<faults, cold, suppressed, since>> \/ SinceUpdate
    BY <1>9 DEF BeginListMiss, BeginListHit, BeginAck, LoadSuppressed, ReadKnown, AnswerDevice,
                Fail, Prune, Upsert, Unack, PersistSuppressed, Invalidate, db, history
  <2>3. \/ UNCHANGED local \/ Finish(c) \/ \E q : Goto(c, q) \/ Start(c, q)
    BY <1>9 DEF BeginListMiss, BeginListHit, BeginAck, LoadSuppressed, ReadKnown, AnswerDevice,
                Ask, Fail, Prune, Upsert, Unack, PersistSuppressed, Invalidate
  <2>4. UNCHANGED local \/ \E q, b : Moves(c, q, b)
    BY <2>3, StepMoves, Numbers DEF Sane
  <2>5. UNCHANGED <<req[Scanner], began[Scanner]>>
    BY <2>4, Numbers, ScannerElsewhere DEF local
  <2>6. QED
    BY <1>1, <2>1, <2>2, <2>5, SameVisibility, SeesAside
<1>10. QED
  BY <1>0, <1>2, <1>3, <1>4, <1>5, <1>6, <1>7, <1>8, <1>9, NextIs

\* What a reconcile keeps, and what it keeps of it.
LEMMA Retained ==
    ASSUME Sane, NEW derived \in SUBSET Key, NEW k \in Key, Tracked(k),
           k \in derived \/ seen[k].last + Grace >= now
    PROVE  /\ Reconciled(derived)[k].first = seen[k].first
           /\ Reconciled(derived)[k].last \in Nat /\ Reconciled(derived)[k].last >= seen[k].last
           /\ Reconciled(derived)[k] # NoOccurrence
<1>1. /\ now \in Nat /\ Grace \in Nat /\ seen[k].last \in Nat /\ seen[k].last <= now
      /\ seen[k].first # 0
  BY Stamps DEF Tracked
<1>2. \/ Reconciled(derived)[k].first = seen[k].first /\ Reconciled(derived)[k].last = now
      \/ Reconciled(derived)[k] = seen[k]
  BY <1>1, ReconciledIs
<1>3. Reconciled(derived)[k].first = seen[k].first /\ Reconciled(derived)[k].last >= seen[k].last
      /\ Reconciled(derived)[k].last \in Nat
  BY <1>1, <1>2
<1>4. QED
  BY <1>1, <1>3, Nothing

\* A derivation that misses a held occurrence is not older than the grace.
LEMMA HeldRetained ==
    ASSUME Sane, CacheInv, HeldInv, NEW t \in Thread, req[t].pc = "reconcile", NEW k \in held
    PROVE  k \in req[t].derived \/ seen[k].last + Grace >= now
<1> SUFFICES ASSUME k \notin req[t].derived PROVE seen[k].last + Grace >= now
  OBVIOUS
<1>0. HeldKey(k) /\ k \in Key
  BY DEF HeldInv, Sane, SetsOK
<1>1. /\ now \in Nat /\ Grace \in Nat /\ Within \in Nat /\ WarmWithin \in Nat
      /\ Within + WarmWithin <= Grace /\ since[k] \in Nat /\ seen[k].last \in Nat
      /\ began[t] \in Nat /\ now <= began[t] + Within
  BY <1>0, Stamps, ThreadStamps, Numbers
<1>2. CASE k \notin cold
  <2>1. Visible(k)
    BY <1>0, <1>2 DEF HeldKey, Visible, Shown
  <2>2. ~(began[t] > since[k])
    BY <1>0, <2>1 DEF CacheInv, Agrees, ThreadAgrees
  <2>3. since[k] <= seen[k].last + WarmWithin
    BY <1>0, <1>2 DEF HeldKey
  <2>4. QED
    BY <1>1, <2>2, <2>3
<1>3. CASE k \in cold
  <2>1. started <= seen[k].last /\ started \in Nat /\ now <= started + WarmWithin
    BY <1>0, <1>3, Numbers DEF HeldKey, Sane, ClockOK
  <2>2. QED
    BY <1>1, <2>1
<1>4. QED
  BY <1>2, <1>3

HeldKeys == \A k \in held : HeldKey(k)
HeldRequests == \A c \in Client : HeldRequest(req[c], began[c])

\* The rows and the requests when the tracker stays as it is.
LEMMA HeldKeysKept ==
    ASSUME HeldKeys, held' \subseteq held,
           UNCHANGED <<now, faults, cold, started, suppressed, since, seen>>,
           \A k \in held' : acks'[k] = acks[k]
    PROVE  HeldKeys'
BY DEF HeldKeys, HeldKey, Tracked

LEMMA HeldRequestsKept ==
    ASSUME Sane, HeldRequests, held' \subseteq held, seen' = seen,
           \/ UNCHANGED <<req, began>>
           \/ \E t \in Thread : \E q, b : Moves(t, q, b) /\ (t \in Client => HeldRequest(q, b))
    PROVE  HeldRequests'
<1>1. \A c \in Client : HeldRequest(req'[c], began'[c])
  <2>1. CASE UNCHANGED <<req, began>>
    BY <2>1 DEF HeldRequests
  <2>2. CASE \E t \in Thread : \E q, b : Moves(t, q, b) /\ (t \in Client => HeldRequest(q, b))
    BY <2>2, MovesAre, Numbers DEF HeldRequests, Sane
  <2>3. QED
    BY <2>1, <2>2
<1>2. QED
  BY <1>1 DEF HeldRequests, HeldRequest

LEMMA IdleHeld == ASSUME NEW b PROVE HeldRequest(Idle, b) /\ HeldRequest(Invalidating, b)
BY Nothing DEF HeldRequest, Invalidating

\* Visibility changes for others only.
LEMMA HeldToggle ==
    ASSUME Sane, HeldKeys, SinceUpdate, held' \subseteq held,
           UNCHANGED <<now, cold, started, seen, acks>>,
           \A k \in held' : k \in faults' /\ k \notin suppressed'
    PROVE  HeldKeys'
<1> SUFFICES ASSUME NEW k \in held' PROVE HeldKey(k)'
  BY DEF HeldKeys
<1>1. HeldKey(k) /\ k \in Key
  BY DEF HeldKeys, Sane, SetsOK
<1>2. Shown(k)' = Shown(k) /\ (k \in suppressed' <=> k \in suppressed)
  BY <1>1 DEF Shown, HeldKey
<1>3. since'[k] = since[k]
  BY <1>1, <1>2, SinceStamps
<1>4. QED
  BY <1>1, <1>3 DEF HeldKey, Tracked

\* Time passes: what is still cold is not held for longer than the grace allows.
LEMMA HeldTick == Sane /\ HeldKeys /\ Tick => HeldKeys'
<1> SUFFICES ASSUME Sane, HeldKeys, Tick, NEW k \in held' PROVE HeldKey(k)'
  BY DEF HeldKeys
<1>1. /\ UNCHANGED <<faults, cold, started, seen, acks, suppressed, since>> /\ now' = now + 1
      /\ held' = IF now + 1 > started + WarmWithin THEN held \ cold ELSE held
  BY DEF Tick, db
<1>2. HeldKey(k) /\ now \in Nat /\ started \in Nat /\ WarmWithin \in Nat
  BY <1>1, Numbers DEF HeldKeys, Sane, ClockOK
<1>3. k \in cold => now' <= started + WarmWithin
  BY <1>1, <1>2
<1>4. QED
  BY <1>1, <1>2, <1>3 DEF HeldKey, Tracked

LEMMA HeldWarmUp == Sane /\ HeldKeys /\ Warms => HeldKeys'
<1> SUFFICES ASSUME Sane, HeldKeys, NEW j \in Key, WarmUp(j), NEW k \in held' PROVE HeldKey(k)'
  BY DEF HeldKeys, Warms
<1>1. /\ UNCHANGED <<now, faults, suppressed, seen, acks, held>> /\ SinceUpdate
      /\ j \in cold /\ cold' = cold \ {j} /\ (cold' # {} => started' = started)
  BY DEF WarmUp, db
<1>2. HeldKey(k) /\ k \in Key
  BY <1>1 DEF HeldKeys, Sane, SetsOK
<1>3. CASE k = j
  <2>1. since'[k] = now
    <3>1. Shown(k)' # Shown(k)
      BY <1>1, <1>2, <1>3 DEF Shown, HeldKey
    <3>2. QED
      BY <1>1, <1>2, <3>1, SinceStamps
  <2>2. now <= seen[k].last + WarmWithin
    <3>1. started <= seen[k].last /\ now <= started + WarmWithin
      BY <1>1, <1>2, <1>3 DEF HeldKey
    <3>2. started \in Nat /\ now \in Nat /\ seen[k].last \in Nat /\ WarmWithin \in Nat
      BY <1>2, Stamps, Numbers DEF Sane, ClockOK
    <3>3. QED
      BY <3>1, <3>2
  <2>3. QED
    BY <1>1, <1>2, <1>3, <2>1, <2>2 DEF HeldKey, Tracked
<1>4. CASE k # j
  <2>1. Shown(k)' = Shown(k)
    BY <1>1, <1>4 DEF Shown
  <2>2. since'[k] = since[k]
    BY <1>1, <1>2, <2>1, SinceStamps
  <2>3. QED
    BY <1>1, <1>2, <1>4, <2>2 DEF HeldKey, Tracked
<1>5. QED
  BY <1>3, <1>4

\* A derivation's reads: what is spared was seen recently enough.
LEMMA HeldReads ==
    ASSUME Sane, SeesInv, HeldKeys, NEW t \in Thread, Reads(t) PROVE HeldKeys'
<1> SUFFICES ASSUME NEW k \in held' PROVE HeldKey(k)'
  BY DEF HeldKeys
<1>1. ReadOnly
  BY ReadIs
<1>2. HeldKey(k) /\ k \in Key
  BY <1>1 DEF ReadOnly, HeldKeys, Sane, SetsOK
<1>3. since'[k] = since[k] \/ (since'[k] = now /\ Spared(k))
  <2>1. \E q : ReadsKey(t, q, k)
    BY <1>2, ReadIs
  <2>2. k \notin suppressed
    BY <1>2 DEF HeldKey
  <2>3. QED
    BY <2>1, <2>2 DEF ReadsKey
<1>4. ASSUME k \notin cold, Spared(k) PROVE now <= seen[k].last + WarmWithin
  <2>1. ScanSees(k)
    BY <1>2, <1>4 DEF HeldKey, Visible, Shown, Spared, SeesInv
  <2>2. /\ now \in Nat /\ Within \in Nat /\ Grace \in Nat /\ since[k] \in Nat
        /\ seen[k].last \in Nat /\ began[Scanner] \in Nat /\ now <= began[Scanner] + Within
        /\ since[k] + 2 * Within < now /\ 3 * Within <= Grace /\ WarmWithin = Grace - Within
    BY <1>2, <1>4, Stamps, ThreadStamps, Numbers DEF Spared, WarmWithin
  <2>3. began[Scanner] > since[k] /\ began[Scanner] > since[k] + Within
    BY <2>2
  <2>4. began[Scanner] <= seen[k].last \/ began[Scanner] <= seen[k].last + Within
    BY <2>1, <2>3 DEF ScanSees
  <2>5. QED
    BY <2>2, <2>4
<1>5. k \notin cold => since'[k] <= seen[k].last + WarmWithin
  BY <1>2, <1>3, <1>4 DEF HeldKey
<1>6. UNCHANGED <<now, faults, cold, started, seen, acks, suppressed>>
  BY <1>1 DEF ReadOnly, db
<1>7. QED
  BY <1>2, <1>5, <1>6 DEF HeldKey, Tracked

LEMMA HeldRestart == Sane /\ HeldKeys /\ Restart => HeldKeys' /\ HeldRequests'
<1> SUFFICES ASSUME Sane, HeldKeys, Restart PROVE HeldKeys' /\ HeldRequests'
  OBVIOUS
<1>1. PICK rows \in {acks, NoIssues} :
         /\ seen' = Seeded(rows)
         /\ held' = IF rows = acks THEN held ELSE {}
  BY DEF Restart
<1>2. /\ UNCHANGED <<faults, acks, suppressed>> /\ started' = now /\ cold' = Key /\ now' = now
      /\ \A c \in Client : req'[c] = Idle
  BY Numbers DEF Restart, db
<1>3. HeldRequests'
  BY <1>2, Nothing DEF HeldRequests, HeldRequest
<1>4. ASSUME NEW k \in held' PROVE HeldKey(k)'
  <2>1. rows = acks /\ k \in held /\ k \in Key /\ HeldKey(k)
    BY <1>1, <1>4 DEF HeldKeys, Sane, SetsOK
  <2>2. acks[k] # 0
    BY <2>1, Stamps DEF HeldKey, Tracked
  <2>3. seen'[k] = [first |-> acks[k], last |-> now]
    BY <1>1, <2>1, <2>2 DEF Seeded
  <2>4. /\ seen'[k] # NoOccurrence /\ seen'[k].first = acks[k] /\ seen'[k].last = now /\ now <= now
        /\ now <= now + WarmWithin
    BY <2>1, <2>2, <2>3, Nothing, Stamps, Numbers
  <2>5. QED
    BY <1>2, <2>1, <2>4 DEF HeldKey, Tracked
<1>5. QED
  BY <1>3, <1>4 DEF HeldKeys

\* What a reconcile leaves of held occurrences and of those being acknowledged.
LEMMA HeldReconciled ==
    ASSUME Sane, CacheInv, HeldInv, NEW t \in Thread, req[t].pc = "reconcile",
           seen' = Reconciled(req[t].derived),
           UNCHANGED <<now, faults, cold, started, db, since, held>>
    PROVE  /\ HeldKeys'
           /\ \A c \in Client : \A q, b : q = req[c] /\ b = began[c] => HeldRequest(q, b)'
<1>0. req[t].derived \in SUBSET Key
  BY ThreadStamps
<1>1. ASSUME NEW k \in held
      PROVE  /\ seen'[k].first = seen[k].first /\ seen'[k] # NoOccurrence
             /\ seen'[k].last \in Nat /\ seen'[k].last >= seen[k].last
  <2>1. k \in Key /\ Tracked(k)
    BY DEF HeldInv, HeldKey, Sane, SetsOK
  <2>2. QED
    BY <1>0, <2>1, HeldRetained, Retained
<1>2. ASSUME NEW k \in held PROVE HeldKey(k)'
  <2>1. k \in Key /\ HeldKey(k)
    BY DEF HeldInv, Sane, SetsOK
  <2>2. seen[k].last \in Nat /\ since[k] \in Nat /\ started \in Nat /\ WarmWithin \in Nat
    BY <2>1, Stamps, Numbers DEF Sane, ClockOK
  <2>3. k \notin cold => since[k] <= seen'[k].last + WarmWithin
    BY <1>1, <2>1, <2>2 DEF HeldKey
  <2>4. k \in cold => started <= seen'[k].last
    BY <1>1, <2>1, <2>2 DEF HeldKey
  <2>5. QED
    BY <1>1, <2>1, <2>3, <2>4 DEF HeldKey, Tracked, db
<1>3. ASSUME NEW c \in Client, NEW q, NEW b, q = req[c], b = began[c]
      PROVE  HeldRequest(q, b)'
  <2>0. HeldRequest(q, b)
    BY <1>3 DEF HeldInv
  <2>1. CASE q.pc = "upsert"
    <3> DEFINE k == q.key
    <3>0. c \in Thread /\ k \in Key /\ q.first # 0 /\ b \in Nat /\ now <= b + Within
      BY <1>3, <2>1, ThreadStamps, Numbers
    <3>1. ASSUME k \in q.derived PROVE seen'[k].first = q.first /\ b <= seen'[k].last
      <4>1. seen[k].first = q.first /\ b <= seen[k].last
        BY <2>0, <2>1, <3>1 DEF HeldRequest
      <4>2. Tracked(k)
        BY <3>0, <4>1, Nothing DEF Tracked
      <4>3. /\ now \in Nat /\ Grace \in Nat /\ Within \in Nat /\ WarmWithin \in Nat
            /\ Within + WarmWithin <= Grace /\ seen[k].last \in Nat
        BY <3>0, Stamps, Numbers
      <4>4. seen[k].last + Grace >= now
        BY <3>0, <4>1, <4>3
      <4>5. seen'[k].first = seen[k].first /\ seen'[k].last \in Nat /\ seen'[k].last >= seen[k].last
        BY <1>0, <3>0, <4>2, <4>4, Retained
      <4>6. QED
        BY <3>0, <4>1, <4>3, <4>5
    <3>2. ASSUME k \in held PROVE seen'[k].first = q.first
      BY <1>1, <2>0, <2>1, <3>2 DEF HeldRequest
    <3>3. QED
      BY <2>1, <3>1, <3>2 DEF HeldRequest
  <2>2. CASE q.pc # "upsert"
    BY <2>0, <2>2 DEF HeldRequest
  <2>3. QED
    BY <2>1, <2>2
<1>4. QED
  BY <1>2, <1>3 DEF HeldKeys

LEMMA HeldEnvironment ==
    ASSUME Sane, HeldKeys, HeldRequests,
           \/ Tick \/ Warms \/ Restart \/ InvalidateFleetChange \/ UNCHANGED vars
           \/ \E j \in Key : Raise(j) \/ Clear(j)
    PROVE  HeldKeys' /\ HeldRequests'
<1>1. CASE InvalidateFleetChange \/ UNCHANGED vars
  <2>1. UNCHANGED <<now, faults, cold, started, suppressed, since, seen, acks, held, req, began>>
    BY <1>1 DEF InvalidateFleetChange, vars, db, local, history
  <2>2. QED
    BY <2>1, HeldKeysKept, HeldRequestsKept
<1>6. CASE Tick
  <2>1. UNCHANGED <<seen, req, began>> /\ held' \subseteq held
    BY <1>6 DEF Tick, local
  <2>2. QED
    BY <1>6, <2>1, HeldTick, HeldRequestsKept
<1>2. CASE Warms
  <2>1. UNCHANGED <<seen, held, req, began>>
    BY <1>2 DEF Warms, WarmUp, local
  <2>2. QED
    BY <1>2, <2>1, HeldWarmUp, HeldRequestsKept
<1>3. CASE Restart
  BY <1>3, HeldRestart
<1>4. ASSUME NEW j \in Key, Raise(j) \/ Clear(j) PROVE HeldKeys' /\ HeldRequests'
  <2>1. /\ SinceUpdate /\ held' \subseteq held
        /\ UNCHANGED <<now, cold, started, seen, acks, suppressed, req, began>>
    BY <1>4 DEF Raise, Clear, db, local
  <2>2. \A k \in held' : k \in faults'
    BY <1>4 DEF Raise, Clear, HeldKeys, HeldKey
  <2>3. \A k \in held' : k \notin suppressed'
    BY <2>1 DEF HeldKeys, HeldKey
  <2>4. QED
    BY <2>1, <2>2, <2>3, HeldToggle, HeldRequestsKept
<1>5. QED
  BY <1>1, <1>2, <1>3, <1>4, <1>6

LEMMA HeldDerive ==
    ASSUME Sane, CacheInv, SeesInv, HeldInv, NEW t \in Thread,
           \/ (BeginScan /\ t = Scanner)
           \/ BeginListMiss(t) \/ BeginListHit(t)
           \/ \E j \in Key : \/ BeginAck(t, j)
                             \/ \E op \in {"suppress", "unsuppress"} : LoadSuppressed(t, op, j)
           \/ Reads(t) \/ Reconcile(t) \/ Store(t) \/ (t \in Client /\ ReconcileAck(t))
    PROVE  HeldKeys' /\ HeldRequests'
<1>0. HeldKeys /\ HeldRequests
  BY DEF HeldInv, HeldKeys, HeldRequests
<1>1. CASE \/ (BeginScan /\ t = Scanner)
           \/ BeginListMiss(t) \/ BeginListHit(t)
           \/ \E j \in Key : \/ BeginAck(t, j)
                             \/ \E op \in {"suppress", "unsuppress"} : LoadSuppressed(t, op, j)
  <2>1. PICK q \in Request :
           Moves(t, q, now) /\ Quietly /\ q.pc \in {"collect", "listed", "persist"}
    BY <1>1, BeginIs
  <2>2. UNCHANGED <<now, faults, cold, started, suppressed, since, seen, acks, held>>
    BY <2>1 DEF Quietly, db, history
  <2>3. HeldRequest(q, now)
    BY <2>1 DEF HeldRequest
  <2>4. QED
    BY <1>0, <2>1, <2>2, <2>3, HeldKeysKept, HeldRequestsKept
<1>2. CASE Reads(t)
  <2>1. PICK q \in Request :
           Moves(t, q, began[t]) /\ (q.pc \in {"collect", "reconcile"} \/ q = Dead)
    BY <1>2, ReadIs
  <2>2. seen' = seen /\ held' \subseteq held
    BY <1>2, ReadIs DEF ReadOnly
  <2>3. HeldRequest(q, began[t])
    BY <2>1, Nothing DEF HeldRequest
  <2>4. QED
    BY <1>0, <1>2, <2>1, <2>2, <2>3, HeldReads, HeldRequestsKept
<1>3. CASE Store(t)
  <2>1. PICK q \in Request : Moves(t, q, began[t]) /\ q.pc \in {"idle", "listed"}
    BY <1>3, StoreIs, Nothing
  <2>2. UNCHANGED <<now, faults, cold, started, suppressed, since, seen, acks, held>>
    BY <1>3, StoreIs DEF db, history
  <2>3. HeldRequest(q, began[t])
    BY <2>1 DEF HeldRequest
  <2>4. QED
    BY <1>0, <2>1, <2>2, <2>3, HeldKeysKept, HeldRequestsKept
<1>4. CASE Reconcile(t)
  <2>1. /\ req[t].pc = "reconcile" /\ seen' = Reconciled(req[t].derived)
        /\ UNCHANGED <<now, faults, cold, started, db, since, held>>
    BY <1>4, ReconcileIs DEF history
  <2>2. PICK q \in Request : q.pc = "store" /\ Moves(t, q, began[t])
    BY <1>4, ReconcileIs
  <2>3. /\ HeldKeys'
        /\ \A c \in Client : \A r, b : r = req[c] /\ b = began[c] => HeldRequest(r, b)'
    BY <2>1, HeldReconciled
  <2>4. ASSUME NEW c \in Client PROVE HeldRequest(req[c], began[c])'
    <3>1. CASE c # t
      <4>1. req'[c] = req[c] /\ began'[c] = began[c]
        BY <2>2, <3>1, MovesAre, Numbers DEF Sane
      <4>2. QED
        BY <2>3, <4>1 DEF HeldRequest
    <3>2. CASE c = t
      BY <2>2, <3>2, MovesAre DEF HeldRequest, Sane
    <3>3. QED
      BY <3>1, <3>2
  <2>5. QED
    BY <2>3, <2>4 DEF HeldRequests
<1>5. CASE t \in Client /\ ReconcileAck(t)
  <2>1. /\ req[t].pc = "reconcile" /\ seen' = Reconciled(req[t].derived)
        /\ req[t].derived \in SUBSET Key
        /\ UNCHANGED <<now, faults, cold, started, db, since, held>>
    BY <1>5, ReconcileAckIs DEF history
  <2>2. PICK q \in Request, b \in {0, began[t]} :
                 /\ Moves(t, q, b)
                 /\ \/ q = Idle
                    \/ /\ b = began[t] /\ q.pc = "upsert" /\ q.key = req[t].key
                       /\ q.derived = req[t].derived
                       /\ q.first = seen'[q.key].first
    BY <1>5, ReconcileAckIs
  <2>3. /\ HeldKeys'
        /\ \A c \in Client : \A r, e : r = req[c] /\ e = began[c] => HeldRequest(r, e)'
    BY <2>1, HeldReconciled
  <2>4. HeldRequest(q, b)'
    <3>1. CASE q = Idle
      BY <3>1, Nothing DEF HeldRequest
    <3>2. CASE q.pc = "upsert" /\ q # Idle
      <4>1. q.key \in Key /\ began[t] <= now /\ b = began[t]
        BY <1>5, <2>1, <2>2, <3>2, ReconcileAckIs, ThreadStamps
      <4>2. q.key \in q.derived => seen'[q.key].last = now
        BY <2>1, <2>2, <3>2, <4>1, ReconciledIs
      <4>3. QED
        BY <2>2, <3>2, <4>1, <4>2 DEF HeldRequest
    <3>3. QED
      BY <2>2, <3>1, <3>2
  <2>5. ASSUME NEW c \in Client PROVE HeldRequest(req[c], began[c])'
    <3>1. CASE c # t
      <4>1. req'[c] = req[c] /\ began'[c] = began[c]
        BY <2>2, <3>1, MovesAre, Numbers DEF Sane
      <4>2. QED
        BY <2>3, <4>1 DEF HeldRequest
    <3>2. CASE c = t
      BY <2>2, <2>4, <3>2, MovesAre DEF HeldRequest, Sane
    <3>3. QED
      BY <3>1, <3>2
  <2>6. QED
    BY <2>3, <2>5 DEF HeldRequests
<1>6. QED
  BY <1>1, <1>2, <1>3, <1>4, <1>5

\* What the other requests know is right about the key acknowledged, too.
LEMMA HeldOthers ==
    ASSUME Sane, HeldRequests, NEW c \in Client, c \in Thread, NEW k, k = req[c].key,
           req[c].pc = "upsert", Finish(c), seen' = seen, held' \subseteq held \cup {k},
           k \in held' => seen[k].first = req[c].first,
           k \in held' \ held => ~PruneMisses(k) /\ ~Overtaken(k, req[c].first)
    PROVE  HeldRequests'
<1>1. \E b : Moves(c, Idle, b)
  BY StepMoves DEF Sane
<1>2. ASSUME NEW e \in Client PROVE HeldRequest(req[e], began[e])'
  <2>1. CASE e = c
    <3>1. req'[e].pc = "idle"
      BY <1>1, <2>1, MovesAre, Nothing DEF Sane
    <3>2. QED
      BY <3>1 DEF HeldRequest
  <2>2. CASE e # c
    <3>1. req'[e] = req[e] /\ began'[e] = began[e]
      BY <1>1, <2>2, MovesAre, Numbers DEF Sane
    <3>2. HeldRequest(req[e], began[e])
      BY DEF HeldRequests
    <3>3. CASE req[e].pc = "prune"
      <4>1. k \in held' \ held => k \in req[e].known
        BY <3>3 DEF PruneMisses
      <4>2. held' \subseteq req[e].known
        BY <3>2, <3>3, <4>1 DEF HeldRequest
      <4>3. QED
        BY <3>1, <3>3, <4>2 DEF HeldRequest
    <3>4. CASE req[e].pc = "upsert"
      <4>1. req[e].key = k /\ k \in held' \ held => req[e].first = req[c].first
        BY <3>4 DEF Overtaken
      <4>2. req[e].key \in held' => seen[req[e].key].first = req[e].first
        BY <3>2, <3>4, <4>1 DEF HeldRequest
      <4>3. QED
        BY <3>1, <3>2, <3>4, <4>2 DEF HeldRequest
    <3>5. QED
      BY <3>1, <3>3, <3>4 DEF HeldRequest
  <2>3. QED
    BY <2>1, <2>2
<1>3. QED
  BY <1>2 DEF HeldRequests

\* An acknowledgement is written: for the occurrence the tracker still has.
LEMMA HeldUpsert ==
    ASSUME Sane, HeldKeys, HeldRequests, NEW c \in Client, Upsert(c)
    PROVE  HeldKeys' /\ HeldRequests'
<1> PICK k : k = req[c].key
  OBVIOUS
<1>0. /\ c \in Thread /\ req[c].pc = "upsert" /\ k \in Key /\ req[c].first # 0
      /\ req[c].first \in Nat /\ began[c] \in Nat /\ HeldRequest(req[c], began[c])
  BY ThreadStamps, Numbers DEF Upsert, HeldRequests
<1>1. /\ UNCHANGED <<now, faults, cold, started, suppressed, since, seen>> /\ Finish(c)
      /\ acks' = [acks EXCEPT ![k] = req[c].first] /\ acks \in [Key -> Time]
      /\ held' = IF /\ k \in req[c].derived /\ Visible(k) /\ since[k] <= began[c]
                    /\ ~PruneMisses(k) /\ ~Overtaken(k, req[c].first)
                 THEN held \cup {k} ELSE held
  BY DEF Upsert, Sane, StampsOK, List
<1>2. ASSUME NEW j \in held, j # k PROVE HeldKey(j)'
  BY <1>1, <1>2 DEF HeldKeys, HeldKey, Tracked
<1>3. CASE k \in held
  <2>1. seen[k].first = req[c].first
    BY <1>0, <1>3 DEF HeldRequest
  <2>2. acks'[k] = seen[k].first
    BY <1>0, <1>1, <2>1
  <2>3. HeldKey(k)'
    BY <1>1, <1>3, <2>2 DEF HeldKeys, HeldKey, Tracked
  <2>4. HeldKeys'
    BY <1>1, <1>2, <1>3, <2>3 DEF HeldKeys
  <2>5. held' = held
    BY <1>1, <1>3
  <2>6. QED
    BY <2>1, <2>4, <2>5, <1>0, <1>1, HeldOthers
<1>4. CASE k \notin held
  <2>1. ASSUME k \in held' PROVE HeldKey(k)'
    <3>1. k \in req[c].derived /\ Visible(k) /\ since[k] <= began[c]
      BY <1>1, <1>4, <2>1
    <3>2. seen[k].first = req[c].first /\ began[c] <= seen[k].last
      BY <1>0, <3>1 DEF HeldRequest
    <3>3. seen[k] # NoOccurrence /\ acks'[k] = seen[k].first
      BY <1>0, <1>1, <3>2, Nothing
    <3>4. since[k] <= seen[k].last + WarmWithin
      BY <1>0, <3>1, <3>2, Stamps, Numbers
    <3>5. QED
      BY <1>1, <3>1, <3>3, <3>4 DEF HeldKey, Tracked, Visible, Shown
  <2>2. HeldKeys'
    BY <1>1, <1>2, <1>4, <2>1 DEF HeldKeys
  <2>3. k \in held' => seen[k].first = req[c].first
    BY <1>0, <1>1, <1>4 DEF HeldRequest
  <2>4. /\ held' \subseteq held \cup {k}
        /\ k \in held' \ held => ~PruneMisses(k) /\ ~Overtaken(k, req[c].first)
    BY <1>1
  <2>5. QED
    BY <2>2, <2>3, <2>4, <1>0, <1>1, HeldOthers
<1>5. QED
  BY <1>3, <1>4

LEMMA HeldRequestStep ==
    ASSUME Sane, HeldInv, NEW c \in Client,
           \/ ReadKnown(c) \/ AnswerDevice(c) \/ Fail(c)
           \/ Prune(c) \/ Upsert(c) \/ \E j \in Key : Unack(c, j)
           \/ PersistSuppressed(c) \/ Invalidate(c)
    PROVE  HeldKeys' /\ HeldRequests'
<1>0. HeldKeys /\ HeldRequests /\ c \in Thread /\ HeldRequest(req[c], began[c])
  BY Numbers DEF HeldInv, HeldKeys, HeldRequests
<1>1. CASE ReadKnown(c) \/ AnswerDevice(c) \/ Fail(c)
  <2>1. PICK q \in Request, b \in {0, began[c]} :
              /\ Moves(c, q, b) /\ Quietly
              /\ \/ q = Idle
                 \/ q.pc = "prune" /\ q.known = KnownKeys(c)
    BY <1>1, AnswerIs
  <2>2. UNCHANGED <<now, faults, cold, started, suppressed, since, seen, acks, held>>
    BY <2>1 DEF Quietly, db, history
  <2>3. held \subseteq KnownKeys(c)
    BY <1>0 DEF HeldKeys, HeldKey, KnownKeys, Sane, SetsOK
  <2>4. HeldRequest(q, b)
    BY <2>1, <2>3, IdleHeld DEF HeldRequest
  <2>5. QED
    BY <1>0, <2>1, <2>2, <2>4, HeldKeysKept, HeldRequestsKept
<1>2. CASE Prune(c)
  <2>1. /\ UNCHANGED <<now, faults, cold, started, suppressed, since, seen, held>> /\ Finish(c)
        /\ req[c].pc = "prune"
    BY <1>2 DEF Prune, history
  <2>2. \A k \in held : acks'[k] = acks[k]
    <3>1. held \subseteq req[c].known /\ held \subseteq Key
      BY <1>0, <2>1 DEF HeldRequest, Sane, SetsOK
    <3>2. QED
      BY <1>2, <3>1 DEF Prune
  <2>3. \E b : Moves(c, Idle, b)
    BY <1>0, <2>1, StepMoves DEF Sane
  <2>4. QED
    BY <1>0, <2>1, <2>2, <2>3, IdleHeld, HeldKeysKept, HeldRequestsKept
<1>3. CASE Upsert(c)
  BY <1>0, <1>3, HeldUpsert
<1>4. ASSUME NEW j \in Key, Unack(c, j) PROVE HeldKeys' /\ HeldRequests'
  <2>1. /\ UNCHANGED <<now, faults, cold, started, suppressed, since, seen, req, began>>
        /\ acks' = [acks EXCEPT ![j] = 0] /\ acks \in [Key -> Time] /\ held' = held \ {j}
    BY <1>4 DEF Unack, local, Sane, StampsOK, List
  <2>2. \A k \in held' : acks'[k] = acks[k]
    BY <2>1
  <2>3. QED
    BY <1>0, <2>1, <2>2, HeldKeysKept, HeldRequestsKept
<1>5. CASE PersistSuppressed(c)
  <2>1. /\ UNCHANGED <<now, faults, cold, started, seen, acks>> /\ SinceUpdate
        /\ held' = held \ suppressed' /\ Goto(c, Invalidating)
    BY <1>5 DEF PersistSuppressed, Invalidating
  <2>2. Moves(c, Invalidating, began[c])
    BY <1>0, <2>1, StepMoves DEF Sane
  <2>3. \A k \in held' : k \in faults' /\ k \notin suppressed'
    BY <1>0, <2>1 DEF HeldKeys, HeldKey
  <2>4. QED
    BY <1>0, <2>1, <2>2, <2>3, IdleHeld, HeldToggle, HeldRequestsKept
<1>6. CASE Invalidate(c)
  <2>1. /\ UNCHANGED <<now, faults, cold, started, suppressed, since, seen, acks, held>> /\ Finish(c)
    BY <1>6 DEF Invalidate, db, history
  <2>2. \E b : Moves(c, Idle, b)
    BY <1>0, <2>1, StepMoves DEF Sane
  <2>3. QED
    BY <1>0, <2>1, <2>2, IdleHeld, HeldKeysKept, HeldRequestsKept
<1>7. QED
  BY <1>1, <1>2, <1>3, <1>4, <1>5, <1>6

LEMMA HeldNext == Sane /\ CacheInv /\ SeesInv /\ HeldInv /\ [Next]_vars => HeldInv'
<1> SUFFICES ASSUME Sane, CacheInv, SeesInv, HeldInv, [Next]_vars PROVE HeldInv'
  OBVIOUS
<1>0. HeldKeys /\ HeldRequests
  BY DEF HeldInv, HeldKeys, HeldRequests
<1>1. ASSUME \/ Tick \/ Warms \/ Restart \/ InvalidateFleetChange \/ UNCHANGED vars
             \/ \E j \in Key : Raise(j) \/ Clear(j)
      PROVE  HeldKeys' /\ HeldRequests'
  BY <1>0, <1>1, HeldEnvironment
<1>2. ASSUME NEW t \in Thread, (BeginScan /\ t = Scanner) \/ Reads(t) \/ Reconcile(t) \/ Store(t)
      PROVE  HeldKeys' /\ HeldRequests'
  BY <1>2, HeldDerive
<1>3. ASSUME NEW c \in Client,
             \/ BeginListMiss(c) \/ BeginListHit(c)
             \/ \E j \in Key : \/ BeginAck(c, j)
                               \/ \E op \in {"suppress", "unsuppress"} : LoadSuppressed(c, op, j)
             \/ ReconcileAck(c)
      PROVE  HeldKeys' /\ HeldRequests'
  BY <1>3, Numbers, HeldDerive
<1>4. ASSUME NEW c \in Client,
             \/ ReadKnown(c) \/ AnswerDevice(c) \/ Fail(c)
             \/ Prune(c) \/ Upsert(c) \/ \E j \in Key : Unack(c, j)
             \/ PersistSuppressed(c) \/ Invalidate(c)
      PROVE  HeldKeys' /\ HeldRequests'
  BY <1>4, HeldRequestStep
<1>5. HeldKeys' /\ HeldRequests'
  BY <1>1, <1>2, <1>3, <1>4, NextIs
<1>6. QED
  BY <1>5 DEF HeldInv, HeldKeys, HeldRequests

LEMMA HeldInitial == Init => SeesInv /\ HeldInv
<1> SUFFICES ASSUME Init PROVE SeesInv /\ HeldInv
  OBVIOUS
<1>1. held = {} /\ cold = Key /\ \A t \in Thread : req[t] = Idle
  BY DEF Init
<1>2. QED
  BY <1>1, Nothing, Numbers DEF SeesInv, Visible, Shown, HeldInv, HeldRequest

LEMMA HeldSurvives == Sane /\ HeldInv => AckSurvives
BY DEF HeldInv, HeldKey, AckSurvives

\* issues.rs: the grace exists "so a single missed scan ... doesn't reset
\* first_seen".  The acknowledgement of a condition that stays visible survives
\* prunes, overlapping requests, a restart, one failed device query among good
\* scans, for any number of requests, unless something that ends its promise (see
\* held in IssueTracking) came in between.
THEOREM AcknowledgementsSurvive == Spec => []AckSurvives
<1>1. Init => Sane /\ CacheInv /\ SeesInv /\ HeldInv
  BY IssuesInitial, CacheInitial, HeldInitial
<1>2. Sane /\ CacheInv /\ SeesInv /\ HeldInv /\ [Next]_vars =>
         (Sane /\ CacheInv /\ SeesInv /\ HeldInv)'
  BY SaneNext, CacheNext, SeesNext, HeldNext
<1>3. QED
  BY <1>1, <1>2, HeldSurvives, PTL DEF Spec

=============================================================================
