------------------------- MODULE ReachabilityProofs -------------------------
(***************************************************************************)
(* Proofs about Reachability, for every set of devices and workers, every  *)
(* sharding, every hysteresis limit and every value of the bounds.         *)
(***************************************************************************)
EXTENDS Reachability, TLAPS

\* The tuples that only group variables in UNCHANGED.
USE DEF store, refresh, worker, history, bounds

-----------------------------------------------------------------------------
(* The hysteresis filter.                                                  *)

\* A new accounting entry is well-formed whatever state it is seeded with.
LEMMA NewAccountingType ==
    ASSUME NEW up \in OptSeen
    PROVE  NewAccounting(up) \in PingAccountingInfo
BY HystLimitAssumption DEF NewAccounting, PingAccountingInfo

\* Counting keeps a counter within the limit.
LEMMA BumpType ==
    ASSUME NEW n \in 0..HystLimit
    PROVE  Bump(n) \in 1..HystLimit
BY HystLimitAssumption DEF Bump

\* advance_hysteresis keeps an accounting entry well-formed: neither counter
\* passes the limit, so the u8 counters of the code never saturate.
LEMMA AdvanceInfoType ==
    ASSUME NEW info \in PingAccountingInfo, NEW seen \in Seen
    PROVE  AdvanceInfo(info, seen) \in PingAccountingInfo
<1> DEFINE up == Bump(info.hysUp)
           down == Bump(info.hysDown)
<1>1. up \in 0..HystLimit /\ down \in 0..HystLimit
  BY BumpType, HystLimitAssumption DEF PingAccountingInfo
<1> HIDE DEF up, down
<1>2. 0 \in 0..HystLimit
  BY HystLimitAssumption
<1>3. QED
  BY <1>1, <1>2 DEF AdvanceInfo, PingAccountingInfo, OptSeen, Seen, up, down

-----------------------------------------------------------------------------
(* The inductive invariant.  TypeOK and FlipNeedsStreak alone are not      *)
(* inductive: what a pending transition reports is justified by facts about *)
(* the accounting and the ping history, which the following parts state.    *)

\* A worker only handles devices of its own shard.
ShardOK == \A w \in Worker : shard[w] \subseteq OwnedBy(w)

\* Only a worker in its report phase has pending transitions, all of them of
\* devices it owns and tracks with a known state.
PendingOK ==
    \A w \in Worker : \A d \in pending[w] :
        /\ pc[w] = "report" /\ ShardOf[d] = w
        /\ acc[d] \in PingAccountingInfo /\ acc[d].responsive \in Seen

\* The hysteresis counters never claim more agreement than was observed.
Streak(info, r) ==
    /\ info.responsive = "none" => info.hysUp = 0 /\ info.hysDown = 0
    /\ info.hysUp > 0 => r.seen = "up" /\ r.n >= info.hysUp
    /\ info.hysDown > 0 => r.seen = "down" /\ r.n >= info.hysDown

StreakOK ==
    \A d \in Device : acc[d] \in PingAccountingInfo => Streak(acc[d], run[d])

\* A device its worker has no state for is not known to IMDS either, unless an agent
\* reported it.
UnknownOK ==
    \A d \in Device \ pushed :
        ~poisoned /\ acc[d] \in PingAccountingInfo /\ acc[d].responsive = "none"
            => imds[d] \notin Seen

\* A pending transition of a device IMDS knows was confirmed by a full streak.
FlipOK ==
    \A w \in Worker : \A d \in pending[w] \ pushed :
        ~poisoned /\ imds[d] \in Seen
            => run[d].seen = acc[d].responsive /\ run[d].n = HystLimit

IInv == TypeOK /\ ShardOK /\ PendingOK /\ StreakOK /\ UnknownOK /\ FlipOK

-----------------------------------------------------------------------------
History == [seen : OptSeen, n : 0..HystLimit]

\* Observing keeps the ping history well-formed.
LEMMA ObserveType ==
    ASSUME NEW r \in History, NEW seen \in Seen
    PROVE  /\ Observe(r, seen) \in History
           /\ Observe(r, seen).seen = seen
           /\ Observe(r, seen).n = IF r.seen = seen THEN Bump(r.n) ELSE 1
<1>1. Bump(r.n) \in 0..HystLimit /\ 1 \in 0..HystLimit
  BY BumpType, HystLimitAssumption DEF History
<1>2. CASE r.seen = seen
  BY <1>1, <1>2 DEF Observe, History, OptSeen
<1>3. CASE r.seen # seen
  BY <1>1, <1>3 DEF Observe, History, OptSeen
<1>4. QED
  BY <1>2, <1>3

\* One observation keeps the counters justified, leaves a known state, and a flip
\* of a known state means that the last HystLimit observations were the new state.
LEMMA AdvanceInfoStreak ==
    ASSUME NEW info \in PingAccountingInfo, NEW r \in History, NEW seen \in Seen,
           Streak(info, r)
    PROVE  /\ Streak(AdvanceInfo(info, seen), Observe(r, seen))
           /\ AdvanceInfo(info, seen).responsive \in Seen
           /\ Reports(info, seen) /\ info.responsive \in Seen =>
                 /\ Observe(r, seen).seen = AdvanceInfo(info, seen).responsive
                 /\ Observe(r, seen).n = HystLimit
<1> DEFINE o == Observe(r, seen)
           a == AdvanceInfo(info, seen)
<1>1. o.seen = seen /\ o.n = IF r.seen = seen THEN Bump(r.n) ELSE 1
  BY ObserveType
<1>2. o.n \in 0..HystLimit
  BY ObserveType DEF History
<1>t. /\ info.responsive \in OptSeen /\ info.hysUp \in Nat /\ info.hysDown \in Nat
      /\ r.n \in Nat
  BY HystLimitAssumption DEF PingAccountingInfo, History
<1> HIDE DEF o
<1>3. CASE info.responsive = "none"
  <2>1. a.responsive = seen /\ a.hysUp = info.hysUp /\ a.hysDown = info.hysDown
    BY <1>3 DEF AdvanceInfo, PingAccountingInfo
  <2>2. a.hysUp = 0 /\ a.hysDown = 0
    BY <1>3, <2>1 DEF Streak
  <2>3. QED
    BY <1>3, <2>1, <2>2 DEF Streak, Seen, o
<1>4. CASE info.responsive = seen
  <2>1. a.responsive = seen /\ a.hysUp = 0 /\ a.hysDown = 0
    BY <1>4 DEF AdvanceInfo, PingAccountingInfo, Seen
  <2>2. QED
    BY <1>4, <2>1 DEF Streak, Reports, Seen, o
<1>5. CASE info.responsive # "none" /\ info.responsive # seen /\ seen = "up"
  <2>1. /\ a.responsive = IF Bump(info.hysUp) >= HystLimit THEN "up" ELSE "down"
        /\ a.hysUp = Bump(info.hysUp) /\ a.hysDown = 0
    BY <1>5 DEF AdvanceInfo
  <2>2. o.n >= Bump(info.hysUp)
    BY <1>1, <1>t, <1>5, HystLimitAssumption DEF Streak, Bump
  <2>3. Streak(a, o)
    BY <1>1, <2>1, <2>2, <1>5 DEF Streak
  <2>4. info.responsive = "down"
    BY <1>5, <1>t DEF OptSeen, Seen
  <2>5. a.responsive # info.responsive => o.seen = a.responsive /\ o.n = HystLimit
    BY <1>1, <1>2, <1>5, <2>1, <2>2, <2>4, <1>t, HystLimitAssumption DEF Bump
  <2>6. QED
    BY <2>1, <2>3, <2>5 DEF Reports, Seen, o
<1>6. CASE info.responsive # "none" /\ info.responsive # seen /\ seen = "down"
  <2>1. /\ a.responsive = IF Bump(info.hysDown) >= HystLimit THEN "down" ELSE "up"
        /\ a.hysDown = Bump(info.hysDown) /\ a.hysUp = 0
    BY <1>6 DEF AdvanceInfo
  <2>2. o.n >= Bump(info.hysDown)
    BY <1>1, <1>t, <1>6, HystLimitAssumption DEF Streak, Bump
  <2>3. Streak(a, o)
    BY <1>1, <2>1, <2>2, <1>6 DEF Streak
  <2>4. info.responsive = "up"
    BY <1>6, <1>t DEF OptSeen, Seen
  <2>5. a.responsive # info.responsive => o.seen = a.responsive /\ o.n = HystLimit
    BY <1>1, <1>2, <1>6, <2>1, <2>2, <2>4, <1>t, HystLimitAssumption DEF Bump
  <2>6. QED
    BY <2>1, <2>3, <2>5 DEF Reports, Seen, o
<1>7. QED
  BY <1>3, <1>4, <1>5, <1>6 DEF Seen

-----------------------------------------------------------------------------
(* Initially the invariant holds, and every action preserves it.           *)

LEMMA InitIInv == Init => IInv
<1> SUFFICES ASSUME Init PROVE IInv
  OBVIOUS
<1>1. TypeOK
  <2>1. /\ row \in [Device -> {"none", "off", "on"}]
        /\ imds \in [Device -> OptSeen \cup {"absent"}]
        /\ told \in [Device -> OptSeen]
        /\ acc \in [Device -> PingAccountingInfo \cup {NoEntry}]
        /\ run \in [Device -> [seen : OptSeen, n : 0..HystLimit]]
    BY HystLimitAssumption DEF Init, OptSeen, PingAccountingInfo
  <2>2. /\ enabled \in BOOLEAN /\ poisoned \in BOOLEAN
        /\ refreshPc \in {"idle", "loaded"} /\ refreshList \subseteq Device
        /\ cleared \subseteq Device /\ pushed \subseteq Device /\ adrift \subseteq Device
    BY DEF Init
  <2>3. /\ pc \in [Worker -> {"top", "seed", "report", "dead"}]
        /\ shard \in [Worker -> SUBSET Device] /\ pending \in [Worker -> SUBSET Device]
    BY DEF Init
  <2>4. memberOps = 0 /\ pollingOps = 0 /\ pushes = 0 /\ dbFailures = 0
    BY DEF Init
  <2>5. QED
    BY <2>1, <2>2, <2>3, <2>4 DEF TypeOK
<1>2. \A d \in Device : acc[d] \notin PingAccountingInfo
  BY DEF Init, NoEntry, PingAccountingInfo
<1>3. QED
  BY <1>1, <1>2 DEF Init, IInv, ShardOK, PendingOK, StreakOK, UnknownOK, FlipOK

\* What the environment and the DB reads leave alone, the invariant does not see.
LEMMA QuietStep ==
    ASSUME IInv, TypeOK', UNCHANGED <<imds, poisoned, pc, shard, acc, pending, run, pushed>>
    PROVE  IInv'
BY DEF IInv, ShardOK, PendingOK, StreakOK, UnknownOK, FlipOK, OwnedBy

LEMMA EnvironmentStep ==
    ASSUME IInv, (\E d \in Device : ChangeRow(d)) \/ SystemPollingSet \/ RefreshLoad
    PROVE  IInv'
<1>1. ASSUME NEW d \in Device, ChangeRow(d) PROVE TypeOK'
  BY <1>1 DEF IInv, TypeOK, ChangeRow
<1>2. ASSUME SystemPollingSet PROVE TypeOK'
  BY <1>2 DEF IInv, TypeOK, SystemPollingSet
<1>3. ASSUME RefreshLoad PROVE TypeOK'
  BY <1>3 DEF IInv, TypeOK, RefreshLoad, DbRead, monitored
<1>4. QED
  BY <1>1, <1>2, <1>3, QuietStep DEF ChangeRow, SystemPollingSet, RefreshLoad

\* A refresh never makes IMDS show a state it did not show before.
LEMMA RefreshStep ==
    ASSUME IInv, RefreshApply
    PROVE  IInv'
<1> USE DEF IInv
<1>1. TypeOK'
  BY DEF TypeOK, RefreshApply, Refreshed, OptSeen
<1>2. \A d \in Device : imds'[d] \in Seen => imds[d] \in Seen
  BY DEF TypeOK, RefreshApply, Refreshed, OptSeen, Seen
<1>3. UnknownOK'
  BY <1>2 DEF UnknownOK, RefreshApply
<1>4. FlipOK'
  BY <1>2 DEF FlipOK, RefreshApply, TypeOK
<1>5. ShardOK' /\ PendingOK' /\ StreakOK'
  BY DEF ShardOK, PendingOK, StreakOK, RefreshApply, OwnedBy
<1>6. QED
  BY <1>1, <1>3, <1>4, <1>5

\* Dropping entries: none of them has a pending transition.
LEMMA PausedStep ==
    ASSUME IInv, NEW w \in Worker, PausedTick(w)
    PROVE  IInv'
<1> USE DEF IInv
<1>1. TypeOK'
  BY DEF TypeOK, PausedTick, OwnedBy
<1>2. \A d \in Device : acc'[d] = acc[d] \/ (acc'[d] = NoEntry /\ ShardOf[d] = w)
  BY DEF PausedTick, OwnedBy
<1>3. NoEntry \notin PingAccountingInfo
  BY DEF NoEntry, PingAccountingInfo
<1>4. pc[w] = "top"
  BY DEF PausedTick
<1>5. \A v \in Worker : \A d \in pending[v] : d \in Device /\ acc'[d] = acc[d]
  BY <1>2, <1>4 DEF PendingOK, TypeOK
<1>6. PendingOK' /\ FlipOK'
  BY <1>5 DEF PendingOK, FlipOK, PausedTick
<1>7. StreakOK' /\ UnknownOK' /\ ShardOK'
  BY <1>2, <1>3 DEF StreakOK, UnknownOK, ShardOK, OwnedBy, PausedTick
<1>8. QED
  BY <1>1, <1>6, <1>7

LEMMA LoadStep ==
    ASSUME IInv, NEW w \in Worker, LoadShard(w)
    PROVE  IInv'
<1> USE DEF IInv
<1>1. PICK list \in {monitored, {}} :
        /\ DbRead(monitored, list)
        /\ shard' = [shard EXCEPT ![w] = list \cap OwnedBy(w)]
        /\ acc' = [d \in Device |-> IF d \in OwnedBy(w) \ list THEN NoEntry ELSE acc[d]]
        /\ cleared' = cleared \ (OwnedBy(w) \ list)
  BY DEF LoadShard
<1>2. TypeOK'
  BY <1>1 DEF TypeOK, LoadShard, DbRead, OwnedBy, monitored
<1>3. \A d \in Device : acc'[d] = acc[d] \/ (acc'[d] = NoEntry /\ ShardOf[d] = w)
  BY <1>1 DEF OwnedBy
<1>4. NoEntry \notin PingAccountingInfo
  BY DEF NoEntry, PingAccountingInfo
<1>5. pc[w] = "top" /\ pc' = [pc EXCEPT ![w] = "seed"]
  BY DEF LoadShard
<1>6. \A v \in Worker : \A d \in pending[v] :
         d \in Device /\ acc'[d] = acc[d] /\ pc'[v] = pc[v]
  BY <1>3, <1>5 DEF PendingOK, TypeOK
<1>7. PendingOK' /\ FlipOK'
  <2>1. UNCHANGED <<pending, run, imds, poisoned, pushed>>
    BY DEF LoadShard
  <2>2. PendingOK'
    BY <1>6, <2>1 DEF PendingOK
  <2>3. FlipOK'
    BY <1>6, <2>1 DEF FlipOK
  <2>4. QED
    BY <2>2, <2>3
<1>8. StreakOK' /\ UnknownOK'
  BY <1>3, <1>4 DEF StreakOK, UnknownOK, LoadShard
<1>9. ShardOK'
  BY <1>1 DEF ShardOK, OwnedBy, TypeOK
<1>10. QED
  BY <1>2, <1>7, <1>8, <1>9

\* Seeding takes an unknown state only from an entry IMDS does not know either.
LEMMA SeedStep ==
    ASSUME IInv, NEW w \in Worker, NEW d \in Device, SeedNewcomer(w, d)
    PROVE  IInv'
<1> USE DEF IInv
<1>1. SeedFrom(d) \in OptSeen
  BY DEF SeedFrom, TypeOK, OptSeen
<1>2. NewAccounting(SeedFrom(d)) \in PingAccountingInfo
  BY <1>1, NewAccountingType
<1>3. TypeOK'
  BY <1>2 DEF TypeOK, SeedNewcomer
<1>4. acc' = [acc EXCEPT ![d] = NewAccounting(SeedFrom(d))]
  BY DEF SeedNewcomer
<1>5. pc[w] = "seed" /\ ShardOf[d] = w
  BY DEF SeedNewcomer, ShardOK, OwnedBy
<1>6. PendingOK' /\ FlipOK'
  BY <1>4, <1>5 DEF PendingOK, FlipOK, SeedNewcomer, TypeOK
<1>7. Streak(NewAccounting(SeedFrom(d)), run[d])
  BY DEF Streak, NewAccounting
<1>8. StreakOK'
  BY <1>4, <1>7 DEF StreakOK, SeedNewcomer, TypeOK
<1>9. UnknownOK'
  BY <1>4 DEF UnknownOK, SeedNewcomer, NewAccounting, SeedFrom, Seen, TypeOK
<1>10. ShardOK'
  BY DEF ShardOK, SeedNewcomer, OwnedBy
<1>11. QED
  BY <1>3, <1>6, <1>8, <1>9, <1>10

\* One tick's observations: the entry and the history of each pinged device move
\* together, and a transition becomes pending only with its justification.
LEMMA PingStep ==
    ASSUME IInv, NEW w \in Worker, PingShard(w)
    PROVE  IInv'
<1> USE DEF IInv
<1>1. PICK responded \in [shard[w] -> Seen] :
        LET moved == {d \in shard[w] : Reports(acc[d], responded[d])} IN
        /\ acc' = [d \in Device |-> IF d \in shard[w]
                                    THEN AdvanceInfo(acc[d], responded[d]) ELSE acc[d]]
        /\ run' = [d \in Device |-> IF d \in shard[w]
                                    THEN Observe(run[d], responded[d]) ELSE run[d]]
        /\ pending' = [pending EXCEPT ![w] = moved]
        /\ pc' = [pc EXCEPT ![w] = IF moved = {} THEN "top" ELSE "report"]
  BY DEF PingShard
<1> DEFINE moved == {d \in shard[w] : Reports(acc[d], responded[d])}
<1>2. /\ \A d \in Device : d \notin shard[w] => acc'[d] = acc[d] /\ run'[d] = run[d]
      /\ \A d \in shard[w] : /\ d \in Device /\ ShardOf[d] = w
                             /\ responded[d] \in Seen
                             /\ acc'[d] = AdvanceInfo(acc[d], responded[d])
                             /\ run'[d] = Observe(run[d], responded[d])
  BY <1>1 DEF TypeOK, ShardOK, OwnedBy
<1>3. \A d \in shard[w] : acc[d] \in PingAccountingInfo /\ run[d] \in History
  BY <1>2 DEF PingShard, Seeded, Tracked, TypeOK, History
<1>4. \A d \in shard[w] : Streak(acc[d], run[d])
  BY <1>2, <1>3 DEF StreakOK
<1>5. \A d \in shard[w] : /\ acc'[d] \in PingAccountingInfo
                          /\ run'[d] \in History
                          /\ Streak(acc'[d], run'[d])
                          /\ acc'[d].responsive \in Seen
  BY <1>2, <1>3, <1>4, AdvanceInfoType, ObserveType, AdvanceInfoStreak
<1>6. \A d \in moved : acc[d].responsive \in Seen =>
                          run'[d].seen = acc'[d].responsive /\ run'[d].n = HystLimit
  BY <1>2, <1>3, <1>4, AdvanceInfoStreak
<1>7. moved \subseteq Device
  BY <1>2
<1>8. pc[w] = "seed" /\ pending' = [pending EXCEPT ![w] = moved]
      /\ pc' = [pc EXCEPT ![w] = IF moved = {} THEN "top" ELSE "report"]
  BY <1>1 DEF PingShard, Seeded
<1> HIDE DEF moved
<1>9. TypeOK'
  <2>1. acc' \in [Device -> PingAccountingInfo \cup {NoEntry}]
    BY <1>1, <1>2, <1>5 DEF TypeOK
  <2>2. run' \in [Device -> [seen : OptSeen, n : 0..HystLimit]]
    BY <1>1, <1>2, <1>5 DEF TypeOK, History
  <2>3. pending' \in [Worker -> SUBSET Device] /\ pc' \in [Worker -> {"top", "seed", "report", "dead"}]
    BY <1>7, <1>8 DEF TypeOK
  <2>4. QED
    BY <2>1, <2>2, <2>3 DEF TypeOK, PingShard
<1>10. StreakOK'
  BY <1>2, <1>5 DEF StreakOK
<1>11. UnknownOK'
  <2>1. \A d \in shard[w] : acc'[d].responsive # "none"
    BY <1>5 DEF Seen
  <2>2. QED
    BY <1>2, <2>1 DEF UnknownOK, PingShard
<1>12. \A v \in Worker : \A d \in pending'[v] :
          \/ v = w /\ d \in moved
          \/ v # w /\ d \in pending[v] /\ d \notin shard[w] /\ d \in Device
  BY <1>2, <1>8 DEF PendingOK, TypeOK
<1>13. moved \subseteq shard[w]
  BY DEF moved
<1>14. PendingOK'
  <2> SUFFICES ASSUME NEW v \in Worker, NEW d \in pending'[v]
               PROVE  /\ pc'[v] = "report" /\ ShardOf[d] = v
                      /\ acc'[d] \in PingAccountingInfo /\ acc'[d].responsive \in Seen
    BY DEF PendingOK
  <2>1. CASE v = w /\ d \in moved
    BY <2>1, <1>2, <1>5, <1>8, <1>13 DEF TypeOK
  <2>2. CASE v # w /\ d \in pending[v] /\ d \notin shard[w] /\ d \in Device
    BY <2>2, <1>2, <1>8 DEF PendingOK, TypeOK
  <2>3. QED
    BY <2>1, <2>2, <1>12
<1>15. FlipOK'
  <2> SUFFICES ASSUME NEW v \in Worker, NEW d \in pending'[v], imds[d] \in Seen,
                      ~poisoned, d \notin pushed
               PROVE  run'[d].seen = acc'[d].responsive /\ run'[d].n = HystLimit
    BY DEF FlipOK, PingShard
  <2>1. CASE v = w /\ d \in moved
    <3>1. acc[d].responsive # "none"
      BY <2>1, <1>2, <1>3, <1>13 DEF UnknownOK
    <3>2. acc[d].responsive \in Seen
      BY <3>1, <2>1, <1>3, <1>13 DEF PingAccountingInfo, OptSeen
    <3>3. QED
      BY <2>1, <3>2, <1>6
  <2>2. CASE v # w /\ d \in pending[v] /\ d \notin shard[w] /\ d \in Device
    BY <2>2, <1>2 DEF FlipOK
  <2>3. QED
    BY <2>1, <2>2, <1>12
<1>16. ShardOK'
  BY DEF ShardOK, OwnedBy, PingShard
<1>17. QED
  BY <1>9, <1>10, <1>11, <1>14, <1>15, <1>16

LEMMA SkipStep ==
    ASSUME IInv, NEW w \in Worker, SkipPing(w)
    PROVE  IInv'
<1> USE DEF IInv
<1>1. TypeOK'
  BY DEF TypeOK, SkipPing
<1>2. pc[w] = "seed" /\ pc' = [pc EXCEPT ![w] = "top"]
  BY DEF SkipPing, Seeded
<1>3. PendingOK'
  BY <1>2 DEF PendingOK, SkipPing, TypeOK
<1>4. ShardOK' /\ StreakOK' /\ UnknownOK' /\ FlipOK'
  BY DEF ShardOK, StreakOK, UnknownOK, FlipOK, SkipPing, OwnedBy
<1>5. QED
  BY <1>1, <1>3, <1>4

\* Taking one transition off the pending set leaves the others justified.
LEMMA ReportedPending ==
    ASSUME IInv, NEW w \in Worker, NEW d \in pending[w], Reported(w, d),
           pc[w] = "report", UNCHANGED acc
    PROVE  /\ pending' \in [Worker -> SUBSET Device]
           /\ pc' \in [Worker -> {"top", "seed", "report", "dead"}]
           /\ \A v \in Worker : \A x \in pending'[v] : x \in pending[v] /\ x # d
           /\ PendingOK'
<1> USE DEF IInv
<1>1. pending' \in [Worker -> SUBSET Device] /\ pc' \in [Worker -> {"top", "seed", "report", "dead"}]
  BY DEF Reported, TypeOK
<1>2. \A v \in Worker : \A x \in pending'[v] : x \in pending[v] /\ x # d
  <2> SUFFICES ASSUME NEW v \in Worker, NEW x \in pending'[v]
               PROVE  x \in pending[v] /\ x # d
    OBVIOUS
  <2>1. CASE v = w
    BY <2>1 DEF Reported, TypeOK
  <2>2. CASE v # w
    <3>1. x \in pending[v]
      BY <2>2 DEF Reported, TypeOK
    <3>2. ShardOf[x] = v /\ ShardOf[d] = w
      BY <3>1 DEF PendingOK
    <3>3. QED
      BY <3>1, <3>2, <2>2
  <2>3. QED
    BY <2>1, <2>2
<1>3. \A v \in Worker : pending'[v] # {} => pc'[v] = pc[v]
  BY DEF Reported, TypeOK
<1>4. PendingOK'
  BY <1>2, <1>3 DEF PendingOK
<1>5. QED
  BY <1>1, <1>2, <1>4

LEMMA ReportStep ==
    ASSUME IInv, NEW w \in Worker, NEW d \in Device, ReportUp(w, d)
    PROVE  IInv'
<1> USE DEF IInv
<1>1. d \in pending[w] /\ pc[w] = "report" /\ Reported(w, d) /\ UNCHANGED acc
  BY DEF ReportUp
<1>2. acc[d] \in PingAccountingInfo /\ acc[d].responsive \in Seen
  BY <1>1 DEF PendingOK
<1>3. imds' = [imds EXCEPT ![d] = acc[d].responsive]
  BY DEF ReportUp, ReportDevice
<1>4. /\ pending' \in [Worker -> SUBSET Device]
      /\ pc' \in [Worker -> {"top", "seed", "report", "dead"}]
      /\ \A v \in Worker : \A x \in pending'[v] : x \in pending[v] /\ x # d
      /\ PendingOK'
  BY <1>1, ReportedPending
<1>5. told' \in [Device -> OptSeen] /\ dbFailures' \in Nat
  BY <1>2 DEF ReportUp, EmitPingChange, DbRead, TypeOK, OptSeen
<1>6. imds' \in [Device -> OptSeen \cup {"absent"}]
  BY <1>2, <1>3 DEF TypeOK, OptSeen
<1>7. TypeOK'
  BY <1>4, <1>5, <1>6 DEF TypeOK, ReportUp
<1>8. UnknownOK'
  BY <1>2, <1>3 DEF UnknownOK, ReportUp, TypeOK, Seen
<1>9. FlipOK'
  BY <1>3, <1>4 DEF FlipOK, ReportUp, TypeOK
<1>10. ShardOK' /\ StreakOK'
  BY DEF ShardOK, StreakOK, OwnedBy, ReportUp
<1>11. QED
  BY <1>4, <1>7, <1>8, <1>9, <1>10

LEMMA LoseStep ==
    ASSUME IInv, NEW w \in Worker, NEW d \in Device, LoseReport(w, d)
    PROVE  IInv'
<1> USE DEF IInv
<1>1. d \in pending[w] /\ pc[w] = "report" /\ Reported(w, d) /\ UNCHANGED acc
  BY DEF LoseReport
<1>2. /\ pending' \in [Worker -> SUBSET Device]
      /\ pc' \in [Worker -> {"top", "seed", "report", "dead"}]
      /\ \A v \in Worker : \A x \in pending'[v] : x \in pending[v] /\ x # d
      /\ PendingOK'
  BY <1>1, ReportedPending
<1>3. TypeOK'
  BY <1>2 DEF TypeOK, LoseReport
<1>4. FlipOK'
  BY <1>2 DEF FlipOK, LoseReport
<1>5. ShardOK' /\ StreakOK' /\ UnknownOK'
  BY DEF ShardOK, StreakOK, UnknownOK, OwnedBy, LoseReport
<1>6. QED
  BY <1>2, <1>3, <1>4, <1>5

\* An agent's report: a device it makes known behind its worker's back joins pushed.
LEMMA PushStep ==
    ASSUME IInv, NEW d \in Device, NEW up \in Seen, MonitoredDeviceReport(d, up)
    PROVE  IInv'
<1> USE DEF IInv
<1>1. UNCHANGED <<pc, shard, acc, pending, run>>
  BY DEF MonitoredDeviceReport
<1>2. ShardOK' /\ PendingOK' /\ StreakOK'
  BY <1>1 DEF ShardOK, PendingOK, StreakOK, OwnedBy
<1>3. CASE ReportPanics(d, up) /\ UNCHANGED pushed
  <2>1. TypeOK'
    BY <1>3 DEF MonitoredDeviceReport, ReportPanics, TypeOK
  <2>2. UnknownOK' /\ FlipOK'
    BY <1>3 DEF ReportPanics, UnknownOK, FlipOK
  <2>3. QED
    BY <1>2, <2>1, <2>2
<1>4. CASE ~(ReportPanics(d, up) /\ UNCHANGED pushed)
  <2>1. /\ ReportDevice(d, up) /\ EmitPingChange(d, up) /\ UNCHANGED poisoned /\ ~poisoned
        /\ pushed' = IF Tracked(d) /\ imds[d] \notin Seen THEN pushed \cup {d} ELSE pushed
        /\ adrift' \in {adrift, adrift \cup {d}}
    BY <1>4 DEF MonitoredDeviceReport
  <2>2. \A x \in Device : imds'[x] = IF x = d THEN up ELSE imds[x]
    BY <2>1 DEF ReportDevice, TypeOK
  <2>3. told' \in [Device -> OptSeen] /\ dbFailures' \in Nat
    BY <2>1 DEF EmitPingChange, DbRead, TypeOK, OptSeen
  <2>4. imds' \in [Device -> OptSeen \cup {"absent"}]
    BY <2>1 DEF ReportDevice, TypeOK, OptSeen
  <2>5. TypeOK'
    BY <2>1, <2>3, <2>4 DEF MonitoredDeviceReport, TypeOK
  <2>6. \A x \in Device \ pushed' : /\ x \notin pushed
                                    /\ Tracked(x) /\ imds'[x] \in Seen => imds[x] \in Seen
    BY <2>1, <2>2
  <2>7. \A x \in Device : acc[x] \in PingAccountingInfo => Tracked(x)
    BY DEF Tracked, NoEntry, PingAccountingInfo
  <2>8. UnknownOK'
    BY <1>1, <2>1, <2>6, <2>7 DEF UnknownOK
  <2>9. FlipOK'
    <3> SUFFICES ASSUME NEW v \in Worker, NEW x \in pending[v], x \notin pushed',
                        imds'[x] \in Seen
                 PROVE  run[x].seen = acc[x].responsive /\ run[x].n = HystLimit
      BY <1>1 DEF FlipOK
    <3>1. x \in Device /\ acc[x] \in PingAccountingInfo
      BY DEF TypeOK, PendingOK
    <3>2. x \notin pushed /\ imds[x] \in Seen
      BY <3>1, <2>6, <2>7
    <3>3. QED
      BY <3>2, <2>1 DEF FlipOK
  <2>10. QED
    BY <1>2, <2>5, <2>8, <2>9
<1>5. QED
  BY <1>3, <1>4

\* A dead worker has no accounting left; the poisoned store takes no more reports.
LEMMA DieStep ==
    ASSUME IInv, NEW w \in Worker, NEW d \in Device, DieReporting(w, d)
    PROVE  IInv'
<1> USE DEF IInv
<1>1. /\ ReportPanics(d, acc[d].responsive)
      /\ pc' = [pc EXCEPT ![w] = "dead"]
      /\ pending' = [pending EXCEPT ![w] = {}]
      /\ acc' = [x \in Device |-> IF x \in OwnedBy(w) THEN NoEntry ELSE acc[x]]
  BY DEF DieReporting
<1>2. TypeOK'
  BY <1>1 DEF DieReporting, ReportPanics, TypeOK
<1>3. NoEntry \notin PingAccountingInfo
  BY DEF NoEntry, PingAccountingInfo
<1>4. PendingOK'
  <2> SUFFICES ASSUME NEW v \in Worker, NEW x \in pending'[v]
               PROVE  /\ pc'[v] = "report" /\ ShardOf[x] = v
                      /\ acc'[x] \in PingAccountingInfo /\ acc'[x].responsive \in Seen
    BY DEF PendingOK
  <2>1. v # w /\ x \in pending[v] /\ pc'[v] = pc[v]
    BY <1>1 DEF TypeOK
  <2>2. x \in Device /\ ShardOf[x] = v
    BY <2>1 DEF TypeOK, PendingOK
  <2>3. acc'[x] = acc[x]
    BY <2>1, <2>2, <1>1 DEF OwnedBy
  <2>4. QED
    BY <2>1, <2>3 DEF PendingOK
<1>5. StreakOK'
  BY <1>1, <1>3 DEF DieReporting, StreakOK
<1>6. ShardOK' /\ UnknownOK' /\ FlipOK'
  BY <1>1 DEF DieReporting, ReportPanics, ShardOK, UnknownOK, FlipOK, OwnedBy
<1>7. QED
  BY <1>2, <1>4, <1>5, <1>6

LEMMA NextIInv == IInv /\ [Next]_vars => IInv'
<1> SUFFICES ASSUME IInv, [Next]_vars PROVE IInv'
  OBVIOUS
<1>1. CASE UNCHANGED vars
  <2>1. TypeOK'
    BY <1>1 DEF IInv, TypeOK, vars
  <2>2. QED
    BY <1>1, <2>1, QuietStep DEF vars
<1>2. CASE Next
  BY <1>2, EnvironmentStep, RefreshStep, PausedStep, LoadStep, SeedStep, PingStep,
     SkipStep, ReportStep, LoseStep, DieStep, PushStep DEF Next, WorkerStep
<1>3. QED
  BY <1>1, <1>2

LEMMA Invariance == Spec => []IInv
<1>1. QED
  BY InitIInv, NextIInv, PTL DEF Spec

\* Every variable stays in its type, for all constants: in particular no report
\* ever writes anything but up or down into IMDS, which needs the invariant's
\* knowledge that a pending transition belongs to a tracked device.
THEOREM TypeCorrect == Spec => []TypeOK
<1>1. IInv => TypeOK
  BY DEF IInv
<1>2. QED
  BY <1>1, Invariance, PTL

\* Between the reports of agents a device shown up or down flips only after HystLimit
\* agreeing pings in a row, for any number of devices, workers, refreshes, pauses, lost
\* reports, panics and membership changes (advance_hysteresis as used by
\* ping_shard_worker).
THEOREM FlipsAreConfirmed == Spec => FlipNeedsStreak
<1> DEFINE Confirmed ==
        \A d \in Device \ pushed :
          (imds[d] \in Seen /\ imds'[d] \in Seen /\ imds'[d] # imds[d] /\ pushes' = pushes)
             => run[d].seen = imds'[d] /\ run[d].n = HystLimit
<1>1. IInv /\ [Next]_vars => [Confirmed]_imds
  <2> SUFFICES ASSUME IInv, [Next]_vars, NEW d \in Device, d \notin pushed,
                      imds[d] \in Seen, imds'[d] \in Seen, imds'[d] # imds[d],
                      pushes' = pushes
               PROVE  run[d].seen = imds'[d] /\ run[d].n = HystLimit
    OBVIOUS
  <2>1. ~RefreshApply
    BY DEF RefreshApply, Refreshed, Seen
  <2>2. ~(\E x \in Device, up \in Seen : MonitoredDeviceReport(x, up))
    BY DEF MonitoredDeviceReport, IInv, TypeOK
  <2>3. PICK w \in Worker, x \in Device : ReportUp(w, x)
    BY <2>1, <2>2 DEF Next, vars, WorkerStep, ChangeRow, SystemPollingSet, RefreshLoad,
        PausedTick, LoadShard, SeedNewcomer, PingShard, SkipPing, LoseReport, DieReporting,
        ReportPanics
  <2>4. imds' = [imds EXCEPT ![x] = acc[x].responsive] /\ x \in pending[w] /\ ~poisoned
    BY <2>3 DEF ReportUp, ReportDevice
  <2>5. x = d /\ imds'[d] = acc[d].responsive
    BY <2>4 DEF IInv, TypeOK
  <2>6. QED
    BY <2>4, <2>5 DEF IInv, FlipOK
<1>2. QED
  BY <1>1, Invariance, PTL DEF Spec, FlipNeedsStreak

-----------------------------------------------------------------------------
(* Worker and store agree about every monitored device that is not adrift. *)

\* Nothing of a poisoned store can be trusted.
PoisonOK == poisoned => adrift = Device

\* A refresh on its way does not lack a device that is not adrift.
ListedOK == \A d \in monitored \ adrift : ~Missed(d)

Agree == PoisonOK /\ ListedOK /\ WorkerAgreesWithIMDS

AgreeInv == IInv /\ Agree

LEMMA AgreeInit == Init => AgreeInv
<1> SUFFICES ASSUME Init PROVE AgreeInv
  OBVIOUS
<1>1. Agree
  <2>1. poisoned = FALSE /\ refreshPc = "idle" /\ \A d \in Device : acc[d] = NoEntry
    BY DEF Init
  <2>2. QED
    BY <2>1 DEF Agree, PoisonOK, ListedOK, Missed, WorkerAgreesWithIMDS, Tracked, monitored
<1>2. QED
  BY <1>1, InitIInv DEF AgreeInv

\* A row that turns on where IMDS or its worker may lag behind is adrift from then on.
LEMMA AgreeRow ==
    ASSUME IInv, Agree, NEW c \in Device, ChangeRow(c)
    PROVE  Agree'
<1>1. UNCHANGED <<imds, poisoned, refreshPc, refreshList, acc, pending>>
  BY DEF ChangeRow
<1>2. adrift \subseteq adrift' /\ adrift' \subseteq Device
  BY DEF ChangeRow, IInv, TypeOK
<1>3. \A d \in monitored' \ adrift' :
         \/ d \in monitored \ adrift
         \/ ~Missed(d) /\ ~Tracked(d)
  <2> SUFFICES ASSUME NEW d \in Device, d \in monitored', d \notin adrift', d \notin monitored
               PROVE  ~Missed(d) /\ ~Tracked(d)
    BY <1>2 DEF monitored
  <2>1. PICK state \in {"none", "off", "on"} \ {row[c]} :
          /\ row' = [row EXCEPT ![c] = state]
          /\ adrift' = IF state = "on" /\ (Missed(c) \/ Tracked(c))
                       THEN adrift \cup {c} ELSE adrift
    BY DEF ChangeRow
  <2>2. d = c /\ state = "on"
    BY <2>1 DEF monitored, IInv, TypeOK
  <2>3. QED
    BY <2>1, <2>2
<1>4. PoisonOK'
  BY <1>1, <1>2 DEF Agree, PoisonOK
<1>5. ListedOK'
  BY <1>1, <1>3 DEF Agree, ListedOK, Missed
<1>6. WorkerAgreesWithIMDS'
  BY <1>1, <1>3 DEF Agree, WorkerAgreesWithIMDS, Tracked
<1>7. QED
  BY <1>4, <1>5, <1>6 DEF Agree

\* A refresh that lacks a monitored device sets it adrift when it reads, not later.
LEMMA AgreeRefresh ==
    ASSUME IInv, Agree, RefreshLoad \/ RefreshApply
    PROVE  Agree'
<1>1. CASE RefreshLoad
  <2>1. PICK list \in {monitored, {}} :
          refreshList' = list /\ adrift' = adrift \cup (monitored \ list)
    BY <1>1 DEF RefreshLoad
  <2>2. UNCHANGED <<row, imds, poisoned, acc, pending>> /\ monitored' = monitored
    BY <1>1 DEF RefreshLoad, monitored
  <2>3. QED
    BY <2>1, <2>2 DEF Agree, PoisonOK, ListedOK, Missed, WorkerAgreesWithIMDS, Tracked,
                      monitored
<1>2. CASE RefreshApply
  <2>1. /\ refreshPc' = "idle" /\ refreshPc = "loaded"
        /\ UNCHANGED <<row, poisoned, acc, pending, adrift>>
    BY <1>2 DEF RefreshApply
  <2>2. monitored' = monitored
    BY <2>1 DEF monitored
  <2>3. \A d \in monitored \ adrift :
           imds'[d] = IF imds[d] = "absent" THEN "none" ELSE imds[d]
    <3> SUFFICES ASSUME NEW d \in Device, d \in monitored, d \notin adrift
                 PROVE  imds'[d] = IF imds[d] = "absent" THEN "none" ELSE imds[d]
      BY DEF monitored
    <3>1. ~poisoned /\ d \in refreshList
      BY <2>1 DEF Agree, PoisonOK, ListedOK, Missed
    <3>2. QED
      BY <3>1, <1>2 DEF RefreshApply, Refreshed
  <2>4. ASSUME NEW d \in monitored \ adrift, imds[d] \in Seen
        PROVE  imds'[d] = imds[d]
    BY <2>3, <2>4 DEF Seen
  <2>5. WorkerAgreesWithIMDS'
    BY <2>1, <2>2, <2>4 DEF Agree, WorkerAgreesWithIMDS, Tracked
  <2>6. QED
    BY <2>1, <2>2, <2>5 DEF Agree, PoisonOK, ListedOK, Missed
<1>3. QED
  BY <1>1, <1>2

\* Dropping accounting and listing the shard.
LEMMA AgreeDrop ==
    ASSUME IInv, Agree, NEW w \in Worker, PausedTick(w) \/ LoadShard(w)
    PROVE  Agree'
<1>1. UNCHANGED <<row, imds, poisoned, adrift, refreshPc, refreshList, pending>>
  BY DEF PausedTick, LoadShard
<1>2. \A d \in Device : acc'[d] = acc[d] \/ acc'[d] = NoEntry
  BY DEF PausedTick, LoadShard
<1>3. QED
  BY <1>1, <1>2 DEF Agree, PoisonOK, ListedOK, Missed, WorkerAgreesWithIMDS, Tracked, monitored

\* A newcomer starts from what IMDS shows.
LEMMA AgreeSeed ==
    ASSUME IInv, Agree, NEW w \in Worker, NEW d \in Device, SeedNewcomer(w, d)
    PROVE  Agree'
<1>1. UNCHANGED <<row, imds, poisoned, adrift, refreshPc, refreshList, pending>>
  BY DEF SeedNewcomer
<1>2. \A x \in Device : acc'[x] = IF x = d THEN NewAccounting(SeedFrom(d)) ELSE acc[x]
  BY DEF SeedNewcomer, IInv, TypeOK
<1>3. acc'[d].responsive \in Seen => imds[d] = acc'[d].responsive
  BY <1>2 DEF NewAccounting, SeedFrom, Seen
<1>4. monitored' = monitored
  BY <1>1 DEF monitored
<1>5. WorkerAgreesWithIMDS'
  BY <1>1, <1>2, <1>3, <1>4 DEF Agree, WorkerAgreesWithIMDS, Tracked, monitored
<1>6. QED
  BY <1>1, <1>4, <1>5 DEF Agree, PoisonOK, ListedOK, Missed

\* A state that moves is pending, one that stays still agrees with IMDS.
LEMMA AgreePing ==
    ASSUME IInv, Agree, NEW w \in Worker, PingShard(w)
    PROVE  Agree'
<1>1. UNCHANGED <<row, imds, poisoned, adrift, refreshPc, refreshList, shard>>
  BY DEF PingShard
<1>2. PICK responded \in [shard[w] -> Seen] :
        LET moved == {d \in shard[w] : Reports(acc[d], responded[d])} IN
        /\ acc' = [d \in Device |-> IF d \in shard[w]
                                    THEN AdvanceInfo(acc[d], responded[d]) ELSE acc[d]]
        /\ pending' = [pending EXCEPT ![w] = moved]
  BY DEF PingShard
<1> DEFINE moved == {d \in shard[w] : Reports(acc[d], responded[d])}
<1>3. \A d \in Device : acc'[d] = IF d \in shard[w] THEN AdvanceInfo(acc[d], responded[d]) ELSE acc[d]
  BY <1>2
<1>4. \A v \in Worker : pending'[v] = IF v = w THEN moved ELSE pending[v]
  BY <1>2 DEF IInv, TypeOK
<1>5. \A d \in shard[w] : Tracked(d) /\ ShardOf[d] = w
  BY DEF PingShard, Seeded, IInv, ShardOK, OwnedBy
<1>6. pending[w] = {}
  BY DEF PingShard, Seeded, IInv, PendingOK
<1>7. monitored' = monitored
  BY <1>1 DEF monitored
<1>8. WorkerAgreesWithIMDS'
  <2> SUFFICES ASSUME NEW d \in Device, d \in monitored \ adrift,
                      acc'[d] # NoEntry, acc'[d].responsive \in Seen,
                      d \notin pending'[ShardOf[d]]
               PROVE  imds[d] = acc'[d].responsive
    BY <1>1, <1>7 DEF WorkerAgreesWithIMDS, Tracked, monitored
  <2>1. CASE d \in shard[w]
    <3>1. d \notin moved
      BY <2>1, <1>4, <1>5
    <3>2. acc'[d].responsive = acc[d].responsive
      BY <2>1, <3>1, <1>3 DEF Reports
    <3>3. d \notin pending[ShardOf[d]]
      BY <2>1, <1>5, <1>6
    <3>4. QED
      BY <2>1, <3>2, <3>3, <1>5 DEF Agree, WorkerAgreesWithIMDS
  <2>2. CASE d \notin shard[w]
    <3>1. acc'[d] = acc[d]
      BY <2>2, <1>3
    <3>2. d \notin pending[ShardOf[d]]
      BY <1>4, <1>6, ShardAssumption
    <3>3. QED
      BY <3>1, <3>2 DEF Agree, WorkerAgreesWithIMDS, Tracked
  <2>3. QED
    BY <2>1, <2>2
<1>9. QED
  BY <1>1, <1>7, <1>8 DEF Agree, PoisonOK, ListedOK, Missed

\* report_device brings a device back that no refresh is about to purge.
LEMMA AgreeReport ==
    ASSUME IInv, Agree, NEW w \in Worker, NEW d \in Device, ReportUp(w, d)
    PROVE  Agree'
<1>1. /\ d \in pending[w] /\ ~poisoned
      /\ UNCHANGED <<row, poisoned, refreshPc, refreshList, acc>>
      /\ adrift' = IF Missed(d) THEN adrift ELSE adrift \ {d}
  BY DEF ReportUp
<1>2. ShardOf[d] = w
  BY <1>1 DEF IInv, PendingOK
<1>3. \A x \in Device : imds'[x] = IF x = d THEN acc[d].responsive ELSE imds[x]
  BY DEF ReportUp, ReportDevice, IInv, TypeOK
<1>4. \A v \in Worker : pending'[v] = IF v = w THEN pending[w] \ {d} ELSE pending[v]
  BY DEF ReportUp, Reported, IInv, TypeOK
<1>5. monitored' = monitored /\ monitored \subseteq Device
  BY <1>1 DEF monitored
<1>6. ListedOK'
  BY <1>1, <1>5 DEF Agree, ListedOK, Missed
<1>7. WorkerAgreesWithIMDS'
  <2> SUFFICES ASSUME NEW x \in Device, x \in monitored \ adrift', acc[x] # NoEntry,
                      acc[x].responsive \in Seen, x \notin pending'[ShardOf[x]]
               PROVE  imds'[x] = acc[x].responsive
    BY <1>1, <1>5 DEF WorkerAgreesWithIMDS, Tracked
  <2>1. CASE x = d
    BY <2>1, <1>3
  <2>2. CASE x # d
    <3>1. x \notin pending[ShardOf[x]] /\ x \notin adrift
      BY <2>2, <1>1, <1>4, ShardAssumption
    <3>2. QED
      BY <2>2, <3>1, <1>3 DEF Agree, WorkerAgreesWithIMDS, Tracked
  <2>3. QED
    BY <2>1, <2>2
<1>8. QED
  BY <1>1, <1>6, <1>7 DEF Agree, PoisonOK

\* A lost transition sets its device adrift.
LEMMA AgreeLose ==
    ASSUME IInv, Agree, NEW w \in Worker, NEW d \in Device, LoseReport(w, d)
    PROVE  Agree'
<1>1. /\ UNCHANGED <<row, imds, poisoned, refreshPc, refreshList, acc>>
      /\ adrift' = adrift \cup {d}
  BY DEF LoseReport
<1>2. \A v \in Worker : \A x \in pending[v] : x = d \/ x \in pending'[v]
  BY DEF LoseReport, Reported, IInv, TypeOK
<1>3. monitored' = monitored /\ monitored \subseteq Device
  BY <1>1 DEF monitored
<1>4. PoisonOK' /\ ListedOK'
  BY <1>1, <1>3 DEF Agree, PoisonOK, ListedOK, Missed
<1>5. WorkerAgreesWithIMDS'
  BY <1>1, <1>2, <1>3, ShardAssumption DEF Agree, WorkerAgreesWithIMDS, Tracked
<1>6. QED
  BY <1>4, <1>5 DEF Agree

\* An agent that contradicts the worker sets the device adrift.
LEMMA AgreePush ==
    ASSUME IInv, Agree, NEW d \in Device, NEW up \in Seen, MonitoredDeviceReport(d, up),
           ~ReportPanics(d, up)
    PROVE  Agree'
<1>1. /\ ReportDevice(d, up) /\ ~poisoned
      /\ UNCHANGED <<row, poisoned, refreshPc, refreshList, acc, pending>>
      /\ adrift' = IF Tracked(d) /\ acc[d].responsive \in Seen \ {up}
                   THEN adrift \cup {d} ELSE adrift
  BY DEF MonitoredDeviceReport
<1>2. \A x \in Device : imds'[x] = IF x = d THEN up ELSE imds[x]
  BY <1>1 DEF ReportDevice, IInv, TypeOK
<1>3. monitored' = monitored /\ monitored \subseteq Device
  BY <1>1 DEF monitored
<1>4. WorkerAgreesWithIMDS'
  <2> SUFFICES ASSUME NEW x \in Device, x \in monitored \ adrift', Tracked(x),
                      acc[x].responsive \in Seen, x \notin pending[ShardOf[x]]
               PROVE  imds'[x] = acc[x].responsive
    BY <1>1, <1>3 DEF WorkerAgreesWithIMDS, Tracked
  <2>1. CASE x = d
    BY <2>1, <1>1, <1>2
  <2>2. CASE x # d
    BY <2>2, <1>1, <1>2 DEF Agree, WorkerAgreesWithIMDS
  <2>3. QED
    BY <2>1, <2>2
<1>5. PoisonOK' /\ ListedOK'
  BY <1>1, <1>3 DEF Agree, PoisonOK, ListedOK, Missed
<1>6. QED
  BY <1>4, <1>5 DEF Agree

LEMMA NextAgree == AgreeInv /\ [Next]_vars => AgreeInv'
<1> SUFFICES ASSUME AgreeInv, [Next]_vars PROVE Agree'
  BY NextIInv DEF AgreeInv
<1>1. IInv /\ Agree
  BY DEF AgreeInv
<1>2. ASSUME UNCHANGED <<row, imds, poisoned, adrift, refreshPc, refreshList, acc, pending>>
      PROVE  Agree'
  BY <1>1, <1>2 DEF Agree, PoisonOK, ListedOK, Missed, WorkerAgreesWithIMDS, Tracked, monitored
<1>3. ASSUME NEW d \in Device, NEW up \in Seen, ReportPanics(d, up) PROVE Agree'
  BY <1>3 DEF ReportPanics, Agree, PoisonOK, ListedOK, WorkerAgreesWithIMDS, monitored
<1>4. CASE UNCHANGED vars
  BY <1>2, <1>4 DEF vars
<1>5. CASE SystemPollingSet
  BY <1>2, <1>5 DEF SystemPollingSet
<1>6. ASSUME NEW w \in Worker, NEW d \in Device, DieReporting(w, d) PROVE Agree'
  <2>1. acc[d].responsive \in Seen
    BY <1>1, <1>6 DEF DieReporting, IInv, PendingOK
  <2>2. QED
    BY <1>3, <1>6, <2>1 DEF DieReporting
<1>7. ASSUME NEW w \in Worker, WorkerStep(w) PROVE Agree'
  <2>1. ASSUME SkipPing(w) PROVE Agree'
    BY <1>2, <2>1 DEF SkipPing
  <2>2. QED
    BY <1>1, <1>6, <1>7, <2>1, AgreeDrop, AgreeSeed, AgreePing, AgreeReport, AgreeLose
       DEF WorkerStep
<1>8. ASSUME NEW d \in Device, NEW up \in Seen, MonitoredDeviceReport(d, up) PROVE Agree'
  BY <1>1, <1>3, <1>8, AgreePush
<1>9. QED
  BY <1>1, <1>4, <1>5, <1>7, <1>8, AgreeRow, AgreeRefresh DEF Next

\* ping_shard_worker, refresh_imds_items and the agents' route: for any sharding, between
\* ticks a worker and IMDS agree about every monitored device that none of the named ways
\* has set adrift; whatever else happens, no report is lost or overwritten.
THEOREM WorkersAgree == Spec => []WorkerAgreesWithIMDS
<1>1. AgreeInv => WorkerAgreesWithIMDS
  BY DEF AgreeInv, Agree
<1>2. Spec => []AgreeInv
  BY AgreeInit, NextAgree, PTL DEF Spec
<1>3. QED
  BY <1>1, <1>2, PTL

-----------------------------------------------------------------------------
(* While no DB call has failed and no row has changed, what every list read *)
(* from the DB says still holds when it is applied, and every flip of a    *)
(* monitored device is announced.                                          *)

Calm ==
    /\ refreshPc = "loaded" => refreshList = monitored
    /\ \A d \in monitored : told[d] # "none" => told[d] = imds[d]

CalmInv == IInv /\ (Undisturbed => Calm)

\* The bounds count upwards, so a calm that has ended does not return; a step that
\* keeps it changes no row and reads what the DB holds.
LEMMA CalmStep ==
    ASSUME IInv, [Next]_vars, Undisturbed'
    PROVE  /\ Undisturbed /\ dbFailures' = dbFailures
           /\ row' = row /\ monitored' = monitored
<1>1. {memberOps, dbFailures, memberOps', dbFailures'} \subseteq Nat
  <2>1. TypeOK /\ TypeOK'
    BY NextIInv DEF IInv
  <2>2. QED
    BY <2>1 DEF TypeOK
<1>2. memberOps' = 0 /\ dbFailures' = 0
  BY <1>1 DEF Undisturbed
<1>3. \/ memberOps' = memberOps /\ row' = row
      \/ memberOps' = memberOps + 1
  BY DEF Next, vars, WorkerStep, ChangeRow, SystemPollingSet, RefreshLoad, RefreshApply, PausedTick,
      LoadShard, SeedNewcomer, PingShard, SkipPing, ReportUp, LoseReport, DieReporting,
      MonitoredDeviceReport
<1>4. dbFailures' = dbFailures \/ dbFailures' = dbFailures + 1
  BY DEF Next, vars, WorkerStep, ChangeRow, SystemPollingSet, RefreshLoad, RefreshApply, PausedTick,
      LoadShard, SeedNewcomer, PingShard, SkipPing, ReportUp, LoseReport, DieReporting,
      MonitoredDeviceReport, ReportPanics, DbRead, EmitPingChange
<1>5. memberOps = 0 /\ dbFailures = 0 /\ row' = row
  BY <1>1, <1>2, <1>3, <1>4
<1>6. QED
  BY <1>2, <1>5 DEF Undisturbed, monitored

\* report_device of a monitored device whose row is read: the entry and, if it was
\* known, the subscriber take the new state.
LEMMA CalmReport ==
    ASSUME IInv, Calm, monitored' = monitored, dbFailures' = dbFailures,
           refreshPc' = refreshPc, refreshList' = refreshList,
           NEW d \in Device, NEW up \in Seen, ReportDevice(d, up), EmitPingChange(d, up)
    PROVE  Calm'
<1>1. \A x \in Device : imds'[x] = IF x = d THEN up ELSE imds[x]
  BY DEF ReportDevice, IInv, TypeOK
<1>2. \A x \in Device \ {d} : told'[x] = told[x]
  BY DEF EmitPingChange, IInv, TypeOK
<1>3. d \in monitored /\ told'[d] # "none" => told'[d] = up
  <2> SUFFICES ASSUME d \in monitored, told'[d] # "none" PROVE told'[d] = up
    OBVIOUS
  <2>1. CASE Contrary(d, up)
    <3>1. d \in {x \in {d} : row[x] # "none"}
      BY DEF monitored
    <3>2. told' = [told EXCEPT ![d] = up]
      BY <2>1, <3>1 DEF EmitPingChange, DbRead, IInv, TypeOK
    <3>3. QED
      BY <3>2 DEF IInv, TypeOK
  <2>2. CASE ~Contrary(d, up)
    <3>1. told' = told
      BY <2>2 DEF EmitPingChange
    <3>2. told[d] = imds[d] /\ told[d] \in Seen
      BY <3>1 DEF Calm, IInv, TypeOK, OptSeen
    <3>3. QED
      BY <2>2, <3>1, <3>2 DEF Contrary
  <2>3. QED
    BY <2>1, <2>2
<1>4. \A x \in monitored : told'[x] # "none" => told'[x] = imds'[x]
  BY <1>1, <1>2, <1>3 DEF Calm, monitored
<1>5. QED
  BY <1>4 DEF Calm

LEMMA CalmRefresh ==
    ASSUME IInv, Calm, monitored' = monitored, dbFailures' = dbFailures,
           RefreshLoad \/ RefreshApply
    PROVE  Calm'
<1>1. CASE RefreshLoad
  <2>1. refreshList' = monitored
    BY <1>1 DEF RefreshLoad, DbRead, IInv, TypeOK
  <2>2. QED
    BY <1>1, <2>1 DEF RefreshLoad, Calm
<1>2. CASE RefreshApply
  <2>1. refreshPc' = "idle" /\ told' = told
    BY <1>2 DEF RefreshApply
  <2>2. ASSUME NEW d \in Device, d \in monitored, told[d] # "none"
        PROVE  told[d] = imds'[d]
    <3>1. told[d] = imds[d] /\ told[d] \in Seen
      BY <2>2 DEF Calm, IInv, TypeOK, OptSeen
    <3>2. d \in refreshList
      BY <1>2, <2>2 DEF RefreshApply, Calm
    <3>3. QED
      BY <1>2, <3>1, <3>2 DEF RefreshApply, Refreshed, Seen
  <2>3. QED
    BY <2>1, <2>2 DEF Calm, monitored
<1>3. QED
  BY <1>1, <1>2

LEMMA NextCalm == CalmInv /\ [Next]_vars => CalmInv'
<1> SUFFICES ASSUME CalmInv, [Next]_vars, Undisturbed' PROVE Calm'
  BY NextIInv DEF CalmInv
<1>1. IInv
  BY DEF CalmInv
<1>2. /\ Undisturbed /\ dbFailures' = dbFailures
      /\ row' = row /\ monitored' = monitored
  BY <1>1, CalmStep
<1>3. Calm
  BY <1>2 DEF CalmInv
<1>4. ASSUME UNCHANGED <<imds, told, refreshPc, refreshList>>
      PROVE  Calm'
  BY <1>2, <1>3, <1>4 DEF Calm
<1>5. ASSUME NEW d \in Device, NEW up \in Seen PROVE ~ReportPanics(d, up)
  BY <1>1, <1>2 DEF ReportPanics, IInv, TypeOK
<1>6. ASSUME NEW w \in Worker, NEW d \in Device, ReportUp(w, d) PROVE Calm'
  <2>1. acc[d].responsive \in Seen
    BY <1>1, <1>6 DEF ReportUp, IInv, PendingOK
  <2>2. QED
    BY <1>1, <1>2, <1>3, <1>6, <2>1, CalmReport DEF ReportUp
<1>7. ASSUME NEW d \in Device, NEW up \in Seen, MonitoredDeviceReport(d, up) PROVE Calm'
  <2>1. ReportDevice(d, up) /\ EmitPingChange(d, up)
    BY <1>5, <1>7 DEF MonitoredDeviceReport
  <2>2. QED
    BY <1>1, <1>2, <1>3, <1>7, <2>1, CalmReport DEF MonitoredDeviceReport
<1>8. ASSUME NEW w \in Worker, NEW d \in Device, DieReporting(w, d) PROVE FALSE
  BY <1>1, <1>5, <1>8 DEF DieReporting, IInv, PendingOK
<1>9. ASSUME NEW w \in Worker, WorkerStep(w) PROVE Calm'
  BY <1>4, <1>6, <1>8, <1>9
     DEF WorkerStep, PausedTick, LoadShard, SeedNewcomer, PingShard, SkipPing, LoseReport
<1>10. QED
  BY <1>1, <1>2, <1>3, <1>4, <1>7, <1>9, CalmRefresh DEF Next, vars, ChangeRow, SystemPollingSet

\* report_device: whoever listens to ping changes knows what IMDS shows of each monitored
\* device it has heard of, whether its worker or an agent reported it.
THEOREM SubscribersAgree == Spec => []SubscriberAgrees
<1>1. CalmInv => SubscriberAgrees
  BY DEF CalmInv, Calm, SubscriberAgrees
<1>2. Init => CalmInv
  <2>1. Init => refreshPc = "idle" /\ \A d \in monitored : told[d] = "none"
    BY DEF Init, monitored
  <2>2. QED
    BY <2>1, InitIInv DEF CalmInv, Calm
<1>3. Spec => []CalmInv
  BY <1>2, NextCalm, PTL DEF Spec
<1>4. QED
  BY <1>1, <1>3, PTL
=============================================================================
