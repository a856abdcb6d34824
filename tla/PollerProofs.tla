---------------------------- MODULE PollerProofs ----------------------------
(***************************************************************************)
(* Proofs about PollerSupervisor, for any devices, communities, thread     *)
(* slots and bounds.                                                       *)
(***************************************************************************)
EXTENDS PollerSupervisor, TLAPS

Worker == [state : {"top", "polling", "done", "dead"}, dev : Device,
           community : Community, flag : BOOLEAN]

Joining == {"joining", "closing"}

(***************************************************************************)
(* The inductive invariant.  NoLeakedWorker says of each thread that may   *)
(* poll where it is known; what keeps that true is that a thread is known  *)
(* in one place only, that the tables name live threads only, and that the *)
(* two places together name every thread, so that joining them leaves none.*)
(***************************************************************************)
TablesOK ==
    /\ row \in [Device -> Community \cup {"off"}]
    /\ sup \in {"up", "reaping", "joining", "paused", "closing", "stopped"}
    /\ workers \in [Device -> Thread \cup {"none"}] /\ reap \subseteq Thread
    /\ thread \in [Thread -> Worker \cup {Free}]

\* poll_workers names the device's own worker.
OwnedOK(ws, th) ==
    \A d \in Device : ws[d] # "none" => th[ws[d]] \in Worker /\ th[ws[d]].dev = d

\* A thread is either on the reap list and told to stop, or named by poll_workers
\* and, but for a teardown, running.
KnownOnce(ws, rp, th, s) ==
    \A t \in Thread : th[t] \in Worker =>
        \/ t \in rp /\ ~th[t].flag /\ ws[th[t].dev] # t
        \/ t \notin rp /\ ws[th[t].dev] = t /\ (th[t].flag \/ s \in Joining)

RetiredOK(rp, th) == \A t \in rp : th[t] \in Worker

IInv ==
    /\ TablesOK
    /\ OwnedOK(workers, thread) /\ KnownOnce(workers, reap, thread, sup)
    /\ RetiredOK(reap, thread)
    /\ QuietWhenStopped

LEMMA FreeIsNoWorker == Free \notin Worker
BY DEF Free, Worker

LEMMA Initial == Init => IInv
BY FreeIsNoWorker DEF Init, IInv, TablesOK, OwnedOK, KnownOnce, RetiredOK, QuietWhenStopped

\* What neither a route nor a thread's own step changes.
LEMMA OutsideKeeps ==
    ASSUME IInv, row' \in [Device -> Community \cup {"off"}],
           UNCHANGED <<sup, workers, reap, thread>>
    PROVE  IInv'
BY DEF IInv, TablesOK, OwnedOK, KnownOnce, RetiredOK, QuietWhenStopped

\* A worker moves on in poll_worker.
LEMMA ThreadKeeps ==
    ASSUME IInv, NEW t \in Thread, ThreadStep(t) \/ Panic(t)
    PROVE  IInv'
<1>1. PICK s \in {"top", "polling", "done", "dead"} :
          thread' = [thread EXCEPT ![t].state = s]
  BY DEF ThreadStep, BeginPoll, EndPoll, Exit, Panic
<1>2. thread[t].state \in {"top", "polling"} /\ UNCHANGED <<env, sup, workers, reap>>
  BY DEF ThreadStep, BeginPoll, EndPoll, Exit, Panic
<1>3. thread[t] \in Worker
  BY <1>2 DEF IInv, TablesOK, Free
<1>4. thread'[t] \in Worker /\ thread'[t].dev = thread[t].dev /\ thread'[t].flag = thread[t].flag
  BY <1>1, <1>3 DEF IInv, TablesOK, Worker
<1>5. \A u \in Thread : u # t => thread'[u] = thread[u]
  BY <1>1 DEF IInv, TablesOK
<1>6. TablesOK'
  BY <1>1, <1>2, <1>4, <1>5 DEF IInv, TablesOK, env
<1>7. OwnedOK(workers, thread)' /\ KnownOnce(workers, reap, thread, sup)'
      /\ RetiredOK(reap, thread)'
  BY <1>2, <1>3, <1>4, <1>5 DEF IInv, TablesOK, OwnedOK, KnownOnce, RetiredOK
<1>8. QuietWhenStopped'
  BY <1>2, <1>3, FreeIsNoWorker DEF IInv, QuietWhenStopped
<1>9. QED
  BY <1>6, <1>7, <1>8 DEF IInv

\* Clearing running flags leaves everything else of the threads.
LEMMA StoppedType ==
    ASSUME TablesOK, NEW ts, \A t \in Thread \cap ts : thread[t] \in Worker
    PROVE  /\ Stopped(ts) \in [Thread -> Worker \cup {Free}]
           /\ \A t \in Thread : IF t \in ts
                 THEN /\ Stopped(ts)[t] \in Worker /\ ~Stopped(ts)[t].flag
                      /\ Stopped(ts)[t].dev = thread[t].dev
                 ELSE Stopped(ts)[t] = thread[t]
<1>1. ASSUME NEW t \in Thread, t \in ts
      PROVE  /\ [thread[t] EXCEPT !.flag = FALSE] \in Worker
             /\ [thread[t] EXCEPT !.flag = FALSE].flag = FALSE
             /\ [thread[t] EXCEPT !.flag = FALSE].dev = thread[t].dev
  BY <1>1 DEF Worker
<1>2. QED
  BY <1>1 DEF Stopped, TablesOK

\* A reload starts workers in free slots and moves expired ones to the reap list.
LEMMA ReloadKeeps == ASSUME IInv, Reload PROVE IInv'
<1> USE FreeIsNoWorker, NoneAssumption
<1> DEFINE needed(list) == {d \in list : workers[d] = "none"}
           expired(list) == {d \in Device \ list : workers[d] # "none"}
           slots == {t \in Thread : thread[t] = Free}
<1>1. PICK list \in SUBSET Device : 
         /\ LoadDevices(list)
         /\ \E slot \in [needed(list) -> slots] :
                /\ \A a, b \in needed(list) : slot[a] = slot[b] => a = b
                /\ workers' = [d \in Device |-> IF d \in needed(list) THEN slot[d]
                                 ELSE IF d \in expired(list) THEN "none" ELSE workers[d]]
                /\ reap' = reap \cup {workers[d] : d \in expired(list)}
                /\ thread' = [t \in Thread |->
                      IF \E d \in needed(list) : slot[d] = t
                      THEN LET d == CHOOSE d \in needed(list) : slot[d] = t IN
                           [state |-> "top", dev |-> d, community |-> row[d], flag |-> TRUE]
                      ELSE Retired({workers[d] : d \in expired(list)})[t]]
  BY DEF Reload
<1> DEFINE N == needed(list)
           X == expired(list)
           W == {workers[d] : d \in X}
<1>2. PICK slot \in [N -> slots] :
                /\ \A a, b \in N : slot[a] = slot[b] => a = b
                /\ workers' = [d \in Device |-> IF d \in N THEN slot[d]
                                 ELSE IF d \in X THEN "none" ELSE workers[d]]
                /\ reap' = reap \cup W
                /\ thread' = [t \in Thread |->
                      IF \E d \in N : slot[d] = t
                      THEN LET d == CHOOSE d \in N : slot[d] = t IN
                           [state |-> "top", dev |-> d, community |-> row[d], flag |-> TRUE]
                      ELSE Stopped(W)[t]]
  BY <1>1 DEF Retired
<1>3. sup' = "reaping" /\ UNCHANGED row
  BY DEF Reload, env
<1>4. N \subseteq Device /\ X \subseteq Device /\ N \cap X = {}
      /\ \A d \in N : workers[d] = "none" /\ row[d] \in Community
  BY <1>1 DEF LoadDevices, IInv, TablesOK
<1>5. W \subseteq Thread /\ \A t \in W : thread[t] \in Worker
  BY <1>4 DEF IInv, TablesOK, OwnedOK
<1>6. \A d \in N : slot[d] \in Thread /\ thread[slot[d]] = Free
  OBVIOUS
<1>7. /\ \A t \in W : Stopped(W)[t] \in Worker /\ ~Stopped(W)[t].flag
                      /\ Stopped(W)[t].dev = thread[t].dev
      /\ \A t \in Thread \ W : Stopped(W)[t] = thread[t]
  BY <1>5, StoppedType DEF IInv
<1> HIDE DEF N, X, W, slots, needed, expired
<1>8. ASSUME NEW d \in N
      PROVE  /\ thread'[slot[d]] = [state |-> "top", dev |-> d, community |-> row[d], flag |-> TRUE]
             /\ thread'[slot[d]] \in Worker
             /\ thread'[slot[d]].dev = d /\ thread'[slot[d]].flag = TRUE
  <2>1. (CHOOSE e \in N : slot[e] = slot[d]) = d
    BY <1>2
  <2>2. thread'[slot[d]] = [state |-> "top", dev |-> d, community |-> row[d], flag |-> TRUE]
    BY <1>2, <1>6, <2>1
  <2>3. QED
    BY <2>2, <1>4 DEF Worker
<1>9. \A t \in Thread : (\A d \in N : slot[d] # t) => thread'[t] = Stopped(W)[t]
  BY <1>2
<1>10. \A d \in N : slot[d] \notin reap' /\ slot[d] \notin W
  BY <1>2, <1>5, <1>6 DEF IInv, RetiredOK
<1>11. thread' \in [Thread -> Worker \cup {Free}]
  <2>1. \A t \in Thread : Stopped(W)[t] \in Worker \cup {Free}
    BY <1>7 DEF IInv, TablesOK
  <2>2. ASSUME NEW t \in Thread PROVE thread'[t] \in Worker \cup {Free}
    <3>1. CASE \E d \in N : slot[d] = t
      BY <3>1, <1>8
    <3>2. CASE \A d \in N : slot[d] # t
      BY <3>2, <2>1, <1>9
    <3>3. QED
      BY <3>1, <3>2
  <2>3. QED
    BY <1>2, <2>2
<1>12. workers' \in [Device -> Thread \cup {"none"}]
  BY <1>2, <1>6 DEF IInv, TablesOK
<1>13. TablesOK'
  BY <1>2, <1>3, <1>5, <1>11, <1>12 DEF IInv, TablesOK
<1>14. \A d \in X : workers'[d] = "none" /\ workers[d] \in W
  BY <1>2, <1>4 DEF W
<1>15. \A d \in Device : d \notin N /\ d \notin X => workers'[d] = workers[d]
  BY <1>2
<1>16. \A d \in N : workers'[d] = slot[d]
  BY <1>2, <1>4
<1>17. \A t \in W : \E d \in X : t = workers[d] /\ thread[t].dev = d
  BY <1>4, <1>5 DEF W, X, expired, IInv, OwnedOK
<1>18. ASSUME NEW d \in Device, d \notin N, d \notin X, workers[d] # "none"
       PROVE  workers[d] \in Thread \ W /\ thread'[workers[d]] = thread[workers[d]]
  <2>1. workers[d] \in Thread /\ thread[workers[d]] \in Worker /\ thread[workers[d]].dev = d
    BY <1>18 DEF IInv, TablesOK, OwnedOK
  <2>2. workers[d] \notin W
    BY <1>17, <1>18, <2>1
  <2>3. QED
    BY <1>6, <1>7, <1>9, <2>1, <2>2
<1>19. OwnedOK(workers, thread)'
  <2> SUFFICES ASSUME NEW d \in Device, workers'[d] # "none"
               PROVE  thread'[workers'[d]] \in Worker /\ thread'[workers'[d]].dev = d
    BY DEF OwnedOK
  <2>1. CASE d \in N
    BY <2>1, <1>8, <1>16
  <2>2. CASE d \notin N
    BY <2>2, <1>14, <1>15, <1>18 DEF IInv, OwnedOK
  <2>3. QED
    BY <2>1, <2>2
<1>20. KnownOnce(workers, reap, thread, sup)'
  <2> SUFFICES ASSUME NEW t \in Thread, thread'[t] \in Worker
               PROVE  \/ t \in reap' /\ ~thread'[t].flag /\ workers'[thread'[t].dev] # t
                      \/ /\ t \notin reap' /\ workers'[thread'[t].dev] = t
                         /\ thread'[t].flag \/ sup' \in Joining
    BY DEF KnownOnce
  <2>1. CASE \E d \in N : slot[d] = t
    BY <2>1, <1>8, <1>10, <1>16
  <2>2. CASE t \in W
    <3>1. PICK d \in X : t = workers[d] /\ thread[t].dev = d
      BY <2>2, <1>17
    <3>2. thread'[t] = Stopped(W)[t]
      BY <2>2, <1>9, <1>10
    <3>3. QED
      BY <2>2, <3>1, <3>2, <1>2, <1>7, <1>14
  <2>3. CASE t \notin W /\ \A d \in N : slot[d] # t
    <3>1. thread'[t] = thread[t] /\ thread[t].dev \in Device
      BY <2>3, <1>7, <1>9 DEF Worker
    <3>2. sup \in {"up", "paused"}
      BY DEF Reload
    <3>3. CASE t \in reap
      <4>1. ~thread[t].flag /\ workers[thread[t].dev] # t
        BY <3>1, <3>3 DEF IInv, KnownOnce
      <4>2. workers'[thread[t].dev] # t
        BY <2>3, <3>1, <4>1, <1>14, <1>15, <1>16
      <4>3. QED
        BY <3>1, <3>3, <4>1, <4>2, <1>2
    <3>4. CASE t \notin reap
      <4>1. workers[thread[t].dev] = t /\ thread[t].flag
        BY <3>1, <3>2, <3>4 DEF IInv, KnownOnce, Joining
      <4>2. thread[t].dev \notin N /\ thread[t].dev \notin X
        BY <2>3, <4>1, <1>4, <1>14
      <4>3. QED
        BY <2>3, <3>1, <3>4, <4>1, <4>2, <1>2, <1>15
    <3>5. QED
      BY <3>3, <3>4
  <2>4. QED
    BY <2>1, <2>2, <2>3
<1>21. RetiredOK(reap, thread)'
  <2> SUFFICES ASSUME NEW t \in reap' PROVE thread'[t] \in Worker
    BY DEF RetiredOK
  <2>1. t \in Thread /\ thread'[t] = Stopped(W)[t]
    BY <1>2, <1>5, <1>9, <1>10 DEF IInv, TablesOK
  <2>2. QED
    BY <2>1, <1>2, <1>7 DEF IInv, RetiredOK
<1>22. QED
  BY <1>3, <1>13, <1>19, <1>20, <1>21 DEF IInv, QuietWhenStopped

\* A thread that was retired and has ended is joined; poll_workers does not name it.
LEMMA ReapKeeps == ASSUME IInv, Reap PROVE IInv'
<1> USE FreeIsNoWorker
<1>1. /\ sup \in {"up", "reaping"} /\ sup' = "up" /\ UNCHANGED <<row, workers>>
      /\ thread' = [t \in Thread |-> IF t \in reap /\ Ended(t) THEN Free ELSE thread[t]]
      /\ reap' = {t \in reap : ~Ended(t)}
  BY DEF Reap, env
<1>2. TablesOK'
  BY <1>1 DEF IInv, TablesOK
<1>3. \A d \in Device : workers[d] # "none" =>
          workers[d] \in Thread /\ workers[d] \notin reap
  BY DEF IInv, TablesOK, OwnedOK, KnownOnce
<1>4. OwnedOK(workers, thread)'
  BY <1>1, <1>3 DEF IInv, OwnedOK
<1>5. KnownOnce(workers, reap, thread, sup)'
  BY <1>1 DEF IInv, KnownOnce, Joining
<1>6. RetiredOK(reap, thread)'
  BY <1>1 DEF IInv, TablesOK, RetiredOK
<1>7. QED
  BY <1>1, <1>2, <1>4, <1>5, <1>6 DEF IInv, QuietWhenStopped

\* The teardown tells every owned worker to stop.
LEMMA BeginJoinKeeps == ASSUME IInv, BeginJoin PROVE IInv'
<1>1. /\ sup \in {"up", "paused"} /\ sup' \in Joining /\ UNCHANGED <<row, workers, reap>>
      /\ thread' = Stopped(Owned)
  BY DEF BeginJoin, env, Joining
<1>2. \A t \in Thread \cap Owned : thread[t] \in Worker
  BY NoneAssumption DEF IInv, OwnedOK, Owned
<1>3. /\ thread' \in [Thread -> Worker \cup {Free}]
      /\ \A t \in Thread : IF t \in Owned
            THEN thread'[t] \in Worker /\ ~thread'[t].flag /\ thread'[t].dev = thread[t].dev
            ELSE thread'[t] = thread[t]
  BY <1>1, <1>2, StoppedType DEF IInv
<1>4. TablesOK'
  BY <1>1, <1>3 DEF IInv, TablesOK, Joining
<1>5. OwnedOK(workers, thread)'
  BY <1>1, <1>3 DEF IInv, TablesOK, OwnedOK
<1>6. KnownOnce(workers, reap, thread, sup)'
  BY <1>1, <1>2, <1>3 DEF IInv, KnownOnce
<1>7. RetiredOK(reap, thread)'
  BY <1>1, <1>3 DEF IInv, TablesOK, RetiredOK
<1>8. QED
  BY <1>1, <1>4, <1>5, <1>6, <1>7 DEF IInv, QuietWhenStopped, Joining

\* Joining what the two tables name joins every thread.
LEMMA EndJoinKeeps == ASSUME IInv, EndJoin PROVE IInv'
<1> USE FreeIsNoWorker
<1>1. /\ thread' = [t \in Thread |-> IF t \in Joined THEN Free ELSE thread[t]]
      /\ workers' = [d \in Device |-> "none"] /\ reap' = {}
      /\ sup' \in {"paused", "stopped"} /\ UNCHANGED row
  BY DEF EndJoin, env
<1>2. ASSUME NEW t \in Thread, thread[t] # Free PROVE t \in Joined
  <2>1. thread[t] \in Worker /\ thread[t].dev \in Device
    BY <1>2 DEF IInv, TablesOK, Worker
  <2>2. QED
    BY <2>1 DEF IInv, KnownOnce, Joined, Owned
<1>3. thread' = [t \in Thread |-> Free]
  BY <1>1, <1>2
<1>4. QED
  BY <1>1, <1>3 DEF IInv, TablesOK, OwnedOK, KnownOnce, RetiredOK, QuietWhenStopped

LEMMA Inductive == IInv /\ [Next]_vars => IInv'
<1> SUFFICES ASSUME IInv, [Next]_vars PROVE IInv'
  OBVIOUS
<1>1. CASE UNCHANGED vars
  BY <1>1, OutsideKeeps DEF vars, env, IInv, TablesOK
<1>2. CASE (\E d \in Device : ChangeRow(d)) \/ SystemPollingSet \/ Shutdown
  <2>1. row' \in [Device -> Community \cup {"off"}]
    BY <1>2 DEF ChangeRow, SystemPollingSet, Shutdown, IInv, TablesOK
  <2>2. UNCHANGED <<sup, workers, reap, thread>>
    BY <1>2 DEF ChangeRow, SystemPollingSet, Shutdown
  <2>3. QED
    BY <2>1, <2>2, OutsideKeeps
<1>3. CASE Reload
  BY <1>3, ReloadKeeps
<1>4. CASE Reap
  BY <1>4, ReapKeeps
<1>5. CASE BeginJoin
  BY <1>5, BeginJoinKeeps
<1>6. CASE EndJoin
  BY <1>6, EndJoinKeeps
<1>7. CASE \E t \in Thread : ThreadStep(t) \/ Panic(t)
  BY <1>7, ThreadKeeps
<1>8. QED
  BY <1>1, <1>2, <1>3, <1>4, <1>5, <1>6, <1>7 DEF Next

\* poller.rs (check_if_worker_needed, check_expired_fqdn_workers): whatever lists the
\* reloads see, a thread that may go on polling is the one its device's entry names,
\* and every other thread has been told to stop.
THEOREM NoWorkerLeaks == Spec => []NoLeakedWorker
<1>1. IInv => NoLeakedWorker
  <2> SUFFICES ASSUME IInv, NEW t \in Thread, thread[t] # Free
               PROVE  IF thread[t].flag THEN workers[thread[t].dev] = t
                      ELSE t \in reap \/ sup \in {"joining", "closing"}
    BY DEF NoLeakedWorker
  <2>1. thread[t] \in Worker
    BY DEF IInv, TablesOK
  <2>2. QED
    BY <2>1 DEF IInv, KnownOnce, Joining
<1>2. QED
  BY Initial, Inductive, <1>1, PTL DEF Spec

\* poller.rs: "Paused: stop every worker so no SNMP is issued, then idle": after the
\* pause, or the shutdown, has joined the threads it knows of there is no other one.
THEOREM PausedIsQuiet == Spec => []QuietWhenStopped
<1>1. IInv => QuietWhenStopped
  BY DEF IInv
<1>2. QED
  BY Initial, Inductive, <1>1, PTL DEF Spec
=============================================================================
