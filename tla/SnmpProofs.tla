----------------------------- MODULE SnmpProofs -----------------------------
(***************************************************************************)
(* Proofs about the SNMP client: the cap on the requests in flight, for    *)
(* every finite set of threads and every configured value, its use by the  *)
(* VLAN collector and that collector's poll-now queue, and the adaptive    *)
(* timeout that the collectors' sessions share.                            *)
(***************************************************************************)
EXTENDS VlanPoller, AdaptiveTimeout, FiniteSetTheorems, TLAPS

-----------------------------------------------------------------------------
(* Counting threads.                                                       *)

Stage == {"out", "want", "asleep", "awake", "in"}

Of(f, s) == {t \in Thread : f[t] = s}

\* The threads in a stage are finitely many, as the threads are.
LEMMA OfFinite ==
    ASSUME NEW f, NEW s
    PROVE  IsFiniteSet(Of(f, s)) /\ Cardinality(Of(f, s)) \in Nat
<1>1. Of(f, s) \in SUBSET Thread
  BY DEF Of
<1>2. IsFiniteSet(Of(f, s))
  BY <1>1, ThreadAssumption, FS_Subset
<1>3. QED
  BY <1>2, FS_CardinalityType

\* A thread that moves from one stage to another is counted in the new one and no
\* longer in the old one; no other stage is affected.
Moves(f, g, t, a, b) ==
    /\ f \in [Thread -> Stage] /\ t \in Thread /\ a \in Stage /\ b \in Stage /\ a # b
    /\ f[t] = a /\ g = [f EXCEPT ![t] = b]

LEMMA Moved ==
    \A f, g, t, a, b : Moves(f, g, t, a, b) =>
        /\ g \in [Thread -> Stage]
        /\ Cardinality(Of(g, b)) = Cardinality(Of(f, b)) + 1
        /\ Cardinality(Of(g, a)) = Cardinality(Of(f, a)) - 1
        /\ \A s \in Stage : s # a /\ s # b => Of(g, s) = Of(f, s)
<1> SUFFICES ASSUME NEW f, NEW g, NEW t, NEW a, NEW b, Moves(f, g, t, a, b)
             PROVE  /\ g \in [Thread -> Stage]
                    /\ Cardinality(Of(g, b)) = Cardinality(Of(f, b)) + 1
                    /\ Cardinality(Of(g, a)) = Cardinality(Of(f, a)) - 1
                    /\ \A s \in Stage : s # a /\ s # b => Of(g, s) = Of(f, s)
  OBVIOUS
<1>1. g \in [Thread -> Stage] /\ \A s \in Stage : s # a /\ s # b => Of(g, s) = Of(f, s)
  BY DEF Moves, Of
<1>2. Of(g, b) = Of(f, b) \cup {t} /\ t \notin Of(f, b)
  BY DEF Moves, Of
<1>3. Of(g, a) = Of(f, a) \ {t} /\ t \in Of(f, a)
  BY DEF Moves, Of
<1>4. Cardinality(Of(g, b)) = Cardinality(Of(f, b)) + 1
  BY <1>2, OfFinite, FS_AddElement
<1>5. Cardinality(Of(g, a)) = Cardinality(Of(f, a)) - 1
  BY <1>3, OfFinite, FS_RemoveElement
<1>6. QED
  BY <1>1, <1>4, <1>5

\* A stage is empty exactly when nobody is counted in it.
LEMMA CountZero ==
    ASSUME NEW f, NEW s
    PROVE  Of(f, s) = {} <=> Cardinality(Of(f, s)) = 0
BY OfFinite, FS_EmptySet

-----------------------------------------------------------------------------
(* The inductive invariant: conservation of the permits gives what a       *)
(* release adds its place below the cap; a wake-up is lost only if a free  *)
(* permit outnumbers the awake threads.                                    *)

AdmissionInv == AdmissionTypeOK /\ PermitsConserved /\ NoLostWakeup

\* Without a limiter nobody ever waits; at the start nobody is anywhere.
LEMMA AdmissionInitial == AdmissionInit => AdmissionInv
<1> SUFFICES ASSUME AdmissionInit PROVE AdmissionInv
  OBVIOUS
<1>1. \A s \in Stage \ {"out"} : Of(pc, s) = {}
  BY DEF AdmissionInit, Of, Stage
<1>2. Cardinality(In("in")) = 0 /\ In("asleep") = {}
  BY <1>1, FS_EmptySet DEF Of, In, Stage
<1>3. AdmissionTypeOK
  BY LimitAssumption DEF AdmissionInit, AdmissionTypeOK
<1>4. limit \in Nat /\ permits = limit
  BY LimitAssumption DEF AdmissionInit
<1>5. QED
  BY <1>2, <1>3, <1>4 DEF AdmissionInv, PermitsConserved, NoLostWakeup

\* The invariant in terms of how many threads are in each stage.
LEMMA InvByCount ==
    ASSUME AdmissionTypeOK',
           limit' > 0 => permits' + Cardinality(Of(pc', "in")) = limit',
           Cardinality(Of(pc', "asleep")) # 0 =>
              limit' > 0 /\ permits' <= Cardinality(Of(pc', "awake"))
    PROVE  AdmissionInv'
<1>1. In("in")' = Of(pc', "in") /\ In("awake")' = Of(pc', "awake")
      /\ In("asleep")' = Of(pc', "asleep")
  BY DEF In, Of
<1>2. Of(pc', "asleep") = {} <=> Cardinality(Of(pc', "asleep")) = 0
  BY CountZero
<1>3. QED
  BY <1>1, <1>2 DEF AdmissionInv, PermitsConserved, NoLostWakeup

\* What the invariant says of the counts, with their types.
LEMMA CountsOfInv ==
    ASSUME AdmissionInv
    PROVE  /\ pc \in [Thread -> Stage] /\ limit \in Nat /\ permits \in Nat
           /\ limit \in Limits
           /\ \A s \in Stage : Cardinality(Of(pc, s)) \in Nat
           /\ limit > 0 => permits + Cardinality(Of(pc, "in")) = limit
           /\ Cardinality(Of(pc, "asleep")) # 0 =>
                 limit > 0 /\ permits <= Cardinality(Of(pc, "awake"))
<1>1. In("in") = Of(pc, "in") /\ In("awake") = Of(pc, "awake")
      /\ In("asleep") = Of(pc, "asleep")
  BY DEF In, Of
<1>2. Of(pc, "asleep") = {} <=> Cardinality(Of(pc, "asleep")) = 0
  BY CountZero
<1>3. pc \in [Thread -> Stage] /\ limit \in Nat /\ permits \in Nat /\ limit \in Limits
  BY LimitAssumption DEF AdmissionInv, AdmissionTypeOK, Stage
<1>4. \A s \in Stage : Cardinality(Of(pc, s)) \in Nat
  BY OfFinite
<1>5. QED
  BY <1>1, <1>2, <1>3, <1>4 DEF AdmissionInv, PermitsConserved, NoLostWakeup

\* A request arrives, waits and leaves: every step keeps the invariant.
LEMMA RequestKeeps ==
    ASSUME AdmissionInv, NEW t \in Thread, Request(t) PROVE AdmissionInv'
<1>1. pc' = [pc EXCEPT ![t] = "want"] /\ pc[t] = "out" /\ UNCHANGED <<limit, permits>>
  BY DEF Request
<1>a. Moves(pc, pc', t, "out", "want")
  BY <1>1, CountsOfInv DEF Moves, Stage
<1>2. /\ pc' \in [Thread -> Stage]
      /\ \A s \in Stage : s # "want" /\ s # "out" => Of(pc', s) = Of(pc, s)
  BY <1>a, Moved DEF Stage
<1>3. AdmissionTypeOK'
  BY <1>1, <1>2, CountsOfInv DEF AdmissionTypeOK, Stage
<1>4. QED
  BY <1>1, <1>2, <1>3, CountsOfInv, InvByCount DEF Stage

LEMMA AcquireKeeps ==
    ASSUME AdmissionInv, NEW t \in Thread, Acquire(t) PROVE AdmissionInv'
<1>1. /\ pc' = [pc EXCEPT ![t] = "in"] /\ pc[t] \in {"want", "awake"} /\ limit' = limit
      /\ limit = 0 => permits' = permits
      /\ limit # 0 => permits > 0 /\ permits' = permits - 1
  BY DEF Acquire, Passes
<1>a. Moves(pc, pc', t, pc[t], "in")
  BY <1>1, CountsOfInv DEF Moves, Stage
<1>2. /\ pc' \in [Thread -> Stage]
      /\ Cardinality(Of(pc', "in")) = Cardinality(Of(pc, "in")) + 1
      /\ Cardinality(Of(pc', pc[t])) = Cardinality(Of(pc, pc[t])) - 1
      /\ \A s \in Stage : s # "in" /\ s # pc[t] => Of(pc', s) = Of(pc, s)
  BY <1>a, Moved DEF Stage
<1>3. permits' \in Nat /\ AdmissionTypeOK'
  BY <1>1, <1>2, CountsOfInv DEF AdmissionTypeOK, Stage
<1>4. limit' > 0 => permits' + Cardinality(Of(pc', "in")) = limit'
  BY <1>1, <1>2, CountsOfInv DEF Stage
<1>5. Of(pc', "asleep") = Of(pc, "asleep")
  BY <1>1, <1>2 DEF Stage
<1>6. ASSUME Cardinality(Of(pc, "asleep")) # 0
      PROVE  limit' > 0 /\ permits' <= Cardinality(Of(pc', "awake"))
  <2>1. limit > 0 /\ permits <= Cardinality(Of(pc, "awake"))
    BY <1>6, CountsOfInv
  <2>2. Cardinality(Of(pc', "awake")) \in {Cardinality(Of(pc, "awake")),
                                          Cardinality(Of(pc, "awake")) - 1}
    BY <1>1, <1>2 DEF Stage
  <2>3. QED
    BY <1>1, <2>1, <2>2, CountsOfInv DEF Stage
<1>7. QED
  BY <1>3, <1>4, <1>5, <1>6, InvByCount

LEMMA SleepKeeps ==
    ASSUME AdmissionInv, NEW t \in Thread, Sleep(t) PROVE AdmissionInv'
<1>1. /\ pc' = [pc EXCEPT ![t] = "asleep"] /\ pc[t] \in {"want", "awake"}
      /\ UNCHANGED <<limit, permits>> /\ limit > 0 /\ ~(permits > 0)
  BY DEF Sleep, Passes
<1>a. Moves(pc, pc', t, pc[t], "asleep")
  BY <1>1, CountsOfInv DEF Moves, Stage
<1>2. /\ pc' \in [Thread -> Stage]
      /\ \A s \in Stage : s # "asleep" /\ s # pc[t] => Of(pc', s) = Of(pc, s)
  BY <1>a, Moved DEF Stage
<1>3. AdmissionTypeOK'
  BY <1>1, <1>2, CountsOfInv DEF AdmissionTypeOK, Stage
<1>4. permits' = 0 /\ Cardinality(Of(pc', "awake")) \in Nat
  BY <1>1, CountsOfInv, OfFinite
<1>5. Of(pc', "in") = Of(pc, "in")
  BY <1>1, <1>2 DEF Stage
<1>6. QED
  BY <1>1, <1>3, <1>4, <1>5, CountsOfInv, InvByCount

LEMMA SpuriousWakeKeeps ==
    ASSUME AdmissionInv, NEW t \in Thread, SpuriousWake(t) PROVE AdmissionInv'
<1>1. /\ pc' = [pc EXCEPT ![t] = "awake"] /\ pc[t] = "asleep"
      /\ UNCHANGED <<limit, permits>>
  BY DEF SpuriousWake
<1>a. Moves(pc, pc', t, "asleep", "awake")
  BY <1>1, CountsOfInv DEF Moves, Stage
<1>2. /\ pc' \in [Thread -> Stage]
      /\ Cardinality(Of(pc', "awake")) = Cardinality(Of(pc, "awake")) + 1
      /\ Cardinality(Of(pc', "asleep")) = Cardinality(Of(pc, "asleep")) - 1
      /\ Of(pc', "in") = Of(pc, "in")
  BY <1>a, Moved DEF Stage
<1>3. AdmissionTypeOK'
  BY <1>1, <1>2, CountsOfInv DEF AdmissionTypeOK, Stage
<1>4. Cardinality(Of(pc', "asleep")) \in Nat /\ Cardinality(Of(pc, "asleep")) # 0
  BY <1>2, OfFinite, CountsOfInv DEF Stage
<1>5. QED
  BY <1>1, <1>2, <1>3, <1>4, CountsOfInv, InvByCount DEF Stage

\* A release frees a permit and, when anybody sleeps, adds an awake thread.
LEMMA ReleaseKeeps ==
    ASSUME AdmissionInv, NEW t \in Thread, Release(t) PROVE AdmissionInv'
<1> DEFINE f == [pc EXCEPT ![t] = "out"]
<1>1. pc[t] = "in" /\ limit' = limit
      /\ permits' = IF limit = 0 THEN permits ELSE permits + 1
  BY DEF Release
<1>2. Moves(pc, f, t, "in", "out")
  BY <1>1, CountsOfInv DEF Moves, Stage
<1> HIDE DEF f
<1>3. /\ f \in [Thread -> Stage]
      /\ Cardinality(Of(f, "in")) = Cardinality(Of(pc, "in")) - 1
      /\ Of(f, "asleep") = Of(pc, "asleep") /\ Of(f, "awake") = Of(pc, "awake")
  BY <1>2, Moved DEF Stage
<1>4. permits' \in Nat
  BY <1>1, CountsOfInv
<1>5. CASE pc' = f /\ (limit = 0 \/ In("asleep") = {})
  <2>1. AdmissionTypeOK'
    BY <1>1, <1>3, <1>4, <1>5, CountsOfInv DEF AdmissionTypeOK, Stage
  <2>a. Cardinality(Of(pc, "asleep")) = 0
    <3>1. In("asleep") = Of(pc, "asleep")
      BY DEF In, Of
    <3>2. CASE limit = 0
      BY <3>2, CountsOfInv
    <3>3. CASE In("asleep") = {}
      BY <3>1, <3>3, CountZero
    <3>4. QED
      BY <1>5, <3>2, <3>3
  <2>2. Cardinality(Of(pc', "asleep")) = 0
    BY <1>3, <1>5, <2>a
  <2>3. QED
    BY <1>1, <1>3, <1>4, <1>5, <2>1, <2>2, CountsOfInv, InvByCount DEF Stage
<1>6. CASE limit > 0 /\ \E s \in In("asleep") : pc' = [pc EXCEPT ![t] = "out", ![s] = "awake"]
  <2>1. PICK s \in In("asleep") : pc' = [pc EXCEPT ![t] = "out", ![s] = "awake"]
    BY <1>6
  <2>a. s \in Thread /\ pc[s] = "asleep"
    BY DEF In
  <2>2. pc' = [f EXCEPT ![s] = "awake"] /\ f[s] = "asleep"
    BY <1>1, <2>1, <2>a, CountsOfInv DEF f, Stage
  <2>3. Moves(f, pc', s, "asleep", "awake")
    BY <1>3, <2>a, <2>2 DEF Moves, Stage
  <2>4. /\ pc' \in [Thread -> Stage]
        /\ Cardinality(Of(pc', "awake")) = Cardinality(Of(pc, "awake")) + 1
        /\ Cardinality(Of(pc', "asleep")) = Cardinality(Of(pc, "asleep")) - 1
        /\ Cardinality(Of(pc', "in")) = Cardinality(Of(pc, "in")) - 1
    BY <1>3, <2>3, Moved DEF Stage
  <2>5. Cardinality(Of(pc', "asleep")) \in Nat /\ Cardinality(Of(pc, "asleep")) # 0
    BY <2>4, OfFinite, CountsOfInv DEF Stage
  <2>6. AdmissionTypeOK'
    BY <1>1, <1>4, <2>4, CountsOfInv DEF AdmissionTypeOK, Stage
  <2>7. permits' = permits + 1 /\ permits <= Cardinality(Of(pc, "awake"))
    BY <1>1, <1>6, <2>5, CountsOfInv
  <2>8. QED
    BY <1>1, <1>6, <2>4, <2>5, <2>6, <2>7, CountsOfInv, InvByCount DEF Stage
<1>7. QED
  BY <1>5, <1>6 DEF Release, Notified, f

\* Steps that leave the admission alone keep its invariant.
LEMMA AdmissionInductive ==
    AdmissionInv /\ [AdmissionNext]_admission => AdmissionInv'
<1> SUFFICES ASSUME AdmissionInv, [AdmissionNext]_admission PROVE AdmissionInv'
  OBVIOUS
<1>1. CASE UNCHANGED admission
  BY <1>1 DEF admission, AdmissionInv, AdmissionTypeOK, PermitsConserved, NoLostWakeup, In
<1>2. ASSUME NEW t \in Thread,
             Request(t) \/ AdmissionStep(t) \/ SpuriousWake(t) \/ Release(t)
      PROVE  AdmissionInv'
  BY <1>2, RequestKeeps, AcquireKeeps, SleepKeeps, SpuriousWakeKeeps, ReleaseKeeps
     DEF AdmissionStep
<1>3. QED
  BY <1>1, <1>2 DEF AdmissionNext

LEMMA AdmissionInvariant == AdmissionSpec => []AdmissionInv
BY AdmissionInitial, AdmissionInductive, PTL DEF AdmissionSpec

-----------------------------------------------------------------------------
(* The promise of the cap.                                                 *)

\* Under the invariant a thread enters only where the promise lets it.
LEMMA StepPermitted ==
    AdmissionInv /\ [AdmissionNext]_admission => [Permits!Next]_(Permits!vars)
<1> USE DEF Permits!vars, Permits!Next, Permits!Want, Permits!Enter, Permits!Leave,
            Permits!Room
<1> SUFFICES ASSUME AdmissionInv, [AdmissionNext]_admission
             PROVE  [Permits!Next]_(Permits!vars)
  OBVIOUS
<1>0. pc \in [Thread -> Stage] /\ limit \in Nat /\ permits \in Nat
      /\ (limit > 0 => permits + Cardinality(In("in")) = limit)
      /\ Cardinality(In("in")) \in Nat
  <2>1. In("in") = Of(pc, "in")
    BY DEF In, Of
  <2>2. QED
    BY <2>1, CountsOfInv, OfFinite
<1>1. CASE UNCHANGED admission
  BY <1>1 DEF admission, In
<1>2. ASSUME NEW t \in Thread, Request(t) PROVE Permits!Want(t)
  BY <1>0, <1>2 DEF Request, In
<1>3. ASSUME NEW t \in Thread, Acquire(t) PROVE Permits!Enter(t)
  <2>1. t \in In("want") \cup In("asleep") \cup In("awake") /\ limit' = limit
    BY <1>3 DEF Acquire, In
  <2>2. limit = 0 \/ Cardinality(In("in")) < limit
    BY <1>0, <1>3 DEF Acquire, Passes
  <2>3. /\ In("in")' = In("in") \cup {t}
        /\ (In("want") \cup In("asleep") \cup In("awake"))' =
             (In("want") \cup In("asleep") \cup In("awake")) \ {t}
    BY <1>0, <1>3 DEF Acquire, In
  <2>4. Permits!Cardinality(In("in")) = Cardinality(In("in"))
    BY DEF Permits!Cardinality, Cardinality
  <2>5. QED
    BY <2>1, <2>2, <2>3, <2>4
<1>4. ASSUME NEW t \in Thread, Sleep(t) \/ SpuriousWake(t) PROVE UNCHANGED Permits!vars
  BY <1>0, <1>4 DEF Sleep, SpuriousWake, In
<1>5. ASSUME NEW t \in Thread, Release(t) PROVE Permits!Leave(t)
  BY <1>0, <1>5 DEF Release, Notified, In
<1>6. QED
  BY <1>1, <1>2, <1>3, <1>4, <1>5 DEF AdmissionNext, AdmissionStep

\* semaphore.rs: the semaphore implements the cap for any number of threads and any
\* configured value: never more than the cap in the back end, whatever the wake-ups.
THEOREM AdmissionImplementsPermits == AdmissionSpec => Permits!Safety
<1>1. AdmissionInit => Permits!Init
  BY LimitAssumption DEF AdmissionInit, Permits!Init, In
<1>2. QED
  BY <1>1, StepPermitted, AdmissionInvariant, PTL DEF AdmissionSpec, Permits!Safety

-----------------------------------------------------------------------------
(* The VLAN collector uses the admission as it is.                         *)

\* Every step of the collector, its workers and the others is one of the admission's
\* or leaves it alone; a panic releases like a reply.
LEMMA VlanStepAdmitted == [Next]_vars => [AdmissionNext]_admission
<1> SUFFICES ASSUME [Next]_vars PROVE [AdmissionNext]_admission
  OBVIOUS
<1> USE DEF admission
<1>1. CASE UNCHANGED vars
  BY <1>1 DEF vars
<1>2. ASSUME NEW d \in Device, ChangeRow(d) \/ device_vlan_poll(d)
      PROVE  UNCHANGED admission
  BY <1>2 DEF ChangeRow, device_vlan_poll
<1>3. ASSUME SystemPollingSet \/ Shutdown \/ Elapse \/ CollectorStep
      PROVE  UNCHANGED admission
  BY <1>3 DEF SystemPollingSet, Shutdown, Elapse, CollectorStep, Stop, Cycle, EndCycle,
              TakeTriggered, PollNow, EndPollNow
<1>4. ASSUME NEW k \in Worker, WorkerStep(k)
      PROVE  [AdmissionNext]_admission
  BY <1>4, WorkerAssumption
     DEF WorkerStep, PopItem, FetchTable, Respond, Panic, AdmissionNext
<1>5. ASSUME NEW t \in Other, OtherRequest(t) \/ OtherRespond(t)
      PROVE  AdmissionNext
  BY <1>5 DEF OtherRequest, OtherRespond, Other, AdmissionNext
<1>6. ASSUME NEW t \in Thread, Admit(t) \/ Spurious(t)
      PROVE  AdmissionNext
  BY <1>6 DEF Admit, Spurious, AdmissionNext
<1>7. QED
  BY <1>1, <1>2, <1>3, <1>4, <1>5, <1>6 DEF Next

LEMMA VlanAdmission == Spec => AdmissionSpec
<1>1. Init => AdmissionInit
  BY DEF Init
<1>2. QED
  BY <1>1, VlanStepAdmitted, PTL DEF Spec, AdmissionSpec

\* semaphore.rs (release): "One permit freed -> wake one waiter": with the collector's
\* workers, their panics and the other collectors, no free permit is left to threads
\* that all sleep.
THEOREM NoWakeupLost == Spec => []NoLostWakeup
<1>1. AdmissionInv => NoLostWakeup
  BY DEF AdmissionInv
<1>2. QED
  BY <1>1, VlanAdmission, AdmissionInvariant, PTL

\* The cap holds for every request of the process, the collector's among them.
THEOREM CapHolds == Spec => Permits!Safety
BY VlanAdmission, AdmissionImplementsPermits, PTL

-----------------------------------------------------------------------------
(* The poll-now queue of the VLAN collector.                               *)

\* run_bounded spawns somebody for a batch that is not empty.
LEMMA SpawnedSome ==
    ASSUME NEW n \in Nat, n # 0
    PROVE  \E k \in Worker : k \in Spawned(n)
<1> DEFINE c == Cardinality(Worker)
           m == IF n < c THEN n ELSE c
<1>1. IsFiniteSet(Worker)
  BY WorkerAssumption, ThreadAssumption, FS_Subset
<1>2. c \in Nat /\ c # 0 /\ ExistsBijection(1..c, Worker)
  BY <1>1, WorkerAssumption, FS_CardinalityType, FS_EmptySet
<1>3. m \in 1..c
  BY <1>2
<1> HIDE DEF c, m
<1>4. PICK f : f \in Bijection(1..c, Worker)
  BY <1>2 DEF ExistsBijection
<1> DEFINE S == {f[i] : i \in 1..m}
           g == [i \in 1..m |-> f[i]]
<1>5. f \in [1..c -> Worker] /\ \A i, j \in 1..c : f[i] = f[j] => i = j
  BY <1>4 DEF Bijection, Injection, IsInjective
<1>6. 1..m \subseteq 1..c
  BY <1>2, <1>3
<1>7. g \in Bijection(1..m, S)
  BY <1>5, <1>6 DEF Bijection, Injection, Surjection, IsInjective
<1>8. S \in SUBSET Worker /\ Cardinality(S) = m
  <2>1. IsFiniteSet(1..m) /\ Cardinality(1..m) = m
    BY <1>2, <1>3, FS_Interval
  <2>2. ExistsBijection(1..m, S)
    BY <1>7 DEF ExistsBijection
  <2>3. QED
    BY <1>5, <1>6, <2>1, <2>2, FS_Bijection
<1>9. Spawned(n) \in SUBSET Worker /\ Cardinality(Spawned(n)) = m
  BY <1>8 DEF Spawned, c, m
<1>10. Spawned(n) # {}
  BY <1>2, <1>3, <1>9, FS_EmptySet
<1>11. QED
  BY <1>9, <1>10

Doing == {NoThread, Idle, Ended, Panicked} \cup
         [is : {"polling"}, device : Device, asked : BOOLEAN]

\* What a worker is doing tells one thing from another.
LEMMA DoingApart ==
    /\ NoThread.is = "none" /\ Idle.is = "idle"
    /\ Ended.is = "ended" /\ Panicked.is = "panicked"
    /\ Idle # NoThread /\ Ended # NoThread /\ Panicked # NoThread
    /\ Ended # Idle /\ Panicked # Ended
BY DEF NoThread, Idle, Ended, Panicked

LEMMA PollingIs ==
    ASSUME NEW d \in Device PROVE Polling(d, FALSE) \in Doing \ {NoThread, Ended}
<1>1. Polling(d, FALSE) \in [is : {"polling"}, device : Device, asked : BOOLEAN]
  BY DEF Polling
<1>2. Polling(d, FALSE).is = "polling"
  BY DEF Polling
<1>3. QED
  BY <1>1, <1>2, DoingApart DEF Doing

LEMMA FetchingDoes ==
    ASSUME NEW k \in Worker, work[k] \in Doing, Fetching(k)
    PROVE  work[k] \in [is : {"polling"}, device : Device, asked : BOOLEAN]
BY DoingApart DEF Fetching, Doing

\* The inductive invariant of a poll-now pass: a device whose request it took up and
\* that is still owed a poll waits in the queue, if it was on the list, and the queue of
\* a running batch is somebody's to empty.
PollTypeOK ==
    /\ store \in SUBSET Device /\ pending \in SUBSET Device
    /\ triggered \in SUBSET Device /\ queue \in SUBSET Device /\ owed \in SUBSET Device
    /\ unlisted \in SUBSET Device
    /\ work \in [Worker -> Doing]
    /\ row \in [Device -> {"none", "off", "on"}]
    /\ loop \in {"top", "cycle", "queue", "load", "batch", "stopped", "dead"}

TakenUp == triggered \subseteq pending

QueueDrained == (\E k \in Worker : work[k] = Ended) => queue = {}

QueueStaffed == loop = "batch" /\ queue # {} => \E k \in Worker : work[k] # NoThread

OwedQueued == loop = "batch" => owed \cap triggered \subseteq queue \cup unlisted

PollInv == PollTypeOK /\ TakenUp /\ QueueDrained /\ QueueStaffed /\ OwedQueued

LEMMA PollInitial == Init => PollInv
BY DoingApart, WorkerAssumption DEF Init, NoThreads, Doing, PollInv, PollTypeOK, TakenUp,
   QueueDrained, QueueStaffed, OwedQueued

\* A batch is started with a staff for its queue and nobody done with it.
LEMMA BatchStarted ==
    ASSUME NEW items \in SUBSET Device, StartBatch(items)
    PROVE  /\ work' \in [Worker -> Doing] /\ queue' = items
           /\ \A k \in Worker : work'[k] # Ended
           /\ items # {} => \E k \in Worker : work'[k] # NoThread
<1>1. items # {} => Cardinality(items) \in Nat /\ Cardinality(items) # 0
  BY DeviceAssumption, FS_Subset, FS_CardinalityType, FS_EmptySet
<1>2. items # {} => \E k \in Worker : k \in Spawned(Cardinality(items))
  BY <1>1, SpawnedSome
<1> DEFINE spawned == Spawned(Cardinality(items))
<1>3. work' = [k \in Worker |-> IF k \in spawned THEN Idle ELSE NoThread] /\ queue' = items
  BY DEF StartBatch
<1> HIDE DEF spawned
<1>4. QED
  BY <1>2, <1>3, DoingApart DEF Doing, spawned

\* The routes, the settings, the clock.
LEMMA OutsideKeepsPoll ==
    ASSUME PollInv,
           \/ \E d \in Device : ChangeRow(d) \/ device_vlan_poll(d)
           \/ SystemPollingSet \/ Shutdown \/ Elapse
    PROVE  PollInv'
<1> USE DEF PollInv, PollTypeOK, TakenUp, QueueDrained, QueueStaffed, OwedQueued, batch, env, history
<1>1. ASSUME NEW d \in Device, ChangeRow(d) PROVE PollInv'
  BY <1>1 DEF ChangeRow
<1>2. ASSUME NEW d \in Device, device_vlan_poll(d) PROVE PollInv'
  BY <1>2 DEF device_vlan_poll
<1>3. ASSUME SystemPollingSet \/ Shutdown \/ Elapse PROVE PollInv'
  BY <1>3 DEF SystemPollingSet, Shutdown, Elapse
<1>4. QED
  BY <1>1, <1>2, <1>3

LEMMA WorkerKeepsPoll ==
    ASSUME PollInv, NEW k \in Worker, WorkerStep(k)
    PROVE  PollInv'
<1> USE DEF PollInv, PollTypeOK, TakenUp, QueueDrained, QueueStaffed, OwedQueued, env, history
<1>0. work[k] \in Doing
  OBVIOUS
<1>1. CASE PopItem(k)
  <2>1. CASE queue = {} /\ work' = [work EXCEPT ![k] = Ended] /\ UNCHANGED <<queue, owed>>
    BY <1>1, <2>1, DoingApart DEF PopItem, Doing
  <2>2. ASSUME NEW d \in queue, work' = [work EXCEPT ![k] = Polling(d, FALSE)],
               queue' = queue \ {d}, owed' = owed \ {d}
        PROVE  PollInv'
    <3>1. Polling(d, FALSE) \in Doing \ {NoThread, Ended}
      BY PollingIs
    <3>2. UNCHANGED <<row, loop, store, pending, triggered, unlisted>>
      BY <1>1 DEF PopItem
    <3>3. \A j \in Worker : work'[j] = IF j = k THEN Polling(d, FALSE) ELSE work[j]
      BY <2>2
    <3>4. QED
      BY <2>2, <3>1, <3>2, <3>3
  <2>3. QED
    BY <1>1, <2>1, <2>2 DEF PopItem
<1>2. CASE FetchTable(k)
  <2>1. work[k] \in [is : {"polling"}, device : Device, asked : BOOLEAN]
    BY <1>0, <1>2, FetchingDoes DEF FetchTable
  <2>2. PICK w \in Doing \ {NoThread, Ended} : work' = [work EXCEPT ![k] = w]
    <3> DEFINE w == [work[k] EXCEPT !.asked = TRUE]
    <3>1. w \in [is : {"polling"}, device : Device, asked : BOOLEAN]
      BY <2>1
    <3>2. w.is = "polling"
      BY <3>1
    <3>3. work' = [work EXCEPT ![k] = w]
      BY <1>2 DEF FetchTable
    <3> HIDE DEF w
    <3>4. QED
      BY <3>1, <3>2, <3>3, DoingApart DEF Doing
  <2>3. UNCHANGED <<row, loop, store, pending, triggered, queue, owed, unlisted>>
    BY <1>2 DEF FetchTable
  <2>4. work[k] # NoThread
    BY <1>2, DoingApart DEF FetchTable, Fetching
  <2>5. QED
    BY <2>2, <2>3, <2>4
<1>3. CASE Respond(k)
  <2>1. work[k] \in [is : {"polling"}, device : Device, asked : BOOLEAN]
    BY <1>0, <1>3, FetchingDoes DEF Respond
  <2>2. QED
    BY <1>3, <2>1, DoingApart DEF Respond, Doing
<1>4. CASE Panic(k)
  BY <1>4, DoingApart DEF Panic, Doing
<1>5. QED
  BY <1>1, <1>2, <1>3, <1>4 DEF WorkerStep

LEMMA CollectorKeepsPoll ==
    ASSUME PollInv, CollectorStep
    PROVE  PollInv'
<1> USE DEF PollInv, PollTypeOK, TakenUp, QueueDrained, QueueStaffed, OwedQueued, batch, env, history
<1>n. NoThreads \in [Worker -> Doing] /\ \A k \in Worker : NoThreads[k] # Ended
  BY DoingApart DEF NoThreads, Doing
<1>1. CASE Stop
  BY <1>1 DEF Stop
<1>2. CASE Cycle
  <2>1. PICK list \in SUBSET Device : StartBatch(list) /\ store' = Retain(list)
    BY <1>2 DEF Cycle
  <2>2. QED
    BY <1>2, <2>1, BatchStarted DEF Cycle, Retain
<1>3. CASE EndCycle
  BY <1>3, <1>n DEF EndCycle
<1>4. CASE TakeTriggered
  BY <1>4 DEF TakeTriggered
<1>5. CASE PollNow
  <2>1. PICK list \in SUBSET Device : /\ StartBatch(list \cap triggered)
                                      /\ unlisted' = triggered \ list
    BY <1>5 DEF PollNow
  <2>2. QED
    BY <1>5, <2>1, BatchStarted DEF PollNow
<1>6. CASE EndPollNow
  BY <1>6, <1>n DEF EndPollNow, Unreleased
<1>7. QED
  BY <1>1, <1>2, <1>3, <1>4, <1>5, <1>6 DEF CollectorStep

LEMMA PollInductive == PollInv /\ [Next]_vars => PollInv'
<1> SUFFICES ASSUME PollInv, [Next]_vars PROVE PollInv'
  OBVIOUS
<1>1. CASE UNCHANGED <<row, loop, store, pending, triggered, queue, work, owed, unlisted>>
  BY <1>1 DEF PollInv, PollTypeOK, TakenUp, QueueDrained, QueueStaffed, OwedQueued
<1>2. CASE UNCHANGED vars
  BY <1>1, <1>2 DEF vars, env, batch, history
<1>3. ASSUME NEW t \in Thread,
             OtherRequest(t) \/ OtherRespond(t) \/ Admit(t) \/ Spurious(t)
      PROVE  PollInv'
  BY <1>1, <1>3 DEF OtherRequest, OtherRespond, Admit, Spurious, OtherRest, env, batch, history
<1>4. QED
  BY <1>2, <1>3, OutsideKeepsPoll, WorkerKeepsPoll, CollectorKeepsPoll DEF Next, Other

LEMMA PollInvariant == Spec => []PollInv
BY PollInitial, PollInductive, PTL DEF Spec

\* Only the end of a poll-now pass releases a request, and by then every device the
\* pass took up was polled after its request, or was not on the list.
LEMMA ReleasedPolled ==
    ASSUME PollInv, [Next]_vars, NEW d \in Device, d \in pending, d \notin pending'
    PROVE  d \notin owed \/ d \in unlisted
<1>1. EndPollNow
  BY DEF Next, vars, batch, env, history, ChangeRow, device_vlan_poll, SystemPollingSet, Shutdown,
     Elapse, CollectorStep, Stop, Cycle, EndCycle, TakeTriggered, PollNow, WorkerStep,
     PopItem, FetchTable, Respond, Panic, OtherRequest, OtherRespond, Admit, Spurious,
     OtherRest
<1>2. loop = "batch" /\ Joined /\ ~AnyPanicked /\ d \in triggered
  BY <1>1 DEF EndPollNow, Unreleased
<1>3. queue = {}
  BY <1>2 DEF PollInv, QueueStaffed, QueueDrained, Joined, AnyPanicked
<1>4. QED
  BY <1>2, <1>3 DEF PollInv, OwedQueued

\* run (vlanpoller.rs): however the route, the collector's passes, its workers and their
\* panics interleave, and whatever the lists read, a pass answers only requests accepted
\* before the poll of their device began, and those of devices its list lacked.
THEOREM PollNowAnsweredFresh == Spec => AnsweredByFreshPoll
<1>1. PollInv /\ [Next]_vars =>
        [\A d \in Device :
           d \in pending /\ d \notin pending' => d \notin owed \/ d \in unlisted]_pending
  BY ReleasedPolled
<1>2. QED
  BY <1>1, PollInvariant, PTL DEF Spec, AnsweredByFreshPoll

-----------------------------------------------------------------------------
(* The adaptive timeout: what adapt and seed make of a latency record.     *)

LEMMA ClampBounds ==
    ASSUME NEW x \in Int PROVE Clamp(x) \in Base..Ceiling
BY TimeoutAssumption DEF Clamp

\* The mean stays between the round trips it is made of.
LEMMA MeanBounds ==
    ASSUME NEW ewma \in 0..Ceiling, NEW r \in 1..Ceiling
    PROVE  Mean(ewma, r) \in 1..Ceiling
BY TimeoutAssumption DEF Mean, NoMean

LEMMA TargetBounds ==
    ASSUME NEW ewma \in 0..Ceiling PROVE Target(ewma) \in Base..Ceiling
<1>1. Factor \in Int /\ Margin \in Int /\ ewma \in Int
  BY TimeoutAssumption
<1>2. Factor * ewma + Margin \in Int
  BY <1>1
<1>3. QED
  BY <1>2, ClampBounds DEF Target

\* Any answer brings a record back to life.
LEMMA AnsweredAlive ==
    ASSUME NEW s \in DeviceState, NEW r \in 1..Ceiling
    PROVE  /\ Answered(s, r) \in DeviceState
           /\ ~Answered(s, r).dead /\ Answered(s, r).atMax = 0
<1>1. s.ewma \in 0..Ceiling
  BY DEF DeviceState
<1>2. Mean(s.ewma, r) \in 0..Ceiling
  BY <1>1, MeanBounds, TimeoutAssumption
<1>3. Target(Mean(s.ewma, r)) \in Base..Ceiling
  BY <1>2, TargetBounds
<1>4. 0 \in 0..DeadStreak
  BY TimeoutAssumption
<1>5. QED
  BY <1>2, <1>3, <1>4 DEF Answered, DeviceState

\* A timeout counts at most one, and kills only when that one completes the streak.
LEMMA TimedOutCounts ==
    ASSUME NEW s \in DeviceState, ~s.dead => s.atMax < DeadStreak
    PROVE  /\ TimedOut(s) \in DeviceState
           /\ s.dead => TimedOut(s).dead
           /\ ~s.dead /\ TimedOut(s).dead => s.atMax + 1 = DeadStreak
           /\ ~TimedOut(s).dead => /\ TimedOut(s).atMax <= s.atMax + 1
                                   /\ TimedOut(s).atMax < DeadStreak
<1>t. /\ s.eff \in Base..Ceiling /\ s.atMax \in 0..DeadStreak /\ s.dead \in BOOLEAN
      /\ Base \in Base..Ceiling /\ DeadStreak \in Nat /\ Base \in Nat /\ Ceiling \in Nat
  BY TimeoutAssumption DEF DeviceState
<1>1. CASE s.dead
  <2>1. TimedOut(s) = [s EXCEPT !.eff = Base]
    BY <1>1 DEF TimedOut
  <2>2. QED
    BY <1>1, <1>t, <2>1 DEF DeviceState
<1>2. CASE ~s.dead /\ s.eff < Ceiling
  <2> DEFINE e == Clamp((3 * s.eff) \div 2 + BackoffAdd)
  <2>1. TimedOut(s) = [s EXCEPT !.eff = e]
    BY <1>2 DEF TimedOut
  <2>2. e \in Base..Ceiling
    <3>1. (3 * s.eff) \div 2 + BackoffAdd \in Int
      BY <1>t, TimeoutAssumption
    <3>2. QED
      BY <3>1, ClampBounds
  <2> HIDE DEF e
  <2>3. QED
    BY <1>2, <1>t, <2>1, <2>2 DEF DeviceState
<1>3. CASE ~s.dead /\ ~(s.eff < Ceiling)
  <2>1. s.atMax + 1 \in 0..DeadStreak /\ s.atMax + 1 <= DeadStreak
    BY <1>3, <1>t
  <2>2. CASE s.atMax + 1 >= DeadStreak
    <3>1. TimedOut(s) = [s EXCEPT !.atMax = s.atMax + 1, !.dead = TRUE, !.eff = Base]
      BY <1>3, <2>2 DEF TimedOut
    <3>2. s.atMax + 1 = DeadStreak
      BY <1>t, <2>1, <2>2
    <3>3. TimedOut(s) \in DeviceState
      BY <1>t, <2>1, <3>1 DEF DeviceState
    <3>4. TimedOut(s).dead
      BY <3>1 DEF DeviceState
    <3>5. QED
      BY <1>3, <3>2, <3>3, <3>4
  <2>3. CASE ~(s.atMax + 1 >= DeadStreak)
    <3>1. TimedOut(s) = [s EXCEPT !.atMax = s.atMax + 1]
      BY <1>3, <2>3 DEF TimedOut
    <3>2. QED
      BY <1>3, <1>t, <2>1, <2>3, <3>1 DEF DeviceState
  <2>4. QED
    BY <2>2, <2>3
<1>4. QED
  BY <1>1, <1>2, <1>3

Rows == [ewma : 0..Ceiling, eff : Base..Ceiling, dead : BOOLEAN]

LEMMA SeededOK ==
    ASSUME NEW r \in {NoRow} \cup Rows
    PROVE  /\ Seeded(r) \in DeviceState
           /\ ~Seeded(r).dead => Seeded(r).atMax = 0
<1>0. 0 \in 0..DeadStreak /\ DeadStreak \in 0..DeadStreak /\ Base \in Base..Ceiling
      /\ 0 \in 0..Ceiling
  BY TimeoutAssumption
<1>1. CASE r = NoRow
  BY <1>0, <1>1 DEF Seeded, NewState, NoMean, DeviceState
<1>2. CASE r # NoRow
  <2>1. r.ewma \in 0..Ceiling /\ r.dead \in BOOLEAN /\ r.eff \in Int
    BY <1>2, TimeoutAssumption DEF Rows
  <2>2. Clamp(r.eff) \in Base..Ceiling
    BY <2>1, ClampBounds
  <2>3. QED
    BY <1>0, <1>2, <2>1, <2>2 DEF Seeded, DeviceState
<1>3. QED
  BY <1>1, <1>2

LEMMA NewStateOK == NewState \in DeviceState /\ ~NewState.dead /\ NewState.atMax = 0
BY TimeoutAssumption DEF NewState, NoMean, DeviceState

-----------------------------------------------------------------------------
(* The inductive invariant of a query: what makes it fail without a miss   *)
(* of its own would be a socket that is stale again after it was reopened, *)
(* which only this query's own late answers could have made so.            *)

Sockets == [timeout : Base..Ceiling, retries : {0, Retries}, stale : BOOLEAN]

Queries == [pc : {"ask", "answered", "failed"}, eff : Base..Ceiling,
            retries : {0, Retries}, left : 0..Retries, late : BOOLEAN,
            again : BOOLEAN, missed : BOOLEAN]

SocketHeld ==
    \A t \in Collector : query[t].pc \in {"ask", "answered"} => sock[t] # NoSocket

LeftoversOwn ==
    \A t \in Collector : query[t].pc \in {"ask", "answered"} =>
        /\ query[t].late => query[t].missed
        /\ query[t].again /\ ~query[t].missed => ~sock[t].stale

\* A living record has counted no more than the timeouts recorded since an answer.
StreakSilent == ~lat.dead => lat.atMax <= silent /\ lat.atMax < DeadStreak

SessionInv ==
    SessionTypeOK /\ SocketHeld /\ LeftoversOwn /\ FailedOnlyIfMissed /\ StreakSilent

\* What one thread holds, as far as the invariant goes.
ThreadOK(q, s) ==
    /\ s \in {NoSocket} \cup Sockets
    /\ q \in {NoQuery} \cup Queries
    /\ q.pc \in {"ask", "answered"} =>
          /\ s # NoSocket
          /\ q.late => q.missed
          /\ q.again /\ ~q.missed => ~s.stale
    /\ q.pc = "failed" => q.missed

RecordOK(l, n) ==
    /\ l \in DeviceState /\ n \in 0..DeadStreak
    /\ ~l.dead => l.atMax <= n /\ l.atMax < DeadStreak

LEMMA SessionInvHas ==
    ASSUME SessionInv
    PROVE  /\ rtt \in Rtt \cup {Never} /\ listed \in BOOLEAN
           /\ db \in {NoRow} \cup Rows
           /\ last \in {NoRow} \cup [eff : Base..Ceiling, dead : BOOLEAN]
           /\ RecordOK(lat, silent)
           /\ sock \in [Collector -> {NoSocket} \cup Sockets]
           /\ query \in [Collector -> {NoQuery} \cup Queries]
           /\ \A t \in Collector : ThreadOK(query[t], sock[t])
BY DEF SessionInv, SessionTypeOK, SocketHeld, LeftoversOwn, FailedOnlyIfMissed,
       StreakSilent, RecordOK, ThreadOK, Rows, Sockets, Queries

LEMMA SessionInvNext ==
    ASSUME rtt' \in Rtt \cup {Never}, listed' \in BOOLEAN,
           db' \in {NoRow} \cup Rows,
           last' \in {NoRow} \cup [eff : Base..Ceiling, dead : BOOLEAN],
           RecordOK(lat', silent'),
           sock' \in [Collector -> {NoSocket} \cup Sockets],
           query' \in [Collector -> {NoQuery} \cup Queries],
           \A t \in Collector : ThreadOK(query'[t], sock'[t])
    PROVE  SessionInv'
BY DEF SessionInv, SessionTypeOK, SocketHeld, LeftoversOwn, FailedOnlyIfMissed,
       StreakSilent, RecordOK, ThreadOK, Rows, Sockets, Queries

\* A step of one thread that leaves its session in order keeps the invariant.
LEMMA ThreadKeeps ==
    ASSUME SessionInv, NEW t \in Collector, NEW q, NEW s,
           query' = [query EXCEPT ![t] = q], sock' = [sock EXCEPT ![t] = s],
           ThreadOK(q, s), RecordOK(lat', silent'),
           listed' \in BOOLEAN, UNCHANGED <<rtt, db, last>>
    PROVE  SessionInv'
<1>1. /\ sock \in [Collector -> {NoSocket} \cup Sockets]
      /\ query \in [Collector -> {NoQuery} \cup Queries]
      /\ \A u \in Collector : ThreadOK(query[u], sock[u])
      /\ rtt \in Rtt \cup {Never} /\ db \in {NoRow} \cup Rows
      /\ last \in {NoRow} \cup [eff : Base..Ceiling, dead : BOOLEAN]
  BY SessionInvHas
<1>2. q \in {NoQuery} \cup Queries /\ s \in {NoSocket} \cup Sockets
  BY DEF ThreadOK
<1>3. /\ query'[t] = q /\ sock'[t] = s
      /\ \A u \in Collector : u # t => query'[u] = query[u] /\ sock'[u] = sock[u]
  BY <1>1
<1>4. \A u \in Collector : ThreadOK(query'[u], sock'[u])
  BY <1>1, <1>3
<1>5. /\ sock' \in [Collector -> {NoSocket} \cup Sockets]
      /\ query' \in [Collector -> {NoQuery} \cup Queries]
  BY <1>1, <1>2
<1>6. QED
  BY <1>1, <1>4, <1>5, SessionInvNext

\* The session of a query that is under way.
LEMMA UnderWay ==
    ASSUME SessionInv, NEW t \in Collector, query[t].pc # "idle"
    PROVE  /\ query[t] \in Queries /\ sock[t] \in {NoSocket} \cup Sockets
           /\ query[t].pc \in {"ask", "answered"} => sock[t] \in Sockets
           /\ ThreadOK(query[t], sock[t])
           /\ sock = [sock EXCEPT ![t] = sock[t]]
<1>1. query[t] # NoQuery
  BY DEF NoQuery
<1>2. QED
  BY <1>1, SessionInvHas DEF ThreadOK

LEMMA SocketIsOpen == \A s \in Sockets : s # NoSocket
<1> SUFFICES ASSUME NEW s \in Sockets PROVE s # NoSocket
  OBVIOUS
<1>1. s.timeout # 0
  BY TimeoutAssumption DEF Sockets
<1>2. QED
  BY <1>1 DEF NoSocket

LEMMA BeginKeeps ==
    ASSUME SessionInv, NEW t \in Collector, Begin(t) PROVE SessionInv'
<1> DEFINE s == IF Kept(sock[t]) THEN sock[t] ELSE Opened(lat.eff, EffectiveRetries(lat))
           q == [pc |-> "ask", eff |-> lat.eff, retries |-> EffectiveRetries(lat),
                 left |-> s.retries, late |-> FALSE, again |-> FALSE, missed |-> FALSE]
<1>1. lat.eff \in Base..Ceiling /\ EffectiveRetries(lat) \in {0, Retries}
  BY SessionInvHas DEF RecordOK, DeviceState, EffectiveRetries
<1>2. Opened(lat.eff, EffectiveRetries(lat)) \in Sockets
  BY <1>1 DEF Opened, Sockets
<1>3. s \in Sockets
  <2>1. Kept(sock[t]) => sock[t] \in Sockets
    BY SessionInvHas DEF Kept
  <2>2. QED
    BY <1>2, <2>1
<1>4. s # NoSocket
  BY <1>3, SocketIsOpen
<1>5. s.retries \in 0..Retries
  BY <1>3, TimeoutAssumption DEF Sockets
<1>6. sock' = [sock EXCEPT ![t] = s] /\ query' = [query EXCEPT ![t] = q]
  BY DEF Begin
<1> HIDE DEF s
<1>7. q \in Queries /\ q.pc = "ask" /\ ~q.late /\ ~q.again
  BY <1>1, <1>5 DEF Queries
<1>8. ThreadOK(q, s)
  BY <1>3, <1>4, <1>7 DEF ThreadOK
<1> HIDE DEF q
<1>9. listed' \in BOOLEAN /\ UNCHANGED <<rtt, db, last>> /\ RecordOK(lat', silent')
  BY SessionInvHas DEF Begin
<1>10. QED
  BY <1>6, <1>8, <1>9, ThreadKeeps

\* An answer, timely or late, makes the record fresh.
LEMMA AnswerRecords ==
    ASSUME SessionInv, NEW r \in 1..Ceiling, RecordAnswer(r) PROVE RecordOK(lat', silent')
<1>1. lat \in DeviceState /\ 0 \in 0..DeadStreak /\ 0 < DeadStreak
  BY SessionInvHas, TimeoutAssumption DEF RecordOK
<1>2. QED
  BY <1>1, AnsweredAlive DEF RecordAnswer, RecordOK

LEMMA TimeoutRecords ==
    ASSUME SessionInv, RecordTimeout PROVE RecordOK(lat', silent')
<1>1. RecordOK(lat, silent)
  BY SessionInvHas
<1>2. DeadStreak \in Nat
  BY TimeoutAssumption
<1>3. silent' \in 0..DeadStreak /\ (silent' = silent + 1 \/ silent' = DeadStreak)
  BY <1>1, <1>2 DEF RecordTimeout, RecordOK
<1>4. lat' = TimedOut(lat) /\ lat \in DeviceState /\ (~lat.dead => lat.atMax < DeadStreak)
  BY <1>1 DEF RecordTimeout, RecordOK
<1>5. lat' \in DeviceState /\ (~lat'.dead => ~lat.dead /\ lat'.atMax <= lat.atMax + 1
                                            /\ lat'.atMax < DeadStreak)
  BY <1>4, TimedOutCounts
<1>6. lat.atMax \in Nat /\ lat'.atMax \in Nat /\ silent \in Nat
  BY <1>1, <1>4, <1>5, <1>2 DEF DeviceState, RecordOK
<1>7. QED
  BY <1>1, <1>2, <1>3, <1>5, <1>6 DEF RecordOK

LEMMA AnswerKeeps ==
    ASSUME SessionInv, NEW t \in Collector, Answer(t) \/ LateAnswer(t) PROVE SessionInv'
<1>0. /\ query[t].pc = "ask" /\ query' = [query EXCEPT ![t].pc = "answered"]
      /\ UNCHANGED <<rtt, listed, sock, db, last>>
  BY DEF Answer, LateAnswer, Asks
<1>1. /\ query[t] \in Queries /\ sock[t] \in Sockets /\ ThreadOK(query[t], sock[t])
      /\ sock' = [sock EXCEPT ![t] = sock[t]]
  BY <1>0, UnderWay
<1> DEFINE q == [query[t] EXCEPT !.pc = "answered"]
<1>2. q \in Queries /\ q.pc = "answered" /\ q.late = query[t].late
      /\ q.again = query[t].again /\ q.missed = query[t].missed
  BY <1>1 DEF Queries
<1>3. query' = [query EXCEPT ![t] = q]
  BY <1>0
<1> HIDE DEF q
<1>4. ThreadOK(q, sock[t])
  BY <1>0, <1>1, <1>2 DEF ThreadOK
<1>5. sock[t].timeout \in Nat /\ sock[t].timeout <= Ceiling /\ Ceiling \in Nat
  BY <1>1, TimeoutAssumption DEF Sockets
<1>6. RecordOK(lat', silent')
  <2>1. CASE Answer(t)
    <3>1. rtt \in 1..Ceiling
      BY <1>5, <2>1, SessionInvHas, TimeoutAssumption DEF Answer, Never
    <3>2. QED
      BY <2>1, <3>1, AnswerRecords DEF Answer
  <2>2. CASE LateAnswer(t)
    BY <1>5, <2>2, AnswerRecords DEF LateAnswer
  <2>3. QED
    BY <2>1, <2>2
<1>7. listed' \in BOOLEAN
  BY <1>0, SessionInvHas
<1>8. QED
  BY <1>0, <1>1, <1>3, <1>4, <1>6, <1>7, ThreadKeeps

\* A query that fails has missed an answer and leaves no socket.
LEMMA FailedKeeps ==
    ASSUME SessionInv, NEW t \in Collector, NEW q \in Queries, q.missed, Failed(t, q),
           RecordOK(lat', silent'), UNCHANGED <<rtt, listed, db, last>>
    PROVE  SessionInv'
<1> DEFINE f == [q EXCEPT !.pc = "failed"]
<1>1. f \in Queries /\ f.pc = "failed" /\ f.missed
  BY DEF Queries
<1>2. query' = [query EXCEPT ![t] = f] /\ sock' = [sock EXCEPT ![t] = NoSocket]
  BY DEF Failed
<1> HIDE DEF f
<1>3. ThreadOK(f, NoSocket)
  BY <1>1 DEF ThreadOK
<1>4. listed' \in BOOLEAN
  BY SessionInvHas
<1>5. QED
  BY <1>2, <1>3, <1>4, ThreadKeeps

\* A desynchronised session is reopened clean once; when that happens again, the query
\* itself has missed an answer, which is what the socket kept.
LEMMA MismatchKeeps ==
    ASSUME SessionInv, NEW t \in Collector, Mismatch(t) PROVE SessionInv'
<1>0. query[t].pc = "ask" /\ sock[t].stale /\ UNCHANGED <<rtt, lat, listed, db, last, silent>>
  BY DEF Mismatch, Asks
<1>1. query[t] \in Queries /\ sock[t] \in Sockets /\ ThreadOK(query[t], sock[t])
  BY <1>0, UnderWay
<1>2. RecordOK(lat', silent')
  BY <1>0, SessionInvHas
<1>3. CASE TriesAgain(t)
  <2> DEFINE q == [query[t] EXCEPT !.left = query[t].retries, !.late = FALSE, !.again = TRUE]
             s == Opened(query[t].eff, query[t].retries)
  <2>1. query' = [query EXCEPT ![t] = q] /\ sock' = [sock EXCEPT ![t] = s]
    BY <1>3 DEF Mismatch
  <2>2. query[t].retries \in 0..Retries
    BY <1>1, TimeoutAssumption DEF Queries
  <2>3. q \in Queries /\ q.pc = "ask" /\ ~q.late
    BY <1>0, <1>1, <2>2 DEF Queries
  <2>4. s \in Sockets /\ ~s.stale
    BY <1>1 DEF Opened, Sockets, Queries
  <2>5. s # NoSocket
    BY <2>4, SocketIsOpen
  <2> HIDE DEF q, s
  <2>6. ThreadOK(q, s)
    BY <2>3, <2>4, <2>5 DEF ThreadOK
  <2>7. listed' \in BOOLEAN
    BY <1>0, SessionInvHas
  <2>8. QED
    BY <1>0, <1>2, <2>1, <2>6, <2>7, ThreadKeeps
<1>4. CASE ~TriesAgain(t)
  <2>1. query[t].missed
    BY <1>0, <1>1, <1>4 DEF TriesAgain, ThreadOK
  <2>2. Failed(t, query[t])
    BY <1>4 DEF Mismatch
  <2>3. QED
    BY <1>0, <1>1, <1>2, <2>1, <2>2, FailedKeeps
<1>5. QED
  BY <1>3, <1>4

LEMMA ExpireKeeps ==
    ASSUME SessionInv, NEW t \in Collector, Expire(t) PROVE SessionInv'
<1> DEFINE q == [query[t] EXCEPT !.missed = TRUE]
           late == rtt \in Rtt
           l == [q EXCEPT !.left = q.left - 1, !.late = q.late \/ late]
<1>0. query[t].pc = "ask" /\ UNCHANGED <<rtt, listed, db, last>>
  BY DEF Expire, Asks
<1>1. /\ query[t] \in Queries /\ sock[t] \in Sockets /\ ThreadOK(query[t], sock[t])
      /\ sock = [sock EXCEPT ![t] = sock[t]]
  BY <1>0, UnderWay
<1>2. q \in Queries /\ q.missed /\ q.pc = "ask" /\ q.left \in 0..Retries
  BY <1>0, <1>1 DEF Queries
<1>3. listed' \in BOOLEAN
  BY <1>0, SessionInvHas
<1>4. CASE q.left > 0
  <2>1. query' = [query EXCEPT ![t] = l] /\ UNCHANGED <<sock, lat, silent>>
    BY <1>4 DEF Expire
  <2>2. q.left - 1 \in 0..Retries /\ late \in BOOLEAN
    BY <1>2, <1>4, TimeoutAssumption
  <2> HIDE DEF q, late
  <2>3. l \in Queries /\ l.missed /\ l.pc = "ask"
    BY <1>2, <2>2 DEF Queries
  <2> HIDE DEF l
  <2>4. ThreadOK(l, sock[t])
    BY <1>0, <1>1, <2>3 DEF ThreadOK
  <2>5. RecordOK(lat', silent')
    BY <2>1, SessionInvHas
  <2>6. QED
    BY <1>0, <1>1, <1>3, <2>1, <2>4, <2>5, ThreadKeeps
<1>5. CASE ~(q.left > 0)
  <2>1. Failed(t, q) /\ RecordTimeout
    BY <1>5 DEF Expire
  <2> HIDE DEF q
  <2>2. QED
    BY <1>0, <1>2, <2>1, FailedKeeps, TimeoutRecords
<1>6. QED
  BY <1>4, <1>5

LEMMA RefuseKeeps ==
    ASSUME SessionInv, NEW t \in Collector, Refuse(t) PROVE SessionInv'
<1> DEFINE q == [query[t] EXCEPT !.missed = TRUE]
           l == [q EXCEPT !.left = q.left - 1]
<1>0. query[t].pc = "ask" /\ UNCHANGED <<rtt, lat, listed, db, last, silent>>
  BY DEF Refuse, Asks
<1>1. /\ query[t] \in Queries /\ sock[t] \in Sockets /\ ThreadOK(query[t], sock[t])
      /\ sock = [sock EXCEPT ![t] = sock[t]]
  BY <1>0, UnderWay
<1>2. q \in Queries /\ q.missed /\ q.pc = "ask" /\ q.left \in 0..Retries
  BY <1>0, <1>1 DEF Queries
<1>3. listed' \in BOOLEAN /\ RecordOK(lat', silent')
  BY <1>0, SessionInvHas
<1>4. CASE q.left > 0
  <2>1. query' = [query EXCEPT ![t] = l] /\ UNCHANGED sock
    BY <1>4 DEF Refuse
  <2>2. q.left - 1 \in 0..Retries
    BY <1>2, <1>4, TimeoutAssumption
  <2> HIDE DEF q
  <2>3. l \in Queries /\ l.missed /\ l.pc = "ask"
    BY <1>2, <2>2 DEF Queries
  <2> HIDE DEF l
  <2>4. ThreadOK(l, sock[t])
    BY <1>0, <1>1, <2>3 DEF ThreadOK
  <2>5. QED
    BY <1>0, <1>1, <1>3, <2>1, <2>4, ThreadKeeps
<1>5. CASE ~(q.left > 0)
  <2>1. Failed(t, q)
    BY <1>5 DEF Refuse
  <2> HIDE DEF q
  <2>2. QED
    BY <1>0, <1>2, <1>3, <2>1, FailedKeeps
<1>6. QED
  BY <1>4, <1>5

\* What a query leaves in its socket are answers it has missed.
LEMMA LeftBehind ==
    ASSUME SessionInv, NEW t \in Collector, query[t].pc = "answered", LeavesBehind(t)
    PROVE  \E s \in Sockets :
              /\ sock' = [sock EXCEPT ![t] = s] /\ s # NoSocket
              /\ s.retries = sock[t].retries
              /\ query[t].again /\ ~query[t].missed => ~s.stale
<1>1. /\ sock[t] \in Sockets /\ ThreadOK(query[t], sock[t])
      /\ sock = [sock EXCEPT ![t] = sock[t]]
  BY UnderWay
<1>2. CASE ~query[t].late
  BY <1>1, <1>2 DEF LeavesBehind, ThreadOK
<1>3. CASE query[t].late
  <2> DEFINE s == [sock[t] EXCEPT !.stale = TRUE]
  <2>1. sock' = [sock EXCEPT ![t] = s]
    BY <1>3 DEF LeavesBehind
  <2>2. s \in Sockets /\ s.retries = sock[t].retries
    BY <1>1 DEF Sockets
  <2>3. query[t].missed
    BY <1>1, <1>3 DEF ThreadOK
  <2> HIDE DEF s
  <2>4. s # NoSocket
    BY <2>2, SocketIsOpen
  <2>5. QED
    BY <2>1, <2>2, <2>3, <2>4
<1>4. QED
  BY <1>2, <1>3

LEMMA NextRequestKeeps ==
    ASSUME SessionInv, NEW t \in Collector, NextRequest(t) PROVE SessionInv'
<1> DEFINE q == [query[t] EXCEPT !.pc = "ask", !.left = sock[t].retries, !.late = FALSE]
<1>0. query[t].pc = "answered" /\ LeavesBehind(t)
      /\ UNCHANGED <<rtt, lat, listed, db, last, silent>>
  BY DEF NextRequest
<1>1. query[t] \in Queries /\ sock[t] \in Sockets
  BY <1>0, UnderWay
<1>2. sock[t].retries \in 0..Retries
  BY <1>1, TimeoutAssumption DEF Sockets
<1>3. /\ q \in Queries /\ q.pc = "ask" /\ ~q.late
      /\ q.again = query[t].again /\ q.missed = query[t].missed
  BY <1>1, <1>2 DEF Queries
<1>4. query' = [query EXCEPT ![t] = q]
  BY SessionInvHas DEF NextRequest
<1>5. PICK s \in Sockets : /\ sock' = [sock EXCEPT ![t] = s] /\ s # NoSocket
                           /\ query[t].again /\ ~query[t].missed => ~s.stale
  BY <1>0, LeftBehind
<1> HIDE DEF q
<1>6. ThreadOK(q, s)
  BY <1>3, <1>5 DEF ThreadOK
<1>7. listed' \in BOOLEAN /\ RecordOK(lat', silent')
  BY <1>0, SessionInvHas
<1>8. QED
  BY <1>0, <1>4, <1>5, <1>6, <1>7, ThreadKeeps

LEMMA EndQueryKeeps ==
    ASSUME SessionInv, NEW t \in Collector, EndQuery(t) PROVE SessionInv'
<1>0. /\ query' = [query EXCEPT ![t] = NoQuery]
      /\ UNCHANGED <<rtt, lat, listed, db, last, silent>>
  BY DEF EndQuery
<1>1. PICK s \in {NoSocket} \cup Sockets : sock' = [sock EXCEPT ![t] = s]
  <2>1. CASE query[t].pc = "answered" /\ LeavesBehind(t)
    BY <2>1, LeftBehind
  <2>2. CASE query[t].pc = "failed" /\ UNCHANGED sock
    BY <2>2, UnderWay
  <2>3. QED
    BY <2>1, <2>2 DEF EndQuery
<1>2. ThreadOK(NoQuery, s)
  BY DEF ThreadOK, NoQuery
<1>3. listed' \in BOOLEAN /\ RecordOK(lat', silent')
  BY <1>0, SessionInvHas
<1>4. QED
  BY <1>0, <1>1, <1>2, <1>3, ThreadKeeps

LEMMA ThreadStepKeeps ==
    ASSUME SessionInv, NEW t \in Collector, ThreadStep(t) PROVE SessionInv'
BY BeginKeeps, AnswerKeeps, MismatchKeeps, ExpireKeeps, RefuseKeeps, NextRequestKeeps,
   EndQueryKeeps DEF ThreadStep

LEMMA ChangeDeviceKeeps ==
    ASSUME SessionInv, ChangeDevice PROVE SessionInv'
BY SessionInvHas, SessionInvNext DEF ChangeDevice

LEMMA FlushKeeps ==
    ASSUME SessionInv, Flush PROVE SessionInv'
<1>1. lat.ewma \in 0..Ceiling /\ lat.eff \in Base..Ceiling /\ lat.dead \in BOOLEAN
  BY SessionInvHas DEF RecordOK, DeviceState
<1>2. Row(lat) \in Rows
  BY <1>1 DEF Row, Rows
<1>3. Key(Row(lat)) \in [eff : Base..Ceiling, dead : BOOLEAN]
  BY <1>1 DEF Key, Row
<1>4. UNCHANGED <<rtt, lat, listed, sock, query, silent>>
  BY DEF Flush
<1>5. db' \in {db, Row(lat)} /\ last' \in {last, Key(Row(lat))}
  BY DEF Flush, Written
<1>6. QED
  BY <1>2, <1>3, <1>4, <1>5, SessionInvHas, SessionInvNext

\* A restart seeds a dead device as dead and any other with no timeout to its name.
LEMMA RestartKeeps ==
    ASSUME SessionInv, Restart PROVE SessionInv'
<1>1. /\ sock' = [t \in Collector |-> NoSocket] /\ query' = [t \in Collector |-> NoQuery]
      /\ last' = NoRow /\ silent' = 0 /\ UNCHANGED <<rtt, db>>
      /\ lat' \in {Seeded(db), NewState} /\ listed' \in {db # NoRow, FALSE}
  BY DEF Restart
<1>2. ThreadOK(NoQuery, NoSocket)
  BY DEF ThreadOK, NoQuery
<1>3. RecordOK(lat', silent')
  <2>1. 0 \in 0..DeadStreak /\ 0 < DeadStreak
    BY TimeoutAssumption
  <2>2. lat' \in DeviceState /\ (~lat'.dead => lat'.atMax = 0)
    BY <1>1, SessionInvHas, SeededOK, NewStateOK
  <2>3. QED
    BY <1>1, <2>1, <2>2 DEF RecordOK
<1>4. QED
  BY <1>1, <1>2, <1>3, SessionInvHas, SessionInvNext

LEMMA SessionInitial == SessionInit => SessionInv
<1> SUFFICES ASSUME SessionInit PROVE SessionInv
  OBVIOUS
<1>1. 0 \in 0..DeadStreak /\ 0 < DeadStreak
  BY TimeoutAssumption
<1>2. NoQuery.pc = "idle"
  BY DEF NoQuery
<1>3. StreakSilent /\ lat \in DeviceState /\ silent \in 0..DeadStreak
  BY <1>1, NewStateOK DEF SessionInit, StreakSilent
<1>a. SessionTypeOK
  BY <1>3 DEF SessionInit, SessionTypeOK
<1>4. \A t \in Collector : query[t].pc = "idle"
  BY <1>2 DEF SessionInit
<1>5. QED
  BY <1>3, <1>a, <1>4 DEF SessionInv, SocketHeld, LeftoversOwn, FailedOnlyIfMissed

LEMMA SessionInductive == SessionInv /\ [SessionNext]_sessionVars => SessionInv'
<1>1. SessionInv /\ UNCHANGED sessionVars => SessionInv'
  BY DEF sessionVars, SessionInv, SessionTypeOK, SocketHeld, LeftoversOwn,
         FailedOnlyIfMissed, StreakSilent
<1>2. QED
  BY <1>1, ThreadStepKeeps, ChangeDeviceKeeps, FlushKeeps, RestartKeeps DEF SessionNext

LEMMA SessionInvariant == SessionSpec => []SessionInv
BY SessionInitial, SessionInductive, PTL DEF SessionSpec

\* embedded.rs: the timeout a session is opened with stays within the floor and the
\* ceiling, and a row that is flushed and read back keeps it there.
THEOREM TimeoutWithinBounds == SessionSpec => []SessionTypeOK
<1>1. SessionInv => SessionTypeOK
  BY DEF SessionInv
<1>2. QED
  BY <1>1, SessionInvariant, PTL

\* run_on_cached_session: "Poisoned socket: reopen clean and retry once so this cycle
\* still gets data": for any number of threads, retries and bounds, a query fails only
\* after the device left one of its own attempts unanswered, or refused it.
THEOREM NoFailureByLeftovers == SessionSpec => []FailedOnlyIfMissed
<1>1. SessionInv => FailedOnlyIfMissed
  BY DEF SessionInv
<1>2. QED
  BY <1>1, SessionInvariant, PTL

\* A device dies in a timeout that completes the streak, or is read as dead at a start.
LEMMA DiesSilent ==
    ASSUME SessionInv, [SessionNext]_sessionVars, ~lat.dead, lat'.dead, silent' # 0
    PROVE  silent' = DeadStreak
<1>1. RecordOK(lat, silent) /\ DeadStreak \in Nat
  BY SessionInvHas, TimeoutAssumption
<1>2. CASE RecordTimeout
  <2>1. lat.atMax + 1 = DeadStreak
    BY <1>1, <1>2, TimedOutCounts DEF RecordTimeout, RecordOK
  <2>2. lat.atMax \in Nat /\ silent \in Nat /\ lat.atMax <= silent /\ silent <= DeadStreak
    BY <1>1 DEF RecordOK, DeviceState
  <2>3. QED
    BY <1>1, <1>2, <2>1, <2>2 DEF RecordTimeout
<1>4. ASSUME NEW t \in Collector, ThreadStep(t), ~RecordTimeout PROVE FALSE
  <2>1. ASSUME NEW r, RecordAnswer(r) PROVE FALSE
    BY <2>1 DEF RecordAnswer
  <2>2. QED
    BY <1>4, <2>1
       DEF ThreadStep, Begin, Answer, LateAnswer, Mismatch, Expire, Refuse, NextRequest,
           EndQuery
<1>5. UNCHANGED lat => FALSE
  OBVIOUS
<1>6. Restart => silent' = 0
  BY DEF Restart
<1>7. QED
  BY <1>2, <1>4, <1>5, <1>6 DEF SessionNext, sessionVars, ChangeDevice, Flush

\* adapt: whatever the threads and the order in which their overlapping queries record
\* their samples, a device is declared dead only when the last DeadStreak of them were
\* timeouts.
THEOREM DeadOnlyOnSilence == SessionSpec => DeadIsSilent
<1>1. SessionInv /\ [SessionNext]_sessionVars =>
        [~lat.dead /\ lat'.dead /\ silent' # 0 => silent' = DeadStreak]_lat
  BY DiesSilent
<1>2. QED
  BY <1>1, SessionInvariant, PTL DEF SessionSpec, DeadIsSilent
=============================================================================
