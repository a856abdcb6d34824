--------------------------- MODULE DiscoveryProofs ---------------------------
(***************************************************************************)
(* Proofs about DiscoveryEngine, for any network, requests, clients and    *)
(* bounds: each device is crawled once; when the join loop leaves, the     *)
(* crawl is over and has met every announced neighbor; no accepted run is  *)
(* lost; and a restart loads the configuration that was in use.            *)
(***************************************************************************)
EXTENDS DiscoveryEngine, SequenceTheorems, WellFoundedInduction, TLAPS

Worker == [dev : Dev, pc : {"collect", "start", "push", "done"}, todo : SUBSET Dev,
           child : Nat]

AllDone == \A t \in Thread : crew[t].pc = "done"

(***************************************************************************)
(* The inductive invariant.                                                *)
(***************************************************************************)
ControlOK ==
    /\ config \in Config /\ dbConfig \in Config \cup {None}
    /\ put \in [Client -> Config \cup {None}] /\ trigger \subseteq Dev \cup {None}
    /\ topo \in [Dev -> SUBSET Dev]

CrawlOK ==
    /\ crew \in Seq(Worker) /\ handles \subseteq Thread /\ joining \subseteq Thread
    /\ root \in Dev \cup {None}

\* The crawl state is empty until a run starts; the links wait for every thread.
StageOK ==
    /\ sup \in {"drain", "decide", "resolve", "join", "links", "finish"}
    /\ sup \in {"drain", "decide", "resolve"} =>
          crew = <<>> /\ handles = {} /\ joining = {} /\ inFlight = {}
          /\ detected = {} /\ failures = {}
    /\ sup = "resolve" => root \in Dev
    /\ sup \in {"join", "links"} => root \in inFlight
    /\ sup = "links" => AllDone

\* A device is claimed before its thread exists, and every claim has its thread.
ClaimsOK ==
    /\ CrawledOnce
    /\ \A t \in Thread : crew[t].dev \in inFlight
    /\ \A d \in inFlight : \E t \in Thread : crew[t].dev = d
    /\ detected \cup failures \subseteq inFlight

\* How far a thread is tells what it has recorded and whom it still has to start.
ProgressOK ==
    \A t \in Thread :
        /\ crew[t].pc \in {"collect", "done"} => crew[t].todo = {}
        /\ crew[t].pc # "collect" => crew[t].dev \in detected \cup failures
        /\ crew[t].pc = "push" => crew[t].child \in Thread /\ t < crew[t].child
        /\ crew[t].dev \in detected => topo[crew[t].dev] \subseteq inFlight \cup crew[t].todo

\* The join loop knows a thread, or it is done, or its parent is about to push it.
PendingIn(c, t) == \E u \in 1..Len(c) : c[u].pc = "push" /\ c[u].child = t

AccountedOK ==
    sup = "join" =>
        \A t \in Thread : t \in handles \cup joining \/ crew[t].pc = "done" \/ PendingIn(crew, t)

IInv == ControlOK /\ CrawlOK /\ StageOK /\ ClaimsOK /\ ProgressOK /\ AccountedOK

crawlVars == <<sup, crawl, topo>>

-----------------------------------------------------------------------------
LEMMA LeastElement ==
    ASSUME NEW T, T \subseteq Nat, T # {}
    PROVE  \E x \in T : \A y \in T : ~(y < x)
<1> DEFINE R == OpToRel(<, Nat)
<1>1. IsWellFoundedOn(R, Nat)
  BY NatLessThanWellFounded
<1>2. \A x, y \in Nat : y < x => <<y, x>> \in R
  BY DEF OpToRel
<1> HIDE DEF R
<1>3. \E x \in T : \A y \in T : ~(<<y, x>> \in R)
  BY <1>1, WFMin
<1>4. QED
  BY <1>2, <1>3

LEMMA NothingCrawled ==
    ASSUME NoCrawl
    PROVE  /\ crew' \in Seq(Worker) /\ Thread' = {}
           /\ handles' = {} /\ joining' = {}
           /\ inFlight' = {} /\ detected' = {} /\ failures' = {} /\ root' = None
BY DEF NoCrawl, Thread

LEMMA Initial == Init => IInv
<1> SUFFICES ASSUME Init PROVE IInv
  OBVIOUS
<1>1. crew \in Seq(Worker) /\ Thread = {}
  BY DEF Init, Thread
<1>2. ControlOK
  BY SeedAssumption, TopologyAssumption DEF Init, ControlOK
<1>3. CrawlOK /\ ClaimsOK /\ ProgressOK /\ AccountedOK
  BY <1>1 DEF Init, CrawlOK, ClaimsOK, CrawledOnce, ProgressOK, AccountedOK
<1>4. StageOK
  BY DEF Init, StageOK
<1>5. QED
  BY <1>2, <1>3, <1>4 DEF IInv

\* What only touches the control block, the requests or the settings row.
LEMMA OutsideKeeps ==
    ASSUME IInv, ControlOK', UNCHANGED crawlVars
    PROVE  IInv'
BY DEF IInv, crawlVars, crawl, CrawlOK, StageOK, AllDone, ClaimsOK, CrawledOnce,
       ProgressOK, AccountedOK, PendingIn, Thread

LEMMA RouteKeeps ==
    ASSUME IInv,
           \/ \E override \in Override : DiscoveryRun(override)
           \/ \E r \in Request : DiscoveryRunSingle(r) \/ RunSingleDevice(r)
           \/ \E c \in Client : PutApply(c) \/ \E cfg \in PutConfig : PutPersist(c, cfg)
           \/ FailPut \/ Elapse
    PROVE  IInv'
<1>1. UNCHANGED crawlVars
  BY DEF DiscoveryRun, DiscoveryRunSingle, RunSingleDevice, PutApply, PutPersist, FailPut,
         Elapse, crawlVars, crawl, control
<1>2. ControlOK'
  BY NoneAssumption, InputAssumption DEF IInv, ControlOK, DiscoveryRun, DiscoveryRunSingle, RunSingleDevice, PutApply,
         PutPersist, Persist, FailPut, Elapse, control
<1>3. QED
  BY <1>1, <1>2, OutsideKeeps

-----------------------------------------------------------------------------
(* A thread's step replaces its own record, and may append one.            *)
LEMMA Replaced ==
    ASSUME crew \in Seq(Worker), NEW t \in Thread, NEW w \in Worker,
           crew' = [crew EXCEPT ![t] = w]
    PROVE  /\ crew' \in Seq(Worker) /\ Thread' = Thread /\ crew'[t] = w
           /\ \A u \in Thread : u # t => crew'[u] = crew[u]
BY ExceptSeq DEF Thread

LEMMA ReplacedAndAppended ==
    ASSUME crew \in Seq(Worker), NEW t \in Thread, NEW w \in Worker, NEW n \in Worker,
           crew' = Append([crew EXCEPT ![t] = w], n)
    PROVE  /\ crew' \in Seq(Worker) /\ Thread' = Thread \cup {Len(crew) + 1}
           /\ Len(crew) + 1 \notin Thread
           /\ crew'[t] = w /\ crew'[Len(crew) + 1] = n
           /\ \A u \in Thread : u # t => crew'[u] = crew[u]
<1> DEFINE s == [crew EXCEPT ![t] = w]
<1>1. /\ s \in Seq(Worker) /\ Len(s) = Len(crew) /\ Len(crew) \in Nat
      /\ \A u \in 1..Len(crew) : s[u] = IF u = t THEN w ELSE crew[u]
  BY ExceptSeq, LenProperties DEF Thread
<1> HIDE DEF s
<1>2. /\ crew' \in Seq(Worker) /\ Len(crew') = Len(crew) + 1
      /\ \A u \in 1..Len(crew) : crew'[u] = s[u]
      /\ crew'[Len(crew) + 1] = n
  BY <1>1, AppendProperties DEF s
<1>3. QED
  BY <1>1, <1>2 DEF Thread

LEMMA WorkerType ==
    ASSUME crew \in Seq(Worker), NEW t \in Thread
    PROVE  crew[t] \in Worker
BY DEF Thread

LEMMA CollectKeeps ==
    ASSUME IInv, NEW t \in Thread, Collect(t)
    PROVE  IInv'
<1>0. /\ crew \in Seq(Worker) /\ crew[t] \in Worker /\ topo \in [Dev -> SUBSET Dev]
      /\ crew[t].pc = "collect" /\ crew[t].todo = {}
  BY WorkerType DEF IInv, CrawlOK, ControlOK, ProgressOK, Collect
<1>1. \E v \in Worker :
        /\ crew' = [crew EXCEPT ![t] = v] /\ v.dev = crew[t].dev
        /\ \/ /\ failures' = failures \cup {crew[t].dev} /\ UNCHANGED detected
              /\ v.pc = "done" /\ v.todo = {}
           \/ /\ detected' = detected \cup {crew[t].dev} /\ UNCHANGED failures
              /\ v.pc = "start" /\ v.todo = topo[crew[t].dev]
  <2>1. CASE /\ failures' = failures \cup {crew[t].dev}
             /\ crew' = [crew EXCEPT ![t].pc = "done"] /\ UNCHANGED detected
    <3> DEFINE v == [crew[t] EXCEPT !.pc = "done"]
    <3>1. v \in Worker
      BY <1>0 DEF Worker
    <3>2. QED
      BY <1>0, <2>1, <3>1 DEF Worker
  <2>2. CASE /\ detected' = detected \cup {crew[t].dev}
             /\ crew' = [crew EXCEPT ![t].pc = "start", ![t].todo = topo[crew[t].dev]]
             /\ UNCHANGED failures
    <3> DEFINE v == [crew[t] EXCEPT !.pc = "start", !.todo = topo[crew[t].dev]]
    <3>1. v \in Worker
      BY <1>0 DEF Worker
    <3>2. QED
      BY <1>0, <2>2, <3>1 DEF Worker
  <2>3. QED
    BY <2>1, <2>2 DEF Collect
<1>2. PICK v \in Worker :
        /\ crew' = [crew EXCEPT ![t] = v] /\ v.dev = crew[t].dev
        /\ \/ /\ failures' = failures \cup {crew[t].dev} /\ UNCHANGED detected
              /\ v.pc = "done" /\ v.todo = {}
           \/ /\ detected' = detected \cup {crew[t].dev} /\ UNCHANGED failures
              /\ v.pc = "start" /\ v.todo = topo[crew[t].dev]
  BY <1>1
<1>3. /\ crew' \in Seq(Worker) /\ Thread' = Thread /\ crew'[t] = v
      /\ \A u \in Thread : u # t => crew'[u] = crew[u]
  BY <1>0, <1>2, Replaced
<1>4. UNCHANGED <<control, dbConfig, put, sup, root, handles, joining, inFlight, topo>>
  BY DEF Collect
<1>5. ControlOK' /\ CrawlOK'
  BY <1>3, <1>4 DEF IInv, ControlOK, CrawlOK, control
<1>6. StageOK'
  BY <1>0, <1>3, <1>4 DEF IInv, StageOK, AllDone, Thread
<1>7. ClaimsOK'
  BY <1>0, <1>2, <1>3, <1>4 DEF IInv, ClaimsOK, CrawledOnce
<1>8. ProgressOK'
  BY <1>0, <1>2, <1>3, <1>4 DEF IInv, ClaimsOK, CrawledOnce, ProgressOK
<1>9. AccountedOK'
  BY <1>0, <1>2, <1>3, <1>4 DEF IInv, AccountedOK, PendingIn, Thread
<1>10. QED
  BY <1>5, <1>6, <1>7, <1>8, <1>9 DEF IInv

\* A neighbor that is claimed already is passed over.
LEMMA SkipKeeps ==
    ASSUME IInv, NEW t \in Thread, NEW d \in crew[t].todo, crew[t].pc = "start", ~Claimable(d),
           crew' = [crew EXCEPT ![t].todo = @ \ {d}],
           UNCHANGED <<control, dbConfig, put, sup, root, handles, joining, inFlight, detected,
                       failures, topo>>
    PROVE  IInv'
<1>0. crew \in Seq(Worker) /\ crew[t] \in Worker /\ d \in inFlight
  BY WorkerType DEF IInv, CrawlOK, ClaimsOK, Claimable
<1> DEFINE w == [crew[t] EXCEPT !.todo = @ \ {d}]
<1>1. w \in Worker /\ w.dev = crew[t].dev /\ w.pc = "start" /\ w.todo = crew[t].todo \ {d}
  BY <1>0 DEF Worker
<1>2. crew' = [crew EXCEPT ![t] = w]
  OBVIOUS
<1> HIDE DEF w
<1>3. /\ crew' \in Seq(Worker) /\ Thread' = Thread /\ crew'[t] = w
      /\ \A u \in Thread : u # t => crew'[u] = crew[u]
  BY <1>0, <1>1, <1>2, Replaced
<1>5. ControlOK' /\ CrawlOK'
  BY <1>3 DEF IInv, ControlOK, CrawlOK, control
<1>6. StageOK'
  BY <1>0, <1>3 DEF IInv, StageOK, AllDone, Thread
<1>7. ClaimsOK'
  BY <1>0, <1>1, <1>3 DEF IInv, ClaimsOK, CrawledOnce
<1>8. ProgressOK'
  BY <1>0, <1>1, <1>3 DEF IInv, ClaimsOK, CrawledOnce, ProgressOK
<1>9. AccountedOK'
  BY <1>0, <1>1, <1>3 DEF IInv, AccountedOK, PendingIn, Thread
<1>10. QED
  BY <1>5, <1>6, <1>7, <1>8, <1>9 DEF IInv

\* A thread's record once it has spawned thread k.
Pushed(v, S, k) == [v EXCEPT !.todo = S, !.pc = "push", !.child = k]

LEMMA Pushing ==
    ASSUME NEW v \in Worker, NEW S \in SUBSET Dev, NEW k \in Nat
    PROVE  /\ Pushed(v, S, k) \in Worker /\ Pushed(v, S, k).dev = v.dev
           /\ Pushed(v, S, k).pc = "push" /\ Pushed(v, S, k).todo = S
           /\ Pushed(v, S, k).child = k
BY DEF Worker, Pushed

\* The crew after thread t has spawned the thread of device d.
CrewWith(s, t, S, d) ==
    Append([s EXCEPT ![t].todo = S, ![t].pc = "push", ![t].child = Len(s) + 1], NewThread(d))

IsCrewWith(r, s, t, S, d) ==
    /\ r \in Seq(Worker) /\ Len(r) = Len(s) + 1
    /\ \A u \in 1..Len(s) : u # t => r[u] = s[u]
    /\ r[t].dev = s[t].dev /\ r[t].pc = "push" /\ r[t].todo = S
    /\ r[t].child = Len(s) + 1
    /\ r[Len(s) + 1] = NewThread(d)

LEMMA Spawned ==
    ASSUME NEW s \in Seq(Worker), NEW t \in 1..Len(s), NEW S \in SUBSET Dev, NEW d \in Dev
    PROVE  IsCrewWith(CrewWith(s, t, S, d), s, t, S, d)
<1> DEFINE w == Pushed(s[t], S, Len(s) + 1)
           n == NewThread(d)
           m == [s EXCEPT ![t] = w]
           r == Append(m, n)
<1>1. s[t] \in Worker /\ Len(s) \in Nat /\ Len(s) + 1 \in Nat
  BY LenProperties
<1>2. /\ w \in Worker /\ w.dev = s[t].dev /\ w.pc = "push" /\ w.todo = S
      /\ w.child = Len(s) + 1
  BY <1>1, Pushing
<1>3. n \in Worker
  BY DEF NewThread, Worker
<1> HIDE DEF w, n
<1>4. m \in Seq(Worker) /\ Len(m) = Len(s) /\ \A u \in 1..Len(s) : m[u] = IF u = t THEN w ELSE s[u]
  BY <1>2, ExceptSeq
<1> HIDE DEF m
<1>5. /\ r \in Seq(Worker) /\ Len(r) = Len(s) + 1
      /\ \A u \in 1..Len(s) : r[u] = m[u]
      /\ r[Len(s) + 1] = n
  BY <1>3, <1>4, AppendProperties
<1> HIDE DEF r
<1>6. /\ r \in Seq(Worker) /\ Len(r) = Len(s) + 1
      /\ \A u \in 1..Len(s) : u # t => r[u] = s[u]
      /\ r[t].dev = s[t].dev /\ r[t].pc = "push" /\ r[t].todo = S
      /\ r[t].child = Len(s) + 1
      /\ r[Len(s) + 1] = n
  BY <1>2, <1>4, <1>5
<1>7. QED
  <2>1. IsCrewWith(r, s, t, S, d)
    BY <1>6 DEF IsCrewWith, n
  <2>2. r = CrewWith(s, t, S, d)
    BY DEF r, m, w, n, Pushed, CrewWith
  <2>3. QED
    BY <2>1, <2>2

\* A claimed neighbor gets the only thread of its device.
LEMMA SpawnKeeps ==
    ASSUME IInv, NEW t \in Thread, NEW d \in Dev, crew[t].pc = "start", d \notin inFlight,
           inFlight' = inFlight \cup {d},
           UNCHANGED <<control, dbConfig, put, sup, root, handles, joining, detected, failures,
                       topo>>,
           NEW new \in Nat, new \notin Thread, t < new,
           crew' \in Seq(Worker), Thread' = Thread \cup {new},
           \A u \in Thread : u # t => crew'[u] = crew[u],
           crew'[t].dev = crew[t].dev, crew'[t].pc = "push", crew'[t].child = new,
           crew'[t].todo = crew[t].todo \ {d},
           crew'[new].dev = d, crew'[new].pc = "collect", crew'[new].todo = {}
    PROVE  IInv'
<1>1. ControlOK' /\ CrawlOK'
  BY DEF IInv, ControlOK, CrawlOK, control
<1>2. StageOK'
  <2>1. sup \notin {"drain", "decide", "resolve"} /\ sup # "links"
    BY DEF IInv, StageOK, AllDone, Thread
  <2>2. QED
    BY <2>1 DEF IInv, StageOK
<1>3. ClaimsOK'
  BY DEF IInv, ClaimsOK, CrawledOnce
<1>4. ProgressOK'
  <2>1. d \notin detected
    BY DEF IInv, ClaimsOK
  <2>2. QED
    BY <2>1 DEF IInv, ClaimsOK, CrawledOnce, ProgressOK
<1>5. AccountedOK'
  <2> SUFFICES ASSUME sup = "join", NEW u \in Thread'
               PROVE  u \in handles \cup joining \/ crew'[u].pc = "done" \/ PendingIn(crew', u)
    BY DEF AccountedOK
  <2>1. CASE u = new
    BY <2>1 DEF PendingIn, Thread
  <2>2. CASE u # new
    <3>1. u \in Thread
      BY <2>2
    <3>2. CASE PendingIn(crew, u)
      <4>1. PICK p \in Thread : crew[p].pc = "push" /\ crew[p].child = u
        BY <3>2 DEF PendingIn, Thread
      <4>2. p \in Thread' /\ crew'[p] = crew[p]
        BY <4>1
      <4>3. QED
        BY <4>1, <4>2 DEF PendingIn, Thread
    <3>3. CASE ~PendingIn(crew, u)
      BY <3>1, <3>3 DEF IInv, AccountedOK
    <3>4. QED
      BY <3>2, <3>3
  <2>3. QED
    BY <2>1, <2>2
<1>6. QED
  BY <1>1, <1>2, <1>3, <1>4, <1>5 DEF IInv

LEMMA ClaimKeeps ==
    ASSUME IInv, NEW t \in Thread, NEW d \in crew[t].todo, crew[t].pc = "start", Claimable(d),
           inFlight' = inFlight \cup {d},
           crew' = CrewWith(crew, t, crew[t].todo \ {d}, d),
           UNCHANGED <<control, dbConfig, put, sup, root, handles, joining, detected, failures,
                       topo>>
    PROVE  IInv'
<1> DEFINE new == Len(crew) + 1
           S == crew[t].todo \ {d}
<1>0. /\ crew \in Seq(Worker) /\ crew[t] \in Worker /\ d \in Dev /\ d \notin inFlight
      /\ S \in SUBSET Dev /\ t \in 1..Len(crew)
  BY WorkerType DEF IInv, CrawlOK, Claimable, Worker, Thread
<1>1. new \in Nat /\ t < new /\ new \notin Thread
  BY <1>0, LenProperties DEF Thread
<1>2. /\ crew' \in Seq(Worker) /\ Len(crew') = new
      /\ \A u \in 1..Len(crew) : u # t => crew'[u] = crew[u]
      /\ crew'[t].dev = crew[t].dev /\ crew'[t].pc = "push" /\ crew'[t].todo = S
      /\ crew'[t].child = new
      /\ crew'[new] = NewThread(d)
  <2>1. crew' = CrewWith(crew, t, S, d)
    OBVIOUS
  <2> HIDE DEF S
  <2>2. IsCrewWith(CrewWith(crew, t, S, d), crew, t, S, d)
    BY <1>0, Spawned
  <2>3. IsCrewWith(crew', crew, t, S, d)
    BY <2>1, <2>2
  <2>4. QED
    BY <2>3 DEF IsCrewWith
<1> HIDE DEF new, S
<1>3. Thread' = Thread \cup {new} /\ \A u \in Thread : u # t => crew'[u] = crew[u]
  <2>1. Len(crew) \in Nat /\ Len(crew') = Len(crew) + 1 /\ new = Len(crew) + 1
    BY <1>0, <1>2, LenProperties DEF new
  <2>2. 1..(Len(crew) + 1) = (1..Len(crew)) \cup {Len(crew) + 1}
    BY <2>1
  <2>3. Thread' = Thread \cup {new}
    BY <2>1, <2>2 DEF Thread
  <2>4. QED
    BY <2>3, <1>2 DEF Thread
<1>4. crew'[new].dev = d /\ crew'[new].pc = "collect" /\ crew'[new].todo = {}
  <2>1. NewThread(d).dev = d /\ NewThread(d).pc = "collect" /\ NewThread(d).todo = {}
    BY DEF NewThread
  <2>2. QED
    BY <2>1, <1>2
<1>5. crew'[t].todo = crew[t].todo \ {d}
  BY <1>2 DEF S
<1>6. QED
  <2>1. /\ inFlight' = inFlight \cup {d} /\ crew[t].pc = "start"
        /\ UNCHANGED <<control, dbConfig, put, sup, root, handles, joining, detected, failures,
                       topo>>
    OBVIOUS
  <2>2. QED
    BY <1>0, <1>1, <1>2, <1>3, <1>4, <1>5, <2>1, SpawnKeeps

LEMMA PushKeeps ==
    ASSUME IInv, NEW t \in Thread, PushHandle(t)
    PROVE  IInv'
<1>0. /\ crew \in Seq(Worker) /\ crew[t] \in Worker /\ crew[t].pc = "push"
      /\ crew[t].child \in Thread
  BY WorkerType DEF IInv, CrawlOK, ProgressOK, PushHandle
<1> DEFINE w == [crew[t] EXCEPT !.pc = "start", !.child = 0]
<1>1. w \in Worker /\ w.dev = crew[t].dev /\ w.pc = "start" /\ w.todo = crew[t].todo
  BY <1>0 DEF Worker
<1>2. crew' = [crew EXCEPT ![t] = w]
  BY DEF PushHandle
<1> HIDE DEF w
<1>3. /\ crew' \in Seq(Worker) /\ Thread' = Thread /\ crew'[t] = w
      /\ \A u \in Thread : u # t => crew'[u] = crew[u]
  BY <1>0, <1>1, <1>2, Replaced
<1>4. /\ handles' = handles \cup {crew[t].child}
      /\ UNCHANGED <<control, dbConfig, put, sup, root, joining, inFlight, detected,
                     failures, topo>>
  BY DEF PushHandle
<1>5. ControlOK' /\ CrawlOK'
  BY <1>0, <1>3, <1>4 DEF IInv, ControlOK, CrawlOK, control
<1>6. StageOK'
  BY <1>0, <1>3, <1>4 DEF IInv, StageOK, AllDone, Thread
<1>7. ClaimsOK'
  BY <1>0, <1>1, <1>3, <1>4 DEF IInv, ClaimsOK, CrawledOnce
<1>8. ProgressOK'
  BY <1>0, <1>1, <1>3, <1>4 DEF IInv, ClaimsOK, CrawledOnce, ProgressOK
<1>9. AccountedOK'
  BY <1>0, <1>1, <1>3, <1>4 DEF IInv, AccountedOK, PendingIn, Thread
<1>10. QED
  BY <1>5, <1>6, <1>7, <1>8, <1>9 DEF IInv

LEMMA IngestKeeps ==
    ASSUME IInv, NEW t \in Thread, IngestDevice(t)
    PROVE  IInv'
<1>0. /\ crew \in Seq(Worker) /\ crew[t] \in Worker /\ crew[t].pc = "start"
      /\ crew[t].todo = {}
  BY WorkerType DEF IInv, CrawlOK, IngestDevice
<1> DEFINE w == [crew[t] EXCEPT !.pc = "done"]
<1>1. w \in Worker /\ w.dev = crew[t].dev /\ w.pc = "done" /\ w.todo = crew[t].todo
  BY <1>0 DEF Worker
<1>2. crew' = [crew EXCEPT ![t] = w]
  BY DEF IngestDevice
<1> HIDE DEF w
<1>3. /\ crew' \in Seq(Worker) /\ Thread' = Thread /\ crew'[t] = w
      /\ \A u \in Thread : u # t => crew'[u] = crew[u]
  BY <1>0, <1>1, <1>2, Replaced
<1>4. UNCHANGED <<control, dbConfig, put, sup, root, handles, joining, inFlight, detected,
                  failures, topo>>
  BY DEF IngestDevice
<1>5. ControlOK' /\ CrawlOK'
  BY <1>3, <1>4 DEF IInv, ControlOK, CrawlOK, control
<1>6. StageOK'
  BY <1>0, <1>3, <1>4 DEF IInv, StageOK, AllDone, Thread
<1>7. ClaimsOK'
  BY <1>0, <1>1, <1>3, <1>4 DEF IInv, ClaimsOK, CrawledOnce
<1>8. ProgressOK'
  BY <1>0, <1>1, <1>3, <1>4 DEF IInv, ClaimsOK, CrawledOnce, ProgressOK
<1>9. AccountedOK'
  BY <1>0, <1>1, <1>3, <1>4 DEF IInv, AccountedOK, PendingIn, Thread
<1>10. QED
  BY <1>5, <1>6, <1>7, <1>8, <1>9 DEF IInv

LEMMA ThreadKeeps ==
    ASSUME IInv, NEW t \in Thread, ThreadStep(t)
    PROVE  IInv'
<1>1. CASE StartNeighbor(t)
  <2>1. PICK d \in crew[t].todo :
           IF Claimable(d)
           THEN /\ inFlight' = inFlight \cup {d}
                /\ crew' = Append([crew EXCEPT ![t].todo = @ \ {d}, ![t].pc = "push",
                                               ![t].child = Len(crew) + 1], NewThread(d))
           ELSE crew' = [crew EXCEPT ![t].todo = @ \ {d}] /\ UNCHANGED inFlight
    BY <1>1 DEF StartNeighbor
  <2>2. /\ crew[t].pc = "start"
        /\ UNCHANGED <<control, dbConfig, put, sup, root, handles, joining, detected,
                       failures, topo>>
    BY <1>1 DEF StartNeighbor
  <2>3. CASE Claimable(d)
    BY <2>1, <2>2, <2>3, ClaimKeeps DEF CrewWith
  <2>4. CASE ~Claimable(d)
    BY <2>1, <2>2, <2>4, SkipKeeps
  <2>5. QED
    BY <2>3, <2>4
<1>2. QED
  BY <1>1, CollectKeeps, PushKeeps, IngestKeeps DEF ThreadStep

-----------------------------------------------------------------------------
\* The join loop leaves only when every thread is done: the first unfinished one
\* would have an unfinished parent before it.
LEMMA QuiescentIsDone ==
    ASSUME IInv, sup = "join", handles = {}, \A t \in joining : crew[t].pc = "done"
    PROVE  AllDone
<1> DEFINE busy == {t \in Thread : crew[t].pc # "done"}
<1> SUFFICES ASSUME busy # {} PROVE FALSE
  BY DEF AllDone
<1>1. busy \subseteq Nat
  BY DEF Thread
<1>2. PICK t \in busy : \A u \in busy : ~(u < t)
  BY <1>1, LeastElement
<1>3. PICK u \in Thread : crew[u].pc = "push" /\ crew[u].child = t
  BY <1>2 DEF IInv, AccountedOK, PendingIn, Thread
<1>4. u < t /\ u \in busy
  BY <1>3 DEF IInv, ProgressOK
<1>5. QED
  BY <1>2, <1>4

LEMMA JoinKeeps ==
    ASSUME IInv, JoinDrained
    PROVE  IInv'
<1>0. UNCHANGED <<control, dbConfig, put, root, crew, inFlight, detected, failures, topo>>
  BY DEF JoinDrained
<1>1. Thread' = Thread
  BY <1>0 DEF Thread
<1>2. ControlOK' /\ ClaimsOK' /\ ProgressOK'
  BY <1>0, <1>1 DEF IInv, ControlOK, control, ClaimsOK, CrawledOnce, ProgressOK
<1>3. CASE Quiescent
  <2>1. AllDone
    BY <1>3, QuiescentIsDone DEF JoinDrained, Quiescent
  <2>2. AllDone'
    BY <2>1, <1>0, <1>1 DEF AllDone
  <2>3. sup = "join" /\ sup' = "links" /\ UNCHANGED <<handles, joining>>
    BY <1>3 DEF JoinDrained
  <2>4. CrawlOK' /\ StageOK' /\ AccountedOK'
    BY <1>0, <1>1, <2>2, <2>3 DEF IInv, CrawlOK, StageOK, AccountedOK
  <2>5. QED
    BY <1>2, <2>4 DEF IInv
<1>4. CASE ~Quiescent
  <2>1. /\ sup = "join" /\ sup' = sup /\ joining' = handles /\ handles' = {}
        /\ \A t \in joining : crew[t].pc = "done"
    BY <1>4 DEF JoinDrained
  <2>2. CrawlOK' /\ StageOK'
    BY <1>0, <1>1, <2>1 DEF IInv, CrawlOK, StageOK
  <2>3. AccountedOK'
    BY <1>0, <1>1, <2>1 DEF IInv, AccountedOK, PendingIn
  <2>4. QED
    BY <1>2, <2>2, <2>3 DEF IInv
<1>5. QED
  BY <1>3, <1>4

LEMMA StartKeeps ==
    ASSUME IInv, StartCrawl
    PROVE  IInv'
<1>0. /\ sup = "resolve" /\ UNCHANGED <<control, dbConfig, put, topo>>
      /\ root \in Dev /\ crew = <<>> /\ joining = {} /\ detected = {} /\ failures = {}
  BY DEF StartCrawl, IInv, StageOK
<1>1. CASE sup' = "finish" /\ UNCHANGED crawl
  BY <1>0, <1>1 DEF IInv, ControlOK, control, crawl, CrawlOK, StageOK, ClaimsOK, CrawledOnce,
                    ProgressOK, AccountedOK, Thread
<1>2. CASE /\ sup' = "join" /\ crew' = <<NewThread(root)>>
           /\ handles' = {1} /\ inFlight' = {root}
           /\ UNCHANGED <<root, joining, detected, failures>>
  <2>1. NewThread(root) \in Worker
    BY <1>0 DEF NewThread, Worker
  <2>2. crew' \in Seq(Worker) /\ Thread' = {1} /\ crew'[1] = NewThread(root)
    BY <1>2, <2>1 DEF Thread
  <2>3. ControlOK' /\ CrawlOK'
    BY <1>0, <1>2, <2>2 DEF IInv, ControlOK, control, CrawlOK
  <2>4. StageOK' /\ AccountedOK'
    BY <1>0, <1>2, <2>2 DEF IInv, StageOK, AccountedOK
  <2>5. ClaimsOK' /\ ProgressOK'
    BY <1>0, <1>2, <2>2 DEF ClaimsOK, CrawledOnce, ProgressOK, NewThread
  <2>6. QED
    BY <2>3, <2>4, <2>5 DEF IInv
<1>3. QED
  BY <1>1, <1>2 DEF StartCrawl

LEMMA ResetKeeps ==
    ASSUME ControlOK', sup' = "drain", NoCrawl
    PROVE  IInv'
<1>1. crew' = <<>>
  BY DEF NoCrawl
<1>2. CrawlOK' /\ ClaimsOK' /\ ProgressOK' /\ AccountedOK'
  BY NothingCrawled DEF CrawlOK, ClaimsOK, CrawledOnce, ProgressOK, AccountedOK
<1>3. StageOK'
  BY <1>1, NothingCrawled DEF StageOK
<1>4. QED
  BY <1>2, <1>3 DEF IInv

LEMMA DecideKeeps ==
    ASSUME IInv, NextRunParams
    PROVE  IInv'
<1>0. /\ UNCHANGED <<config, dbConfig, put, crew, handles, joining, inFlight, detected,
                     failures, topo>>
      /\ sup = "decide" /\ Thread' = Thread
  BY DEF NextRunParams, control, Thread
<1>1. crew = <<>> /\ Thread = {}
  BY <1>0 DEF IInv, StageOK, Thread
<1>2. /\ trigger' \in {trigger, {}}
      /\ \/ sup' = "drain" /\ root' = root
         \/ sup' = "resolve" /\ root' \in Dev
  BY NoneAssumption DEF NextRunParams, control, IInv, ControlOK, CrawlOK, RootFor, Config
<1>3. ControlOK' /\ CrawlOK'
  BY <1>0, <1>2 DEF IInv, ControlOK, CrawlOK
<1>4. StageOK' /\ ClaimsOK' /\ ProgressOK' /\ AccountedOK'
  BY <1>0, <1>1, <1>2 DEF IInv, StageOK, ClaimsOK, CrawledOnce, ProgressOK, AccountedOK
<1>5. QED
  BY <1>3, <1>4 DEF IInv

LEMMA SuperviseKeeps ==
    ASSUME IInv, Supervise
    PROVE  IInv'
<1>1. CASE DrainSingles
  <2>1. /\ sup = "drain" /\ sup' = "decide"
        /\ UNCHANGED <<config, trigger, dbConfig, put, crawl, topo>>
    BY <1>1 DEF DrainSingles
  <2>2. QED
    BY <2>1 DEF IInv, ControlOK, crawl, CrawlOK, StageOK, ClaimsOK, CrawledOnce, ProgressOK,
                AccountedOK, Thread
<1>2. CASE IngestLinks
  <2>1. sup = "links" /\ sup' = "finish" /\ UNCHANGED <<control, dbConfig, put, crawl, topo>>
    BY <1>2 DEF IngestLinks
  <2>2. QED
    BY <2>1 DEF IInv, ControlOK, control, crawl, CrawlOK, StageOK, ClaimsOK, CrawledOnce,
                ProgressOK, AccountedOK, Thread
<1>3. CASE FinishRun
  <2>1. ControlOK' /\ sup' = "drain" /\ NoCrawl
    BY <1>3 DEF FinishRun, IInv, ControlOK
  <2>2. QED
    BY <2>1, ResetKeeps
<1>4. QED
  BY <1>1, <1>2, <1>3, DecideKeeps, StartKeeps, JoinKeeps DEF Supervise

LEMMA RestartKeeps ==
    ASSUME IInv, Restart
    PROVE  IInv'
<1>1. ControlOK'
  BY NoneAssumption, SeedAssumption DEF IInv, ControlOK, Restart, LoadConfig
<1>2. QED
  BY <1>1, ResetKeeps DEF Restart

LEMMA Inductive == Spec => []IInv
<1>1. IInv /\ [Next]_vars => IInv'
  <2> SUFFICES ASSUME IInv, [Next]_vars PROVE IInv'
    OBVIOUS
  <2>1. CASE UNCHANGED vars
    <3>1. UNCHANGED crawlVars /\ ControlOK'
      BY <2>1 DEF vars, control, crawlVars, IInv, ControlOK
    <3>2. QED
      BY <3>1, OutsideKeeps
  <2>2. QED
    BY <2>1, RouteKeeps, SuperviseKeeps, ThreadKeeps, RestartKeeps DEF Next
<1>2. QED
  BY Initial, <1>1, PTL DEF Spec

-----------------------------------------------------------------------------
\* However many neighbors announce a device at once, one thread crawls it.
THEOREM EachCrawledOnce == Spec => []CrawledOnce
<1>1. IInv => CrawledOnce
  BY DEF IInv, ClaimsOK
<1>2. QED
  BY Inductive, <1>1, PTL

\* When build_connections starts, every thread of the crawl has ended and every
\* neighbor of a detected device has been crawled or has failed.
THEOREM CrawlMeetsAll == Spec => []CrawlComplete
<1>1. IInv => CrawlComplete
  <2> SUFFICES ASSUME IInv, sup = "links" PROVE CrawlComplete
    BY DEF CrawlComplete
  <2>1. AllDone /\ root \in inFlight
    BY DEF IInv, StageOK
  <2>2. \A d \in inFlight : d \in detected \cup failures
    BY <2>1 DEF IInv, AllDone, ClaimsOK, ProgressOK
  <2>3. \A d \in detected : topo[d] \subseteq inFlight
    BY <2>1 DEF IInv, AllDone, ClaimsOK, ProgressOK
  <2>4. QED
    BY <2>1, <2>2, <2>3 DEF CrawlComplete, AllDone
<1>2. QED
  BY Inductive, <1>1, PTL

LEMMA AcceptedStep == AcceptedNotLost /\ [Next]_vars => AcceptedNotLost'
<1> SUFFICES ASSUME AcceptedNotLost, [Next]_vars PROVE AcceptedNotLost'
  OBVIOUS
<1>1. CASE UNCHANGED <<trigger, owed>>
  BY <1>1 DEF AcceptedNotLost
<1>2. CASE trigger' = {} /\ owed' = <<>>
  BY <1>2 DEF AcceptedNotLost
<1>3. ASSUME NEW override \in Override, DiscoveryRun(override)
      PROVE  AcceptedNotLost'
  <2>1. owed = <<>> /\ trigger' = {override} /\ owed' = Append(owed, override)
    BY <1>3 DEF DiscoveryRun, Busy, AcceptedNotLost
  <2>2. owed' = <<override>> /\ override \in trigger'
    BY <2>1
  <2>3. QED
    BY <2>1, <2>2 DEF AcceptedNotLost
<1>4. ASSUME NextRunParams
      PROVE  AcceptedNotLost'
  <2>1. \/ UNCHANGED <<trigger, owed>>
        \/ trigger' = {} /\ owed' = IF trigger = {} THEN owed ELSE Tail(owed)
    BY <1>4 DEF NextRunParams, control
  <2>2. CASE UNCHANGED <<trigger, owed>>
    BY <2>2, <1>1
  <2>3. CASE trigger' = {} /\ owed' = IF trigger = {} THEN owed ELSE Tail(owed)
    <3>1. \A override : Tail(<<override>>) = <<>>
      OBVIOUS
    <3>2. owed' = <<>>
      BY <2>3, <3>1 DEF AcceptedNotLost
    <3>3. QED
      BY <2>3, <3>2, <1>2
  <2>4. QED
    BY <2>1, <2>2, <2>3
<1>5. CASE Restart
  BY <1>5, <1>2 DEF Restart
<1>6. ASSUME \/ \E r \in Request : DiscoveryRunSingle(r) \/ RunSingleDevice(r)
             \/ \E c \in Client : PutApply(c) \/ \E cfg \in PutConfig : PutPersist(c, cfg)
             \/ FailPut \/ Elapse \/ UNCHANGED vars
             \/ DrainSingles \/ StartCrawl \/ JoinDrained \/ IngestLinks \/ FinishRun
             \/ \E t \in Thread : ThreadStep(t)
      PROVE  UNCHANGED <<trigger, owed>>
  BY <1>6 DEF DiscoveryRunSingle, RunSingleDevice, PutApply, PutPersist, FailPut, Elapse, vars,
              control, DrainSingles, StartCrawl, JoinDrained, IngestLinks, FinishRun, ThreadStep,
              Collect, StartNeighbor, PushHandle, IngestDevice
<1>7. QED
  BY <1>1, <1>3, <1>4, <1>5, <1>6 DEF Next, Supervise

\* A full run that was answered 202 is taken up or dropped by the supervisor, never
\* overwritten by a later request: it is the one pending trigger.
THEOREM NoAcceptedRunLost == Spec => []AcceptedNotLost
<1>1. Init => AcceptedNotLost
  BY DEF Init, AcceptedNotLost
<1>2. QED
  BY <1>1, AcceptedStep, PTL DEF Spec

-----------------------------------------------------------------------------
(* The configuration.  Between the two writes of a PUT the settings row is *)
(* ahead of the control block by what that PUT is about to apply.  Of two  *)
(* PUTs that overlap, the one that wrote the row first may apply last, and *)
(* then the property fails: hence the condition on the requests.           *)

\* No two PUTs are between their two writes at once.
OnePutAtATime == \A c, e \in Client : put[c] # None /\ put[e] # None => c = e

Idle == \A c \in Client : put[c] = None

RowAhead ==
    /\ \A c \in Client : put[c] # None => put[c] = dbConfig
    /\ Idle => LoadConfig = config

SettingInv ==
    /\ put \in [Client -> Config \cup {None}] /\ startFailures \in Nat
    /\ startFailures = 0 => RowAhead

LEMMA PutPersistKeeps ==
    ASSUME OnePutAtATime', SettingInv, NEW c \in Client, NEW cfg \in PutConfig, PutPersist(c, cfg)
    PROVE  SettingInv'
<1>1. /\ cfg \in Config /\ cfg # None
      /\ put' = [put EXCEPT ![c] = cfg] /\ dbConfig' = cfg
      /\ UNCHANGED <<config, startFailures>>
  BY NoneAssumption, InputAssumption DEF PutPersist, Persist, control
<1>2. put' \in [Client -> Config \cup {None}] /\ put'[c] = cfg
  BY <1>1 DEF SettingInv
<1>3. \A e \in Client : put'[e] # None => put'[e] = dbConfig'
  BY <1>1, <1>2 DEF OnePutAtATime
<1>4. ~Idle'
  BY <1>1, <1>2 DEF Idle
<1>5. QED
  BY <1>1, <1>2, <1>3, <1>4 DEF SettingInv, RowAhead

LEMMA PutApplyKeeps ==
    ASSUME OnePutAtATime, SettingInv, NEW c \in Client, PutApply(c)
    PROVE  SettingInv'
<1>1. /\ put[c] # None /\ config' = put[c] /\ put' = [put EXCEPT ![c] = None]
      /\ UNCHANGED <<dbConfig, startFailures>>
  BY DEF PutApply, bounds
<1>2. put' \in [Client -> Config \cup {None}] /\ \A e \in Client : put'[e] = None
  BY <1>1 DEF SettingInv, OnePutAtATime
<1>3. startFailures = 0 => dbConfig = put[c]
  BY <1>1 DEF SettingInv, RowAhead
<1>4. startFailures = 0 => LoadConfig' = config'
  BY <1>1, <1>3 DEF LoadConfig
<1>5. QED
  BY <1>1, <1>2, <1>4 DEF SettingInv, RowAhead

LEMMA RestartLoads ==
    ASSUME SettingInv, Restart
    PROVE  SettingInv'
<1>1. /\ put' = [c \in Client |-> None] /\ dbConfig' = dbConfig
      /\ \/ config' = LoadConfig /\ startFailures' = startFailures
         \/ startFailures' = startFailures + 1
  BY DEF Restart
<1>2. put' \in [Client -> Config \cup {None}] /\ \A c \in Client : put'[c] = None
  BY <1>1
<1>3. startFailures' \in Nat /\ (startFailures' = 0 => config' = LoadConfig)
  BY <1>1 DEF SettingInv
<1>4. LoadConfig' = LoadConfig
  BY <1>1 DEF LoadConfig
<1>5. QED
  BY <1>2, <1>3, <1>4 DEF SettingInv, RowAhead

LEMMA SettingStep == SettingInv /\ OnePutAtATime /\ OnePutAtATime' /\ [Next]_vars => SettingInv'
<1> SUFFICES ASSUME SettingInv, OnePutAtATime, OnePutAtATime', [Next]_vars PROVE SettingInv'
  OBVIOUS
<1>1. CASE UNCHANGED <<config, dbConfig, put, startFailures>>
  BY <1>1 DEF SettingInv, RowAhead, Idle, LoadConfig
<1>2. ASSUME \/ \E override \in Override : DiscoveryRun(override)
             \/ \E r \in Request : DiscoveryRunSingle(r) \/ RunSingleDevice(r)
             \/ FailPut \/ Elapse \/ Supervise \/ UNCHANGED vars
             \/ \E t \in Thread : ThreadStep(t)
      PROVE  UNCHANGED <<config, dbConfig, put, startFailures>>
  BY <1>2 DEF DiscoveryRun, DiscoveryRunSingle, RunSingleDevice, FailPut, Elapse, vars, control,
              bounds, Supervise, DrainSingles, NextRunParams, StartCrawl, JoinDrained,
              IngestLinks, FinishRun, ThreadStep, Collect, StartNeighbor, PushHandle, IngestDevice
<1>3. QED
  BY <1>1, <1>2, PutPersistKeeps, PutApplyKeeps, RestartLoads DEF Next

\* Whatever PUTs, failing writes, crashes between the two writes of a PUT and restarts
\* do, the configuration in use is the one a restart loads, as long as no two PUTs are
\* between their two writes at once.
THEOREM ConfigurationSurvives == Spec /\ []OnePutAtATime => []ConfigSurvivesRestart
<1>1. Init => SettingInv
  BY NoneAssumption, SeedAssumption DEF Init, SettingInv, RowAhead, Idle, LoadConfig
<1>2. SettingInv /\ OnePutAtATime /\ OnePutAtATime' /\ [Next]_vars => SettingInv'
  BY SettingStep
<1>3. SettingInv => ConfigSurvivesRestart
  BY DEF SettingInv, RowAhead, Idle, ConfigSurvivesRestart
<1>4. QED
  BY <1>1, <1>2, <1>3, PTL DEF Spec
=============================================================================
