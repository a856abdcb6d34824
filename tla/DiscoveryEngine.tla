-------------------------- MODULE DiscoveryEngine --------------------------
(***************************************************************************)
(* The discovery engine: its control block behind the HTTP routes, the     *)
(* supervisor thread, the crawl's one thread per device, and the lane of   *)
(* single-device runs.  The control block and the crawl state each have a  *)
(* mutex; spawning a thread and pushing its handle are separate steps.     *)
(* What a crawl writes to the database is not modelled here.               *)
(*                                                                         *)
(* Root device and SNMP community are defaulted and required alike, so     *)
(* "root" stands for both.  None is an absent Option.                      *)
(***************************************************************************)
EXTENDS Naturals, Sequences

CONSTANTS
    Dev,                    \* fqdns
    None,
    Request,                \* single-device run requests (each used once)
    Client,                 \* HTTP clients that may change the configuration
    EnvSeed,                \* configuration from JASPY_DISCOVERY_*
    Topology,               \* neighbor tables considered
    Override, PutConfig,    \* overriding roots, or None, and configurations that clients send
    MaxTriggers, MaxPuts, MaxFaults,  \* bounds
    MaxCrew                 \* bound: threads of one crawl

Config == [root : Dev \cup {None}, periodic : BOOLEAN]

ASSUME NoneAssumption == None \notin Dev \cup Config
ASSUME SeedAssumption == EnvSeed \in Config
ASSUME TopologyAssumption == Topology \subseteq [Dev -> SUBSET Dev]
ASSUME InputAssumption == Override \subseteq Dev \cup {None} /\ PutConfig \subseteq Config
ASSUME DiscoveryBoundAssumption ==
    {MaxTriggers, MaxPuts, MaxFaults, MaxCrew} \subseteq Nat

VARIABLES
    config, running, lastError,  \* DiscoveryControl: config, status
    trigger,                     \* {}, or {the overriding root, or None}
    single,                      \* single[r]: progress of a single-device request
    due,                         \* the periodic interval has passed since last_finished
    dbConfig,                    \* settings row "discovery_config", or None
    put,                         \* put[c]: a PUT's config between DB and memory, or None
    sup,                         \* supervisor: where it is in its loop
    root,                        \* RunParams.root_device of the full run, or None
    crew,                        \* the crawl's threads, in order of spawning
    handles, joining,            \* JoinHandles pushed; those drained and waited for
    inFlight, detected, failures,  \* CrawlState
    topo,                        \* the network: neighbors each device announces
    owed,                        \* history: accepted full runs not yet started
    triggers, puts, dbFailures, startFailures, restarts  \* spent bounds

control == <<config, running, lastError, trigger, single, due>>
crawl == <<root, crew, handles, joining, inFlight, detected, failures>>
bounds == <<triggers, puts, dbFailures, startFailures, restarts>>
vars == <<control, dbConfig, put, sup, crawl, topo, owed, bounds>>

Thread == 1..Len(crew)
NewThread(d) == [dev |-> d, pc |-> "collect", todo |-> {}, child |-> 0]

\* CrawlShared is new for every run.
NoCrawl ==
    /\ root' = None /\ crew' = <<>> /\ handles' = {} /\ joining' = {}
    /\ inFlight' = {} /\ detected' = {} /\ failures' = {}

\* Startup: a persisted config wins over the environment.
LoadConfig == IF dbConfig = None THEN EnvSeed ELSE dbConfig

Init ==
    /\ config = EnvSeed /\ running = FALSE /\ lastError = FALSE
    /\ trigger = {} /\ single = [r \in Request |-> "unused"] /\ due = TRUE
    /\ dbConfig = None /\ put = [c \in Client |-> None]
    /\ sup = "drain" /\ root = None /\ crew = <<>> /\ handles = {} /\ joining = {}
    /\ inFlight = {} /\ detected = {} /\ failures = {}
    /\ topo \in Topology /\ owed = <<>>
    /\ triggers = 0 /\ puts = 0 /\ dbFailures = 0 /\ startFailures = 0 /\ restarts = 0

-----------------------------------------------------------------------------
(* HTTP routes.                                                            *)

\* Mutant: a request is refused only while a run is in progress.
BusyRunning == running

\* 409: "a discovery run is already in progress".
Busy == running \/ trigger # {}

RootFor(override, cfg) == IF override # None THEN override ELSE cfg.root

\* POST /run without singleDevice; a refused request changes nothing.
DiscoveryRun(override) ==
    /\ triggers < MaxTriggers /\ triggers' = triggers + 1
    /\ ~Busy
    /\ RootFor(override, config) # None
    /\ trigger' = {override} /\ owed' = Append(owed, override)
    /\ UNCHANGED <<config, running, lastError, single, due, dbConfig, put, sup,
                   crawl, topo, puts, dbFailures, startFailures, restarts>>

\* POST /run with singleDevice.
DiscoveryRunSingle(r) ==
    /\ single[r] = "unused"
    /\ single' = [single EXCEPT ![r] = "queued"]
    /\ UNCHANGED <<config, running, lastError, trigger, due, dbConfig, put, sup,
                   crawl, topo, owed, bounds>>

\* Mutant: a failed write is not an error.
PersistAnyway(cfg) ==
    \/ dbConfig' = cfg /\ UNCHANGED dbFailures
    \/ dbFailures + restarts < MaxFaults /\ dbFailures' = dbFailures + 1 /\ UNCHANGED dbConfig

\* Setting::set succeeds, or the route answers 500 (FailPut).
Persist(cfg) == dbConfig' = cfg /\ UNCHANGED dbFailures

\* PUT /config: first the settings row ...
PutPersist(c, cfg) ==
    /\ puts < MaxPuts /\ puts' = puts + 1
    /\ put[c] = None /\ put' = [put EXCEPT ![c] = cfg]
    /\ Persist(cfg)
    /\ UNCHANGED <<control, sup, crawl, topo, owed, triggers, startFailures, restarts>>

FailPut ==
    /\ puts < MaxPuts /\ puts' = puts + 1
    /\ dbFailures + restarts < MaxFaults /\ dbFailures' = dbFailures + 1
    /\ UNCHANGED <<control, dbConfig, put, sup, crawl, topo, owed, triggers,
                   startFailures, restarts>>

\* ... then the control block.
PutApply(c) ==
    /\ put[c] # None
    /\ config' = put[c] /\ put' = [put EXCEPT ![c] = None]
    /\ UNCHANGED <<running, lastError, trigger, single, due, dbConfig, sup, crawl,
                   topo, owed, bounds>>

-----------------------------------------------------------------------------
(* Supervisor.                                                             *)

\* The interval (at least 10 s) passes.
Elapse ==
    /\ ~due /\ due' = TRUE
    /\ UNCHANGED <<config, running, lastError, trigger, single, dbConfig, put, sup,
                   crawl, topo, owed, bounds>>

\* Mutant: requests taken off the queue are dropped while no root is configured.
DispatchedConfigured(queued) ==
    [r \in Request |-> IF r \notin queued THEN single[r]
                       ELSE IF config.root # None THEN "collect" ELSE "lost"]

\* Every queued request gets a detached worker.
Dispatched(queued) ==
    [r \in Request |-> IF r \in queued THEN "collect" ELSE single[r]]

DrainSingles ==
    /\ sup = "drain" /\ sup' = "decide"
    /\ single' = Dispatched({r \in Request : single[r] = "queued"})
    /\ UNCHANGED <<config, running, lastError, trigger, due, dbConfig, put, crawl,
                   topo, owed, bounds>>

\* next_run_params.  A requested run that is no longer configured is dropped with
\* an error; so is a due periodic one.
NextRunParams ==
    /\ sup = "decide"
    /\ \/ /\ trigger = {} /\ ~(config.periodic /\ due)
          /\ sup' = "drain" /\ UNCHANGED <<control, root, owed>>
       \/ \E override \in IF trigger # {} THEN trigger ELSE {None} :
          /\ trigger # {} \/ (config.periodic /\ due)
          /\ trigger' = {} /\ owed' = IF trigger = {} THEN owed ELSE Tail(owed)
          /\ IF RootFor(override, config) = None
             THEN lastError' = TRUE /\ sup' = "drain" /\ UNCHANGED <<running, root>>
             ELSE /\ lastError' = FALSE /\ running' = TRUE
                  /\ root' = RootFor(override, config) /\ sup' = "resolve"
          /\ UNCHANGED <<config, single, due>>
    /\ UNCHANGED <<dbConfig, put, crew, handles, joining, inFlight, detected,
                   failures, topo, bounds>>

\* perform_discovery_run up to the first thread; the root may not resolve.
StartCrawl ==
    /\ sup = "resolve"
    /\ \/ sup' = "finish" /\ UNCHANGED crawl
       \/ /\ sup' = "join" /\ crew' = <<NewThread(root)>>
          /\ handles' = {1} /\ inFlight' = {root}
          /\ UNCHANGED <<root, joining, detected, failures>>
    /\ UNCHANGED <<control, dbConfig, put, topo, owed, bounds>>

\* Mutant: the first batch of threads is joined, later handles are not looked at.
QuiescentOnce == joining # {}

\* Nothing was pushed since the last drain.
Quiescent == handles = {}

\* The join loop: wait for the drained threads, drain again, leave when quiescent.
JoinDrained ==
    /\ sup = "join" /\ \A t \in joining : crew[t].pc = "done"
    /\ IF Quiescent
       THEN sup' = "links" /\ UNCHANGED <<handles, joining>>
       ELSE joining' = handles /\ handles' = {} /\ UNCHANGED sup
    /\ UNCHANGED <<control, dbConfig, put, root, crew, inFlight, detected, failures,
                   topo, owed, bounds>>

\* build_connections and ingest_links, with the crawl state locked.
IngestLinks ==
    /\ sup = "links" /\ sup' = "finish"
    /\ UNCHANGED <<control, dbConfig, put, crawl, topo, owed, bounds>>

FinishRun ==
    /\ sup = "finish" /\ sup' = "drain"
    /\ running' = FALSE /\ due' = FALSE /\ lastError' = (root \notin detected)
    /\ NoCrawl
    /\ UNCHANGED <<config, trigger, single, dbConfig, put, topo, owed, bounds>>

-----------------------------------------------------------------------------
(* discover_device, run by thread t of the crawl.                          *)

\* collect fails or is invalid, or the device is detected with its neighbors.
Collect(t) ==
    /\ crew[t].pc = "collect"
    /\ \/ /\ failures' = failures \cup {crew[t].dev}
          /\ crew' = [crew EXCEPT ![t].pc = "done"] /\ UNCHANGED detected
       \/ /\ detected' = detected \cup {crew[t].dev}
          /\ crew' = [crew EXCEPT ![t].pc = "start", ![t].todo = topo[crew[t].dev]]
          /\ UNCHANGED failures
    /\ UNCHANGED <<control, dbConfig, put, sup, root, handles, joining, inFlight,
                   topo, owed, bounds>>

\* Mutant: only finished devices count as visited.
ClaimableDetected(d) == d \notin detected

\* Mutant: every announced neighbor is crawled.
ClaimableAlways(d) == TRUE

\* Neither detected nor being crawled already.
Claimable(d) == d \notin inFlight /\ d \notin detected

\* start_device_discovery for one neighbor: claim it and spawn its thread ...
StartNeighbor(t) ==
    /\ crew[t].pc = "start"
    /\ \E d \in crew[t].todo :
          IF Claimable(d)
          THEN /\ Len(crew) < MaxCrew
               /\ inFlight' = inFlight \cup {d}
               /\ crew' = Append([crew EXCEPT ![t].todo = @ \ {d}, ![t].pc = "push",
                                              ![t].child = Len(crew) + 1], NewThread(d))
          ELSE crew' = [crew EXCEPT ![t].todo = @ \ {d}] /\ UNCHANGED inFlight
    /\ UNCHANGED <<control, dbConfig, put, sup, root, handles, joining, detected,
                   failures, topo, owed, bounds>>

\* ... and push its handle, possibly after that thread has run.
PushHandle(t) ==
    /\ crew[t].pc = "push"
    /\ handles' = handles \cup {crew[t].child}
    /\ crew' = [crew EXCEPT ![t].pc = "start", ![t].child = 0]
    /\ UNCHANGED <<control, dbConfig, put, sup, root, joining, inFlight, detected,
                   failures, topo, owed, bounds>>

\* ingest_device (skipped without a DB connection) ends the thread.
IngestDevice(t) ==
    /\ crew[t].pc = "start" /\ crew[t].todo = {}
    /\ crew' = [crew EXCEPT ![t].pc = "done"]
    /\ UNCHANGED <<control, dbConfig, put, sup, root, handles, joining, inFlight,
                   detected, failures, topo, owed, bounds>>

\* run_single_device: a crawl of its own with one thread and no links, or nothing
\* (no community, unresolvable, unreachable); it leaves the control block alone.
RunSingleDevice(r) ==
    /\ single[r] \in {"collect", "ingest"}
    /\ \E next \in {"ingest", "done"} \ {single[r]} : single' = [single EXCEPT ![r] = next]
    /\ UNCHANGED <<config, running, lastError, trigger, due, dbConfig, put, sup,
                   crawl, topo, owed, bounds>>

-----------------------------------------------------------------------------
\* The process stops at any point and starts again: only the settings row is kept.
Restart ==
    /\ dbFailures + restarts < MaxFaults /\ restarts' = restarts + 1
    /\ \/ config' = LoadConfig /\ UNCHANGED startFailures
       \/ /\ startFailures' = startFailures + 1
          /\ config' = EnvSeed
    /\ running' = FALSE /\ lastError' = FALSE /\ trigger' = {} /\ due' = TRUE
    /\ single' = [r \in Request |->
                     IF single[r] \in {"unused", "done"} THEN single[r] ELSE "killed"]
    /\ put' = [c \in Client |-> None] /\ sup' = "drain" /\ NoCrawl /\ owed' = <<>>
    /\ UNCHANGED <<dbConfig, topo, triggers, puts, dbFailures>>

Supervise ==
    DrainSingles \/ NextRunParams \/ StartCrawl \/ JoinDrained \/ IngestLinks \/ FinishRun

ThreadStep(t) == Collect(t) \/ StartNeighbor(t) \/ PushHandle(t) \/ IngestDevice(t)

Next ==
    \/ \E override \in Override : DiscoveryRun(override)
    \/ \E r \in Request : DiscoveryRunSingle(r) \/ RunSingleDevice(r)
    \/ \E c \in Client : PutApply(c) \/ \E cfg \in PutConfig : PutPersist(c, cfg)
    \/ FailPut \/ Elapse \/ Restart
    \/ Supervise
    \/ \E t \in Thread : ThreadStep(t)

Spec == Init /\ [][Next]_vars

\* The supervisor and the workers of the single-device lane keep running.
LaneFairness == WF_vars(Supervise) /\ \A r \in Request : WF_vars(RunSingleDevice(r))

\* Also the crawl's threads: a collect ends, since SNMP requests time out.
FairSpec ==
    /\ Spec /\ LaneFairness
    /\ \A t \in 1..MaxCrew : WF_vars(t \in Thread /\ ThreadStep(t))

\* Progress of the single-device lane must not need that of a crawl thread.
LaneFairSpec == Spec /\ LaneFairness

-----------------------------------------------------------------------------
(* Properties.                                                             *)

TypeOK ==
    /\ config \in Config /\ dbConfig \in Config \cup {None}
    /\ running \in BOOLEAN /\ lastError \in BOOLEAN /\ due \in BOOLEAN
    /\ trigger \subseteq Dev \cup {None}
    /\ single \in [Request -> {"unused", "queued", "collect", "ingest", "done", "lost", "killed"}]
    /\ put \in [Client -> Config \cup {None}]
    /\ sup \in {"drain", "decide", "resolve", "join", "links", "finish"}
    /\ root \in Dev \cup {None} /\ handles \subseteq Thread /\ joining \subseteq Thread
    /\ \A t \in Thread : crew[t] \in
          [dev : Dev, pc : {"collect", "start", "push", "done"}, todo : SUBSET Dev,
           child : 0..MaxCrew]
    /\ inFlight \subseteq Dev /\ detected \subseteq Dev /\ failures \subseteq Dev

\* start_device_discovery is called for the same device by every neighbor that
\* announces it, concurrently: one thread crawls it.
CrawledOnce ==
    \A t, u \in Thread : crew[t].dev = crew[u].dev => t = u

\* discovery.rs: "Join until quiescent; finished workers may have spawned new ones".
\* When links are built no thread of the crawl is still at work, and every device
\* announced by a detected one was crawled, or failed, however the threads raced.
CrawlComplete ==
    sup = "links" =>
        /\ \A t \in Thread : crew[t].pc = "done"
        /\ root \in detected \cup failures
        /\ \A d \in detected : topo[d] \subseteq detected \cup failures

\* Of the full runs answered 202 none is swallowed by another: what the supervisor
\* will take is the one accepted run that it has not taken.
AcceptedNotLost ==
    \/ trigger = {} /\ owed = <<>>
    \/ \E override \in trigger : trigger = {override} /\ owed = <<override>>

\* routes/dev/discovery.rs: "Persist so the config survives restarts (wins over the
\* env seed)": with no PUT under way, a restart loads the config in use, unless the last
\* start could not read it.
ConfigSurvivesRestart == startFailures = 0 /\ (\A c \in Client : put[c] = None) => LoadConfig = config

\* A crawl ends, whatever cycles the network has, and whatever fails.
CrawlEnds == running ~> ~running

\* A single-device request is carried out, unless the process ends first, and a
\* requested run is taken up: none is forgotten, although all share one thread.
RequestsServed ==
    /\ \A r \in Request : (single[r] = "queued") ~> (single[r] \in {"done", "killed"})
    /\ (trigger # {}) ~> (trigger = {})

\* models/json.rs: single-device runs "neither block nor are blocked by the
\* periodic/manual full crawl".
SingleNotBlocked ==
    \A r \in Request : (single[r] = "queued") ~> (single[r] = "done")
=============================================================================
