-------------------------- MODULE DiscoveryIngest --------------------------
(***************************************************************************)
(* What discovery runs write to the database.  A full run has one thread   *)
(* per device: it reads the device's tables, upserts the device row and    *)
(* its interface rows and deletes the stale ones; when all have ended the  *)
(* run reconciles the links, one device after the other.  A single-device  *)
(* run ingests one device on a thread of its own, at any time.  Each       *)
(* database statement is a step; no transaction spans two of them, and     *)
(* rows are written back whole from the copy that was read.                *)
(*                                                                         *)
(* A thread starts when its device is met; every device of the network is, *)
(* and one met late is one that waits to collect.  Of the statements that  *)
(* may fail the two reads of ingest_device are modelled, which take a      *)
(* failure for absence; a failed write loses that write only.              *)
(*                                                                         *)
(* An interface row keeps its name and link; its other columns are         *)
(* overwritten without being looked at.  Rows whose virtual_connection was *)
(* set by hand, and PUT /dev/discovery/links, are left out; PUT            *)
(* /dev/discovery/device is what a single-device run does.                 *)
(***************************************************************************)
EXTENDS Integers, FiniteSets

CONSTANTS
    Device,                 \* fqdns; a device also names its crawl thread
    Port,                   \* interface names
    Single,                 \* the thread of single-device runs
    Networks,               \* networks considered
    Installed,              \* those the first run may find
    Stored,                 \* what earlier runs have left in the tables
    Targets,                \* devices single-device runs are requested for
    StableModes,            \* values of topology_stable runs are started with
    MaxChanges, MaxSingles  \* bounds; a failed read counts as one of each

NoId == 0
NoIfc == [device |-> "none"]
Ifc == [device : Device, port : Port]

\* A network: the devices that answer, their ports, and the neighbor each
\* port's LLDP or CDP entry resolves to.
Network == [up : SUBSET Device, ports : [Device -> SUBSET Port],
            sees : [Ifc -> Ifc \cup {NoIfc}]]

ASSUME SingleAssumption == Single \notin Device
ASSUME NetworksAssumption == Networks \subseteq Network /\ Installed \subseteq Networks
ASSUME TargetsAssumption == Targets \subseteq Device
ASSUME StableModesAssumption == StableModes \subseteq BOOLEAN
ASSUME IngestBoundAssumption == {MaxChanges, MaxSingles} \subseteq Nat

VARIABLES
    net,                    \* the network
    devices,                \* devices table: rows [id, name]
    interfaces,             \* interfaces table: rows [id, dev, name, link]
    nextId,                 \* AUTOINCREMENT of the interfaces table
    job,                    \* job[w]: a thread's collect and ingest_device
    run,                    \* the full run and its ingest_links
    quiet,                  \* history: undisturbed unstable runs in a row, up to 2
    exposed,                \* history: a read failed, or two threads ingested one device
    changes, singles, failures  \* spent bounds

tables == <<devices, interfaces, nextId>>
spent == <<exposed, changes, singles, failures>>
vars == <<net, devices, interfaces, nextId, job, run, quiet, exposed, changes, singles, failures>>

Worker == Device \cup {Single}
DeviceRow == [id : Nat, name : Device]
Row == [id : Nat, dev : Nat, name : Port, link : Nat]

\* Rows are numbered, an interface row refers to a device row, and earlier runs have
\* left one per device and port.
ASSUME StoredAssumption ==
    /\ Stored.devices \subseteq DeviceRow /\ Stored.interfaces \subseteq Row
    /\ IsFiniteSet(Stored.devices) /\ IsFiniteSet(Stored.interfaces)
    /\ {d.id : d \in Stored.devices} = 1..Cardinality(Stored.devices)
    /\ {r.id : r \in Stored.interfaces} = 1..Cardinality(Stored.interfaces)
    /\ \A r \in Stored.interfaces : \E d \in Stored.devices : d.id = r.dev
    /\ \A d, e \in Stored.devices : d.id = e.id \/ d.name = e.name => d = e
    /\ \A r, q \in Stored.interfaces :
          r.id = q.id \/ (r.dev = q.dev /\ r.name = q.name) => r = q

(***************************************************************************)
(* The tables.  connected_interface references interfaces(id): a write of  *)
(* a dangling link and a delete of a row another one links to both fail,   *)
(* and a failed statement is only logged.                                  *)
(***************************************************************************)
Ids(table) == {r.id : r \in table}
Names(rows) == {r.name : r \in rows}

\* Interface::update: the whole row; a row that is gone stays gone.
Updated(table, row) ==
    IF row.id \in Ids(table) /\ row.link \in Ids(table) \cup {NoId}
    THEN {r \in table : r.id # row.id} \cup {row}
    ELSE table

Inserted(dev, name) ==
    interfaces \cup {[id |-> nextId, dev |-> dev, name |-> name, link |-> NoId]}

Referenced(id) == \E r \in interfaces : r.link = id /\ r.id # id

Deleted(id) ==
    IF Referenced(id) THEN interfaces ELSE {r \in interfaces : r.id # id}

InterfacesOf(dev) == {r \in interfaces : r.dev = dev}

\* Of several rows a lookup by name may return any: no index makes them unique.
DeviceRows(name) == {r \in devices : r.name = name}
InterfaceByName(dev, name) == {r \in InterfacesOf(dev) : r.name = name}

---------------------------------------------------------------------------
Idle == [at |-> "off", device |-> Single, detected |-> FALSE, ports |-> {}, dev |-> NoId,
         rows |-> {}, todo |-> {}, doomed |-> NoId, peers |-> {}]
Collecting(d) == [Idle EXCEPT !.at = "collect", !.device = d]

NoRun == [phase |-> "idle", stable |-> TRUE, calm |-> TRUE, sees |-> [i \in Ifc |-> NoIfc],
          todo |-> {}, device |-> Single, rows |-> {}]

\* A change, a failed read or a single-device run disturbs the run in progress.
Disturb == quiet' = 0 /\ run' = [run EXCEPT !.calm = FALSE]

Init ==
    /\ net \in Installed
    /\ devices = Stored.devices /\ interfaces = Stored.interfaces
    /\ nextId = Cardinality(interfaces) + 1
    /\ job = [w \in Worker |-> Idle]
    /\ run = NoRun
    /\ quiet = 0 /\ exposed = FALSE /\ changes = 0 /\ singles = 0 /\ failures = 0

ChangeNetwork ==
    /\ changes + failures < MaxChanges
    /\ changes' = changes + 1
    /\ net' \in Networks \ {net}
    /\ Disturb
    /\ UNCHANGED <<tables, job, exposed, singles, failures>>

StartRun ==
    /\ run.phase = "idle"
    /\ \E stable \in StableModes :
         run' = [NoRun EXCEPT !.phase = "ingest", !.stable = stable,
                              !.calm = job[Single].at = "off"]
    /\ job' = [w \in Worker |-> IF w = Single THEN job[Single] ELSE Collecting(w)]
    /\ exposed' = (exposed \/ job[Single].at # "off")
    /\ UNCHANGED <<net, tables, quiet, changes, singles, failures>>

StartSingle ==
    /\ singles + failures < MaxSingles
    /\ job[Single].at = "off"
    /\ singles' = singles + 1
    /\ \E d \in Targets :
         /\ job' = [job EXCEPT ![Single] = Collecting(d)]
         /\ exposed' = (exposed \/ job[d].at # "off")
    /\ Disturb
    /\ UNCHANGED <<net, tables, changes, failures>>

(***************************************************************************)
(* A thread: collect, then ingest_device.                                  *)
(***************************************************************************)
\* DetectedDevice::collect: what the device announces now, or a failure.
\* A single-device run resolves no neighbors.
Collect(w) ==
    LET d == job[w].device IN
    /\ job[w].at = "collect"
    /\ \/ /\ d \in net.up
          /\ job' = [job EXCEPT ![w].at = "find", ![w].detected = TRUE,
                                ![w].ports = net.ports[d]]
          /\ run' = IF w = Single THEN run
                    ELSE [run EXCEPT !.sees = [i \in Ifc |->
                             IF i.device = d THEN net.sees[i] ELSE run.sees[i]]]
       \/ /\ d \notin net.up
          /\ job' = [job EXCEPT ![w] = Idle]
          /\ UNCHANGED run
    /\ UNCHANGED <<net, tables, quiet, spent>>

FindDevice(w) ==
    /\ job[w].at = "find"
    /\ IF DeviceRows(job[w].device) = {}
       THEN job' = [job EXCEPT ![w].at = "create"]
       ELSE \E r \in DeviceRows(job[w].device) :
              job' = [job EXCEPT ![w].at = "load", ![w].dev = r.id]
    /\ UNCHANGED <<net, tables, run, quiet, spent>>

\* The lookup takes every error for an absent row, interfaces() for no rows.
FailRead ==
    /\ changes + failures < MaxChanges /\ singles + failures < MaxSingles
    /\ failures' = failures + 1 /\ exposed' = TRUE
    /\ Disturb
    /\ UNCHANGED <<net, tables, changes, singles>>

FindNothing(w) ==
    /\ job[w].at = "find"
    /\ job' = [job EXCEPT ![w].at = "create"]
    /\ FailRead

LoadNothing(w) ==
    /\ job[w].at = "load"
    /\ job' = [job EXCEPT ![w].at = "upsert", ![w].rows = {}, ![w].todo = job[w].ports]
    /\ FailRead

CreateDevice(w) ==
    /\ job[w].at = "create"
    /\ LET id == Cardinality(devices) + 1 IN
         /\ devices' = devices \cup {[id |-> id, name |-> job[w].device]}
         /\ job' = [job EXCEPT ![w].at = "load", ![w].dev = id]
    /\ UNCHANGED <<net, interfaces, nextId, run, quiet, spent>>

LoadInterfaces(w) ==
    /\ job[w].at = "load"
    /\ job' = [job EXCEPT ![w].at = "upsert", ![w].rows = InterfacesOf(job[w].dev),
                          ![w].todo = job[w].ports]
    /\ UNCHANGED <<net, tables, run, quiet, spent>>

\* Mutant: the announced name never equals the stored one.
SelectedNone(w, p) == {}

\* The row to update, in the copy loaded before: the link goes back with it.
Selected(w, p) == {r \in job[w].rows : r.name = p}

UpsertInterface(w) ==
    /\ job[w].at = "upsert"
    /\ \E p \in job[w].todo :
         /\ IF Selected(w, p) = {}
            THEN interfaces' = Inserted(job[w].dev, p) /\ nextId' = nextId + 1
            ELSE /\ \E r \in Selected(w, p) : interfaces' = Updated(interfaces, r)
                 /\ UNCHANGED nextId
         /\ job' = [job EXCEPT ![w].todo = @ \ {p}]
    /\ UNCHANGED <<net, devices, run, quiet, spent>>

Stale(w) == {r \in job[w].rows : r.name \notin job[w].ports}

\* Interface::delete reads the rows that link to the stale one ...
BeginDelete(w) ==
    /\ job[w].at = "upsert" /\ job[w].todo = {}
    /\ \E r \in Stale(w) :
         job' = [job EXCEPT ![w].at = "delete", ![w].doomed = r.id,
                            ![w].rows = @ \ {r},
                            ![w].peers = {q \in interfaces : q.link = r.id}]
    /\ UNCHANGED <<net, tables, run, quiet, spent>>

\* ... writes each back without its link ...
UnlinkPeer(w) ==
    /\ job[w].at = "delete"
    /\ \E q \in job[w].peers :
         /\ interfaces' = Updated(interfaces, [q EXCEPT !.link = NoId])
         /\ job' = [job EXCEPT ![w].peers = @ \ {q}]
    /\ UNCHANGED <<net, devices, nextId, run, quiet, spent>>

\* ... and deletes the row.
DeleteInterface(w) ==
    /\ job[w].at = "delete" /\ job[w].peers = {}
    /\ interfaces' = Deleted(job[w].doomed)
    /\ job' = [job EXCEPT ![w].at = "upsert", ![w].doomed = NoId]
    /\ UNCHANGED <<net, devices, nextId, run, quiet, spent>>

\* What a full run found out is kept for its links.
EndIngest(w) ==
    /\ job[w].at = "upsert" /\ job[w].todo = {} /\ Stale(w) = {}
    /\ job' = [job EXCEPT ![w] =
                 IF w = Single THEN Idle
                 ELSE [Idle EXCEPT !.detected = TRUE, !.ports = job[w].ports]]
    /\ UNCHANGED <<net, tables, run, quiet, spent>>

(***************************************************************************)
(* The links of a full run, when every thread has been joined.             *)
(***************************************************************************)
Detected == {d \in Device : job[d].detected}

\* build_connections, link_info_payload: a neighbor counts if its device was
\* detected with that port.
Announced(d, p) ==
    LET q == run.sees[[device |-> d, port |-> p]] IN
    IF p \in job[d].ports /\ q # NoIfc /\ q.device \in Detected
         /\ q.port \in job[q.device].ports
    THEN {q} ELSE {}

BuildConnections ==
    /\ run.phase = "ingest"
    /\ \A d \in Device : job[d].at = "off"
    /\ run' = [run EXCEPT !.phase = "links", !.todo = Detected]
    /\ UNCHANGED <<net, tables, job, quiet, spent>>

\* ingest_links reads the device's rows once.
LoadLinks ==
    /\ run.phase = "links" /\ run.rows = {}
    /\ \E d \in run.todo : \E r \in DeviceRows(d) :
         run' = [run EXCEPT !.todo = @ \ {d}, !.device = d, !.rows = InterfacesOf(r.id)]
    /\ UNCHANGED <<net, tables, job, quiet, spent>>

\* Mutant: clear_connection heeds the flag the wrong way round.
ClearedStable(r) ==
    IF ~run.stable \/ r.link = NoId THEN interfaces
    ELSE Updated(interfaces, [r EXCEPT !.link = NoId])

\* clear_connection
Cleared(r) ==
    IF run.stable \/ r.link = NoId THEN interfaces ELSE Updated(interfaces, [r EXCEPT !.link = NoId])

\* Mutant: the former peer's link is cleared in stable runs too.
ForgottenAlways(table, former) ==
    IF former = {} THEN table
    ELSE UNION {Updated(table, [f EXCEPT !.link = NoId]) : f \in former}

\* The former peer is written back as it was read, without its link.
Forgotten(table, former) ==
    IF run.stable \/ former = {} THEN table
    ELSE UNION {Updated(table, [f EXCEPT !.link = NoId]) : f \in former}

\* One local row of ingest_links, from the copy read by LoadLinks.
IngestLink ==
    /\ run.phase = "links"
    /\ \E r \in run.rows :
         LET peer == Announced(run.device, r.name)
             peerRows == UNION {DeviceRows(q.device) : q \in peer}
             former == {f \in interfaces : f.id = r.link}   \* peer_interface
         IN  /\ run' = [run EXCEPT !.rows = @ \ {r}]
             /\ IF peerRows = {}
                THEN interfaces' = Cleared(r)
                ELSE \E pd \in peerRows, q \in peer :
                       LET targets == InterfaceByName(pd.id, q.port)
                           same == \E f \in former : f.dev = pd.id /\ f.name = q.port
                       IN  \/ same /\ UNCHANGED interfaces
                           \/ /\ ~same /\ targets = {}
                              /\ interfaces' = Forgotten(interfaces, former)
                           \/ /\ ~same
                              /\ \E t \in targets :
                                   interfaces' = Forgotten(
                                       Updated(interfaces, [r EXCEPT !.link = t.id]), former)
    /\ UNCHANGED <<net, devices, nextId, job, quiet, spent>>

FinishRun ==
    /\ run.phase = "links" /\ run.todo = {} /\ run.rows = {}
    /\ quiet' = IF run.stable \/ ~run.calm THEN 0 ELSE IF quiet = 0 THEN 1 ELSE 2
    /\ run' = NoRun
    /\ job' = [w \in Worker |-> IF w = Single THEN job[Single] ELSE Idle]
    /\ UNCHANGED <<net, tables, spent>>

ThreadStep(w) ==
    \/ Collect(w) \/ FindDevice(w) \/ CreateDevice(w) \/ LoadInterfaces(w)
    \/ UpsertInterface(w) \/ BeginDelete(w) \/ UnlinkPeer(w) \/ DeleteInterface(w)
    \/ EndIngest(w)

Next ==
    \/ ChangeNetwork \/ StartRun \/ StartSingle
    \/ \E w \in Worker : ThreadStep(w) \/ FindNothing(w) \/ LoadNothing(w)
    \/ BuildConnections \/ LoadLinks \/ IngestLink \/ FinishRun

Spec == Init /\ [][Next]_vars

---------------------------------------------------------------------------
Job == [at : {"off", "collect", "find", "create", "load", "upsert", "delete"},
        device : Worker, detected : BOOLEAN, ports : SUBSET Port, dev : Nat,
        rows : SUBSET Row, todo : SUBSET Port, doomed : Nat, peers : SUBSET Row]
Run == [phase : {"idle", "ingest", "links"}, stable : BOOLEAN, calm : BOOLEAN,
        sees : [Ifc -> Ifc \cup {NoIfc}], todo : SUBSET Device, device : Worker,
        rows : SUBSET Row]

\* Types of the state; a row's id identifies it, and its device and link exist.
TypeOK ==
    /\ net \in Networks
    /\ devices \subseteq DeviceRow /\ interfaces \subseteq Row
    /\ nextId \in Nat /\ \A r \in interfaces : 0 < r.id /\ r.id < nextId
    /\ \A r, q \in interfaces : r.id = q.id => r = q
    /\ \A r \in interfaces : r.dev \in Ids(devices) /\ r.link \in Ids(interfaces) \cup {NoId}
    /\ DOMAIN job = Worker /\ \A w \in Worker : job[w] \in Job
    /\ run \in Run
    /\ quiet \in 0..2 /\ exposed \in BOOLEAN
    /\ changes \in 0..MaxChanges /\ singles \in 0..MaxSingles /\ failures \in 0..MaxSingles

\* No index makes names unique: that a device, and each port of it, has one row
\* rests on ingest_device reading the tables before it inserts.  Whatever full and
\* single-device runs do otherwise, a second row takes a failed read, or two threads
\* that ingest one device at the same time.
OneRow == \A d, e \in devices : d.name = e.name => d = e
Unique ==
    /\ OneRow
    /\ \A r, q \in interfaces : r.dev = q.dev /\ r.name = q.name => r = q
UniqueRows == ~exposed => Unique

\* The port a row stands for, and the one its link leads to.
PortOf(r) == [device |-> (CHOOSE d \in devices : d.id = r.dev).name, port |-> r.name]
LinkOf(r) == {PortOf(q) : q \in {q \in interfaces : q.id = r.link}}
Resolved(i) ==
    LET q == net.sees[i] IN
    IF q # NoIfc /\ q.device \in net.up /\ q.port \in net.ports[q.device] THEN {q} ELSE {}

\* Threads of one run write rows back that another one unlinks, a row that is
\* linked to cannot be deleted, and a link that moves wipes the former peer's
\* link.  A run may leave such damage behind, but the next one repairs it: after
\* two undisturbed unstable runs the rows and links of the devices that answered
\* are exactly what the network announces, unless a failed read, or a single-device
\* run beside a full one, has doubled a device's row: that stays.
SecondRunExact ==
    quiet = 2 /\ run.phase = "idle" /\ OneRow =>
        \A d \in net.up :
            LET rows == UNION {InterfacesOf(r.id) : r \in DeviceRows(d)} IN
            /\ Names(rows) = net.ports[d]
            /\ \A r \in rows : LinkOf(r) = Resolved(PortOf(r))

\* While the topology is declared stable full runs alone never clear a link,
\* whatever neighbors a crawl misses and reads fail: it changes to another port, or goes because
\* the row of its peer is being deleted.
KeepsLinks ==
    \A r \in interfaces : r.link # NoId =>
        \/ r.id \notin Ids(interfaces')
        \/ \E q \in interfaces' : q.id = r.id /\ q.link # NoId
        \/ \E w \in Worker : job[w].doomed = r.link
StableKeepsLinks == [][run.stable /\ singles = 0 => KeepsLinks]_vars

\* The same with single-device runs, whatever the topology was declared to be.
\* "Single-device runs must never clear the device's links (see
\* perform_discovery_run); force stable" (collectors/discovery.rs:1246-1247)
SingleKeepsLinks == [][run.stable => KeepsLinks]_vars
=============================================================================
