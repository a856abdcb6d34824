---------------------------- MODULE IngestProofs ----------------------------
(***************************************************************************)
(* Proofs about DiscoveryIngest, for any devices, ports, networks, stored  *)
(* rows and bounds: a second row of a device or port takes a failed read   *)
(* or two threads on one device, no link is cleared while the topology is  *)
(* declared stable, and after two undisturbed runs the tables are what the *)
(* network announces.                                                      *)
(***************************************************************************)
EXTENDS DiscoveryIngest, FiniteSetTheorems, TLAPS

USE DEF tables, spent

(***************************************************************************)
(* What holds of every execution: ids are unique and grow, a copy is of    *)
(* the row its id tells, a thread knows its device's row, and threads rest *)
(* while links are written.                                                *)
(***************************************************************************)
\* A copy of a row still tells which port the row is for, if the row is there.
CopyOK(table, q) ==
    q \in Row /\ q.id < nextId /\ \A r \in table : r.id = q.id => r.dev = q.dev /\ r.name = q.name

\* A step of thread w changes its own job; other threads keep theirs.
OthersKeep(w) == \A v \in Worker \ {w} : job'[v] = job[v]

Tables ==
    /\ devices \subseteq DeviceRow /\ IsFiniteSet(devices)
    /\ \A d \in devices : d.id \in 1..Cardinality(devices)
    /\ \A d, e \in devices : d.id = e.id => d = e
    /\ nextId \in Nat /\ nextId # NoId /\ interfaces \subseteq Row
    /\ \A r \in interfaces : r.id # NoId /\ r.id < nextId /\ r.dev \in Ids(devices)
    /\ \A r, q \in interfaces : r.id = q.id => r = q

Known(dev, name) == \E e \in devices : e.id = dev /\ e.name = name

JobSound(w) ==
    /\ job[w].at # "off" => job[w].device \in Device /\ (w \in Device => job[w].device = w)
    /\ job[w].at \in {"load", "upsert", "delete"} => Known(job[w].dev, job[w].device)
    /\ job[w].at \in {"upsert", "delete"} => job[w].todo \subseteq job[w].ports
    /\ job[w].at \notin {"upsert", "delete"} => job[w].rows = {}
    /\ job[w].at # "delete" => job[w].peers = {}
    /\ job[w].at = "delete" => job[w].doomed # NoId /\ job[w].doomed < nextId
    /\ \A q \in job[w].rows : q.dev = job[w].dev
    /\ \A q \in job[w].rows \cup job[w].peers : CopyOK(interfaces, q) /\ q.id # NoId

RunSound ==
    /\ \A q \in run.rows : CopyOK(interfaces, q) /\ Known(q.dev, run.device)
    /\ \A q, r \in run.rows : q.id = r.id => q = r
    /\ run.phase # "ingest" => \A d \in Device : job[d].at = "off"
    /\ run.phase # "links" => run.rows = {}
    /\ run.phase = "links" =>
          run.todo \subseteq Detected /\ (run.rows # {} => run.device \in Detected)

Sound ==
    /\ net \in Network /\ job \in [Worker -> Job] /\ run \in Run
    /\ Tables /\ RunSound /\ \A w \in Worker : JobSound(w)

LEMMA SoundInitial == Init => Sound
<1> SUFFICES ASSUME Init PROVE Sound
  OBVIOUS
<1>1. Idle \in Job /\ Idle.at = "off" /\ Idle.rows = {} /\ Idle.peers = {}
  BY DEF Idle, Job, Worker, NoId
<1>2. NoRun \in Run /\ NoRun.phase = "idle" /\ NoRun.rows = {}
  BY DEF NoRun, Run, Worker
<1>3. Cardinality(interfaces) \in Nat /\ nextId = Cardinality(interfaces) + 1
      /\ \A r \in interfaces : r.id \in 1..Cardinality(interfaces)
  BY StoredAssumption, FS_CardinalityType DEF Init
<1>4. \A r \in interfaces : r.dev \in Ids(devices)
  BY StoredAssumption DEF Init, Ids
<1>5. Tables
  BY <1>3, <1>4, StoredAssumption DEF Init, Tables, NoId
<1>6. QED
  BY <1>1, <1>2, <1>5, NetworksAssumption DEF Init, Sound, RunSound, JobSound, Worker

-----------------------------------------------------------------------------
(* What each step of a thread makes of its job.                            *)

SameRun ==
    /\ run' \in Run /\ run'.phase = run.phase /\ run'.stable = run.stable /\ run'.calm = run.calm
    /\ run'.todo = run.todo /\ run'.device = run.device /\ run'.rows = run.rows

\* Nothing but a thread's own job, what its crawl has seen, and the tables change.
Frame(w) ==
    /\ job' \in [Worker -> Job] /\ OthersKeep(w) /\ SameRun
    /\ UNCHANGED <<net, quiet, exposed, changes, singles, failures>>

SameCopies(w) == job'[w].rows = job[w].rows /\ job'[w].peers = job[w].peers

SameDevice(w) == job'[w].device = job[w].device /\ job'[w].detected = job[w].detected
                 /\ job'[w].ports = job[w].ports

LEMMA JobWritten ==
    ASSUME Sound, NEW w \in Worker, NEW j \in Job, job' = [job EXCEPT ![w] = j]
    PROVE  job' \in [Worker -> Job] /\ OthersKeep(w) /\ job'[w] = j
BY DEF Sound, OthersKeep

LEMMA IdleJob ==
    /\ Idle \in Job /\ Idle.at = "off" /\ ~Idle.detected /\ Idle.rows = {} /\ Idle.peers = {}
BY DEF Idle, Job, Worker, NoId

LEMMA CollectJob ==
    ASSUME Sound, NEW w \in Worker, Collect(w)
    PROVE  /\ Frame(w) /\ UNCHANGED <<devices, interfaces, nextId>>
           /\ \/ /\ job[w].device \in net.up /\ job'[w].at = "find" /\ job'[w].detected
                 /\ job'[w].device = job[w].device /\ job'[w].ports = net.ports[job[w].device]
                 /\ SameCopies(w)
                 /\ IF w = Single THEN run' = run
                    ELSE \A i \in Ifc : run'.sees[i] = IF i.device = job[w].device THEN net.sees[i]
                                                       ELSE run.sees[i]
              \/ job[w].device \notin net.up /\ job'[w] = Idle /\ run' = run
<1>1. /\ job[w] \in Job /\ run \in Run /\ job[w].device \in Device /\ net \in Network
      /\ UNCHANGED <<net, quiet, exposed, changes, singles, failures, devices, interfaces, nextId>>
  BY DEF Sound, JobSound, Collect
<1>2. CASE job[w].device \in net.up
  <2>1. PICK s : s = [i \in Ifc |-> IF i.device = job[w].device THEN net.sees[i] ELSE run.sees[i]]
    OBVIOUS
  <2>2. s \in [Ifc -> Ifc \cup {NoIfc}]
    BY <1>1, <2>1 DEF Network, Run
  <2>3. PICK j : j = [job[w] EXCEPT !.at = "find", !.detected = TRUE, !.ports = net.ports[job[w].device]]
    OBVIOUS
  <2>4. /\ j \in Job /\ j.at = "find" /\ j.detected /\ j.device = job[w].device
        /\ j.ports = net.ports[job[w].device] /\ j.rows = job[w].rows /\ j.peers = job[w].peers
    BY <1>1, <2>3 DEF Job, Network
  <2>5. job' = [job EXCEPT ![w] = j]
    BY <1>2, <2>3 DEF Collect
  <2>6. job' \in [Worker -> Job] /\ OthersKeep(w) /\ job'[w] = j
    BY <2>4, <2>5, JobWritten
  <2>7. run' = IF w = Single THEN run ELSE [run EXCEPT !.sees = s]
    BY <1>2, <2>1 DEF Collect
  <2>8. SameRun /\ (w # Single => run'.sees = s)
    BY <1>1, <2>2, <2>7 DEF Run, SameRun
  <2>9. QED
    BY <1>1, <1>2, <2>1, <2>4, <2>6, <2>7, <2>8 DEF Frame, SameCopies
<1>3. CASE job[w].device \notin net.up
  <2>1. job' = [job EXCEPT ![w] = Idle] /\ run' = run
    BY <1>3 DEF Collect
  <2>2. job' \in [Worker -> Job] /\ OthersKeep(w) /\ job'[w] = Idle
    BY <2>1, IdleJob, JobWritten
  <2>3. QED
    BY <1>1, <1>3, <2>1, <2>2 DEF Frame, SameRun
<1>4. QED
  BY <1>2, <1>3

LEMMA FindJob ==
    ASSUME Sound, NEW w \in Worker, FindDevice(w)
    PROVE  /\ Frame(w) /\ SameCopies(w) /\ SameDevice(w)
           /\ UNCHANGED <<devices, interfaces, nextId, run>>
           /\ \/ DeviceRows(job[w].device) = {} /\ job'[w].at = "create"
              \/ job'[w].at = "load" /\ \E r \in DeviceRows(job[w].device) : job'[w].dev = r.id
<1>1. /\ job[w] \in Job /\ SameRun
      /\ UNCHANGED <<net, quiet, exposed, changes, singles, failures, devices, interfaces, nextId, run>>
  BY DEF Sound, FindDevice, SameRun
<1>2. CASE DeviceRows(job[w].device) = {}
  <2>1. PICK j : j = [job[w] EXCEPT !.at = "create"]
    OBVIOUS
  <2>2. /\ j \in Job /\ j.at = "create" /\ j.device = job[w].device /\ j.detected = job[w].detected
        /\ j.ports = job[w].ports /\ j.rows = job[w].rows /\ j.peers = job[w].peers
    BY <1>1, <2>1 DEF Job
  <2>3. job' = [job EXCEPT ![w] = j]
    BY <1>2, <2>1 DEF FindDevice
  <2>4. job' \in [Worker -> Job] /\ OthersKeep(w) /\ job'[w] = j
    BY <2>2, <2>3, JobWritten
  <2>5. QED
    BY <1>1, <1>2, <2>2, <2>4 DEF Frame, SameCopies, SameDevice
<1>3. CASE DeviceRows(job[w].device) # {}
  <2>1. PICK r \in DeviceRows(job[w].device) :
            job' = [job EXCEPT ![w].at = "load", ![w].dev = r.id]
    BY <1>3 DEF FindDevice
  <2>2. r.id \in Nat
    BY DEF DeviceRows, Sound, Tables, DeviceRow
  <2>3. PICK j : j = [job[w] EXCEPT !.at = "load", !.dev = r.id]
    OBVIOUS
  <2>4. /\ j \in Job /\ j.at = "load" /\ j.device = job[w].device /\ j.detected = job[w].detected
        /\ j.ports = job[w].ports /\ j.rows = job[w].rows /\ j.peers = job[w].peers /\ j.dev = r.id
    BY <1>1, <2>2, <2>3 DEF Job
  <2>5. job' = [job EXCEPT ![w] = j]
    BY <2>1, <2>3
  <2>6. job' \in [Worker -> Job] /\ OthersKeep(w) /\ job'[w] = j
    BY <2>4, <2>5, JobWritten
  <2>7. QED
    BY <1>1, <2>4, <2>6 DEF Frame, SameCopies, SameDevice
<1>4. QED
  BY <1>2, <1>3

LEMMA CreateJob ==
    ASSUME Sound, NEW w \in Worker, CreateDevice(w)
    PROVE  /\ Frame(w) /\ SameCopies(w) /\ SameDevice(w) /\ UNCHANGED <<interfaces, nextId, run>>
           /\ job[w].device \in Device /\ job'[w].at = "load"
           /\ \E new \in DeviceRow :
                 /\ new.id = Cardinality(devices) + 1 /\ new.name = job[w].device
                 /\ devices' = devices \cup {new} /\ job'[w].dev = new.id
<1>1. /\ job[w] \in Job /\ SameRun /\ job[w].device \in Device
      /\ UNCHANGED <<net, quiet, exposed, changes, singles, failures, interfaces, nextId, run>>
  BY DEF Sound, JobSound, CreateDevice, SameRun
<1>2. Cardinality(devices) + 1 \in Nat
  BY FS_CardinalityType DEF Sound, Tables
<1>3. PICK new : new = [id |-> Cardinality(devices) + 1, name |-> job[w].device]
  OBVIOUS
<1>4. new \in DeviceRow /\ new.id = Cardinality(devices) + 1 /\ new.name = job[w].device
  BY <1>1, <1>2, <1>3 DEF DeviceRow
<1>5. devices' = devices \cup {new} /\ job' = [job EXCEPT ![w].at = "load", ![w].dev = new.id]
  BY <1>3, <1>4 DEF CreateDevice
<1>6. PICK j : j = [job[w] EXCEPT !.at = "load", !.dev = new.id]
  OBVIOUS
<1>7. /\ j \in Job /\ j.at = "load" /\ j.device = job[w].device /\ j.detected = job[w].detected
      /\ j.ports = job[w].ports /\ j.rows = job[w].rows /\ j.peers = job[w].peers /\ j.dev = new.id
  BY <1>1, <1>2, <1>4, <1>6 DEF Job
<1>8. job' = [job EXCEPT ![w] = j]
  BY <1>5, <1>6
<1>9. job' \in [Worker -> Job] /\ OthersKeep(w) /\ job'[w] = j
  BY <1>7, <1>8, JobWritten
<1>10. QED
  BY <1>1, <1>4, <1>5, <1>7, <1>9 DEF Frame, SameCopies, SameDevice

LEMMA LoadJob ==
    ASSUME Sound, NEW w \in Worker, LoadInterfaces(w)
    PROVE  /\ Frame(w) /\ SameDevice(w) /\ UNCHANGED <<devices, interfaces, nextId, run>>
           /\ job[w].at = "load" /\ job'[w].at = "upsert" /\ job'[w].dev = job[w].dev
           /\ job'[w].rows = InterfacesOf(job[w].dev) /\ job'[w].todo = job[w].ports
           /\ job'[w].peers = job[w].peers
<1>1. /\ job[w] \in Job /\ SameRun /\ job[w].at = "load"
      /\ UNCHANGED <<net, quiet, exposed, changes, singles, failures, devices, interfaces, nextId, run>>
  BY DEF Sound, LoadInterfaces, SameRun
<1>2. InterfacesOf(job[w].dev) \in SUBSET Row
  BY DEF InterfacesOf, Sound, Tables
<1>3. PICK j : j = [job[w] EXCEPT !.at = "upsert", !.rows = InterfacesOf(job[w].dev),
                                  !.todo = job[w].ports]
  OBVIOUS
<1>4. /\ j \in Job /\ j.at = "upsert" /\ j.device = job[w].device /\ j.detected = job[w].detected
      /\ j.ports = job[w].ports /\ j.rows = InterfacesOf(job[w].dev) /\ j.todo = job[w].ports
      /\ j.peers = job[w].peers /\ j.dev = job[w].dev
  BY <1>1, <1>2, <1>3 DEF Job
<1>5. job' = [job EXCEPT ![w] = j]
  BY <1>3 DEF LoadInterfaces
<1>6. job' \in [Worker -> Job] /\ OthersKeep(w) /\ job'[w] = j
  BY <1>4, <1>5, JobWritten
<1>7. QED
  BY <1>1, <1>4, <1>6 DEF Frame, SameDevice

LEMMA UpsertJob ==
    ASSUME Sound, NEW w \in Worker, UpsertInterface(w)
    PROVE  /\ Frame(w) /\ SameCopies(w) /\ SameDevice(w) /\ UNCHANGED <<devices, run>>
           /\ job[w].at = "upsert" /\ job'[w].at = "upsert" /\ job'[w].dev = job[w].dev
           /\ \E p \in job[w].todo :
                 /\ job'[w].todo = job[w].todo \ {p}
                 /\ \/ /\ nextId' = nextId + 1
                       /\ \E new \in Row :
                             /\ new.id = nextId /\ new.dev = job[w].dev /\ new.name = p
                             /\ new.link = NoId /\ interfaces' = interfaces \cup {new}
                    \/ /\ nextId' = nextId
                       /\ \E q \in job[w].rows : q.name = p /\ interfaces' = Updated(interfaces, q)
<1>1. /\ job[w] \in Job /\ SameRun /\ job[w].at = "upsert"
      /\ UNCHANGED <<net, quiet, exposed, changes, singles, failures, devices, run>>
  BY DEF Sound, UpsertInterface, SameRun
<1>2. PICK p \in job[w].todo :
         /\ IF Selected(w, p) = {}
            THEN interfaces' = Inserted(job[w].dev, p) /\ nextId' = nextId + 1
            ELSE /\ \E r \in Selected(w, p) : interfaces' = Updated(interfaces, r)
                 /\ UNCHANGED nextId
         /\ job' = [job EXCEPT ![w].todo = @ \ {p}]
  BY DEF UpsertInterface
<1>3. PICK j : j = [job[w] EXCEPT !.todo = @ \ {p}]
  OBVIOUS
<1>4. /\ j \in Job /\ j.at = "upsert" /\ j.device = job[w].device /\ j.detected = job[w].detected
      /\ j.ports = job[w].ports /\ j.rows = job[w].rows /\ j.todo = job[w].todo \ {p}
      /\ j.peers = job[w].peers /\ j.dev = job[w].dev
  BY <1>1, <1>3 DEF Job
<1>5. job' = [job EXCEPT ![w] = j]
  BY <1>2, <1>3
<1>6. job' \in [Worker -> Job] /\ OthersKeep(w) /\ job'[w] = j
  BY <1>4, <1>5, JobWritten
<1>7. CASE Selected(w, p) = {}
  <2>1. PICK new : new = [id |-> nextId, dev |-> job[w].dev, name |-> p, link |-> NoId]
    OBVIOUS
  <2>2. /\ new \in Row /\ new.id = nextId /\ new.dev = job[w].dev /\ new.name = p
        /\ new.link = NoId
    BY <1>1, <2>1 DEF Row, Job, Sound, Tables, NoId
  <2>3. interfaces' = interfaces \cup {new} /\ nextId' = nextId + 1
    BY <1>2, <1>7, <2>1 DEF Inserted
  <2>4. QED
    BY <1>1, <1>4, <1>6, <2>2, <2>3 DEF Frame, SameCopies, SameDevice
<1>8. CASE Selected(w, p) # {}
  BY <1>1, <1>2, <1>4, <1>6, <1>8 DEF Frame, SameCopies, SameDevice, Selected
<1>9. QED
  BY <1>7, <1>8

LEMMA BeginDeleteJob ==
    ASSUME Sound, NEW w \in Worker, BeginDelete(w)
    PROVE  /\ Frame(w) /\ SameDevice(w) /\ UNCHANGED <<devices, interfaces, nextId, run>>
           /\ job[w].at = "upsert" /\ job[w].todo = {} /\ job'[w].todo = {}
           /\ job'[w].at = "delete" /\ job'[w].dev = job[w].dev
           /\ \E r \in Stale(w) :
                 /\ job'[w].doomed = r.id /\ job'[w].rows = job[w].rows \ {r}
                 /\ job'[w].peers = {q \in interfaces : q.link = r.id}
<1>1. /\ job[w] \in Job /\ SameRun /\ job[w].at = "upsert" /\ job[w].todo = {}
      /\ UNCHANGED <<net, quiet, exposed, changes, singles, failures, devices, interfaces, nextId, run>>
  BY DEF Sound, BeginDelete, SameRun
<1>2. PICK r \in Stale(w) :
         job' = [job EXCEPT ![w].at = "delete", ![w].doomed = r.id, ![w].rows = @ \ {r},
                            ![w].peers = {q \in interfaces : q.link = r.id}]
  BY DEF BeginDelete
<1>3. PICK peers : peers = {q \in interfaces : q.link = r.id}
  OBVIOUS
<1>4. peers \in SUBSET Row /\ r.id \in Nat
  BY <1>1, <1>3 DEF Sound, Tables, Stale, Job, Row
<1>5. PICK j : j = [job[w] EXCEPT !.at = "delete", !.doomed = r.id, !.rows = @ \ {r},
                                  !.peers = peers]
  OBVIOUS
<1>6. /\ j \in Job /\ j.at = "delete" /\ j.device = job[w].device /\ j.detected = job[w].detected
      /\ j.ports = job[w].ports /\ j.rows = job[w].rows \ {r} /\ j.todo = job[w].todo
      /\ j.peers = peers /\ j.dev = job[w].dev /\ j.doomed = r.id
  BY <1>1, <1>4, <1>5 DEF Job
<1>7. job' = [job EXCEPT ![w] = j]
  BY <1>2, <1>3, <1>5
<1>8. job' \in [Worker -> Job] /\ OthersKeep(w) /\ job'[w] = j
  BY <1>6, <1>7, JobWritten
<1>9. QED
  BY <1>1, <1>3, <1>6, <1>8 DEF Frame, SameDevice

LEMMA UnlinkJob ==
    ASSUME Sound, NEW w \in Worker, UnlinkPeer(w)
    PROVE  /\ Frame(w) /\ SameDevice(w) /\ UNCHANGED <<devices, nextId, run>>
           /\ job[w].at = "delete" /\ job'[w].at = "delete" /\ job'[w].dev = job[w].dev
           /\ job'[w].todo = job[w].todo /\ job'[w].doomed = job[w].doomed
           /\ job'[w].rows = job[w].rows
           /\ \E q \in job[w].peers : \E c \in Row :
                 /\ c.id = q.id /\ c.dev = q.dev /\ c.name = q.name /\ c.link = NoId
                 /\ interfaces' = Updated(interfaces, c) /\ job'[w].peers = job[w].peers \ {q}
<1>1. /\ job[w] \in Job /\ SameRun /\ job[w].at = "delete"
      /\ UNCHANGED <<net, quiet, exposed, changes, singles, failures, devices, nextId, run>>
  BY DEF Sound, UnlinkPeer, SameRun
<1>2. PICK q \in job[w].peers : /\ interfaces' = Updated(interfaces, [q EXCEPT !.link = NoId])
                                /\ job' = [job EXCEPT ![w].peers = @ \ {q}]
  BY DEF UnlinkPeer
<1>3. PICK c : c = [q EXCEPT !.link = NoId]
  OBVIOUS
<1>4. c \in Row /\ c.id = q.id /\ c.dev = q.dev /\ c.name = q.name /\ c.link = NoId
  BY <1>1, <1>3 DEF Job, Row, NoId
<1>5. PICK j : j = [job[w] EXCEPT !.peers = @ \ {q}]
  OBVIOUS
<1>6. /\ j \in Job /\ j.at = "delete" /\ j.device = job[w].device /\ j.detected = job[w].detected
      /\ j.ports = job[w].ports /\ j.rows = job[w].rows /\ j.todo = job[w].todo
      /\ j.peers = job[w].peers \ {q} /\ j.dev = job[w].dev /\ j.doomed = job[w].doomed
  BY <1>1, <1>5 DEF Job
<1>7. job' = [job EXCEPT ![w] = j]
  BY <1>2, <1>5
<1>8. job' \in [Worker -> Job] /\ OthersKeep(w) /\ job'[w] = j
  BY <1>6, <1>7, JobWritten
<1>9. QED
  BY <1>1, <1>2, <1>3, <1>4, <1>6, <1>8 DEF Frame, SameDevice

LEMMA DeleteJob ==
    ASSUME Sound, NEW w \in Worker, DeleteInterface(w)
    PROVE  /\ Frame(w) /\ SameCopies(w) /\ SameDevice(w) /\ UNCHANGED <<devices, nextId, run>>
           /\ job[w].at = "delete" /\ job[w].peers = {} /\ job'[w].at = "upsert"
           /\ job'[w].dev = job[w].dev /\ job'[w].todo = job[w].todo
           /\ interfaces' = Deleted(job[w].doomed)
<1>1. /\ job[w] \in Job /\ SameRun /\ job[w].at = "delete"
      /\ UNCHANGED <<net, quiet, exposed, changes, singles, failures, devices, nextId, run>>
  BY DEF Sound, DeleteInterface, SameRun
<1>2. PICK j : j = [job[w] EXCEPT !.at = "upsert", !.doomed = NoId]
  OBVIOUS
<1>3. /\ j \in Job /\ j.at = "upsert" /\ j.device = job[w].device /\ j.detected = job[w].detected
      /\ j.ports = job[w].ports /\ j.rows = job[w].rows /\ j.todo = job[w].todo
      /\ j.peers = job[w].peers /\ j.dev = job[w].dev
  BY <1>1, <1>2 DEF Job, NoId
<1>4. job' = [job EXCEPT ![w] = j]
  BY <1>2 DEF DeleteInterface
<1>5. job' \in [Worker -> Job] /\ OthersKeep(w) /\ job'[w] = j
  BY <1>3, <1>4, JobWritten
<1>6. QED
  BY <1>1, <1>3, <1>5 DEF Frame, SameDevice, SameCopies, DeleteInterface

LEMMA EndJob ==
    ASSUME Sound, NEW w \in Worker, EndIngest(w)
    PROVE  /\ Frame(w) /\ UNCHANGED <<devices, interfaces, nextId, run>>
           /\ job[w].at = "upsert" /\ job[w].todo = {} /\ Stale(w) = {}
           /\ job'[w].at = "off" /\ job'[w].rows = {} /\ job'[w].peers = {}
           /\ w # Single => job'[w].detected /\ job'[w].ports = job[w].ports
<1>1. /\ job[w] \in Job /\ SameRun /\ job[w].at = "upsert" /\ job[w].todo = {} /\ Stale(w) = {}
      /\ UNCHANGED <<net, quiet, exposed, changes, singles, failures, devices, interfaces, nextId, run>>
  BY DEF Sound, EndIngest, SameRun
<1>2. PICK j : j = IF w = Single THEN Idle
                   ELSE [Idle EXCEPT !.detected = TRUE, !.ports = job[w].ports]
  OBVIOUS
<1>3. /\ j \in Job /\ j.at = "off" /\ j.rows = {} /\ j.peers = {}
      /\ w # Single => j.detected /\ j.ports = job[w].ports
  <2>1. job[w].ports \in SUBSET Port
    BY <1>1 DEF Job
  <2>2. CASE w = Single
    BY <1>2, <2>2, IdleJob
  <2>3. CASE w # Single
    BY <1>2, <2>1, <2>3 DEF Idle, Job, Worker, NoId
  <2>4. QED
    BY <2>2, <2>3
<1>4. job' = [job EXCEPT ![w] = j]
  BY <1>2 DEF EndIngest
<1>5. job' \in [Worker -> Job] /\ OthersKeep(w) /\ job'[w] = j
  BY <1>3, <1>4, JobWritten
<1>6. QED
  BY <1>1, <1>3, <1>5 DEF Frame

-----------------------------------------------------------------------------
(* Sound in every execution.                                               *)

SamePort(r, q) == r.id = q.id /\ r.dev = q.dev /\ r.name = q.name

\* Rows are new, or what they were up to their links.
Grows ==
    /\ devices \subseteq devices' /\ nextId' \in Nat /\ nextId <= nextId'
    /\ \A q \in interfaces' : q.id >= nextId \/ \E r \in interfaces : SamePort(r, q)

LEMMA GrowsSame ==
    ASSUME Tables, UNCHANGED <<devices, interfaces, nextId>>
    PROVE  Tables' /\ Grows
BY DEF Tables, Grows, SamePort, Ids

LEMMA CopyGrows ==
    ASSUME Tables, Grows, NEW q, CopyOK(interfaces, q)
    PROVE  CopyOK(interfaces, q)'
BY DEF Tables, Grows, SamePort, CopyOK, Row

LEMMA UpdatedTable ==
    ASSUME Tables, NEW c, CopyOK(interfaces, c), c.id # NoId,
           interfaces' = Updated(interfaces, c), UNCHANGED <<devices, nextId>>
    PROVE  Tables' /\ Grows /\ \A r \in interfaces : \E q \in interfaces' : SamePort(r, q)
<1>1. CASE c.id \in Ids(interfaces) /\ c.link \in Ids(interfaces) \cup {NoId}
  <2>1. interfaces' = {r \in interfaces : r.id # c.id} \cup {c}
    BY <1>1 DEF Updated
  <2>2. PICK r0 \in interfaces : r0.id = c.id
    BY <1>1 DEF Ids
  <2>3. c \in Row /\ c.id < nextId /\ c.dev = r0.dev /\ c.name = r0.name
    BY <2>2 DEF CopyOK
  <2>4. Grows
    BY <2>1, <2>2, <2>3 DEF Tables, Grows, SamePort
  <2>5. \A r \in interfaces : \E q \in interfaces' : SamePort(r, q)
    BY <2>1, <2>2, <2>3 DEF Tables, SamePort
  <2>6. Tables'
    <3>1. interfaces' \subseteq Row /\ \A r, q \in interfaces' : r.id = q.id => r = q
      BY <2>1, <2>3 DEF Tables
    <3>2. \A r \in interfaces' : r.id # NoId /\ r.id < nextId /\ r.dev \in Ids(devices)
      BY <2>1, <2>2, <2>3 DEF Tables
    <3>3. QED
      BY <3>1, <3>2 DEF Tables, Ids
  <2>7. QED
    BY <2>4, <2>5, <2>6
<1>2. CASE ~(c.id \in Ids(interfaces) /\ c.link \in Ids(interfaces) \cup {NoId})
  BY <1>2, GrowsSame DEF Updated, SamePort
<1>3. QED
  BY <1>1, <1>2

LEMMA InsertedTable ==
    ASSUME Tables, NEW new \in Row, new.id = nextId, new.dev \in Ids(devices),
           interfaces' = interfaces \cup {new}, nextId' = nextId + 1, UNCHANGED devices
    PROVE  Tables' /\ Grows
<1>1. nextId \in Nat /\ nextId' \in Nat /\ nextId < nextId' /\ nextId # NoId /\ nextId' # NoId
  BY DEF Tables, NoId
<1>2. interfaces' \subseteq Row /\ \A r, q \in interfaces' : r.id = q.id => r = q
  BY <1>1 DEF Tables
<1>3. \A r \in interfaces' : r.id # NoId /\ r.id < nextId' /\ r.dev \in Ids(devices)
  BY <1>1 DEF Tables, Row
<1>4. Tables'
  BY <1>1, <1>2, <1>3 DEF Tables, Ids
<1>5. Grows
  BY <1>1 DEF Grows, SamePort
<1>6. QED
  BY <1>4, <1>5

LEMMA DeletedTable ==
    ASSUME Tables, NEW id, interfaces' = Deleted(id), UNCHANGED <<devices, nextId>>
    PROVE  Tables' /\ Grows
BY DEF Tables, Grows, SamePort, Ids, Deleted

\* A second row of a name may be added: ids stay unique.
LEMMA CreatedTable ==
    ASSUME Tables, NEW new \in DeviceRow, new.id = Cardinality(devices) + 1,
           devices' = devices \cup {new}, UNCHANGED <<interfaces, nextId>>
    PROVE  Tables' /\ Grows
<1>1. Cardinality(devices) \in Nat /\ new \notin devices
  BY FS_CardinalityType DEF Tables
<1>2. IsFiniteSet(devices') /\ Cardinality(devices') = Cardinality(devices) + 1
  BY <1>1, FS_AddElement DEF Tables
<1>3. \A d \in devices' : d.id \in 1..Cardinality(devices')
  BY <1>1, <1>2 DEF Tables
<1>4. \A d, e \in devices' : d.id = e.id => d = e
  BY <1>1 DEF Tables
<1>5. \A r \in interfaces : r.dev \in Ids(devices')
  BY DEF Tables, Ids
<1>6. devices' \subseteq DeviceRow
  BY DEF Tables
<1>7. Tables'
  BY <1>2, <1>3, <1>4, <1>5, <1>6 DEF Tables
<1>8. nextId \in Nat /\ interfaces' = interfaces /\ nextId' = nextId
  BY DEF Tables
<1>9. QED
  BY <1>7, <1>8 DEF Grows, SamePort

LEMMA OthersSound ==
    ASSUME Sound, Grows, NEW v \in Worker, job'[v] = job[v]
    PROVE  JobSound(v)'
<1>1. \A q \in job[v].rows \cup job[v].peers : CopyOK(interfaces, q)' /\ q.id # NoId
  BY CopyGrows DEF Sound, JobSound
<1>2. \A dev, name : Known(dev, name) => Known(dev, name)'
  BY DEF Grows, Known
<1>3. job[v].at = "delete" => job[v].doomed < nextId'
  <2>1. job[v].doomed \in Nat
    BY DEF Sound, Job
  <2>2. QED
    BY <2>1 DEF Sound, JobSound, Tables, Grows
<1>4. QED
  BY <1>1, <1>2, <1>3 DEF Sound, JobSound

\* Threads of a full run step in its first phase; a single-device run's may at any time.
LEMMA RunStaysSound ==
    ASSUME Sound, Grows, NEW w \in Worker, Frame(w), job[w].at # "off"
    PROVE  RunSound'
<1>1. \A q \in run'.rows : CopyOK(interfaces, q)' /\ Known(q.dev, run.device)'
  <2>1. \A q \in run.rows : CopyOK(interfaces, q)'
    BY CopyGrows DEF Sound, RunSound
  <2>2. QED
    BY <2>1 DEF Sound, RunSound, Frame, SameRun, Grows, Known
<1>2. CASE run.phase = "ingest"
  BY <1>1, <1>2 DEF Sound, RunSound, Frame, SameRun
<1>3. CASE run.phase # "ingest"
  <2>1. w \notin Device
    BY <1>3 DEF Sound, RunSound
  <2>2. \A d \in Device : job'[d] = job[d]
    BY <2>1 DEF Frame, OthersKeep, Worker
  <2>3. Detected' = Detected
    BY <2>2 DEF Detected
  <2>4. QED
    BY <1>1, <2>2, <2>3 DEF Sound, RunSound, Frame, SameRun
<1>4. QED
  BY <1>2, <1>3

LEMMA ThreadStaysSound ==
    ASSUME Sound, NEW w \in Worker, Frame(w), job[w].at # "off",
           Tables' /\ Grows, JobSound(w)'
    PROVE  Sound'
<1>1. \A v \in Worker : JobSound(v)'
  BY OthersSound DEF Frame, OthersKeep
<1>2. QED
  BY <1>1, RunStaysSound DEF Sound, Frame, SameRun

LEMMA ThreadSound ==
    ASSUME Sound, NEW w \in Worker, ThreadStep(w)
    PROVE  Sound' /\ Frame(w) /\ Grows /\ job[w].at # "off"
<1>1. JobSound(w) /\ Tables
  BY DEF Sound
<1>2. \A q : CopyOK(interfaces, q) /\ Grows => CopyOK(interfaces, q)'
  BY <1>1, CopyGrows
<1>3. CASE Collect(w)
  <2>1. job[w].at = "collect" /\ job[w].rows = {} /\ job[w].peers = {}
    BY <1>1, <1>3 DEF Collect, JobSound
  <2>2. Tables' /\ Grows /\ Frame(w)
    BY <1>1, <1>3, CollectJob, GrowsSame
  <2>3. JobSound(w)'
    BY <1>1, <1>3, <2>1, CollectJob, IdleJob DEF JobSound, SameCopies
  <2>4. QED
    BY <2>1, <2>2, <2>3, ThreadStaysSound
<1>4. CASE FindDevice(w)
  <2>1. job[w].at = "find" /\ job[w].rows = {} /\ job[w].peers = {}
    BY <1>1, <1>4 DEF FindDevice, JobSound
  <2>2. Tables' /\ Grows /\ Frame(w)
    BY <1>1, <1>4, FindJob, GrowsSame
  <2>3. job'[w].at = "load" => \E e \in devices' : e.id = job'[w].dev /\ e.name = job[w].device
    BY <1>4, FindJob DEF DeviceRows, Known
  <2>4. JobSound(w)'
    BY <1>1, <1>4, <2>1, <2>3, FindJob DEF JobSound, Known, SameCopies, SameDevice
  <2>5. QED
    BY <2>1, <2>2, <2>4, ThreadStaysSound
<1>5. CASE CreateDevice(w)
  <2>1. job[w].at = "create" /\ job[w].rows = {} /\ job[w].peers = {}
    BY <1>1, <1>5 DEF CreateDevice, JobSound
  <2>2. PICK new \in DeviceRow :
           /\ new.id = Cardinality(devices) + 1 /\ new.name = job[w].device
           /\ devices' = devices \cup {new} /\ job'[w].dev = new.id
    BY <1>5, CreateJob
  <2>3. Tables' /\ Grows /\ Frame(w)
    BY <1>1, <1>5, <2>2, CreateJob, CreatedTable
  <2>4. \E e \in devices' : e.id = job'[w].dev /\ e.name = job[w].device
    BY <2>2 DEF Known
  <2>5. JobSound(w)'
    BY <1>1, <1>5, <2>1, <2>4, CreateJob DEF JobSound, Known, SameCopies, SameDevice
  <2>6. QED
    BY <2>1, <2>3, <2>5, ThreadStaysSound
<1>6. CASE LoadInterfaces(w)
  <2>1. Tables' /\ Grows /\ Frame(w) /\ job[w].at = "load" /\ job[w].peers = {}
    BY <1>1, <1>6, LoadJob, GrowsSame DEF JobSound
  <2>2. \A q \in job'[w].rows : q.dev = job[w].dev /\ CopyOK(interfaces, q) /\ q.id # NoId
    BY <1>1, <1>6, LoadJob DEF InterfacesOf, Tables, CopyOK
  <2>3. \E e \in devices' : e.id = job[w].dev /\ e.name = job[w].device
    BY <1>1, <2>1 DEF JobSound, Known, Grows
  <2>4. JobSound(w)'
    BY <1>1, <1>2, <1>6, <2>1, <2>2, <2>3, LoadJob DEF JobSound, Known, SameDevice
  <2>5. QED
    BY <2>1, <2>4, ThreadStaysSound
<1>7. CASE UpsertInterface(w)
  <2>1. Frame(w) /\ job[w].at = "upsert" /\ Known(job[w].dev, job[w].device) /\ job[w].peers = {}
    BY <1>1, <1>7, UpsertJob DEF JobSound
  <2>2. PICK p \in job[w].todo :
           /\ job'[w].todo = job[w].todo \ {p}
           /\ \/ /\ nextId' = nextId + 1
                 /\ \E new \in Row :
                       /\ new.id = nextId /\ new.dev = job[w].dev /\ new.name = p
                       /\ new.link = NoId /\ interfaces' = interfaces \cup {new}
              \/ /\ nextId' = nextId
                 /\ \E q \in job[w].rows : q.name = p /\ interfaces' = Updated(interfaces, q)
    BY <1>7, UpsertJob
  <2>3. job[w].dev \in Ids(devices)
    BY <2>1 DEF Known, Ids
  <2>4. Tables' /\ Grows
    <3>1. CASE nextId' = nextId + 1
      BY <1>1, <1>7, <2>2, <2>3, <3>1, UpsertJob, InsertedTable DEF Tables
    <3>2. CASE nextId' = nextId
      BY <1>1, <1>7, <2>2, <3>2, UpsertJob, UpdatedTable DEF Tables, JobSound
    <3>3. QED
      BY <2>2, <3>1, <3>2
  <2>5. \E e \in devices' : e.id = job[w].dev /\ e.name = job[w].device
    BY <2>1, <2>4 DEF Known, Grows
  <2>6. JobSound(w)'
    BY <1>1, <1>2, <1>7, <2>1, <2>2, <2>4, <2>5, UpsertJob DEF JobSound, Known, SameCopies, SameDevice
  <2>7. QED
    BY <2>1, <2>4, <2>6, ThreadStaysSound
<1>8. CASE BeginDelete(w)
  <2>1. Tables' /\ Grows /\ Frame(w) /\ job[w].at = "upsert"
    BY <1>1, <1>8, BeginDeleteJob, GrowsSame
  <2>2. PICK r \in Stale(w) :
           /\ job'[w].doomed = r.id /\ job'[w].rows = job[w].rows \ {r}
           /\ job'[w].peers = {q \in interfaces : q.link = r.id}
    BY <1>8, BeginDeleteJob
  <2>3. r.id # NoId /\ r.id < nextId'
    BY <1>1, <1>8, BeginDeleteJob DEF Stale, JobSound, CopyOK
  <2>4. \A q \in job'[w].peers : CopyOK(interfaces, q) /\ q.id # NoId
    BY <1>1, <2>2 DEF Tables, CopyOK
  <2>5. \E e \in devices' : e.id = job[w].dev /\ e.name = job[w].device
    BY <1>1, <2>1 DEF JobSound, Known, Grows
  <2>6. JobSound(w)'
    BY <1>1, <1>2, <1>8, <2>1, <2>2, <2>3, <2>4, <2>5, BeginDeleteJob DEF JobSound, Known, SameDevice
  <2>7. QED
    BY <2>1, <2>6, ThreadStaysSound
<1>9. CASE UnlinkPeer(w)
  <2>1. Frame(w) /\ job[w].at = "delete"
    BY <1>9, UnlinkJob
  <2>2. PICK q \in job[w].peers, c \in Row :
           /\ c.id = q.id /\ c.dev = q.dev /\ c.name = q.name /\ c.link = NoId
           /\ interfaces' = Updated(interfaces, c) /\ job'[w].peers = job[w].peers \ {q}
    BY <1>9, UnlinkJob
  <2>3. CopyOK(interfaces, c) /\ c.id # NoId
    BY <1>1, <2>2 DEF JobSound, CopyOK
  <2>4. Tables' /\ Grows
    BY <1>1, <1>9, <2>2, <2>3, UnlinkJob, UpdatedTable
  <2>5. \E e \in devices' : e.id = job[w].dev /\ e.name = job[w].device
    BY <1>1, <2>1, <2>4 DEF JobSound, Known, Grows
  <2>6. JobSound(w)'
    BY <1>1, <1>2, <1>9, <2>1, <2>2, <2>4, <2>5, UnlinkJob DEF JobSound, Known, SameDevice
  <2>7. QED
    BY <2>1, <2>4, <2>6, ThreadStaysSound
<1>10. CASE DeleteInterface(w)
  <2>1. Frame(w) /\ Tables' /\ Grows /\ job[w].at = "delete"
    BY <1>1, <1>10, DeleteJob, DeletedTable
  <2>2. \E e \in devices' : e.id = job[w].dev /\ e.name = job[w].device
    BY <1>1, <2>1 DEF JobSound, Known, Grows
  <2>3. JobSound(w)'
    BY <1>1, <1>2, <1>10, <2>1, <2>2, DeleteJob DEF JobSound, Known, SameDevice, SameCopies
  <2>4. QED
    BY <2>1, <2>3, ThreadStaysSound
<1>11. CASE EndIngest(w)
  <2>1. Frame(w) /\ Tables' /\ Grows /\ job[w].at = "upsert"
    BY <1>1, <1>11, EndJob, GrowsSame
  <2>2. JobSound(w)'
    BY <1>11, EndJob DEF JobSound
  <2>3. QED
    BY <2>1, <2>2, ThreadStaysSound
<1>12. QED
  BY <1>3, <1>4, <1>5, <1>6, <1>7, <1>8, <1>9, <1>10, <1>11 DEF ThreadStep

\* Writing a copy back gives the row of its id its link, and changes nothing else.
TableOK(table) ==
    /\ table \subseteq Row
    /\ \A r \in table : r.id # NoId /\ r.id < nextId /\ r.dev \in Ids(devices)
    /\ \A r, q \in table : r.id = q.id => r = q

Relinked(table, table2, id, l) ==
    /\ \A r \in table : \E q \in table2 : SamePort(r, q)
    /\ \A q \in table2 : \E r \in table : SamePort(r, q) /\ q.link = IF r.id = id THEN l ELSE r.link

LEMMA RelinkedRow ==
    ASSUME NEW table, TableOK(table), NEW c, CopyOK(table, c), NEW l \in Ids(table) \cup {NoId}
    PROVE  LET table2 == Updated(table, [c EXCEPT !.link = l])
           IN  TableOK(table2) /\ Relinked(table, table2, c.id, l)
<1>1. l \in Nat
  BY DEF TableOK, Row, Ids, NoId
<1>2. PICK b : b = [c EXCEPT !.link = l]
  OBVIOUS
<1>3. b \in Row /\ b.id = c.id /\ b.dev = c.dev /\ b.name = c.name /\ b.link = l
  BY <1>1, <1>2 DEF CopyOK, Row
<1>4. CASE c.id \in Ids(table)
  <2>1. Updated(table, b) = {r \in table : r.id # b.id} \cup {b}
    BY <1>3, <1>4 DEF Updated
  <2>2. PICK r0 \in table : r0.id = c.id
    BY <1>4 DEF Ids
  <2>3. SamePort(r0, b)
    BY <1>3, <2>2 DEF CopyOK, SamePort
  <2>4. \A q \in Updated(table, b) : \E r \in table :
            SamePort(r, q) /\ q.link = IF r.id = c.id THEN l ELSE r.link
    BY <1>3, <2>1, <2>2, <2>3 DEF SamePort
  <2>5. \A r \in table : \E q \in Updated(table, b) : SamePort(r, q)
    BY <1>3, <2>1, <2>2, <2>3 DEF TableOK, SamePort
  <2>6. TableOK(Updated(table, b))
    BY <1>3, <2>1, <2>2, <2>3 DEF TableOK, SamePort
  <2>7. QED
    BY <1>2, <2>4, <2>5, <2>6 DEF Relinked
<1>5. CASE c.id \notin Ids(table)
  <2>1. Updated(table, b) = table
    BY <1>3, <1>5 DEF Updated
  <2>2. QED
    BY <1>2, <1>5, <2>1 DEF Relinked, SamePort, Ids
<1>6. QED
  BY <1>4, <1>5

\* The former peer is one row at most.
LEMMA ForgottenRow ==
    ASSUME TableOK(interfaces), NEW table, TableOK(table), NEW id,
           NEW l0, Relinked(interfaces, table, id, l0), NEW l,
           NEW former, former = {f \in interfaces : f.id = l}
    PROVE  LET table2 == Forgotten(table, former)
           IN  TableOK(table2) /\ (table2 = table \/ Relinked(table, table2, l, NoId))
<1>1. CASE run.stable \/ former = {}
  BY <1>1 DEF Forgotten
<1>2. CASE ~(run.stable \/ former = {})
  <2>1. PICK f \in interfaces : former = {f} /\ f.id = l
    BY <1>2 DEF TableOK
  <2>2. CopyOK(table, f)
    BY DEF TableOK, Relinked, SamePort, CopyOK
  <2>3. Forgotten(table, former) = Updated(table, [f EXCEPT !.link = NoId])
    BY <1>2, <2>1 DEF Forgotten
  <2>4. QED
    BY <2>1, <2>2, <2>3, RelinkedRow
<1>3. QED
  BY <1>1, <1>2

\* What one row's turn in ingest_links may write.
LinkOutcome(r) ==
    LET former == {f \in interfaces : f.id = r.link}
    IN  \/ UNCHANGED interfaces
        \/ interfaces' = Cleared(r)
        \/ interfaces' = Forgotten(interfaces, former)
        \/ \E t \in interfaces :
              interfaces' = Forgotten(Updated(interfaces, [r EXCEPT !.link = t.id]), former)

LEMMA LinkOutcomes ==
    ASSUME IngestLink
    PROVE  \E r \in run.rows : run' = [run EXCEPT !.rows = @ \ {r}] /\ LinkOutcome(r)
BY DEF IngestLink, LinkOutcome, InterfaceByName, InterfacesOf

\* Links are all that ingest_links writes.
SamePorts(table, table2) ==
    /\ \A r \in table : \E q \in table2 : SamePort(r, q)
    /\ \A q \in table2 : \E r \in table : SamePort(r, q)

LEMMA LinkTables ==
    ASSUME Sound, IngestLink
    PROVE  TableOK(interfaces') /\ SamePorts(interfaces, interfaces')
<1>1. PICK r \in run.rows : LinkOutcome(r)
  BY LinkOutcomes
<1>2. TableOK(interfaces) /\ CopyOK(interfaces, r)
  BY DEF Sound, RunSound, Tables, TableOK
<1>3. SamePorts(interfaces, interfaces) /\ Relinked(interfaces, interfaces, NoId, NoId)
  BY <1>2 DEF SamePorts, SamePort, Relinked, TableOK
<1>4. \A table, id, l : Relinked(interfaces, table, id, l) => SamePorts(interfaces, table)
  BY DEF Relinked, SamePorts
<1> DEFINE former == {f \in interfaces : f.id = r.link}
<1>5. CASE UNCHANGED interfaces
  BY <1>2, <1>3, <1>5
<1>6. CASE interfaces' = Cleared(r)
  BY <1>2, <1>3, <1>4, <1>6, RelinkedRow DEF Cleared
<1>7. CASE interfaces' = Forgotten(interfaces, former)
  BY <1>2, <1>3, <1>4, <1>7, ForgottenRow
<1>8. ASSUME NEW t \in interfaces,
             interfaces' = Forgotten(Updated(interfaces, [r EXCEPT !.link = t.id]), former)
      PROVE  TableOK(interfaces') /\ SamePorts(interfaces, interfaces')
  <2>1. PICK table : table = Updated(interfaces, [r EXCEPT !.link = t.id])
    OBVIOUS
  <2>2. TableOK(table) /\ Relinked(interfaces, table, r.id, t.id)
    BY <1>2, <2>1, RelinkedRow DEF Ids
  <2>3. TableOK(interfaces') /\ (interfaces' = table \/ Relinked(table, interfaces', r.link, NoId))
    BY <1>2, <1>8, <2>1, <2>2, ForgottenRow
  <2>4. QED
    BY <2>2, <2>3 DEF Relinked, SamePorts, SamePort
<1>9. QED
  BY <1>1, <1>5, <1>6, <1>7, <1>8 DEF LinkOutcome

LEMMA LinkSound ==
    ASSUME Sound, IngestLink
    PROVE  Sound' /\ Grows
<1>1. PICK r \in run.rows : run' = [run EXCEPT !.rows = @ \ {r}]
  BY LinkOutcomes
<1>2. UNCHANGED <<net, devices, nextId, job>> /\ run \in Run
  BY DEF IngestLink, Sound
<1>3. run' \in Run /\ run'.rows = run.rows \ {r} /\ run'.phase = run.phase
      /\ run'.todo = run.todo /\ run'.device = run.device
  BY <1>1, <1>2 DEF Run
<1>4. Tables' /\ Grows
  BY <1>2, LinkTables DEF Sound, Tables, TableOK, SamePorts, Grows
<1>5. \A v \in Worker : JobSound(v)'
  BY <1>2, <1>4, OthersSound
<1>6. \A q \in run.rows : CopyOK(interfaces, q)' /\ Known(q.dev, run.device)'
  <2>1. \A q \in run.rows : CopyOK(interfaces, q)'
    BY <1>4, CopyGrows DEF Sound, RunSound
  <2>2. \A q \in run.rows : Known(q.dev, run.device)'
    BY <1>2, <1>3 DEF Sound, RunSound, Known
  <2>3. QED
    BY <2>1, <2>2
<1>7. Detected' = Detected
  BY <1>2 DEF Detected
<1>8. RunSound'
  BY <1>2, <1>3, <1>6, <1>7 DEF Sound, RunSound
<1>9. QED
  BY <1>2, <1>3, <1>4, <1>5, <1>8 DEF Sound

\* What is between the crawl and the links, and before and after them.
LEMMA RunSteps ==
    ASSUME Sound, StartRun \/ BuildConnections \/ LoadLinks \/ FinishRun
    PROVE  Sound'
<1>1. UNCHANGED <<net, devices, interfaces, nextId>> /\ run \in Run /\ Single \notin Device
      /\ job \in [Worker -> Job]
  BY SingleAssumption DEF Sound, StartRun, BuildConnections, LoadLinks, FinishRun
<1>2. Tables' /\ Grows
  BY <1>1, GrowsSame DEF Sound
<1>3. CASE StartRun
  <2>1. PICK s \in StableModes : run' = [NoRun EXCEPT !.phase = "ingest", !.stable = s,
                                                      !.calm = job[Single].at = "off"]
    BY <1>3 DEF StartRun
  <2>2. run' \in Run /\ run'.phase = "ingest" /\ run'.rows = {}
    BY <2>1, StableModesAssumption DEF NoRun, Run, Worker
  <2>3. \A d \in Device : /\ Collecting(d) \in Job /\ Collecting(d).at = "collect"
                          /\ Collecting(d).device = d /\ Collecting(d).rows = {}
                          /\ Collecting(d).peers = {}
    BY DEF Collecting, Idle, Job, Worker, NoId
  <2>4. /\ job'[Single] = job[Single] /\ \A d \in Device : job'[d] = Collecting(d)
        /\ job' \in [Worker -> Job]
    BY <1>1, <1>3, <2>3 DEF StartRun, Worker
  <2>5. \A d \in Device : JobSound(d)'
    BY <2>3, <2>4 DEF JobSound
  <2>6. JobSound(Single)'
    BY <1>2, <2>4, OthersSound DEF Worker
  <2>7. QED
    BY <1>1, <1>2, <2>2, <2>4, <2>5, <2>6 DEF Sound, RunSound, Worker
<1>4. CASE FinishRun
  <2>1. NoRun \in Run /\ NoRun.phase = "idle" /\ NoRun.rows = {}
    BY DEF NoRun, Run, Worker
  <2>2. /\ job'[Single] = job[Single] /\ \A d \in Device : job'[d] = Idle
        /\ job' \in [Worker -> Job]
    BY <1>1, <1>4, IdleJob DEF FinishRun, Worker
  <2>3. \A d \in Device : JobSound(d)' /\ job'[d].at = "off"
    BY <2>2, IdleJob DEF JobSound
  <2>4. JobSound(Single)'
    BY <1>2, <2>2, OthersSound DEF Worker
  <2>5. QED
    BY <1>1, <1>2, <1>4, <2>1, <2>2, <2>3, <2>4 DEF Sound, RunSound, Worker, FinishRun
<1>5. CASE BuildConnections
  <2>1. run' = [run EXCEPT !.phase = "links", !.todo = Detected] /\ UNCHANGED job
        /\ run.phase = "ingest" /\ \A d \in Device : job[d].at = "off"
    BY <1>5 DEF BuildConnections
  <2>2. run' \in Run /\ run'.phase = "links" /\ run'.todo = Detected /\ run'.rows = run.rows
    BY <1>1, <2>1 DEF Run, Detected
  <2>3. run'.rows = {} /\ Detected' = Detected
    BY <2>1, <2>2 DEF Sound, RunSound, Detected
  <2>4. \A v \in Worker : JobSound(v)'
    BY <1>2, <2>1, OthersSound
  <2>5. RunSound'
    BY <2>1, <2>2, <2>3 DEF RunSound
  <2>6. QED
    BY <1>1, <1>2, <2>1, <2>2, <2>4, <2>5 DEF Sound
<1>6. CASE LoadLinks
  <2>1. PICK d \in run.todo : \E r \in DeviceRows(d) :
            run' = [run EXCEPT !.todo = @ \ {d}, !.device = d, !.rows = InterfacesOf(r.id)]
    BY <1>6 DEF LoadLinks
  <2>2. PICK r \in DeviceRows(d) :
            run' = [run EXCEPT !.todo = @ \ {d}, !.device = d, !.rows = InterfacesOf(r.id)]
    BY <2>1
  <2>3. InterfacesOf(r.id) \in SUBSET Row /\ d \in Device
    BY <1>1 DEF InterfacesOf, Sound, Tables, Run
  <2>4. /\ run' \in Run /\ run'.phase = run.phase /\ run'.todo = run.todo \ {d}
        /\ run'.device = d /\ run'.rows = InterfacesOf(r.id)
    BY <1>1, <2>2, <2>3 DEF Run, Worker
  <2>5. UNCHANGED job /\ run.phase = "links" /\ Detected' = Detected
    BY <1>6 DEF LoadLinks, Detected
  <2>6. \A v \in Worker : JobSound(v)'
    BY <1>2, <2>5, OthersSound
  <2>7. \A q \in InterfacesOf(r.id) : CopyOK(interfaces, q) /\ Known(q.dev, d)
    BY DEF InterfacesOf, Sound, Tables, CopyOK, Known, DeviceRows
  <2>8. \A q \in run'.rows : CopyOK(interfaces, q)' /\ Known(q.dev, run.device)'
    BY <1>1, <2>4, <2>7 DEF CopyOK, Known
  <2>9. \A q, q2 \in run'.rows : q.id = q2.id => q = q2
    BY <2>4 DEF InterfacesOf, Sound, Tables
  <2>10. RunSound'
    BY <2>1, <2>4, <2>5, <2>8, <2>9 DEF Sound, RunSound
  <2>11. QED
    BY <1>1, <1>2, <2>4, <2>5, <2>6, <2>10 DEF Sound
<1>7. QED
  BY <1>3, <1>4, <1>5, <1>6

LEMMA OutsideSteps ==
    ASSUME Sound, ChangeNetwork \/ StartSingle
    PROVE  Sound' /\ ~run'.calm /\ quiet' = 0
<1>1. run \in Run /\ Single \notin Device /\ job \in [Worker -> Job]
      /\ UNCHANGED <<devices, interfaces, nextId>> /\ run' = [run EXCEPT !.calm = FALSE]
      /\ quiet' = 0
  BY SingleAssumption DEF Sound, ChangeNetwork, StartSingle, Disturb
<1>2. /\ run' \in Run /\ run'.phase = run.phase /\ run'.rows = run.rows /\ ~run'.calm
      /\ run'.todo = run.todo /\ run'.device = run.device
  BY <1>1 DEF Run
<1>3. Tables' /\ Grows
  BY <1>1, GrowsSame DEF Sound
<1>4. CASE ChangeNetwork
  <2>1. net' \in Network /\ job' = job
    BY <1>4, NetworksAssumption DEF ChangeNetwork
  <2>2. \A v \in Worker : JobSound(v)'
    BY <1>3, <2>1, OthersSound
  <2>3. RunSound'
    BY <1>1, <1>2, <2>1 DEF Sound, RunSound, CopyOK, Known, Detected
  <2>4. QED
    BY <1>1, <1>2, <1>3, <2>1, <2>2, <2>3 DEF Sound
<1>5. CASE StartSingle
  <2>1. PICK d \in Targets : job' = [job EXCEPT ![Single] = Collecting(d)]
    BY <1>5 DEF StartSingle
  <2>2. /\ Collecting(d) \in Job /\ Collecting(d).at = "collect" /\ Collecting(d).device \in Device
        /\ Collecting(d).rows = {} /\ Collecting(d).peers = {}
    BY TargetsAssumption DEF Collecting, Idle, Job, Worker, NoId
  <2>3. job' \in [Worker -> Job] /\ job'[Single] = Collecting(d)
        /\ \A v \in Device : job'[v] = job[v]
    BY <1>1, <2>1, <2>2 DEF Worker
  <2>4. JobSound(Single)'
    BY <1>1, <2>2, <2>3 DEF JobSound
  <2>5. \A v \in Device : JobSound(v)'
    BY <1>3, <2>3, OthersSound DEF Worker
  <2>6. RunSound'
    BY <1>1, <1>2, <2>3 DEF Sound, RunSound, CopyOK, Known, Detected
  <2>7. UNCHANGED net
    BY <1>5 DEF StartSingle
  <2>8. QED
    BY <1>1, <1>2, <1>3, <2>3, <2>4, <2>5, <2>6, <2>7 DEF Sound, Worker
<1>6. QED
  BY <1>4, <1>5

\* A failed read leaves a thread without copies.
LEMMA NothingSteps ==
    ASSUME Sound, NEW w \in Worker, FindNothing(w) \/ LoadNothing(w)
    PROVE  /\ Sound' /\ ~run'.calm /\ quiet' = 0 /\ exposed' /\ OthersKeep(w)
           /\ UNCHANGED <<net, devices, interfaces, nextId, singles>> /\ run'.phase = run.phase
           /\ job[w].at # "off" /\ job'[w].at \in {"create", "upsert"}
           /\ job'[w].rows = {} /\ job'[w].peers = {}
<1>1. /\ run \in Run /\ job[w] \in Job /\ job[w].at \in {"find", "load"}
      /\ UNCHANGED <<net, devices, interfaces, nextId, singles>>
      /\ run' = [run EXCEPT !.calm = FALSE] /\ quiet' = 0 /\ exposed'
  BY DEF Sound, FindNothing, LoadNothing, FailRead, Disturb
<1>2. /\ run' \in Run /\ run'.phase = run.phase /\ run'.rows = run.rows /\ ~run'.calm
      /\ run'.todo = run.todo /\ run'.device = run.device
  BY <1>1 DEF Run
<1>3. Tables' /\ Grows /\ JobSound(w)
  BY <1>1, GrowsSame DEF Sound
<1>4. PICK j \in Job :
         /\ job' = [job EXCEPT ![w] = j] /\ j.device = job[w].device
         /\ j.detected = job[w].detected /\ j.rows = {} /\ j.peers = {} /\ j.dev = job[w].dev
         /\ \/ j.at = "create"
            \/ job[w].at = "load" /\ j.at = "upsert" /\ j.todo = j.ports
  <2>1. job[w].rows = {} /\ job[w].peers = {}
    BY <1>1, <1>3 DEF JobSound
  <2>2. CASE FindNothing(w)
    <3>1. PICK j : j = [job[w] EXCEPT !.at = "create"]
      OBVIOUS
    <3>2. /\ j \in Job /\ j.at = "create" /\ j.device = job[w].device /\ j.dev = job[w].dev
          /\ j.detected = job[w].detected /\ j.rows = {} /\ j.peers = {}
      BY <1>1, <2>1, <3>1 DEF Job
    <3>3. job' = [job EXCEPT ![w] = j]
      BY <2>2, <3>1 DEF FindNothing
    <3>4. QED
      BY <3>2, <3>3
  <2>3. CASE LoadNothing(w)
    <3>1. PICK j : j = [job[w] EXCEPT !.at = "upsert", !.rows = {}, !.todo = job[w].ports]
      OBVIOUS
    <3>2. /\ j \in Job /\ j.at = "upsert" /\ j.device = job[w].device /\ j.dev = job[w].dev
          /\ j.detected = job[w].detected /\ j.rows = {} /\ j.peers = {} /\ j.todo = j.ports
      BY <1>1, <2>1, <3>1 DEF Job
    <3>3. job' = [job EXCEPT ![w] = j] /\ job[w].at = "load"
      BY <2>3, <3>1 DEF LoadNothing
    <3>4. QED
      BY <3>2, <3>3
  <2>4. QED
    BY <2>2, <2>3
<1>5. job' \in [Worker -> Job] /\ OthersKeep(w) /\ job'[w] = j
  BY <1>4, JobWritten
<1>6. JobSound(w)'
  BY <1>1, <1>3, <1>4, <1>5 DEF JobSound, Known
<1>7. \A v \in Worker : JobSound(v)'
  BY <1>3, <1>5, <1>6, OthersSound DEF OthersKeep
<1>8. Detected' = Detected
  BY <1>4, <1>5 DEF Detected, OthersKeep, Worker
<1>9. \A d \in Device : job[d].at = "off" => job'[d].at = "off"
  BY <1>1, <1>5 DEF OthersKeep, Worker
<1>10. RunSound'
  BY <1>1, <1>2, <1>8, <1>9 DEF Sound, RunSound, CopyOK, Known
<1>11. QED
  BY <1>1, <1>2, <1>3, <1>4, <1>5, <1>7, <1>10 DEF Sound

LEMMA SoundStep == Sound /\ [Next]_vars => Sound'
<1> SUFFICES ASSUME Sound, [Next]_vars PROVE Sound'
  OBVIOUS
<1>1. CASE UNCHANGED vars
  <2>1. UNCHANGED <<net, devices, interfaces, nextId, job, run>>
    BY <1>1 DEF vars
  <2>2. QED
    BY <2>1 DEF Sound, Tables, RunSound, JobSound, CopyOK, Known, Detected
<1>2. QED
  BY <1>1, ThreadSound, NothingSteps, RunSteps, OutsideSteps, LinkSound DEF Next

-----------------------------------------------------------------------------
(* One row per device and port.  A thread inserts what it did not find;    *)
(* that it is still not there rests on each device having one thread, on   *)
(* the reads having succeeded, and on writes going back to the row they    *)
(* were read from.                                                         *)

Alone ==
    \A v, w \in Worker :
        v # w /\ job[v].at # "off" /\ job[w].at # "off" => job[v].device # job[w].device

\* What a thread is about to insert is not there.
Heedful(w) ==
    /\ job[w].at = "create" => \A e \in devices : e.name # job[w].device
    /\ job[w].at \in {"upsert", "delete"} =>
          \A r \in interfaces : r.dev = job[w].dev /\ r.name \in job[w].todo =>
              \E q \in job[w].rows : q.name = r.name

OnePort == \A r, q \in interfaces : r.dev = q.dev /\ r.name = q.name => r = q

Careful == OneRow /\ OnePort /\ Alone /\ \A w \in Worker : Heedful(w)

UInv == ~exposed => Careful

LEMMA UniqueInitial == Init => UInv
<1> SUFFICES ASSUME Init PROVE Careful
  BY DEF UInv
<1>1. OneRow /\ OnePort
  BY StoredAssumption DEF Init, OneRow, OnePort
<1>2. \A w \in Worker : job[w].at = "off"
  BY DEF Init, Idle
<1>3. QED
  BY <1>1, <1>2 DEF Careful, Alone, Heedful

\* No row that was not there before.
NoNewRow == \A q \in interfaces' : \E r \in interfaces : SamePort(r, q)

LEMMA OnePortKept ==
    ASSUME OnePort, Tables', NoNewRow
    PROVE  OnePort'
BY DEF OnePort, Tables, NoNewRow, SamePort

LEMMA HeedfulKept ==
    ASSUME NEW w \in Worker, Heedful(w), job'[w] = job[w], NoNewRow, UNCHANGED devices
    PROVE  Heedful(w)'
BY DEF Heedful, NoNewRow, SamePort

\* Two threads at work are at work on different device rows.
LEMMA ApartRows ==
    ASSUME Sound, Alone, NEW v \in Worker, NEW w \in Worker, v # w,
           job[v].at \in {"upsert", "delete"}, job[w].at \in {"upsert", "delete"}
    PROVE  job[v].dev # job[w].dev
BY DEF Sound, JobSound, Known, Tables, Alone

LEMMA ThreadCareful ==
    ASSUME Sound, Careful, NEW w \in Worker, ThreadStep(w)
    PROVE  Careful'
<1>1. /\ Sound' /\ Tables' /\ Frame(w) /\ Grows /\ job[w].at # "off"
      /\ JobSound(w) /\ JobSound(w)' /\ \A v \in Worker \ {w} : job'[v] = job[v]
  BY ThreadSound DEF Sound, Frame, OthersKeep
<1>2. job'[w].at = "off" \/ job'[w].device = job[w].device
  BY CollectJob, FindJob, CreateJob, LoadJob, UpsertJob, BeginDeleteJob, UnlinkJob, DeleteJob,
     EndJob, IdleJob DEF ThreadStep, SameDevice
<1>3. Alone'
  BY <1>1, <1>2 DEF Careful, Alone
<1>4. ASSUME NoNewRow, UNCHANGED devices, Heedful(w)'
      PROVE  Careful'
  <2>1. \A v \in Worker : Heedful(v)'
    BY <1>1, <1>4, HeedfulKept DEF Careful
  <2>2. QED
    BY <1>1, <1>3, <1>4, <2>1, OnePortKept DEF Careful, OneRow
<1>5. CASE Collect(w) \/ FindDevice(w) \/ LoadInterfaces(w) \/ BeginDelete(w) \/ EndIngest(w)
  <2>1. UNCHANGED <<devices, interfaces>>
    BY <1>5 DEF Collect, FindDevice, LoadInterfaces, BeginDelete, EndIngest
  <2>2. NoNewRow
    BY <2>1 DEF NoNewRow, SamePort
  <2>3. Heedful(w)'
    <3>1. CASE Collect(w)
      BY <3>1, CollectJob, IdleJob DEF Heedful
    <3>2. CASE FindDevice(w)
      BY <2>1, <3>2, FindJob DEF Heedful, SameDevice, DeviceRows
    <3>3. CASE LoadInterfaces(w)
      BY <2>1, <3>3, LoadJob DEF Heedful, InterfacesOf
    <3>4. CASE BeginDelete(w)
      BY <3>4, BeginDeleteJob DEF Heedful
    <3>5. CASE EndIngest(w)
      BY <3>5, EndJob DEF Heedful
    <3>6. QED
      BY <1>5, <3>1, <3>2, <3>3, <3>4, <3>5
  <2>4. QED
    BY <1>4, <2>1, <2>2, <2>3
<1>6. CASE CreateDevice(w)
  <2>1. /\ job[w].at = "create" /\ job'[w].at = "load" /\ UNCHANGED interfaces
        /\ \A e \in devices : e.name # job[w].device
    BY <1>6, CreateJob DEF CreateDevice, Careful, Heedful
  <2>2. PICK new \in DeviceRow : new.name = job[w].device /\ devices' = devices \cup {new}
    BY <1>6, CreateJob
  <2>3. OneRow' /\ OnePort'
    BY <2>1, <2>2 DEF Careful, OneRow, OnePort
  <2>4. Heedful(w)'
    BY <2>1 DEF Heedful
  <2>5. ASSUME NEW v \in Worker \ {w} PROVE Heedful(v)'
    BY <1>1, <2>1, <2>2 DEF Careful, Alone, Heedful
  <2>6. QED
    BY <1>3, <2>3, <2>4, <2>5 DEF Careful
<1>7. CASE UpsertInterface(w)
  <2>1. /\ job[w].at = "upsert" /\ job'[w].at = "upsert" /\ job'[w].dev = job[w].dev
        /\ SameCopies(w) /\ UNCHANGED devices
    BY <1>7, UpsertJob
  <2>2. PICK p \in job[w].todo :
           /\ job'[w].todo = job[w].todo \ {p}
           /\ \/ Selected(w, p) = {} /\ interfaces' = Inserted(job[w].dev, p)
              \/ \E q \in Selected(w, p) : interfaces' = Updated(interfaces, q)
    <3>1. PICK p \in job[w].todo :
             /\ IF Selected(w, p) = {}
                THEN interfaces' = Inserted(job[w].dev, p) /\ nextId' = nextId + 1
                ELSE /\ \E r \in Selected(w, p) : interfaces' = Updated(interfaces, r)
                     /\ UNCHANGED nextId
             /\ job' = [job EXCEPT ![w].todo = @ \ {p}]
      BY <1>7 DEF UpsertInterface
    <3>2. job'[w].todo = job[w].todo \ {p}
      BY <3>1 DEF Sound, Job
    <3>3. QED
      BY <3>1, <3>2
  <2>3. ASSUME NEW q \in Selected(w, p), interfaces' = Updated(interfaces, q)
        PROVE  Careful'
    <3>1. CopyOK(interfaces, q)
      BY <1>1 DEF Selected, JobSound
    <3>2. NoNewRow
      BY <2>3, <3>1 DEF NoNewRow, SamePort, Updated, CopyOK, Ids
    <3>3. Heedful(w)'
      BY <2>1, <2>2, <3>2 DEF Careful, Heedful, NoNewRow, SamePort, SameCopies
    <3>4. QED
      BY <1>4, <2>1, <3>2, <3>3
  <2>4. ASSUME Selected(w, p) = {}, interfaces' = Inserted(job[w].dev, p)
        PROVE  Careful'
    <3>1. PICK row : row = [id |-> nextId, dev |-> job[w].dev, name |-> p, link |-> NoId]
      OBVIOUS
    <3>2. interfaces' = interfaces \cup {row} /\ row.dev = job[w].dev /\ row.name = p
      BY <2>4, <3>1 DEF Inserted
    <3>3. \A r \in interfaces : ~(r.dev = job[w].dev /\ r.name = p)
      BY <2>1, <2>4 DEF Careful, Heedful, Selected
    <3>4. OneRow' /\ OnePort'
      BY <2>1, <3>2, <3>3 DEF Careful, OneRow, OnePort
    <3>5. Heedful(w)'
      BY <2>1, <2>2, <3>2 DEF Careful, Heedful, SameCopies
    <3>6. ASSUME NEW v \in Worker \ {w} PROVE Heedful(v)'
      <4>1. job[v].at \in {"upsert", "delete"} => job[v].dev # row.dev
        BY <2>1, <3>2, ApartRows DEF Careful
      <4>2. QED
        BY <1>1, <2>1, <3>2, <4>1 DEF Careful, Heedful
    <3>7. QED
      BY <1>3, <3>4, <3>5, <3>6 DEF Careful
  <2>5. QED
    BY <2>2, <2>3, <2>4
<1>8. CASE UnlinkPeer(w)
  <2>1. PICK q \in job[w].peers, c \in Row :
           /\ c.id = q.id /\ c.dev = q.dev /\ c.name = q.name /\ interfaces' = Updated(interfaces, c)
    BY <1>8, UnlinkJob
  <2>2. CopyOK(interfaces, q)
    BY <1>1 DEF JobSound
  <2>3. NoNewRow
    BY <2>1, <2>2 DEF NoNewRow, SamePort, Updated, CopyOK, Ids
  <2>4. Heedful(w)' /\ UNCHANGED devices
    BY <1>8, <2>3, UnlinkJob DEF Careful, Heedful, NoNewRow, SamePort
  <2>5. QED
    BY <1>4, <2>3, <2>4
<1>9. CASE DeleteInterface(w)
  <2>1. NoNewRow /\ UNCHANGED devices
    BY <1>9, DeleteJob DEF NoNewRow, SamePort, Deleted
  <2>2. Heedful(w)'
    BY <1>9, <2>1, DeleteJob DEF Careful, Heedful, NoNewRow, SamePort, SameCopies
  <2>3. QED
    BY <1>4, <2>1, <2>2
<1>10. QED
  BY <1>5, <1>6, <1>7, <1>8, <1>9 DEF ThreadStep

\* A run gives every device a thread: an unexposed one finds none under way.
LEMMA StartCareful ==
    ASSUME Sound, Careful, ~exposed', StartRun \/ StartSingle
    PROVE  Careful'
<1>1. /\ UNCHANGED <<devices, interfaces>> /\ Single \notin Device
      /\ job \in [Worker -> Job] /\ \A d \in Device : d \in Worker
  BY SingleAssumption DEF Sound, StartRun, StartSingle, Worker
<1>2. \A d \in Device : Collecting(d).at = "collect" /\ Collecting(d).device = d
  BY DEF Collecting, Idle
<1>3. CASE StartRun
  <2>1. job[Single].at = "off" /\ job' = [w \in Worker |-> IF w = Single THEN job[Single] ELSE Collecting(w)]
    BY <1>3 DEF StartRun
  <2>2. job'[Single].at = "off" /\ \A d \in Device : job'[d] = Collecting(d)
    BY <1>1, <2>1 DEF Worker
  <2>3. Alone' /\ \A w \in Worker : Heedful(w)'
    BY <1>2, <2>2 DEF Alone, Heedful, Worker
  <2>4. QED
    BY <1>1, <2>3 DEF Careful, OneRow, OnePort
<1>4. CASE StartSingle
  <2>1. PICK d \in Targets : job' = [job EXCEPT ![Single] = Collecting(d)] /\ job[d].at = "off"
    BY <1>4 DEF StartSingle
  <2>2. /\ d \in Device /\ job'[Single].at = "collect" /\ job'[Single].device = d
        /\ \A e \in Device : job'[e] = job[e]
    BY <1>1, <1>2, <2>1, TargetsAssumption DEF Worker
  <2>3. \A e \in Device : job[e].at # "off" => job[e].device # d
    BY <1>1, <2>1 DEF Sound, JobSound
  <2>4. Alone'
    BY <2>2, <2>3 DEF Careful, Alone, Worker
  <2>5. \A w \in Worker : Heedful(w)'
    BY <1>1, <2>2 DEF Careful, Heedful, Worker
  <2>6. QED
    BY <1>1, <2>4, <2>5 DEF Careful, OneRow, OnePort
<1>5. QED
  BY <1>3, <1>4

LEMMA RunCareful ==
    ASSUME Sound, Careful, ChangeNetwork \/ BuildConnections \/ LoadLinks \/ FinishRun \/ IngestLink
    PROVE  Careful'
<1>1. CASE FinishRun
  <2>1. /\ UNCHANGED <<devices, interfaces>> /\ job'[Single] = job[Single]
        /\ \A d \in Device : job'[d].at = "off"
    BY <1>1, SingleAssumption, IdleJob DEF FinishRun, Worker
  <2>2. QED
    BY <2>1 DEF Careful, OneRow, OnePort, Alone, Heedful, Worker
<1>2. CASE IngestLink
  <2>1. UNCHANGED <<devices, job>> /\ NoNewRow /\ Tables'
    BY <1>2, LinkTables, LinkSound DEF IngestLink, NoNewRow, SamePorts, Sound
  <2>2. \A w \in Worker : Heedful(w)'
    BY <2>1, HeedfulKept DEF Careful
  <2>3. QED
    BY <2>1, <2>2, OnePortKept DEF Careful, OneRow, Alone
<1>3. CASE UNCHANGED <<devices, interfaces, job>>
  BY <1>3 DEF Careful, OneRow, OnePort, Alone, Heedful
<1>4. QED
  BY <1>1, <1>2, <1>3 DEF ChangeNetwork, BuildConnections, LoadLinks

LEMMA UniqueStep == Sound /\ UInv /\ [Next]_vars => UInv'
<1> SUFFICES ASSUME Sound, UInv, [Next]_vars, ~exposed' PROVE Careful'
  BY DEF UInv
<1>1. CASE UNCHANGED vars
  BY <1>1 DEF vars, UInv, Careful, OneRow, OnePort, Alone, Heedful
<1>2. CASE Next
  <2>1. ~exposed
    BY <1>2 DEF Next, ChangeNetwork, StartRun, StartSingle, ThreadStep, Collect, FindDevice,
       CreateDevice, LoadInterfaces, UpsertInterface, BeginDelete, UnlinkPeer, DeleteInterface,
       EndIngest, FindNothing, LoadNothing, FailRead, BuildConnections, LoadLinks, IngestLink,
       FinishRun
  <2>2. Careful /\ \A w \in Worker : ~FindNothing(w) /\ ~LoadNothing(w)
    BY <2>1, NothingSteps DEF UInv
  <2>3. QED
    BY <1>2, <2>2, ThreadCareful, StartCareful, RunCareful DEF Next
<1>3. QED
  BY <1>1, <1>2

\* ingest_device: no index makes names unique, yet a second row for a device or a port takes
\* a read that failed, or two threads that ingest one device at the same time; every other
\* interleaving of full and single-device runs, and every write a foreign key refuses, keeps
\* one.
THEOREM RowsStayUnique == Spec => []UniqueRows
<1>1. UInv => UniqueRows
  BY DEF UInv, Careful, OnePort, UniqueRows, Unique
<1>2. QED
  BY SoundInitial, SoundStep, UniqueInitial, UniqueStep, <1>1, PTL DEF Spec

-----------------------------------------------------------------------------
(* Links while the topology is stable.  Crawl threads write whole rows     *)
(* back, each with the link it had when it was read.  That brings no link  *)
(* back and takes none away, for during a crawl links only go: no link     *)
(* step runs beside it, so of two copies of a row, or a copy and the row,  *)
(* that have a link both have the same one, and a thread's copies are of   *)
(* its own device's rows, which no other thread has copies of to write.    *)

OwnCopies(j) ==
    \A q \in j.rows : /\ j.at \in {"upsert", "delete"} /\ q.dev = j.dev /\ q.id # NoId
                      /\ \A q2 \in j.rows : q.id = q2.id => q = q2

\* Rows that link to the doomed one, as they were when the delete began.
PeerCopies(j) == \A q \in j.peers : j.at = "delete" /\ q.link # NoId /\ q.link = j.doomed

AgreeWith(j, table) ==
    \A q \in j.rows \cup j.peers, r \in table : q.id = r.id /\ r.link # NoId => q.link = r.link

PeersAgree(j, k) ==
    \A q \in j.peers, q2 \in k.rows : q.id = q2.id /\ q2.link # NoId => q.link = q2.link

CopiesAgree ==
    /\ nextId # NoId /\ \A r \in interfaces : r.id # NoId
    /\ \A d \in Device : /\ run.phase = "links" => job[d].at = "off"
                         /\ OwnCopies(job[d]) /\ PeerCopies(job[d]) /\ AgreeWith(job[d], interfaces)
    /\ \A d, e \in Device : PeersAgree(job[d], job[e])

LinkInv == singles \in Nat /\ (singles = 0 => CopiesAgree /\ job[Single].at = "off")

LEMMA LinkInitial == Init => LinkInv
<1> SUFFICES ASSUME Init PROVE LinkInv
  OBVIOUS
<1>1. Cardinality(interfaces) \in Nat /\ nextId = Cardinality(interfaces) + 1
      /\ \A r \in interfaces : r.id \in 1..Cardinality(interfaces)
  BY StoredAssumption, FS_CardinalityType DEF Init
<1>2. nextId # NoId /\ \A r \in interfaces : r.id # NoId
  BY <1>1 DEF NoId
<1>3. \A d \in Device : job[d].rows = {} /\ job[d].peers = {} /\ run.phase = "idle"
  BY DEF Init, Idle, NoRun, Worker
<1>4. CopiesAgree
  BY <1>2, <1>3 DEF CopiesAgree, OwnCopies, PeerCopies, AgreeWith, PeersAgree
<1>5. singles = 0 /\ job[Single].at = "off"
  BY DEF Init, Idle, Worker
<1>6. QED
  BY <1>4, <1>5 DEF LinkInv

\* Rows of table2 that link somewhere are as they were in table.
Fewer(table, table2) ==
    \A r2 \in table2 :
        /\ r2.id # NoId
        /\ r2.link # NoId => \E r \in table : r.id = r2.id /\ r.link = r2.link

LEMMA AgreeFewer ==
    ASSUME NEW table, NEW table2, Fewer(table, table2), NEW j, AgreeWith(j, table)
    PROVE  AgreeWith(j, table2)
BY DEF Fewer, AgreeWith

\* A thread that reads nothing keeps its copies, or drops some.
LEMMA ShrinkKeepsLinks ==
    ASSUME Sound, CopiesAgree, NEW w \in Device, OthersKeep(w), NEW j \in Job, job'[w] = j,
           job[w].at # "off", run'.phase = run.phase,
           j.rows \subseteq job[w].rows, j.peers \subseteq job[w].peers,
           j.rows = {} \/ (j.at \in {"upsert", "delete"} /\ j.dev = job[w].dev),
           j.peers = {} \/ (j.at = "delete" /\ j.doomed = job[w].doomed),
           nextId' # NoId, Fewer(interfaces, interfaces')
    PROVE  CopiesAgree'
<1>1. run'.phase # "links" /\ \A r \in interfaces' : r.id # NoId
  BY DEF CopiesAgree, Fewer
<1>2. OwnCopies(j) /\ PeerCopies(j) /\ AgreeWith(j, interfaces)
  BY DEF CopiesAgree, OwnCopies, PeerCopies, AgreeWith
<1>3. \A d \in Device \ {w} : job'[d] = job[d]
  BY DEF OthersKeep, Worker
<1>4. \A d \in Device : OwnCopies(job'[d]) /\ PeerCopies(job'[d]) /\ AgreeWith(job'[d], interfaces)
  BY <1>2, <1>3 DEF CopiesAgree
<1>5. \A d, e \in Device : PeersAgree(job'[d], job'[e])
  <2>1. \A d \in Device : job'[d].peers \subseteq job[d].peers /\ job'[d].rows \subseteq job[d].rows
    BY <1>3
  <2>2. QED
    BY <2>1 DEF CopiesAgree, PeersAgree
<1>6. \A d \in Device : AgreeWith(job'[d], interfaces')
  BY <1>4, AgreeFewer
<1>7. QED
  BY <1>1, <1>4, <1>5, <1>6 DEF CopiesAgree, OwnCopies, PeerCopies, AgreeWith, PeersAgree

LEMMA FewerSelf == ASSUME CopiesAgree PROVE Fewer(interfaces, interfaces)
BY DEF CopiesAgree, Fewer

\* What a thread's job becomes when only some fields change.
LEMMA ThreadJob ==
    ASSUME Sound, NEW w \in Device, ThreadStep(w)
    PROVE  /\ job[w] \in Job /\ job \in [Worker -> Job] /\ w \in Worker /\ w # Single
           /\ job[w].at # "off"
BY SingleAssumption, ThreadSound DEF Sound, Worker

\* Before its copies are read a thread has none, and after it has dropped them.
LEMMA OutsideKeepsLinks ==
    ASSUME Sound, CopiesAgree, NEW w \in Device,
           Collect(w) \/ FindDevice(w) \/ CreateDevice(w) \/ EndIngest(w)
    PROVE  CopiesAgree'
<1>1. w \in Worker /\ JobSound(w) /\ job[w].at # "off" /\ UNCHANGED <<interfaces, nextId>>
  BY DEF Sound, Worker, Collect, FindDevice, CreateDevice, EndIngest
<1>2. Frame(w) /\ job'[w].rows = {} /\ job'[w].peers = {}
  <2>1. CASE Collect(w) \/ FindDevice(w) \/ CreateDevice(w)
    <3>1. job[w].rows = {} /\ job[w].peers = {}
      BY <1>1, <2>1 DEF JobSound, Collect, FindDevice, CreateDevice
    <3>2. QED
      BY <1>1, <2>1, <3>1, CollectJob, FindJob, CreateJob, IdleJob DEF SameCopies
  <2>2. CASE EndIngest(w)
    BY <1>1, <2>2, EndJob
  <2>3. QED
    BY <2>1, <2>2
<1>3. PICK j : j = job'[w]
  OBVIOUS
<1>4. j \in Job /\ OthersKeep(w) /\ run'.phase = run.phase /\ j.rows = {} /\ j.peers = {}
  BY <1>1, <1>2, <1>3 DEF Frame, SameRun
<1>5. nextId' # NoId /\ Fewer(interfaces, interfaces')
  BY <1>1, FewerSelf DEF CopiesAgree
<1>6. QED
  BY <1>1, <1>3, <1>4, <1>5, ShrinkKeepsLinks

\* A read that failed leaves no copies.
LEMMA NothingKeepsLinks ==
    ASSUME Sound, CopiesAgree, NEW w \in Device, FindNothing(w) \/ LoadNothing(w)
    PROVE  CopiesAgree'
<1>1. w \in Worker
  BY DEF Worker
<1>2. /\ OthersKeep(w) /\ UNCHANGED <<interfaces, nextId>> /\ run'.phase = run.phase
      /\ job[w].at # "off" /\ job'[w] \in Job /\ job'[w].rows = {} /\ job'[w].peers = {}
  BY <1>1, NothingSteps DEF Sound
<1>3. PICK j : j = job'[w]
  OBVIOUS
<1>4. nextId' # NoId /\ Fewer(interfaces, interfaces')
  BY <1>2, FewerSelf DEF CopiesAgree
<1>5. QED
  BY <1>2, <1>3, <1>4, ShrinkKeepsLinks

\* Reading takes copies of the rows as they are.
LEMMA LoadKeepsLinks ==
    ASSUME Sound, CopiesAgree, NEW w \in Device, LoadInterfaces(w)
    PROVE  CopiesAgree'
<1>1. /\ job[w] \in Job /\ job \in [Worker -> Job] /\ w \in Worker /\ w # Single
      /\ job[w].at = "load"
  BY ThreadJob DEF ThreadStep, LoadInterfaces
<1>2. PICK j : j = [job[w] EXCEPT !.at = "upsert", !.rows = InterfacesOf(job[w].dev),
                                  !.todo = job[w].ports]
  OBVIOUS
<1>3. /\ j.at = "upsert" /\ j.dev = job[w].dev /\ j.rows = InterfacesOf(job[w].dev)
      /\ j.peers = job[w].peers
  BY <1>1, <1>2 DEF Job
<1>4. job' = [job EXCEPT ![w] = j] /\ UNCHANGED <<interfaces, nextId, run>>
  BY <1>2 DEF LoadInterfaces
<1>5. job'[w] = j /\ \A d \in Device \ {w} : job'[d] = job[d]
  BY <1>1, <1>4 DEF Worker
<1>6. job[w].peers = {} /\ j.peers = {}
  BY <1>1, <1>3 DEF CopiesAgree, PeerCopies
<1>7. /\ \A q \in j.rows : q \in interfaces /\ q.dev = j.dev
      /\ \A q, r \in interfaces : q.id = r.id => q = r
  BY <1>3 DEF InterfacesOf, Sound, Tables
<1>8. OwnCopies(j) /\ PeerCopies(j) /\ AgreeWith(j, interfaces)
  BY <1>3, <1>6, <1>7 DEF OwnCopies, PeerCopies, AgreeWith, CopiesAgree
<1>9. \A d \in Device : PeersAgree(j, job'[d]) /\ PeersAgree(job[d], j)
  BY <1>6, <1>7 DEF PeersAgree, CopiesAgree, AgreeWith
<1>10. \A d, e \in Device : PeersAgree(job'[d], job'[e])
  BY <1>5, <1>9, <1>6 DEF CopiesAgree, PeersAgree
<1>11. run.phase # "links"
  BY <1>1 DEF CopiesAgree
<1>12. \A d \in Device : OwnCopies(job'[d]) /\ PeerCopies(job'[d]) /\ AgreeWith(job'[d], interfaces)
  BY <1>5, <1>8 DEF CopiesAgree
<1>13. QED
  BY <1>4, <1>10, <1>11, <1>12 DEF CopiesAgree, OwnCopies, PeerCopies, AgreeWith, PeersAgree

\* A row written back has the link the row has, if it has one, and what others know of
\* the row.
LEMMA WrittenBack ==
    ASSUME Sound, CopiesAgree, NEW w \in Device, NEW q \in job[w].rows, NEW d \in Device
    PROVE  AgreeWith(job[d], Updated(interfaces, q))
<1> SUFFICES ASSUME NEW c \in job[d].rows \cup job[d].peers, NEW r \in Updated(interfaces, q),
                    c.id = r.id, r.link # NoId
             PROVE  c.link = r.link
  BY DEF AgreeWith
<1>1. CASE r \in interfaces
  BY <1>1 DEF CopiesAgree, AgreeWith
<1>2. CASE r \notin interfaces
  <2>1. r = q /\ q.id \in Ids(interfaces)
    BY <1>2 DEF Updated
  <2>2. PICK r0 \in interfaces : r0.id = q.id
    BY <2>1 DEF Ids
  <2>3. CASE c \in job[d].peers
    BY <2>1, <2>3 DEF CopiesAgree, PeersAgree
  <2>4. CASE c \in job[d].rows
    <3>1. c.dev = r0.dev /\ q.dev = r0.dev
      BY <2>1, <2>2, <2>4 DEF Sound, JobSound, CopyOK, Worker
    <3>2. job[d].dev = job[w].dev /\ {job[d].at, job[w].at} \subseteq {"upsert", "delete"}
      BY <2>4, <3>1 DEF CopiesAgree, OwnCopies
    <3>3. d = w
      BY <3>2 DEF Sound, JobSound, Known, Tables, Worker
    <3>4. c = q
      BY <2>1, <2>4, <3>3 DEF CopiesAgree, OwnCopies
    <3>5. QED
      BY <2>1, <3>4
  <2>5. QED
    BY <2>3, <2>4
<1>3. QED
  BY <1>1, <1>2

LEMMA UpsertKeepsLinks ==
    ASSUME Sound, CopiesAgree, NEW w \in Device, UpsertInterface(w)
    PROVE  CopiesAgree'
<1>1. /\ job[w] \in Job /\ job \in [Worker -> Job] /\ w \in Worker /\ w # Single
      /\ job[w].at = "upsert"
  BY ThreadJob DEF ThreadStep, UpsertInterface
<1>2. PICK p \in job[w].todo :
         /\ IF Selected(w, p) = {}
            THEN interfaces' = Inserted(job[w].dev, p) /\ nextId' = nextId + 1
            ELSE /\ \E r \in Selected(w, p) : interfaces' = Updated(interfaces, r)
                 /\ UNCHANGED nextId
         /\ job' = [job EXCEPT ![w].todo = @ \ {p}]
  BY DEF UpsertInterface
<1>3. PICK j : j = [job[w] EXCEPT !.todo = @ \ {p}]
  OBVIOUS
<1>4. j \in Job /\ j.at = "upsert" /\ j.dev = job[w].dev /\ j.rows = job[w].rows
      /\ j.peers = job[w].peers /\ j.doomed = job[w].doomed
  BY <1>1, <1>3 DEF Job
<1>5. job' = [job EXCEPT ![w] = j] /\ run' = run
  BY <1>2, <1>3 DEF UpsertInterface
<1>6. job'[w] = j /\ OthersKeep(w)
  BY <1>1, <1>5 DEF OthersKeep
<1>7. j.peers = {}
  BY <1>1, <1>4 DEF CopiesAgree, PeerCopies
<1>8. CASE Selected(w, p) = {}
  <2>1. PICK row : row = [id |-> nextId, dev |-> job[w].dev, name |-> p, link |-> NoId]
    OBVIOUS
  <2>2. interfaces' = interfaces \cup {row} /\ row.link = NoId /\ row.id = nextId
    BY <1>2, <1>8, <2>1 DEF Inserted
  <2>3. nextId \in Nat /\ nextId # NoId /\ nextId' # NoId
    BY <1>2, <1>8 DEF Sound, Tables, CopiesAgree, NoId
  <2>4. Fewer(interfaces, interfaces')
    BY <2>2, <2>3 DEF Fewer, CopiesAgree
  <2>5. QED
    BY <1>1, <1>4, <1>5, <1>6, <1>7, <2>3, <2>4, ShrinkKeepsLinks
<1>9. ASSUME NEW q \in Selected(w, p), interfaces' = Updated(interfaces, q), nextId' = nextId
      PROVE  CopiesAgree'
  <2>1. q \in job[w].rows /\ q.id # NoId
    BY DEF Selected, CopiesAgree, OwnCopies
  <2>2. \A r \in interfaces' : r.id # NoId
    BY <1>9, <2>1 DEF Updated, CopiesAgree
  <2>3. \A d \in Device : /\ job'[d].rows = job[d].rows /\ job'[d].peers = job[d].peers
                          /\ job'[d].at = job[d].at /\ job'[d].dev = job[d].dev
                          /\ job'[d].doomed = job[d].doomed
    BY <1>1, <1>4, <1>6 DEF OthersKeep, Worker
  <2>4. \A d \in Device : AgreeWith(job[d], interfaces')
    BY <1>9, <2>1, WrittenBack
  <2>5. \A d \in Device : OwnCopies(job'[d]) /\ PeerCopies(job'[d]) /\ AgreeWith(job'[d], interfaces')
    BY <2>3, <2>4 DEF CopiesAgree, OwnCopies, PeerCopies, AgreeWith
  <2>6. \A d, e \in Device : PeersAgree(job'[d], job'[e])
    BY <2>3 DEF CopiesAgree, PeersAgree
  <2>7. QED
    BY <1>5, <1>9, <2>2, <2>3, <2>5, <2>6
       DEF CopiesAgree, OwnCopies, PeerCopies, AgreeWith, PeersAgree
<1>10. QED
  BY <1>2, <1>8, <1>9

LEMMA BeginDeleteKeepsLinks ==
    ASSUME Sound, CopiesAgree, NEW w \in Device, BeginDelete(w)
    PROVE  CopiesAgree'
<1>1. /\ job[w] \in Job /\ job \in [Worker -> Job] /\ w \in Worker /\ w # Single
      /\ job[w].at = "upsert"
  BY ThreadJob DEF ThreadStep, BeginDelete
<1>2. PICK r \in Stale(w) :
         job' = [job EXCEPT ![w].at = "delete", ![w].doomed = r.id, ![w].rows = @ \ {r},
                            ![w].peers = {q \in interfaces : q.link = r.id}]
  BY DEF BeginDelete
<1>3. PICK j : j = [job[w] EXCEPT !.at = "delete", !.doomed = r.id, !.rows = @ \ {r},
                                  !.peers = {q \in interfaces : q.link = r.id}]
  OBVIOUS
<1>4. /\ j.at = "delete" /\ j.dev = job[w].dev /\ j.rows \subseteq job[w].rows
      /\ j.peers = {q \in interfaces : q.link = r.id} /\ j.doomed = r.id
  BY <1>1, <1>3 DEF Job
<1>5. job' = [job EXCEPT ![w] = j] /\ UNCHANGED <<interfaces, nextId, run>>
  BY <1>2, <1>3 DEF BeginDelete
<1>6. job'[w] = j /\ \A d \in Device \ {w} : job'[d] = job[d]
  BY <1>1, <1>5 DEF Worker
<1>7. r.id # NoId
  BY DEF Stale, CopiesAgree, OwnCopies
<1>8. \A q, q2 \in interfaces : q.id = q2.id => q = q2
  BY DEF Sound, Tables
<1>9. OwnCopies(j)
  BY <1>4 DEF OwnCopies, CopiesAgree
<1>10. PeerCopies(j)
  BY <1>4, <1>7 DEF PeerCopies
<1>11. AgreeWith(j, interfaces)
  BY <1>4, <1>8 DEF AgreeWith, CopiesAgree
<1>12. \A e \in Device : PeersAgree(j, job[e])
  <2> SUFFICES ASSUME NEW e \in Device, NEW q \in j.peers, NEW q2 \in job[e].rows, q.id = q2.id
               PROVE  q.link = q2.link
    BY DEF PeersAgree
  <2>1. q \in interfaces /\ q.link # NoId
    BY <1>4, <1>7
  <2>2. QED
    BY <2>1 DEF CopiesAgree, AgreeWith
<1>13. \A d, e \in Device : PeersAgree(job'[d], job'[e])
  <2>1. \A e \in Device : job'[e].rows \subseteq job[e].rows
    BY <1>4, <1>6
  <2>2. QED
    BY <1>6, <1>12, <2>1 DEF PeersAgree, CopiesAgree
<1>14. \A d \in Device : OwnCopies(job'[d]) /\ PeerCopies(job'[d]) /\ AgreeWith(job'[d], interfaces)
  BY <1>6, <1>9, <1>10, <1>11 DEF CopiesAgree
<1>15. run.phase # "links"
  BY <1>1 DEF CopiesAgree
<1>16. QED
  BY <1>5, <1>13, <1>14, <1>15 DEF CopiesAgree, OwnCopies, PeerCopies, AgreeWith, PeersAgree

LEMMA DeletingKeepsLinks ==
    ASSUME Sound, CopiesAgree, NEW w \in Device, UnlinkPeer(w) \/ DeleteInterface(w)
    PROVE  CopiesAgree'
<1>1. /\ job[w] \in Job /\ job \in [Worker -> Job] /\ w \in Worker /\ w # Single
      /\ job[w].at = "delete"
  BY ThreadJob DEF ThreadStep, UnlinkPeer, DeleteInterface
<1>2. nextId' # NoId /\ run' = run
  BY DEF UnlinkPeer, DeleteInterface, CopiesAgree
<1>3. CASE UnlinkPeer(w)
  <2>1. PICK q \in job[w].peers : /\ interfaces' = Updated(interfaces, [q EXCEPT !.link = NoId])
                                  /\ job' = [job EXCEPT ![w].peers = @ \ {q}]
    BY <1>3 DEF UnlinkPeer
  <2>2. PICK j : j = [job[w] EXCEPT !.peers = @ \ {q}]
    OBVIOUS
  <2>3. j \in Job /\ j.at = "delete" /\ j.dev = job[w].dev /\ j.rows = job[w].rows
        /\ j.peers \subseteq job[w].peers /\ j.doomed = job[w].doomed
    BY <1>1, <2>2 DEF Job
  <2>4. job' = [job EXCEPT ![w] = j]
    BY <2>1, <2>2
  <2>5. job'[w] = j /\ OthersKeep(w)
    BY <1>1, <2>4 DEF OthersKeep
  <2>6. Fewer(interfaces, interfaces')
    <3>1. PICK c : c = [q EXCEPT !.link = NoId]
      OBVIOUS
    <3>2. c.id = q.id /\ c.link = NoId
      BY <3>1 DEF Sound, JobSound, CopyOK, Row, Worker
    <3>3. interfaces' = Updated(interfaces, c)
      BY <2>1, <3>1
    <3>4. QED
      BY <3>2, <3>3 DEF Updated, Ids, Fewer, CopiesAgree
  <2>7. QED
    BY <1>1, <1>2, <2>3, <2>5, <2>6, ShrinkKeepsLinks
<1>4. CASE DeleteInterface(w)
  <2>1. PICK j : j = [job[w] EXCEPT !.at = "upsert", !.doomed = NoId]
    OBVIOUS
  <2>2. j \in Job /\ j.at = "upsert" /\ j.dev = job[w].dev /\ j.rows = job[w].rows
        /\ j.peers = {}
    BY <1>1, <1>4, <2>1 DEF Job, NoId, DeleteInterface
  <2>3. job' = [job EXCEPT ![w] = j]
    BY <1>4, <2>1 DEF DeleteInterface
  <2>4. job'[w] = j /\ OthersKeep(w)
    BY <1>1, <2>3 DEF OthersKeep
  <2>5. Fewer(interfaces, interfaces')
    BY <1>4 DEF DeleteInterface, Deleted, Fewer, CopiesAgree
  <2>6. QED
    BY <1>1, <1>2, <2>2, <2>4, <2>5, ShrinkKeepsLinks
<1>5. QED
  BY <1>3, <1>4

\* Runs: while links are written no thread has a copy.
LEMMA RunKeepsLinks ==
    ASSUME Sound, CopiesAgree,
           StartRun \/ FinishRun \/ ChangeNetwork \/ BuildConnections \/ LoadLinks \/ IngestLink
    PROVE  CopiesAgree'
<1>1. Single \notin Device /\ run \in Run /\ nextId' = nextId /\ \A d \in Device : d \in Worker
  BY SingleAssumption
     DEF Sound, Worker, StartRun, FinishRun, ChangeNetwork, BuildConnections, LoadLinks,
         IngestLink
<1>2. CASE StartRun \/ FinishRun
  <2>1. Idle.rows = {} /\ Idle.peers = {}
    BY DEF Idle
  <2>2. \A d \in Device : Collecting(d).rows = {} /\ Collecting(d).peers = {}
    BY DEF Collecting, Idle
  <2>3. ASSUME NEW d \in Device PROVE job'[d].rows = {} /\ job'[d].peers = {}
    <3>1. CASE StartRun
      BY <1>1, <2>2, <3>1 DEF StartRun
    <3>2. CASE FinishRun
      BY <1>1, <2>1, <3>2 DEF FinishRun
    <3>3. QED
      BY <1>2, <3>1, <3>2
  <2>4. run'.phase # "links"
    <3>1. CASE StartRun
      <4>1. PICK s : run' = [NoRun EXCEPT !.phase = "ingest", !.stable = s,
                                          !.calm = job[Single].at = "off"]
        BY <3>1 DEF StartRun
      <4>2. run'.phase = "ingest"
        BY <4>1 DEF NoRun
      <4>3. QED
        BY <4>2
    <3>2. CASE FinishRun
      BY <3>2 DEF FinishRun, NoRun
    <3>3. QED
      BY <1>2, <3>1, <3>2
  <2>5. UNCHANGED interfaces
    BY <1>2 DEF StartRun, FinishRun
  <2>6. QED
    BY <1>1, <2>3, <2>4, <2>5 DEF CopiesAgree, OwnCopies, PeerCopies, AgreeWith, PeersAgree
<1>3. ASSUME UNCHANGED <<interfaces, job>>,
             run'.phase = "links" => run.phase = "links" \/ \A d \in Device : job[d].at = "off"
      PROVE  CopiesAgree'
  BY <1>1, <1>3 DEF CopiesAgree, OwnCopies, PeerCopies, AgreeWith, PeersAgree
<1>4. CASE ChangeNetwork
  <2>1. run' = [run EXCEPT !.calm = FALSE]
    BY <1>4 DEF ChangeNetwork, Disturb
  <2>2. run'.phase = run.phase
    BY <1>1, <2>1 DEF Run
  <2>3. QED
    BY <1>3, <1>4, <2>2 DEF ChangeNetwork
<1>5. CASE BuildConnections
  BY <1>3, <1>5 DEF BuildConnections
<1>6. CASE LoadLinks
  BY <1>3, <1>6 DEF LoadLinks
<1>7. CASE IngestLink
  <2>1. \A d \in Device : job[d].rows = {} /\ job[d].peers = {} /\ job[d].at = "off"
    BY <1>7 DEF IngestLink, CopiesAgree, OwnCopies, PeerCopies
  <2>2. TableOK(interfaces')
    BY <1>7, LinkTables
  <2>3. \A r \in interfaces' : r.id # NoId
    BY <2>2 DEF TableOK
  <2>4. job' = job
    BY <1>7 DEF IngestLink
  <2>5. QED
    BY <1>1, <2>1, <2>3, <2>4 DEF CopiesAgree, OwnCopies, PeerCopies, AgreeWith, PeersAgree
<1>8. QED
  BY <1>2, <1>4, <1>5, <1>6, <1>7

\* Without single-device runs only the devices' threads run.
LEMMA FullThreads ==
    ASSUME Sound, job[Single].at = "off", NEW w \in Worker,
           ThreadStep(w) \/ FindNothing(w) \/ LoadNothing(w)
    PROVE  w \in Device
BY ThreadSound, NothingSteps DEF Worker

LEMMA SinglesCount ==
    ASSUME Next
    PROVE  singles' = singles \/ (StartSingle /\ singles' = singles + 1)
<1>1. CASE \E w \in Worker : FindNothing(w) \/ LoadNothing(w)
  BY <1>1 DEF FindNothing, LoadNothing, FailRead
<1>2. CASE \E w \in Worker : ThreadStep(w)
  BY <1>2 DEF ThreadStep, Collect, FindDevice, CreateDevice, LoadInterfaces, UpsertInterface,
              BeginDelete, UnlinkPeer, DeleteInterface, EndIngest
<1>3. QED
  BY <1>1, <1>2 DEF Next, ChangeNetwork, StartRun, StartSingle, BuildConnections, LoadLinks,
                    IngestLink, FinishRun

LEMMA LinkStep == Sound /\ LinkInv /\ [Next]_vars => LinkInv'
<1>0. ASSUME LinkInv, [Next]_vars PROVE singles' \in Nat
  BY <1>0, SinglesCount DEF LinkInv, vars
<1> SUFFICES ASSUME Sound, LinkInv, [Next]_vars, singles' = 0
             PROVE  CopiesAgree' /\ job'[Single].at = "off"
  BY <1>0 DEF LinkInv
<1>1. CASE UNCHANGED vars
  BY <1>1 DEF vars, LinkInv, CopiesAgree, OwnCopies, PeerCopies, AgreeWith, PeersAgree
<1>2. CASE Next
  <2>1. ~StartSingle /\ CopiesAgree /\ job[Single].at = "off" /\ Single \notin Device
    <3>1. singles' = singles \/ (StartSingle /\ singles' = singles + 1)
      BY <1>2, SinglesCount
    <3>2. singles = 0 /\ ~StartSingle
      BY <3>1 DEF LinkInv, StartSingle
    <3>3. QED
      BY <3>2, SingleAssumption DEF LinkInv
  <2>2. ASSUME NEW w \in Worker, ThreadStep(w) \/ FindNothing(w) \/ LoadNothing(w)
        PROVE  CopiesAgree' /\ job'[Single].at = "off"
    <3>1. w \in Device
      BY <2>1, <2>2, FullThreads
    <3>2. job'[Single] = job[Single]
      BY <2>1, <2>2, <3>1, ThreadSound, NothingSteps DEF Frame, OthersKeep, Worker
    <3>3. QED
      BY <2>1, <2>2, <3>1, <3>2, OutsideKeepsLinks, NothingKeepsLinks, LoadKeepsLinks,
         UpsertKeepsLinks, BeginDeleteKeepsLinks, DeletingKeepsLinks DEF ThreadStep
  <2>3. CASE StartRun \/ FinishRun \/ ChangeNetwork \/ BuildConnections \/ LoadLinks \/ IngestLink
    <3>1. job'[Single] = job[Single]
      BY <2>3 DEF StartRun, FinishRun, ChangeNetwork, BuildConnections, LoadLinks, IngestLink, Worker
    <3>2. QED
      BY <2>1, <2>3, <3>1, RunKeepsLinks
  <2>4. QED
    BY <1>2, <2>1, <2>2, <2>3 DEF Next
<1>3. QED
  BY <1>1, <1>2

\* A row written back without its link was read from one that linked to a doomed row.
LEMMA CrawlKeepsLinks ==
    ASSUME Sound, CopiesAgree, NEW w \in Device, ThreadStep(w)
    PROVE  KeepsLinks
<1> SUFFICES ASSUME NEW r \in interfaces, r.link # NoId, r.id \in Ids(interfaces')
             PROVE  \/ \E q \in interfaces' : q.id = r.id /\ q.link # NoId
                    \/ job[w].doomed = r.link
  BY DEF KeepsLinks, Worker
<1>1. CASE interfaces \subseteq interfaces'
  BY <1>1
<1>2. CASE UpsertInterface(w)
  <2>1. PICK p \in job[w].todo :
           \/ interfaces' = Inserted(job[w].dev, p)
           \/ \E q \in Selected(w, p) : interfaces' = Updated(interfaces, q)
    BY <1>2 DEF UpsertInterface
  <2>2. CASE interfaces' = Inserted(job[w].dev, p)
    BY <1>1, <2>2 DEF Inserted
  <2>3. ASSUME NEW q \in Selected(w, p), interfaces' = Updated(interfaces, q)
        PROVE  \E c \in interfaces' : c.id = r.id /\ c.link # NoId
    <3>1. CASE r.id = q.id
      <4>1. q.link = r.link
        BY <3>1 DEF Selected, CopiesAgree, AgreeWith
      <4>2. QED
        BY <2>3, <3>1, <4>1 DEF Updated
    <3>2. CASE r.id # q.id
      BY <2>3, <3>2 DEF Updated
    <3>3. QED
      BY <3>1, <3>2
  <2>4. QED
    BY <2>1, <2>2, <2>3
<1>3. CASE UnlinkPeer(w)
  <2>1. PICK q \in job[w].peers : interfaces' = Updated(interfaces, [q EXCEPT !.link = NoId])
    BY <1>3 DEF UnlinkPeer
  <2>2. PICK c : c = [q EXCEPT !.link = NoId]
    OBVIOUS
  <2>3. c.id = q.id
    BY <2>2 DEF Sound, JobSound, CopyOK, Row, Worker
  <2>4. CASE r.id = q.id
    <3>1. q.link = r.link
      BY <2>4 DEF CopiesAgree, AgreeWith
    <3>2. q.link = job[w].doomed
      BY DEF CopiesAgree, PeerCopies
    <3>3. QED
      BY <3>1, <3>2
  <2>5. CASE r.id # q.id
    BY <2>1, <2>2, <2>3, <2>5 DEF Updated
  <2>6. QED
    BY <2>4, <2>5
<1>4. CASE DeleteInterface(w)
  <2>1. PICK q \in interfaces' : q.id = r.id
    BY DEF Ids
  <2>2. q \in interfaces
    BY <1>4 DEF DeleteInterface, Deleted
  <2>3. q = r
    BY <2>1, <2>2 DEF Sound, Tables
  <2>4. QED
    BY <2>1, <2>3
<1>5. CASE UNCHANGED interfaces
  BY <1>1, <1>5
<1>6. QED
  BY <1>2, <1>3, <1>4, <1>5
     DEF ThreadStep, Collect, FindDevice, CreateDevice, LoadInterfaces, BeginDelete, EndIngest

\* A stable run writes links and takes none away.
LEMMA StableRunKeepsLinks ==
    ASSUME Sound, CopiesAgree, IngestLink, run.stable
    PROVE  KeepsLinks
<1>1. PICK r \in run.rows : LinkOutcome(r)
  BY LinkOutcomes
<1>2. \/ interfaces' = interfaces
      \/ \E t \in interfaces : interfaces' = Updated(interfaces, [r EXCEPT !.link = t.id])
  BY <1>1 DEF LinkOutcome, Cleared, Forgotten
<1>3. CASE interfaces' = interfaces
  BY <1>3 DEF KeepsLinks
<1>4. ASSUME NEW t \in interfaces, interfaces' = Updated(interfaces, [r EXCEPT !.link = t.id])
      PROVE  KeepsLinks
  <2>1. PICK c : c = [r EXCEPT !.link = t.id]
    OBVIOUS
  <2>2. c.id = r.id /\ c.link = t.id
    BY <2>1 DEF Sound, RunSound, CopyOK, Row
  <2>3. c.link # NoId
    BY <2>2 DEF CopiesAgree
  <2>4. interfaces' = Updated(interfaces, c)
    BY <1>4, <2>1
  <2>5. QED
    BY <2>3, <2>4 DEF KeepsLinks, Updated
<1>5. QED
  BY <1>2, <1>3, <1>4

LEMMA StepKeepsLinks == Sound /\ LinkInv /\ [Next]_vars => [run.stable /\ singles = 0 => KeepsLinks]_vars
<1> SUFFICES ASSUME Sound, LinkInv, Next, run.stable, singles = 0 PROVE KeepsLinks
  OBVIOUS
<1>1. CopiesAgree /\ job[Single].at = "off"
  BY DEF LinkInv
<1>2. ASSUME NEW w \in Worker, ThreadStep(w) PROVE KeepsLinks
  BY <1>1, <1>2, FullThreads, CrawlKeepsLinks
<1>3. CASE UNCHANGED interfaces
  BY <1>3 DEF KeepsLinks
<1>4. QED
  BY <1>1, <1>2, <1>3, StableRunKeepsLinks
     DEF Next, ChangeNetwork, StartRun, StartSingle, FindNothing, LoadNothing, FailRead,
         BuildConnections, LoadLinks, FinishRun

\* perform_discovery_run: while the topology is declared stable, full runs alone never
\* clear a link, whatever the crawl misses, whichever reads fail and however threads interleave: a link
\* goes only while the row of its peer is being deleted.
THEOREM StableRunsKeepLinks == Spec => StableKeepsLinks
<1>1. QED
  BY SoundInitial, SoundStep, LinkInitial, LinkStep, StepKeepsLinks, PTL
     DEF Spec, StableKeepsLinks

-----------------------------------------------------------------------------
(* The second undisturbed run.                                             *)

\* While nothing disturbs the run, and once one has ended undisturbed, no
\* single-device run is under way.
Calm == run.phase # "idle" /\ run.calm

Undisturbed ==
    /\ Calm \/ quiet # 0 => job[Single].at = "off"
    /\ quiet # 0 /\ run.phase # "idle" => run.calm

\* How far an undisturbed run has come with a device: what was read is what the
\* network announces, and the ports done have a row.
HasRow(dev, p) == \E r \in interfaces : r.dev = dev /\ r.name = p

Progress(d) ==
    /\ job[d].at = "off" /\ ~job[d].detected => d \notin net.up
    /\ job[d].detected =>
          /\ d \in net.up /\ job[d].ports = net.ports[d]
          /\ \A i \in Ifc : i.device = d => run.sees[i] = net.sees[i]
    /\ job[d].at \notin {"off", "collect"} => job[d].detected
    /\ job[d].at = "off" /\ job[d].detected =>
          /\ \E e \in devices : e.name = d
          /\ \A e \in devices : e.name = d => \A p \in net.ports[d] : HasRow(e.id, p)
    /\ job[d].at \in {"upsert", "delete"} =>
          /\ \A p \in job[d].ports \ job[d].todo : HasRow(job[d].dev, p)
          /\ \A q \in job[d].rows : q.name \in job[d].ports => q.id \in Ids(interfaces)
    /\ job[d].at = "delete" =>
          \A r \in interfaces : r.id = job[d].doomed => r.dev = job[d].dev /\ r.name \notin job[d].ports

\* Where the link of a port should lead; none if the port is gone.
Aim(d, p) == IF p \in net.ports[d] THEN Resolved([device |-> d, port |-> p]) ELSE {}

LeadsTo(l, i) ==
    \E t \in interfaces, f \in devices :
        t.id = l /\ f.id = t.dev /\ f.name = i.device /\ t.name = i.port

\* What the first undisturbed run leaves: a link that leads nowhere else.
Weak(q) ==
    \A e \in devices : e.id = q.dev /\ e.name \in net.up =>
        q.link = NoId \/ \E i \in Aim(e.name, q.name) : LeadsTo(q.link, i)

\* What the second one leaves: the link is also there.
Exact(q) ==
    /\ Weak(q)
    /\ \A e \in devices : e.id = q.dev /\ e.name \in net.up /\ Aim(e.name, q.name) # {} => q.link # NoId

\* How far the second one has come with a device: its copies are as weak as the rows,
\* and every stale row is in a copy still to be deleted.
Repaired(d) ==
    /\ \A q \in job[d].rows : Weak(q)
    /\ job[d].at \in {"upsert", "delete"} =>
         \A r \in interfaces : r.dev = job[d].dev /\ r.name \notin job[d].ports =>
            r.id \in Ids(job[d].rows) \/ (job[d].at = "delete" /\ r.id = job[d].doomed)
    /\ job[d].at = "off" /\ job[d].detected =>
         \A e \in devices, r \in interfaces : e.name = d /\ r.dev = e.id => r.name \in net.ports[d]
    /\ job[d].at = "delete" =>
         \A r \in interfaces : r.link = job[d].doomed /\ r.id # job[d].doomed => r.id \in Ids(job[d].peers)

\* How far either has come with the links.
Processed(r) == \A e \in devices : e.id = r.dev => e.name \notin run.todo /\ r.id \notin Ids(run.rows)

Linking ==
    /\ \A r \in interfaces : Processed(r) => Weak(r)
    /\ \A q \in run.rows, r \in interfaces : q.id = r.id => r.link \in {q.link, NoId}

Relinking ==
    /\ \A r \in interfaces : Processed(r) => Exact(r)
    /\ \A q \in run.rows : Weak(q)
    /\ \A q \in run.rows, r \in interfaces : q.id = r.id => r.link = q.link

AllWeak == \A r \in interfaces : Weak(r)

\* The tables are what the network announces.
Settled ==
    /\ \A r \in interfaces : Exact(r)
    /\ \A d \in net.up :
          /\ \E e \in devices : e.name = d
          /\ \A e \in devices : e.name = d =>
                /\ \A p \in net.ports[d] : HasRow(e.id, p)
                /\ \A r \in interfaces : r.dev = e.id => r.name \in net.ports[d]

Crawling == Calm => \A d \in Device : Progress(d)
Recrawling == Calm /\ quiet # 0 => \A d \in Device : Repaired(d)
LinksDue == Calm /\ ~run.stable /\ run.phase = "links" => Linking /\ (quiet # 0 => Relinking)

Repairing ==
    /\ Crawling /\ Recrawling /\ LinksDue
    /\ quiet # 0 => AllWeak
    /\ quiet = 2 /\ run.phase = "idle" => Settled

SInv == Sound /\ Undisturbed /\ (OneRow => Repairing)

LEMMA RepairInitial == Init => SInv
BY SoundInitial, IdleJob
   DEF Init, NoRun, SInv, Undisturbed, Calm, Repairing, Crawling, Recrawling, LinksDue, Worker

-----------------------------------------------------------------------------
(* An undisturbed crawl.  The row of a port a device announces is never    *)
(* deleted, so a link that leads to one leads there still; a thread adds   *)
(* rows for what its device announces and writes what is in its copies.    *)

KeepsRows ==
    \A r \in interfaces, e \in devices :
        e.id = r.dev /\ e.name \in net.up /\ r.name \in net.ports[e.name] =>
            \E q \in interfaces' : SamePort(r, q)

Writes(w) ==
    \A q \in interfaces' :
        \/ \E r \in interfaces : SamePort(r, q) /\ (q.link = r.link \/ q.link = NoId \/ q \in job[w].rows)
        \/ /\ q.id = nextId /\ q.link = NoId
           /\ w \in net.up /\ q.dev = job[w].dev /\ q.name \in net.ports[w]

\* Past its crawl a thread works with what its device announces.
LEMMA AtWork ==
    ASSUME Sound, NEW w \in Device, Progress(w), job[w].at \in {"load", "upsert", "delete"}
    PROVE  /\ w \in net.up /\ job[w].detected /\ job[w].ports = net.ports[w]
           /\ \E e \in devices : e.id = job[w].dev /\ e.name = w
           /\ \A e \in devices : e.id = job[w].dev => e.name = w
BY DEF Sound, JobSound, Progress, Known, Worker, Tables

LEMMA CrawlWrites ==
    ASSUME Sound, NEW w \in Device, Progress(w), ThreadStep(w)
    PROVE  KeepsRows /\ Writes(w)
<1>1. w \in Worker /\ JobSound(w) /\ Tables
  BY DEF Sound, Worker
<1>2. CASE UNCHANGED interfaces
  BY <1>2 DEF KeepsRows, Writes, SamePort
<1>3. CASE UpsertInterface(w)
  <2>1. PICK p \in job[w].todo :
           \/ \E new \in Row :
                 /\ new.id = nextId /\ new.dev = job[w].dev /\ new.name = p
                 /\ new.link = NoId /\ interfaces' = interfaces \cup {new}
           \/ \E q \in job[w].rows : q.name = p /\ interfaces' = Updated(interfaces, q)
    BY <1>1, <1>3, UpsertJob
  <2>2. p \in net.ports[w] /\ w \in net.up
    BY <1>1, <1>3, UpsertJob, AtWork DEF JobSound
  <2>3. ASSUME NEW new \in Row, new.id = nextId, new.dev = job[w].dev, new.name = p,
               new.link = NoId, interfaces' = interfaces \cup {new}
        PROVE  KeepsRows /\ Writes(w)
    BY <2>2, <2>3 DEF KeepsRows, Writes, SamePort
  <2>4. ASSUME NEW q \in job[w].rows, interfaces' = Updated(interfaces, q)
        PROVE  KeepsRows /\ Writes(w)
    <3>1. CopyOK(interfaces, q)
      BY <1>1 DEF JobSound
    <3>2. KeepsRows
      BY <2>4, <3>1 DEF KeepsRows, Updated, SamePort, CopyOK
    <3>3. Writes(w)
      BY <2>4, <3>1 DEF Writes, Updated, SamePort, CopyOK, Ids
    <3>4. QED
      BY <3>2, <3>3
  <2>5. QED
    BY <2>1, <2>3, <2>4
<1>4. CASE UnlinkPeer(w)
  <2>1. PICK q \in job[w].peers, c \in Row :
           /\ c.id = q.id /\ c.dev = q.dev /\ c.name = q.name /\ c.link = NoId
           /\ interfaces' = Updated(interfaces, c)
    BY <1>1, <1>4, UnlinkJob
  <2>2. CopyOK(interfaces, q)
    BY <1>1 DEF JobSound
  <2>3. KeepsRows
    BY <2>1, <2>2 DEF KeepsRows, Updated, SamePort, CopyOK
  <2>4. Writes(w)
    BY <2>1, <2>2 DEF Writes, Updated, SamePort, CopyOK, Ids
  <2>5. QED
    BY <2>3, <2>4
<1>5. CASE DeleteInterface(w)
  <2>1. interfaces' = Deleted(job[w].doomed) /\ job[w].at = "delete"
    BY <1>1, <1>5, DeleteJob
  <2>2. ASSUME NEW r \in interfaces, NEW e \in devices, e.id = r.dev, r.id = job[w].doomed
        PROVE  r.name \notin net.ports[e.name]
    <3>1. r.dev = job[w].dev /\ r.name \notin job[w].ports
      BY <2>1, <2>2 DEF Progress
    <3>2. QED
      BY <2>1, <2>2, <3>1, AtWork
  <2>3. KeepsRows
    BY <2>1, <2>2 DEF KeepsRows, Deleted, SamePort
  <2>4. Writes(w)
    BY <2>1 DEF Writes, Deleted, SamePort
  <2>5. QED
    BY <2>3, <2>4
<1>6. QED
  BY <1>2, <1>3, <1>4, <1>5
     DEF ThreadStep, Collect, FindDevice, CreateDevice, LoadInterfaces, BeginDelete, EndIngest

LEMMA AimIsUp ==
    ASSUME NEW d, NEW p, NEW i \in Aim(d, p)
    PROVE  i.device \in net.up /\ i.port \in net.ports[i.device] /\ i = net.sees[[device |-> d, port |-> p]]
BY DEF Aim, Resolved

LEMMA LeadsOn ==
    ASSUME Grows, KeepsRows, NEW l, NEW i, LeadsTo(l, i), i.device \in net.up, i.port \in net.ports[i.device]
    PROVE  LeadsTo(l, i)'
BY DEF Grows, KeepsRows, LeadsTo, SamePort

LEMMA AimStays == ASSUME UNCHANGED net PROVE \A d, p : Aim(d, p)' = Aim(d, p)
BY DEF Aim, Resolved

LEMMA WeakStays ==
    ASSUME Tables', Grows, KeepsRows, UNCHANGED net, NEW q, q.dev \in Ids(devices), Weak(q)
    PROVE  Weak(q)'
<1> SUFFICES ASSUME NEW e \in devices', e.id = q.dev, e.name \in net.up, q.link # NoId
             PROVE  \E i \in Aim(e.name, q.name) : LeadsTo(q.link, i)'
  BY AimStays DEF Weak
<1>1. e \in devices
  BY DEF Ids, Grows, Tables
<1>2. PICK i \in Aim(e.name, q.name) : LeadsTo(q.link, i)
  BY <1>1 DEF Weak
<1>3. QED
  BY <1>2, AimIsUp, LeadsOn

\* Another thread's step leaves a thread as far as it was.
LEMMA OthersProgress ==
    ASSUME Sound, Tables', Grows, KeepsRows, UNCHANGED net, OneRow', NEW d \in Device, Progress(d),
           job'[d] = job[d], \A i \in Ifc : i.device = d => run'.sees[i] = run.sees[i]
    PROVE  Progress(d)'
<1>1. d \in Worker /\ JobSound(d) /\ Tables
  BY DEF Sound, Worker
<1>2. ASSUME job[d].at = "off", job[d].detected
      PROVE  /\ \E e \in devices' : e.name = d
             /\ \A e \in devices' : e.name = d => \A p \in net.ports[d] : HasRow(e.id, p)'
  <2>1. PICK e \in devices : e.name = d
    BY <1>2 DEF Progress
  <2>2. \A e2 \in devices' : e2.name = d => e2 = e
    BY <2>1 DEF OneRow, Grows
  <2>3. d \in net.up /\ \A p \in net.ports[d] : HasRow(e.id, p)
    BY <1>2, <2>1 DEF Progress
  <2>4. \A p \in net.ports[d] : HasRow(e.id, p)'
    BY <2>1, <2>3 DEF HasRow, KeepsRows, SamePort
  <2>5. QED
    BY <2>1, <2>2, <2>4 DEF Grows
<1>3. ASSUME job[d].at \in {"upsert", "delete"}
      PROVE  /\ \A p \in job[d].ports \ job[d].todo : HasRow(job[d].dev, p)'
             /\ \A q \in job[d].rows : q.name \in job[d].ports => q.id \in Ids(interfaces')
  <2>1. PICK e \in devices : e.id = job[d].dev /\ e.name = d /\ d \in net.up /\ job[d].ports = net.ports[d]
    BY <1>3, AtWork
  <2>2. ASSUME NEW p, p \in job[d].ports \ job[d].todo
        PROVE  \E q \in interfaces' : q.dev = job[d].dev /\ q.name = p
    BY <1>3, <2>1, <2>2 DEF Progress, HasRow, KeepsRows, SamePort
  <2>3. ASSUME NEW q \in job[d].rows, q.name \in job[d].ports
        PROVE  q.id \in Ids(interfaces')
    <3>1. PICK r \in interfaces : r.id = q.id
      BY <1>3, <2>3 DEF Progress, Ids
    <3>2. r.dev = job[d].dev /\ r.name = q.name
      BY <1>1, <3>1 DEF JobSound, CopyOK
    <3>3. QED
      BY <2>1, <2>3, <3>1, <3>2 DEF KeepsRows, SamePort, Ids
  <2>4. \A p \in job[d].ports \ job[d].todo : HasRow(job[d].dev, p)'
    BY <2>2 DEF HasRow
  <2>5. QED
    BY <2>3, <2>4
<1>4. ASSUME job[d].at = "delete", NEW r \in interfaces', r.id = job[d].doomed
      PROVE  r.dev = job[d].dev /\ r.name \notin job[d].ports
  <2>1. r.id < nextId /\ r.id \in Nat /\ nextId \in Nat
    BY <1>1, <1>4 DEF JobSound, Tables, Row
  <2>2. QED
    BY <1>4, <2>1 DEF Grows, SamePort, Progress
<1>5. QED
  BY <1>2, <1>3, <1>4 DEF Progress

LEMMA OwnProgress ==
    ASSUME Sound, Sound', Grows, KeepsRows, OneRow', NEW w \in Device, Progress(w), ThreadStep(w)
    PROVE  Progress(w)'
<1>1. w \in Worker /\ w # Single /\ JobSound(w) /\ Tables /\ JobSound(w)' /\ Tables'
  BY SingleAssumption DEF Sound, Worker
<1>2. CASE Collect(w)
  <2>1. job[w].device = w
    BY <1>1, <1>2 DEF Collect, JobSound
  <2>2. UNCHANGED <<net, interfaces, devices>>
    BY <1>1, <1>2, CollectJob DEF Frame
  <2>3. CASE job'[w] = Idle
    BY <1>1, <1>2, <2>1, <2>2, <2>3, CollectJob, IdleJob DEF Progress
  <2>4. CASE job'[w] # Idle
    BY <1>1, <1>2, <2>1, <2>2, <2>4, CollectJob DEF Progress
  <2>5. QED
    BY <2>3, <2>4
<1>3. CASE FindDevice(w)
  <2>1. job[w].at = "find"
    BY <1>3 DEF FindDevice
  <2>2. QED
    BY <1>1, <1>3, <2>1, FindJob DEF Progress, SameDevice, Frame
<1>4. CASE CreateDevice(w)
  <2>1. job[w].at = "create"
    BY <1>4 DEF CreateDevice
  <2>2. QED
    BY <1>1, <1>4, <2>1, CreateJob DEF Progress, SameDevice, Frame
<1>5. CASE LoadInterfaces(w)
  <2>1. job[w].at = "load" /\ job[w].detected
    BY <1>1, <1>5, LoadJob DEF Progress
  <2>2. \A q \in job'[w].rows : q.id \in Ids(interfaces')
    BY <1>1, <1>5, LoadJob DEF InterfacesOf, Ids
  <2>3. job'[w].at = "upsert" /\ job'[w].ports \ job'[w].todo = {}
    BY <1>1, <1>5, LoadJob DEF SameDevice
  <2>4. QED
    BY <1>1, <1>5, <2>1, <2>2, <2>3, LoadJob DEF Progress, SameDevice, Frame
<1>6. CASE UpsertInterface(w)
  <2>1. /\ job[w].at = "upsert" /\ job'[w].at = "upsert" /\ job'[w].dev = job[w].dev
        /\ SameDevice(w) /\ SameCopies(w) /\ Frame(w) /\ run' = run
    BY <1>1, <1>6, UpsertJob
  <2>2. PICK p \in job[w].todo :
           /\ job'[w].todo = job[w].todo \ {p}
           /\ \/ \E new \in Row :
                    /\ new.id = nextId /\ new.dev = job[w].dev /\ new.name = p
                    /\ new.link = NoId /\ interfaces' = interfaces \cup {new}
              \/ \E q \in job[w].rows : q.name = p /\ interfaces' = Updated(interfaces, q)
    BY <1>1, <1>6, UpsertJob
  <2>3. PICK e \in devices : e.id = job[w].dev /\ e.name = w /\ w \in net.up
                             /\ job[w].ports = net.ports[w] /\ job[w].detected
    BY <2>1, AtWork
  <2>4. p \in job[w].ports
    BY <1>1, <2>1 DEF JobSound
  <2>5. \A p2 \in job[w].ports : HasRow(job[w].dev, p2) =>
            \E r \in interfaces' : r.dev = job[w].dev /\ r.name = p2
    BY <2>3 DEF HasRow, KeepsRows, SamePort
  <2>6. \E r \in interfaces' : r.dev = job[w].dev /\ r.name = p
    <3>1. CASE \E q \in job[w].rows : q.name = p
      <4>1. PICK q \in job[w].rows : q.name = p
        BY <3>1
      <4>2. PICK r \in interfaces : r.id = q.id
        BY <2>1, <2>4, <4>1 DEF Progress, Ids
      <4>3. r.dev = job[w].dev /\ r.name = p
        BY <1>1, <4>1, <4>2 DEF JobSound, CopyOK
      <4>4. QED
        BY <2>4, <2>5, <4>3 DEF HasRow
    <3>2. CASE ~\E q \in job[w].rows : q.name = p
      BY <2>2, <3>2
    <3>3. QED
      BY <3>1, <3>2
  <2>7. \A p2 \in job[w].ports \ job'[w].todo : \E r \in interfaces' : r.dev = job[w].dev /\ r.name = p2
    BY <2>1, <2>2, <2>5, <2>6 DEF Progress
  <2>8. ASSUME NEW q \in job[w].rows, q.name \in job[w].ports
        PROVE  q.id \in Ids(interfaces')
    <3>1. PICK r \in interfaces : r.id = q.id
      BY <2>1, <2>8 DEF Progress, Ids
    <3>2. r.dev = job[w].dev /\ r.name = q.name
      BY <1>1, <3>1 DEF JobSound, CopyOK
    <3>3. QED
      BY <2>3, <2>8, <3>1, <3>2 DEF KeepsRows, SamePort, Ids
  <2>9. \A p2 \in job'[w].ports \ job'[w].todo : HasRow(job[w].dev, p2)'
    BY <2>1, <2>7 DEF HasRow, SameDevice
  <2>10. QED
    BY <1>1, <2>1, <2>3, <2>8, <2>9 DEF Progress, SameDevice, SameCopies, Frame
<1>7. CASE BeginDelete(w)
  <2>1. /\ job[w].at = "upsert" /\ job'[w].at = "delete" /\ job'[w].dev = job[w].dev
        /\ SameDevice(w) /\ Frame(w) /\ run' = run /\ job'[w].todo = job[w].todo
        /\ UNCHANGED <<interfaces, devices>>
    BY <1>1, <1>7, BeginDeleteJob
  <2>2. PICK r \in Stale(w) : job'[w].doomed = r.id /\ job'[w].rows = job[w].rows \ {r}
    BY <1>1, <1>7, BeginDeleteJob
  <2>3. \A q \in interfaces : q.id = r.id => q.dev = job[w].dev /\ q.name \notin job[w].ports
    BY <1>1 DEF Stale, JobSound, CopyOK
  <2>4. \A p \in job'[w].ports \ job'[w].todo : HasRow(job[w].dev, p)'
    BY <2>1 DEF Progress, SameDevice, HasRow
  <2>5. QED
    BY <1>1, <2>1, <2>2, <2>3, <2>4 DEF Progress, SameDevice, Frame
<1>8. CASE UnlinkPeer(w) \/ DeleteInterface(w)
  <2>1. /\ job[w].at = "delete" /\ job'[w].at \in {"upsert", "delete"} /\ job'[w].dev = job[w].dev
        /\ SameDevice(w) /\ Frame(w) /\ run' = run /\ job'[w].todo = job[w].todo
        /\ job'[w].rows = job[w].rows /\ UNCHANGED devices
        /\ job'[w].at = "delete" => job'[w].doomed = job[w].doomed
    BY <1>1, <1>8, UnlinkJob, DeleteJob DEF SameCopies
  <2>2. PICK e \in devices : e.id = job[w].dev /\ e.name = w /\ w \in net.up
                             /\ job[w].ports = net.ports[w] /\ job[w].detected
    BY <2>1, AtWork
  <2>3. \A p \in job[w].ports \ job[w].todo : \E r \in interfaces' : r.dev = job[w].dev /\ r.name = p
    BY <2>1, <2>2 DEF Progress, HasRow, KeepsRows, SamePort
  <2>4. ASSUME NEW q \in job[w].rows, q.name \in job[w].ports
        PROVE  q.id \in Ids(interfaces')
    <3>1. PICK r \in interfaces : r.id = q.id
      BY <2>1, <2>4 DEF Progress, Ids
    <3>2. r.dev = job[w].dev /\ r.name = q.name
      BY <1>1, <3>1 DEF JobSound, CopyOK
    <3>3. QED
      BY <2>2, <2>4, <3>1, <3>2 DEF KeepsRows, SamePort, Ids
  <2>5. ASSUME NEW r \in interfaces', r.id = job[w].doomed
        PROVE  r.dev = job[w].dev /\ r.name \notin job[w].ports
    <3>1. r.id < nextId /\ r.id \in Nat /\ nextId \in Nat
      BY <1>1, <2>1, <2>5 DEF JobSound, Tables, Row
    <3>2. QED
      BY <2>1, <2>5, <3>1 DEF Grows, SamePort, Progress
  <2>6. \A p \in job'[w].ports \ job'[w].todo : HasRow(job[w].dev, p)'
    BY <2>1, <2>3 DEF HasRow, SameDevice
  <2>7. QED
    BY <1>1, <2>1, <2>2, <2>4, <2>5, <2>6 DEF Progress, SameDevice, Frame
<1>9. CASE EndIngest(w)
  <2>1. /\ job[w].at = "upsert" /\ job[w].todo = {} /\ job'[w].at = "off" /\ job'[w].detected
        /\ job'[w].ports = job[w].ports /\ Frame(w) /\ UNCHANGED <<devices, interfaces, run>>
    BY <1>1, <1>9, EndJob
  <2>2. PICK e \in devices : e.id = job[w].dev /\ e.name = w /\ w \in net.up
                             /\ job[w].ports = net.ports[w] /\ job[w].detected
    BY <2>1, AtWork
  <2>3. \A e2 \in devices' : e2.name = w => e2.id = job[w].dev
    BY <2>1, <2>2 DEF OneRow
  <2>4. \A p \in net.ports[w] : \E r \in interfaces' : r.dev = job[w].dev /\ r.name = p
    BY <2>1, <2>2 DEF Progress, HasRow
  <2>5. \A e2 \in devices' : e2.name = w => \A p \in net'.ports[w] : HasRow(e2.id, p)'
    BY <2>1, <2>3, <2>4 DEF HasRow, Frame
  <2>6. QED
    BY <2>1, <2>2, <2>5 DEF Progress, Frame
<1>10. QED
  BY <1>2, <1>3, <1>4, <1>5, <1>6, <1>7, <1>8, <1>9 DEF ThreadStep

-----------------------------------------------------------------------------
(* The crawl after an undisturbed run writes weak rows only, and deletes   *)
(* every stale row: what links to it is unlinked first, and nothing else   *)
(* comes to link to it.                                                    *)

LEMMA WeakRow ==
    ASSUME NEW r, NEW q, r.dev = q.dev, r.name = q.name, q.link \in {r.link, NoId}, Weak(r)
    PROVE  Weak(q)
BY DEF Weak

LEMMA CrawlStaysWeak ==
    ASSUME Tables, Tables', Grows, KeepsRows, UNCHANGED net, NEW w \in Device, Writes(w),
           Known(job[w].dev, w), AllWeak, \A q \in job[w].rows : Weak(q)
    PROVE  AllWeak'
<1> SUFFICES ASSUME NEW q \in interfaces' PROVE Weak(q)'
  BY DEF AllWeak
<1>1. CASE \E r \in interfaces : SamePort(r, q) /\ (q.link = r.link \/ q.link = NoId \/ q \in job[w].rows)
  <2>1. PICK r \in interfaces : SamePort(r, q) /\ (q.link = r.link \/ q.link = NoId \/ q \in job[w].rows)
    BY <1>1
  <2>2. Weak(q)
    BY <2>1, WeakRow DEF AllWeak, SamePort
  <2>3. q.dev \in Ids(devices)
    BY <2>1 DEF Tables, SamePort
  <2>4. QED
    BY <2>2, <2>3, WeakStays
<1>2. CASE q.link = NoId
  BY <1>2 DEF Weak
<1>3. QED
  BY <1>1, <1>2 DEF Writes

\* No weak row links to a stale one.
LEMMA StaleUnlinked ==
    ASSUME Sound, NEW d \in Device, Progress(d), job[d].at = "delete",
           NEW q, Weak(q), NEW e \in devices, e.id = q.dev, e.name \in net.up
    PROVE  q.link # job[d].doomed
<1> SUFFICES ASSUME q.link = job[d].doomed PROVE FALSE
  OBVIOUS
<1>1. q.link # NoId
  BY DEF Sound, JobSound, Worker
<1>2. PICK i \in Aim(e.name, q.name) : LeadsTo(q.link, i)
  BY <1>1 DEF Weak
<1>3. PICK t \in interfaces, f \in devices :
          t.id = job[d].doomed /\ f.id = t.dev /\ f.name = i.device /\ t.name = i.port
  BY <1>2 DEF LeadsTo
<1>4. f.id = job[d].dev /\ t.name \notin job[d].ports
  BY <1>3 DEF Progress
<1>5. f.name = d /\ job[d].ports = net.ports[d]
  BY <1>4, AtWork
<1>6. i.port \in net.ports[i.device]
  BY <1>2, AimIsUp
<1>7. QED
  BY <1>3, <1>4, <1>5, <1>6

LEMMA OthersRepaired ==
    ASSUME Sound, Tables', Grows, KeepsRows, UNCHANGED net, OneRow', NEW w \in Device, Writes(w),
           job[w].at \in {"load", "upsert", "delete"} \/ interfaces' = interfaces,
           Progress(w), \A q \in job[w].rows : Weak(q),
           NEW d \in Device, d # w, Progress(d), Repaired(d), job'[d] = job[d]
    PROVE  Repaired(d)'
<1>1. d \in Worker /\ JobSound(d) /\ Tables /\ JobSound(w) /\ w \in Worker
  BY DEF Sound, Worker
<1>2. \A q \in job[d].rows : Weak(q)'
  <2>1. \A q \in job[d].rows : q.dev \in Ids(devices)
    BY <1>1 DEF JobSound, Known, Ids
  <2>2. QED
    BY <2>1, WeakStays DEF Repaired
\* Another thread inserts rows of its own device only.
<1>3. ASSUME NEW r \in interfaces', NEW e \in devices, e.name = d, r.dev = e.id
      PROVE  \E r0 \in interfaces : SamePort(r0, r)
  <2> SUFFICES ASSUME r.id = nextId, r.dev = job[w].dev, ~\E r0 \in interfaces : SamePort(r0, r)
               PROVE  FALSE
    BY DEF Writes
  <2>1. CASE interfaces' = interfaces
    BY <2>1 DEF SamePort
  <2>2. CASE job[w].at \in {"load", "upsert", "delete"}
    <3>1. \A e2 \in devices : e2.id = job[w].dev => e2.name = w
      BY <2>2, AtWork
    <3>2. QED
      BY <1>3, <3>1
  <2>3. QED
    BY <2>1, <2>2
<1>4. ASSUME job[d].at \in {"upsert", "delete"},
             NEW r \in interfaces', r.dev = job[d].dev, r.name \notin job[d].ports
      PROVE  r.id \in Ids(job[d].rows) \/ (job[d].at = "delete" /\ r.id = job[d].doomed)
  <2>1. PICK e \in devices : e.name = d /\ e.id = job[d].dev
    BY <1>4, AtWork
  <2>2. PICK r0 \in interfaces : SamePort(r0, r)
    BY <1>3, <1>4, <2>1
  <2>3. QED
    BY <1>4, <2>2 DEF SamePort, Repaired
<1>5. ASSUME job[d].at = "off", job[d].detected,
             NEW e \in devices', NEW r \in interfaces', e.name = d, r.dev = e.id
      PROVE  r.name \in net.ports[d]
  <2>1. PICK e0 \in devices : e0.name = d
    BY <1>5 DEF Progress
  <2>2. e0 = e
    BY <1>5, <2>1 DEF OneRow, Grows
  <2>3. PICK r0 \in interfaces : SamePort(r0, r)
    BY <1>3, <1>5, <2>1, <2>2
  <2>4. QED
    BY <1>5, <2>1, <2>2, <2>3 DEF SamePort, Repaired
<1>6. ASSUME job[d].at = "delete",
             NEW r \in interfaces', r.link = job[d].doomed, r.id # job[d].doomed
      PROVE  r.id \in Ids(job[d].peers)
  <2>1. r.link # NoId
    BY <1>1, <1>6 DEF JobSound
  <2>2. PICK r0 \in interfaces : SamePort(r0, r) /\ (r.link = r0.link \/ r \in job[w].rows)
    BY <2>1 DEF Writes
  <2>3. CASE r.link = r0.link
    BY <1>6, <2>2, <2>3 DEF SamePort, Repaired
  <2>4. CASE r \in job[w].rows
    <3>1. job[w].at \in {"upsert", "delete"} /\ r.dev = job[w].dev
      BY <1>1, <2>4 DEF JobSound
    <3>2. PICK e \in devices : e.id = r.dev /\ e.name = w /\ w \in net.up
      BY <3>1, AtWork
    <3>3. QED
      BY <1>6, <2>4, <3>2, StaleUnlinked
  <2>5. QED
    BY <2>2, <2>3, <2>4
<1>7. QED
  BY <1>2, <1>4, <1>5, <1>6 DEF Repaired

LEMMA OwnRepaired ==
    ASSUME Sound, Sound', Grows, KeepsRows, UNCHANGED net, OneRow', NEW w \in Device, Writes(w),
           Progress(w), Repaired(w), AllWeak, ThreadStep(w)
    PROVE  Repaired(w)'
<1>1. w \in Worker /\ w # Single /\ JobSound(w) /\ Tables /\ JobSound(w)' /\ Tables'
  BY SingleAssumption DEF Sound, Worker
<1>2. ASSUME NEW q \in job[w].rows PROVE Weak(q)'
  <2>1. q.dev \in Ids(devices)
    BY <1>1 DEF JobSound, Known, Ids
  <2>2. QED
    BY <1>1, <2>1, WeakStays DEF Repaired
<1>3. CASE Collect(w) \/ FindDevice(w) \/ CreateDevice(w)
  <2>1. CASE job'[w] = Idle
    BY <2>1, IdleJob DEF Repaired
  <2>2. CASE job'[w] # Idle
    <3>1. job'[w].at \in {"find", "create", "load"}
      BY <1>1, <1>3, <2>2, CollectJob, FindJob, CreateJob
    <3>2. QED
      BY <1>1, <3>1 DEF JobSound, Repaired
  <2>3. QED
    BY <2>1, <2>2
<1>4. CASE LoadInterfaces(w)
  <2>1. /\ job'[w].at = "upsert" /\ job'[w].rows = InterfacesOf(job[w].dev)
        /\ job'[w].dev = job[w].dev /\ UNCHANGED interfaces
    BY <1>1, <1>4, LoadJob
  <2>2. \A q \in job'[w].rows : Weak(q)'
    BY <2>1, <1>1, WeakStays DEF InterfacesOf, AllWeak, Tables
  <2>3. \A r \in interfaces' : r.dev = job'[w].dev => r.id \in Ids(job'[w].rows)
    BY <2>1 DEF InterfacesOf, Ids
  <2>4. QED
    BY <2>1, <2>2, <2>3 DEF Repaired
<1>5. CASE UpsertInterface(w)
  <2>1. /\ job[w].at = "upsert" /\ job'[w].at = "upsert" /\ job'[w].dev = job[w].dev
        /\ SameDevice(w) /\ SameCopies(w)
    BY <1>1, <1>5, UpsertJob
  <2>2. ASSUME NEW r \in interfaces', r.dev = job[w].dev, r.name \notin job[w].ports
        PROVE  r.id \in Ids(job[w].rows)
    <3>1. job[w].ports = net.ports[w]
      BY <2>1, AtWork
    <3>2. PICK r0 \in interfaces : SamePort(r0, r)
      BY <2>2, <3>1 DEF Writes
    <3>3. QED
      BY <2>1, <2>2, <3>2 DEF SamePort, Repaired
  <2>3. QED
    BY <1>2, <2>1, <2>2 DEF Repaired, SameDevice, SameCopies
<1>6. CASE BeginDelete(w)
  <2>1. /\ job[w].at = "upsert" /\ job'[w].at = "delete" /\ job'[w].dev = job[w].dev
        /\ SameDevice(w) /\ UNCHANGED interfaces
    BY <1>1, <1>6, BeginDeleteJob
  <2>2. PICK r \in Stale(w) : /\ job'[w].doomed = r.id /\ job'[w].rows = job[w].rows \ {r}
                              /\ job'[w].peers = {q \in interfaces : q.link = r.id}
    BY <1>1, <1>6, BeginDeleteJob
  <2>3. ASSUME NEW q \in interfaces, q.dev = job[w].dev, q.name \notin job[w].ports
        PROVE  q.id \in Ids(job'[w].rows) \/ q.id = job'[w].doomed
    BY <2>1, <2>2, <2>3 DEF Repaired, Ids
  <2>4. \A q \in interfaces : q.link = r.id => q.id \in Ids(job'[w].peers)
    BY <2>2 DEF Ids
  <2>5. QED
    BY <1>2, <2>1, <2>2, <2>3, <2>4 DEF Repaired, SameDevice
<1>7. CASE UnlinkPeer(w)
  <2>1. /\ job[w].at = "delete" /\ job'[w].at = "delete" /\ job'[w].dev = job[w].dev
        /\ SameDevice(w) /\ job'[w].rows = job[w].rows /\ job'[w].doomed = job[w].doomed
    BY <1>1, <1>7, UnlinkJob
  <2>2. PICK q \in job[w].peers, c \in Row :
           /\ c.id = q.id /\ c.dev = q.dev /\ c.name = q.name /\ c.link = NoId
           /\ interfaces' = Updated(interfaces, c) /\ job'[w].peers = job[w].peers \ {q}
    BY <1>1, <1>7, UnlinkJob
  <2>3. job[w].doomed # NoId /\ CopyOK(interfaces, q)
    BY <1>1, <2>1 DEF JobSound
  <2>4. ASSUME NEW r \in interfaces', r.dev = job[w].dev, r.name \notin job[w].ports
        PROVE  r.id \in Ids(job[w].rows) \/ r.id = job[w].doomed
    <3>1. job[w].ports = net.ports[w]
      BY <2>1, AtWork
    <3>2. PICK r0 \in interfaces : SamePort(r0, r)
      BY <2>4, <3>1 DEF Writes
    <3>3. QED
      BY <2>1, <2>4, <3>2 DEF SamePort, Repaired
  <2>5. ASSUME NEW r \in interfaces', r.link = job[w].doomed, r.id # job[w].doomed
        PROVE  r.id \in Ids(job'[w].peers)
    <3>1. r # c /\ r \in interfaces
      BY <2>2, <2>3, <2>5 DEF Updated
    <3>2. r.id # q.id
      BY <2>2, <2>3, <3>1, <2>5 DEF Updated, Ids
    <3>3. r.id \in Ids(job[w].peers)
      BY <2>1, <2>5, <3>1 DEF Repaired
    <3>4. QED
      BY <2>2, <3>2, <3>3 DEF Ids
  <2>6. QED
    BY <1>2, <2>1, <2>4, <2>5 DEF Repaired, SameDevice
<1>8. CASE DeleteInterface(w)
  <2>1. /\ job[w].at = "delete" /\ job'[w].at = "upsert" /\ job'[w].dev = job[w].dev
        /\ SameDevice(w) /\ SameCopies(w) /\ job[w].peers = {}
        /\ interfaces' = Deleted(job[w].doomed)
    BY <1>1, <1>8, DeleteJob
  <2>2. ~Referenced(job[w].doomed)
    BY <2>1 DEF Repaired, Referenced, Ids
  <2>3. interfaces' = {r \in interfaces : r.id # job[w].doomed}
    BY <2>1, <2>2 DEF Deleted
  <2>4. ASSUME NEW r \in interfaces', r.dev = job[w].dev, r.name \notin job[w].ports
        PROVE  r.id \in Ids(job[w].rows)
    BY <2>1, <2>3, <2>4 DEF Repaired
  <2>5. QED
    BY <1>2, <2>1, <2>4 DEF Repaired, SameDevice, SameCopies
<1>9. CASE EndIngest(w)
  <2>1. /\ job[w].at = "upsert" /\ Stale(w) = {} /\ job'[w].at = "off" /\ job'[w].rows = {}
        /\ UNCHANGED <<devices, interfaces>>
    BY <1>1, <1>9, EndJob
  <2>2. PICK e \in devices : e.id = job[w].dev /\ e.name = w /\ job[w].ports = net.ports[w]
    BY <2>1, AtWork
  <2>3. ASSUME NEW e2 \in devices, NEW r \in interfaces, e2.name = w, r.dev = e2.id
        PROVE  r.name \in net.ports[w]
    <3>1. r.dev = job[w].dev
      BY <2>1, <2>2, <2>3 DEF OneRow
    <3>2. ASSUME r.name \notin job[w].ports PROVE FALSE
      <4>1. PICK q \in job[w].rows : q.id = r.id
        BY <2>1, <3>1, <3>2 DEF Repaired, Ids
      <4>2. q.name = r.name
        BY <1>1, <4>1 DEF JobSound, CopyOK
      <4>3. QED
        BY <2>1, <3>2, <4>1, <4>2 DEF Stale
    <3>3. QED
      BY <2>2, <3>2
  <2>4. QED
    BY <2>1, <2>3 DEF Repaired
<1>10. QED
  BY <1>3, <1>4, <1>5, <1>6, <1>7, <1>8, <1>9 DEF ThreadStep

\* Only the device a thread crawls has its neighbors read.
LEMMA OthersSees ==
    ASSUME Sound, NEW w \in Device, ThreadStep(w), NEW d \in Device, d # w
    PROVE  \A i \in Ifc : i.device = d => run'.sees[i] = run.sees[i]
<1>1. w \in Worker
  BY DEF Worker
<1>2. CASE Collect(w)
  <2>1. job[w].device = w
    BY <1>1, <1>2 DEF Collect, Sound, JobSound
  <2>2. QED
    BY <1>1, <1>2, <2>1, CollectJob
<1>3. CASE run' = run
  BY <1>3
<1>4. QED
  BY <1>2, <1>3
     DEF ThreadStep, FindDevice, CreateDevice, LoadInterfaces, UpsertInterface, BeginDelete,
         UnlinkPeer, DeleteInterface, EndIngest

LEMMA ThreadRepairs ==
    ASSUME SInv, NEW w \in Worker, ThreadStep(w)
    PROVE  SInv'
<1>1. Sound' /\ Frame(w) /\ Grows /\ job[w].at # "off" /\ Sound /\ Undisturbed
  BY ThreadSound DEF SInv
<1>2. /\ run'.phase = run.phase /\ run'.stable = run.stable /\ run'.calm = run.calm
      /\ quiet' = quiet /\ net' = net /\ Calm' = Calm
  BY <1>1 DEF Frame, SameRun, Calm
<1>3. CASE w = Single
  <2>1. ~Calm /\ quiet = 0
    BY <1>1, <1>3 DEF Undisturbed
  <2>2. QED
    BY <1>1, <1>2, <2>1 DEF SInv, Undisturbed, Repairing, Crawling, Recrawling, LinksDue
<1>4. CASE w # Single
  <2>1. w \in Device /\ run.phase = "ingest" /\ job'[Single] = job[Single]
    BY <1>1, <1>4 DEF Worker, Sound, RunSound, Frame, OthersKeep
  <2>2. Undisturbed'
    BY <1>1, <1>2, <2>1 DEF Undisturbed
  <2>3. CASE ~Calm
    <3>1. quiet = 0
      BY <1>1, <2>1, <2>3 DEF Undisturbed, Calm
    <3>2. QED
      BY <1>1, <1>2, <2>2, <2>3, <3>1 DEF SInv, Repairing, Crawling, Recrawling, LinksDue
  <2>4. CASE Calm
    <3> SUFFICES ASSUME OneRow' PROVE Repairing'
      BY <1>1, <2>2 DEF SInv
    <3>1. OneRow /\ Repairing /\ \A d \in Device : Progress(d)
      BY <1>1, <2>4 DEF OneRow, Grows, SInv, Repairing, Crawling
    <3>2. KeepsRows /\ Writes(w) /\ Tables /\ Tables'
      BY <1>1, <2>1, <3>1, CrawlWrites DEF Sound
    <3>3. \A d \in Device \ {w} : job'[d] = job[d]
      BY <1>1 DEF Frame, OthersKeep, Worker
    <3>4. \A d \in Device \ {w} : Progress(d)'
      BY <1>1, <1>2, <2>1, <3>1, <3>2, <3>3, OthersProgress, OthersSees
    <3>5. Progress(w)'
      BY <1>1, <2>1, <3>1, <3>2, OwnProgress
    <3>6. ASSUME quiet # 0
          PROVE  AllWeak' /\ \A d \in Device : Repaired(d)'
      <4>1. AllWeak /\ \A d \in Device : Repaired(d)
        BY <2>4, <3>1, <3>6 DEF Repairing, Recrawling
      <4>2. \A q \in job[w].rows : Weak(q)
        BY <2>1, <4>1 DEF Repaired
      <4>3. job[w].at \in {"load", "upsert", "delete"} \/ interfaces' = interfaces
        BY <1>1, CollectJob, FindJob, CreateJob, LoadJob, UpsertJob, BeginDeleteJob, UnlinkJob,
           DeleteJob, EndJob DEF ThreadStep
      <4>4. \A d \in Device \ {w} : Repaired(d)'
        BY <1>1, <1>2, <2>1, <3>1, <3>2, <3>3, <4>1, <4>2, <4>3, OthersRepaired
      <4>5. Repaired(w)'
        BY <1>1, <1>2, <2>1, <3>1, <3>2, <4>1, OwnRepaired
      <4>6. AllWeak'
        <5>1. CASE interfaces' = interfaces
          <6>1. \A q \in interfaces : q.dev \in Ids(devices) /\ Weak(q)
            BY <3>2, <4>1 DEF AllWeak, Tables
          <6>2. UNCHANGED net /\ Tables' /\ Grows /\ KeepsRows
            BY <1>1, <1>2, <3>2
          <6>3. \A q \in interfaces : Weak(q)'
            BY <6>1, <6>2, WeakStays
          <6>4. QED
            BY <5>1, <6>3 DEF AllWeak
        <5>2. CASE job[w].at \in {"load", "upsert", "delete"}
          <6>1. Known(job[w].dev, w)
            BY <1>1, <2>1, <3>1, <5>2, AtWork DEF Known
          <6>2. UNCHANGED net /\ Tables /\ Tables' /\ Grows /\ KeepsRows /\ Writes(w)
            BY <1>1, <1>2, <3>2
          <6>3. QED
            BY <2>1, <4>1, <4>2, <6>1, <6>2, CrawlStaysWeak
        <5>3. QED
          BY <4>3, <5>1, <5>2
      <4>7. QED
        BY <4>4, <4>5, <4>6
    <3>7. QED
      BY <1>2, <2>1, <3>4, <3>5, <3>6 DEF Repairing, Crawling, Recrawling, LinksDue
  <2>5. QED
    BY <2>3, <2>4
<1>5. QED
  BY <1>3, <1>4

-----------------------------------------------------------------------------
(* A run from its start over the order of its links to its end.            *)

LEMMA WeakSame ==
    ASSUME UNCHANGED <<net, devices, interfaces>>
    PROVE  \A q : (Weak(q)' <=> Weak(q)) /\ (Exact(q)' <=> Exact(q))
BY DEF Weak, Exact, Aim, Resolved, LeadsTo

LEMMA StartRepairs ==
    ASSUME SInv, StartRun
    PROVE  SInv'
<1>1. /\ Sound /\ Undisturbed /\ Sound' /\ Single \notin Device /\ run.phase = "idle"
      /\ UNCHANGED <<net, devices, interfaces, quiet>>
  BY SingleAssumption, RunSteps DEF SInv, StartRun
<1>2. run'.phase = "ingest" /\ run'.calm = (job[Single].at = "off")
  <2>1. PICK s \in StableModes : run' = [NoRun EXCEPT !.phase = "ingest", !.stable = s,
                                                      !.calm = job[Single].at = "off"]
    BY DEF StartRun
  <2>2. QED
    BY <2>1 DEF NoRun
<1>3. \A d \in Device : job'[d] = Collecting(d)
  BY <1>1 DEF StartRun, Worker
<1>4. job'[Single] = job[Single]
  BY DEF StartRun, Worker
<1>5. \A d \in Device : /\ job'[d].at = "collect" /\ ~job'[d].detected /\ job'[d].rows = {}
  BY <1>3 DEF Collecting, Idle
<1>6. Undisturbed'
  BY <1>1, <1>2, <1>4 DEF Undisturbed, Calm
<1>7. \A d \in Device : Progress(d)' /\ Repaired(d)'
  BY <1>5 DEF Progress, Repaired
<1>8. OneRow' => OneRow /\ (AllWeak => AllWeak')
  BY <1>1, WeakSame DEF OneRow, AllWeak
<1>9. QED
  BY <1>1, <1>2, <1>6, <1>7, <1>8 DEF SInv, Repairing, Crawling, Recrawling, LinksDue

\* Of a device that was not detected nothing is claimed: it is down.
LEMMA BuildRepairs ==
    ASSUME SInv, BuildConnections
    PROVE  SInv'
<1>1. /\ Sound /\ Undisturbed /\ Sound' /\ run.phase = "ingest" /\ run \in Run
      /\ UNCHANGED <<net, devices, interfaces, quiet, job>> /\ \A d \in Device : job[d].at = "off"
  BY RunSteps DEF SInv, BuildConnections, Sound
<1>2. /\ run'.phase = "links" /\ run'.todo = Detected /\ run'.rows = run.rows /\ run'.sees = run.sees
      /\ run'.calm = run.calm /\ run'.stable = run.stable
  BY <1>1 DEF BuildConnections, Run
<1>3. run'.rows = {}
  BY <1>1, <1>2 DEF Sound, RunSound
<1>4. Calm' = Calm /\ Undisturbed'
  BY <1>1, <1>2 DEF Undisturbed, Calm
<1> SUFFICES ASSUME OneRow' PROVE Repairing'
  BY <1>1, <1>4 DEF SInv
<1>5. OneRow /\ Repairing
  BY <1>1 DEF OneRow, SInv
<1>6. Crawling' /\ Recrawling' /\ (quiet' # 0 => AllWeak')
  <2>1. \A d \in Device : (Progress(d)' <=> Progress(d)) /\ (Repaired(d)' <=> Repaired(d))
    BY <1>1, <1>2, WeakSame DEF Progress, Repaired, HasRow
  <2>2. AllWeak' <=> AllWeak
    BY <1>1, WeakSame DEF AllWeak
  <2>3. QED
    BY <1>1, <1>4, <1>5, <2>1, <2>2 DEF Repairing, Crawling, Recrawling
<1>7. LinksDue'
  <2> SUFFICES ASSUME Calm PROVE Linking' /\ Relinking'
    BY <1>4 DEF LinksDue
  <2>1. \A d \in Device : d \notin Detected => d \notin net.up
    BY <1>1, <1>5 DEF Detected, Repairing, Crawling, Progress
  <2>2. ASSUME NEW r \in interfaces', Processed(r)' PROVE Exact(r)' /\ Weak(r)'
    <3>1. \A e \in devices' : e.id = r.dev => e.name \notin net.up
      BY <1>1, <1>2, <2>1, <2>2 DEF Processed, Sound, Tables, DeviceRow
    <3>2. QED
      BY <1>1, <3>1 DEF Exact, Weak
  <2>3. QED
    BY <1>3, <2>2 DEF Linking, Relinking
<1>8. QED
  BY <1>2, <1>6, <1>7 DEF Repairing

\* The rows of the next device are copied: they are not processed yet, and as weak as
\* all rows are.
LEMMA LoadRepairs ==
    ASSUME SInv, LoadLinks
    PROVE  SInv'
<1>1. /\ Sound /\ Undisturbed /\ Sound' /\ run.phase = "links" /\ run \in Run /\ run.rows = {}
      /\ UNCHANGED <<net, devices, interfaces, quiet, job>>
  BY RunSteps DEF SInv, LoadLinks, Sound
<1>2. PICK d \in run.todo : \E r \in DeviceRows(d) :
          run' = [run EXCEPT !.todo = @ \ {d}, !.device = d, !.rows = InterfacesOf(r.id)]
  BY DEF LoadLinks
<1>3. PICK f \in DeviceRows(d) :
          run' = [run EXCEPT !.todo = @ \ {d}, !.device = d, !.rows = InterfacesOf(f.id)]
  BY <1>2
<1>4. /\ run'.phase = "links" /\ run'.todo = run.todo \ {d} /\ run'.rows = InterfacesOf(f.id)
      /\ run'.sees = run.sees /\ run'.calm = run.calm /\ run'.stable = run.stable
  BY <1>1, <1>3 DEF Run
<1>5. Calm' = Calm /\ Undisturbed'
  BY <1>1, <1>4 DEF Undisturbed, Calm
<1> SUFFICES ASSUME OneRow' PROVE Repairing'
  BY <1>1, <1>5 DEF SInv
<1>6. OneRow /\ Repairing
  BY <1>1 DEF OneRow, SInv
<1>7. Crawling' /\ Recrawling' /\ (quiet' # 0 => AllWeak')
  <2>1. \A e \in Device : (Progress(e)' <=> Progress(e)) /\ (Repaired(e)' <=> Repaired(e))
    BY <1>1, <1>4, WeakSame DEF Progress, Repaired, HasRow
  <2>2. AllWeak' <=> AllWeak
    BY <1>1, WeakSame DEF AllWeak
  <2>3. QED
    BY <1>1, <1>5, <1>6, <2>1, <2>2 DEF Repairing, Crawling, Recrawling
<1>8. ASSUME NEW r \in interfaces', Processed(r)' PROVE Processed(r)
  <2> SUFFICES ASSUME NEW e \in devices, e.id = r.dev PROVE e.name \notin run.todo
    BY <1>1 DEF Processed, Ids
  <2>1. e.name \notin run'.todo /\ r.id \notin Ids(run'.rows)
    BY <1>1, <1>8 DEF Processed
  <2>2. CASE e.name = d
    <3>1. e = f
      BY <1>6, <2>2 DEF OneRow, DeviceRows
    <3>2. r \in run'.rows
      BY <1>1, <1>4, <3>1 DEF InterfacesOf
    <3>3. QED
      BY <2>1, <3>2 DEF Ids
  <2>3. CASE e.name # d
    BY <1>4, <2>1, <2>3
  <2>4. QED
    BY <2>2, <2>3
<1>9. \A q \in run'.rows, r \in interfaces' : q.id = r.id => r = q
  BY <1>1, <1>4 DEF InterfacesOf, Sound, Tables
<1>10. LinksDue'
  <2> SUFFICES ASSUME Calm, ~run.stable PROVE Linking' /\ (quiet # 0 => Relinking')
    BY <1>1, <1>4, <1>5 DEF LinksDue
  <2>1. Linking /\ (quiet # 0 => Relinking /\ AllWeak)
    BY <1>1, <1>6 DEF Repairing, LinksDue
  <2>2. Linking'
    BY <1>1, <1>8, <1>9, <2>1, WeakSame DEF Linking
  <2>3. ASSUME quiet # 0 PROVE Relinking'
    <3>1. \A q \in run'.rows : Weak(q)'
      BY <1>1, <1>4, <2>1, <2>3, WeakSame DEF InterfacesOf, AllWeak
    <3>2. QED
      BY <1>1, <1>8, <1>9, <2>1, <2>3, <3>1, WeakSame DEF Relinking
  <2>4. QED
    BY <2>2, <2>3
<1>11. QED
  BY <1>4, <1>7, <1>10 DEF Repairing

\* All rows have been processed: the first time they are weak, the second time exact.
LEMMA FinishRepairs ==
    ASSUME SInv, FinishRun
    PROVE  SInv'
<1>1. /\ Sound /\ Undisturbed /\ Sound' /\ run.phase = "links" /\ run.todo = {} /\ run.rows = {}
      /\ UNCHANGED <<net, devices, interfaces>>
      /\ quiet' = IF run.stable \/ ~run.calm THEN 0 ELSE IF quiet = 0 THEN 1 ELSE 2
  BY RunSteps DEF SInv, FinishRun
<1>2. run'.phase = "idle" /\ job'[Single] = job[Single]
  BY DEF FinishRun, NoRun, Worker
<1>3. Undisturbed'
  BY <1>1, <1>2 DEF Undisturbed, Calm
<1> SUFFICES ASSUME OneRow', quiet' # 0 PROVE AllWeak' /\ (quiet' = 2 => Settled')
  BY <1>1, <1>2, <1>3 DEF SInv, Repairing, Crawling, Recrawling, LinksDue, Calm
<1>4. OneRow /\ Repairing /\ Calm /\ ~run.stable
  BY <1>1 DEF OneRow, SInv, Calm
<1>5. \A r \in interfaces : Processed(r)
  BY <1>1 DEF Processed, Ids
<1>6. AllWeak'
  BY <1>1, <1>4, <1>5, WeakSame DEF Repairing, LinksDue, Linking, AllWeak
<1>7. ASSUME quiet' = 2 PROVE Settled'
  <2>1. quiet # 0
    BY <1>1, <1>4, <1>7 DEF Calm
  <2>2. \A r \in interfaces' : Exact(r)'
    BY <1>1, <1>4, <1>5, <2>1, WeakSame DEF Repairing, LinksDue, Relinking
  <2>3. ASSUME NEW d \in net.up
        PROVE  /\ \E e \in devices : e.name = d
               /\ \A e \in devices : e.name = d =>
                     /\ \A p \in net.ports[d] : HasRow(e.id, p)
                     /\ \A r \in interfaces : r.dev = e.id => r.name \in net.ports[d]
    <3>1. d \in Device /\ job[d].at = "off" /\ Progress(d) /\ Repaired(d)
      BY <1>1, <1>4, <2>1 DEF Sound, RunSound, Network, Repairing, Crawling, Recrawling
    <3>2. job[d].detected
      BY <3>1 DEF Progress
    <3>3. QED
      BY <3>1, <3>2 DEF Progress, Repaired
  <2>4. QED
    BY <1>1, <2>2, <2>3 DEF Settled, HasRow
<1>8. QED
  BY <1>6, <1>7

-----------------------------------------------------------------------------
(* The links of an undisturbed run.                                        *)

\* Every thread has ended: what link_info_payload finds is where the link should lead.
LEMMA AnnouncedIsAim ==
    ASSUME Sound, run.phase = "links", \A d \in Device : Progress(d), NEW d \in Detected, NEW p \in Port
    PROVE  Announced(d, p) = Aim(d, p) /\ d \in net.up
<1>1. \A e \in Device : /\ e \in Detected <=> e \in net.up
                        /\ e \in Detected => job[e].ports = net.ports[e]
  BY DEF Sound, RunSound, Progress, Detected
<1>2. d \in Device /\ [device |-> d, port |-> p] \in Ifc
  BY DEF Detected, Ifc
<1>3. run.sees[[device |-> d, port |-> p]] = net.sees[[device |-> d, port |-> p]]
  BY <1>2 DEF Detected, Progress
<1>4. PICK q : q = net.sees[[device |-> d, port |-> p]]
  OBVIOUS
<1>5. q = NoIfc \/ q.device \in Device
  BY <1>2, <1>4 DEF Sound, Network, Ifc
<1>6. QED
  BY <1>1, <1>2, <1>3, <1>4, <1>5 DEF Announced, Aim, Resolved

\* What a row's turn writes: nothing but a link to where it should lead, and what it clears.
LinkWrite(r) ==
    \A q \in interfaces' : \E r0 \in interfaces :
        /\ SamePort(r0, q)
        /\ \/ q.link \in {r0.link, NoId}
           \/ r0.id = r.id /\ \E i \in Aim(run.device, r.name) : LeadsTo(q.link, i)

\* The link the row itself has then, if the copy tells the link the row had, or had before
\* it was cleared ...
LinkRight(r) ==
    \A q \in interfaces' : q.id = r.id =>
        q.link = NoId \/ \E i \in Aim(run.device, r.name) : LeadsTo(q.link, i)

\* ... and, if the copy is as the row and leads nowhere else, no former peer is cleared.
LinkExact(r) ==
    \A q \in interfaces' : \E r0 \in interfaces :
        /\ SamePort(r0, q)
        /\ r0.id # r.id => q.link = r0.link
        /\ r0.id = r.id /\ Aim(run.device, r.name) # {} => q.link # NoId

CopyNear(r) == \A r0 \in interfaces : r0.id = r.id => r0.link \in {r.link, NoId}
CopySame(r) == \A r0 \in interfaces : r0.id = r.id => r0.link = r.link

LEMMA LinkEffect ==
    ASSUME Sound, OneRow, \A d \in Device : Progress(d), IngestLink
    PROVE  \E r \in run.rows :
              /\ run' = [run EXCEPT !.rows = @ \ {r}]
              /\ LinkWrite(r)
              /\ ~run.stable /\ CopyNear(r) => LinkRight(r)
              /\ ~run.stable /\ CopySame(r) /\ Weak(r) => LinkExact(r)
<1>1. PICK r \in run.rows :
         LET peer == Announced(run.device, r.name)
             peerRows == UNION {DeviceRows(q.device) : q \in peer}
             former == {f \in interfaces : f.id = r.link}
         IN  /\ run' = [run EXCEPT !.rows = @ \ {r}]
             /\ IF peerRows = {}
                THEN interfaces' = Cleared(r)
                ELSE \E pd \in peerRows, q \in peer :
                       LET targets == InterfaceByName(pd.id, q.port)
                           same == \E f \in former : f.dev = pd.id /\ f.name = q.port
                       IN  \/ same /\ UNCHANGED interfaces
                           \/ /\ ~same /\ targets = {}
                              /\ interfaces' = Forgotten(interfaces, former)
                           \/ /\ ~same
                              /\ \E t \in targets :
                                   interfaces' = Forgotten(
                                       Updated(interfaces, [r EXCEPT !.link = t.id]), former)
  BY DEF IngestLink
<1>2. /\ run.phase = "links" /\ TableOK(interfaces) /\ CopyOK(interfaces, r) /\ r.name \in Port
      /\ run.device \in Detected /\ Known(r.dev, run.device)
  BY DEF IngestLink, Sound, RunSound, Tables, TableOK, CopyOK, Row
<1>3. Announced(run.device, r.name) = Aim(run.device, r.name) /\ run.device \in net.up
  BY <1>2, AnnouncedIsAim
<1>4. \A q \in interfaces : q.id # NoId
  BY <1>2 DEF TableOK
<1> SUFFICES /\ LinkWrite(r)
             /\ ~run.stable /\ CopyNear(r) => LinkRight(r)
             /\ ~run.stable /\ CopySame(r) /\ Weak(r) => LinkExact(r)
  BY <1>1
<1>5. CASE Aim(run.device, r.name) = {}
  <2>1. interfaces' = Cleared(r)
    BY <1>1, <1>3, <1>5
  <2>2. CASE run.stable \/ r.link = NoId
    <3>1. interfaces' = interfaces
      BY <2>1, <2>2 DEF Cleared
    <3>2. QED
      BY <1>5, <2>2, <3>1 DEF LinkWrite, LinkRight, LinkExact, CopyNear, SamePort
  <2>3. CASE ~(run.stable \/ r.link = NoId)
    <3>1. interfaces' = Updated(interfaces, [r EXCEPT !.link = NoId])
      BY <2>1, <2>3 DEF Cleared
    <3>2. Relinked(interfaces, interfaces', r.id, NoId)
      BY <1>2, <3>1, RelinkedRow
    <3>3. QED
      BY <1>5, <3>2 DEF LinkWrite, LinkRight, LinkExact, Relinked, SamePort
  <2>4. QED
    BY <2>2, <2>3
<1>6. CASE Aim(run.device, r.name) # {}
  <2>1. PICK i : Aim(run.device, r.name) = {i}
    BY <1>6 DEF Aim, Resolved
  <2>2. i.device \in net.up /\ i.port \in net.ports[i.device] /\ i.device \in Device
    BY <2>1, AimIsUp DEF Sound, Network
  <2>3. job[i.device].at = "off" /\ Progress(i.device)
    BY <1>2, <2>2 DEF Sound, RunSound
  <2>4. PICK pd \in devices : pd.name = i.device
    BY <2>2, <2>3 DEF Progress
  <2>5. DeviceRows(i.device) = {pd}
    BY <2>4 DEF DeviceRows, OneRow
  <2>6. HasRow(pd.id, i.port)
    BY <2>2, <2>3, <2>4 DEF Progress
  <2>7. PICK former : former = {f \in interfaces : f.id = r.link}
    OBVIOUS
  <2>8. PICK same \in BOOLEAN : same = \E f \in former : f.dev = pd.id /\ f.name = i.port
    OBVIOUS
  <2>9. UNION {DeviceRows(q.device) : q \in {i}} = {pd}
    BY <2>5
  <2>10. \/ same /\ UNCHANGED interfaces
         \/ ~same /\ \E t \in InterfaceByName(pd.id, i.port) :
                interfaces' = Forgotten(Updated(interfaces, [r EXCEPT !.link = t.id]), former)
    <3>1. InterfaceByName(pd.id, i.port) # {}
      BY <2>6 DEF HasRow, InterfaceByName, InterfacesOf
    <3>2. PICK pds : pds = UNION {DeviceRows(q.device) : q \in {i}}
      OBVIOUS
    <3>3. Announced(run.device, r.name) = {i} /\ pds = {pd} /\ pds # {}
      BY <1>3, <2>1, <2>9, <3>2
    <3>4. \E p2 \in pds, q \in {i} :
             LET targets == InterfaceByName(p2.id, q.port)
                 same2 == \E f \in former : f.dev = p2.id /\ f.name = q.port
             IN  \/ same2 /\ UNCHANGED interfaces
                 \/ /\ ~same2 /\ targets = {}
                    /\ interfaces' = Forgotten(interfaces, former)
                 \/ /\ ~same2
                    /\ \E t \in targets :
                         interfaces' = Forgotten(Updated(interfaces, [r EXCEPT !.link = t.id]), former)
      BY <1>1, <2>7, <3>2, <3>3, Zenon
    <3>5. QED
      BY <2>8, <3>1, <3>3, <3>4
  <2>11. CASE same /\ UNCHANGED interfaces
    <3>1. PICK f \in interfaces : f.id = r.link /\ f.dev = pd.id /\ f.name = i.port
      BY <2>7, <2>8, <2>11
    <3>2. LeadsTo(r.link, i) /\ r.link # NoId
      BY <1>4, <2>4, <3>1 DEF LeadsTo
    <3>3. QED
      BY <2>1, <2>11, <3>2 DEF LinkWrite, LinkRight, LinkExact, CopyNear, CopySame, SamePort
  <2>12. ASSUME ~same, NEW t \in InterfaceByName(pd.id, i.port),
                interfaces' = Forgotten(Updated(interfaces, [r EXCEPT !.link = t.id]), former)
         PROVE  /\ LinkWrite(r)
                /\ ~run.stable /\ CopyNear(r) => LinkRight(r)
                /\ ~run.stable /\ CopySame(r) /\ Weak(r) => LinkExact(r)
    <3>1. t \in interfaces /\ t.id # NoId /\ LeadsTo(t.id, i)
      BY <1>4, <2>4 DEF InterfaceByName, InterfacesOf, LeadsTo
    <3>2. PICK table : table = Updated(interfaces, [r EXCEPT !.link = t.id])
      OBVIOUS
    <3>3. TableOK(table) /\ Relinked(interfaces, table, r.id, t.id)
      BY <1>2, <3>1, <3>2, RelinkedRow DEF Ids
    <3>4. interfaces' = table \/ Relinked(table, interfaces', r.link, NoId)
      BY <1>2, <2>7, <2>12, <3>2, <3>3, ForgottenRow
    <3>5. LinkWrite(r) /\ LinkRight(r)
      <4>1. \A q \in interfaces' : \E r0 \in interfaces :
                SamePort(r0, q) /\ q.link \in {NoId, IF r0.id = r.id THEN t.id ELSE r0.link}
        BY <3>3, <3>4 DEF Relinked, SamePort
      <4>2. QED
        BY <2>1, <3>1, <4>1 DEF LinkWrite, LinkRight, SamePort
    <3>6. ASSUME Weak(r) PROVE LinkExact(r)
      <4>1. r.link = NoId
        <5> SUFFICES ASSUME r.link # NoId PROVE FALSE
          OBVIOUS
        <5>1. LeadsTo(r.link, i)
          BY <1>2, <1>3, <2>1, <3>6 DEF Weak, Known
        <5>2. PICK t2 \in interfaces, f \in devices :
                  t2.id = r.link /\ f.id = t2.dev /\ f.name = i.device /\ t2.name = i.port
          BY <5>1 DEF LeadsTo
        <5>3. f = pd
          BY <2>4, <5>2 DEF OneRow
        <5>4. QED
          BY <2>7, <2>8, <2>12, <5>2, <5>3
      <4>2. former = {}
        BY <1>4, <2>7, <4>1
      <4>3. interfaces' = table
        BY <2>12, <3>2, <4>2 DEF Forgotten
      <4>4. QED
        BY <3>1, <3>3, <4>3 DEF Relinked, LinkExact
    <3>7. QED
      BY <3>5, <3>6
  <2>13. QED
    BY <2>10, <2>11, <2>12
<1>7. QED
  BY <1>5, <1>6

LEMMA LinkRepairs ==
    ASSUME SInv, IngestLink
    PROVE  SInv'
<1>1. /\ Sound /\ Undisturbed /\ Sound' /\ Grows /\ run.phase = "links" /\ run \in Run
      /\ SamePorts(interfaces, interfaces') /\ UNCHANGED <<net, devices, quiet, job>>
  BY LinkSound, LinkTables DEF SInv, IngestLink, Sound
<1>2. Tables /\ Tables' /\ KeepsRows
  BY <1>1 DEF Sound, SamePorts, KeepsRows
<1>3. PICK r0 \in run.rows : run' = [run EXCEPT !.rows = @ \ {r0}]
  BY LinkOutcomes
<1>4. /\ run'.phase = "links" /\ run'.sees = run.sees /\ run'.calm = run.calm
      /\ run'.stable = run.stable
  BY <1>1, <1>3 DEF Run
<1>5. Calm' = Calm /\ Undisturbed'
  BY <1>1, <1>4 DEF Undisturbed, Calm
<1>6. CASE ~Calm
  <2>1. quiet = 0
    BY <1>1, <1>6 DEF Undisturbed, Calm
  <2>2. QED
    BY <1>1, <1>4, <1>5, <1>6, <2>1 DEF SInv, Repairing, Crawling, Recrawling, LinksDue
<1>7. CASE Calm
  <2> SUFFICES ASSUME OneRow' PROVE Repairing'
    BY <1>1, <1>5 DEF SInv
  <2>1. OneRow /\ Repairing /\ \A d \in Device : Progress(d)
    BY <1>1, <1>7 DEF OneRow, SInv, Repairing, Crawling
  <2>2. PICK r \in run.rows :
              /\ run' = [run EXCEPT !.rows = @ \ {r}]
              /\ LinkWrite(r)
              /\ ~run.stable /\ CopyNear(r) => LinkRight(r)
              /\ ~run.stable /\ CopySame(r) /\ Weak(r) => LinkExact(r)
    BY <1>1, <2>1, LinkEffect
  <2>3. run'.rows = run.rows \ {r} /\ run'.todo = run.todo
    BY <1>1, <2>2 DEF Run
  <2>4. CopyOK(interfaces, r) /\ Known(r.dev, run.device) /\ \A c \in run.rows : c.id = r.id => c = r
    BY <1>1 DEF Sound, RunSound
\* A row of the turn's id is of run.device: what leads where that device's port should
\* makes it weak.
  <2>5. ASSUME NEW q, NEW r1 \in interfaces, SamePort(r1, q), r1.id = r.id,
               q.link = NoId \/ \E i \in Aim(run.device, r.name) : LeadsTo(q.link, i)
        PROVE  Weak(q)
    <3>1. q.dev = r.dev /\ q.name = r.name
      BY <2>4, <2>5 DEF CopyOK, SamePort
    <3>2. \A e \in devices : e.id = r.dev => e.name = run.device
      BY <1>2, <2>4 DEF Known, Tables
    <3>3. QED
      BY <2>5, <3>1, <3>2 DEF Weak
  <2>6. \A q : q.dev \in Ids(devices) /\ Weak(q) => Weak(q)'
    BY <1>1, <1>2, WeakStays
  <2>7. \A q \in interfaces' : q.dev \in Ids(devices)
    BY <1>1, <1>2 DEF SamePorts, SamePort, Tables
  <2>8. Crawling'
    BY <1>1, <1>2, <1>4, <2>1, OthersProgress DEF Crawling
  <2>9. ASSUME quiet # 0, NEW d \in Device PROVE Repaired(d)'
    <3>1. job[d].at = "off" /\ job[d].rows = {} /\ Repaired(d)
      BY <1>1, <1>7, <2>1, <2>9 DEF Sound, RunSound, JobSound, Worker, Repairing, Recrawling
    <3>2. QED
      BY <1>1, <3>1 DEF Repaired, SamePorts, SamePort
  <2>10. ASSUME quiet # 0 PROVE AllWeak'
    <3> SUFFICES ASSUME NEW q \in interfaces' PROVE Weak(q)
      BY <2>6, <2>7 DEF AllWeak
    <3>1. PICK r1 \in interfaces :
              /\ SamePort(r1, q)
              /\ \/ q.link \in {r1.link, NoId}
                 \/ r1.id = r.id /\ \E i \in Aim(run.device, r.name) : LeadsTo(q.link, i)
      BY <2>2 DEF LinkWrite
    <3>2. Weak(r1)
      BY <2>1, <2>10 DEF Repairing, AllWeak
    <3>3. CASE q.link \in {r1.link, NoId}
      BY <3>1, <3>2, <3>3, WeakRow DEF SamePort
    <3>4. QED
      BY <2>5, <3>1, <3>3
  <2>11. ASSUME NEW q \in interfaces', Processed(q)', q.id # r.id,
                NEW r1 \in interfaces, SamePort(r1, q)
         PROVE  Processed(r1)
    BY <1>1, <2>3, <2>11 DEF Processed, SamePort, Ids
  <2>12. ASSUME ~run.stable PROVE Linking'
    <3>1. Linking
      BY <1>1, <1>7, <2>1, <2>12 DEF Repairing, LinksDue
    <3>2. LinkRight(r)
      BY <2>2, <2>12, <3>1 DEF Linking, CopyNear
    <3>3. \A q \in interfaces' : q.id # r.id =>
              \E r1 \in interfaces : SamePort(r1, q) /\ q.link \in {r1.link, NoId}
      BY <2>2 DEF LinkWrite, SamePort
    <3>4. ASSUME NEW q \in interfaces', Processed(q)' PROVE Weak(q)
      <4>1. CASE q.id = r.id
        <5>1. PICK r1 \in interfaces : SamePort(r1, q)
          BY <1>1 DEF SamePorts
        <5>2. QED
          BY <2>5, <3>2, <4>1, <5>1 DEF LinkRight, SamePort
      <4>2. CASE q.id # r.id
        <5>1. PICK r1 \in interfaces : SamePort(r1, q) /\ q.link \in {r1.link, NoId}
          BY <3>3, <4>2
        <5>2. Weak(r1)
          BY <2>11, <3>1, <3>4, <4>2, <5>1 DEF Linking
        <5>3. QED
          BY <5>1, <5>2, WeakRow DEF SamePort
      <4>3. QED
        BY <4>1, <4>2
    <3>5. ASSUME NEW c \in run'.rows, NEW q \in interfaces', c.id = q.id
          PROVE  q.link \in {c.link, NoId}
      <4>1. c \in run.rows /\ q.id # r.id
        BY <2>3, <2>4, <3>5
      <4>2. PICK r1 \in interfaces : SamePort(r1, q) /\ q.link \in {r1.link, NoId}
        BY <3>3, <4>1
      <4>3. QED
        BY <3>1, <3>5, <4>1, <4>2 DEF Linking, SamePort
    <3>6. QED
      BY <2>6, <2>7, <3>4, <3>5 DEF Linking
  <2>13. ASSUME ~run.stable, quiet # 0 PROVE Relinking'
    <3>1. Relinking
      BY <1>1, <1>7, <2>1, <2>13 DEF Repairing, LinksDue
    <3>2. LinkExact(r) /\ LinkRight(r)
      BY <2>2, <2>13, <3>1 DEF Relinking, CopyNear, CopySame
    <3>3. ASSUME NEW q \in interfaces', Processed(q)' PROVE Exact(q)
      <4>1. PICK r1 \in interfaces :
                /\ SamePort(r1, q)
                /\ r1.id # r.id => q.link = r1.link
                /\ r1.id = r.id /\ Aim(run.device, r.name) # {} => q.link # NoId
        BY <3>2 DEF LinkExact
      <4>2. CASE q.id = r.id
        <5>1. Weak(q)
          BY <2>5, <3>2, <4>1, <4>2 DEF LinkRight, SamePort
        <5>2. q.dev = r.dev /\ q.name = r.name
          BY <2>4, <4>1, <4>2 DEF CopyOK, SamePort
        <5>3. \A e \in devices : e.id = r.dev => e.name = run.device
          BY <1>2, <2>4 DEF Known, Tables
        <5>4. QED
          BY <4>1, <4>2, <5>1, <5>2, <5>3 DEF Exact, SamePort
      <4>3. CASE q.id # r.id
        <5>1. Exact(r1) /\ q.link = r1.link
          BY <2>11, <3>1, <3>3, <4>1, <4>3 DEF Relinking, SamePort
        <5>2. Weak(q)
          BY <4>1, <5>1, WeakRow DEF Exact, SamePort
        <5>3. QED
          BY <4>1, <5>1, <5>2 DEF Exact, SamePort
      <4>4. QED
        BY <4>2, <4>3
    <3>4. \A q \in interfaces' : Processed(q)' => Exact(q)'
      BY <1>1, <2>6, <2>7, <3>3, AimStays DEF Exact
    <3>5. \A c \in run'.rows : Weak(c)'
      <4>1. \A c \in run.rows : c.dev \in Ids(devices)
        BY <1>1 DEF Sound, RunSound, Known, Ids
      <4>2. QED
        BY <2>3, <2>6, <3>1, <4>1 DEF Relinking
    <3>6. ASSUME NEW c \in run'.rows, NEW q \in interfaces', c.id = q.id
          PROVE  q.link = c.link
      <4>1. c \in run.rows /\ q.id # r.id
        BY <2>3, <2>4, <3>6
      <4>2. PICK r1 \in interfaces : SamePort(r1, q) /\ q.link = r1.link
        BY <3>2, <4>1 DEF LinkExact, SamePort
      <4>3. QED
        BY <3>1, <3>6, <4>1, <4>2 DEF Relinking, SamePort
    <3>7. QED
      BY <3>4, <3>5, <3>6 DEF Relinking
  <2>14. QED
    BY <1>1, <1>4, <2>8, <2>9, <2>10, <2>12, <2>13 DEF Repairing, Recrawling, LinksDue
<1>8. QED
  BY <1>6, <1>7

LEMMA RepairStep == SInv /\ [Next]_vars => SInv'
<1> SUFFICES ASSUME SInv, [Next]_vars PROVE SInv'
  OBVIOUS
<1>1. CASE UNCHANGED vars
  <2>1. UNCHANGED <<net, devices, interfaces, nextId, job, run, quiet>>
    BY <1>1 DEF vars
  <2>2. Sound'
    BY <2>1 DEF SInv, Sound, Tables, RunSound, JobSound, CopyOK, Known, Detected
  <2>3. Undisturbed' /\ OneRow' = OneRow
    BY <2>1 DEF SInv, Undisturbed, Calm, OneRow
  <2>4. \A d \in Device : (Progress(d)' <=> Progress(d)) /\ (Repaired(d)' <=> Repaired(d))
    BY <2>1, WeakSame DEF Progress, Repaired, HasRow
  <2>5. (AllWeak' <=> AllWeak) /\ (Settled' <=> Settled)
    BY <2>1, WeakSame DEF AllWeak, Settled, HasRow
  <2>6. (Linking' <=> Linking) /\ (Relinking' <=> Relinking)
    BY <2>1, WeakSame DEF Linking, Relinking, Processed
  <2>7. QED
    BY <2>1, <2>2, <2>3, <2>4, <2>5, <2>6
       DEF SInv, Repairing, Crawling, Recrawling, LinksDue, Calm
<1>2. ASSUME \/ ChangeNetwork \/ StartSingle
             \/ \E w \in Worker : FindNothing(w) \/ LoadNothing(w)
      PROVE  SInv'
  BY <1>2, OutsideSteps, NothingSteps
     DEF SInv, Undisturbed, Repairing, Crawling, Recrawling, LinksDue, Calm
<1>3. QED
  BY <1>1, <1>2, ThreadRepairs, StartRepairs, BuildRepairs, LoadRepairs, LinkRepairs, FinishRepairs
     DEF Next

\* Exact rows lead where their ports' neighbors are.
LEMMA SettledIsExact == SInv => SecondRunExact
<1> SUFFICES ASSUME SInv, quiet = 2, run.phase = "idle", OneRow, NEW d \in net.up,
                    NEW rows, rows = UNION {InterfacesOf(r.id) : r \in DeviceRows(d)}
             PROVE  /\ Names(rows) = net.ports[d]
                    /\ \A r \in rows : LinkOf(r) = Resolved(PortOf(r))
  BY DEF SecondRunExact
<1>1. Settled /\ Tables /\ net \in Network
  BY DEF SInv, Repairing, Sound
<1>2. PICK e \in devices : e.name = d
  BY <1>1 DEF Settled
<1>3. DeviceRows(d) = {e}
  BY <1>2 DEF DeviceRows, OneRow
<1>4. rows = InterfacesOf(e.id)
  BY <1>3
<1>5. /\ \A p \in net.ports[d] : HasRow(e.id, p)
      /\ \A r \in rows : r \in interfaces /\ r.dev = e.id /\ r.name \in net.ports[d]
  BY <1>1, <1>2, <1>4 DEF Settled, InterfacesOf
<1>6. Names(rows) = net.ports[d]
  BY <1>4, <1>5 DEF Names, HasRow, InterfacesOf
<1>7. \A r \in interfaces, f \in devices : f.id = r.dev => PortOf(r) = [device |-> f.name, port |-> r.name]
  <2> SUFFICES ASSUME NEW r \in interfaces, NEW f \in devices, f.id = r.dev
               PROVE  (CHOOSE g \in devices : g.id = r.dev) = f
    BY DEF PortOf
  <2>1. \A g \in devices : g.id = r.dev => g = f
    BY <1>1 DEF Tables
  <2>2. QED
    BY <2>1
<1>8. ASSUME NEW r \in rows PROVE LinkOf(r) = Resolved(PortOf(r))
  <2>1. Exact(r) /\ r.name \in net.ports[d] /\ e.id = r.dev
    BY <1>1, <1>5 DEF Settled
  <2>2. Resolved(PortOf(r)) = Aim(d, r.name)
    BY <1>2, <1>5, <1>7, <2>1 DEF Aim
  <2>3. CASE Aim(d, r.name) = {}
    <3>1. r.link = NoId
      BY <1>2, <2>1, <2>3 DEF Exact, Weak
    <3>2. LinkOf(r) = {}
      BY <1>1, <3>1 DEF LinkOf, Tables
    <3>3. QED
      BY <2>2, <2>3, <3>2
  <2>4. CASE Aim(d, r.name) # {}
    <3>1. PICK i \in Aim(d, r.name) : LeadsTo(r.link, i)
      BY <1>2, <2>1, <2>4 DEF Exact, Weak
    <3>2. Aim(d, r.name) = {i} /\ i \in Ifc
      <4>1. i = net.sees[[device |-> d, port |-> r.name]] /\ Aim(d, r.name) = {i} /\ i # NoIfc
        BY <3>1 DEF Aim, Resolved
      <4>2. [device |-> d, port |-> r.name] \in Ifc
        BY <1>1, <1>5 DEF Network, Ifc
      <4>3. QED
        BY <1>1, <4>1, <4>2 DEF Network
    <3>3. PICK t \in interfaces, f \in devices :
              t.id = r.link /\ f.id = t.dev /\ f.name = i.device /\ t.name = i.port
      BY <3>1 DEF LeadsTo
    <3>4. PortOf(t) = i
      BY <1>7, <3>2, <3>3 DEF Ifc
    <3>5. {q \in interfaces : q.id = r.link} = {t}
      BY <1>1, <3>3 DEF Tables
    <3>6. LinkOf(r) = {i}
      BY <3>4, <3>5 DEF LinkOf
    <3>7. QED
      BY <2>2, <3>2, <3>6
  <2>5. QED
    BY <2>3, <2>4
<1>9. QED
  BY <1>6, <1>8

\* ingest_device, ingest_links: rows written back over one another, deletes a foreign key
\* refuses and links cleared with a moved peer leave at worst a missing link or a stale row,
\* and the next undisturbed unstable run repairs both: after two the tables are exactly what
\* the devices announce, whatever links they began with and in whatever order threads step.
THEOREM SecondRunIsExact == Spec => []SecondRunExact
<1>1. QED
  BY RepairInitial, RepairStep, SettledIsExact, PTL DEF Spec
=============================================================================
