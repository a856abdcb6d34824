----------------------------- MODULE WeatherMap -----------------------------
(***************************************************************************)
(* The weathermap: the page in the browser (weathermap/js) and the nexus   *)
(* routes behind it (/dev/weathermap).                                     *)
(*                                                                         *)
(* The page polls the topology, the states and the saved positions, each   *)
(* on a timer of its animation loop; the answers arrive in any order and   *)
(* are merged into one graph of devices and links, which the loop draws.   *)
(* An edit freezes the position poll until the server has answered the     *)
(* edit's PUT.  The server builds the topology with many queries, any of   *)
(* which may fail, under the mutex of the cache that keeps it for a while. *)
(*                                                                         *)
(* Coordinates, icon sizes and traffic figures are left out.  The two      *)
(* flags a user may set of a device, which the page stores and sends as    *)
(* one record, are one mark; the record's third part, the place, which the *)
(* animation moves too, is not modelled.  A failed read of positions       *)
(* leaves devices out of an answer, like an answer that never comes.       *)
(***************************************************************************)
EXTENDS Naturals, FiniteSets

CONSTANTS
    Dev,
    Port,
    None,
    Disturbed,       \* bound: devices that users and outages touch
    Networks,        \* topologies the database may hold
    MaxEdits,        \* bound: clicks on devices
    MaxDisturbances  \* bound: changes of the network and of states,
                     \* other editors, outages, failing statements

Mark == {"on", "off"}
Knowledge == {"absent", "unknown", "up", "down"}

\* A topology: its devices, with the far end of each of their ports.
Topology == UNION {[S -> [Port -> (Dev \X Port) \cup {None}]] : S \in SUBSET Dev}
ASSUME NetworkAssumption == Networks \subseteq Topology /\ None \notin Dev \X Port
ASSUME DisturbedAssumption == Disturbed \subseteq Dev

VARIABLES
    net,        \* DB: the topology
    imds,       \* what nexus knows of a device's reachability
    marks,      \* DB: marks[d], or None
    serverUp,
    listing,    \* the topology build under way: the devices it listed and the
                \* networks the DB has held since; or None
    cached,     \* the cached topology, or None
    poisoned,   \* a panic left the cache's mutex poisoned
    answers,    \* answers of the three polls on their way
    puts,       \* PUTs of positions, sent or answered
    device,     \* page: its devices
    frozen,     \* page: positionUpdatesFrozen
    held,       \* page: the device the mouse button went down on, or None
    alive,      \* page: the animation loop still runs
    torn,       \* history: a topology was built that names a device it lacks
    cut,        \* history: a device vanished under the mouse
    wish,       \* history: an edit [dev, mark] without another edit, a lost
                \* record or the loss of its device since; or None
    edits,      \* numbers the clicks
    disturbances  \* spent bound

server == <<net, imds, marks, serverUp>>
build == <<listing, cached, poisoned, torn>>
mouse == <<frozen, held, cut, wish, edits>>
vars == <<server, build, answers, puts, device, alive, mouse, disturbances>>

Gone == [present |-> FALSE]
Present(d) == device[d] # Gone

\* A new Device; its place is new too, so that it must be drawn.
NewDevice ==
    [present |-> TRUE, links |-> {}, status |-> "none", fresh |-> FALSE,
     stale |-> FALSE, dirty |-> TRUE, drawn |-> "never", mark |-> "off"]

Disturb == disturbances < MaxDisturbances /\ disturbances' = disturbances + 1

Init ==
    /\ net \in Networks /\ imds = [d \in Dev |-> "up"] /\ marks = [d \in Dev |-> None]
    /\ serverUp = TRUE /\ listing = None /\ cached = None /\ poisoned = FALSE
    /\ answers = {} /\ puts = {}
    /\ device = [d \in Dev |-> Gone]
    /\ frozen = FALSE /\ held = None /\ alive = TRUE
    /\ torn = FALSE /\ cut = FALSE /\ wish = None
    /\ edits = 0 /\ disturbances = 0

-----------------------------------------------------------------------------
(* The routes.                                                             *)

\* state_information: a device is reported when it has any metric, and reported down
\* unless its own metric says up.  Nexus exports no such metric of an unknown device,
\* but those of its interfaces.
StateInformation ==
    [d \in {x \in Dev : imds[x] # "absent"} |-> IF imds[d] = "up" THEN "up" ELSE "down"]

PositionData == [d \in {x \in Dev : marks[x] # None} |-> marks[d]]

\* A topology names no device that it lacks.
Closed(t) ==
    \A d \in DOMAIN t, p \in Port : t[d][p] # None => t[d][p][1] \in DOMAIN t

\* The far end of a port in a network, if it has both.
End(n, d, p) == IF d \in DOMAIN n THEN n[d][p] ELSE None

\* get_topology_data reads ports and peers one after another, after it has listed the
\* devices: each as some network since then has it, or as `failed' reads.
Readings(failed) ==
    LET ends(d, p) == {End(n, d, p) : n \in listing.seen} \cup failed
    IN  {t \in [listing.devs -> [Port -> UNION {ends(d, p) : d \in Dev, p \in Port}]] :
            \A d \in listing.devs, p \in Port : t[d][p] \in ends(d, p)}

NoDevices == [d \in {} |-> [p \in Port |-> None]]

\* The cache's lock is held through the build: requests meanwhile get its answer.  A
\* failed read of the devices yields none, one of ports or of a peer leaves links out.
Build ==
    /\ listing # None /\ listing' = None
    /\ \/ cached' \in Readings({}) /\ UNCHANGED disturbances
       \/ cached' \in Readings({None}) \cup {NoDevices} /\ Disturb
    /\ torn' = (torn \/ ~Closed(cached'))
    /\ answers' = answers \cup {[kind |-> "topology", data |-> cached']}
    /\ UNCHANGED <<server, poisoned, puts, device, alive, mouse>>

\* Interface::device unwraps: a peer's device that is deleted before it is read, or
\* cannot be read, ends the build with a panic under the cache's mutex.
BuildPanics ==
    /\ listing # None /\ listing' = None
    /\ \E n \in listing.seen, d \in listing.devs, p \in Port :
          /\ End(n, d, p) # None
          /\ (End(n, d, p)[1] \notin DOMAIN net /\ UNCHANGED disturbances) \/ Disturb
    /\ poisoned' = TRUE
    /\ UNCHANGED <<server, cached, torn, answers, puts, device, alive, mouse>>

\* valid_until passes.
Expire ==
    /\ cached # None /\ cached' = None
    /\ UNCHANGED <<server, listing, poisoned, torn, answers, puts, device, alive, mouse, disturbances>>

\* put_position_data: without the device's row, without a connection and when a
\* statement fails the record is dropped, and the request answered all the same.
Put(p) ==
    /\ serverUp /\ p \in puts /\ p.at = "sent"
    /\ puts' = (puts \ {p}) \cup {[p EXCEPT !.at = "answered"]}
    /\ \/ /\ marks' = IF p.dev \in DOMAIN net THEN [marks EXCEPT ![p.dev] = p.mark] ELSE marks
          /\ UNCHANGED <<wish, disturbances>>
       \/ /\ Disturb /\ UNCHANGED marks
          /\ wish' = IF wish # None /\ wish.dev = p.dev THEN None ELSE wish
    /\ UNCHANGED <<net, imds, serverUp, build, answers, device, alive, frozen, held, cut, edits>>

-----------------------------------------------------------------------------
(* The page merges answers.                                                *)

\* Ends of the links a device should have: far device, far port and own port.
Wanted(data, d) ==
    {[to |-> data[d][p][1], port |-> data[d][p][2], from |-> p] :
        p \in {q \in Port : data[d][q] # None}}

SameLink(l, m) == l.to = m.to /\ l.port = m.port

\* Mutant: links that are gone stay.
LinksUnpruned(d, data) ==
    device[d].links
        \cup {w \in Wanted(data, d) : \A l \in device[d].links : ~SameLink(l, w)}

\* LinkGroup.updateTopologyData: a link is known by its far end and keeps the port it
\* was made with.
Links(d, data) ==
    {l \in device[d].links : \E w \in Wanted(data, d) : SameLink(l, w)}
        \cup {w \in Wanted(data, d) : \A l \in device[d].links : ~SameLink(l, w)}

\* DeviceGraph.updateTopologyData.
UpdateTopologyData(data) ==
    /\ device' = [d \in Dev |->
          IF d \notin DOMAIN data THEN Gone
          ELSE IF Present(d) THEN [device[d] EXCEPT !.links = Links(d, data)]
          ELSE [NewDevice EXCEPT !.links = Wanted(data, d)]]
    /\ cut' = (cut \/ held \notin DOMAIN data \cup {None})
    /\ held' = IF held \in DOMAIN data THEN held ELSE None
    /\ wish' = IF wish # None /\ wish.dev \notin DOMAIN data THEN None ELSE wish
    /\ UNCHANGED <<frozen, edits>>

\* A changed status of a device that was never drawn has nothing to attach its effect to.
Throws(d, new) ==
    device[d].drawn = "never" /\ device[d].status \notin {"none", new}

SetStatus(dv, new) ==
    [dv EXCEPT !.fresh = TRUE, !.status = new, !.dirty = @ \/ dv.status # new]

CheckStale(dv) ==
    IF dv.fresh THEN [dv EXCEPT !.stale = FALSE]
    ELSE IF dv.stale THEN dv
    ELSE [dv EXCEPT !.status = "none", !.dirty = TRUE, !.stale = TRUE]

\* DeviceGraph.updateStatuses.  An exception ends it at a device anywhere in the
\* answer's order, before any staleness is looked at.
UpdateStatuses(data) ==
    LET known == {d \in DOMAIN data : Present(d)}
        bad == {d \in known : Throws(d, data[d])}
    IN  \/ /\ bad = {}
           /\ device' = [d \in Dev |->
                 IF ~Present(d) THEN Gone
                 ELSE CheckStale(IF d \in known THEN SetStatus(device[d], data[d])
                                 ELSE device[d])]
        \/ \E d \in bad, before \in SUBSET (known \ bad) :
              device' = [x \in Dev |-> IF x \in before THEN SetStatus(device[x], data[x])
                                       ELSE IF x = d THEN [device[x] EXCEPT !.fresh = TRUE]
                                       ELSE device[x]]

\* DeviceGraph.updatePositions.
UpdatePositions(data) ==
    device' = [d \in Dev |-> IF Present(d) /\ d \in DOMAIN data
                             THEN [device[d] EXCEPT !.mark = data[d]] ELSE device[d]]

Receive(a) ==
    /\ a \in answers /\ answers' = answers \ {a}
    /\ \/ a.kind = "topology" /\ UpdateTopologyData(a.data)
       \/ a.kind = "state" /\ UpdateStatuses(a.data) /\ UNCHANGED mouse
       \/ a.kind = "position" /\ UpdatePositions(a.data) /\ UNCHANGED mouse
    /\ UNCHANGED <<server, build, puts, alive, disturbances>>

\* A minute passes without the server reporting the device.
Age(d) ==
    /\ Present(d) /\ device[d].fresh
    /\ imds[d] = "absent" \/ ~serverUp
    /\ \A a \in answers : a.kind = "state" => d \notin DOMAIN a.data
    /\ device' = [device EXCEPT ![d].fresh = FALSE]
    /\ UNCHANGED <<server, build, answers, puts, alive, mouse, disturbances>>

-----------------------------------------------------------------------------
(* The animation loop.  What several timers do in one frame commutes, so a  *)
(* frame does one thing; a request the server does not answer does nothing. *)

AskTopology ==
    /\ serverUp
    /\ IF poisoned \/ cached # None
       THEN /\ answers' = answers \cup
                  {[kind |-> "topology", data |-> IF poisoned THEN NoDevices ELSE cached]}
            /\ UNCHANGED listing
       ELSE /\ listing' = IF listing = None THEN [devs |-> DOMAIN net, seen |-> {net}] ELSE listing
            /\ UNCHANGED answers
    /\ UNCHANGED <<cached, poisoned, torn, device, alive>>

AskState ==
    /\ serverUp
    /\ answers' = answers \cup {[kind |-> "state", data |-> StateInformation]}
    /\ UNCHANGED <<build, device, alive>>

\* Mutant: the poll goes on through an edit.
PollsAlways == TRUE

PollsPositions == ~frozen

AskPosition ==
    /\ serverUp /\ PollsPositions
    /\ answers' = answers \cup {[kind |-> "position", data |-> PositionData]}
    /\ UNCHANGED <<build, device, alive>>

\* A link to a device the graph lacks cannot be drawn: the exception leaves the loop
\* without its next frame.
Drawable ==
    \A d \in Dev : Present(d) => \A l \in device[d].links : Present(l.to)

UpdateGraphics ==
    /\ alive' = Drawable
    /\ device' = [d \in Dev |-> IF Present(d) /\ Drawable /\ device[d].dirty
                                THEN [device[d] EXCEPT !.dirty = FALSE, !.drawn = device[d].status]
                                ELSE device[d]]
    /\ UNCHANGED <<build, answers>>

frame(due) ==
    /\ alive
    /\ \/ due = "topology" /\ AskTopology
       \/ due = "state" /\ AskState
       \/ due = "position" /\ AskPosition
       \/ due = "graphics" /\ UpdateGraphics
    /\ UNCHANGED <<server, puts, mouse, disturbances>>

Timers == {"topology", "state", "position", "graphics"}

-----------------------------------------------------------------------------
(* The mouse.                                                              *)

Quiet ==
    /\ puts = {} /\ held = None /\ ~frozen
    /\ \A a \in answers : a.kind # "position"

\* updatePositionInfo.
Send(d, mark) == [dev |-> d, mark |-> mark, at |-> "sent", n |-> edits']

\* Ctrl or alt: the flag is toggled, the poll frozen and the record sent at once.
Toggle(d) ==
    LET new == IF device[d].mark = "on" THEN "off" ELSE "on"
    IN  /\ device' = [device EXCEPT ![d].mark = new]
        /\ frozen' = TRUE
        /\ puts' = puts \cup {Send(d, new)}
        /\ wish' = IF Quiet /\ d \in DOMAIN net THEN [dev |-> d, mark |-> new] ELSE None

\* Shift begins a drag, which sets only the place; a plain click unfolds the device and
\* freezes nothing.
Press(d) ==
    /\ frozen' \in {frozen, TRUE} /\ UNCHANGED <<device, puts>>
    /\ wish' = IF Quiet THEN wish ELSE None

\* A device that was drawn once takes the mouse.
mousedown(d) ==
    /\ held = None /\ Present(d) /\ device[d].drawn # "never"
    /\ edits < MaxEdits /\ edits' = edits + 1
    /\ held' = d
    /\ Toggle(d) \/ Press(d)
    /\ UNCHANGED <<server, build, answers, alive, cut, disturbances>>

mouseup ==
    /\ held # None /\ held' = None
    /\ UNCHANGED edits
    /\ puts' = puts \cup {Send(held, device[held].mark)}
    /\ UNCHANGED <<server, build, answers, device, alive, frozen, cut, wish, disturbances>>

\* The PUT is answered, or fails: either way the poll goes on, whatever other edit is
\* under way.
Answered(p) ==
    /\ p \in puts /\ p.at = "answered"
    /\ puts' = puts \ {p} /\ frozen' = FALSE
    /\ UNCHANGED <<server, build, answers, device, alive, held, cut, wish, edits, disturbances>>

Failed(p) ==
    /\ ~serverUp /\ p \in puts
    /\ puts' = puts \ {p} /\ frozen' = FALSE /\ wish' = None
    /\ UNCHANGED <<server, build, answers, device, alive, held, cut, edits, disturbances>>

-----------------------------------------------------------------------------
(* Around the page.                                                        *)

\* Devices come, go and are recabled; some of the writers invalidate the cache.
ChangeNetwork ==
    /\ Disturb
    /\ net' \in Networks \ {net}
    /\ marks' = [d \in Dev |-> IF d \in DOMAIN net' THEN marks[d] ELSE None]
    /\ cached' \in {cached, None}
    /\ listing' = IF listing = None THEN None ELSE [listing EXCEPT !.seen = @ \cup {net'}]
    /\ wish' = IF wish # None /\ wish.dev \notin DOMAIN net' THEN None ELSE wish
    /\ UNCHANGED <<imds, serverUp, poisoned, torn, answers, puts, device, alive,
                   frozen, held, cut, edits>>

ChangeState(d) ==
    /\ Disturb
    /\ \E new \in Knowledge \ {imds[d]} : imds' = [imds EXCEPT ![d] = new]
    /\ UNCHANGED <<net, marks, serverUp, build, answers, puts, device, alive, mouse>>

\* Another page stores a record.
OtherEdit(d) ==
    /\ Disturb /\ serverUp /\ d \in DOMAIN net
    /\ \E mark \in Mark \ {marks[d]} : marks' = [marks EXCEPT ![d] = mark]
    /\ wish' = IF wish # None /\ wish.dev = d THEN None ELSE wish
    /\ UNCHANGED <<net, imds, serverUp, build, answers, puts, device, alive,
                   frozen, held, cut, edits>>

ServerStops ==
    /\ Disturb /\ serverUp /\ serverUp' = FALSE
    /\ listing' = None /\ cached' = None /\ poisoned' = FALSE
    /\ UNCHANGED <<net, imds, marks, torn, answers, puts, device, alive, mouse>>

ServerStarts ==
    /\ ~serverUp /\ serverUp' = TRUE
    /\ UNCHANGED <<net, imds, marks, build, answers, puts, device, alive, mouse, disturbances>>

Next ==
    \/ Build \/ BuildPanics \/ Expire \/ ServerStops \/ ServerStarts \/ ChangeNetwork
    \/ \E a \in answers : Receive(a)
    \/ \E p \in puts : Put(p) \/ Answered(p) \/ Failed(p)
    \/ \E d \in Dev : Age(d)
    \/ \E d \in Disturbed : mousedown(d) \/ ChangeState(d) \/ OtherEdit(d)
    \/ mouseup
    \/ \E due \in Timers : frame(due)

Spec == Init /\ [][Next]_vars

\* What a poll of this kind would be answered now.
Current(kind) ==
    [kind |-> kind,
     data |-> IF kind = "topology" THEN net
              ELSE IF kind = "state" THEN StateInformation ELSE PositionData]

Polls == {"topology", "state", "position"}

\* What can happen only so often while nothing disturbs: late answers, requests, the
\* mouse button, staleness, the server's return.
Settle ==
    \/ \E a \in answers : a \notin {Current(kind) : kind \in Polls} /\ Receive(a)
    \/ \E p \in puts : Put(p) \/ Answered(p) \/ Failed(p)
    \/ \E d \in Dev : Age(d)
    \/ mouseup \/ ServerStarts

\* The loop runs, so that every timer comes due; requests are answered or fail, caches
\* run out, the server comes back and the mouse button is released.
FairSpec ==
    /\ Spec /\ WF_vars(Settle) /\ WF_vars(Build \/ Expire)
    /\ \A due \in Timers : WF_vars(frame(due))
    /\ \A kind \in Polls : WF_vars(Receive(Current(kind)))

-----------------------------------------------------------------------------
Link == [to : Dev, port : Port, from : Port]
DeviceType == [present : {TRUE}, links : SUBSET Link, status : {"none", "up", "down"},
               fresh : BOOLEAN, stale : BOOLEAN, dirty : BOOLEAN,
               drawn : {"never", "none", "up", "down"}, mark : Mark]

TypeOK ==
    /\ net \in Networks /\ imds \in [Dev -> Knowledge] /\ marks \in [Dev -> Mark \cup {None}]
    /\ listing = None \/ listing \in [devs : SUBSET Dev, seen : SUBSET Networks]
    /\ cached \in Topology \cup {None}
    /\ device \in [Dev -> DeviceType \cup {Gone}] /\ held \in Dev \cup {None}
    /\ wish \in [dev : Dev, mark : Mark] \cup {None}
    /\ {serverUp, poisoned, frozen, alive, torn, cut} \subseteq BOOLEAN

\* device.js:197-203, 378-383 and app.js:242-247: links to a device that is not on the
\* map would end the animation loop for good.  Whatever order the topologies arrive in,
\* that takes one that names a device it lacks.
LoopSurvives == alive \/ torn

\* device.js (updatePositionInfo, armDragEvents): an edit that begins when no other edit
\* and no answer is under way, and whose records the server stores, is what the server
\* has in the end, and what the page shows: the poll stays frozen until the server has
\* the record.  (A record that is dropped is answered all the same, device.js:71-75: the
\* page never knows, and the next poll undoes the edit.)
EditStands ==
    Quiet /\ wish # None =>
        /\ marks[wish.dev] = wish.mark
        /\ Present(wish.dev) => device[wish.dev].mark = wish.mark

Ends(links) == {<<l.to, l.port>> : l \in links}
Colour(d) == IF imds[d] = "absent" THEN "none" ELSE StateInformation[d]

\* Once the network, the server and the users are quiet the map that is drawn has the
\* devices and links of the database, in the colours the server reports (a device it
\* does not report in none), and their saved marks: late answers, failed updates, frozen
\* polls, dropped records and holes in the cache leave nothing behind.  A panic under the
\* cache's mutex does: every page gets an empty map until the server restarts.
MapCatchesUp ==
    <>[](\/ torn \/ poisoned
         \/ \A d \in Dev :
               /\ Present(d) <=> d \in DOMAIN net
               /\ Present(d) =>
                     /\ device[d].drawn = Colour(d)
                     /\ Ends(device[d].links) = Ends(Wanted(net, d))
                     /\ marks[d] = None \/ cut \/ device[d].mark = marks[d])

\* imds.rs:682: "Only emit device up/down metrics if device is actually up/down aka. not
\* indeterminate": the page is told that a device is down only if nexus has found it down.
UnknownNotDown ==
    \A d \in DOMAIN StateInformation : StateInformation[d] = "down" => imds[d] = "down"

\* A link is drawn with the figures of the port it leaves from.
LinksLeaveTheirPort ==
    <>[](torn \/ poisoned \/ \A d \in DOMAIN net : Present(d) => device[d].links = Wanted(net, d))
=============================================================================
