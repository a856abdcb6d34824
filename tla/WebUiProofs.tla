----------------------------- MODULE WebUiProofs -----------------------------
(***************************************************************************)
(* Proofs about the two browser programs, for any constants: the page that *)
(* draws the weathermap, and the web UI's live connection.                 *)
(*                                                                         *)
(* Weathermap: the animation loop ends only for a topology that names a    *)
(* device it lacks.  While no such topology was built, the cache and the   *)
(* answers on their way are closed, and so is the graph they were merged   *)
(* into: a merge keeps only links whose far end the answer has.            *)
(* And an edit stands once it is over: until the server has it, the frozen *)
(* poll and the puts under way let nothing else reach the page.            *)
(*                                                                         *)
(* Live connection: the only connection is the one the hook names, for     *)
(* every number of sockets and topics and any number of disturbances.      *)
(***************************************************************************)
EXTENDS WeatherMap, LiveSocket, TLAPS

\* A topology answer or cache: well formed, and closed unless one was torn.
SoundTopology(data) == data \in Topology /\ (torn \/ Closed(data))

SoundAnswer(a) ==
    /\ a.kind = "topology" => SoundTopology(a.data)
    /\ a.kind = "state" => \A d \in DOMAIN a.data : a.data[d] \in {"up", "down"}
    /\ a.kind = "position" => \A d \in DOMAIN a.data : a.data[d] \in Mark

ServerInv ==
    /\ net \in Networks /\ marks \in [Dev -> Mark \cup {None}]
    /\ listing = None \/ listing \in [devs : SUBSET Dev, seen : SUBSET Networks]
    /\ cached = None \/ SoundTopology(cached)
    /\ torn \in BOOLEAN

AnswersInv == \A a \in answers : SoundAnswer(a)

PutType == [dev : Dev, mark : Mark, at : {"sent", "answered"}, n : Nat]

MouseInv ==
    /\ edits \in Nat /\ puts \subseteq PutType
    /\ held = None \/ (held \in Dev /\ Present(held))

DeviceInv == device \in [Dev -> DeviceType \cup {Gone}]

PageInv == torn \/ (alive /\ Drawable)

IInv == ServerInv /\ AnswersInv /\ MouseInv /\ DeviceInv /\ PageInv

-----------------------------------------------------------------------------
(* Topologies and links.                                                   *)

\* The links a topology wants have their far ends in Dev.
LEMMA WantedType ==
    ASSUME NEW data \in Topology, NEW d \in DOMAIN data
    PROVE  Wanted(data, d) \subseteq Link
  <1>1. PICK S \in SUBSET Dev : data \in [S -> [Port -> (Dev \X Port) \cup {None}]]
    BY DEF Topology
  <1>2. \A p \in Port : data[d][p] # None => data[d][p] \in Dev \X Port
    BY <1>1
  <1> QED BY <1>2 DEF Wanted, Link

\* In a closed topology they are in the topology.
LEMMA WantedPresent ==
    ASSUME NEW data, Closed(data), NEW d \in DOMAIN data, NEW w \in Wanted(data, d)
    PROVE  w.to \in DOMAIN data
  BY DEF Wanted, Closed

\* A merge keeps and adds only wanted far ends.
LEMMA LinksWanted ==
    ASSUME NEW data \in Topology, NEW d \in DOMAIN data, device[d].links \subseteq Link
    PROVE  /\ Links(d, data) \subseteq Link
           /\ \A l \in Links(d, data) : \E w \in Wanted(data, d) : l.to = w.to
  <1>1. Wanted(data, d) \subseteq Link
    BY WantedType
  <1>2. ASSUME NEW l \in Links(d, data)
        PROVE  l \in Link /\ \E w \in Wanted(data, d) : l.to = w.to
    BY <1>1, <1>2 DEF Links, SameLink
  <1> QED BY <1>2

LEMMA TopologyDomain == ASSUME NEW data \in Topology PROVE DOMAIN data \subseteq Dev
  BY DEF Topology

\* What the page becomes by a topology has its type, and is drawable if that was closed.
LEMMA MergeKeeps ==
    ASSUME IInv, NEW data, SoundTopology(data), UpdateTopologyData(data), UNCHANGED <<torn, alive>>
    PROVE  DeviceInv' /\ PageInv' /\ (held' = None \/ (held' \in Dev /\ Present(held)'))
  <1> DEFINE Merged(d) ==
        IF d \notin DOMAIN data THEN Gone
        ELSE IF Present(d) THEN [device[d] EXCEPT !.links = Links(d, data)]
        ELSE [NewDevice EXCEPT !.links = Wanted(data, d)]
  <1>1. data \in Topology /\ DOMAIN data \subseteq Dev
    BY TopologyDomain DEF SoundTopology
  <1>2. device' = [d \in Dev |-> Merged(d)]
    BY DEF UpdateTopologyData
  <1>3. ASSUME NEW d \in DOMAIN data
        PROVE  /\ Merged(d) \in DeviceType
               /\ \A l \in Merged(d).links : \E w \in Wanted(data, d) : l.to = w.to
    <2>1. CASE Present(d)
      <3>1. device[d] \in DeviceType
        BY <1>1, <2>1 DEF IInv, DeviceInv, Present
      <3>2. /\ Links(d, data) \subseteq Link
            /\ \A l \in Links(d, data) : \E w \in Wanted(data, d) : l.to = w.to
        BY <1>1, <3>1, LinksWanted DEF DeviceType
      <3>3. Merged(d) = [device[d] EXCEPT !.links = Links(d, data)]
        BY <2>1
      <3> QED BY <3>1, <3>2, <3>3 DEF DeviceType
    <2>2. CASE ~Present(d)
      <3>1. Wanted(data, d) \subseteq Link
        BY <1>1, WantedType
      <3>2. Merged(d) = [NewDevice EXCEPT !.links = Wanted(data, d)]
        BY <2>2
      <3> QED BY <3>1, <3>2 DEF NewDevice, DeviceType, Mark
    <2> QED BY <2>1, <2>2
  <1>4. \A d \in Dev : d \notin DOMAIN data => Merged(d) = Gone
    OBVIOUS
  <1> HIDE DEF Merged
  <1>5. DeviceInv'
    BY <1>2, <1>3, <1>4 DEF DeviceInv
  <1>6. \A r \in DeviceType : r # Gone
    BY DEF DeviceType, Gone
  <1>7. \A d \in Dev : Present(d)' <=> d \in DOMAIN data
    BY <1>2, <1>3, <1>4, <1>6 DEF Present
  <1>8. ASSUME ~torn PROVE alive' /\ Drawable'
    <2>1. alive' /\ Closed(data)
      BY <1>8 DEF IInv, PageInv, SoundTopology
    <2>2. ASSUME NEW d \in Dev, Present(d)', NEW l \in device'[d].links
          PROVE  Present(l.to)'
      <3>1. d \in DOMAIN data /\ device'[d] = Merged(d)
        BY <1>2, <1>7, <2>2
      <3>2. PICK w \in Wanted(data, d) : l.to = w.to
        BY <1>3, <2>2, <3>1
      <3>3. l.to \in DOMAIN data
        BY <2>1, <3>1, <3>2, WantedPresent
      <3> QED BY <1>1, <1>7, <3>3
    <2> QED BY <2>1, <2>2 DEF Drawable
  <1>9. PageInv'
    BY <1>8 DEF PageInv
  <1>10. held' = None \/ (held' \in Dev /\ Present(held)')
    <2>1. held' = None \/ held' \in DOMAIN data
      BY DEF UpdateTopologyData
    <2> QED BY <1>1, <1>7, <2>1 DEF Present
  <1> QED BY <1>5, <1>9, <1>10

-----------------------------------------------------------------------------
(* The initial state, and steps that leave the graph's shape alone.        *)

LEMMA Initial == Init => IInv
  <1> SUFFICES ASSUME Init PROVE IInv
    OBVIOUS
  <1>1. ServerInv
    BY DEF Init, ServerInv
  <1>2. AnswersInv /\ MouseInv
    BY DEF Init, AnswersInv, MouseInv
  <1>3. DeviceInv
    BY DEF Init, DeviceInv
  <1>4. PageInv
    BY DEF Init, PageInv, Drawable, Present
  <1> QED BY <1>1, <1>2, <1>3, <1>4 DEF IInv

\* Fewer answers stay sound: torn only becomes true.
LEMMA AnswersStay ==
    ASSUME AnswersInv, torn => torn', answers' \subseteq answers
    PROVE  AnswersInv'
  BY DEF AnswersInv, SoundAnswer, SoundTopology

LEMMA AnswerAdded ==
    ASSUME AnswersInv, torn => torn', NEW a, SoundAnswer(a)', answers' = answers \cup {a}
    PROVE  AnswersInv'
  BY DEF AnswersInv, SoundAnswer, SoundTopology

LEMMA NoDevicesSound == NoDevices \in Topology /\ Closed(NoDevices)
  BY DEF NoDevices, Topology, Closed

\* Whatever mix of networks a build reads, and whatever it misses, is a topology.
LEMMA ReadingsType ==
    ASSUME listing \in [devs : SUBSET Dev, seen : SUBSET Networks],
           NEW failed \in SUBSET {None}, NEW t \in Readings(failed)
    PROVE  t \in Topology
  <1>1. ASSUME NEW n \in listing.seen, NEW d \in listing.devs, NEW p \in Port
        PROVE  End(n, d, p) \in (Dev \X Port) \cup {None}
    <2>1. PICK S \in SUBSET Dev : n \in [S -> [Port -> (Dev \X Port) \cup {None}]]
      BY NetworkAssumption DEF Topology
    <2> QED BY <2>1 DEF End
  <1>2. /\ t = [d \in listing.devs |-> t[d]]
        /\ \A d \in listing.devs : t[d] = [p \in Port |-> t[d][p]]
    BY DEF Readings
  <1>3. \A d \in listing.devs, p \in Port : t[d][p] \in {End(n, d, p) : n \in listing.seen} \cup failed
    BY DEF Readings
  <1>4. \A d \in listing.devs, p \in Port : t[d][p] \in (Dev \X Port) \cup {None}
    BY <1>1, <1>3
  <1>5. \A d \in listing.devs : t[d] \in [Port -> (Dev \X Port) \cup {None}]
    BY <1>2, <1>4
  <1>6. t \in [listing.devs -> [Port -> (Dev \X Port) \cup {None}]]
    BY <1>2, <1>5
  <1> QED BY <1>6 DEF Topology

\* The devices of the graph and their links stay as they are.
SameShape ==
    \A d \in Dev : (Present(d)' <=> Present(d)) /\ (Present(d) => device'[d].links = device[d].links)

LEMMA ShapeKeeps ==
    ASSUME IInv, DeviceInv', SameShape, UNCHANGED <<alive, torn>>
    PROVE  PageInv'
  <1>1. ASSUME Drawable PROVE Drawable'
    <2> SUFFICES ASSUME NEW d \in Dev, Present(d)', NEW l \in device'[d].links
                 PROVE  Present(l.to)'
      BY DEF Drawable
    <2>1. Present(d) /\ l \in device[d].links
      BY DEF SameShape
    <2>2. l.to \in Dev
      BY <2>1 DEF IInv, DeviceInv, DeviceType, Link, Present
    <2> QED BY <1>1, <2>1, <2>2 DEF Drawable, SameShape
  <1> QED BY <1>1 DEF IInv, PageInv

LEMMA GraphUnchanged ==
    ASSUME IInv, UNCHANGED <<device, alive, torn>>
    PROVE  DeviceInv' /\ PageInv'
  BY DEF IInv, DeviceInv, PageInv, Drawable, Present

LEMMA MouseUnchanged ==
    ASSUME IInv, UNCHANGED <<edits, puts, held>>, SameShape \/ UNCHANGED device
    PROVE  MouseInv'
  BY DEF IInv, MouseInv, SameShape, Present

LEMMA ServerUnchanged ==
    ASSUME IInv, UNCHANGED <<net, marks, listing, cached, torn>>
    PROVE  ServerInv'
  BY DEF IInv, ServerInv, SoundTopology

\* One device is changed in fields other than its links.
LEMMA OneChanged ==
    ASSUME IInv, NEW d \in Dev, Present(d), NEW r \in DeviceType, r.links = device[d].links,
           device' = [device EXCEPT ![d] = r]
    PROVE  DeviceInv' /\ SameShape
  <1>1. DeviceInv'
    BY DEF IInv, DeviceInv
  <1>2. r # Gone
    BY DEF DeviceType, Gone
  <1> QED BY <1>1, <1>2 DEF SameShape, Present, IInv, DeviceInv

-----------------------------------------------------------------------------
(* The server's steps and the world's.                                     *)

LEMMA BuildKeeps == IInv /\ Build => IInv'
  <1> SUFFICES ASSUME IInv, Build PROVE IInv'
    OBVIOUS
  <1> DEFINE data == cached'
  <1>1. data \in Topology
    <2>1. listing \in [devs : SUBSET Dev, seen : SUBSET Networks]
      BY DEF IInv, ServerInv, Build
    <2>2. data \in Readings({}) \/ data \in Readings({None}) \/ data = NoDevices
      BY DEF Build
    <2> QED BY <2>1, <2>2, ReadingsType, NoDevicesSound
  <1>2. cached' = data /\ (torn' \/ Closed(data)) /\ (torn => torn') /\ torn' \in BOOLEAN
    BY DEF Build, IInv, ServerInv
  <1> HIDE DEF data
  <1>3. ServerInv'
    BY <1>1, <1>2 DEF Build, server, IInv, ServerInv, SoundTopology
  <1>4. AnswersInv'
    <2>1. PICK a : a = [kind |-> "topology", data |-> data]
      OBVIOUS
    <2>2. answers' = answers \cup {a}
      BY <2>1 DEF Build, data
    <2>3. SoundAnswer(a)'
      BY <1>1, <1>2, <2>1 DEF SoundAnswer, SoundTopology
    <2> QED BY <1>2, <2>2, <2>3, AnswerAdded DEF IInv
  <1>5. MouseInv'
    BY MouseUnchanged DEF Build, mouse
  <1>6. DeviceInv'
    BY DEF Build, IInv, DeviceInv
  <1>7. PageInv'
    BY <1>2 DEF Build, IInv, PageInv, Drawable, Present
  <1> QED BY <1>3, <1>4, <1>5, <1>6, <1>7 DEF IInv

LEMMA PutKeeps == ASSUME IInv, NEW p \in puts, Put(p) PROVE IInv'
  <1>1. p \in PutType
    BY DEF IInv, MouseInv
  <1>2. ServerInv'
    <2>1. marks' = marks \/ marks' = [marks EXCEPT ![p.dev] = p.mark]
      BY DEF Put
    <2>2. marks' \in [Dev -> Mark \cup {None}]
      BY <1>1, <2>1 DEF IInv, ServerInv, PutType
    <2> QED BY <2>2 DEF Put, build, IInv, ServerInv, SoundTopology
  <1>3. AnswersInv' /\ DeviceInv' /\ PageInv'
    BY AnswersStay, GraphUnchanged DEF Put, build, IInv
  <1>4. MouseInv'
    <2>1. [p EXCEPT !.at = "answered"] \in PutType
      BY <1>1 DEF PutType
    <2> QED BY <2>1 DEF Put, mouse, IInv, MouseInv, Present
  <1> QED BY <1>2, <1>3, <1>4 DEF IInv

LEMMA WorldKeeps ==
    ASSUME IInv,
           \/ BuildPanics \/ Expire \/ ServerStops \/ ServerStarts \/ ChangeNetwork
           \/ \E d \in Disturbed : ChangeState(d) \/ OtherEdit(d)
    PROVE  IInv'
  <1>1. UNCHANGED <<answers, puts, device, alive, torn, held, edits>>
    BY DEF BuildPanics, Expire, ServerStops, ServerStarts, ChangeNetwork, ChangeState, OtherEdit, build, mouse
  <1>2. AnswersInv' /\ DeviceInv' /\ PageInv'
    BY <1>1, AnswersStay, GraphUnchanged DEF IInv
  <1>3. MouseInv'
    BY <1>1, MouseUnchanged
  <1>4. ServerInv'
    <2>1. CASE Expire
      BY <1>1, <2>1 DEF Expire, server, IInv, ServerInv
    <2>2. CASE ServerStops
      BY <1>1, <2>2 DEF ServerStops, IInv, ServerInv
    <2>3. CASE ServerStarts
      BY <2>3, ServerUnchanged DEF ServerStarts, build
    <2>4. CASE ChangeNetwork
      <3>1. listing' = None \/ listing' \in [devs : SUBSET Dev, seen : SUBSET Networks]
        <4>1. CASE listing = None
          BY <2>4, <4>1 DEF ChangeNetwork
        <4>2. CASE listing # None
          <5>1. listing \in [devs : SUBSET Dev, seen : SUBSET Networks] /\ net' \in Networks
            BY <2>4, <4>2 DEF ChangeNetwork, IInv, ServerInv
          <5>2. listing' = [listing EXCEPT !.seen = listing.seen \cup {net'}]
            BY <2>4, <4>2 DEF ChangeNetwork
          <5>3. listing.seen \cup {net'} \in SUBSET Networks
            BY <5>1
          <5> QED BY <5>1, <5>2, <5>3
        <4> QED BY <4>1, <4>2
      <3>2. net' \in Networks /\ marks' \in [Dev -> Mark \cup {None}]
        BY <2>4 DEF ChangeNetwork, IInv, ServerInv
      <3>3. (cached' = cached \/ cached' = None) /\ torn' = torn
        BY <2>4 DEF ChangeNetwork
      <3> QED BY <3>1, <3>2, <3>3 DEF IInv, ServerInv, SoundTopology
    <2>7. CASE BuildPanics
      BY <1>1, <2>7 DEF BuildPanics, server, IInv, ServerInv, SoundTopology
    <2>5. ASSUME NEW d \in Disturbed, ChangeState(d) PROVE ServerInv'
      BY <2>5, ServerUnchanged DEF ChangeState, build
    <2>6. ASSUME NEW d \in Disturbed, OtherEdit(d) PROVE ServerInv'
      <3>1. \E mark \in Mark : marks' = [marks EXCEPT ![d] = mark]
        BY <2>6 DEF OtherEdit
      <3>2. marks' \in [Dev -> Mark \cup {None}]
        BY <3>1 DEF IInv, ServerInv
      <3>3. UNCHANGED <<net, listing, cached, torn>>
        BY <2>6 DEF OtherEdit, build
      <3> QED BY <3>2, <3>3 DEF IInv, ServerInv, SoundTopology
    <2> QED BY <2>1, <2>2, <2>3, <2>4, <2>5, <2>6, <2>7
  <1> QED BY <1>2, <1>3, <1>4 DEF IInv

-----------------------------------------------------------------------------
(* The page's steps.                                                       *)

LEMMA MouseKeeps ==
    ASSUME IInv,
           \/ \E d \in Disturbed : mousedown(d)
           \/ mouseup
           \/ \E p \in puts : Answered(p) \/ Failed(p)
    PROVE  IInv'
  <1>1. UNCHANGED <<net, marks, listing, cached, torn, answers, alive>>
    BY DEF mousedown, mouseup, Answered, Failed, server, build
  <1>2. ServerInv' /\ AnswersInv'
    BY <1>1, ServerUnchanged, AnswersStay DEF IInv
  <1>3. ASSUME NEW d \in Disturbed, mousedown(d) PROVE MouseInv' /\ DeviceInv' /\ PageInv'
    <2>1. d \in Dev /\ Present(d) /\ edits' = edits + 1 /\ held' = d
      BY <1>3, DisturbedAssumption DEF mousedown
    <2>2. device[d] \in DeviceType
      BY <2>1 DEF IInv, DeviceInv, Present
    <2>3. edits \in Nat /\ edits' \in Nat
      BY <2>1 DEF IInv, MouseInv
    <2>4. CASE Toggle(d)
      <3> DEFINE new == IF device[d].mark = "on" THEN "off" ELSE "on"
                 r == [device[d] EXCEPT !.mark = new]
      <3>1. new \in Mark
        BY DEF Mark
      <3> HIDE DEF new
      <3>2. r \in DeviceType /\ r.links = device[d].links
        BY <2>2, <3>1 DEF DeviceType
      <3>3. device' = [device EXCEPT ![d] = r]
        BY <2>4 DEF Toggle, new
      <3> HIDE DEF r
      <3>4. DeviceInv' /\ SameShape
        BY <2>1, <3>2, <3>3, OneChanged
      <3>5. puts' = puts \cup {Send(d, new)}
        BY <2>4 DEF Toggle, new
      <3>6. Send(d, new) \in PutType
        BY <2>1, <2>3, <3>1 DEF Send, PutType
      <3>7. MouseInv'
        BY <2>1, <2>3, <3>4, <3>5, <3>6 DEF IInv, MouseInv, SameShape
      <3> QED BY <1>1, <3>4, <3>7, ShapeKeeps
    <2>5. CASE Press(d)
      BY <1>1, <2>1, <2>3, <2>5, GraphUnchanged DEF Press, IInv, MouseInv, Present
    <2> QED BY <1>3, <2>4, <2>5 DEF mousedown
  <1>4. CASE mouseup
    <2>1. DeviceInv' /\ PageInv'
      BY <1>1, <1>4, GraphUnchanged DEF mouseup
    <2>2. MouseInv'
      <3>1. held \in Dev /\ device[held] \in DeviceType /\ edits' = edits /\ edits \in Nat
        BY <1>4 DEF mouseup, IInv, MouseInv, DeviceInv, Present
      <3>2. Send(held, device[held].mark) \in PutType
        BY <3>1 DEF Send, PutType, DeviceType
      <3> QED BY <1>4, <3>1, <3>2 DEF mouseup, IInv, MouseInv
    <2> QED BY <1>2, <2>1, <2>2 DEF IInv
  <1>5. ASSUME NEW p \in puts, Answered(p) \/ Failed(p) PROVE MouseInv' /\ DeviceInv' /\ PageInv'
    BY <1>1, <1>5, GraphUnchanged DEF Answered, Failed, IInv, MouseInv, Present
  <1> QED BY <1>2, <1>3, <1>4, <1>5 DEF IInv

LEMMA ReceiveStateKeeps ==
    ASSUME IInv, NEW a \in answers, a.kind = "state", UpdateStatuses(a.data)
    PROVE  DeviceInv' /\ SameShape
  <1> DEFINE data == a.data
             known == {d \in DOMAIN data : Present(d)}
             Kept ==
                /\ device' = [d \in Dev |-> device'[d]]
                /\ \A d \in Dev :
                      IF Present(d)
                      THEN device'[d] \in DeviceType /\ device'[d].links = device[d].links
                      ELSE device'[d] = Gone
  <1>1. \A d \in known : data[d] \in {"up", "down"}
    BY DEF IInv, AnswersInv, SoundAnswer
  <1>2. \A d \in Dev : Present(d) => device[d] \in DeviceType
    BY DEF IInv, DeviceInv, Present
  <1>3. ASSUME NEW dv \in DeviceType, NEW new \in {"up", "down"}
        PROVE  SetStatus(dv, new) \in DeviceType /\ SetStatus(dv, new).links = dv.links
    BY DEF SetStatus, DeviceType
  <1>4. ASSUME NEW dv \in DeviceType
        PROVE  CheckStale(dv) \in DeviceType /\ CheckStale(dv).links = dv.links
    BY DEF CheckStale, DeviceType
  <1>5. ASSUME NEW dv \in DeviceType
        PROVE  [dv EXCEPT !.fresh = TRUE] \in DeviceType /\ [dv EXCEPT !.fresh = TRUE].links = dv.links
    BY DEF DeviceType
  <1>6. \A r \in DeviceType : r # Gone
    BY DEF DeviceType, Gone
  \* Whichever way the answer is taken, each device keeps its shape.
  <1>7. Kept
    <2>1. CASE device' = [d \in Dev |->
                  IF ~Present(d) THEN Gone
                  ELSE CheckStale(IF d \in known THEN SetStatus(device[d], data[d]) ELSE device[d])]
      BY <1>1, <1>2, <1>3, <1>4, <2>1
    <2>2. ASSUME NEW bad \in known, NEW before \in SUBSET known,
                 device' = [x \in Dev |-> IF x \in before THEN SetStatus(device[x], data[x])
                                          ELSE IF x = bad THEN [device[x] EXCEPT !.fresh = TRUE]
                                          ELSE device[x]]
          PROVE  Kept
      <3>1. \A d \in before \cup {bad} : Present(d)
        OBVIOUS
      <3>2. \A d \in Dev : ~Present(d) => device[d] = Gone
        BY DEF Present
      <3> HIDE DEF known
      <3> QED BY <1>1, <1>2, <1>3, <1>5, <2>2, <3>1, <3>2
    <2> QED BY <2>1, <2>2 DEF UpdateStatuses
  <1> QED BY <1>6, <1>7 DEF DeviceInv, SameShape, Present

LEMMA ReceiveKeeps == ASSUME IInv, NEW a \in answers, Receive(a) PROVE IInv'
  <1>1. UNCHANGED <<net, marks, listing, cached, torn, puts, alive>> /\ answers' \subseteq answers
    BY DEF Receive, server, build
  <1>2. ServerInv' /\ AnswersInv'
    BY <1>1, ServerUnchanged, AnswersStay DEF IInv
  <1>3. CASE a.kind = "topology" /\ UpdateTopologyData(a.data)
    <2>1. DeviceInv' /\ PageInv' /\ (held' = None \/ (held' \in Dev /\ Present(held)'))
      BY <1>1, <1>3, MergeKeeps DEF IInv, AnswersInv, SoundAnswer
    <2>2. MouseInv'
      BY <1>1, <1>3, <2>1 DEF UpdateTopologyData, IInv, MouseInv, Present
    <2> QED BY <1>2, <2>1, <2>2 DEF IInv
  <1>4. ASSUME DeviceInv', SameShape, UNCHANGED mouse PROVE IInv'
    BY <1>1, <1>2, <1>4, ShapeKeeps, MouseUnchanged DEF mouse, IInv
  <1>5. CASE a.kind = "state" /\ UpdateStatuses(a.data) /\ UNCHANGED mouse
    BY <1>4, <1>5, ReceiveStateKeeps
  <1>6. CASE a.kind = "position" /\ UpdatePositions(a.data) /\ UNCHANGED mouse
    <2>1. \A d \in DOMAIN a.data : a.data[d] \in Mark
      BY <1>6 DEF IInv, AnswersInv, SoundAnswer
    <2>2. \A r \in DeviceType : r # Gone
      BY DEF DeviceType, Gone
    <2>3. ASSUME NEW r \in DeviceType, NEW mark \in Mark
          PROVE  [r EXCEPT !.mark = mark] \in DeviceType /\ [r EXCEPT !.mark = mark].links = r.links
      BY DEF DeviceType
    <2>4. DeviceInv' /\ SameShape
      BY <1>6, <2>1, <2>2, <2>3 DEF UpdatePositions, IInv, DeviceInv, SameShape, Present
    <2> QED BY <1>4, <1>6, <2>4
  <1> QED BY <1>3, <1>5, <1>6 DEF Receive

LEMMA AgeKeeps == ASSUME IInv, NEW d \in Dev, Age(d) PROVE IInv'
  <1> DEFINE r == [device[d] EXCEPT !.fresh = FALSE]
  <1>1. Present(d) /\ device' = [device EXCEPT ![d] = r]
    BY DEF Age
  <1>2. r \in DeviceType /\ r.links = device[d].links
    BY <1>1 DEF IInv, DeviceInv, DeviceType, Present
  <1> HIDE DEF r
  <1>3. DeviceInv' /\ SameShape
    BY <1>1, <1>2, OneChanged
  <1>4. UNCHANGED <<net, marks, listing, cached, torn, answers, puts, alive, held, edits>>
    BY DEF Age, server, build, mouse
  <1>5. ServerInv' /\ AnswersInv' /\ MouseInv' /\ PageInv'
    BY <1>3, <1>4, ServerUnchanged, AnswersStay, MouseUnchanged, ShapeKeeps DEF IInv
  <1> QED BY <1>3, <1>5 DEF IInv

\* A frame asks for data that is sound, or draws a graph that can be drawn.
LEMMA FrameKeeps == ASSUME IInv, NEW due \in Timers, frame(due) PROVE IInv'
  <1>1. UNCHANGED <<net, marks, puts, held, edits>>
    BY DEF frame, server, mouse
  <1>2. ASSUME UNCHANGED <<listing, cached, torn, device, alive>>,
               NEW a, SoundAnswer(a), answers' = answers \cup {a}
        PROVE  IInv'
    <2>1. SoundAnswer(a)'
      BY <1>2 DEF SoundAnswer, SoundTopology
    <2> QED BY <1>1, <1>2, <2>1, ServerUnchanged, AnswerAdded, GraphUnchanged, MouseUnchanged DEF IInv
  <1>3. CASE AskTopology
    <2>1. CASE poisoned \/ cached # None
      <3>1. PICK a : a = [kind |-> "topology", data |-> IF poisoned THEN NoDevices ELSE cached]
        OBVIOUS
      <3>2. SoundAnswer(a)
        BY <2>1, <3>1, NoDevicesSound DEF IInv, ServerInv, SoundAnswer, SoundTopology
      <3>3. answers' = answers \cup {a}
        BY <1>3, <2>1, <3>1 DEF AskTopology
      <3> QED BY <1>2, <1>3, <2>1, <3>2, <3>3 DEF AskTopology
    <2>2. CASE ~(poisoned \/ cached # None)
      <3>1. listing' = None \/ listing' \in [devs : SUBSET Dev, seen : SUBSET Networks]
        <4>1. net \in Networks /\ DOMAIN net \subseteq Dev
          BY TopologyDomain, NetworkAssumption DEF IInv, ServerInv
        <4>2. listing' = listing \/ listing' = [devs |-> DOMAIN net, seen |-> {net}]
          BY <1>3, <2>2 DEF AskTopology
        <4> QED BY <4>1, <4>2 DEF IInv, ServerInv
      <3>2. UNCHANGED <<answers, cached, torn, device, alive>>
        BY <1>3, <2>2 DEF AskTopology
      <3>3. ServerInv'
        BY <1>1, <3>1, <3>2 DEF IInv, ServerInv, SoundTopology
      <3> QED BY <1>1, <3>2, <3>3, AnswersStay, GraphUnchanged, MouseUnchanged DEF IInv
    <2> QED BY <2>1, <2>2
  <1>4. CASE AskState
    <2>1. PICK a : a = [kind |-> "state", data |-> StateInformation]
      OBVIOUS
    <2>2. \A d \in DOMAIN StateInformation : StateInformation[d] \in {"up", "down"}
      BY DEF StateInformation
    <2>3. SoundAnswer(a) /\ answers' = answers \cup {a}
      BY <1>4, <2>1, <2>2 DEF AskState, SoundAnswer
    <2> QED BY <1>2, <1>4, <2>3 DEF AskState, build
  <1>5. CASE AskPosition
    <2>1. PICK a : a = [kind |-> "position", data |-> PositionData]
      OBVIOUS
    <2>2. \A d \in DOMAIN PositionData : PositionData[d] \in Mark
      BY DEF PositionData, IInv, ServerInv
    <2>3. SoundAnswer(a) /\ answers' = answers \cup {a}
      BY <1>5, <2>1, <2>2 DEF AskPosition, SoundAnswer
    <2> QED BY <1>2, <1>5, <2>3 DEF AskPosition, build
  <1>6. CASE UpdateGraphics
    <2>1. UNCHANGED <<listing, cached, torn, answers>> /\ alive' = Drawable
      BY <1>6 DEF UpdateGraphics, build
    <2>2. ASSUME NEW r \in DeviceType
          PROVE  LET s == [r EXCEPT !.dirty = FALSE, !.drawn = r.status]
                 IN  s \in DeviceType /\ s.links = r.links /\ s # Gone
      BY DEF DeviceType, Gone
    <2>3. DeviceInv' /\ SameShape
      BY <1>6, <2>2 DEF UpdateGraphics, IInv, DeviceInv, SameShape, Present
    <2>4. PageInv'
      <3>1. CASE torn
        BY <2>1, <3>1 DEF PageInv
      <3>2. CASE ~torn
        BY <2>1, <2>3, <3>2, ShapeKeeps DEF IInv, PageInv
      <3> QED BY <3>1, <3>2
    <2> QED BY <1>1, <2>1, <2>3, <2>4, ServerUnchanged, AnswersStay, MouseUnchanged DEF IInv
  <1> QED BY <1>3, <1>4, <1>5, <1>6 DEF frame

LEMMA Inductive == IInv /\ [Next]_vars => IInv'
  <1> SUFFICES ASSUME IInv, [Next]_vars PROVE IInv'
    OBVIOUS
  <1>1. ASSUME NEW d \in Dev, Age(d) PROVE IInv'
    BY <1>1, AgeKeeps
  <1>2. ASSUME NEW a \in answers, Receive(a) PROVE IInv'
    BY <1>2, ReceiveKeeps
  <1>3. ASSUME NEW p \in puts, Put(p) PROVE IInv'
    BY <1>3, PutKeeps
  <1>4. ASSUME NEW due \in Timers, frame(due) PROVE IInv'
    BY <1>4, FrameKeeps
  <1>5. CASE UNCHANGED vars
    <2>1. UNCHANGED <<net, marks, listing, cached, torn, answers, puts, device, alive, held, edits>>
      BY <1>5 DEF vars, server, build, mouse
    <2> QED BY <2>1, ServerUnchanged, AnswersStay, GraphUnchanged, MouseUnchanged DEF IInv
  <1> QED BY <1>1, <1>2, <1>3, <1>4, <1>5, BuildKeeps, WorldKeeps, MouseKeeps DEF Next

-----------------------------------------------------------------------------
\* The loop of the page outlives every order of answers, every edit and every outage,
\* unless a topology names a device it lacks (device.js: updateGraphics; app.js: mainLoop).
THEOREM LoopSurvivesAlways == Spec => []LoopSurvives
  <1>1. IInv => LoopSurvives
    BY DEF IInv, PageInv, LoopSurvives
  <1> QED BY Initial, Inductive, <1>1, PTL DEF Spec

-----------------------------------------------------------------------------
(* An edit that nothing disturbs stands: what the page shows, what is sent  *)
(* and what positions are on their way agree with it, and until the server  *)
(* has it the poll is frozen and only its own records are under way.        *)

WishShown ==
    /\ wish \in [dev : Dev, mark : Mark] /\ wish.dev \in DOMAIN net
    /\ Present(wish.dev) /\ device[wish.dev].mark = wish.mark

WishSent == \A p \in puts : p.dev = wish.dev => p.mark = wish.mark

WishAnswered ==
    \A a \in answers : a.kind = "position" /\ wish.dev \in DOMAIN a.data =>
        a.data[wish.dev] = wish.mark

WishAwaited ==
    /\ frozen /\ puts # {} /\ (held = None \/ held = wish.dev)
    /\ \A p \in puts : p.dev = wish.dev /\ p.at = "sent"

WishInv ==
    wish # None =>
        WishShown /\ WishSent /\ WishAnswered /\ (marks[wish.dev] = wish.mark \/ WishAwaited)

LEMMA WishInitial == Init => WishInv
  BY DEF Init, WishInv

\* Nothing of the page or the edits changes, and no position is added.
LEMMA WishUntouched ==
    ASSUME WishInv, UNCHANGED <<wish, net, marks, puts, frozen, held>>,
           wish # None => device'[wish.dev] # Gone /\ device'[wish.dev].mark = wish.mark,
           \A a \in answers' : a.kind = "position" => a \in answers
    PROVE  WishInv'
  BY DEF WishInv, WishShown, WishSent, WishAnswered, WishAwaited, Present

LEMMA WishDeviceUntouched ==
    ASSUME WishInv, UNCHANGED <<wish, net, marks, puts, frozen, held, device>>,
           \A a \in answers' : a.kind = "position" => a \in answers
    PROVE  WishInv'
  <1>1. wish # None => device'[wish.dev] # Gone /\ device'[wish.dev].mark = wish.mark
    BY DEF WishInv, WishShown, Present
  <1> QED BY <1>1, WishUntouched

LEMMA WishServerSteps ==
    ASSUME WishInv,
           \/ Build \/ BuildPanics \/ Expire \/ ServerStops \/ ServerStarts
           \/ \E d \in Disturbed : ChangeState(d)
    PROVE  WishInv'
  <1>1. UNCHANGED <<wish, net, marks, puts, frozen, held, device>>
    BY DEF Build, BuildPanics, Expire, ServerStops, ServerStarts, ChangeState, server, build, mouse
  <1>2. \A a \in answers' : a.kind = "position" => a \in answers
    <2>1. CASE Build
      <3>1. PICK b : b = [kind |-> "topology", data |-> cached']
        OBVIOUS
      <3>2. answers' = answers \cup {b} /\ b.kind # "position"
        BY <2>1, <3>1 DEF Build
      <3> QED BY <3>2
    <2>2. CASE UNCHANGED answers
      BY <2>2
    <2> QED BY <2>1, <2>2 DEF BuildPanics, Expire, ServerStops, ServerStarts, ChangeState, build
  <1> QED BY <1>1, <1>2, WishDeviceUntouched

\* The network and other editors end the wish or leave its device alone.
LEMMA WishWorldSteps ==
    ASSUME IInv, WishInv, ChangeNetwork \/ \E d \in Disturbed : OtherEdit(d)
    PROVE  WishInv'
  <1>1. UNCHANGED <<answers, puts, device, frozen, held>>
    BY DEF ChangeNetwork, OtherEdit, build
  <1> SUFFICES ASSUME wish' # None
               PROVE  WishInv'
    BY DEF WishInv
  <1>2. wish' = wish /\ wish # None
    BY DEF ChangeNetwork, OtherEdit
  <1>3. wish.dev \in DOMAIN net' /\ marks'[wish.dev] = marks[wish.dev]
    <2>1. wish.dev \in Dev /\ wish.dev \in DOMAIN net
      BY <1>2 DEF WishInv, WishShown
    <2>2. CASE ChangeNetwork
      BY <1>2, <2>1, <2>2 DEF ChangeNetwork
    <2>3. ASSUME NEW d \in Disturbed, OtherEdit(d) PROVE marks'[wish.dev] = marks[wish.dev] /\ net' = net
      <3>1. d # wish.dev
        BY <1>2, <2>3 DEF OtherEdit
      <3> QED BY <2>1, <2>3, <3>1 DEF OtherEdit, IInv, ServerInv
    <2> QED BY <2>1, <2>2, <2>3
  <1> QED BY <1>1, <1>2, <1>3 DEF WishInv, WishShown, WishSent, WishAnswered, WishAwaited, Present

\* Records that reach the server, and their answers.
LEMMA WishPutSteps ==
    ASSUME IInv, WishInv, NEW p \in puts, Put(p) \/ Answered(p) \/ Failed(p)
    PROVE  WishInv'
  <1> SUFFICES ASSUME wish' # None
               PROVE  WishInv'
    BY DEF WishInv
  <1>1. UNCHANGED <<wish, net, device, held, answers>> /\ wish # None /\ (Put(p) \/ Answered(p))
    BY DEF Put, Answered, Failed, server, build, mouse
  <1>2. WishShown' /\ WishAnswered'
    BY <1>1 DEF WishInv, WishShown, WishAnswered, Present
  <1>3. CASE Put(p)
    <2>0. \/ marks' = IF p.dev \in DOMAIN net THEN [marks EXCEPT ![p.dev] = p.mark] ELSE marks
          \/ p.dev # wish.dev /\ marks' = marks
      BY <1>1, <1>3 DEF Put
    <2>1. PICK q : q = [p EXCEPT !.at = "answered"]
      OBVIOUS
    <2>2. p \in PutType /\ puts' = (puts \ {p}) \cup {q} /\ q.dev = p.dev /\ q.mark = p.mark
      BY <1>3, <2>1 DEF Put, IInv, MouseInv, PutType
    <2>3. WishSent'
      BY <1>1, <2>2 DEF WishInv, WishSent
    <2>4. marks'[wish.dev] = wish.mark
      <3>1. wish.dev \in Dev /\ wish.dev \in DOMAIN net /\ marks \in [Dev -> Mark \cup {None}]
        BY <1>1 DEF WishInv, WishShown, IInv, ServerInv
      <3>2. CASE p.dev = wish.dev
        BY <1>1, <2>0, <3>1, <3>2 DEF WishInv, WishSent
      <3>3. CASE p.dev # wish.dev
        BY <1>1, <2>0, <3>1, <3>3 DEF WishInv, WishAwaited
      <3> QED BY <3>2, <3>3
    <2> QED BY <1>1, <1>2, <2>3, <2>4 DEF WishInv
  <1>4. CASE Answered(p)
    <2>1. puts' \subseteq puts /\ p.at # "sent" /\ UNCHANGED marks
      BY <1>4 DEF Answered, server
    <2>2. marks[wish.dev] = wish.mark
      BY <1>1, <2>1 DEF WishInv, WishAwaited
    <2> QED BY <1>1, <1>2, <2>1, <2>2 DEF WishInv, WishSent
  <1> QED BY <1>1, <1>3, <1>4

\* A click that finds everything quiet begins a wish or keeps the one that stands.
LEMMA WishMouseSteps ==
    ASSUME IInv, WishInv, mouseup \/ \E d \in Disturbed : mousedown(d)
    PROVE  WishInv'
  <1> SUFFICES ASSUME wish' # None
               PROVE  WishInv'
    BY DEF WishInv
  <1>1. UNCHANGED <<net, marks, answers>>
    BY DEF mousedown, mouseup, server
  <1>2. CASE mouseup
    <2>1. /\ UNCHANGED <<wish, device, frozen, edits>> /\ wish # None
          /\ held # None /\ held' = None
          /\ puts' = puts \cup {Send(held, device[held].mark)}
      BY <1>2 DEF mouseup
    <2>2. PICK q : q = Send(held, device[held].mark)
      OBVIOUS
    <2>3. q.dev = held /\ q.mark = device[held].mark /\ q.at = "sent"
      BY <2>2 DEF Send
    <2> QED BY <1>1, <2>1, <2>2, <2>3
            DEF WishInv, WishShown, WishSent, WishAnswered, WishAwaited, Present
  <1>3. ASSUME NEW d \in Disturbed, mousedown(d), Toggle(d) PROVE WishInv'
    <2> DEFINE new == IF device[d].mark = "on" THEN "off" ELSE "on"
    <2>1. new \in Mark
      BY DEF Mark
    <2>2. /\ Quiet /\ d \in DOMAIN net /\ wish' = [dev |-> d, mark |-> new]
          /\ device' = [device EXCEPT ![d].mark = new]
          /\ frozen' /\ puts' = puts \cup {Send(d, new)} /\ held' = d
      BY <1>3 DEF Toggle, mousedown
    <2> HIDE DEF new
    <2>3. d \in Dev /\ device[d] \in DeviceType
      BY <1>3, DisturbedAssumption DEF mousedown, IInv, DeviceInv, Present
    <2>4. device'[d] = [device[d] EXCEPT !.mark = new]
      BY <2>2, <2>3 DEF IInv, DeviceInv
    <2>5. device'[d].mark = new /\ device'[d] # Gone
      BY <2>3, <2>4 DEF DeviceType, Gone
    <2>6. PICK q : q = Send(d, new)
      OBVIOUS
    <2>7. puts' = {q} /\ q.dev = d /\ q.mark = new /\ q.at = "sent"
      BY <2>2, <2>6 DEF Quiet, Send
    <2>8. wish'.dev = d /\ wish'.mark = new /\ wish' \in [dev : Dev, mark : Mark]
      BY <2>1, <2>2, <2>3
    <2>9. WishShown'
      BY <1>1, <2>2, <2>5, <2>8 DEF WishShown, Present
    <2>10. WishSent' /\ WishAwaited'
      BY <2>2, <2>7, <2>8 DEF WishSent, WishAwaited
    <2>11. WishAnswered'
      BY <1>1, <2>2 DEF WishAnswered, Quiet
    <2> QED BY <2>9, <2>10, <2>11 DEF WishInv
  <1>4. ASSUME NEW d \in Disturbed, mousedown(d), Press(d) PROVE WishInv'
    <2>1. Quiet /\ wish' = wish /\ wish # None /\ UNCHANGED <<device, puts>>
      BY <1>4 DEF Press
    <2>2. marks[wish.dev] = wish.mark
      BY <2>1 DEF WishInv, WishAwaited, Quiet
    <2> QED BY <1>1, <2>1, <2>2 DEF WishInv, WishShown, WishSent, WishAnswered, Present
  <1> QED BY <1>2, <1>3, <1>4 DEF mousedown

\* Whatever is merged into the graph, the device of a standing wish keeps its mark.
LEMMA WishReceiveSteps ==
    ASSUME IInv, WishInv, NEW a \in answers, Receive(a)
    PROVE  WishInv'
  <1>1. UNCHANGED <<net, marks, puts>> /\ answers' \subseteq answers
    BY DEF Receive, server
  <1>2. \A d \in Dev : Present(d) => device[d] \in DeviceType
    BY DEF IInv, DeviceInv, Present
  <1>3. \A r \in DeviceType : r # Gone
    BY DEF DeviceType, Gone
  <1>4. CASE a.kind = "topology" /\ UpdateTopologyData(a.data)
    <2> SUFFICES ASSUME wish' # None
                 PROVE  WishInv'
      BY DEF WishInv
    <2>1. /\ wish' = wish /\ wish # None /\ wish.dev \in DOMAIN a.data
          /\ (held' = held \/ held' = None) /\ frozen' = frozen
      BY <1>4 DEF UpdateTopologyData
    <2>2. wish.dev \in Dev /\ device[wish.dev] \in DeviceType /\ Present(wish.dev)
      BY <1>2, <2>1 DEF WishInv, WishShown
    <2>3. device'[wish.dev] = [device[wish.dev] EXCEPT !.links = Links(wish.dev, a.data)]
      BY <1>4, <2>1, <2>2 DEF UpdateTopologyData
    <2>4. device'[wish.dev].mark = device[wish.dev].mark /\ device'[wish.dev] # Gone
      BY <2>2, <2>3 DEF DeviceType, Gone
    <2> QED BY <1>1, <2>1, <2>4
            DEF WishInv, WishShown, WishSent, WishAnswered, WishAwaited, Present
  <1>5. ASSUME UNCHANGED mouse,
               wish # None => device'[wish.dev] # Gone /\ device'[wish.dev].mark = wish.mark
        PROVE  WishInv'
    BY <1>1, <1>5, WishUntouched DEF mouse
  <1>6. CASE a.kind = "state" /\ UpdateStatuses(a.data) /\ UNCHANGED mouse
    <2>1. SUFFICES ASSUME wish # None
                   PROVE  device'[wish.dev] # Gone /\ device'[wish.dev].mark = wish.mark
      BY <1>5, <1>6
    <2>2. wish.dev \in Dev /\ Present(wish.dev) /\ device[wish.dev].mark = wish.mark
      BY <2>1 DEF WishInv, WishShown
    <2> DEFINE data == a.data
               known == {d \in DOMAIN data : Present(d)}
               dv == device[wish.dev]
    <2>3. dv \in DeviceType /\ data = a.data
      BY <1>2, <2>2
    <2>4. ASSUME NEW r \in DeviceType, NEW new \in {"up", "down"}
          PROVE  SetStatus(r, new) \in DeviceType /\ SetStatus(r, new).mark = r.mark
      BY DEF SetStatus, DeviceType
    <2>5. ASSUME NEW r \in DeviceType
          PROVE  CheckStale(r) \in DeviceType /\ CheckStale(r).mark = r.mark
      BY DEF CheckStale, DeviceType
    <2>6. ASSUME NEW r \in DeviceType
          PROVE  LET s == [r EXCEPT !.fresh = TRUE] IN s \in DeviceType /\ s.mark = r.mark
      BY DEF DeviceType
    <2>7. \A d \in known : data[d] \in {"up", "down"}
      BY <1>6 DEF IInv, AnswersInv, SoundAnswer
    <2>8. CASE device' = [d \in Dev |->
                  IF ~Present(d) THEN Gone
                  ELSE CheckStale(IF d \in known THEN SetStatus(device[d], data[d]) ELSE device[d])]
      <3>1. device'[wish.dev] =
              CheckStale(IF wish.dev \in known THEN SetStatus(dv, data[wish.dev]) ELSE dv)
        BY <2>2, <2>8
      <3> HIDE DEF dv, known
      <3>2. device'[wish.dev] \in DeviceType /\ device'[wish.dev].mark = dv.mark
        BY <2>3, <2>4, <2>5, <2>7, <3>1
      <3> QED BY <1>3, <2>2, <3>2 DEF Present, dv
    <2>9. ASSUME NEW bad \in known, NEW before \in SUBSET known,
                 device' = [x \in Dev |-> IF x \in before THEN SetStatus(device[x], data[x])
                                          ELSE IF x = bad THEN [device[x] EXCEPT !.fresh = TRUE]
                                          ELSE device[x]]
          PROVE  device'[wish.dev] # Gone /\ device'[wish.dev].mark = wish.mark
      <3>1. device'[wish.dev] = IF wish.dev \in before THEN SetStatus(dv, data[wish.dev])
                                ELSE IF wish.dev = bad THEN [dv EXCEPT !.fresh = TRUE]
                                ELSE dv
        BY <2>2, <2>9
      <3> HIDE DEF dv, known
      <3>2. device'[wish.dev] \in DeviceType /\ device'[wish.dev].mark = dv.mark
        BY <2>3, <2>4, <2>6, <2>7, <3>1
      <3> QED BY <1>3, <2>2, <3>2 DEF Present, dv
    <2> QED BY <1>6, <2>8, <2>9 DEF UpdateStatuses
  <1>7. CASE a.kind = "position" /\ UpdatePositions(a.data) /\ UNCHANGED mouse
    <2>1. SUFFICES ASSUME wish # None
                   PROVE  device'[wish.dev] # Gone /\ device'[wish.dev].mark = wish.mark
      BY <1>5, <1>7
    <2>2. /\ wish.dev \in Dev /\ Present(wish.dev) /\ device[wish.dev].mark = wish.mark
          /\ wish.dev \in DOMAIN a.data => a.data[wish.dev] = wish.mark
      BY <1>7, <2>1 DEF WishInv, WishShown, WishAnswered
    <2>3. device[wish.dev] \in DeviceType
      BY <1>2, <2>2
    <2>4. device'[wish.dev] = IF wish.dev \in DOMAIN a.data
                              THEN [device[wish.dev] EXCEPT !.mark = a.data[wish.dev]]
                              ELSE device[wish.dev]
      BY <1>7, <2>2 DEF UpdatePositions
    <2>5. device'[wish.dev].mark = wish.mark /\ device'[wish.dev].present = TRUE
      BY <2>2, <2>3, <2>4 DEF DeviceType
    <2> QED BY <2>5 DEF Gone
  <1> QED BY <1>4, <1>6, <1>7 DEF Receive

\* Ageing, drawing and asking: a position that is asked for carries the mark, as the
\* poll stands still until the server has it.
LEMMA WishPageSteps ==
    ASSUME IInv, WishInv,
           (\E d \in Dev : Age(d)) \/ (\E due \in Timers : frame(due))
    PROVE  WishInv'
  <1>1. UNCHANGED <<wish, net, marks, puts, frozen, held>>
    BY DEF Age, frame, server, mouse
  <1>2. ASSUME NEW d \in Dev, Age(d) PROVE WishInv'
    <2>1. wish # None => device'[wish.dev] # Gone /\ device'[wish.dev].mark = wish.mark
      <3> SUFFICES ASSUME wish # None
                   PROVE  device'[wish.dev] # Gone /\ device'[wish.dev].mark = wish.mark
        OBVIOUS
      <3>1. wish.dev \in Dev /\ device[wish.dev] \in DeviceType /\ device[wish.dev].mark = wish.mark
        BY DEF WishInv, WishShown, IInv, DeviceInv, Present
      <3>2. device'[wish.dev] = IF wish.dev = d THEN [device[wish.dev] EXCEPT !.fresh = FALSE]
                                ELSE device[wish.dev]
        BY <1>2, <3>1 DEF Age, IInv, DeviceInv
      <3>3. device'[wish.dev].mark = wish.mark /\ device'[wish.dev].present = TRUE
        BY <3>1, <3>2 DEF DeviceType
      <3> QED BY <3>3 DEF Gone
    <2> QED BY <1>1, <1>2, <2>1, WishUntouched DEF Age
  <1>3. ASSUME NEW b, b.kind # "position", answers' = answers \cup {b} \/ answers' = answers,
               UNCHANGED device
        PROVE  WishInv'
    BY <1>1, <1>3, WishDeviceUntouched
  <1>4. CASE AskTopology
    <2>1. PICK b : b = [kind |-> "topology", data |-> IF poisoned THEN NoDevices ELSE cached]
      OBVIOUS
    <2>2. b.kind # "position" /\ (answers' = answers \cup {b} \/ answers' = answers)
      BY <1>4, <2>1 DEF AskTopology
    <2> QED BY <1>3, <1>4, <2>2 DEF AskTopology
  <1>5. CASE AskState
    <2>1. PICK b : b = [kind |-> "state", data |-> StateInformation]
      OBVIOUS
    <2>2. b.kind # "position" /\ answers' = answers \cup {b}
      BY <1>5, <2>1 DEF AskState
    <2> QED BY <1>3, <1>5, <2>2 DEF AskState
  <1>6. CASE AskPosition
    <2>1. PICK b : b = [kind |-> "position", data |-> PositionData]
      OBVIOUS
    <2>2. answers' = answers \cup {b} /\ ~frozen /\ UNCHANGED device /\ b.data = PositionData
      BY <1>6, <2>1 DEF AskPosition, PollsPositions
    <2>3. \A d \in DOMAIN PositionData : PositionData[d] = marks[d]
      BY DEF PositionData
    <2>4. wish # None => marks[wish.dev] = wish.mark
      BY <2>2 DEF WishInv, WishAwaited
    <2> QED BY <1>1, <2>2, <2>3, <2>4
            DEF WishInv, WishShown, WishSent, WishAnswered, WishAwaited, Present
  <1>7. CASE UpdateGraphics
    <2>1. wish # None => device'[wish.dev] # Gone /\ device'[wish.dev].mark = wish.mark
      <3> SUFFICES ASSUME wish # None
                   PROVE  device'[wish.dev] # Gone /\ device'[wish.dev].mark = wish.mark
        OBVIOUS
      <3>1. wish.dev \in Dev /\ device[wish.dev] \in DeviceType /\ device[wish.dev].mark = wish.mark
        BY DEF WishInv, WishShown, IInv, DeviceInv, Present
      <3>2. ASSUME NEW r \in DeviceType
            PROVE  LET s == [r EXCEPT !.dirty = FALSE, !.drawn = r.status]
                   IN  s.mark = r.mark /\ s.present = TRUE
        BY DEF DeviceType
      <3>3. device[wish.dev].present = TRUE
        BY <3>1 DEF DeviceType
      <3>4. device'[wish.dev].mark = wish.mark /\ device'[wish.dev].present = TRUE
        BY <1>7, <3>1, <3>2, <3>3 DEF UpdateGraphics
      <3> QED BY <3>4 DEF Gone
    <2> QED BY <1>1, <1>7, <2>1, WishUntouched DEF UpdateGraphics
  <1> QED BY <1>2, <1>4, <1>5, <1>6, <1>7 DEF frame

LEMMA WishInductive == IInv /\ WishInv /\ [Next]_vars => WishInv'
  <1> SUFFICES ASSUME IInv, WishInv, [Next]_vars PROVE WishInv'
    OBVIOUS
  <1>1. ASSUME NEW a \in answers, Receive(a) PROVE WishInv'
    BY <1>1, WishReceiveSteps
  <1>2. ASSUME NEW p \in puts, Put(p) \/ Answered(p) \/ Failed(p) PROVE WishInv'
    BY <1>2, WishPutSteps
  <1>3. CASE UNCHANGED vars
    BY <1>3, WishDeviceUntouched DEF vars, server, mouse
  <1> QED BY <1>1, <1>2, <1>3, WishServerSteps, WishWorldSteps, WishMouseSteps, WishPageSteps DEF Next

\* device.js (updatePositionInfo, armDragEvents), app.js (frame): an edit that no other
\* editor disturbs and whose records the server stores (none is dropped by a failing
\* statement, answered with an error, or lost in an outage) is, once the page is quiet, what the server stores and
\* what the page shows, however topologies, states and positions are ordered around it.
THEOREM EditStandsAlways == Spec => []EditStands
  <1>1. IInv /\ WishInv => EditStands
    BY DEF WishInv, WishShown, WishAwaited, EditStands, Quiet
  <1> QED BY Initial, Inductive, WishInitial, WishInductive, <1>1, PTL DEF Spec

-----------------------------------------------------------------------------
(* The live connection (LiveSocket).                                       *)

\* A socket that is open or handshaking.
Up(sk, s) == sk[s].state \in {"open", "connecting"}

\* OneSocket for sockets and a ref that a handler is about to leave.
Only(sk, ref) == \A s \in Sock : Up(sk, s) => s = ref

\* The inductive invariant: the sockets are records that connect made, no topic is
\* Nothing, and a timer can only reconnect where a topic stands behind it.
SocketsOK ==
    /\ sock \in [Sock -> Socket \cup {ClosedSocket}]
    /\ topic \in Topic /\ retry \in Topic \cup {Nothing} /\ strays \subseteq Topic

HookInv == SocketsOK /\ OneSocket

LEMMA HookInitial == HookInit => HookInv
<1> SUFFICES ASSUME HookInit PROVE HookInv
  OBVIOUS
<1>1. topic \in Topic /\ ~disposed /\ retry = Nothing /\ strays = {}
      /\ sock = [s \in Sock |-> IF s = socketRef THEN NewSocket(topic) ELSE ClosedSocket]
  BY DEF HookInit
<1>2. NewSocket(topic) \in Socket
  BY <1>1 DEF NewSocket, Socket
<1>3. SocketsOK
  BY <1>1, <1>2 DEF SocketsOK
<1>4. ASSUME NEW s \in Sock, s # socketRef PROVE sock[s].state = "closed"
  BY <1>1, <1>4 DEF ClosedSocket
<1>5. QED
  BY <1>1, <1>3, <1>4 DEF HookInv, OneSocket

\* Closing the socket the ref names, or any other, leaves nothing up that was not.
LEMMA ClosingKeeps ==
    ASSUME NEW sk \in [Sock -> Socket \cup {ClosedSocket}], NEW s
    PROVE  /\ Closing(s, sk) \in [Sock -> Socket \cup {ClosedSocket}]
           /\ \A x \in Sock : Up(Closing(s, sk), x) => Up(sk, x) /\ x # s
<1>1. CASE s \in Sock
  BY <1>1, SocketAssumption DEF Closing, Up, Socket, ClosedSocket
<1>2. CASE s \notin Sock
  <2>1. Closing(s, sk) = sk
    BY <1>2 DEF Closing
  <2>2. QED
    BY <1>2, <2>1
<1>3. QED
  BY <1>1, <1>2

\* connect: it only opens a socket when the one the ref names is neither open nor
\* handshaking, so that no other is.
LEMMA ConnectKeeps ==
    ASSUME NEW sk \in [Sock -> Socket \cup {ClosedSocket}], NEW ref, Only(sk, ref),
           NEW t \in Topic, NEW was, NEW r \in Topic \cup {Nothing},
           disposed => ref = Nothing,
           connect(t, was, ref, sk, r)
    PROVE  /\ sock' \in [Sock -> Socket \cup {ClosedSocket}] /\ Only(sock', socketRef')
           /\ disposed => socketRef' = Nothing
           /\ retry' \in Topic \cup {Nothing}
<1>1. CASE Refuses \/ Busy(ref, sk)
  BY <1>1 DEF connect
<1>2. CASE ~(Refuses \/ Busy(ref, sk))
  <2> DEFINE s == CHOOSE x \in Sock : sk[x] = ClosedSocket
  <2>1. /\ sock' = [sk EXCEPT ![s] = NewSocket(t)] /\ socketRef' = s /\ retry' = Nothing
        /\ ~disposed
    BY <1>2 DEF connect, Refuses
  <2> HIDE DEF s
  <2>2. \A x \in Sock : ~Up(sk, x)
    BY <1>2, SocketAssumption DEF Only, Up, Busy
  <2>3. NewSocket(t) \in Socket
    BY DEF NewSocket, Socket
  <2>4. sock' \in [Sock -> Socket \cup {ClosedSocket}]
    BY <2>1, <2>3
  <2>5. Only(sock', socketRef')
    BY <2>1, <2>2 DEF Only, Up
  <2>6. QED
    BY <2>1, <2>4, <2>5
<1>3. QED
  BY <1>1, <1>2

\* What the invariant says, in the terms of the lemmas.
LEMMA Unfold ==
    ASSUME HookInv
    PROVE  /\ sock \in [Sock -> Socket \cup {ClosedSocket}] /\ Only(sock, socketRef)
           /\ topic \in Topic /\ retry \in Topic \cup {Nothing} /\ strays \subseteq Topic
           /\ disposed => socketRef = Nothing
BY DEF HookInv, SocketsOK, OneSocket, Only, Up

LEMMA Fold ==
    ASSUME sock' \in [Sock -> Socket \cup {ClosedSocket}], Only(sock', socketRef'),
           topic' \in Topic, retry' \in Topic \cup {Nothing}, strays' \subseteq Topic,
           disposed' => socketRef' = Nothing
    PROVE  HookInv'
BY DEF HookInv, SocketsOK, OneSocket, Only, Up

\* An event that neither opens a socket nor touches the ref keeps the invariant.
LEMMA QuietKeeps ==
    ASSUME HookInv, sock' \in [Sock -> Socket \cup {ClosedSocket}],
           \A s \in Sock : Up(sock', s) => Up(sock, s),
           UNCHANGED <<socketRef, topic, disposed>>,
           retry' \in Topic \cup {Nothing}, strays' \subseteq Topic
    PROVE  HookInv'
<1>1. Only(sock', socketRef')
  BY Unfold DEF Only
<1>2. QED
  BY <1>1, Unfold, Fold

\* checkConnection pings, leaves things as they are, or connects.
LEMMA CheckKeeps ==
    ASSUME HookInv, checkConnection, UNCHANGED <<topic, disposed>>
    PROVE  HookInv'
<1>1. CASE disposed
  BY <1>1, QuietKeeps, Unfold DEF checkConnection, timers
<1>2. CASE ~disposed /\ Busy(socketRef, sock)
  <2>1. UNCHANGED <<socketRef, retry, strays>>
    BY <1>2 DEF checkConnection
  <2>2. sock' \in {sock, [sock EXCEPT ![socketRef].pinged = TRUE]}
    BY <1>2 DEF checkConnection
  <2>3. sock' \in [Sock -> Socket \cup {ClosedSocket}] /\ \A s \in Sock : Up(sock', s) => Up(sock, s)
    BY <1>2, <2>2, Unfold DEF Socket, ClosedSocket, Up, Busy
  <2>4. QED
    BY <2>1, <2>3, QuietKeeps, Unfold
<1>3. CASE ~disposed /\ ~Busy(socketRef, sock)
  <2>1. connect(topic, wasLive, socketRef, sock, retry) /\ UNCHANGED strays
    BY <1>3 DEF checkConnection
  <2>2. /\ sock' \in [Sock -> Socket \cup {ClosedSocket}] /\ Only(sock', socketRef')
        /\ disposed => socketRef' = Nothing
        /\ retry' \in Topic \cup {Nothing}
    BY <2>1, ConnectKeeps, Unfold
  <2>3. QED
    BY <2>1, <2>2, Unfold, Fold
<1>4. QED
  BY <1>1, <1>2, <1>3

\* A reconnect timer fires, the current one or one that lost its ref.
LEMMA RetryKeeps == HookInv /\ Retry => HookInv'
<1> SUFFICES ASSUME HookInv, Retry PROVE HookInv'
  OBVIOUS
<1>1. UNCHANGED <<topic, disposed>>
  BY DEF Retry, page
<1>2. PICK t \in Topic, was \in BOOLEAN \cup {wasLive}, r \in Topic \cup {Nothing} :
         connect(t, was, socketRef, sock, r) /\ strays' \subseteq Topic
  <2>1. CASE retry # Nothing /\ UNCHANGED strays
             /\ \E was \in IF retry = topic THEN {wasLive} ELSE BOOLEAN :
                   connect(retry, was, socketRef, sock, Nothing)
    BY <2>1, Unfold
  <2>2. CASE \E t \in strays : /\ strays' = strays \ {t}
                               /\ \E was \in IF t = topic THEN {wasLive} ELSE BOOLEAN :
                                     connect(t, was, socketRef, sock, retry)
    BY <2>2, Unfold
  <2>3. QED
    BY <2>1, <2>2 DEF Retry
<1>3. /\ sock' \in [Sock -> Socket \cup {ClosedSocket}] /\ Only(sock', socketRef')
      /\ disposed => socketRef' = Nothing
      /\ retry' \in Topic \cup {Nothing}
  BY <1>2, ConnectKeeps, Unfold
<1>4. QED
  BY <1>1, <1>2, <1>3, Unfold, Fold

\* Events of one socket.
LEMMA EventKeeps ==
    ASSUME HookInv, NEW s \in Sock,
           onopen(s) \/ onmessage(s) \/ onclose(s) \/ Fails(s) \/ HandshakeTimeout(s)
    PROVE  HookInv'
<1> USE Unfold
<1>1. CASE onopen(s)
  <2>1. sock' = [sock EXCEPT ![s].state = "open"] /\ Up(sock, s)
        /\ UNCHANGED <<socketRef, retry, strays, topic, disposed>>
    BY <1>1 DEF onopen, Up, page
  <2>2. sock' \in [Sock -> Socket \cup {ClosedSocket}] /\ \A x \in Sock : Up(sock', x) => Up(sock, x)
    BY <2>1 DEF Socket, ClosedSocket, Up
  <2>3. QED
    BY <2>1, <2>2, QuietKeeps
<1>2. CASE onmessage(s)
  <2>1. sock' = [sock EXCEPT ![s].pinged = FALSE] /\ Up(sock, s)
        /\ UNCHANGED <<socketRef, retry, strays, topic, disposed>>
    BY <1>2 DEF onmessage, Up, page
  <2>2. sock' \in [Sock -> Socket \cup {ClosedSocket}] /\ \A x \in Sock : Up(sock', x) => Up(sock, x)
    BY <2>1 DEF Socket, ClosedSocket, Up
  <2>3. QED
    BY <2>1, <2>2, QuietKeeps
<1>3. CASE onclose(s)
  <2>1. sock' = [sock EXCEPT ![s] = ClosedSocket] /\ UNCHANGED <<socketRef, topic, disposed>>
        /\ sock[s].state = "closing"
    BY <1>3 DEF onclose, page
  <2>2. sock' \in [Sock -> Socket \cup {ClosedSocket}] /\ \A x \in Sock : Up(sock', x) => Up(sock, x)
    BY <2>1 DEF ClosedSocket, Up
  <2>3. sock[s].topic \in Topic
    BY <2>1 DEF Socket, ClosedSocket
  <2>4. retry' \in Topic \cup {Nothing} /\ strays' \subseteq Topic
    BY <1>3, <2>3 DEF onclose
  <2>5. QED
    BY <2>1, <2>2, <2>4, QuietKeeps
<1>4. CASE Fails(s) \/ HandshakeTimeout(s)
  <2>1. sock' \in {sock, Closing(s, sock)}
        /\ UNCHANGED <<socketRef, retry, strays, topic, disposed>>
    BY <1>4 DEF Fails, HandshakeTimeout, page, timers
  <2>2. sock' \in [Sock -> Socket \cup {ClosedSocket}] /\ \A x \in Sock : Up(sock', x) => Up(sock, x)
    BY <2>1, ClosingKeeps
  <2>3. QED
    BY <2>1, <2>2, QuietKeeps
<1>5. QED
  BY <1>1, <1>2, <1>3, <1>4

\* The machine, the network, the server, the probe's timer and clicks.
LEMMA HookWorldKeeps ==
    ASSUME HookInv,
           \/ ProbeTimeout \/ Sleep \/ Wake \/ Nudge \/ onOffline \/ Online
           \/ ServerGoes \/ ServerReturns
    PROVE  HookInv'
<1> USE Unfold
<1>1. CASE ProbeTimeout \/ onOffline
  <2>1. sock' \in {sock, Closing(socketRef, sock)}
        /\ UNCHANGED <<socketRef, retry, strays, topic, disposed>>
    BY <1>1 DEF ProbeTimeout, onOffline, page, timers
  <2>2. sock' \in [Sock -> Socket \cup {ClosedSocket}] /\ \A x \in Sock : Up(sock', x) => Up(sock, x)
    BY <2>1, ClosingKeeps
  <2>3. QED
    BY <2>1, <2>2, QuietKeeps
<1>2. CASE Sleep
  <2>1. UNCHANGED <<socketRef, retry, strays, topic, disposed>>
    BY <1>2 DEF Sleep, page, timers
  <2>2. sock' \in [Sock -> Socket \cup {ClosedSocket}] /\ \A x \in Sock : Up(sock', x) => Up(sock, x)
    <3>1. \A x \in Sock : sock'[x] = sock[x] \/
                          (sock[x] # ClosedSocket /\ sock'[x] = [sock[x] EXCEPT !.link = "dead"])
      BY <1>2 DEF Sleep
    <3>2. sock' = [x \in Sock |-> sock'[x]]
      BY <1>2 DEF Sleep
    <3>3. \A x \in Sock : sock'[x] \in Socket \cup {ClosedSocket} /\ sock'[x].state = sock[x].state
      BY <3>1 DEF Socket
    <3>4. QED
      BY <3>2, <3>3 DEF Up
  <2>3. QED
    BY <2>1, <2>2, QuietKeeps
<1>3. CASE Wake \/ Nudge \/ Online
  BY <1>3, CheckKeeps DEF Wake, Nudge, Online, page
<1>4. CASE ServerGoes
  <2>1. UNCHANGED <<socketRef, retry, strays, topic, disposed>>
    BY <1>4 DEF ServerGoes, page, timers
  <2>2. /\ sock' = [x \in Sock |-> sock'[x]]
        /\ \A x \in Sock : sock'[x] = sock[x] \/
              (sock[x].state = "open" /\ sock'[x] = [sock[x] EXCEPT !.state = "closing"])
    BY <1>4 DEF ServerGoes
  <2>3. \A x \in Sock : sock'[x] \in Socket \cup {ClosedSocket} /\ (Up(sock', x) => Up(sock, x))
    BY <2>2 DEF Socket, ClosedSocket, Up
  <2>4. QED
    BY <2>1, <2>2, <2>3, QuietKeeps
<1>5. CASE ServerReturns
  BY <1>5, QuietKeeps DEF ServerReturns, page, timers
<1>6. QED
  BY <1>1, <1>2, <1>3, <1>4, <1>5

\* The page goes away, or asks for another topic: what the ref named is closed first.
LEMMA PageKeeps ==
    ASSUME HookInv, Unmount \/ ChangeTopic PROVE HookInv'
<1> USE Unfold
<1> DEFINE sk == Closing(socketRef, sock)
<1>1. sk \in [Sock -> Socket \cup {ClosedSocket}] /\ \A x \in Sock : ~Up(sk, x)
  BY ClosingKeeps DEF Only
<1> HIDE DEF sk
<1>2. CASE Unmount
  <2>1. sock' = sk /\ socketRef' = Nothing /\ retry' = Nothing /\ UNCHANGED <<topic, strays>>
    BY <1>2 DEF Unmount, Cleanup, sk
  <2>2. QED
    BY <1>1, <2>1, Fold DEF Only
<1>3. CASE ChangeTopic
  <2>. PICK t \in Topic :
          \E s : topic' = t /\ sock' = [sk EXCEPT ![s] = NewSocket(t)] /\ socketRef' = s
    BY <1>3 DEF ChangeTopic, Cleanup, sk
  <2>1. PICK s : topic' = t /\ sock' = [sk EXCEPT ![s] = NewSocket(t)] /\ socketRef' = s
    OBVIOUS
  <2>2. retry' = Nothing /\ UNCHANGED strays /\ ~disposed'
    BY <1>3 DEF ChangeTopic
  <2>3. NewSocket(t) \in Socket
    BY DEF NewSocket, Socket
  <2>4. sock' \in [Sock -> Socket \cup {ClosedSocket}] /\ Only(sock', socketRef')
    BY <1>1, <2>1, <2>3 DEF Only, Up
  <2>5. QED
    BY <2>1, <2>2, <2>4, Fold
<1>4. QED
  BY <1>2, <1>3

\* useLiveSocket.ts: however timers of earlier sockets and topics, late closes, wake-up
\* checks and outages interleave, there is one connection at most, and none after the
\* page is gone.
THEOREM OneSocketAlways == HookSpec => []OneSocket
<1>1. HookInv /\ [HookNext]_hookVars => HookInv'
  <2> SUFFICES ASSUME HookInv, [HookNext]_hookVars PROVE HookInv'
    OBVIOUS
  <2>1. CASE UNCHANGED hookVars
    BY <2>1, Unfold, QuietKeeps DEF hookVars, page, timers
  <2>2. CASE \E s \in Sock : onopen(s) \/ onmessage(s) \/ onclose(s) \/ Fails(s)
                             \/ HandshakeTimeout(s)
    BY <2>2, EventKeeps
  <2>3. CASE Retry
    BY <2>3, RetryKeeps
  <2>4. CASE \/ ProbeTimeout \/ Sleep \/ Wake \/ Nudge \/ onOffline \/ Online
             \/ ServerGoes \/ ServerReturns
    BY <2>4, HookWorldKeeps
  <2>5. CASE Unmount \/ ChangeTopic
    BY <2>5, PageKeeps
  <2>6. QED
    BY <2>1, <2>2, <2>3, <2>4, <2>5 DEF HookNext
<1>2. HookInv => OneSocket
  BY DEF HookInv
<1>3. QED
  BY HookInitial, <1>1, <1>2, PTL DEF HookSpec
=============================================================================
