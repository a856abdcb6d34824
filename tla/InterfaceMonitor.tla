-------------------------- MODULE InterfaceMonitor --------------------------
(***************************************************************************)
(* Interface state and counters of one device: the poll worker, the trap   *)
(* receiver and the IMDS worker meet in IMDS::report_interfaces and the    *)
(* refresh calls (one mutex: each is one step).  A poll reads the device   *)
(* first and reports later, so traps, refreshes and changes of the device  *)
(* fall in between; an SNMP query, a trap or a DB connection may be lost.  *)
(* An event is annotated with what the DB says of the link at that moment; *)
(* a statement of it that fails leaves members out, and one of them, the   *)
(* read of the peer's device, is unwrapped: it panics under the mutex.     *)
(*                                                                         *)
(* An Option is a set with at most one element.  The eleven counters,      *)
(* which the code treats alike, are one counter; every reported attribute  *)
(* has two values.                                                         *)
(***************************************************************************)
EXTENDS Naturals

CONSTANTS
    Iface,             \* ifIndexes of the device
    Bundle,            \* ports that may be linked to one neighbor (LAG members)
    Attr,              \* what is reported of a port: "up", "speed", "admin"
    Mac,               \* chassis base MACs of the hardware behind the fqdn
    Limit,             \* rejected reports in a row that end a rejection (10)
    WrapGap,           \* a decrease this large is a wrap (2147483647)
    MaxCounter,        \* bound: the largest value of each interface's counter
    MaxFlips, MaxResets, MaxSwaps, MaxRowOps,      \* bounds on changes of the
    MaxFailures, MaxTies,                          \* device (or reports of an
    MaxDisturbances    \* agent), the DB, failures; bound on the sum of these six

ASSUME LimitAssumption == Limit \in Nat \ {0} /\ WrapGap \in Nat /\ MaxCounter \in [Iface -> Nat]
ASSUME BundleAssumption == Bundle \subseteq Iface
ASSUME MacAssumption == Mac # {}
ASSUME AttrAssumption == Attr \subseteq {"up", "speed", "admin"} /\ "up" \in Attr

Announced == Attr \ {"admin"}   \* a change of these is published
Val == {"high", "low"}
Option(S) == {{}} \cup {{x} : x \in S}
Value == UNION {0..MaxCounter[i] : i \in Iface}
Report == [counter : Option(Value), oper : [Attr -> Option(Val)], err : Option(BOOLEAN)]
\* Mutant: a value once known stays.
OrOld(new, old) == IF old # {} THEN old ELSE new

\* Option::or, the way report_interfaces merges what a report carries.
Or(new, old) == IF new # {} THEN new ELSE old

VARIABLES
    oper, counter, errors, mac,  \* the device: attributes, counters, err-disabled
                                 \* ports, base MAC
    rows, links,   \* DB: interface rows of the device, those linked to the neighbor,
    dbMac,         \* its base_mac
    loaded,        \* IMDS worker: {}, or the rows and MAC it read
    imdsMac,       \* DeviceMetrics.base_mac
    ifm,           \* ifm[i]: InterfaceMetrics of i, or Absent
    sample,        \* poll worker: {}, or the batch it is about to report (and,
                   \* as history, the queries that were answered)
    traps,         \* link traps under way
    told,          \* told[i][a]: what a bus subscriber last heard of i's entry
    annotated,     \* link events of the last report: annotated[i] has the members' states
    poisoned,      \* a panic left the mutex of IMDS poisoned
    regressed,     \* history: unskipped reports of i in a row that regressed
    flips, resets, swaps, rowOps, failures, ties   \* spent bounds

device == <<oper, counter, errors, mac>>
tables == <<rows, links, dbMac>>
bounds == <<flips, resets, swaps, rowOps, failures, ties>>
shown == <<ifm, told, annotated, regressed, poisoned>>
vars == <<device, tables, loaded, imdsMac, sample, traps, shown, bounds>>

Absent == [present |-> FALSE]

Spent == flips + resets + swaps + rowOps + failures + ties
Spare == Spent < MaxDisturbances

Fail == Spare /\ failures < MaxFailures /\ failures' = failures + 1

Unheard == [a \in Announced |-> {}]
NoEvents == [i \in {} |-> {}]

\* A new InterfaceMetrics; reset_counters leaves an entry like this too.
NewInterface ==
    [present |-> TRUE, reported |-> FALSE, counter |-> {},
     oper |-> [a \in Attr |-> {}], err |-> FALSE, violations |-> 0]

\* The MACs are alike: the hardware has any of them at first.
Init ==
    /\ oper \in [Iface -> [Attr -> {"high"}]]
    /\ counter = [i \in Iface |-> 0] /\ errors = {} /\ mac = CHOOSE m \in Mac : TRUE
    /\ rows = Iface /\ links = Bundle /\ dbMac \in {{}, {mac}}
    /\ loaded = {} /\ imdsMac = {}
    /\ ifm = [i \in Iface |-> Absent]
    /\ sample = {} /\ traps = {}
    /\ told = [i \in Iface |-> Unheard]
    /\ annotated = NoEvents /\ poisoned = FALSE
    /\ regressed = [i \in Iface |-> 0]
    /\ flips = 0 /\ resets = 0 /\ swaps = 0 /\ rowOps = 0 /\ failures = 0 /\ ties = 0

-----------------------------------------------------------------------------
(* The device.                                                             *)

\* An attribute changes; a link change sends a trap (UDP), a port may be disabled.
Flip(i, a) ==
    /\ Spare /\ flips < MaxFlips /\ flips' = flips + 1
    /\ oper' = [oper EXCEPT ![i][a] = IF @ = "high" THEN "low" ELSE "high"]
    /\ traps' = IF a = "up" THEN traps \cup {[iface |-> i, up |-> oper'[i][a]]} ELSE traps
    /\ UNCHANGED <<counter, errors, mac, tables, loaded, imdsMac, sample, shown, resets,
                   swaps, rowOps, failures, ties>>

ErrDisable(i) ==
    /\ Spare /\ flips < MaxFlips /\ flips' = flips + 1
    /\ errors' = (errors \ {i}) \cup ({i} \ errors)
    /\ UNCHANGED <<oper, counter, mac, tables, loaded, imdsMac, sample, traps, shown,
                   resets, swaps, rowOps, failures, ties>>

Count(i) ==
    /\ counter[i] < MaxCounter[i] /\ counter' = [counter EXCEPT ![i] = @ + 1]
    /\ UNCHANGED <<oper, errors, mac, tables, loaded, imdsMac, sample, traps, shown,
                   bounds>>

\* A counter wraps, or a reboot clears it.
ResetCounter(i) ==
    /\ Spare /\ resets < MaxResets /\ resets' = resets + 1
    /\ counter' = [counter EXCEPT ![i] = 0]
    /\ UNCHANGED <<oper, errors, mac, tables, loaded, imdsMac, sample, traps, shown,
                   flips, swaps, rowOps, failures, ties>>

\* Other hardware behind the same fqdn.
Swap ==
    /\ Spare /\ swaps < MaxSwaps /\ swaps' = swaps + 1
    /\ mac' \in Mac \ {mac}
    /\ counter' = [i \in Iface |-> 0]
    /\ UNCHANGED <<oper, errors, tables, loaded, imdsMac, sample, traps, shown, flips,
                   resets, rowOps, failures, ties>>

-----------------------------------------------------------------------------
(* Discovery writes the DB; the IMDS worker mirrors it.                    *)

Discover ==
    /\ Spare /\ rowOps < MaxRowOps /\ rowOps' = rowOps + 1
    /\ rows' \in SUBSET Iface /\ links' \in SUBSET (Bundle \cap rows') /\ dbMac' \in {{}, {mac}}
    /\ UNCHANGED <<device, loaded, imdsMac, sample, traps, shown, flips, resets, swaps,
                   failures, ties>>

\* A failing read of the rows yields none.
RefreshLoad ==
    /\ ~poisoned /\ loaded = {}
    /\ \/ loaded' = {[rows |-> rows, mac |-> dbMac]} /\ UNCHANGED failures
       \/ loaded' = {[rows |-> {}, mac |-> dbMac]} /\ Fail
    /\ UNCHANGED <<device, tables, imdsMac, sample, traps, shown, flips, resets, swaps, rowOps, ties>>

\* Mutant: any MAC that is not the known one counts as a swap, a missing one too.
HardwareSwappedMissing(new) == imdsMac # {} /\ new # imdsMac

\* refresh_device: a known MAC that changed; learning the first one is no swap.
HardwareSwapped(new) == imdsMac # {} /\ new # {} /\ new # imdsMac

\* refresh_device, then refresh_interface for every row, then retain_interfaces.
RefreshApply ==
    /\ ~poisoned /\ loaded # {} /\ loaded' = {}
    /\ \E l \in loaded :
          LET fresh(i) == ~ifm[i].present \/ HardwareSwapped(l.mac) IN
          /\ imdsMac' = Or(l.mac, imdsMac)
          /\ ifm' = [i \in Iface |-> IF i \notin l.rows THEN Absent
                                     ELSE IF fresh(i) THEN NewInterface ELSE ifm[i]]
          /\ regressed' = [i \in Iface |-> IF i \in l.rows /\ ~fresh(i) THEN regressed[i] ELSE 0]
          /\ told' = [i \in Iface |-> IF i \in l.rows /\ ~fresh(i) THEN told[i] ELSE Unheard]
    /\ UNCHANGED <<device, tables, sample, traps, annotated, poisoned, bounds>>

-----------------------------------------------------------------------------
(* IMDS::report_interfaces: a batch maps ifIndexes to their reports.       *)

\* validate_u64_forward_progress.
ForwardProgress(old, new) ==
    \A o \in old, n \in new : o <= n \/ o - n >= WrapGap

\* validate_counters: after Limit rejections in a row anything is accepted.
Valid(m, r) == m.violations >= Limit \/ ForwardProgress(m.counter, r.counter)

\* Mutant: an accepted report does not end the streak of rejections.
ReportedNoReset(m, r, upto) ==
    IF ~Valid(m, r) THEN [m EXCEPT !.violations = @ + 1]
    ELSE [m EXCEPT !.reported = TRUE, !.counter = Or(r.counter, @),
                   !.oper = [a \in Attr |-> IF a \in upto THEN Or(r.oper[a], @[a]) ELSE @[a]],
                   !.err = IF upto # Attr \/ r.err = {} THEN @ ELSE TRUE \in r.err,
                   !.violations = IF @ >= Limit THEN 0 ELSE @]

\* The entry after its report: what the report does not carry is kept, and what
\* a panic cut off; `upto' are the attributes it came to, Attr without a panic.
Reported(m, r, upto) ==
    IF ~Valid(m, r) THEN [m EXCEPT !.violations = @ + 1]
    ELSE [m EXCEPT !.reported = TRUE, !.counter = Or(r.counter, @),
                   !.oper = [a \in Attr |-> IF a \in upto THEN Or(r.oper[a], @[a]) ELSE @[a]],
                   !.err = IF upto # Attr \/ r.err = {} THEN @ ELSE TRUE \in r.err,
                   !.violations = 0]

\* Mutant: a recovery is not published.
PublishesLowOnly(m, r, a) == m.oper[a] = {"high"} /\ r.oper[a] = {"low"}

\* An event is published when a known value changes.
Publishes(m, r, a) == m.oper[a] # {} /\ r.oper[a] # {} /\ m.oper[a] # r.oper[a]

\* Mutant: members are annotated with their state before the batch.
LagStatusSnapshot(batch, j) == ifm[j].oper["up"]

\* lag_link_statuses: the batch wins over the snapshot; a member IMDS does not
\* have is left out.
LagStatus(batch, j) ==
    IF ~ifm[j].present THEN {}
    ELSE IF j \in DOMAIN batch THEN Or(batch[j].oper["up"], ifm[j].oper["up"])
    ELSE ifm[j].oper["up"]

\* Interfaces whose last_report is not older than the clock: a second report in
\* the same millisecond, or any report after the clock was set back.
NotNewer(batch, skip) ==
    /\ skip \subseteq {i \in DOMAIN batch : ifm[i].present /\ ifm[i].reported}
    /\ \/ skip = {} /\ UNCHANGED ties
       \/ skip # {} /\ Spare /\ ties < MaxTies /\ ties' = ties + 1

\* The members an event of i names: the neighbor's ports whose peer is this
\* device.  Each statement that fails reads as "none".
Linked(i) == IF i \in links THEN links ELSE {}

\* Ports outside the bundle may lead anywhere.
HasPeer(i) == i \in rows /\ (i \in Bundle => i \in links)

\* The entries `done' take up their reports, each as far as upto[i].
Apply(batch, done, upto) ==
    LET event(i, a) == /\ i \in done /\ a \in upto[i]
                       /\ Valid(ifm[i], batch[i]) /\ Publishes(ifm[i], batch[i], a)
        flapped == {i \in Bundle : event(i, "up")}
    IN
    /\ ifm' = [i \in Iface |-> IF i \in done THEN Reported(ifm[i], batch[i], upto[i]) ELSE ifm[i]]
    /\ told' = [i \in Iface |-> [a \in Announced |->
                  IF event(i, a) THEN batch[i].oper[a] ELSE told[i][a]]]
    /\ \E read \in [flapped -> SUBSET links] :
          /\ \A i \in flapped : read[i] \subseteq Linked(i)
          /\ (\A i \in flapped : read[i] = Linked(i)) \/ failures' = failures + 1
          /\ annotated' = [i \in flapped |->
                [j \in {j \in read[i] : ifm[j].present} |-> LagStatus(batch, j)]]
    /\ regressed' = [i \in Iface |->
                  IF i \notin done THEN regressed[i]
                  ELSE IF ForwardProgress(ifm[i].counter, batch[i].counter)
                          \/ regressed[i] = Limit
                       THEN 0 ELSE regressed[i] + 1]

\* The reports in the batch, none of them or one skipped.
ReportAll(batch) ==
    \E skip \in SUBSET DOMAIN batch :
        LET done == {i \in DOMAIN batch \ skip : ifm[i].present} IN
        /\ NotNewer(batch, skip)
        /\ UNCHANGED failures \/ Fail
        /\ Apply(batch, done, [i \in done |-> Attr])
        /\ UNCHANGED poisoned

\* Interface::device unwraps: a change of i whose peer's device cannot be read, or
\* was deleted since the peer was, panics before that change is published; other
\* reports in the batch were taken up before, or never are.
ReportPanics(batch) ==
    \E done \in SUBSET {i \in DOMAIN batch : ifm[i].present}, i \in DOMAIN batch, a \in Announced :
        /\ Fail
        /\ i \in done /\ HasPeer(i)
        /\ Valid(ifm[i], batch[i]) /\ Publishes(ifm[i], batch[i], a)
        /\ Apply(batch, done, [j \in done |-> IF j # i THEN Attr
                                               ELSE IF a = "speed" THEN {"up"} ELSE {}])
        /\ poisoned' = TRUE /\ UNCHANGED ties

\* With the mutex poisoned nothing is reported any more.
ReportInterfaces(batch) ==
    \/ ~poisoned /\ (ReportAll(batch) \/ ReportPanics(batch))
    \/ /\ poisoned /\ annotated' = NoEvents
       /\ UNCHANGED <<ifm, told, regressed, poisoned, failures, ties>>

-----------------------------------------------------------------------------
(* Poll worker.                                                            *)

Table == {"ifTable", "ifXTable", "errDisable"}

\* interface_report_from_entry: no err-disable row reads as "not disabled".
InterfaceReport(i, answered) ==
    [counter |-> IF "ifXTable" \in answered THEN {counter[i]} ELSE {},
     oper |-> [a \in Attr |->
                 IF (IF a = "speed" THEN "ifXTable" ELSE "ifTable") \in answered
                 THEN {oper[i][a]} ELSE {}],
     err |-> {"errDisable" \in answered /\ i \in errors}]

\* poll_device: three queries, each of which may fail.
Poll(answered) ==
    /\ sample = {}
    /\ \/ answered = Table /\ UNCHANGED failures
       \/ answered # Table /\ Fail
    /\ LET entries == IF answered \cap {"ifTable", "ifXTable"} # {} THEN Iface
                      ELSE IF "errDisable" \in answered THEN errors ELSE {} IN
       sample' = {[answered |-> answered,
                   batch |-> [i \in entries |-> InterfaceReport(i, answered)]]}
    /\ UNCHANGED <<device, tables, loaded, imdsMac, traps, shown, flips, resets, swaps,
                   rowOps, ties>>

PollReport ==
    /\ \E s \in sample : ReportInterfaces(s.batch)
    /\ sample' = {}
    /\ UNCHANGED <<device, tables, loaded, imdsMac, traps, flips, resets, swaps, rowOps>>

\* No DB connection: the report is dropped.
DropPoll ==
    /\ sample # {} /\ sample' = {} /\ Fail
    /\ UNCHANGED <<device, tables, loaded, imdsMac, traps, shown, flips, resets, swaps,
                   rowOps, ties>>

-----------------------------------------------------------------------------
(* Trap receiver: link_event carries the link state only; traps may be     *)
(* delayed, reordered or lost.                                             *)

LinkEvent(t) ==
    [i \in {t.iface} |->
       [counter |-> {}, oper |-> [a \in Attr |-> IF a = "up" THEN {t.up} ELSE {}], err |-> {}]]

TrapReport(t) ==
    /\ t \in traps /\ traps' = traps \ {t}
    /\ ReportInterfaces(LinkEvent(t))
    /\ UNCHANGED <<device, tables, loaded, imdsMac, sample, flips, resets, swaps, rowOps>>

LoseTrap(t) ==
    /\ t \in traps /\ traps' = traps \ {t}
    /\ UNCHANGED <<device, tables, loaded, imdsMac, sample, shown, bounds>>

\* PUT /dev/interface/monitor: an agent reports whatever it has of a port; it
\* counts as two changes of the device.
AgentReport(i) ==
    /\ Spent + 2 <= MaxDisturbances /\ flips + 2 <= MaxFlips /\ flips' = flips + 2
    /\ \E r \in Report : ReportInterfaces([j \in {i} |-> r])
    /\ UNCHANGED <<device, tables, loaded, imdsMac, sample, traps, resets, swaps, rowOps>>

-----------------------------------------------------------------------------
Next ==
    \/ \E i \in Iface :
          \/ \E a \in Attr : Flip(i, a)
          \/ ErrDisable(i) \/ Count(i) \/ ResetCounter(i) \/ AgentReport(i)
    \/ Swap \/ Discover
    \/ RefreshLoad \/ RefreshApply
    \/ \E answered \in SUBSET Table : Poll(answered)
    \/ PollReport \/ DropPoll
    \/ \E t \in traps : TrapReport(t) \/ LoseTrap(t)

Spec == Init /\ [][Next]_vars

\* The IMDS worker and the poll worker loop for ever; a trap arrives or is lost.
Fairness ==
    /\ WF_vars(RefreshLoad) /\ WF_vars(RefreshApply)
    /\ WF_vars(\E answered \in SUBSET Table : Poll(answered)) /\ WF_vars(PollReport)
    /\ WF_vars(\E t \in traps : TrapReport(t) \/ LoseTrap(t))

FairSpec == Spec /\ Fairness
-----------------------------------------------------------------------------
(* Properties.                                                             *)

TypeOK ==
    /\ oper \in [Iface -> [Attr -> Val]] /\ counter \in [Iface -> Value]
    /\ errors \subseteq Iface /\ mac \in Mac
    /\ rows \subseteq Iface /\ links \subseteq Bundle /\ dbMac \in Option(Mac) /\ imdsMac \in Option(Mac)
    /\ \A l \in loaded : l \in [rows : SUBSET Iface, mac : Option(Mac)]
    /\ \A i \in Iface :
          \/ ifm[i] = Absent
          \/ ifm[i] \in [present : {TRUE}, reported : BOOLEAN,
                         counter : Option(Value), oper : [Attr -> Option(Val)],
                         err : BOOLEAN, violations : 0..Limit]
    /\ \A s \in sample :
          s.answered \subseteq Table /\ \A i \in DOMAIN s.batch : i \in Iface /\ s.batch[i] \in Report
    /\ traps \subseteq [iface : Iface, up : Val]
    /\ told \in [Iface -> [Announced -> Option(Val)]]
    /\ DOMAIN annotated \subseteq Bundle /\ poisoned \in BOOLEAN
    /\ \A i \in DOMAIN annotated :
          DOMAIN annotated[i] \subseteq Bundle /\ \A j \in DOMAIN annotated[i] : annotated[i][j] \in Option(Val)
    /\ regressed \in [Iface -> 0..Limit]
    /\ {flips, resets, swaps, rowOps, failures, ties} \subseteq Nat

\* The exported counter of an interface goes down only for a wrap, or when the
\* Limit reports before this one regressed without an interruption
\* (validate_counters): isolated regressions never add up, and traps, refreshes
\* and partial polls in between do not confirm one.
CounterDropsConfirmed ==
    [][\A i \in Iface : (ifm[i].present /\ ifm'[i].present) =>
          \A o \in ifm[i].counter, n \in ifm'[i].counter :
             n < o => o - n >= WrapGap \/ regressed[i] = Limit]_ifm

\* A subscriber that heard of an attribute of an interface agrees with IMDS about
\* it: polls and traps that overtake each other publish every change, in order
\* (since the entry was made or last reset: a reset entry learns its state silently).
SubscriberAgrees ==
    \A i \in Iface : \A a \in Announced :
        told[i][a] # {} => ifm[i].present /\ told[i][a] = ifm[i].oper[a]

\* imds.rs (report_interfaces): "when several members of one bundle flap in the
\* same poll every emitted event reflects all their fresh states": an event names
\* only ports that are linked to the neighbor at that moment, all of those IMDS
\* has unless a read failed, and tells of each what this poll found, even if that
\* member's own report is rejected, and otherwise the state IMDS shows after the batch.
LagAnnotationTrue ==
    [][PollReport => \A s \in sample : \A i \in DOMAIN annotated' :
          LET members == {j \in Linked(i) : ifm[j].present} IN
          /\ DOMAIN annotated'[i] \subseteq members
          /\ failures' = failures => DOMAIN annotated'[i] = members
          /\ \A j \in DOMAIN annotated'[i] :
                annotated'[i][j] = IF j \in DOMAIN s.batch
                                   THEN Or(s.batch[j].oper["up"], ifm'[j].oper["up"])
                                   ELSE ifm'[j].oper["up"]]_vars

\* Once the device, the DB and the network are quiet, every interface with a row
\* is shown with the state and the counter it has: rejected, partial, overtaken
\* and lost reports, late traps, hardware swaps and what agents reported leave
\* nothing behind.  A panic under the mutex does: IMDS stays as it was for good.
Converges ==
    \A i \in Iface :
        <>[](i \in rows /\ ~poisoned =>
               /\ ifm[i].present /\ ifm[i].counter = {counter[i]}
               /\ \A a \in Attr : ifm[i].oper[a] = {oper[i][a]}
               /\ ifm[i].err <=> i \in errors)
=============================================================================
