-------------------------- MODULE InterfaceProofs --------------------------
(***************************************************************************)
(* Proofs about InterfaceMonitor, for any interfaces, bundle, attributes,  *)
(* hardware, rejection limit, wrap gap and bounds.                         *)
(***************************************************************************)
EXTENDS InterfaceMonitor, TLAPS

Entry == [present : {TRUE}, reported : BOOLEAN, counter : Option(Value),
          oper : [Attr -> Option(Val)], err : BOOLEAN, violations : 0..Limit]

EntriesOK(entries) == \A i \in Iface : entries[i] = Absent \/ entries[i] \in Entry

AnnotationsOK(events) ==
    /\ DOMAIN events \subseteq Bundle
    /\ \A i \in DOMAIN events :
          DOMAIN events[i] \subseteq Bundle /\ \A j \in DOMAIN events[i] : events[i][j] \in Option(Val)

\* The parts of TypeOK.
DeviceOK ==
    /\ oper \in [Iface -> [Attr -> Val]] /\ counter \in [Iface -> Value]
    /\ errors \subseteq Iface /\ mac \in Mac
TablesOK ==
    /\ rows \subseteq Iface /\ links \subseteq Bundle /\ dbMac \in Option(Mac) /\ imdsMac \in Option(Mac)
    /\ \A l \in loaded : l \in [rows : SUBSET Iface, mac : Option(Mac)]
SampleOK ==
    \A s \in sample :
        s.answered \subseteq Table /\ \A i \in DOMAIN s.batch : i \in Iface /\ s.batch[i] \in Report
TrapsOK == traps \subseteq [iface : Iface, up : Val]
ShownOK ==
    /\ EntriesOK(ifm)
    /\ told \in [Iface -> [Announced -> Option(Val)]]
    /\ AnnotationsOK(annotated) /\ poisoned \in BOOLEAN
    /\ regressed \in [Iface -> 0..Limit]
BoundsOK == {flips, resets, swaps, rowOps, failures, ties} \subseteq Nat

\* The code's own count of rejections is the number of regressions in a row.
CountOK(entries, streak) ==
    \A i \in Iface : entries[i].present => entries[i].violations = streak[i]

IInv ==
    /\ DeviceOK /\ TablesOK /\ SampleOK /\ TrapsOK /\ ShownOK /\ BoundsOK
    /\ CountOK(ifm, regressed) /\ SubscriberAgrees

LEMMA InvIsTyped == IInv => TypeOK
BY DEF IInv, TypeOK, DeviceOK, TablesOK, SampleOK, TrapsOK, ShownOK, BoundsOK, EntriesOK, Entry,
       AnnotationsOK

-----------------------------------------------------------------------------
LEMMA ValueIsNat == Value \subseteq Nat /\ (Iface # {} => 0 \in Value)
BY LimitAssumption DEF Value

LEMMA AbsentIsNoEntry == Absent \notin Entry /\ Absent.present = FALSE
BY DEF Absent, Entry

LEMMA NewIsEntry == NewInterface \in Entry /\ NewInterface.violations = 0 /\ NewInterface.counter = {}
BY LimitAssumption DEF NewInterface, Entry, Option

LEMMA OrIsOption ==
    ASSUME NEW S, NEW x \in Option(S), NEW y \in Option(S)
    PROVE  Or(x, y) \in Option(S)
BY DEF Or

Accepted(m, c, o, e) ==
    [m EXCEPT !.reported = TRUE, !.counter = c, !.oper = o, !.err = e, !.violations = 0]

LEMMA AcceptedEntry ==
    ASSUME NEW m \in Entry, NEW c \in Option(Value), NEW o \in [Attr -> Option(Val)],
           NEW e \in BOOLEAN
    PROVE  /\ Accepted(m, c, o, e) \in Entry /\ Accepted(m, c, o, e).violations = 0
           /\ Accepted(m, c, o, e).counter = c /\ Accepted(m, c, o, e).oper = o
<1>1. 0 \in 0..Limit
  BY LimitAssumption
<1>2. QED
  BY <1>1 DEF Accepted, Entry

\* One entry and its report.
LEMMA ReportedEntry ==
    ASSUME NEW m \in Entry, NEW r \in Report, NEW upto
    PROVE  /\ Reported(m, r, upto) \in Entry
           /\ ~Valid(m, r) => /\ Reported(m, r, upto).violations = m.violations + 1
                              /\ Reported(m, r, upto).counter = m.counter
                              /\ Reported(m, r, upto).oper = m.oper
           /\ Valid(m, r) => /\ Reported(m, r, upto).violations = 0
                             /\ Reported(m, r, upto).counter = Or(r.counter, m.counter)
                             /\ Reported(m, r, upto).oper =
                                   [a \in Attr |-> IF a \in upto THEN Or(r.oper[a], m.oper[a])
                                                   ELSE m.oper[a]]
<1>1. CASE ~Valid(m, r)
  <2>1. m.violations \in 0..Limit /\ m.violations < Limit
    BY <1>1, LimitAssumption DEF Valid, Entry
  <2>2. m.violations + 1 \in 0..Limit
    BY <2>1, LimitAssumption
  <2>3. Reported(m, r, upto) = [m EXCEPT !.violations = m.violations + 1]
    BY <1>1 DEF Reported
  <2>4. QED
    BY <1>1, <2>2, <2>3 DEF Entry
<1>2. CASE Valid(m, r)
  <2> DEFINE c == Or(r.counter, m.counter)
             o == [a \in Attr |-> IF a \in upto THEN Or(r.oper[a], m.oper[a]) ELSE m.oper[a]]
             e == IF upto # Attr \/ r.err = {} THEN m.err ELSE TRUE \in r.err
  <2>1. c \in Option(Value)
    BY OrIsOption DEF Entry, Report
  <2>2. o \in [Attr -> Option(Val)]
    BY OrIsOption DEF Entry, Report
  <2>3. e \in BOOLEAN
    <3>1. m.err \in BOOLEAN
      BY DEF Entry
    <3>2. CASE upto # Attr \/ r.err = {}
      BY <3>1, <3>2
    <3>3. CASE ~(upto # Attr \/ r.err = {})
      <4>1. e = (TRUE \in r.err)
        BY <3>3
      <4>2. (TRUE \in r.err) \in BOOLEAN
        OBVIOUS
      <4>3. QED
        BY <4>1, <4>2
    <3>4. QED
      BY <3>2, <3>3
  <2>4. Reported(m, r, upto) = Accepted(m, c, o, e)
    BY <1>2 DEF Reported, Accepted
  <2> HIDE DEF c, o, e
  <2>5. /\ Reported(m, r, upto) \in Entry /\ Reported(m, r, upto).violations = 0
        /\ Reported(m, r, upto).counter = c /\ Reported(m, r, upto).oper = o
    BY <2>1, <2>2, <2>3, <2>4, AcceptedEntry
  <2>6. QED
    BY <1>2, <2>5 DEF c, o
<1>3. QED
  BY <1>1, <1>2

-----------------------------------------------------------------------------
LEMMA Initial == Init => IInv
<1> SUFFICES ASSUME Init PROVE IInv
  OBVIOUS
<1>1. mac \in Mac
  BY MacAssumption DEF Init
<1>2. oper \in [Iface -> [Attr -> Val]] /\ counter \in [Iface -> Value]
  BY ValueIsNat DEF Init, Val
<1>3. DeviceOK /\ TablesOK
  BY <1>1, <1>2 DEF Init, DeviceOK, TablesOK, Option
<1>4. ShownOK
  <2>1. AnnotationsOK(annotated) /\ poisoned \in BOOLEAN
    BY DEF Init, AnnotationsOK, NoEvents
  <2>2. EntriesOK(ifm) /\ regressed \in [Iface -> 0..Limit]
    BY LimitAssumption DEF Init, EntriesOK
  <2>3. told \in [Iface -> [Announced -> Option(Val)]]
    BY DEF Init, Option, Unheard
  <2>4. QED
    BY <2>1, <2>2, <2>3 DEF ShownOK
<1>5. SampleOK /\ TrapsOK /\ BoundsOK
  BY DEF Init, SampleOK, TrapsOK, BoundsOK
<1>6. CountOK(ifm, regressed) /\ SubscriberAgrees
  BY AbsentIsNoEntry DEF Init, CountOK, SubscriberAgrees, Unheard
<1>7. QED
  BY <1>3, <1>4, <1>5, <1>6 DEF IInv

\* What leaves the shown state alone only has to keep the types of the rest.
LEMMA OutsideKeeps ==
    ASSUME IInv, DeviceOK', TablesOK', SampleOK', TrapsOK', BoundsOK', UNCHANGED shown
    PROVE  IInv'
BY DEF IInv, shown, ShownOK, CountOK, SubscriberAgrees

LEMMA DeviceKeeps ==
    ASSUME IInv,
           \/ \E i \in Iface : (\E a \in Attr : Flip(i, a)) \/ ErrDisable(i) \/ Count(i)
                               \/ ResetCounter(i)
           \/ Swap
    PROVE  IInv'
<1>1. UNCHANGED shown /\ TablesOK' /\ SampleOK'
  BY DEF IInv, TablesOK, SampleOK, Flip, ErrDisable, Count, ResetCounter, Swap, tables, shown
<1>2. BoundsOK'
  BY DEF IInv, BoundsOK, Flip, ErrDisable, Count, ResetCounter, Swap, bounds
<1>3. ASSUME NEW i \in Iface, NEW a \in Attr, Flip(i, a)
      PROVE  DeviceOK' /\ TrapsOK'
  <2>1. oper' \in [Iface -> [Attr -> Val]] /\ UNCHANGED <<counter, errors, mac>>
    BY <1>3 DEF IInv, DeviceOK, Flip, Val
  <2>2. oper'[i][a] \in Val
    BY <2>1
  <2>3. TrapsOK'
    BY <1>3, <2>2 DEF IInv, TrapsOK, Flip
  <2>4. QED
    BY <2>1, <2>3 DEF IInv, DeviceOK
<1>4. ASSUME NEW i \in Iface, ErrDisable(i)
      PROVE  DeviceOK' /\ TrapsOK'
  BY <1>4 DEF IInv, DeviceOK, TrapsOK, ErrDisable
<1>5. ASSUME NEW i \in Iface, Count(i)
      PROVE  DeviceOK' /\ TrapsOK'
  <2>1. counter[i] \in Nat /\ MaxCounter[i] \in Nat /\ counter[i] < MaxCounter[i]
    BY <1>5, LimitAssumption, ValueIsNat DEF IInv, DeviceOK, Count
  <2>2. counter[i] + 1 \in 0..MaxCounter[i]
    BY <2>1
  <2>3. counter[i] + 1 \in Value
    BY <2>2 DEF Value
  <2>4. QED
    BY <1>5, <2>3 DEF IInv, DeviceOK, TrapsOK, Count
<1>6. ASSUME NEW i \in Iface, ResetCounter(i)
      PROVE  DeviceOK' /\ TrapsOK'
  BY <1>6, ValueIsNat DEF IInv, DeviceOK, TrapsOK, ResetCounter
<1>7. ASSUME Swap
      PROVE  DeviceOK' /\ TrapsOK'
  BY <1>7, ValueIsNat DEF IInv, DeviceOK, TrapsOK, Swap
<1>8. QED
  BY <1>1, <1>2, <1>3, <1>4, <1>5, <1>6, <1>7, OutsideKeeps

\* A poll's report of one interface is a Report.
LEMMA PollIsReport ==
    ASSUME IInv, NEW i \in Iface, NEW answered \in SUBSET Table
    PROVE  InterfaceReport(i, answered) \in Report
<1> DEFINE r == InterfaceReport(i, answered)
<1>1. counter[i] \in Value /\ \A a \in Attr : oper[i][a] \in Val
  BY DEF IInv, DeviceOK
<1>2. r.counter \in Option(Value)
  BY <1>1 DEF InterfaceReport, Option
<1>3. r.oper \in [Attr -> Option(Val)]
  BY <1>1 DEF InterfaceReport, Option
<1>4. r.err \in Option(BOOLEAN)
  BY DEF InterfaceReport, Option
<1>5. r = [counter |-> r.counter, oper |-> r.oper, err |-> r.err]
  BY DEF InterfaceReport
<1> HIDE DEF r
<1>6. r \in Report
  BY <1>2, <1>3, <1>4, <1>5 DEF Report
<1>7. QED
  BY <1>6 DEF r

LEMMA WorkerKeeps ==
    ASSUME IInv,
           \/ Discover \/ RefreshLoad \/ DropPoll
           \/ \E answered \in SUBSET Table : Poll(answered)
           \/ \E t \in traps : LoseTrap(t)
    PROVE  IInv'
<1>1. UNCHANGED shown /\ DeviceOK'
  BY DEF IInv, DeviceOK, Discover, RefreshLoad, DropPoll, Poll, LoseTrap, device, shown
<1>2. BoundsOK'
  BY DEF IInv, BoundsOK, Discover, RefreshLoad, DropPoll, Poll, LoseTrap, Fail, bounds
<1>3. TrapsOK'
  BY DEF IInv, TrapsOK, Discover, RefreshLoad, DropPoll, Poll, LoseTrap
<1>4. TablesOK'
  <2>1. CASE Discover
    <3>1. mac \in Mac
      BY DEF IInv, DeviceOK
    <3>2. QED
      BY <2>1, <3>1 DEF IInv, TablesOK, Discover, Option
  <2>2. CASE RefreshLoad
    <3>1. \A l \in loaded' : l = [rows |-> rows, mac |-> dbMac] \/ l = [rows |-> {}, mac |-> dbMac]
      BY <2>2 DEF RefreshLoad
    <3>2. QED
      BY <2>2, <3>1 DEF IInv, TablesOK, RefreshLoad, tables
  <2>3. CASE UNCHANGED <<tables, loaded, imdsMac>>
    BY <2>3 DEF IInv, TablesOK, tables
  <2>4. QED
    BY <2>1, <2>2, <2>3 DEF DropPoll, Poll, LoseTrap
<1>5. SampleOK'
  <2>1. ASSUME NEW answered \in SUBSET Table, Poll(answered)
        PROVE  SampleOK'
    <3> DEFINE entries == IF answered \cap {"ifTable", "ifXTable"} # {} THEN Iface
                          ELSE IF "errDisable" \in answered THEN errors ELSE {}
               batch == [i \in entries |-> InterfaceReport(i, answered)]
    <3>1. entries \subseteq Iface
      BY DEF IInv, DeviceOK
    <3>2. sample' = {[answered |-> answered, batch |-> batch]}
      BY <2>1 DEF Poll
    <3> HIDE DEF entries
    <3>3. \A i \in DOMAIN batch : i \in Iface /\ batch[i] \in Report
      BY <3>1, PollIsReport
    <3> HIDE DEF batch
    <3>4. QED
      BY <3>2, <3>3 DEF SampleOK
  <2>2. CASE UNCHANGED sample
    BY <2>2 DEF IInv, SampleOK
  <2>3. CASE sample' = {}
    BY <2>3 DEF SampleOK
  <2>4. QED
    BY <2>1, <2>2, <2>3 DEF Discover, RefreshLoad, DropPoll, LoseTrap
<1>6. QED
  BY <1>1, <1>2, <1>3, <1>4, <1>5, OutsideKeeps

LEMMA RefreshKeeps ==
    ASSUME IInv, RefreshApply
    PROVE  IInv'
<1>1. PICK l \in loaded :
        LET fresh(i) == ~ifm[i].present \/ HardwareSwapped(l.mac) IN
        /\ imdsMac' = Or(l.mac, imdsMac)
        /\ ifm' = [i \in Iface |-> IF i \notin l.rows THEN Absent
                                   ELSE IF fresh(i) THEN NewInterface ELSE ifm[i]]
        /\ regressed' = [i \in Iface |-> IF i \in l.rows /\ ~fresh(i) THEN regressed[i] ELSE 0]
        /\ told' = [i \in Iface |-> IF i \in l.rows /\ ~fresh(i) THEN told[i] ELSE Unheard]
  BY DEF RefreshApply
<1>2. /\ loaded' = {}
      /\ UNCHANGED <<device, tables, sample, traps, annotated, poisoned, bounds>>
  BY DEF RefreshApply
<1>3. \A i \in Iface :
        \/ ifm'[i] = Absent /\ regressed'[i] = 0 /\ told'[i] = Unheard
        \/ ifm'[i] = NewInterface /\ regressed'[i] = 0 /\ told'[i] = Unheard
        \/ ifm'[i] = ifm[i] /\ regressed'[i] = regressed[i] /\ told'[i] = told[i]
  BY <1>1
<1>4. imdsMac' \in Option(Mac)
  BY <1>1, OrIsOption DEF IInv, TablesOK
<1>5. Unheard \in [Announced -> Option(Val)] /\ 0 \in 0..Limit
  BY LimitAssumption DEF Unheard, Option
<1>6. regressed' \in [Iface -> 0..Limit] /\ told' \in [Iface -> [Announced -> Option(Val)]]
  BY <1>1, <1>3, <1>5 DEF IInv, ShownOK
<1>7. EntriesOK(ifm')
  BY <1>3, NewIsEntry DEF IInv, ShownOK, EntriesOK
<1>8. DeviceOK' /\ TablesOK' /\ SampleOK' /\ TrapsOK' /\ BoundsOK'
  BY <1>2, <1>4 DEF IInv, DeviceOK, TablesOK, SampleOK, TrapsOK, BoundsOK, device, tables, bounds
<1>12. ShownOK'
  BY <1>2, <1>6, <1>7 DEF IInv, ShownOK
<1>9. CountOK(ifm', regressed')
  BY <1>3, NewIsEntry, AbsentIsNoEntry DEF IInv, CountOK
<1>10. SubscriberAgrees'
  BY <1>3 DEF IInv, SubscriberAgrees, Unheard
<1>11. QED
  BY <1>8, <1>9, <1>10, <1>12 DEF IInv

-----------------------------------------------------------------------------
(* Reports.                                                                *)

\* What one report does to one interface, as far as upto.
ReportStep(i, r, upto) ==
    /\ ifm'[i] = Reported(ifm[i], r, upto)
    /\ regressed'[i] = IF ForwardProgress(ifm[i].counter, r.counter) \/ regressed[i] = Limit
                       THEN 0 ELSE regressed[i] + 1
    /\ \A a \in Announced :
          told'[i][a] = IF a \in upto /\ Valid(ifm[i], r) /\ Publishes(ifm[i], r, a) THEN r.oper[a]
                        ELSE told[i][a]

UntouchedStep(i) ==
    /\ ifm'[i] = ifm[i] /\ regressed'[i] = regressed[i]
    /\ \A a \in Announced : told'[i][a] = told[i][a]

DropOK(i) ==
    ifm[i].present /\ ifm'[i].present =>
        \A o \in ifm[i].counter, n \in ifm'[i].counter :
            n < o => o - n >= WrapGap \/ regressed[i] = Limit

AgreesOK(i) ==
    \A a \in Announced : told'[i][a] # {} => ifm'[i].present /\ told'[i][a] = ifm'[i].oper[a]

\* Counters are options of numbers: without progress the new one is lower.
LEMMA KeptCounter ==
    ASSUME NEW c \in Option(Value), NEW o \in c, NEW n \in c
    PROVE  ~(n < o)
BY ValueIsNat DEF Option

LEMMA ReportStepKeeps ==
    ASSUME IInv, NEW i \in Iface, NEW r \in Report, NEW upto, ifm[i] \in Entry,
           ReportStep(i, r, upto)
    PROVE  /\ ifm'[i] \in Entry /\ ifm'[i].violations = regressed'[i]
           /\ regressed'[i] \in 0..Limit /\ AgreesOK(i) /\ DropOK(i)
<1> DEFINE m == ifm[i]
           n == Reported(m, r, upto)
<1>1. m \in Entry /\ m.violations = regressed[i] /\ regressed[i] \in 0..Limit
  BY DEF IInv, CountOK, ShownOK, Entry
<1>2. ifm'[i] = n
  BY DEF ReportStep
<1>3. /\ n \in Entry
      /\ ~Valid(m, r) => /\ n.violations = m.violations + 1
                         /\ n.counter = m.counter /\ n.oper = m.oper
      /\ Valid(m, r) => /\ n.violations = 0 /\ n.counter = Or(r.counter, m.counter)
                        /\ n.oper = [a \in Attr |-> IF a \in upto THEN Or(r.oper[a], m.oper[a])
                                                    ELSE m.oper[a]]
  BY <1>1, ReportedEntry
<1>4. regressed'[i] = IF ForwardProgress(m.counter, r.counter) \/ regressed[i] = Limit
                      THEN 0 ELSE regressed[i] + 1
  BY DEF ReportStep
<1>5. \A a \in Announced :
         /\ a \in Attr
         /\ told'[i][a] = IF a \in upto /\ Valid(m, r) /\ Publishes(m, r, a) THEN r.oper[a]
                          ELSE told[i][a]
         /\ told[i][a] # {} => told[i][a] = m.oper[a]
  BY DEF ReportStep, Announced, IInv, SubscriberAgrees
<1> HIDE DEF m, n
<1>6. Valid(m, r) <=> regressed[i] = Limit \/ ForwardProgress(m.counter, r.counter)
  BY <1>1, LimitAssumption DEF Valid
<1>7. n.violations = regressed'[i] /\ regressed'[i] \in 0..Limit
  <2>1. CASE Valid(m, r)
    BY <2>1, <1>3, <1>4, <1>6, LimitAssumption
  <2>2. CASE ~Valid(m, r)
    BY <2>2, <1>1, <1>3, <1>4, <1>6, LimitAssumption
  <2>3. QED
    BY <2>1, <2>2
<1>8. AgreesOK(i)
  <2> SUFFICES ASSUME NEW a \in Announced, told'[i][a] # {}
               PROVE  n.present /\ told'[i][a] = n.oper[a]
    BY <1>2 DEF AgreesOK
  <2>1. n.present
    BY <1>3 DEF Entry
  <2>2. CASE ~Valid(m, r)
    BY <2>1, <2>2, <1>3, <1>5
  <2>3. CASE Valid(m, r) /\ a \in upto
    <3>1. n.oper[a] = Or(r.oper[a], m.oper[a])
      BY <2>3, <1>3, <1>5
    <3>2. CASE Publishes(m, r, a)
      BY <2>1, <2>3, <3>1, <3>2, <1>5 DEF Publishes, Or
    <3>3. CASE ~Publishes(m, r, a)
      <4>1. told'[i][a] = told[i][a] /\ told[i][a] = m.oper[a]
        BY <3>3, <1>5
      <4>2. QED
        BY <2>1, <3>1, <3>3, <4>1 DEF Publishes, Or
    <3>4. QED
      BY <3>2, <3>3
  <2>4. CASE Valid(m, r) /\ a \notin upto
    <3>1. n.oper[a] = m.oper[a]
      BY <2>4, <1>3, <1>5
    <3>2. QED
      BY <2>1, <2>4, <3>1, <1>5
  <2>5. QED
    BY <2>2, <2>3, <2>4
<1>9. DropOK(i)
  <2> SUFFICES ASSUME NEW o \in m.counter, NEW c \in n.counter, c < o
               PROVE  o - c >= WrapGap \/ regressed[i] = Limit
    BY <1>2 DEF DropOK, m
  <2>1. m.counter \in Option(Value) /\ r.counter \in Option(Value)
    BY <1>1 DEF Entry, Report
  <2>2. ~(m.counter = n.counter)
    BY <2>1, KeptCounter
  <2>3. Valid(m, r) /\ n.counter = r.counter
    BY <2>2, <1>3 DEF Or
  <2>4. CASE ForwardProgress(m.counter, r.counter)
    <3>1. o <= c \/ o - c >= WrapGap
      BY <2>3, <2>4 DEF ForwardProgress
    <3>2. o \in Nat /\ c \in Nat
      BY <2>1, <2>3, ValueIsNat DEF Option
    <3>3. QED
      BY <3>1, <3>2
  <2>5. QED
    BY <2>3, <2>4, <1>6
<1>10. QED
  BY <1>2, <1>3, <1>7, <1>8, <1>9

LEMMA UntouchedKeeps ==
    ASSUME IInv, NEW i \in Iface, UntouchedStep(i)
    PROVE  /\ ifm'[i] = Absent \/ ifm'[i] \in Entry
           /\ ifm'[i].present => ifm'[i].violations = regressed'[i]
           /\ regressed'[i] \in 0..Limit /\ AgreesOK(i) /\ DropOK(i)
<1>1. DropOK(i)
  <2> SUFFICES ASSUME ifm[i].present, NEW o \in ifm[i].counter, NEW n \in ifm[i].counter
               PROVE  ~(n < o)
    BY DEF DropOK, UntouchedStep
  <2>1. ifm[i].counter \in Option(Value)
    BY AbsentIsNoEntry DEF IInv, ShownOK, EntriesOK, Entry
  <2>2. QED
    BY <2>1, KeptCounter
<1>2. AgreesOK(i)
  BY DEF UntouchedStep, AgreesOK, IInv, SubscriberAgrees
<1>3. QED
  BY <1>1, <1>2 DEF UntouchedStep, IInv, ShownOK, EntriesOK, CountOK

\* A step that applies entries of a batch, all of it or up to a panic.
LEMMA ApplyKeeps ==
    ASSUME IInv, NEW batch, \A i \in DOMAIN batch : i \in Iface /\ batch[i] \in Report,
           NEW done, \A i \in done : i \in DOMAIN batch /\ ifm[i].present,
           NEW upto, Apply(batch, done, upto), poisoned' \in BOOLEAN,
           DeviceOK', TablesOK', SampleOK', TrapsOK', BoundsOK'
    PROVE  IInv' /\ \A i \in Iface : DropOK(i)
<1> DEFINE event(i, a) == /\ i \in done /\ a \in upto[i]
                          /\ Valid(ifm[i], batch[i]) /\ Publishes(ifm[i], batch[i], a)
           flapped == {i \in Bundle : event(i, "up")}
<1>1. /\ ifm' = [i \in Iface |-> IF i \in done THEN Reported(ifm[i], batch[i], upto[i]) ELSE ifm[i]]
      /\ told' = [i \in Iface |-> [a \in Announced |->
                    IF event(i, a) THEN batch[i].oper[a] ELSE told[i][a]]]
      /\ regressed' = [i \in Iface |->
                    IF i \notin done THEN regressed[i]
                    ELSE IF ForwardProgress(ifm[i].counter, batch[i].counter)
                            \/ regressed[i] = Limit
                         THEN 0 ELSE regressed[i] + 1]
  BY DEF Apply
<1>2. ASSUME NEW i \in Iface, i \in done
      PROVE  ReportStep(i, batch[i], upto[i]) /\ ifm[i] \in Entry /\ batch[i] \in Report
  <2>1. ReportStep(i, batch[i], upto[i])
    BY <1>1, <1>2 DEF ReportStep
  <2>2. ifm[i] \in Entry /\ batch[i] \in Report
    BY <1>2, AbsentIsNoEntry DEF IInv, ShownOK, EntriesOK
  <2>3. QED
    BY <2>1, <2>2
<1>3. ASSUME NEW i \in Iface, i \notin done
      PROVE  UntouchedStep(i)
  BY <1>1, <1>3 DEF UntouchedStep
<1>4. \A i \in Iface :
         /\ ifm'[i] = Absent \/ ifm'[i] \in Entry
         /\ ifm'[i].present => ifm'[i].violations = regressed'[i]
         /\ regressed'[i] \in 0..Limit /\ AgreesOK(i) /\ DropOK(i)
  BY <1>2, <1>3, ReportStepKeeps, UntouchedKeeps
<1>5. told' \in [Iface -> [Announced -> Option(Val)]]
  <2>1. \A i \in Iface, a \in Announced : told[i][a] \in Option(Val)
    BY DEF IInv, ShownOK
  <2>2. \A i \in DOMAIN batch, a \in Announced : batch[i].oper[a] \in Option(Val)
    BY DEF Report, Announced
  <2>3. QED
    BY <1>1, <2>1, <2>2
<1>6. AnnotationsOK(annotated')
  <2>1. PICK read \in [flapped -> SUBSET links] :
          annotated' = [i \in flapped |->
                          [j \in {j \in read[i] : ifm[j].present} |-> LagStatus(batch, j)]]
    BY DEF Apply
  <2>2. flapped \subseteq Bundle /\ \A i \in flapped : read[i] \subseteq Bundle
    BY <2>1 DEF IInv, TablesOK
  <2>3. ASSUME NEW j \in Bundle
        PROVE  LagStatus(batch, j) \in Option(Val)
    <3>1. ifm[j].present => ifm[j].oper["up"] \in Option(Val)
      BY BundleAssumption, AttrAssumption, AbsentIsNoEntry DEF IInv, ShownOK, EntriesOK, Entry
    <3>2. j \in DOMAIN batch => batch[j].oper["up"] \in Option(Val)
      BY AttrAssumption DEF Report
    <3>3. {} \in Option(Val)
      BY DEF Option
    <3>4. QED
      BY <3>1, <3>2, <3>3, OrIsOption DEF LagStatus
  <2> HIDE DEF flapped
  <2>4. QED
    BY <2>1, <2>2, <2>3 DEF AnnotationsOK
<1>7. regressed' \in [Iface -> 0..Limit]
  BY <1>1, <1>4
<1>8. ShownOK' /\ CountOK(ifm', regressed') /\ SubscriberAgrees'
  BY <1>4, <1>5, <1>6, <1>7 DEF ShownOK, EntriesOK, CountOK, SubscriberAgrees, AgreesOK
<1>9. QED
  BY <1>4, <1>8 DEF IInv

LEMMA BatchKeeps ==
    ASSUME IInv, NEW batch, \A i \in DOMAIN batch : i \in Iface /\ batch[i] \in Report,
           ReportInterfaces(batch), DeviceOK', TablesOK', SampleOK', TrapsOK',
           {flips', resets', swaps', rowOps'} \subseteq Nat
    PROVE  IInv' /\ \A i \in Iface : DropOK(i)
<1>1. CASE poisoned
  <2>1. BoundsOK' /\ annotated' = NoEvents /\ UNCHANGED <<ifm, told, regressed, poisoned>>
    BY <1>1 DEF ReportInterfaces, IInv, BoundsOK
  <2>2. ShownOK' /\ CountOK(ifm', regressed') /\ SubscriberAgrees'
    BY <2>1 DEF IInv, ShownOK, CountOK, SubscriberAgrees, AnnotationsOK, NoEvents
  <2>3. \A i \in Iface : UntouchedStep(i)
    BY <2>1 DEF UntouchedStep
  <2>4. QED
    BY <2>1, <2>2, <2>3, UntouchedKeeps DEF IInv
<1>2. CASE ReportAll(batch)
  <2>1. PICK skip \in SUBSET DOMAIN batch :
          LET done == {i \in DOMAIN batch \ skip : ifm[i].present} IN
          /\ NotNewer(batch, skip)
          /\ UNCHANGED failures \/ Fail
          /\ Apply(batch, done, [i \in done |-> Attr])
          /\ UNCHANGED poisoned
    BY <1>2 DEF ReportAll
  <2>2. BoundsOK' /\ poisoned' \in BOOLEAN
    BY <2>1 DEF NotNewer, Fail, IInv, BoundsOK, ShownOK
  <2> DEFINE done == {i \in DOMAIN batch \ skip : ifm[i].present}
  <2>3. \A i \in done : i \in DOMAIN batch /\ ifm[i].present
    OBVIOUS
  <2>4. Apply(batch, done, [i \in done |-> Attr])
    BY <2>1
  <2> HIDE DEF done
  <2>5. QED
    BY <2>2, <2>3, <2>4, ApplyKeeps
<1>3. CASE ReportPanics(batch)
  <2>1. PICK done, upto :
          /\ done \in SUBSET {i \in DOMAIN batch : ifm[i].present}
          /\ Fail /\ Apply(batch, done, upto) /\ poisoned' = TRUE /\ UNCHANGED ties
    BY <1>3 DEF ReportPanics
  <2>2. BoundsOK' /\ poisoned' \in BOOLEAN
    BY <2>1 DEF Fail, IInv, BoundsOK
  <2>3. \A i \in done : i \in DOMAIN batch /\ ifm[i].present
    BY <2>1
  <2>4. QED
    BY <2>1, <2>2, <2>3, ApplyKeeps
<1>4. QED
  BY <1>1, <1>2, <1>3 DEF ReportInterfaces

LEMMA PollReportKeeps ==
    ASSUME IInv, PollReport
    PROVE  IInv' /\ \A i \in Iface : DropOK(i)
<1>1. PICK s \in sample : ReportInterfaces(s.batch)
  BY DEF PollReport
<1>2. DeviceOK' /\ TablesOK' /\ SampleOK' /\ TrapsOK'
  BY DEF PollReport, IInv, DeviceOK, TablesOK, SampleOK, TrapsOK, device, tables
<1>3. {flips', resets', swaps', rowOps'} \subseteq Nat
  BY DEF PollReport, IInv, BoundsOK
<1>4. \A i \in DOMAIN s.batch : i \in Iface /\ s.batch[i] \in Report
  BY DEF IInv, SampleOK
<1>5. QED
  BY <1>1, <1>2, <1>3, <1>4, BatchKeeps

LEMMA TrapReportKeeps ==
    ASSUME IInv, NEW t \in traps, TrapReport(t)
    PROVE  IInv' /\ \A i \in Iface : DropOK(i)
<1>1. ReportInterfaces(LinkEvent(t))
  BY DEF TrapReport
<1>2. DeviceOK' /\ TablesOK' /\ SampleOK' /\ TrapsOK'
  BY DEF TrapReport, IInv, DeviceOK, TablesOK, SampleOK, TrapsOK, device, tables
<1>3. {flips', resets', swaps', rowOps'} \subseteq Nat
  BY DEF TrapReport, IInv, BoundsOK
<1>4. t.iface \in Iface /\ t.up \in Val
  BY DEF IInv, TrapsOK
<1>5. [counter |-> {}, oper |-> [a \in Attr |-> IF a = "up" THEN {t.up} ELSE {}], err |-> {}] \in Report
  BY <1>4 DEF Report, Option
<1>6. \A i \in DOMAIN LinkEvent(t) : i \in Iface /\ LinkEvent(t)[i] \in Report
  BY <1>4, <1>5 DEF LinkEvent
<1>7. QED
  BY <1>1, <1>2, <1>3, <1>6, BatchKeeps

LEMMA AgentReportKeeps ==
    ASSUME IInv, NEW i \in Iface, AgentReport(i)
    PROVE  IInv' /\ \A j \in Iface : DropOK(j)
<1>1. PICK r \in Report : ReportInterfaces([j \in {i} |-> r])
  BY DEF AgentReport
<1>2. DeviceOK' /\ TablesOK' /\ SampleOK' /\ TrapsOK'
  BY DEF AgentReport, IInv, DeviceOK, TablesOK, SampleOK, TrapsOK, device, tables
<1>3. {flips', resets', swaps', rowOps'} \subseteq Nat
  BY DEF AgentReport, IInv, BoundsOK
<1> DEFINE batch == [j \in {i} |-> r]
<1>4. \A j \in DOMAIN batch : j \in Iface /\ batch[j] \in Report
  OBVIOUS
<1>5. ReportInterfaces(batch)
  BY <1>1
<1> HIDE DEF batch
<1>6. QED
  BY <1>2, <1>3, <1>4, <1>5, BatchKeeps

-----------------------------------------------------------------------------
\* A refresh makes an entry without a counter; nothing else writes one.
LEMMA RefreshDrops ==
    ASSUME IInv, RefreshApply, NEW i \in Iface
    PROVE  DropOK(i)
<1>1. ifm'[i] \in {Absent, NewInterface, ifm[i]}
  BY DEF RefreshApply
<1>2. CASE ifm'[i] = ifm[i]
  <2>1. ifm[i].present => ifm[i].counter \in Option(Value)
    BY AbsentIsNoEntry DEF IInv, ShownOK, EntriesOK, Entry
  <2>2. QED
    BY <1>2, <2>1, KeptCounter DEF DropOK
<1>3. QED
  BY <1>1, <1>2, NewIsEntry, AbsentIsNoEntry DEF DropOK

LEMMA StepKeeps ==
    ASSUME IInv, [Next]_vars
    PROVE  IInv'
<1>1. CASE UNCHANGED vars
  BY <1>1 DEF vars, device, tables, shown, bounds, IInv, DeviceOK, TablesOK, SampleOK, TrapsOK, ShownOK,
              BoundsOK, CountOK, SubscriberAgrees
<1>2. QED
  BY <1>1, DeviceKeeps, WorkerKeeps, RefreshKeeps, PollReportKeeps, TrapReportKeeps,
     AgentReportKeeps DEF Next

LEMMA StepDrops ==
    ASSUME IInv, [Next]_vars, ifm' # ifm, NEW i \in Iface
    PROVE  DropOK(i)
<1>1. \/ PollReport \/ RefreshApply
      \/ (\E t \in traps : TrapReport(t)) \/ \E j \in Iface : AgentReport(j)
  BY DEF Next, vars, shown, Flip, ErrDisable, Count, ResetCounter, Swap, Discover, RefreshLoad, Poll,
         DropPoll, LoseTrap
<1>2. QED
  BY <1>1, PollReportKeeps, RefreshDrops, TrapReportKeeps, AgentReportKeeps

LEMMA Inductive == Spec => []IInv
BY Initial, StepKeeps, PTL DEF Spec

\* Every variable stays in its type; the count of rejections never passes its limit.
THEOREM TypeCorrect == Spec => []TypeOK
BY Inductive, InvIsTyped, PTL

\* validate_counters: an exported counter goes down only for a wrap, or when the
\* last Limit reports regressed without an interruption, however polls, traps,
\* refreshes, swaps and skipped reports are interleaved.
THEOREM DropsAreConfirmed == Spec => CounterDropsConfirmed
<1>1. IInv /\ [Next]_vars =>
        [\A i \in Iface : (ifm[i].present /\ ifm'[i].present) =>
            \A o \in ifm[i].counter, n \in ifm'[i].counter :
               n < o => o - n >= WrapGap \/ regressed[i] = Limit]_ifm
  BY StepDrops DEF DropOK
<1>2. QED
  BY Inductive, <1>1, PTL DEF Spec, CounterDropsConfirmed

\* Whoever heard of an attribute of an interface heard what IMDS shows now.
THEOREM SubscribersAgree == Spec => []SubscriberAgrees
<1>1. IInv => SubscriberAgrees
  BY DEF IInv
<1>2. QED
  BY Inductive, <1>1, PTL

-----------------------------------------------------------------------------
(* Annotations: the poll worker has one batch at a time.                   *)
OneSample == \A s, u \in sample : s = u

LEMMA OneSampleKeeps == OneSample /\ [Next]_vars => OneSample'
<1> SUFFICES ASSUME OneSample, [Next]_vars PROVE OneSample'
  OBVIOUS
<1>1. ASSUME NEW answered \in SUBSET Table, Poll(answered) PROVE OneSample'
  BY <1>1 DEF Poll, OneSample
<1>2. CASE sample' = {}
  BY <1>2 DEF OneSample
<1>3. CASE UNCHANGED sample
  BY <1>3 DEF OneSample
<1>4. QED
  BY <1>1, <1>2, <1>3
     DEF Next, vars, Flip, ErrDisable, Count, ResetCounter, Swap, Discover, RefreshLoad,
         RefreshApply, PollReport, DropPoll, TrapReport, LoseTrap, AgentReport

\* What lag_link_statuses tells of a member is what the batch found or what IMDS shows
\* afterwards.
LEMMA MemberShown ==
    ASSUME IInv, NEW batch, \A i \in DOMAIN batch : i \in Iface /\ batch[i] \in Report,
           NEW done \in SUBSET DOMAIN batch, NEW upto, NEW j \in Iface, ifm[j].present,
           ifm'[j] = IF j \in done THEN Reported(ifm[j], batch[j], upto[j]) ELSE ifm[j]
    PROVE  LagStatus(batch, j) = IF j \in DOMAIN batch
                                 THEN Or(batch[j].oper["up"], ifm'[j].oper["up"])
                                 ELSE ifm'[j].oper["up"]
<1>1. ifm[j] \in Entry /\ "up" \in Attr
  BY AttrAssumption, AbsentIsNoEntry DEF IInv, ShownOK, EntriesOK
<1>2. CASE j \notin DOMAIN batch
  BY <1>2 DEF LagStatus
<1>3. CASE j \in DOMAIN batch
  <2>1. batch[j] \in Report
    BY <1>3
  <2>2. \/ ifm'[j].oper["up"] = ifm[j].oper["up"]
        \/ ifm'[j].oper["up"] = Or(batch[j].oper["up"], ifm[j].oper["up"])
    <3>1. CASE j \in done
      <4>1. \/ ifm'[j].oper = ifm[j].oper
            \/ ifm'[j].oper = [a \in Attr |-> IF a \in upto[j] THEN Or(batch[j].oper[a], ifm[j].oper[a])
                                              ELSE ifm[j].oper[a]]
        BY <1>1, <2>1, <3>1, ReportedEntry
      <4>2. QED
        BY <1>1, <4>1
    <3>2. CASE j \notin done
      BY <3>2
    <3>3. QED
      BY <3>1, <3>2
  <2>3. QED
    BY <1>3, <2>2 DEF LagStatus, Or
<1>4. QED
  BY <1>2, <1>3

\* What LagAnnotationTrue says of the event of i in a batch.
EventTrue(batch, i) ==
    LET members == {j \in Linked(i) : ifm[j].present} IN
    /\ DOMAIN annotated'[i] \subseteq members
    /\ failures' = failures => DOMAIN annotated'[i] = members
    /\ \A j \in DOMAIN annotated'[i] :
          annotated'[i][j] = IF j \in DOMAIN batch
                             THEN Or(batch[j].oper["up"], ifm'[j].oper["up"])
                             ELSE ifm'[j].oper["up"]

LEMMA ApplyAnnotates ==
    ASSUME IInv, NEW batch, \A i \in DOMAIN batch : i \in Iface /\ batch[i] \in Report,
           NEW done \in SUBSET DOMAIN batch, NEW upto, Apply(batch, done, upto),
           NEW i \in DOMAIN annotated'
    PROVE  EventTrue(batch, i)
<1> DEFINE flapped == {x \in Bundle : /\ x \in done /\ "up" \in upto[x]
                                      /\ Valid(ifm[x], batch[x])
                                      /\ Publishes(ifm[x], batch[x], "up")}
<1>1. /\ ifm' = [x \in Iface |-> IF x \in done THEN Reported(ifm[x], batch[x], upto[x]) ELSE ifm[x]]
      /\ \E read \in [flapped -> SUBSET links] :
            /\ \A x \in flapped : read[x] \subseteq Linked(x)
            /\ (\A x \in flapped : read[x] = Linked(x)) \/ failures' = failures + 1
            /\ annotated' = [x \in flapped |->
                  [j \in {j \in read[x] : ifm[j].present} |-> LagStatus(batch, j)]]
  BY DEF Apply
<1>2. PICK read \in [flapped -> SUBSET links] :
        /\ \A x \in flapped : read[x] \subseteq Linked(x)
        /\ (\A x \in flapped : read[x] = Linked(x)) \/ failures' = failures + 1
        /\ annotated' = [x \in flapped |->
              [j \in {j \in read[x] : ifm[j].present} |-> LagStatus(batch, j)]]
  BY <1>1
<1> HIDE DEF flapped
<1>3. i \in flapped
  BY <1>2
<1>4. annotated'[i] = [j \in {j \in read[i] : ifm[j].present} |-> LagStatus(batch, j)]
  BY <1>2, <1>3
<1>5. read[i] \subseteq Linked(i) /\ (read[i] = Linked(i) \/ failures' = failures + 1)
  BY <1>2, <1>3
<1>6. failures' = failures => read[i] = Linked(i)
  BY <1>5 DEF IInv, BoundsOK
<1>7. Linked(i) \subseteq Iface
  BY BundleAssumption DEF IInv, TablesOK, Linked
<1>8. ASSUME NEW j \in Iface, ifm[j].present
      PROVE  LagStatus(batch, j) = IF j \in DOMAIN batch
                                   THEN Or(batch[j].oper["up"], ifm'[j].oper["up"])
                                   ELSE ifm'[j].oper["up"]
  <2>1. ifm'[j] = IF j \in done THEN Reported(ifm[j], batch[j], upto[j]) ELSE ifm[j]
    BY <1>1
  <2>2. QED
    BY <1>8, <2>1, MemberShown
<1>9. QED
  BY <1>4, <1>5, <1>6, <1>7, <1>8 DEF EventTrue

LEMMA PollAnnotates ==
    ASSUME IInv, OneSample, PollReport, NEW s \in sample, NEW i \in DOMAIN annotated'
    PROVE  EventTrue(s.batch, i)
<1>1. PICK batch : batch = s.batch
  OBVIOUS
<1>2. ReportInterfaces(batch) /\ \A x \in DOMAIN batch : x \in Iface /\ batch[x] \in Report
  BY <1>1 DEF PollReport, OneSample, IInv, SampleOK
<1>3. CASE annotated' = NoEvents
  BY <1>3 DEF NoEvents
<1>4. ASSUME NEW done \in SUBSET DOMAIN batch, NEW upto, Apply(batch, done, upto)
      PROVE  EventTrue(batch, i)
  BY <1>2, <1>4, ApplyAnnotates
<1>5. CASE ReportAll(batch)
  <2>1. PICK done, upto : done \in SUBSET DOMAIN batch /\ Apply(batch, done, upto)
    BY <1>5 DEF ReportAll
  <2>2. QED
    BY <1>1, <1>4, <2>1
<1>6. CASE ReportPanics(batch)
  <2>1. PICK done, upto : done \in SUBSET DOMAIN batch /\ Apply(batch, done, upto)
    BY <1>6 DEF ReportPanics
  <2>2. QED
    BY <1>1, <1>4, <2>1
<1>7. QED
  BY <1>2, <1>3, <1>5, <1>6 DEF ReportInterfaces

\* report_interfaces, lag_link_statuses: a link event that a poll publishes names only ports
\* linked to the neighbor at that moment, all of them IMDS has unless a statement failed, and
\* tells of each what this poll found, or else the state IMDS shows once the batch is
\* applied, whatever reports are rejected, skipped or cut off by a panic.
THEOREM AnnotationsTrue == Spec => LagAnnotationTrue
<1>1. Init => OneSample
  BY DEF Init, OneSample
<1>2. IInv /\ OneSample /\ [Next]_vars =>
        [PollReport => \A s \in sample : \A i \in DOMAIN annotated' :
            LET members == {j \in Linked(i) : ifm[j].present} IN
            /\ DOMAIN annotated'[i] \subseteq members
            /\ failures' = failures => DOMAIN annotated'[i] = members
            /\ \A j \in DOMAIN annotated'[i] :
                  annotated'[i][j] = IF j \in DOMAIN s.batch
                                     THEN Or(s.batch[j].oper["up"], ifm'[j].oper["up"])
                                     ELSE ifm'[j].oper["up"]]_vars
  BY PollAnnotates DEF EventTrue
<1>3. QED
  BY Inductive, OneSampleKeeps, <1>1, <1>2, PTL DEF Spec, LagAnnotationTrue
=============================================================================
