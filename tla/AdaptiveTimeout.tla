-------------------------- MODULE AdaptiveTimeout --------------------------
(***************************************************************************)
(* The embedded SNMP client as one device sees it: the latency record that *)
(* all collectors' threads share (adapt, behind its own mutex), the socket *)
(* each thread keeps between queries (run_on_cached_session), and the row  *)
(* from which the record is seeded at start and to which it is flushed.    *)
(*                                                                         *)
(* Time is counted in coarse units, and the weighted mean of the round     *)
(* trips moves in steps of one unit.  consec_timeouts is only displayed    *)
(* and left out, as is the mode without adaptation.  The library's sockets *)
(* are external: an answer that comes after its attempt has expired stays  *)
(* in the socket's buffer.                                                 *)
(***************************************************************************)
EXTENDS Naturals

CONSTANTS
    Collector,             \* threads of collectors that query the device
    Rtt,                   \* round trips the device may show
    Base, Ceiling,         \* base_ms, max_ms
    Factor, Margin,        \* factor, margin_ms
    BackoffAdd,            \* backoff_add_ms (backoff is 1.5)
    DeadStreak,            \* dead_streak
    Retries,               \* JASPY_SNMP_RETRIES
    MaxChanges, MaxFaults  \* bounds

ASSUME TimeoutAssumption ==
    /\ Base \in Nat \ {0} /\ Ceiling \in Nat /\ Base <= Ceiling
    /\ Rtt \subseteq 1..Ceiling
    /\ {Factor, BackoffAdd, DeadStreak} \subseteq Nat \ {0}
    /\ {Margin, Retries, MaxChanges, MaxFaults} \subseteq Nat

VARIABLES
    rtt,      \* the device: its round trip now, or Never
    lat,      \* DeviceState, shared
    listed,   \* the registry has the device: a query or a row has put it there
    sock,     \* sock[t]: the thread's cached session, or NoSocket
    query,    \* query[t]: with_session under way, or NoQuery
    db, last, \* the device's row; the key the flush thread wrote last, or NoRow
    silent,   \* history: timeouts recorded since an answer was, up to DeadStreak
    changes, faults  \* spent bounds

sessionVars == <<rtt, lat, listed, sock, query, db, last, silent, changes, faults>>

Never == Ceiling + 1
NoMean == 0
NoSocket == [timeout |-> 0]
NoQuery == [pc |-> "idle"]
NoRow == [eff |-> 0]

-----------------------------------------------------------------------------
(* adapt.                                                                  *)

DeviceState ==
    [ewma : 0..Ceiling, eff : Base..Ceiling, atMax : 0..DeadStreak, dead : BOOLEAN]

NewState == [ewma |-> NoMean, eff |-> Base, atMax |-> 0, dead |-> FALSE]

Clamp(x) == IF x < Base THEN Base ELSE IF x > Ceiling THEN Ceiling ELSE x

\* alpha * rtt + (1 - alpha) * ewma: the mean moves towards the new value.
Mean(ewma, r) ==
    CASE ewma = NoMean -> r
      [] ewma = r -> r
      [] ewma < r -> ewma + 1
      [] OTHER    -> ewma - 1

Target(ewma) == Clamp(Factor * ewma + Margin)

\* Mutant: an answer does not end the streak of timeouts at the ceiling.
AnsweredNoReset(s, r) ==
    [s EXCEPT !.ewma = Mean(@, r), !.eff = Target(Mean(s.ewma, r)), !.dead = FALSE]

\* Mutant: an answer leaves a dead device dead.
AnsweredStillDead(s, r) ==
    [s EXCEPT !.ewma = Mean(@, r), !.eff = Target(Mean(s.ewma, r)), !.atMax = 0]

\* Sample::Ok.
Answered(s, r) ==
    [ewma |-> Mean(s.ewma, r), eff |-> Target(Mean(s.ewma, r)), atMax |-> 0, dead |-> FALSE]

\* Sample::Timeout.
TimedOut(s) ==
    CASE s.dead -> [s EXCEPT !.eff = Base]
      [] ~s.dead /\ s.eff < Ceiling ->
            [s EXCEPT !.eff = Clamp((3 * @) \div 2 + BackoffAdd)]
      [] OTHER ->
            LET n == s.atMax + 1 IN
            IF n >= DeadStreak THEN [s EXCEPT !.atMax = n, !.dead = TRUE, !.eff = Base]
                               ELSE [s EXCEPT !.atMax = n]

EffectiveRetries(s) == IF s.dead THEN 0 ELSE Retries

\* DeviceLatency::seed.
Seeded(row) ==
    IF row = NoRow THEN NewState
    ELSE [ewma |-> row.ewma, eff |-> Clamp(row.eff), dead |-> row.dead,
          atMax |-> IF row.dead THEN DeadStreak ELSE 0]

RecordAnswer(r) == lat' = Answered(lat, r) /\ silent' = 0
RecordTimeout ==
    /\ lat' = TimedOut(lat)
    /\ silent' = IF silent < DeadStreak THEN silent + 1 ELSE silent

SessionInit ==
    /\ rtt \in Rtt \cup {Never}
    /\ lat = NewState /\ listed = FALSE /\ db = NoRow /\ last = NoRow
    /\ sock = [t \in Collector |-> NoSocket]
    /\ query = [t \in Collector |-> NoQuery]
    /\ silent = 0 /\ changes = 0 /\ faults = 0

-----------------------------------------------------------------------------
(* The device and the network.                                             *)

ChangeDevice ==
    /\ changes < MaxChanges /\ changes' = changes + 1
    /\ \E r \in (Rtt \cup {Never}) \ {rtt} : rtt' = r
    /\ UNCHANGED <<lat, listed, sock, query, db, last, silent, faults>>

Fault == faults < MaxFaults /\ faults' = faults + 1

-----------------------------------------------------------------------------
(* with_session and run_on_cached_session: one query of a thread.          *)

Opened(timeout, retries) == [timeout |-> timeout, retries |-> retries, stale |-> FALSE]

\* open_params; a cached socket with a smaller timeout is opened anew, a larger one
\* (and the retries it was opened with) is kept.
Kept(s) == s # NoSocket /\ s.timeout >= lat.eff

Begin(t) ==
    /\ query[t] = NoQuery
    /\ LET s == IF Kept(sock[t]) THEN sock[t] ELSE Opened(lat.eff, EffectiveRetries(lat)) IN
       /\ sock' = [sock EXCEPT ![t] = s]
       /\ query' = [query EXCEPT ![t] =
             [pc |-> "ask", eff |-> lat.eff, retries |-> EffectiveRetries(lat),
              left |-> s.retries, late |-> FALSE, again |-> FALSE, missed |-> FALSE]]
    /\ listed' = TRUE
    /\ UNCHANGED <<rtt, lat, db, last, silent, changes, faults>>

Asks(t) == query[t].pc = "ask"

\* This attempt's own answer comes in time ...
Answer(t) ==
    /\ Asks(t) /\ rtt <= sock[t].timeout
    /\ RecordAnswer(rtt)
    /\ query' = [query EXCEPT ![t].pc = "answered"]
    /\ UNCHANGED <<rtt, listed, sock, db, last, changes, faults>>

\* ... or a retry, which repeats the request id, is handed an earlier attempt's answer.
LateAnswer(t) ==
    /\ Asks(t) /\ query[t].late
    /\ \E r \in 1..sock[t].timeout : RecordAnswer(r)
    /\ query' = [query EXCEPT ![t].pc = "answered"]
    /\ UNCHANGED <<rtt, listed, sock, db, last, changes, faults>>

\* Mutant: a desynchronised session is dropped without another try.
TriesAgainNever(t) == FALSE

\* session_desynced: the query runs once more, on a clean socket.
TriesAgain(t) == ~query[t].again

Failed(t, q) ==
    /\ query' = [query EXCEPT ![t] = [q EXCEPT !.pc = "failed"]]
    /\ sock' = [sock EXCEPT ![t] = NoSocket]

\* RequestIdMismatch: an older answer was in the buffer.  No sample.
Mismatch(t) ==
    /\ Asks(t) /\ sock[t].stale
    /\ IF TriesAgain(t)
       THEN LET q == query[t] IN
            /\ sock' = [sock EXCEPT ![t] = Opened(q.eff, q.retries)]
            /\ query' = [query EXCEPT ![t] = 
                   [q EXCEPT !.left = q.retries, !.late = FALSE, !.again = TRUE]]
       ELSE Failed(t, query[t])
    /\ UNCHANGED <<rtt, lat, listed, db, last, silent, changes, faults>>

\* Receive: nothing within the timeout.  The answer may still come, to this socket.
Expire(t) ==
    LET late == rtt \in Rtt
        q == [query[t] EXCEPT !.missed = TRUE] IN
    /\ Asks(t)
    /\ \/ rtt > sock[t].timeout /\ UNCHANGED faults
       \/ rtt <= sock[t].timeout /\ Fault
    /\ IF q.left > 0
       THEN /\ query' = [query EXCEPT ![t] = [q EXCEPT !.left = @ - 1, !.late = @ \/ late]]
            /\ UNCHANGED <<sock, lat, silent>>
       ELSE Failed(t, q) /\ RecordTimeout
    /\ UNCHANGED <<rtt, listed, db, last, changes>>

\* Any other error of the request: no sample.
Refuse(t) ==
    LET q == [query[t] EXCEPT !.missed = TRUE] IN
    /\ Asks(t) /\ Fault
    /\ IF q.left > 0
       THEN query' = [query EXCEPT ![t] = [q EXCEPT !.left = @ - 1]] /\ UNCHANGED sock
       ELSE Failed(t, q)
    /\ UNCHANGED <<rtt, lat, listed, db, last, silent, changes>>

\* Answers to the attempts that expired stay in the socket.
LeavesBehind(t) ==
    sock' = IF query[t].late THEN [sock EXCEPT ![t].stale = TRUE] ELSE sock

\* The walk of the table goes on over the same socket ...
NextRequest(t) ==
    /\ query[t].pc = "answered"
    /\ query' = [query EXCEPT ![t].pc = "ask", ![t].left = sock[t].retries, ![t].late = FALSE]
    /\ LeavesBehind(t)
    /\ UNCHANGED <<rtt, lat, listed, db, last, silent, changes, faults>>

\* ... or ends, or the query has failed.
EndQuery(t) ==
    /\ \/ query[t].pc = "answered" /\ LeavesBehind(t)
       \/ query[t].pc = "failed" /\ UNCHANGED sock
    /\ query' = [query EXCEPT ![t] = NoQuery]
    /\ UNCHANGED <<rtt, lat, listed, db, last, silent, changes, faults>>

ThreadStep(t) ==
    \/ Begin(t) \/ Answer(t) \/ LateAnswer(t) \/ Mismatch(t) \/ Expire(t) \/ Refuse(t)
    \/ NextRequest(t) \/ EndQuery(t)

-----------------------------------------------------------------------------
(* Persistence.                                                            *)

\* dirty_key.
Key(s) == [eff |-> s.eff, dead |-> s.dead]
Row(s) == [ewma |-> s.ewma, eff |-> s.eff, dead |-> s.dead]

\* Mutant: the key is remembered although the write failed.
WrittenAnyway(row, ok) == last' = Key(row)

\* The key is remembered once the row is written.
Written(row, ok) == last' = IF ok THEN Key(row) ELSE last

\* flush_snmp_state: a changed key is written, if the database lets it.
Flush ==
    /\ listed /\ Key(lat) # last
    /\ \/ db' = Row(lat) /\ Written(Row(lat), TRUE) /\ UNCHANGED faults
       \/ Fault /\ Written(Row(lat), FALSE) /\ UNCHANGED db
    /\ UNCHANGED <<rtt, lat, listed, sock, query, silent, changes>>

\* The process stops at any moment and starts again, seeding from the rows if it can
\* read them.
Restart ==
    /\ Fault
    /\ \/ lat' = Seeded(db) /\ listed' = (db # NoRow)
       \/ lat' = NewState /\ listed' = FALSE
    /\ sock' = [t \in Collector |-> NoSocket]
    /\ query' = [t \in Collector |-> NoQuery]
    /\ last' = NoRow /\ silent' = 0
    /\ UNCHANGED <<rtt, db, changes>>

-----------------------------------------------------------------------------
SessionNext ==
    \/ ChangeDevice \/ Flush \/ Restart
    \/ \E t \in Collector : ThreadStep(t)

SessionSpec == SessionInit /\ [][SessionNext]_sessionVars

\* The collectors and the flush thread keep running, a database that can be written
\* again and again is, and a walk ends: a table has finitely many rows.
FairSessionSpec ==
    /\ SessionSpec /\ WF_sessionVars(Flush)
    /\ \A t \in Collector : WF_sessionVars(ThreadStep(t)) /\ SF_sessionVars(EndQuery(t))

-----------------------------------------------------------------------------
(* Properties.                                                             *)

SessionTypeOK ==
    /\ rtt \in Rtt \cup {Never} /\ lat \in DeviceState /\ listed \in BOOLEAN
    /\ sock \in [Collector ->
          {NoSocket} \cup [timeout : Base..Ceiling, retries : {0, Retries}, stale : BOOLEAN]]
    /\ query \in [Collector ->
          {NoQuery} \cup [pc : {"ask", "answered", "failed"}, eff : Base..Ceiling,
                         retries : {0, Retries}, left : 0..Retries, late : BOOLEAN,
                         again : BOOLEAN, missed : BOOLEAN]]
    /\ db \in {NoRow} \cup [ewma : 0..Ceiling, eff : Base..Ceiling, dead : BOOLEAN]
    /\ last \in {NoRow} \cup [eff : Base..Ceiling, dead : BOOLEAN]
    /\ silent \in 0..DeadStreak

\* run_on_cached_session: "Poisoned socket: reopen clean and retry once so this cycle
\* still gets data".  A query fails only if the device left one of its own attempts
\* unanswered, or refused it: never because of what earlier queries left in the socket.
FailedOnlyIfMissed == \A t \in Collector : query[t].pc = "failed" => query[t].missed

\* adapt: a device is declared dead only when its last DeadStreak samples, of whatever
\* threads and however their queries overlapped, were timeouts.
DeadIsSilent == [][~lat.dead /\ lat'.dead /\ silent' # 0 => silent' = DeadStreak]_lat

\* adapt: dead "until any success clears it".  A device that keeps answering within the
\* floor ends up with the timeout of its round trip, whatever it was taken for before,
\* queries that were under way record late, and a restart brings back.
Recovers ==
    \A r \in Rtt : r <= Base =>
        (<>[](rtt = r) => <>[](~lat.dead /\ lat.eff = Target(r)))

\* flush_snmp_state: what has been learned and stays so ends up in the row, whatever
\* writes fail, although a key that was written is not written again.
FlushCatchesUp ==
    \A k \in [eff : Base..Ceiling, dead : BOOLEAN] :
        <>[](Key(lat) = k) => <>[](db # NoRow /\ Key(db) = k)

\* adapt: dead only after timeouts at the ceiling, "so a still-ramping slow switch is
\* never mistaken for dead".
SlowNeverDead == rtt \in Rtt /\ changes + faults = 0 => ~lat.dead

\* main.rs: "slow (high-CPU) switches whose replies exceed snmp_timeout_ms still get
\* polled".
SlowRecovers == (<>[](rtt \in Rtt)) => []<>~lat.dead
=============================================================================
