---------------------------- MODULE SnmpAdmission ----------------------------
(***************************************************************************)
(* The cap on SNMP requests in flight: a counting semaphore made of a      *)
(* permit count under a mutex and a condition variable.  Each action is    *)
(* one critical section; waiting gives the mutex up.  A condition variable *)
(* may wake a thread nobody notified, and a thread that just arrives may   *)
(* take the permit a notified one was woken for.                           *)
(***************************************************************************)
EXTENDS Naturals, FiniteSets

CONSTANTS
    Thread,  \* the threads of all collectors
    Limits   \* configured values of snmp_max_inflight; 0 means no limiter

ASSUME LimitAssumption == Limits \subseteq Nat
ASSUME ThreadAssumption == IsFiniteSet(Thread)

VARIABLES
    limit,    \* the configured value
    permits,  \* Semaphore.permits (unused without a limiter)
    pc        \* pc[t]: "out", "want" (in acquire, before the mutex), "asleep" on the
              \* condition variable, "awake" from it, or "in" the back end

admission == <<limit, permits, pc>>

In(s) == {t \in Thread : pc[t] = s}

AdmissionInit ==
    /\ limit \in Limits /\ permits = limit
    /\ pc = [t \in Thread |-> "out"]

\* table, object: admit is called before anything is sent.
Request(t) ==
    /\ pc[t] = "out"
    /\ pc' = [pc EXCEPT ![t] = "want"] /\ UNCHANGED <<limit, permits>>

\* Mutant: the count is tested once, before the first wait only.
PassesUnlooped(t) == permits > 0 \/ pc[t] = "awake"

\* The loop's condition, tested again after every wake-up.
Passes(t) == permits > 0

\* acquire: the count is positive (again), or there is no limiter at all.
Acquire(t) ==
    /\ pc[t] \in {"want", "awake"}
    /\ IF limit = 0 THEN permits' = permits
       ELSE Passes(t) /\ permits' = permits - 1
    /\ pc' = [pc EXCEPT ![t] = "in"] /\ UNCHANGED limit

Sleep(t) ==
    /\ pc[t] \in {"want", "awake"} /\ limit > 0 /\ ~Passes(t)
    /\ pc' = [pc EXCEPT ![t] = "asleep"] /\ UNCHANGED <<limit, permits>>

\* Condvar::wait may return without a notification.
SpuriousWake(t) ==
    /\ pc[t] = "asleep"
    /\ pc' = [pc EXCEPT ![t] = "awake"] /\ UNCHANGED <<limit, permits>>

\* Mutant: a permit that comes back is not announced.
NotifiedNone == {}

\* notify_one: the threads one of which is woken.
Notified == In("asleep")

\* The guard's drop, on return and on unwinding: release.
Release(t) ==
    /\ pc[t] = "in"
    /\ permits' = IF limit = 0 THEN permits ELSE permits + 1
    /\ \/ /\ limit = 0 \/ Notified = {}
          /\ pc' = [pc EXCEPT ![t] = "out"]
       \/ /\ limit > 0
          /\ \E s \in Notified : pc' = [pc EXCEPT ![t] = "out", ![s] = "awake"]
    /\ UNCHANGED limit

AdmissionStep(t) == Acquire(t) \/ Sleep(t)

AdmissionNext ==
    \E t \in Thread : Request(t) \/ AdmissionStep(t) \/ SpuriousWake(t) \/ Release(t)

AdmissionSpec == AdmissionInit /\ [][AdmissionNext]_admission

-----------------------------------------------------------------------------
AdmissionTypeOK ==
    /\ limit \in Limits /\ permits \in Nat
    /\ pc \in [Thread -> {"out", "want", "asleep", "awake", "in"}]

\* Every permit is either free or held by exactly one request in the back end, so
\* that no more than limit of them can be there.
PermitsConserved == limit > 0 => permits + Cardinality(In("in")) = limit

\* semaphore.rs (release): "One permit freed -> wake one waiter".  While threads
\* sleep, every free permit has a thread that is awake and about to look at it,
\* whoever barges in and however often a sleeper wakes by itself.
NoLostWakeup ==
    In("asleep") # {} => limit > 0 /\ permits <= Cardinality(In("awake"))

\* The promise of InflightPermits, for this state.
Permits == INSTANCE InflightPermits WITH
    wanting <- In("want") \cup In("asleep") \cup In("awake"),
    inside <- In("in")
=============================================================================
