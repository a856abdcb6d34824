--------------------------- MODULE InflightPermits ---------------------------
(***************************************************************************)
(* What the in-flight cap promises: at most `limit` requests are in the    *)
(* SNMP back end at a time (0: no cap), and no permit stays idle for good  *)
(* while somebody waits.  It does not promise that a given thread gets in: *)
(* the semaphore is neither a queue nor fair.                              *)
(***************************************************************************)
EXTENDS Naturals, FiniteSets

CONSTANT Thread

VARIABLES
    limit,    \* the configured cap
    wanting,  \* threads that asked for a permit
    inside    \* threads with a request in the back end

vars == <<limit, wanting, inside>>

Room == limit = 0 \/ Cardinality(inside) < limit

Init == limit \in Nat /\ wanting = {} /\ inside = {}

Want(t) ==
    /\ t \notin wanting \cup inside
    /\ wanting' = wanting \cup {t} /\ UNCHANGED <<limit, inside>>

Enter(t) ==
    /\ t \in wanting /\ Room
    /\ wanting' = wanting \ {t} /\ inside' = inside \cup {t} /\ UNCHANGED limit

Leave(t) ==
    /\ t \in inside
    /\ inside' = inside \ {t} /\ UNCHANGED <<limit, wanting>>

Next == \E t \in Thread : Want(t) \/ Enter(t) \/ Leave(t)

Safety == Init /\ [][Next]_vars

\* Weak fairness of letting somebody in, written out.
NoIdlePermit ==
    \/ []<>(wanting = {} \/ ~Room)
    \/ []<><<\E t \in Thread : Enter(t)>>_vars

Spec == Safety /\ NoIdlePermit
=============================================================================
