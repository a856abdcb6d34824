----------------------------- MODULE Hysteresis -----------------------------
(***************************************************************************)
(* The pure reachability filter of the pinger: PingAccountingInfo and      *)
(* advance_hysteresis of nexus/src/collectors/pinger.rs.  A device that    *)
(* was never observed takes the first observation as its state; a known    *)
(* device changes state only after HystLimit contrary observations in a    *)
(* row (PING_HYST_LIMIT, 10 in the code).                                  *)
(***************************************************************************)
EXTENDS Naturals

CONSTANT HystLimit

ASSUME HystLimitAssumption == HystLimit \in Nat \ {0}

\* Option<bool>: "none" is None, "up" Some(true), "down" Some(false).
Seen == {"up", "down"}
OptSeen == Seen \cup {"none"}

PingAccountingInfo ==
    [responsive : OptSeen, hysUp : 0..HystLimit, hysDown : 0..HystLimit]

\* What reconcile_accounting inserts for a device it did not track yet.
NewAccounting(initialUp) == [responsive |-> initialUp, hysUp |-> 0, hysDown |-> 0]

\* saturating_add(1) on the u8 counter: a counter stops at the limit because the
\* step that reaches it flips the state.
Bump(n) == IF n < HystLimit THEN n + 1 ELSE n

\* Mutant: an agreeing observation does not end the contrary streak.
AdvanceInfoNoReset(info, seen) ==
    IF info.responsive = "none" THEN [info EXCEPT !.responsive = seen]
    ELSE IF info.responsive = seen THEN info
    ELSE IF seen = "up"
         THEN [responsive |-> IF Bump(info.hysUp) >= HystLimit THEN "up" ELSE "down",
               hysUp |-> Bump(info.hysUp), hysDown |-> 0]
         ELSE [responsive |-> IF Bump(info.hysDown) >= HystLimit THEN "down" ELSE "up",
               hysUp |-> 0, hysDown |-> Bump(info.hysDown)]

\* Mutant: a contrary observation clears both counters before it is counted.
AdvanceInfoNeverFlips(info, seen) ==
    IF info.responsive = "none" THEN [info EXCEPT !.responsive = seen]
    ELSE IF info.responsive = seen THEN [info EXCEPT !.hysUp = 0, !.hysDown = 0]
    ELSE [info EXCEPT !.hysUp = IF seen = "up" THEN 1 ELSE 0,
                      !.hysDown = IF seen = "down" THEN 1 ELSE 0]

\* The accounting after one observation.
AdvanceInfo(info, seen) ==
    IF info.responsive = "none" THEN [info EXCEPT !.responsive = seen]
    ELSE IF info.responsive = seen THEN [info EXCEPT !.hysUp = 0, !.hysDown = 0]
    ELSE IF seen = "up"
         THEN [responsive |-> IF Bump(info.hysUp) >= HystLimit THEN "up" ELSE "down",
               hysUp |-> Bump(info.hysUp), hysDown |-> 0]
         ELSE [responsive |-> IF Bump(info.hysDown) >= HystLimit THEN "down" ELSE "up",
               hysUp |-> 0, hysDown |-> Bump(info.hysDown)]

\* advance_hysteresis returns Some(seen) exactly when the state it keeps changes.
Reports(info, seen) == AdvanceInfo(info, seen).responsive # info.responsive
=============================================================================
