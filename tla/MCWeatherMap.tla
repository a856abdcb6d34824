---------------------------- MODULE MCWeatherMap ----------------------------
(***************************************************************************)
(* Instances of WeatherMap for TLC.                                        *)
(***************************************************************************)
EXTENDS WeatherMap

CONSTANTS a, b, p, q

TwoDevices == {a, b}
TwoPorts == {p, q}

\* a's port p, or q, is cabled to b's port p; or b is not there.
Cabled(port) ==
    [d \in {a, b} |-> [x \in TwoPorts |->
        IF d = a /\ x = port THEN <<b, p>> ELSE IF d = b /\ x = p THEN <<a, port>> ELSE None]]
Alone == [d \in {a} |-> [x \in TwoPorts |-> None]]

OnlyB == {b}

ComesAndGoes == {Cabled(p), Alone}
=============================================================================
