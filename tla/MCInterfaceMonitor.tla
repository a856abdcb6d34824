------------------------- MODULE MCInterfaceMonitor -------------------------
(***************************************************************************)
(* Instances of InterfaceMonitor for TLC.                                  *)
(***************************************************************************)
EXTENDS InterfaceMonitor

CONSTANTS i1, i2, m1, m2

TwoIfaces == {i1, i2}
TwoMacs == {m1, m2}
LinkOnly == {"up"}

\* One interface counts; of the other only the link state matters.
OneCounts == [i \in TwoIfaces |-> IF i = i1 THEN 2 ELSE 0]
=============================================================================
