---------------------------- MODULE MCVlanPoller ----------------------------
(***************************************************************************)
(* Instances of VlanPoller for TLC.                                        *)
(***************************************************************************)
EXTENDS VlanPoller

CONSTANTS d1, d2, k1, k2, o1

TwoDevices == {d1, d2}
TwoWorkers == {k1, k2}
WorkersAndOther == {k1, k2, o1}
NoCapOrOne == {0, 1}
=============================================================================
