--------------------------- MODULE MCReachability ---------------------------
(***************************************************************************)
(* Instances of Reachability for TLC.                                      *)
(***************************************************************************)
EXTENDS Reachability

CONSTANTS d1, w1

OneDevice == {d1}
OneWorker == {w1}

OneShard == [d \in Device |-> w1]
=============================================================================
