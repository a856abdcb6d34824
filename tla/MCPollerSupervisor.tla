------------------------- MODULE MCPollerSupervisor -------------------------
(***************************************************************************)
(* Instances of PollerSupervisor for TLC.                                  *)
(***************************************************************************)
EXTENDS PollerSupervisor

CONSTANTS d1, t1, t2, t3

OneDevice == {d1}
ThreeThreads == {t1, t2, t3}
=============================================================================
