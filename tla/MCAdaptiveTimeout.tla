------------------------- MODULE MCAdaptiveTimeout -------------------------
(***************************************************************************)
(* Instances of AdaptiveTimeout for TLC.                                   *)
(***************************************************************************)
EXTENDS AdaptiveTimeout

CONSTANTS t1, t2

TwoThreads == {t1, t2}
FastAndSlow == {1, 2}
=============================================================================
