---------------------------- MODULE MCLiveSocket ----------------------------
(***************************************************************************)
(* Instances of LiveSocket for TLC.                                        *)
(***************************************************************************)
EXTENDS LiveSocket

CONSTANTS s1, s2, s3, s4, t1, t2

FourSockets == {s1, s2, s3, s4}
TwoTopics == {t1, t2}
=============================================================================
