-------------------------- MODULE MCIssueTracking --------------------------
(***************************************************************************)
(* Instances of IssueTracking for TLC.                                     *)
(***************************************************************************)
EXTENDS IssueTracking

CONSTANTS k1, c1

OneKey == {k1}
OneClient == {c1}
=============================================================================
