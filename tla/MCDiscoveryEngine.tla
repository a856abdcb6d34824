------------------------- MODULE MCDiscoveryEngine -------------------------
(***************************************************************************)
(* An instance of DiscoveryEngine for TLC.                                 *)
(***************************************************************************)
EXTENDS DiscoveryEngine

CONSTANTS d1, d2, d3, r1, c1

ThreeDevices == {d1, d2, d3}
OneRequest == {r1}
OneClient == {c1}

Unconfigured == [root |-> None, periodic |-> FALSE]
Configurations == {[root |-> d2, periodic |-> TRUE]}
RootOverrides == {None, d1}

\* d3 is announced by both others, and the announcements form a cycle.
Ring == {[d \in Dev |-> CASE d = d1 -> {d2, d3} [] d = d2 -> {d3} [] OTHER -> {d1}]}
=============================================================================
