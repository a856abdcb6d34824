------------------------- MODULE MCDiscoveryIngest -------------------------
(***************************************************************************)
(* Instances of DiscoveryIngest for TLC: two switches with two ports each. *)
(***************************************************************************)
EXTENDS DiscoveryIngest

CONSTANTS x, y, p1, p2

Switches == {x, y}
OnlyX == {x}
OnlyY == {y}
TwoPorts == {p1, p2}
Stable == {TRUE}
EitherMode == BOOLEAN

At(d, p) == [device |-> d, port |-> p]
Unlinked == [i \in Ifc |-> NoIfc]
Cable(i, j) == [k \in Ifc |-> IF k = i THEN j ELSE IF k = j THEN i ELSE NoIfc]
AllPorts == [d \in Device |-> Port]

\* One cable between the switches, then crossed over to other ports.
Straight == [up |-> Device, ports |-> AllPorts, sees |-> Cable(At(x, p1), At(y, p1))]
Crossed ==
    [up |-> Device, ports |-> AllPorts,
     sees |-> [i \in Ifc |-> IF i = At(x, p1) THEN At(y, p2) ELSE IF i = At(y, p2) THEN At(x, p1)
                             ELSE IF i = At(x, p2) THEN At(y, p1) ELSE At(x, p2)]]
\* A port cabled back to its own switch.
Loop == [up |-> Device, ports |-> AllPorts, sees |-> Cable(At(x, p1), At(x, p2))]
\* The line card of y is gone, and with it the neighbor.
NoCard == [up |-> Device, ports |-> [d \in Device |-> IF d = y THEN {p2} ELSE Port],
           sees |-> Unlinked]
\* y does not answer; x still hears its announcements.
Down == [Straight EXCEPT !.up = {x}]
\* The database knows y already.
KnowsY == [devices |-> {[id |-> 1, name |-> y]},
           interfaces |-> {[id |-> 1, dev |-> 1, name |-> p1, link |-> NoId],
                           [id |-> 2, dev |-> 1, name |-> p2, link |-> NoId]}]

AllNetworks == {Straight, Crossed, Loop, NoCard, Down}
OneNetwork == {Straight}
=============================================================================
