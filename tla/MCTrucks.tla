------------------------------ MODULE MCTrucks ------------------------------
EXTENDS Trucks, TLC
CONSTANTS r, a, b, ra, ab, rb, ba, br, t1, t2
MCNodes == {r, a, b}
MCEdges == {ra, ab, rb, ba, br}
MCFrom == ra :> r @@ ab :> a @@ rb :> r @@ ba :> b @@ br :> b
MCTo == ra :> a @@ ab :> b @@ rb :> b @@ ba :> a @@ br :> r
MCFromE == [e \in MCEdges |-> MCFrom[e]]
MCToE == [e \in MCEdges |-> MCTo[e]]
MCMinutes == [e \in MCEdges |-> IF e = rb THEN 3 ELSE 1]
MCStraight == [n \in MCNodes |-> [m \in MCNodes |-> IF n = m THEN 0 ELSE 1]]
MCLength == [e \in MCEdges |-> IF e = rb THEN 5 ELSE 3]
MCSpeed == [e \in MCEdges |-> IF e = rb THEN 2 ELSE 4]
MCLightAt == [e \in MCEdges |-> IF MCToE[e] = a THEN a ELSE None]
=============================================================================
