---------------------------- MODULE MCFuelOrders ----------------------------
EXTENDS FuelOrders, TLC
CONSTANTS p1, p2, s1, s2, s3, r1, r2, o1, o2
MCPlayers == {p1, p2}
MCStations == {s1, s2, s3}
MCOrderOwner == [s \in MCStations |-> IF s = s3 THEN p2 ELSE p1]
Symmetric == Permutations(Requests) \cup Permutations(Orders)
=============================================================================
