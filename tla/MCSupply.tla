------------------------------ MODULE MCSupply ------------------------------
EXTENDS Supply, TLC
CONSTANTS p1, p2, s1, s2, r1, r2
MCPlayers == {p1, p2}
MCStations == {s1, s2}
MCOwner == (s1 :> p1) @@ (s2 :> p2)
=============================================================================
