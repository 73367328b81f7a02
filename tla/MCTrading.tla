----------------------------- MODULE MCTrading -----------------------------
EXTENDS Trading, TLC
CONSTANTS p1, p2, s1, s2, r1, r2, o1, o2
MCPlayers == {p1, p2}
MCStations == {s1, s2}
MCStartOwner == (s1 :> p1) @@ (s2 :> None)
MCBothOwned == (s1 :> p1) @@ (s2 :> p2)
Symmetric == Permutations(Requests) \cup Permutations(Offers)
\* When both stations are owned, each player with its station is like the other.
SymmetricOwned ==
    Symmetric \cup {(p1 :> p2) @@ (p2 :> p1) @@ (s1 :> s2) @@ (s2 :> s1)}
=============================================================================
