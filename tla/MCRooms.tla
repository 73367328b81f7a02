------------------------------ MODULE MCRooms ------------------------------
EXTENDS Rooms, TLC
CONSTANTS u1, u2, r1, r2, i1, i2
Symmetric == Permutations({u1, u2}) \cup Permutations({r1, r2}) \cup Permutations({i1, i2})
=============================================================================
