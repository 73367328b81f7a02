------------------------------ MODULE MCUpkeep ------------------------------
EXTENDS Upkeep, TLC
CONSTANTS p1, p2, s1, r1, r2, v1, v2
\* One player upgrades while the admin triggers events.
TwoOps == (r1 :> {"upgrade"}) @@ (r2 :> {"event"})
=============================================================================
