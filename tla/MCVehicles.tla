----------------------------- MODULE MCVehicles -----------------------------
EXTENDS Vehicles, TLC
CONSTANTS p1, p2, s1, r1, v1, v2, v3
=============================================================================
