------------------------------ MODULE MCRoads ------------------------------
EXTENDS Roads, TLC
CONSTANTS g1, ab, ba, v1, v2, a1
OneGame == <<g1>>
MCEdges == {ab, ba}
MCReverse == (ab :> ba) @@ (ba :> ab)
MCZones == {{ba}}
=============================================================================
