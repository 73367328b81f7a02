---------------------------- MODULE MCBroadcast ----------------------------
EXTENDS Broadcast, TLC
CONSTANTS g1, g2, w1, w2, w3, r1
MCGameOrder == <<g1, g2>>
MCRoomOf == w1 :> g1 @@ w2 :> g1 @@ w3 :> g1
=============================================================================
