SPECIFICATION Spec
CONSTANTS
 p1=p1
 p2=p2
 s1=s1
 s2=s2
 r1=r1
 r2=r2
 o1=o1
 o2=o2
 None=None
 Tick=Tick
 Players <- MCPlayers
 Stations <- MCStations
 StartOwner <- MCBothOwned
 Requests={r1,r2}
 Offers={o1,o2}
 Ops={"create","accept","counter","cancel"}
 Prices={1}
 Kinds={"fuel"}
 Volumes={2,3}
 StationPrice=1
 StartBalance=1
 StartLiters=3
 Capacity=5
SYMMETRY SymmetricOwned
INVARIANT TanksWithinCapacity
PROPERTY RefinesMarket
CHECK_DEADLOCK FALSE
