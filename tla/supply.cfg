SPECIFICATION FairSpec
CONSTANTS
 p1=p1
 p2=p2
 s1=s1
 s2=s2
 r1=r1
 r2=r2
 None=None
 Tick=Tick
 Players <- MCPlayers
 Stations <- MCStations
 StartOwner <- MCOwner
 OrderOwner <- MCOwner
 Requests={r1,r2}
 Offers={o1}
 Ops={"create","accept","reject","cancel"}
 Kinds={"fuel"}
 Prices={1}
 Volumes={1}
 StationPrice=1
 Orders={w1}
 OrderOps={"order"}
 OrderVolumes={1}
 UnitPrices={1}
 DeliveryCosts={0}
 TruckCapacity=1
 PercentKept=70
 StartStock=1
 StartBalance=1
 StartLiters=1
 Capacity=2
CHECK_DEADLOCK FALSE
INVARIANT NothingOverdrawn
PROPERTY DueOffersClose
