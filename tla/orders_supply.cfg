SPECIFICATION OrderSpec
CONSTANTS
 p1=p1
 p2=p2
 s1=s1
 s2=s2
 s3=s3
 r1=r1
 r2=r2
 o1=o1
 o2=o2
 None=None
 Tick=Tick
 Players <- MCPlayers
 Stations <- MCStations
 OrderOwner <- MCOrderOwner
 Requests={r1,r2}
 Orders={o1,o2}
 OrderOps={"order","incident"}
 OrderVolumes={1,2}
 UnitPrices={1}
 DeliveryCosts={1}
 TruckCapacity=3
 PercentKept=70
 StartStock=4
 StartBalance=5
 StartLiters=1
 Capacity=3
SYMMETRY Symmetric
CHECK_DEADLOCK FALSE
INVARIANTS RoomReserved ReservedIsPending FuelAccounted OrdersPaid OrderSessionsConsistent
PROPERTY RefinesDepot
