SPECIFICATION Spec
CONSTANTS
 p1=p1
 p2=p2
 s1=s1
 s2=s2
 r1=r1
 r2=r2
 o1=o1
 o2=o2
 None=None
 Tick=Tick
 Players <- MCPlayers
 Stations <- MCStations
 StartOwner <- MCStartOwner
 Requests={r1,r2}
 Offers={o1,o2}
 Ops={"purchase","create","accept"}
 Prices={1}
 Kinds={"station"}
 Volumes={1}
 StationPrice=1
 StartBalance=2
 StartLiters=1
 Capacity=2
INVARIANTS LedgerExplainsBalance
CHECK_DEADLOCK FALSE
