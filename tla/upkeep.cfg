SPECIFICATION UpkeepFairSpec
CONSTANTS
 p1=p1
 p2=p2
 s1=s1
 r1=r1
 r2=r2
 v1=v1
 v2=v2
 None=None
 Tick=Tick
 Players={p1,p2}
 Stations={s1}
 Requests={r1,r2}
 StartBalance=0
 StartLiters=1
 Capacity=1
 Types={"RATING"}
 BaseCost=0
 LevelCost=1
 Prices={1}
 Fine=1
 Ops <- TwoOps
 Admin=p1
 EventIds={v1,v2}
 MaxLevel=2
 MaxBalance=1
 MaxFailures=1
INVARIANTS UpkeepTypeOK EffectsAreBuilt ClosedStationHasEvent
PROPERTIES OnlyDueLevelsOpen NothingStaysDue
