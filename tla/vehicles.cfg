SPECIFICATION VehiclesFairSpec
CONSTANTS
 p1=p1
 p2=p2
 s1=s1
 r1=r1
 v1=v1
 v2=v2
 v3=v3
 None=None
 Tick=Tick
 Players={p1,p2}
 Stations={s1}
 Requests={r1}
 StartBalance=0
 StartLiters=1
 Capacity=1
 Cars={v1,v2,v3}
 MaxActive=2
 MaxQueue=1
 Needs={1}
 Budgets={1}
 PerLiter=2
 Prices={3,5}
 Extras={0}
 MaxCredit=2
 MaxMoney=1
 MaxFailures=1
INVARIANTS VehiclesTypeOK QueueCountsCars SalesAreCovered
PROPERTIES OwnerIsPaid QueuesMove
