SPECIFICATION FairSpec
CONSTANTS
 r=r
 a=a
 b=b
 ra=ra
 ab=ab
 rb=rb
 ba=ba
 br=br
 t1=t1
 t2=t2
 None=None
 NoRoute=NoRoute
 Nodes <- MCNodes
 Edges <- MCEdges
 From <- MCFromE
 To <- MCToE
 Minutes <- MCMinutes
 Straight <- MCStraight
 Length <- MCLength
 Speed <- MCSpeed
 LightAt <- MCLightAt
 MoverLength=1
 MinGap=2
 TruckIds={t1,t2}
 Refinery=r
 Stations={r,b}
 MaxClosed=2
 ShortEdges={rb}
INVARIANTS StopsAreOnRoute RoutesAreFastest
PROPERTIES NoOvertaking DetoursAreTaken TrucksArrive
