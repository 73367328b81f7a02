SPECIFICATION FairSpec
CONSTANTS
 g1=g1
 ab=ab
 ba=ba
 v1=v1
 v2=v2
 a1=a1
 None=None
 GameOrder <- OneGame
 Edges <- MCEdges
 Reverse <- MCReverse
 Zones <- MCZones
 EventIds={v1,v2}
 AccidentIds={a1}
 MaxPenalty=1
INVARIANT ClosedHasCause
PROPERTIES OnlyEndsReopen RoadsReopen
