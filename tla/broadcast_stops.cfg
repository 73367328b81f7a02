SPECIFICATION FairSpec
CONSTANTS
 g1=g1
 g2=g2
 w1=w1
 w2=w2
 w3=w3
 r1=r1
 None=None
 Scheduler=Scheduler
 Requests={r1}
 Sockets={w1,w2,w3}
 GameOrder <- MCGameOrder
 RoomOf <- MCRoomOf
PROPERTY BroadcastReachesAll
