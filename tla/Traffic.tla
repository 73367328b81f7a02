------------------------------ MODULE Traffic ------------------------------
(***************************************************************************)
(* One second of traffic (simulation/traffic.py, step_edge_occupants): the *)
(* movers of an edge are taken from the front, each keeps a gap to the one *)
(* before it, and the end of the edge is passed when the light is green    *)
(* and the next edge has room.  Distances are in units of the model.       *)
(* Emergency vehicles, which ignore all this and which no truck is, are    *)
(* left out.                                                               *)
(***************************************************************************)
EXTENDS Integers, FiniteSets

CONSTANTS
    Length,       \* edge lengths
    Speed,        \* what a mover advances on the edge in one tick, when free
    MoverLength,  \* length of a mover
    MinGap,       \* settings.traffic_min_gap_m
    LightAt,      \* the light at the edge's end node, or None
    None          \* no next edge, no mover ahead

ASSUME TrafficAssumption ==
    /\ Length \in [DOMAIN Length -> Nat \ {0}]
    /\ Speed \in [DOMAIN Length -> Nat]
    /\ MoverLength \in Nat
    /\ MinGap \in Nat \ {0}
    /\ None \notin Int

Smaller(a, b) == IF a < b THEN a ELSE b

Larger(a, b) == IF a < b THEN b ELSE a

\* The speed falls with the gap to the mover ahead.
TargetSpeed(m, ahead) ==
    LET free == Speed[m.edge]
        gap == ahead - MoverLength - m.pos
    IN  IF ahead = None THEN free
        ELSE IF gap <= 0 THEN 0
        ELSE Smaller(free, (free * gap) \div MinGap)

\* Fault: only the speed depends on the mover ahead, not how far a mover gets.
NotHeldBack(m, ahead, candidate) == candidate

\* A mover does not come closer to the one ahead than the gap, nor does it go back.
HeldBack(m, ahead, candidate) ==
    IF ahead = None THEN candidate
    ELSE Smaller(candidate, Larger(m.pos, ahead - MoverLength - MinGap))

Candidate(m, ahead) ==
    HeldBack(m, ahead, m.pos + TargetSpeed(m, ahead))

\* Where the last of the next edge's movers was when the tick began.
RoomAhead(movers, edge) ==
    \A k \in DOMAIN movers : movers[k].edge = edge => movers[k].pos >= MinGap

CanCross(movers, red, m) == LightAt[m.edge] \notin red /\ RoomAhead(movers, m.next)

\* The result for one mover, and where the one behind it sees it.
StepMover(movers, red, m, ahead) ==
    LET reach == Candidate(m, ahead)
        end == Length[m.edge]
        Stay(pos) == [edge |-> m.edge, pos |-> pos, crossed |-> FALSE, arrived |-> FALSE, seen |-> pos]
    IN  IF reach < end THEN Stay(reach)
        ELSE IF m.next = None THEN [Stay(end) EXCEPT !.arrived = TRUE]
        ELSE IF ~CanCross(movers, red, m) THEN Stay(Smaller(reach, end))
        ELSE [edge |-> m.next, pos |-> reach - end, crossed |-> TRUE, arrived |-> FALSE, seen |-> reach]

\* movers maps keys to where they are, and to their next edge.
\* The queue of an edge while it is worked off: who is left, and what is ahead of them.
\* Movers at the same place are taken in any order.
StepFront(movers, red, queue) ==
    LET front == CHOOSE k \in queue.left : \A l \in queue.left : movers[l].pos <= movers[k].pos
        result == StepMover(movers, red, movers[front], queue.ahead)
    IN  [left |-> queue.left \ {front}, ahead |-> result.seen,
         results |-> [k \in {front} \cup DOMAIN queue.results |->
                         IF k = front THEN result ELSE queue.results[k]]]

StepEdge(movers, red, edge) ==
    LET keys == {k \in DOMAIN movers : movers[k].edge = edge}
        after[i \in 0 .. Cardinality(keys)] ==
            IF i = 0 THEN [left |-> keys, ahead |-> None, results |-> <<>>]
            ELSE StepFront(movers, red, after[i - 1])
    IN  after[Cardinality(keys)].results

StepTraffic(movers, red) ==
    [k \in DOMAIN movers |-> StepEdge(movers, red, movers[k].edge)[k]]
=============================================================================
