------------------------------- MODULE Trucks -------------------------------
(***************************************************************************)
(* The trucks of a game on the road: the route that create_fuel_order      *)
(* (services/fuel_order_service.py) gives a truck, and the tick            *)
(* update_trucks_for_game (simulation/trucks.py), which sends trucks       *)
(* around closed roads, moves them, and delivers at the stops they have    *)
(* reached.  What a delivery does to tanks and money is in FuelOrders, who *)
(* closes roads is in Roads.                                               *)
(*                                                                         *)
(* The tick is one transaction that alone writes the rows of trucks that   *)
(* are on the road, so it moves them in one step, its commit.  Before that *)
(* it looks at each truck's way and searches for detours, and each time    *)
(* reads the roads without a lock: requests close roads in between.        *)
(***************************************************************************)
EXTENDS Routing, Traffic

CONSTANTS
    TruckIds,    \* trucks rows, one for each fuel order: bounds how many
    Refinery,    \* the node nearest to the refinery
    Stations,    \* the nodes nearest to the stations that may be ordered for
    MaxClosed,   \* bounds how many roads are closed at once
    ShortEdges   \* edges whose length in meters, computed back, is below distance_km

\* A length is odd, so that no truck is ever halfway between two nodes.
ASSUME TrucksAssumption ==
    /\ IsFiniteSet(TruckIds)
    /\ None \notin TruckIds \cup Edges
    /\ DOMAIN Length = Edges
    /\ \A e \in Edges : Length[e] % 2 = 1
    /\ Refinery \in Nodes
    /\ Stations \subseteq Nodes
    /\ MaxClosed \in Nat
    /\ ShortEdges \subseteq Edges

VARIABLES
    closed,  \* edges whose is_closed is set
    trucks,  \* trucks rows, each with the stops of its order
    tick     \* the open session of update_trucks_for_game, or None

vars == <<closed, trucks, tick>>

Open == Edges \ closed

-----------------------------------------------------------------------------
(* Where a truck is.  Edge route_edge_index of its route is current_edge_id *)
(* and leads to point route_edge_index; stop_entry["position"] is the      *)
(* place of a stop in the order the stops are visited, from 1.             *)

OnEdge(k) == k.idx <= Len(k.route)

Edge(k) == k.route[k.idx]

Traveled(k) == Cumulative(Length, k.route)[k.idx - 1] + k.pos

\* Fault: a stop counts as reached when the truck is on the edge behind it.
ReachedByIndex(k, p) == k.stops[p] < k.idx

\* At the very end of an edge the traveled distance may be rounded down.
Reached(k, p) ==
    LET point == k.stops[p]
    IN  /\ Cumulative(Length, k.route)[point] <= Traveled(k)
        /\ ~(point = k.idx /\ OnEdge(k) /\ Edge(k) \in ShortEdges)

NodeAt(k, point) == IF point = 0 THEN k.start ELSE To[k.route[point]]

-----------------------------------------------------------------------------
(* create_fuel_order, as far as it routes the truck.                       *)

NewTruck(order, chain) ==
    [status |-> "EN_ROUTE", order |-> order, start |-> Refinery, route |-> chain.edges,
     stops |-> [p \in DOMAIN order |-> chain.points[p]],
     idx |-> 1, pos |-> 0, pending |-> DOMAIN order]

Orders(open) == {GreedyOrder(open, Refinery, wanted) : wanted \in (SUBSET Stations) \ {{}}} \ {NoRoute}

\* The graph is read some statements before the commit: roads may have been closed
\* and reopened since.
NewTrucks ==
    UNION {{NewTruck(order, ChainLegs(open, Refinery, order)) : order \in Orders(open)} :
           open \in {o \in SUBSET Edges : Cardinality(Edges \ o) <= MaxClosed}}

CreateFuelOrder(t) ==
    /\ trucks[t] = None
    /\ \E k \in NewTrucks : trucks' = [trucks EXCEPT ![t] = k]
    /\ UNCHANGED <<closed, tick>>

\* The road that k takes next.
NextEdge(k) == IF k.idx < Len(k.route) THEN k.route[k.idx + 1] ELSE None

\* A request may close a road at any time; late keeps track of the trucks that the
\* open tick has looked at, too early to see that their next road is closed.
CloseRoad(e) ==
    /\ e \notin closed
    /\ Cardinality(closed) < MaxClosed
    /\ closed' = closed \cup {e}
    /\ tick' = IF tick = None THEN None
               ELSE [tick EXCEPT !.late = @ \cup {t \in tick.moving : NextEdge(trucks[t]) = e}]
    /\ UNCHANGED trucks

\* Closures end in other steps of the scheduler.
ReopenRoad(e) ==
    /\ tick = None
    /\ e \in closed
    /\ closed' = closed \ {e}
    /\ UNCHANGED <<trucks, tick>>

-----------------------------------------------------------------------------
(* update_trucks_for_game, first loop: around closed roads.                *)

\* Fault: the road is checked no further than the truck's own edge.
ClosedHere(k) == OnEdge(k) /\ Edge(k) \in closed

ClosedAhead(k) == \E i \in k.idx .. Len(k.route) : k.route[i] \in closed

\* The positions not reached, in their order.
Remaining(k) ==
    LET from[p \in 0 .. Len(k.order)] ==
            IF p = 0 THEN <<>>
            ELSE IF p \in DOMAIN k.stops /\ ~Reached(k, p) THEN Append(from[p - 1], p)
            ELSE from[p - 1]
    IN  from[Len(k.order)]

\* find_nearest_node, for nodes that are far enough apart.
NearestNode(k) == IF 2 * k.pos < Length[Edge(k)] THEN From[Edge(k)] ELSE To[Edge(k)]

Detour(k) == ChainLegs(Open, NearestNode(k), [i \in DOMAIN Remaining(k) |-> k.order[Remaining(k)[i]]])

\* Fault: the new points are given to the stops from the first one on.
StopsFromFirst(k) == [p \in DOMAIN Detour(k).points |-> Detour(k).points[p]]

StopsOfDetour(k) ==
    [p \in Range(Remaining(k)) |-> Detour(k).points[CHOOSE i \in DOMAIN Remaining(k) : Remaining(k)[i] = p]]

Rerouted(k) ==
    [k EXCEPT !.start = NearestNode(k), !.route = Detour(k).edges,
              !.stops = StopsOfDetour(k), !.idx = 1, !.pos = 0]

EnRoute(t) == trucks[t] # None /\ trucks[t].status = "EN_ROUTE"

\* left are the trucks to look at, detouring the one that a detour is searched for.
TickBegin ==
    /\ tick = None
    /\ \E t \in TruckIds : EnRoute(t)
    /\ tick' = [left |-> {t \in TruckIds : EnRoute(t)}, detouring |-> None, moving |-> {},
                rerouted |-> <<>>, late |-> {}]
    /\ UNCHANGED <<closed, trucks>>

Looking(t) == tick # None /\ tick.detouring = None /\ t \in tick.left

TickLook(t) ==
    /\ Looking(t)
    /\ tick' = IF ClosedAhead(trucks[t]) /\ Remaining(trucks[t]) # <<>>
               THEN [tick EXCEPT !.left = @ \ {t}, !.detouring = t]
               ELSE [tick EXCEPT !.left = @ \ {t}, !.moving = @ \cup {t}]
    /\ UNCHANGED <<closed, trucks>>

\* The roads are read again.  A truck without a detour drives on.
TickReroute(t) ==
    /\ tick # None /\ tick.detouring = t
    /\ tick' = IF Detour(trucks[t]) = NoRoute
               THEN [tick EXCEPT !.detouring = None, !.moving = @ \cup {t}]
               ELSE [tick EXCEPT !.detouring = None,
                                 !.rerouted = Over([u \in {t} |-> Rerouted(trucks[t])], @)]
    /\ UNCHANGED <<closed, trucks>>

-----------------------------------------------------------------------------
(* Second loop: the other trucks move and deliver.                         *)

\* A truck whose route is a single point is on no edge and does not move.
Moving == {t \in tick.moving : OnEdge(trucks[t])}

MoverOf(k) == [edge |-> Edge(k), pos |-> k.pos, next |-> NextEdge(k)]

Advanced(k, result) ==
    [k EXCEPT !.idx = IF result.crossed THEN @ + 1 ELSE @, !.pos = result.pos]

Deliver(k, arrived) ==
    LET pending == {p \in k.pending : p \notin DOMAIN k.stops \/ ~Reached(k, p)}
    IN  [k EXCEPT !.pending = pending,
                  !.status = IF arrived /\ pending = {} THEN "DELIVERED" ELSE @]

Ticked(red) ==
    LET results == StepTraffic([t \in Moving |-> MoverOf(trucks[t])], red)
    IN  [t \in TruckIds |->
            IF t \in Moving
            THEN Deliver(Advanced(trucks[t], results[t]), results[t].arrived)
            ELSE IF t \in DOMAIN tick.rerouted THEN tick.rerouted[t]
            ELSE trucks[t]]

TickCommit(red) ==
    /\ tick # None /\ tick.detouring = None /\ tick.left = {}
    /\ tick' = None
    /\ trucks' = Ticked(red)
    /\ UNCHANGED closed

-----------------------------------------------------------------------------
(* Failures: a statement of the tick fails and it rolls back; the process  *)
(* is restarted and rebuilds the road graph.                               *)

TickAbort ==
    /\ tick # None
    /\ tick' = None
    /\ UNCHANGED <<closed, trucks>>

\* All roads are inserted anew, open.  The trucks on the old ones are deleted, and
\* their orders remain as they are.
Restart ==
    /\ tick' = None
    /\ closed' = {}
    /\ trucks' = [t \in TruckIds |->
                     IF trucks[t] # None /\ OnEdge(trucks[t]) THEN None ELSE trucks[t]]

-----------------------------------------------------------------------------
Init == closed = {} /\ trucks = [t \in TruckIds |-> None] /\ tick = None

Lights == {LightAt[e] : e \in Edges} \ {None}

Next ==
    \/ \E t \in TruckIds : CreateFuelOrder(t) \/ TickLook(t) \/ TickReroute(t)
    \/ \E e \in Edges : CloseRoad(e) \/ ReopenRoad(e)
    \/ \E red \in SUBSET Lights : TickCommit(red)
    \/ TickBegin \/ TickAbort \/ Restart

Spec == Init /\ [][Next]_vars

\* While trucks are on the road, ticks commit again and again, among them ticks in which a
\* given light is green: each has a phase of its own, so that all lights need never be
\* green at once.
FairSpec ==
    /\ Spec
    /\ \A light \in Lights \cup {None} :
           \/ []<><<\E red \in SUBSET (Lights \ {light}) : TickCommit(red)>>_vars
           \/ []<>(\A t \in TruckIds : ~EnRoute(t))

-----------------------------------------------------------------------------
(* Properties *)

Present == {t \in TruckIds : trucks[t] # None}

Delivered(t) == t \in Present /\ trucks[t].status = "DELIVERED"

\* However often a truck was sent around closed roads, its route is a way through the
\* map, the truck has a place on it, each stop it still knows is at its own station on
\* that way, and a truck that is done has delivered the stops that are gone from it too.
StopsAreOnRoute ==
    \A t \in Present :
        LET k == trucks[t]
        IN  /\ k.idx \in 1 .. Larger(1, Len(k.route))
            /\ k.pos >= 0 /\ (OnEdge(k) \/ k.pos = 0)
            /\ k.pending \subseteq DOMAIN k.order
            /\ k.status = "DELIVERED" => k.pending = {}
            /\ \A i \in 1 .. Len(k.route) : From[k.route[i]] = NodeAt(k, i - 1)
            /\ \A p \in DOMAIN k.stops : NodeAt(k, k.stops[p]) = k.order[p]

\* Whatever roads are closed, a truck is sent the fastest way, and is refused one only
\* if there is none: the search closes a node at its first visit, which is right only
\* because the heuristic is consistent.
RoutesAreFastest == Fastest(Open)

\* The step sends the truck along another route.
Detours(t) == trucks'[t].route # trucks[t].route \/ trucks'[t].idx < trucks[t].idx

\* Trucks on the same edge never pass or run into each other: as long as the one in
\* front stays on the edge, the one behind it stays there too, and behind it.  A truck
\* that entered a short edge beyond its end, one edge being passed in a tick, is put
\* back to that end, and those behind it may be there already.
NoOvertaking ==
    [][\A t, u \in TruckIds :
          (/\ EnRoute(t) /\ OnEdge(trucks[t]) /\ EnRoute(u) /\ OnEdge(trucks[u])
           /\ Edge(trucks[t]) = Edge(trucks[u]) /\ trucks[t].pos < trucks[u].pos
           /\ trucks[u].pos <= Length[Edge(trucks[u])]
           /\ t \in Present' /\ EnRoute(u)' /\ ~Detours(t) /\ ~Detours(u)
           /\ trucks'[u].idx = trucks[u].idx)
          => trucks'[t].idx = trucks[t].idx /\ trucks'[t].pos < trucks'[u].pos]_vars

\* A truck drives onto a closed road only if there is no other way to the stops it has
\* not reached, or if the road was closed after the tick had looked at the truck's way.
DetoursAreTaken ==
    [][\A t \in TruckIds :
          (/\ EnRoute(t) /\ t \in Present' /\ ~Detours(t)
           /\ trucks'[t].idx > trucks[t].idx /\ Edge(trucks'[t]) \in closed
           /\ Remaining(trucks[t]) # <<>>)
          => t \in tick.late \/ Detour(trucks[t]) = NoRoute]_vars

\* Rerouting lost a stop of the truck or left it on no edge at all, or its last stop is
\* at the end of an edge whose rounding keeps it from being reached.
Lost(t) ==
    LET k == trucks[t]
    IN  /\ EnRoute(t)
        /\ \/ ~OnEdge(k)
           \/ k.pending \ DOMAIN k.stops # {}
           \/ k.idx = Len(k.route) /\ Edge(k) \in ShortEdges

ClosingGoesOn == []<><<\E e \in Edges : CloseRoad(e)>>_vars

\* A truck delivers, whatever lights and other trucks hold it up and whatever ticks fail:
\* unless roads are closed for ever, it is done in the end, or a restart has deleted it,
\* or a truck is lost and holds up those behind it.
TrucksArrive ==
    ClosingGoesOn \/ \A t \in TruckIds :
        EnRoute(t) ~> (Delivered(t) \/ t \notin Present \/ \E u \in TruckIds : Lost(u))
=============================================================================
