------------------------------ MODULE Routing ------------------------------
(***************************************************************************)
(* Routes over the road graph (services/routing_service.py): find_route,   *)
(* an A* search by travel time over the open edges, the greedy order of    *)
(* the stops of an order, and the chaining of legs into one route.         *)
(*                                                                         *)
(* Coordinates only matter through the heuristic, the time the straight    *)
(* line takes at the highest speed, so they are given as that time.  A     *)
(* route is the sequence of its edges: point i of route_json is the end of *)
(* edge i, and point 0 is the start.                                       *)
(***************************************************************************)
EXTENDS Integers, Sequences, FiniteSets, Functions

CONSTANTS
    Nodes,      \* road_nodes
    Edges,      \* road_edges
    From, To,   \* their end nodes
    Minutes,    \* distance_km / max_speed_kmh * 60 * traffic_coefficient
    Straight,   \* Straight[n][m]: the heuristic at n when m is the goal
    NoRoute     \* NoRouteFoundError

\* The heuristic never exceeds the time of an edge plus the heuristic behind it:
\* no edge is shorter than the straight line, faster than the fastest, or has a
\* coefficient below 1.
ASSUME RoutingAssumption ==
    /\ IsFiniteSet(Nodes)
    /\ IsFiniteSet(Edges)
    /\ From \in [Edges -> Nodes]
    /\ To \in [Edges -> Nodes]
    /\ Minutes \in [Edges -> Nat]
    /\ Straight \in [Nodes -> [Nodes -> Nat]]
    /\ \A e \in Edges, m \in Nodes : Straight[From[e]][m] <= Minutes[e] + Straight[To[e]][m]
    /\ \A n \in Nodes : Straight[n][n] = 0
    /\ NoRoute \notin Seq(Edges)
    /\ NoRoute \notin [edges : Seq(Edges), points : Seq(Nat)]

-----------------------------------------------------------------------------
(* find_route.  A search is g_score and came_from, both functions of the   *)
(* nodes reached so far, the heap and the visited nodes.                   *)

SearchFrom(start, goal) ==
    [score |-> [n \in {start} |-> 0], from |-> <<>>, heap |-> {<<Straight[start][goal], start>>}, visited |-> {}]

\* Fault: a node that was reached is never reached by a faster way.
FirstWay(search, n, minutes) == n \notin DOMAIN search.score

Improves(search, n, minutes) == n \in DOMAIN search.score => minutes < search.score[n]

\* f, and g where f has no value.
Over(f, g) == [x \in DOMAIN f \cup DOMAIN g |-> IF x \in DOMAIN f THEN f[x] ELSE g[x]]

\* The loop over the edges of a node; of two edges to the same node the faster one counts.
Visit(search, open, n, goal) ==
    LET minutes(e) == search.score[n] + Minutes[e]
        better == {e \in open : /\ From[e] = n
                                /\ Improves(search, To[e], minutes(e))
                                /\ \A f \in open : From[f] = n /\ To[f] = To[e] => Minutes[e] <= Minutes[f]}
        edge == [m \in {To[e] : e \in better} |-> CHOOSE e \in better : To[e] = m]
    IN  [score |-> Over([m \in DOMAIN edge |-> minutes(edge[m])], search.score),
         from |-> Over(edge, search.from),
         heap |-> search.heap \cup {<<minutes(e) + Straight[To[e]][goal], To[e]>> : e \in better},
         visited |-> search.visited \cup {n}]

Best(heap) == CHOOSE x \in heap : \A y \in heap : x[1] <= y[1]

\* One turn of the loop; the search stays as it is once the loop has ended.
Turn(search, open, goal) ==
    LET top == Best(search.heap)
        rest == [search EXCEPT !.heap = @ \ {top}]
    IN  IF search.heap = {} THEN search
        ELSE IF top[2] \in search.visited THEN rest
        ELSE IF top[2] = goal THEN search
        ELSE Visit(rest, open, top[2], goal)

\* Each turn takes an entry off the heap, and each edge puts at most one on it.
Search(open, start, goal) ==
    LET after[i \in 0 .. Cardinality(Edges) + 1] ==
            IF i = 0 THEN SearchFrom(start, goal) ELSE Turn(after[i - 1], open, goal)
    IN  after[Cardinality(Edges) + 1]

\* The way back along came_from, which passes no node twice.
Backtrack(from, start, goal) ==
    LET Back(way) ==
            LET n == IF way = <<>> THEN goal ELSE From[way[1]]
            IN  IF n = start THEN way ELSE <<from[n]>> \o way
        way[i \in 0 .. Cardinality(Nodes)] == IF i = 0 THEN <<>> ELSE Back(way[i - 1])
    IN  way[Cardinality(Nodes)]

FindRoute(open, start, goal) ==
    LET search == Search(open, start, goal)
    IN  IF goal \in DOMAIN search.score THEN Backtrack(search.from, start, goal) ELSE NoRoute

\* find_route depends on the graph alone: all its results, by the roads that are open.
Routes == [open \in SUBSET Edges |-> [start \in Nodes |-> [goal \in Nodes |-> FindRoute(open, start, goal)]]]

\* cumulative_km or cumulative_minutes of each point of a route.
Cumulative(weight, route) ==
    LET upTo[i \in 0 .. Len(route)] == IF i = 0 THEN 0 ELSE upTo[i - 1] + weight[route[i]]
    IN  upTo

Total(weight, route) == Cumulative(weight, route)[Len(route)]

-----------------------------------------------------------------------------
(* build_multi_stop_route and greedy_nearest_neighbor_order.               *)

\* The edges of all legs, and for each stop the point where it is reached.
ChainLegs(open, start, stops) ==
    LET leg == [i \in DOMAIN stops |-> Routes[open][IF i = 1 THEN start ELSE stops[i - 1]][stops[i]]]
        edges[i \in 0 .. Len(stops)] == IF i = 0 THEN <<>> ELSE edges[i - 1] \o leg[i]
    IN  IF \E i \in DOMAIN stops : leg[i] = NoRoute THEN NoRoute
        ELSE [edges |-> edges[Len(stops)], points |-> [i \in DOMAIN stops |-> Len(edges[i])]]

Reachable(open, at, stops) == {n \in stops : Routes[open][at][n] # NoRoute}

\* The nearest of the remaining stops, again and again; NoRoute if none is reachable.
GreedyOrder(open, start, stops) ==
    LET Extend(order) ==
            LET at == IF order = <<>> THEN start ELSE order[Len(order)]
                found == Reachable(open, at, stops \ Range(order))
                Time(n) == Total(Minutes, Routes[open][at][n])
            IN  IF order = NoRoute \/ found = {} THEN NoRoute
                ELSE Append(order, CHOOSE n \in found : \A m \in found : Time(n) <= Time(m))
        first[i \in 0 .. Cardinality(stops)] == IF i = 0 THEN <<>> ELSE Extend(first[i - 1])
    IN  first[Cardinality(stops)]

-----------------------------------------------------------------------------
(* What find_route promises.                                               *)

\* Every way from one node to another that passes no node twice.
Ways(open, start, goal) ==
    {way \in UNION {[1 .. k -> open] : k \in 1 .. Cardinality(Nodes) - 1} :
        /\ From[way[1]] = start
        /\ To[way[Len(way)]] = goal
        /\ \A i \in 1 .. Len(way) - 1 : To[way[i]] = From[way[i + 1]]}

\* find_route fails only when the goal cannot be reached, and what it finds is a way
\* along open roads that no other way beats.
Fastest(open) ==
    \A start, goal \in Nodes :
        start # goal =>
            LET route == Routes[open][start][goal]
                ways == Ways(open, start, goal)
            IN  IF ways = {} THEN route = NoRoute
                ELSE /\ route \in ways
                     /\ \A way \in ways : Total(Minutes, route) <= Total(Minutes, way)
=============================================================================
