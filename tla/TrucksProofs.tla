---------------------------- MODULE TrucksProofs ----------------------------
(***************************************************************************)
(* Proofs about the trucks.  The search of find_route returns a fastest    *)
(* way whatever the graph, because the heuristic is consistent; from it,   *)
(* the routes that trucks are given lead to their stops.                   *)
(*                                                                         *)
(* The loops of the model are functions of the number of turns.  That such *)
(* a function exists, and that a property of its values holds for all of   *)
(* them, is shown by induction over the turns.                             *)
(***************************************************************************)
EXTENDS Trucks, Sums

-----------------------------------------------------------------------------
(* Induction over numbers.                                                 *)

\* What holds of 0 and is passed on to the next number holds up to n.
LEMMA Induction ==
    ASSUME NEW n \in Nat, NEW G, 0 \in G, \A i \in 1 .. n : i - 1 \in G => i \in G
    PROVE  \A i \in 0 .. n : i \in G
<1> DEFINE H == {T \in SUBSET (1 .. n) : Cardinality(T) \in G}
<1>1. IsFiniteSet(1 .. n) /\ Cardinality(1 .. n) = n
  BY FS_Interval
<1>2. {} \in H
  BY FS_EmptySet
<1>3. ASSUME NEW T \in SUBSET (1 .. n), NEW x \in (1 .. n) \ T, T \in H
      PROVE  T \cup {x} \in H
  <2>1. IsFiniteSet(T) /\ Cardinality(T) \in Nat
    BY <1>1, FS_Subset, FS_CardinalityType
  <2>2. Cardinality(T \cup {x}) = Cardinality(T) + 1
    BY <2>1, FS_AddElement
  <2>3. Cardinality(T \cup {x}) <= n
    BY <1>1, FS_Subset
  <2>4. Cardinality(T) \in G
    BY <1>3
  <2>5. Cardinality(T) + 1 \in 1 .. n /\ (Cardinality(T) + 1) - 1 = Cardinality(T)
    BY <2>1, <2>2, <2>3
  <2> QED
    BY <2>2, <2>4, <2>5
<1>4. \A T \in SUBSET (1 .. n) : T \in H
  <2> HIDE DEF H
  <2> QED
    BY <1>1, <1>2, <1>3, SetInduction
<1> TAKE i \in 0 .. n
<1>5. 1 .. i \in H
  <2>1. 1 .. i \in SUBSET (1 .. n)
    OBVIOUS
  <2> HIDE DEF H
  <2> QED
    BY <1>4, <2>1
<1>6. Cardinality(1 .. i) = i
  BY FS_Interval
<1> QED
  BY <1>5, <1>6

\* f gives what is there after each turn of a loop.
Iterates(f, n, b, step) == f[0] = b /\ \A i \in 1 .. n : f[i] = step[<<i, f[i - 1]>>]

\* Every number of times a step can be repeated.
LEMMA Iteration ==
    ASSUME NEW n \in Nat, NEW S, NEW b \in S, NEW step \in [(1 .. n) \X S -> S]
    PROVE  \E f \in [0 .. n -> S] : Iterates(f, n, b, step)
<1> DEFINE Good(k, f) == f[0] = b /\ \A i \in 1 .. k : f[i] = step[<<i, f[i - 1]>>]
           G == {k \in 0 .. n : \E f \in [0 .. k -> S] : Good(k, f)}
<1>1. 0 \in G
  <2> DEFINE g == [i \in 0 .. 0 |-> b]
  <2>1. g \in [0 .. 0 -> S] /\ g[0] = b
    OBVIOUS
  <2> HIDE DEF g
  <2>2. Good(0, g)
    BY <2>1
  <2>3. \E f \in [0 .. 0 -> S] : Good(0, f)
    BY <2>1, <2>2, Zenon
  <2> QED
    BY <2>3
<1>2. ASSUME NEW k \in 1 .. n, k - 1 \in G PROVE k \in G
  <2>1. PICK f \in [0 .. k - 1 -> S] : Good(k - 1, f)
    BY <1>2
  <2> DEFINE g == [i \in 0 .. k |-> IF i = k THEN step[<<k, f[k - 1]>>] ELSE f[i]]
  <2>2. f[k - 1] \in S
    OBVIOUS
  <2>3. g \in [0 .. k -> S]
    BY <2>2
  <2>4. g[0] = b
    BY <2>1
  <2>5. \A i \in 1 .. k : g[i] = step[<<i, g[i - 1]>>]
    <3> TAKE i \in 1 .. k
    <3>1. i - 1 \in 0 .. k /\ i - 1 # k /\ g[i - 1] = f[i - 1]
      OBVIOUS
    <3>2. CASE i = k
      BY <3>1, <3>2
    <3>3. CASE i # k
      <4>1. i \in 1 .. k - 1 /\ g[i] = f[i]
        BY <3>3
      <4> QED
        BY <2>1, <3>1, <4>1
    <3> QED
      BY <3>2, <3>3
  <2> HIDE DEF g
  <2>6. Good(k, g)
    BY <2>4, <2>5
  <2>7. \E h \in [0 .. k -> S] : Good(k, h)
    BY <2>3, <2>6, Zenon
  <2> QED
    BY <2>7
<1>3. \A k \in 0 .. n : k \in G
  <2> HIDE DEF G
  <2> QED
    BY <1>1, <1>2, Induction
<1>4. n \in 0 .. n
  OBVIOUS
<1> QED
  BY <1>3, <1>4 DEF Iterates

\* A set of numbers has a least one.
LEMMA Least ==
    ASSUME NEW S \in SUBSET Nat, S # {}
    PROVE  \E n \in S : \A m \in S : n <= m
<1> SUFFICES ASSUME \A n \in S : \E m \in S : m < n PROVE FALSE
  OBVIOUS
<1>1. PICK n \in S : TRUE
  OBVIOUS
<1> DEFINE G == {i \in Nat : \A m \in S : m > i}
<1>2. 0 \in G
  OBVIOUS
<1>3. \A i \in 1 .. n : i - 1 \in G => i \in G
  OBVIOUS
<1>4. \A i \in 0 .. n : i \in G
  <2>1. n \in Nat
    OBVIOUS
  <2> HIDE DEF G
  <2> QED
    BY <2>1, <1>2, <1>3, Induction
<1> QED
  BY <1>1, <1>4

-----------------------------------------------------------------------------
(* Sums along a route.                                                     *)

IsCumulative(f, weight, route) ==
    f = [i \in 0 .. Len(route) |-> IF i = 0 THEN 0 ELSE f[i - 1] + weight[route[i]]]

\* Cumulative is the sum of the weights up to each point.
LEMMA CumulativeUnfolds ==
    ASSUME NEW weight \in [Edges -> Nat], NEW route \in Seq(Edges)
    PROVE  /\ Cumulative(weight, route) \in [0 .. Len(route) -> Nat]
           /\ Cumulative(weight, route)[0] = 0
           /\ \A i \in 1 .. Len(route) :
                Cumulative(weight, route)[i] = Cumulative(weight, route)[i - 1] + weight[route[i]]
<1> DEFINE n == Len(route)
           step == [x \in (1 .. n) \X Nat |-> x[2] + weight[route[x[1]]]]
<1>1. n \in Nat /\ step \in [(1 .. n) \X Nat -> Nat]
  OBVIOUS
<1>2. PICK f \in [0 .. n -> Nat] : Iterates(f, n, 0, step)
  <2>1. 0 \in Nat
    OBVIOUS
  <2> HIDE DEF n, step
  <2> QED
    BY <1>1, <2>1, Iteration
<1>3. \A i \in 1 .. n : f[i] = f[i - 1] + weight[route[i]]
  <2> TAKE i \in 1 .. n
  <2>1. i - 1 \in 0 .. n
    BY <1>1
  <2>2. f[i - 1] \in Nat
    BY <2>1
  <2>3. <<i, f[i - 1]>> \in (1 .. n) \X Nat
    BY <2>2
  <2>4. f[i] = step[<<i, f[i - 1]>>]
    BY <1>2 DEF Iterates
  <2> HIDE DEF n
  <2> QED
    BY <2>3, <2>4
<1>4. IsCumulative(f, weight, route)
  BY <1>2, <1>3 DEF IsCumulative, Iterates
<1>5. Cumulative(weight, route) = CHOOSE g : IsCumulative(g, weight, route)
  BY Zenon DEF Cumulative, IsCumulative
<1>6. PICK g : g = Cumulative(weight, route) /\ IsCumulative(g, weight, route)
  BY <1>4, <1>5
<1>7. g = [i \in 0 .. n |-> g[i]] /\ g[0] = 0 /\ \A i \in 1 .. n : g[i] = g[i - 1] + weight[route[i]]
  BY <1>6 DEF IsCumulative
<1>8. \A i \in 0 .. n : i \in {j \in 0 .. n : g[j] \in Nat}
  <2> DEFINE G == {j \in 0 .. n : g[j] \in Nat}
  <2>1. 0 \in G
    BY <1>1, <1>7
  <2>2. ASSUME NEW i \in 1 .. n, i - 1 \in G PROVE i \in G
    <3>1. g[i - 1] \in Nat /\ weight[route[i]] \in Nat /\ i \in 0 .. n
      BY <1>1, <2>2
    <3>2. g[i] = g[i - 1] + weight[route[i]]
      BY <1>7
    <3> HIDE DEF n
    <3> QED
      BY <3>1, <3>2
  <2> HIDE DEF G, n
  <2>3. \A i \in 0 .. n : i \in G
    BY <1>1, <2>1, <2>2, Induction
  <2> QED
    BY <2>3 DEF G
<1> QED
  BY <1>6, <1>7, <1>8

-----------------------------------------------------------------------------
(* The search.  Its invariant: the heap has an entry for each node reached *)
(* and not visited, and what is in it is never too small; a visited node   *)
(* has its final score, no greater than any key of the heap, and its edges *)
(* are taken into account; came_from leads back through nodes visited      *)
(* earlier and earlier.                                                    *)

SearchStates(open) ==
    [score : UNION {[D -> Nat] : D \in SUBSET Nodes},
     from : UNION {[D -> open] : D \in SUBSET Nodes},
     heap : SUBSET (Nat \X Nodes),
     visited : SUBSET Nodes]

Known(s) == DOMAIN s.score

Typed(s, open, start, goal) ==
    /\ s \in SearchStates(open)
    /\ start \in Known(s) /\ s.score[start] = 0
    /\ DOMAIN s.from = Known(s) \ {start}
    /\ IsFiniteSet(s.heap)
    /\ s.visited \subseteq Known(s) /\ goal \notin s.visited

HeapComplete(s, goal) ==
    /\ \A m \in Known(s) \ s.visited : <<s.score[m] + Straight[m][goal], m>> \in s.heap
    /\ \A x \in s.heap : x[2] \in Known(s) /\ s.score[x[2]] + Straight[x[2]][goal] <= x[1]

CameFrom(s, start) ==
    \A m \in Known(s) \ {start} :
        LET e == s.from[m]
        IN  To[e] = m /\ From[e] \in s.visited /\ s.score[m] = s.score[From[e]] + Minutes[e]

Relaxed(s, open) ==
    \A e \in open : From[e] \in s.visited =>
        To[e] \in Known(s) /\ s.score[To[e]] <= s.score[From[e]] + Minutes[e]

VisitedFirst(s, goal) ==
    \A v \in s.visited, x \in s.heap : s.score[v] + Straight[v][goal] <= x[1]

\* rank counts the visits before that of a node.
Ranks(rank, s, start) ==
    /\ \A m \in Nodes \ s.visited : rank[m] = Cardinality(s.visited)
    /\ \A m \in s.visited : rank[m] < Cardinality(s.visited)
    /\ \A m \in Known(s) \ {start} : rank[From[s.from[m]]] < rank[m]

Ranked(s, start) == \E rank \in [Nodes -> Nat] : Ranks(rank, s, start)

SearchInv(s, open, start, goal) ==
    /\ Typed(s, open, start, goal)
    /\ HeapComplete(s, goal)
    /\ CameFrom(s, start)
    /\ Relaxed(s, open)
    /\ VisitedFirst(s, goal)
    /\ Ranked(s, start)

\* What the type says of the parts of a search.
LEMMA SearchTypes ==
    ASSUME NEW open \in SUBSET Edges, NEW start \in Nodes, NEW goal \in Nodes,
           NEW s, Typed(s, open, start, goal)
    PROVE  /\ Known(s) \subseteq Nodes
           /\ s.score \in [Known(s) -> Nat]
           /\ s.from \in [Known(s) \ {start} -> open]
           /\ s.heap \in SUBSET (Nat \X Nodes)
           /\ s.visited \in SUBSET Nodes
           /\ s = [score |-> s.score, from |-> s.from, heap |-> s.heap, visited |-> s.visited]
<1>1. s \in SearchStates(open)
  BY DEF Typed
<1>2. PICK D \in SUBSET Nodes : s.score \in [D -> Nat]
  BY <1>1 DEF SearchStates
<1>3. PICK F \in SUBSET Nodes : s.from \in [F -> open]
  BY <1>1 DEF SearchStates
<1>4. Known(s) = D /\ F = Known(s) \ {start}
  BY <1>2, <1>3 DEF Known, Typed
<1> QED
  BY <1>1, <1>2, <1>3, <1>4 DEF SearchStates

\* The search begins with the start reached and nothing visited.
LEMMA SearchBegins ==
    ASSUME NEW open \in SUBSET Edges, NEW start \in Nodes, NEW goal \in Nodes
    PROVE  SearchInv(SearchFrom(start, goal), open, start, goal)
<1> DEFINE s == SearchFrom(start, goal)
<1>1. /\ s.score = [m \in {start} |-> 0] /\ s.from = <<>>
      /\ s.heap = {<<Straight[start][goal], start>>} /\ s.visited = {}
      /\ s = [score |-> s.score, from |-> s.from, heap |-> s.heap, visited |-> s.visited]
  BY DEF SearchFrom
<1>2. Straight[start][goal] \in Nat
  BY RoutingAssumption
<1>3. s.from \in [{} -> open] /\ DOMAIN s.from = {}
  BY <1>1
<1>4. Known(s) = {start} /\ s.score \in [{start} -> Nat] /\ s.score[start] = 0
  BY <1>1 DEF Known
<1>5. IsFiniteSet(s.heap) /\ s.heap \in SUBSET (Nat \X Nodes)
  <2> HIDE DEF s
  <2>1. <<Straight[start][goal], start>> \in Nat \X Nodes
    BY <1>2
  <2>2. IsFiniteSet({<<Straight[start][goal], start>>})
    BY FS_Singleton
  <2> QED
    BY <1>1, <2>1, <2>2
<1> HIDE DEF s
<1>6. s \in SearchStates(open)
  <2>1. {start} \in SUBSET Nodes /\ {} \in SUBSET Nodes
    OBVIOUS
  <2>2. s.score \in UNION {[D -> Nat] : D \in SUBSET Nodes}
    BY <2>1, <1>4
  <2>3. s.from \in UNION {[D -> open] : D \in SUBSET Nodes}
    BY <2>1, <1>3
  <2> QED
    BY <1>1, <1>5, <2>1, <2>2, <2>3 DEF SearchStates
<1>7. Typed(s, open, start, goal)
  BY <1>1, <1>3, <1>4, <1>5, <1>6 DEF Typed
<1>8. HeapComplete(s, goal)
  BY <1>1, <1>2, <1>4 DEF HeapComplete
<1>9. CameFrom(s, start) /\ Relaxed(s, open) /\ VisitedFirst(s, goal)
  BY <1>1, <1>4 DEF CameFrom, Relaxed, VisitedFirst
<1>10. Ranked(s, start)
  <2> DEFINE rank == [m \in Nodes |-> 0]
  <2>1. Ranks(rank, s, start)
    BY <1>1, <1>4, FS_EmptySet DEF Ranks
  <2>2. rank \in [Nodes -> Nat]
    OBVIOUS
  <2> HIDE DEF rank
  <2> QED
    BY <2>1, <2>2 DEF Ranked
<1> QED
  BY <1>7, <1>8, <1>9, <1>10 DEF SearchInv, s

\* The top of a heap that is not empty is in it, and no key is smaller.
LEMMA BestIsLeast ==
    ASSUME NEW heap \in SUBSET (Nat \X Nodes), heap # {}
    PROVE  Best(heap) \in heap /\ \A x \in heap : Best(heap)[1] <= x[1]
<1> DEFINE keys == {x[1] : x \in heap}
<1>1. keys \in SUBSET Nat /\ keys # {}
  OBVIOUS
<1>2. PICK k \in keys : \A j \in keys : k <= j
  <2> HIDE DEF keys
  <2> QED
    BY <1>1, Least
<1>3. \E x \in heap : \A y \in heap : x[1] <= y[1]
  BY <1>2
<1> QED
  BY <1>3 DEF Best

\* The edges of n that lead to a node faster than any before.
Better(s, open, n) ==
    {e \in open : /\ From[e] = n
                  /\ Improves(s, To[e], s.score[n] + Minutes[e])
                  /\ \A f \in open : From[f] = n /\ To[f] = To[e] => Minutes[e] <= Minutes[f]}

EdgeTo(s, open, n) == [m \in {To[e] : e \in Better(s, open, n)} |-> CHOOSE e \in Better(s, open, n) : To[e] = m]

LEMMA VisitUnfolds ==
    ASSUME NEW s, NEW open, NEW n, NEW goal
    PROVE  Visit(s, open, n, goal) =
             [score |-> Over([m \in DOMAIN EdgeTo(s, open, n) |->
                                 s.score[n] + Minutes[EdgeTo(s, open, n)[m]]], s.score),
              from |-> Over(EdgeTo(s, open, n), s.from),
              heap |-> s.heap \cup {<<s.score[n] + Minutes[e] + Straight[To[e]][goal], To[e]>> :
                                       e \in Better(s, open, n)},
              visited |-> s.visited \cup {n}]
BY Zenon DEF Visit, Better, EdgeTo

\* The types of the road graph, and the heuristic along an edge.
LEMMA GraphTypes ==
    /\ \A e \in Edges : From[e] \in Nodes /\ To[e] \in Nodes /\ Minutes[e] \in Nat
    /\ \A n, m \in Nodes : Straight[n][m] \in Nat
    /\ \A e \in Edges, m \in Nodes : Straight[From[e]][m] <= Minutes[e] + Straight[To[e]][m]
BY RoutingAssumption

\* One of the edges between two nodes is the fastest.
LEMMA FastestEdge ==
    ASSUME NEW open \in SUBSET Edges, NEW e \in open
    PROVE  \E f \in open : /\ From[f] = From[e] /\ To[f] = To[e] /\ Minutes[f] <= Minutes[e]
                           /\ \A g \in open : From[g] = From[f] /\ To[g] = To[f] => Minutes[f] <= Minutes[g]
<1> DEFINE same == {f \in open : From[f] = From[e] /\ To[f] = To[e]}
           times == {Minutes[f] : f \in same}
<1>1. times \in SUBSET Nat /\ times # {}
  BY RoutingAssumption
<1>2. PICK k \in times : \A j \in times : k <= j
  <2> HIDE DEF times
  <2> QED
    BY <1>1, Least
<1> QED
  BY <1>2

\* n is the next node to visit.
AtTop(s, open, start, goal, top, n) ==
    SearchInv(s, open, start, goal) /\ s.heap # {} /\ top = Best(s.heap) /\ n = top[2] /\ n \notin s.visited

\* The next node to visit: its entry is exact, and it comes after all that are visited.
LEMMA TopIsExact ==
    ASSUME NEW open \in SUBSET Edges, NEW start \in Nodes, NEW goal \in Nodes,
           NEW s, NEW top, NEW n, AtTop(s, open, start, goal, top, n)
    PROVE  /\ n \in Known(s) /\ top \in s.heap
           /\ top = <<s.score[n] + Straight[n][goal], n>>
           /\ \A x \in s.heap : s.score[n] + Straight[n][goal] <= x[1]
           /\ \A v \in s.visited : s.score[v] + Straight[v][goal] <= s.score[n] + Straight[n][goal]
<1>1. /\ Known(s) \subseteq Nodes
      /\ s.score \in [Known(s) -> Nat]
      /\ s.heap \in SUBSET (Nat \X Nodes)
  BY SearchTypes DEF AtTop, SearchInv
<1>2. top \in s.heap /\ \A x \in s.heap : top[1] <= x[1]
  BY <1>1, BestIsLeast DEF AtTop
<1>3. n \in Known(s) /\ s.score[n] + Straight[n][goal] <= top[1]
  BY <1>2 DEF AtTop, SearchInv, HeapComplete
<1>4. <<s.score[n] + Straight[n][goal], n>> \in s.heap
  BY <1>3 DEF AtTop, SearchInv, HeapComplete
<1>5. top[1] <= s.score[n] + Straight[n][goal]
  BY <1>2, <1>4
<1>6. s.score[n] \in Nat /\ Straight[n][goal] \in Nat /\ top[1] \in Nat /\ top = <<top[1], top[2]>>
  BY <1>1, <1>2, <1>3, GraphTypes DEF AtTop
<1>7. top[1] = s.score[n] + Straight[n][goal]
  BY <1>3, <1>5, <1>6
<1>8. \A v \in s.visited : s.score[v] + Straight[v][goal] <= top[1]
  BY <1>2 DEF AtTop, SearchInv, VisitedFirst
<1>9. top[2] = n
  BY DEF AtTop
<1> QED
  BY <1>2, <1>3, <1>6, <1>7, <1>8, <1>9

\* What a visit changes: the edges of EdgeTo give their ends a better score, and none of
\* these ends is visited.
VisitParts(s, open, start, n, E, B) ==
    /\ B \subseteq open /\ \A e \in B : From[e] = n
    /\ DOMAIN E = {To[e] : e \in B}
    /\ \A m \in DOMAIN E : E[m] \in B /\ To[E[m]] = m
    /\ \A e \in B : Minutes[E[To[e]]] = Minutes[e]
    /\ \A m \in DOMAIN E \cap Known(s) : s.score[n] + Minutes[E[m]] < s.score[m]
    /\ \A m \in s.visited \cup {n, start} : m \notin DOMAIN E
    /\ DOMAIN E \subseteq Nodes

LEMMA VisitHasParts ==
    ASSUME NEW open \in SUBSET Edges, NEW start \in Nodes, NEW goal \in Nodes,
           NEW s, NEW top, NEW n, AtTop(s, open, start, goal, top, n),
           NEW E, E = EdgeTo(s, open, n), NEW B, B = Better(s, open, n)
    PROVE  VisitParts(s, open, start, n, E, B)
<1>1. /\ Known(s) \subseteq Nodes
      /\ s.score \in [Known(s) -> Nat]
      /\ start \in Known(s) /\ s.score[start] = 0
      /\ s.visited \subseteq Known(s)
  BY SearchTypes DEF AtTop, SearchInv, Typed
<1>2. /\ n \in Known(s)
      /\ \A v \in s.visited : s.score[v] + Straight[v][goal] <= s.score[n] + Straight[n][goal]
  BY TopIsExact
<1>3. B \subseteq open /\ \A e \in B : From[e] = n
  BY DEF Better
<1>4. DOMAIN E = {To[e] : e \in B}
  BY DEF EdgeTo
<1>5. \A m \in DOMAIN E : E[m] \in B /\ To[E[m]] = m
  BY DEF EdgeTo
<1>6. \A e, f \in B : To[e] = To[f] => Minutes[e] = Minutes[f]
  <2> TAKE e, f \in B
  <2> HAVE To[e] = To[f]
  <2>1. Minutes[e] <= Minutes[f] /\ Minutes[f] <= Minutes[e]
    BY <1>3 DEF Better
  <2>2. Minutes[e] \in Nat /\ Minutes[f] \in Nat
    BY <1>3, RoutingAssumption
  <2> QED
    BY <2>1, <2>2
<1>7. \A e \in B : Minutes[E[To[e]]] = Minutes[e]
  BY <1>4, <1>5, <1>6
<1>8. \A e \in B : To[e] \in Known(s) => s.score[n] + Minutes[e] < s.score[To[e]]
  BY DEF Better, Improves, Known
<1>9. \A m \in DOMAIN E \cap Known(s) : s.score[n] + Minutes[E[m]] < s.score[m]
  BY <1>5, <1>8
<1>10. ASSUME NEW m \in s.visited \cup {n, start}, m \in DOMAIN E PROVE FALSE
  <2>1. m \in Known(s)
    BY <1>1, <1>2
  <2>2. s.score[n] + Minutes[E[m]] < s.score[m]
    BY <2>1, <1>9, <1>10
  <2>3. /\ Minutes[E[m]] \in Nat /\ s.score[n] \in Nat /\ s.score[m] \in Nat
        /\ Straight[n][goal] \in Nat /\ Straight[m][goal] \in Nat
    <3>1. E[m] \in Edges
      BY <1>3, <1>5, <1>10
    <3>2. n \in Nodes /\ m \in Nodes
      BY <2>1, <1>1, <1>2
    <3> QED
      BY <3>1, <3>2, <2>1, <1>1, <1>2, GraphTypes
  <2>4. Straight[n][goal] <= Minutes[E[m]] + Straight[m][goal]
    <3>1. E[m] \in Edges /\ From[E[m]] = n /\ To[E[m]] = m
      BY <1>3, <1>5, <1>10
    <3> QED
      BY <3>1, GraphTypes
  <2>5. CASE m = start
    BY <2>2, <2>3, <2>5, <1>1
  <2>6. CASE m = n
    BY <2>2, <2>3, <2>6
  <2>7. CASE m \in s.visited
    <3>1. s.score[m] + Straight[m][goal] <= s.score[n] + Straight[n][goal]
      BY <2>7, <1>2
    <3> QED
      BY <3>1, <2>2, <2>3, <2>4
  <2> QED
    BY <2>5, <2>6, <2>7
<1>11. DOMAIN E \subseteq Nodes
  BY <1>3, <1>4, RoutingAssumption
<1> QED
  BY <1>3, <1>4, <1>5, <1>7, <1>9, <1>10, <1>11 DEF VisitParts

\* The entries that a visit puts on the heap, one for each edge at most.
Entries(s, n, goal, B) == {<<s.score[n] + Minutes[e] + Straight[To[e]][goal], To[e]>> : e \in B}

LEMMA EntriesFinite ==
    ASSUME NEW B, IsFiniteSet(B), NEW s, NEW n, NEW goal
    PROVE  IsFiniteSet(Entries(s, n, goal, B)) /\ Cardinality(Entries(s, n, goal, B)) <= Cardinality(B)
<1> DEFINE f == [e \in B |-> <<s.score[n] + Minutes[e] + Straight[To[e]][goal], To[e]>>]
<1>1. f \in Surjection(B, Entries(s, n, goal, B))
  BY DEF Surjection, Entries
<1> HIDE DEF f
<1> QED
  BY <1>1, FS_Surjection

\* The search after a visit, in parts.
VisitResult(v, s, open, start, goal, top, n, E, B) ==
    /\ v = [score |-> v.score, from |-> v.from, heap |-> v.heap, visited |-> v.visited]
    /\ Known(v) = DOMAIN E \cup Known(s)
    /\ v.score \in [Known(v) -> Nat]
    /\ \A m \in DOMAIN E : v.score[m] = s.score[n] + Minutes[E[m]]
    /\ \A m \in Known(s) \ DOMAIN E : v.score[m] = s.score[m]
    /\ \A m \in Known(s) : v.score[m] <= s.score[m]
    /\ v.from \in [Known(v) \ {start} -> open]
    /\ \A m \in DOMAIN E : v.from[m] = E[m]
    /\ \A m \in Known(s) \ (DOMAIN E \cup {start}) : v.from[m] = s.from[m]
    /\ v.heap = (s.heap \ {top}) \cup Entries(s, n, goal, B)
    /\ v.visited = s.visited \cup {n}

LEMMA VisitHasResult ==
    ASSUME NEW open \in SUBSET Edges, NEW start \in Nodes, NEW goal \in Nodes,
           NEW s, NEW top, NEW n, AtTop(s, open, start, goal, top, n),
           NEW E, E = EdgeTo(s, open, n), NEW B, B = Better(s, open, n)
    PROVE  VisitResult(Visit([s EXCEPT !.heap = @ \ {top}], open, n, goal),
                       s, open, start, goal, top, n, E, B)
<1> DEFINE r == [s EXCEPT !.heap = @ \ {top}]
           S == [m \in DOMAIN E |-> s.score[n] + Minutes[E[m]]]
           H == (s.heap \ {top}) \cup Entries(s, n, goal, B)
           v == Visit(r, open, n, goal)
           K == Known(s)
           N == DOMAIN E
<1>1. /\ s.score \in [K -> Nat]
      /\ s.from \in [K \ {start} -> open]
      /\ s = [score |-> s.score, from |-> s.from, heap |-> s.heap, visited |-> s.visited]
      /\ n \in K
  BY SearchTypes, TopIsExact DEF AtTop, SearchInv
<1>2. r.score = s.score /\ r.from = s.from /\ r.heap = s.heap \ {top} /\ r.visited = s.visited
  BY <1>1
<1>3. Better(r, open, n) = B /\ EdgeTo(r, open, n) = E
  <2> HIDE DEF r
  <2>1. Better(r, open, n) = B
    BY <1>2 DEF Better, Improves
  <2> QED
    BY <2>1 DEF EdgeTo
<1>4. v = [score |-> Over(S, s.score), from |-> Over(E, s.from), heap |-> H, visited |-> s.visited \cup {n}]
  <2> HIDE DEF r
  <2>1. v = [score |-> Over([m \in DOMAIN EdgeTo(r, open, n) |->
                                 r.score[n] + Minutes[EdgeTo(r, open, n)[m]]], r.score),
              from |-> Over(EdgeTo(r, open, n), r.from),
              heap |-> r.heap \cup {<<r.score[n] + Minutes[e] + Straight[To[e]][goal], To[e]>> :
                                       e \in Better(r, open, n)},
              visited |-> r.visited \cup {n}]
    BY VisitUnfolds, Zenon
  <2> QED
    BY <2>1, <1>2, <1>3, Zenon DEF Entries
<1>5. /\ B \subseteq open
      /\ \A m \in N : E[m] \in B
      /\ \A m \in N \cap K : s.score[n] + Minutes[E[m]] < s.score[m]
      /\ start \notin N
  <2> HIDE DEF r, S, H, v, N, K
  <2> QED
    <3>1. VisitParts(s, open, start, n, E, B)
      BY VisitHasParts
    <3> QED
      BY <3>1 DEF VisitParts, N, K
<1>6. E \in [N -> open] /\ S \in [N -> Nat] /\ \A m \in N : S[m] = s.score[n] + Minutes[E[m]]
  <2>1. \A m \in N : E[m] \in open
    BY <1>5
  <2>2. \A m \in N : Minutes[E[m]] \in Nat
    BY <2>1, GraphTypes
  <2>3. s.score[n] \in Nat
    BY <1>1
  <2>4. \A m \in N : s.score[n] + Minutes[E[m]] \in Nat
    BY <2>2, <2>3
  <2>5. E = [m \in N |-> E[m]]
    BY DEF EdgeTo
  <2> HIDE DEF v, r, H
  <2> QED
    BY <2>1, <2>4, <2>5
<1> HIDE DEF r, S, H, v, K, N
<1>7. /\ Over(S, s.score) \in [N \cup K -> Nat]
      /\ \A m \in N : Over(S, s.score)[m] = S[m]
      /\ \A m \in K \ N : Over(S, s.score)[m] = s.score[m]
  BY <1>1, <1>6 DEF Over
<1>8. /\ Over(E, s.from) \in [N \cup (K \ {start}) -> open]
      /\ \A m \in N : Over(E, s.from)[m] = E[m]
      /\ \A m \in (K \ {start}) \ N : Over(E, s.from)[m] = s.from[m]
  BY <1>1, <1>6 DEF Over
<1>9. v.score = Over(S, s.score) /\ v.from = Over(E, s.from) /\ v.heap = H /\ v.visited = s.visited \cup {n}
  BY <1>4
<1>10. Known(v) = N \cup K
  BY <1>7, <1>9 DEF Known
<1>11. \A m \in K : v.score[m] <= s.score[m]
  BY <1>1, <1>5, <1>6, <1>7, <1>9
<1>12. (N \cup K) \ {start} = N \cup (K \ {start})
  BY <1>5
<1> QED
  BY <1>4, <1>6, <1>7, <1>8, <1>9, <1>10, <1>11, <1>12, Zenon DEF VisitResult, H, K, N, v, r

\* A visit of a node that is not the goal, with its edges and its result.
Visiting(v, s, open, start, goal, top, n, E, B) ==
    /\ AtTop(s, open, start, goal, top, n)
    /\ n # goal
    /\ VisitParts(s, open, start, n, E, B)
    /\ VisitResult(v, s, open, start, goal, top, n, E, B)

\* The facts about a visit that the following lemmas need.
VisitFacts(v, s, start, n, E) ==
    /\ Known(s) \subseteq Nodes /\ Known(v) \subseteq Nodes
    /\ s.score \in [Known(s) -> Nat] /\ v.score \in [Known(v) -> Nat]
    /\ start \in Known(s) /\ n \in Known(s) /\ s.score[start] = 0
    /\ s.visited \subseteq Known(s) /\ n \notin s.visited
    /\ v.visited = s.visited \cup {n}
    /\ Known(v) = DOMAIN E \cup Known(s)
    /\ \A m \in v.visited : m \notin DOMAIN E /\ v.score[m] = s.score[m]
    /\ n \notin DOMAIN E /\ start \notin DOMAIN E
    /\ v.score[n] = s.score[n] /\ v.score[start] = 0
    /\ DOMAIN E \subseteq Nodes

LEMMA VisitHasFacts ==
    ASSUME NEW open \in SUBSET Edges, NEW start \in Nodes, NEW goal \in Nodes,
           NEW v, NEW s, NEW top, NEW n, NEW E, NEW B,
           Visiting(v, s, open, start, goal, top, n, E, B)
    PROVE  VisitFacts(v, s, start, n, E)
<1>1. AtTop(s, open, start, goal, top, n) /\ SearchInv(s, open, start, goal)
  BY DEF Visiting, AtTop
<1>2. VisitParts(s, open, start, n, E, B) /\ VisitResult(v, s, open, start, goal, top, n, E, B)
  BY DEF Visiting
<1>3. /\ Known(s) \subseteq Nodes /\ s.score \in [Known(s) -> Nat]
      /\ start \in Known(s) /\ s.score[start] = 0 /\ s.visited \subseteq Known(s)
  BY <1>1, SearchTypes DEF SearchInv, Typed
<1>4. n \in Known(s) /\ n \notin s.visited
  BY <1>1, TopIsExact DEF AtTop
<1>5. /\ \A m \in s.visited \cup {n, start} : m \notin DOMAIN E
      /\ DOMAIN E \subseteq Nodes
  BY <1>2 DEF VisitParts
<1>6. /\ Known(v) = DOMAIN E \cup Known(s)
      /\ v.score \in [Known(v) -> Nat]
      /\ \A m \in Known(s) \ DOMAIN E : v.score[m] = s.score[m]
      /\ v.visited = s.visited \cup {n}
  BY <1>2 DEF VisitResult
<1> QED
  BY <1>3, <1>4, <1>5, <1>6 DEF VisitFacts

LEMMA VisitTyped ==
    ASSUME NEW open \in SUBSET Edges, NEW start \in Nodes, NEW goal \in Nodes,
           NEW v, NEW s, NEW top, NEW n, NEW E, NEW B,
           Visiting(v, s, open, start, goal, top, n, E, B)
    PROVE  Typed(v, open, start, goal)
<1> DEFINE new == Entries(s, n, goal, B)
<1>1. /\ Known(v) \subseteq Nodes
      /\ start \in Known(s) /\ n \in Known(s) /\ s.visited \subseteq Known(s)
      /\ Known(v) = DOMAIN E \cup Known(s)
      /\ v.score[start] = 0 /\ s.score[n] \in Nat
  <2>1. VisitFacts(v, s, start, n, E)
    BY VisitHasFacts
  <2> QED
    BY <2>1 DEF VisitFacts
<1>2. /\ v = [score |-> v.score, from |-> v.from, heap |-> v.heap, visited |-> v.visited]
      /\ v.score \in [Known(v) -> Nat]
      /\ v.from \in [Known(v) \ {start} -> open]
      /\ v.heap = (s.heap \ {top}) \cup new
      /\ v.visited = s.visited \cup {n}
  BY DEF Visiting, VisitResult
<1>3. B \subseteq open
  BY DEF Visiting, VisitParts
<1>4. /\ s.heap \in SUBSET (Nat \X Nodes) /\ IsFiniteSet(s.heap)
      /\ goal \notin s.visited /\ n # goal
  <2>1. SearchInv(s, open, start, goal) /\ n # goal
    BY DEF Visiting, AtTop
  <2> QED
    BY <2>1, SearchTypes DEF SearchInv, Typed
<1>5. new \in SUBSET (Nat \X Nodes)
  <2> SUFFICES ASSUME NEW e \in B
               PROVE  <<s.score[n] + Minutes[e] + Straight[To[e]][goal], To[e]>> \in Nat \X Nodes
    BY DEF Entries
  <2>1. To[e] \in Nodes /\ Minutes[e] \in Nat /\ Straight[To[e]][goal] \in Nat
    BY <1>3, GraphTypes
  <2> QED
    BY <2>1, <1>1
<1>6. IsFiniteSet(new)
  <2>1. IsFiniteSet(Edges)
    BY RoutingAssumption
  <2>2. IsFiniteSet(B)
    BY <2>1, <1>3, FS_Subset
  <2> QED
    BY <2>2, EntriesFinite
<1> HIDE DEF new
<1>7. IsFiniteSet(v.heap)
  <2>1. IsFiniteSet(s.heap \ {top})
    BY <1>4, FS_Subset
  <2>2. IsFiniteSet((s.heap \ {top}) \cup new)
    BY <2>1, <1>6, FS_Union
  <2> QED
    BY <2>2, <1>2
<1>8. v \in SearchStates(open)
  <2>1. v.score \in UNION {[D -> Nat] : D \in SUBSET Nodes}
    BY <1>1, <1>2
  <2>2. Known(v) \ {start} \in SUBSET Nodes
    BY <1>1
  <2>3. v.from \in UNION {[D -> open] : D \in SUBSET Nodes}
    BY <2>2, <1>2
  <2>4. v.heap \in SUBSET (Nat \X Nodes) /\ v.visited \in SUBSET Nodes
    BY <1>1, <1>2, <1>4, <1>5
  <2> QED
    BY <2>1, <2>3, <2>4, <1>2 DEF SearchStates
<1>9. DOMAIN v.from = Known(v) \ {start}
  BY <1>2
<1> QED
  BY <1>1, <1>2, <1>4, <1>7, <1>8, <1>9 DEF Typed

LEMMA VisitHeapComplete ==
    ASSUME NEW open \in SUBSET Edges, NEW start \in Nodes, NEW goal \in Nodes,
           NEW v, NEW s, NEW top, NEW n, NEW E, NEW B,
           Visiting(v, s, open, start, goal, top, n, E, B)
    PROVE  HeapComplete(v, goal)
<1> DEFINE new == Entries(s, n, goal, B)
<1>1. /\ Known(s) \subseteq Nodes /\ Known(v) \subseteq Nodes
      /\ s.score \in [Known(s) -> Nat] /\ v.score \in [Known(v) -> Nat]
      /\ n \in Known(s)
      /\ v.visited = s.visited \cup {n}
      /\ Known(v) = DOMAIN E \cup Known(s)
  <2>1. VisitFacts(v, s, start, n, E)
    BY VisitHasFacts
  <2> QED
    BY <2>1 DEF VisitFacts
<1>2. /\ v.heap = (s.heap \ {top}) \cup new
      /\ \A m \in DOMAIN E : v.score[m] = s.score[n] + Minutes[E[m]]
      /\ \A m \in Known(s) \ DOMAIN E : v.score[m] = s.score[m]
      /\ \A m \in Known(s) : v.score[m] <= s.score[m]
  BY DEF Visiting, VisitResult
<1>3. /\ B \subseteq open
      /\ DOMAIN E = {To[e] : e \in B}
      /\ \A m \in DOMAIN E : E[m] \in B /\ To[E[m]] = m
      /\ \A e \in B : Minutes[E[To[e]]] = Minutes[e]
  BY DEF Visiting, VisitParts
<1>4. /\ \A m \in Known(s) \ s.visited : <<s.score[m] + Straight[m][goal], m>> \in s.heap
      /\ \A x \in s.heap : x[2] \in Known(s) /\ s.score[x[2]] + Straight[x[2]][goal] <= x[1]
      /\ s.heap \in SUBSET (Nat \X Nodes)
      /\ top[2] = n
  <2>1. SearchInv(s, open, start, goal) /\ top[2] = n
    BY DEF Visiting, AtTop
  <2> QED
    BY <2>1, SearchTypes DEF SearchInv, HeapComplete
<1>5. ASSUME NEW m \in Known(v) \ v.visited
      PROVE  <<v.score[m] + Straight[m][goal], m>> \in v.heap
  <2>1. CASE m \in DOMAIN E
    <3>1. E[m] \in B /\ To[E[m]] = m /\ v.score[m] = s.score[n] + Minutes[E[m]]
      BY <2>1, <1>2, <1>3
    <3>2. <<s.score[n] + Minutes[E[m]] + Straight[To[E[m]]][goal], To[E[m]]>> \in new
      BY <3>1 DEF Entries
    <3> HIDE DEF new
    <3> QED
      BY <3>1, <3>2, <1>2
  <2>2. CASE m \notin DOMAIN E
    <3>1. m \in Known(s) \ s.visited /\ m # n /\ v.score[m] = s.score[m]
      BY <2>2, <1>1, <1>2
    <3>2. <<s.score[m] + Straight[m][goal], m>> \in s.heap
      BY <3>1, <1>4
    <3>3. <<s.score[m] + Straight[m][goal], m>> # top
      BY <3>1, <1>4
    <3> HIDE DEF new
    <3> QED
      BY <3>1, <3>2, <3>3, <1>2
  <2> QED
    BY <2>1, <2>2
<1>6. ASSUME NEW x \in v.heap
      PROVE  x[2] \in Known(v) /\ v.score[x[2]] + Straight[x[2]][goal] <= x[1]
  <2>1. CASE x \in s.heap
    <3>1. x[2] \in Known(s) /\ s.score[x[2]] + Straight[x[2]][goal] <= x[1] /\ x[1] \in Nat
      BY <2>1, <1>4
    <3>2. v.score[x[2]] <= s.score[x[2]] /\ s.score[x[2]] \in Nat /\ v.score[x[2]] \in Nat
      BY <3>1, <1>1, <1>2
    <3>3. Straight[x[2]][goal] \in Nat
      BY <3>1, <1>1, GraphTypes
    <3> QED
      BY <3>1, <3>2, <3>3, <1>1
  <2>2. CASE x \in new
    <3>1. PICK e \in B : x = <<s.score[n] + Minutes[e] + Straight[To[e]][goal], To[e]>>
      BY <2>2 DEF Entries
    <3>2. To[e] \in DOMAIN E /\ Minutes[E[To[e]]] = Minutes[e]
      BY <1>3
    <3>3. v.score[To[e]] = s.score[n] + Minutes[e]
      BY <3>2, <1>2
    <3>4. s.score[n] \in Nat /\ Minutes[e] \in Nat /\ Straight[To[e]][goal] \in Nat
      BY <1>1, <1>3, GraphTypes
    <3> QED
      BY <3>1, <3>2, <3>3, <3>4, <1>1
  <2> HIDE DEF new
  <2> QED
    BY <2>1, <2>2, <1>2
<1> QED
  BY <1>5, <1>6 DEF HeapComplete

LEMMA VisitCameFrom ==
    ASSUME NEW open \in SUBSET Edges, NEW start \in Nodes, NEW goal \in Nodes,
           NEW v, NEW s, NEW top, NEW n, NEW E, NEW B,
           Visiting(v, s, open, start, goal, top, n, E, B)
    PROVE  CameFrom(v, start)
<1>1. /\ v.visited = s.visited \cup {n}
      /\ Known(v) = DOMAIN E \cup Known(s)
      /\ \A m \in v.visited : v.score[m] = s.score[m]
      /\ v.score[n] = s.score[n]
  <2>1. VisitFacts(v, s, start, n, E)
    BY VisitHasFacts
  <2> QED
    BY <2>1 DEF VisitFacts
<1>2. /\ \A m \in DOMAIN E : v.score[m] = s.score[n] + Minutes[E[m]] /\ v.from[m] = E[m]
      /\ \A m \in Known(s) \ DOMAIN E : v.score[m] = s.score[m]
      /\ \A m \in Known(s) \ (DOMAIN E \cup {start}) : v.from[m] = s.from[m]
  BY DEF Visiting, VisitResult
<1>3. /\ \A e \in B : From[e] = n
      /\ \A m \in DOMAIN E : E[m] \in B /\ To[E[m]] = m
  BY DEF Visiting, VisitParts
<1>4. CameFrom(s, start)
  BY DEF Visiting, AtTop, SearchInv
<1> SUFFICES ASSUME NEW m \in Known(v) \ {start}
             PROVE  /\ To[v.from[m]] = m /\ From[v.from[m]] \in v.visited
                    /\ v.score[m] = v.score[From[v.from[m]]] + Minutes[v.from[m]]
  BY DEF CameFrom
<1>5. CASE m \in DOMAIN E
  BY <1>1, <1>2, <1>3, <1>5
<1>6. CASE m \notin DOMAIN E
  <2>1. v.from[m] = s.from[m] /\ v.score[m] = s.score[m] /\ m \in Known(s) \ {start}
    BY <1>1, <1>2, <1>6
  <2>2. /\ To[s.from[m]] = m /\ From[s.from[m]] \in s.visited
        /\ s.score[m] = s.score[From[s.from[m]]] + Minutes[s.from[m]]
    BY <2>1, <1>4 DEF CameFrom
  <2> QED
    BY <2>1, <2>2, <1>1
<1> QED
  BY <1>5, <1>6

LEMMA VisitRelaxed ==
    ASSUME NEW open \in SUBSET Edges, NEW start \in Nodes, NEW goal \in Nodes,
           NEW v, NEW s, NEW top, NEW n, NEW E, NEW B,
           Visiting(v, s, open, start, goal, top, n, E, B), B = Better(s, open, n)
    PROVE  Relaxed(v, open)
<1>1. /\ Known(s) \subseteq Nodes
      /\ s.score \in [Known(s) -> Nat] /\ v.score \in [Known(v) -> Nat]
      /\ n \in Known(s) /\ s.visited \subseteq Known(s)
      /\ v.visited = s.visited \cup {n}
      /\ Known(v) = DOMAIN E \cup Known(s)
      /\ \A m \in v.visited : v.score[m] = s.score[m]
      /\ v.score[n] = s.score[n]
  <2>1. VisitFacts(v, s, start, n, E)
    BY VisitHasFacts
  <2> QED
    BY <2>1 DEF VisitFacts
<1>2. /\ \A m \in DOMAIN E : v.score[m] = s.score[n] + Minutes[E[m]]
      /\ \A m \in Known(s) : v.score[m] <= s.score[m]
  BY DEF Visiting, VisitResult
<1>3. /\ B \subseteq open
      /\ DOMAIN E = {To[e] : e \in B}
      /\ \A e \in B : Minutes[E[To[e]]] = Minutes[e]
  BY DEF Visiting, VisitParts
<1>4. Relaxed(s, open)
  BY DEF Visiting, AtTop, SearchInv
<1> SUFFICES ASSUME NEW e \in open, From[e] \in v.visited
             PROVE  To[e] \in Known(v) /\ v.score[To[e]] <= v.score[From[e]] + Minutes[e]
  BY DEF Relaxed
<1>5. Minutes[e] \in Nat
  BY GraphTypes
<1>6. CASE From[e] \in s.visited
  <2>1. To[e] \in Known(s) /\ s.score[To[e]] <= s.score[From[e]] + Minutes[e]
    BY <1>4, <1>6 DEF Relaxed
  <2>2. v.score[From[e]] = s.score[From[e]] /\ s.score[From[e]] \in Nat
    BY <1>1, <1>6
  <2>3. v.score[To[e]] <= s.score[To[e]] /\ s.score[To[e]] \in Nat /\ v.score[To[e]] \in Nat
    BY <2>1, <1>1, <1>2
  <2> QED
    BY <2>1, <2>2, <2>3, <1>1, <1>5
<1>7. CASE From[e] = n
  <2>1. PICK f \in open : /\ From[f] = From[e] /\ To[f] = To[e] /\ Minutes[f] <= Minutes[e]
                          /\ \A g \in open : From[g] = From[f] /\ To[g] = To[f] => Minutes[f] <= Minutes[g]
    BY FastestEdge
  <2>2. Minutes[f] \in Nat /\ s.score[n] \in Nat
    BY <1>1, GraphTypes
  <2>3. CASE f \in B
    <3>1. To[e] \in DOMAIN E /\ Minutes[E[To[e]]] = Minutes[f]
      BY <2>1, <2>3, <1>3
    <3>2. v.score[To[e]] = s.score[n] + Minutes[f]
      BY <3>1, <1>2
    <3> QED
      BY <3>1, <3>2, <2>1, <2>2, <1>1, <1>5, <1>7
  <2>4. CASE f \notin B
    <3>1. ~Improves(s, To[f], s.score[n] + Minutes[f])
      BY <2>1, <2>4, <1>7 DEF Better
    <3>2. To[f] \in Known(s) /\ ~(s.score[n] + Minutes[f] < s.score[To[f]])
      BY <3>1 DEF Improves, Known
    <3>3. v.score[To[f]] <= s.score[To[f]] /\ s.score[To[f]] \in Nat /\ v.score[To[f]] \in Nat
      BY <3>2, <1>1, <1>2
    <3> QED
      BY <3>2, <3>3, <2>1, <2>2, <1>1, <1>5, <1>7
  <2> QED
    BY <2>3, <2>4
<1> QED
  BY <1>1, <1>6, <1>7

LEMMA VisitVisitedFirst ==
    ASSUME NEW open \in SUBSET Edges, NEW start \in Nodes, NEW goal \in Nodes,
           NEW v, NEW s, NEW top, NEW n, NEW E, NEW B,
           Visiting(v, s, open, start, goal, top, n, E, B)
    PROVE  VisitedFirst(v, goal)
<1>1. /\ Known(s) \subseteq Nodes
      /\ s.score \in [Known(s) -> Nat]
      /\ n \in Known(s) /\ s.visited \subseteq Known(s)
      /\ v.visited = s.visited \cup {n}
      /\ \A m \in v.visited : v.score[m] = s.score[m]
  <2>1. VisitFacts(v, s, start, n, E)
    BY VisitHasFacts
  <2> QED
    BY <2>1 DEF VisitFacts
<1>2. v.heap = (s.heap \ {top}) \cup Entries(s, n, goal, B)
  BY DEF Visiting, VisitResult
<1>3. B \subseteq open /\ \A e \in B : From[e] = n
  BY DEF Visiting, VisitParts
<1>4. /\ \A x \in s.heap : s.score[n] + Straight[n][goal] <= x[1]
      /\ \A m \in s.visited : s.score[m] + Straight[m][goal] <= s.score[n] + Straight[n][goal]
  BY TopIsExact DEF Visiting
<1>5. s.heap \in SUBSET (Nat \X Nodes)
  BY SearchTypes DEF Visiting, AtTop, SearchInv
<1> SUFFICES ASSUME NEW m \in v.visited, NEW x \in v.heap
             PROVE  v.score[m] + Straight[m][goal] <= x[1]
  BY DEF VisitedFirst
<1>6. m \in Known(s) /\ m \in Nodes /\ v.score[m] = s.score[m] /\ s.score[m] \in Nat
  BY <1>1
<1>7. Straight[m][goal] \in Nat /\ Straight[n][goal] \in Nat /\ s.score[n] \in Nat
  BY <1>1, <1>6, GraphTypes
<1>8. s.score[m] + Straight[m][goal] <= s.score[n] + Straight[n][goal]
  BY <1>1, <1>4, <1>6, <1>7
<1>9. s.score[n] + Straight[n][goal] <= x[1] /\ x[1] \in Nat
  <2>1. CASE x \in s.heap
    BY <2>1, <1>4, <1>5
  <2>2. CASE x \in Entries(s, n, goal, B)
    <3>1. PICK e \in B : x = <<s.score[n] + Minutes[e] + Straight[To[e]][goal], To[e]>>
      BY <2>2 DEF Entries
    <3>2. e \in Edges /\ From[e] = n
      BY <1>3
    <3>3. /\ Minutes[e] \in Nat /\ Straight[To[e]][goal] \in Nat
          /\ Straight[n][goal] <= Minutes[e] + Straight[To[e]][goal]
      BY <3>2, GraphTypes
    <3> QED
      BY <3>1, <3>3, <1>7
  <2> QED
    BY <2>1, <2>2, <1>2
<1> QED
  BY <1>6, <1>7, <1>8, <1>9

LEMMA VisitRanked ==
    ASSUME NEW open \in SUBSET Edges, NEW start \in Nodes, NEW goal \in Nodes,
           NEW v, NEW s, NEW top, NEW n, NEW E, NEW B,
           Visiting(v, s, open, start, goal, top, n, E, B)
    PROVE  Ranked(v, start)
<1>1. /\ Known(s) \subseteq Nodes /\ Known(v) \subseteq Nodes
      /\ n \in Known(s) /\ s.visited \subseteq Known(s)
      /\ v.visited = s.visited \cup {n} /\ n \notin s.visited
      /\ Known(v) = DOMAIN E \cup Known(s)
      /\ \A m \in v.visited : m \notin DOMAIN E
  <2>1. VisitFacts(v, s, start, n, E)
    BY VisitHasFacts
  <2> QED
    BY <2>1 DEF VisitFacts
<1>2. /\ \A m \in DOMAIN E : v.from[m] = E[m]
      /\ \A m \in Known(s) \ (DOMAIN E \cup {start}) : v.from[m] = s.from[m]
  BY DEF Visiting, VisitResult
<1>3. \A m \in DOMAIN E : From[E[m]] = n
  BY DEF Visiting, VisitParts
<1>4. PICK rank \in [Nodes -> Nat] : Ranks(rank, s, start)
  BY DEF Visiting, AtTop, SearchInv, Ranked
<1>5. CameFrom(s, start)
  BY DEF Visiting, AtTop, SearchInv
<1> DEFINE c == Cardinality(s.visited)
           next == [m \in Nodes |-> IF m \in v.visited THEN rank[m] ELSE c + 1]
<1>6. c \in Nat /\ Cardinality(v.visited) = c + 1
  <2>1. IsFiniteSet(Nodes) /\ s.visited \in SUBSET Nodes
    BY <1>1, RoutingAssumption
  <2>2. IsFiniteSet(s.visited)
    BY <2>1, FS_Subset
  <2> QED
    BY <2>2, <1>1, FS_CardinalityType, FS_AddElement
<1>7. /\ \A m \in Nodes \ s.visited : rank[m] = c
      /\ \A m \in s.visited : rank[m] < c
      /\ \A m \in Known(s) \ {start} : rank[From[s.from[m]]] < rank[m]
  BY <1>4 DEF Ranks
<1> HIDE DEF c
<1>8. \A m \in Nodes \ v.visited : next[m] = c + 1
  OBVIOUS
<1>9. v.visited \subseteq Nodes /\ \A m \in v.visited : next[m] = rank[m] /\ rank[m] \in Nat /\ rank[m] <= c
  <2>1. \A m \in v.visited : m \in Nodes /\ rank[m] \in Nat
    BY <1>1, <1>4
  <2>2. \A m \in v.visited : rank[m] <= c
    BY <2>1, <1>1, <1>6, <1>7
  <2> QED
    BY <2>1, <2>2
<1>10. next \in [Nodes -> Nat]
  BY <1>4, <1>6
<1> HIDE DEF next
<1>11. \A m \in v.visited : next[m] < c + 1
  BY <1>6, <1>9
<1>12. ASSUME NEW m \in Known(v) \ {start} PROVE next[From[v.from[m]]] < next[m]
  <2>1. CASE m \in DOMAIN E
    <3>1. From[v.from[m]] = n /\ n \in v.visited /\ m \in Nodes \ v.visited
      BY <2>1, <1>1, <1>2, <1>3
    <3>2. next[n] < c + 1 /\ next[m] = c + 1
      BY <3>1, <1>8, <1>11
    <3> QED
      BY <3>1, <3>2
  <2>2. CASE m \notin DOMAIN E
    <3>1. m \in Known(s) \ {start} /\ v.from[m] = s.from[m]
      BY <2>2, <1>1, <1>2
    <3>2. From[s.from[m]] \in s.visited /\ rank[From[s.from[m]]] < rank[m] /\ rank[From[s.from[m]]] < c
      BY <3>1, <1>5, <1>7 DEF CameFrom
    <3>3. From[s.from[m]] \in v.visited /\ next[From[s.from[m]]] = rank[From[s.from[m]]]
          /\ rank[From[s.from[m]]] \in Nat
      BY <3>2, <1>1, <1>9
    <3>4. CASE m \in v.visited
      BY <3>1, <3>2, <3>3, <3>4, <1>9
    <3>5. CASE m \notin v.visited
      <4>1. next[m] = c + 1
        BY <3>5, <1>1, <1>8
      <4> QED
        BY <4>1, <3>1, <3>2, <3>3, <1>6
    <3> QED
      BY <3>4, <3>5
  <2> QED
    BY <2>1, <2>2
<1>13. Ranks(next, v, start)
  BY <1>6, <1>8, <1>11, <1>12 DEF Ranks
<1> QED
  BY <1>10, <1>13 DEF Ranked

\* A visit keeps the invariant of the search.
LEMMA VisitKeepsSearch ==
    ASSUME NEW open \in SUBSET Edges, NEW start \in Nodes, NEW goal \in Nodes,
           NEW s, NEW top, NEW n, AtTop(s, open, start, goal, top, n), n # goal
    PROVE  SearchInv(Visit([s EXCEPT !.heap = @ \ {top}], open, n, goal), open, start, goal)
<1> DEFINE v == Visit([s EXCEPT !.heap = @ \ {top}], open, n, goal)
           E == EdgeTo(s, open, n)
           B == Better(s, open, n)
<1>1. VisitParts(s, open, start, n, E, B)
  BY VisitHasParts
<1>2. VisitResult(v, s, open, start, goal, top, n, E, B)
  BY VisitHasResult
<1>3. B = Better(s, open, n)
  OBVIOUS
<1> HIDE DEF v, E, B
<1>4. Visiting(v, s, open, start, goal, top, n, E, B)
  BY <1>1, <1>2 DEF Visiting
<1>5. Typed(v, open, start, goal)
  BY <1>4, VisitTyped
<1>6. HeapComplete(v, goal)
  BY <1>4, VisitHeapComplete
<1>7. CameFrom(v, start)
  BY <1>4, VisitCameFrom
<1>8. Relaxed(v, open)
  BY <1>3, <1>4, VisitRelaxed
<1>9. VisitedFirst(v, goal)
  BY <1>4, VisitVisitedFirst
<1>10. Ranked(v, start)
  BY <1>4, VisitRanked
<1> QED
  BY <1>5, <1>6, <1>7, <1>8, <1>9, <1>10 DEF SearchInv, v

\* Taking the entry of a visited node off the heap keeps the invariant.
LEMMA SkipKeepsSearch ==
    ASSUME NEW open \in SUBSET Edges, NEW start \in Nodes, NEW goal \in Nodes,
           NEW s, SearchInv(s, open, start, goal),
           NEW top, top[2] \in s.visited,
           NEW v, v = [s EXCEPT !.heap = @ \ {top}]
    PROVE  SearchInv(v, open, start, goal)
<1>1. /\ s.score \in [Known(s) -> Nat]
      /\ s.heap \in SUBSET (Nat \X Nodes)
      /\ s = [score |-> s.score, from |-> s.from, heap |-> s.heap, visited |-> s.visited]
  BY SearchTypes DEF SearchInv
<1>2. /\ v.score = s.score /\ v.from = s.from /\ v.heap = s.heap \ {top} /\ v.visited = s.visited
      /\ v = [score |-> v.score, from |-> v.from, heap |-> v.heap, visited |-> v.visited]
  BY <1>1
<1>3. Known(v) = Known(s)
  BY <1>2 DEF Known
<1>4. Typed(v, open, start, goal)
  <2>1. Typed(s, open, start, goal)
    BY DEF SearchInv
  <2>2. IsFiniteSet(v.heap)
    BY <2>1, <1>2, FS_Subset DEF Typed
  <2>3. v \in SearchStates(open)
    <3>1. /\ s.score \in UNION {[D -> Nat] : D \in SUBSET Nodes}
          /\ s.from \in UNION {[D -> open] : D \in SUBSET Nodes}
          /\ s.visited \in SUBSET Nodes
      BY <2>1 DEF Typed, SearchStates
    <3>2. v.heap \in SUBSET (Nat \X Nodes)
      BY <1>1, <1>2
    <3> QED
      BY <3>1, <3>2, <1>2 DEF SearchStates
  <2> QED
    BY <2>1, <2>2, <2>3, <1>2, <1>3 DEF Typed
<1>5. HeapComplete(v, goal)
  <2>1. HeapComplete(s, goal)
    BY DEF SearchInv
  <2>2. ASSUME NEW m \in Known(s) \ s.visited
        PROVE  <<s.score[m] + Straight[m][goal], m>> \in s.heap \ {top}
    <3>1. <<s.score[m] + Straight[m][goal], m>> \in s.heap
      BY <2>1 DEF HeapComplete
    <3>2. <<s.score[m] + Straight[m][goal], m>> # top
      OBVIOUS
    <3> QED
      BY <3>1, <3>2
  <2>3. \A x \in s.heap \ {top} : x[2] \in Known(s) /\ s.score[x[2]] + Straight[x[2]][goal] <= x[1]
    BY <2>1 DEF HeapComplete
  <2> QED
    BY <2>2, <2>3, <1>2, <1>3, Zenon DEF HeapComplete
<1>6. CameFrom(v, start)
  BY <1>2, <1>3 DEF SearchInv, CameFrom
<1>7. Relaxed(v, open)
  BY <1>2, <1>3 DEF SearchInv, Relaxed
<1>8. VisitedFirst(v, goal)
  BY <1>2 DEF SearchInv, VisitedFirst
<1>9. Ranked(v, start)
  BY <1>2, <1>3 DEF SearchInv, Ranked, Ranks
<1> QED
  BY <1>4, <1>5, <1>6, <1>7, <1>8, <1>9 DEF SearchInv

\* The loop has ended: the heap is empty, or the goal is next.
Ended(s, goal) ==
    s.heap = {} \/ (Best(s.heap)[2] \notin s.visited /\ Best(s.heap)[2] = goal)

\* The turns that are left, at most: an edge is looked at once.
Ahead(s) == {e \in Edges : From[e] \notin s.visited}

Work(s) == Cardinality(s.heap) + Cardinality(Ahead(s))

LEMMA WorkType ==
    ASSUME NEW open \in SUBSET Edges, NEW start \in Nodes, NEW goal \in Nodes,
           NEW s, SearchInv(s, open, start, goal)
    PROVE  /\ IsFiniteSet(s.heap) /\ IsFiniteSet(Ahead(s))
           /\ Cardinality(s.heap) \in Nat /\ Cardinality(Ahead(s)) \in Nat
<1>1. IsFiniteSet(s.heap)
  BY DEF SearchInv, Typed
<1>2. IsFiniteSet(Ahead(s))
  <2>1. IsFiniteSet(Edges) /\ Ahead(s) \in SUBSET Edges
    BY RoutingAssumption DEF Ahead
  <2> QED
    BY <2>1, FS_Subset
<1> QED
  BY <1>1, <1>2, FS_CardinalityType

\* A visit takes the edges of the node out of the work for at least as many entries.
LEMMA VisitProgress ==
    ASSUME NEW open \in SUBSET Edges, NEW start \in Nodes, NEW goal \in Nodes,
           NEW s, NEW top, NEW n, AtTop(s, open, start, goal, top, n), n # goal,
           NEW v, v = Visit([s EXCEPT !.heap = @ \ {top}], open, n, goal)
    PROVE  Work(v) < Work(s)
<1> DEFINE E == EdgeTo(s, open, n)
           B == Better(s, open, n)
<1>1. VisitParts(s, open, start, n, E, B)
  BY VisitHasParts
<1>2. VisitResult(v, s, open, start, goal, top, n, E, B)
  BY VisitHasResult
<1>3. SearchInv(s, open, start, goal)
  BY DEF AtTop
<1> HIDE DEF E, B
<1>4. B \subseteq open /\ \A e \in B : From[e] = n
  BY <1>1 DEF VisitParts
<1>5. /\ v.heap = (s.heap \ {top}) \cup Entries(s, n, goal, B)
      /\ v.visited = s.visited \cup {n}
  BY <1>2 DEF VisitResult
<1>6. top \in s.heap /\ n \notin s.visited
  BY TopIsExact DEF AtTop
<1>7. /\ IsFiniteSet(s.heap) /\ IsFiniteSet(Ahead(s))
      /\ Cardinality(s.heap) \in Nat /\ Cardinality(Ahead(s)) \in Nat
  BY <1>3, WorkType
<1>8. IsFiniteSet(B) /\ Cardinality(B) \in Nat
  <2>1. IsFiniteSet(Edges) /\ B \in SUBSET Edges
    BY <1>4, RoutingAssumption
  <2>2. IsFiniteSet(B)
    BY <2>1, FS_Subset
  <2> QED
    BY <2>2, FS_CardinalityType
<1>9. Cardinality(v.heap) <= Cardinality(s.heap) - 1 + Cardinality(B) /\ Cardinality(v.heap) \in Nat
  <2> DEFINE H == s.heap \ {top}
             N == Entries(s, n, goal, B)
  <2>1. IsFiniteSet(H) /\ Cardinality(H) = Cardinality(s.heap) - 1
    BY <1>6, <1>7, FS_RemoveElement
  <2>2. IsFiniteSet(N) /\ Cardinality(N) <= Cardinality(B)
    BY <1>8, EntriesFinite
  <2> HIDE DEF H, N
  <2>3. IsFiniteSet(H \cup N) /\ Cardinality(H \cup N) = Cardinality(H) + Cardinality(N) - Cardinality(H \cap N)
    BY <2>1, <2>2, FS_Union
  <2>4. IsFiniteSet(H \cap N)
    BY <2>1, FS_Intersection
  <2>5. Cardinality(H \cap N) \in Nat /\ Cardinality(H) \in Nat /\ Cardinality(N) \in Nat
        /\ Cardinality(H \cup N) \in Nat
    BY <2>1, <2>2, <2>3, <2>4, FS_CardinalityType
  <2>6. v.heap = H \cup N
    BY <1>5 DEF H, N
  <2>7. Cardinality(v.heap) = Cardinality(H \cup N)
    BY <2>6, Zenon
  <2>8. Cardinality(H \cup N) <= Cardinality(s.heap) - 1 + Cardinality(B)
    BY <2>1, <2>2, <2>3, <2>5, <1>7, <1>8
  <2> QED
    BY <2>5, <2>7, <2>8, Zenon
<1>10. Cardinality(Ahead(v)) + Cardinality(B) <= Cardinality(Ahead(s)) /\ Cardinality(Ahead(v)) \in Nat
  <2>1. Ahead(v) \subseteq Ahead(s) /\ Ahead(v) \cap B = {} /\ B \subseteq Ahead(s)
    BY <1>4, <1>5, <1>6 DEF Ahead
  <2>2. IsFiniteSet(Ahead(v)) /\ Cardinality(Ahead(v)) \in Nat
    BY <2>1, <1>7, FS_Subset, FS_CardinalityType
  <2>3. Cardinality(Ahead(v) \cup B) = Cardinality(Ahead(v)) + Cardinality(B) - Cardinality(Ahead(v) \cap B)
    BY <2>2, <1>8, FS_Union
  <2>4. Cardinality(Ahead(v) \cap B) = 0
    BY <2>1, FS_EmptySet
  <2>5. Cardinality(Ahead(v) \cup B) <= Cardinality(Ahead(s))
    <3>1. Ahead(v) \cup B \in SUBSET Ahead(s)
      BY <2>1
    <3> QED
      BY <3>1, <1>7, FS_Subset
  <2> QED
    BY <2>2, <2>3, <2>4, <2>5, <1>8
<1> QED
  BY <1>7, <1>8, <1>9, <1>10 DEF Work

\* A turn of the loop keeps the invariant, and brings its end nearer.
LEMMA TurnKeepsSearch ==
    ASSUME NEW open \in SUBSET Edges, NEW start \in Nodes, NEW goal \in Nodes,
           NEW s, SearchInv(s, open, start, goal)
    PROVE  /\ SearchInv(Turn(s, open, goal), open, start, goal)
           /\ Ended(s, goal) => Turn(s, open, goal) = s
           /\ ~Ended(s, goal) => Work(Turn(s, open, goal)) < Work(s)
<1> DEFINE top == Best(s.heap)
           rest == [s EXCEPT !.heap = @ \ {top}]
<1>1. CASE s.heap = {}
  BY <1>1 DEF Turn, Ended
<1>2. CASE s.heap # {} /\ top[2] \in s.visited
  <2>1. Turn(s, open, goal) = rest /\ ~Ended(s, goal)
    BY <1>2 DEF Turn, Ended
  <2>2. SearchInv(rest, open, start, goal)
    BY <1>2, SkipKeepsSearch
  <2>3. top \in s.heap
    BY <1>2, SearchTypes, BestIsLeast DEF SearchInv
  <2>4. rest.heap = s.heap \ {top} /\ rest.visited = s.visited
    BY SearchTypes DEF SearchInv
  <2> HIDE DEF rest, top
  <2>5. /\ IsFiniteSet(s.heap)
        /\ Cardinality(s.heap) \in Nat /\ Cardinality(Ahead(s)) \in Nat
    BY WorkType
  <2>6. Cardinality(rest.heap) = Cardinality(s.heap) - 1
    <3>1. Cardinality(s.heap \ {top}) = Cardinality(s.heap) - 1
      BY <2>3, <2>5, FS_RemoveElement
    <3> QED
      BY <3>1, <2>4, Zenon
  <2>7. Ahead(rest) = Ahead(s)
    BY <2>4 DEF Ahead
  <2> QED
    BY <2>1, <2>2, <2>5, <2>6, <2>7 DEF Work
<1>3. CASE s.heap # {} /\ top[2] \notin s.visited /\ top[2] = goal
  BY <1>3 DEF Turn, Ended
<1>4. CASE s.heap # {} /\ top[2] \notin s.visited /\ top[2] # goal
  <2> DEFINE n == top[2]
             v == Visit(rest, open, n, goal)
  <2>1. Turn(s, open, goal) = v /\ ~Ended(s, goal)
    BY <1>4 DEF Turn, Ended
  <2>2. AtTop(s, open, start, goal, top, n)
    BY <1>4 DEF AtTop
  <2>3. SearchInv(v, open, start, goal)
    BY <2>2, <1>4, VisitKeepsSearch
  <2>4. Work(v) < Work(s)
    BY <2>2, <1>4, VisitProgress
  <2> QED
    BY <2>1, <2>3, <2>4
<1> QED
  BY <1>1, <1>2, <1>3, <1>4

IsSearch(f, open, start, goal) ==
    f = [i \in 0 .. Cardinality(Edges) + 1 |->
            IF i = 0 THEN SearchFrom(start, goal) ELSE Turn(f[i - 1], open, goal)]

\* The search has ended after as many turns as there are edges, and one.
LEMMA SearchEnds ==
    ASSUME NEW open \in SUBSET Edges, NEW start \in Nodes, NEW goal \in Nodes
    PROVE  /\ SearchInv(Search(open, start, goal), open, start, goal)
           /\ Ended(Search(open, start, goal), goal)
<1> DEFINE n == Cardinality(Edges) + 1
           S == {s \in SearchStates(open) : SearchInv(s, open, start, goal)}
           b == SearchFrom(start, goal)
           step == [x \in (1 .. n) \X S |-> Turn(x[2], open, goal)]
<1>1. n \in Nat /\ Cardinality(Edges) \in Nat /\ IsFiniteSet(Edges)
  BY RoutingAssumption, FS_CardinalityType
<1>2. \A s : SearchInv(s, open, start, goal) => s \in S
  BY DEF SearchInv, Typed
<1>3. b \in S
  BY <1>2, SearchBegins
<1>4. \A s \in S : Turn(s, open, goal) \in S
  BY <1>2, TurnKeepsSearch
<1>5. step \in [(1 .. n) \X S -> S]
  BY <1>4
<1>6. \A i \in 1 .. n, s \in S : step[<<i, s>>] = Turn(s, open, goal)
  OBVIOUS
<1>7. \A s \in S : SearchInv(s, open, start, goal)
  OBVIOUS
<1> HIDE DEF S, step, n
<1>8. PICK f \in [0 .. n -> S] : Iterates(f, n, b, step)
  BY <1>1, <1>3, <1>5, Iteration
<1>9. \A i \in 1 .. n : f[i] = Turn(f[i - 1], open, goal)
  <2> TAKE i \in 1 .. n
  <2>1. f[i - 1] \in S
    BY <1>1
  <2> QED
    BY <2>1, <1>6, <1>8 DEF Iterates
<1>10. IsSearch(f, open, start, goal)
  <2>1. f[0] = b
    BY <1>8 DEF Iterates
  <2> QED
    BY <2>1, <1>9, <1>8 DEF IsSearch, n
<1>11. Search(open, start, goal) = (CHOOSE g : IsSearch(g, open, start, goal))[Cardinality(Edges) + 1]
  BY Zenon DEF Search, IsSearch
<1>12. PICK g : g[n] = Search(open, start, goal) /\ IsSearch(g, open, start, goal)
  BY <1>10, <1>11 DEF n
<1>13. g[0] = b /\ \A i \in 1 .. n : g[i] = Turn(g[i - 1], open, goal)
  <2>1. \A i \in 0 .. n : g[i] = IF i = 0 THEN b ELSE Turn(g[i - 1], open, goal)
    BY <1>12 DEF IsSearch, n
  <2> HIDE DEF b
  <2> QED
    BY <2>1, <1>1
<1> HIDE DEF b
<1> DEFINE G == {i \in 0 .. n : /\ SearchInv(g[i], open, start, goal)
                                /\ Ended(g[i], goal) \/ Work(g[i]) + i <= n}
<1>14. 0 \in G
  <2>1. SearchInv(g[0], open, start, goal)
    BY <1>3, <1>7, <1>13
  <2>2. Work(g[0]) + 0 <= n
    <3>1. g[0].heap = {<<Straight[start][goal], start>>} /\ g[0].visited = {}
      BY <1>13 DEF b, SearchFrom
    <3>2. Cardinality(g[0].heap) = 1 /\ Ahead(g[0]) = Edges
      BY <3>1, FS_Singleton DEF Ahead
    <3> QED
      BY <3>2, <1>1 DEF Work, n
  <2> QED
    BY <2>1, <2>2, <1>1
<1>15. ASSUME NEW i \in 1 .. n, i - 1 \in G PROVE i \in G
  <2>1. /\ SearchInv(g[i - 1], open, start, goal)
        /\ Ended(g[i - 1], goal) \/ Work(g[i - 1]) + (i - 1) <= n
        /\ g[i] = Turn(g[i - 1], open, goal)
    BY <1>13, <1>15
  <2>2. /\ SearchInv(g[i], open, start, goal)
        /\ Ended(g[i - 1], goal) => g[i] = g[i - 1]
        /\ ~Ended(g[i - 1], goal) => Work(g[i]) < Work(g[i - 1])
    BY <2>1, TurnKeepsSearch
  <2>3. Work(g[i]) \in Nat /\ Work(g[i - 1]) \in Nat
    BY <2>1, <2>2, WorkType DEF Work
  <2>4. Ended(g[i], goal) \/ Work(g[i]) + i <= n
    BY <2>1, <2>2, <2>3, <1>1
  <2> QED
    BY <2>2, <2>4
<1>16. \A i \in 0 .. n : i \in G
  <2> HIDE DEF G
  <2> QED
    BY <1>1, <1>14, <1>15, Induction
<1>17. SearchInv(g[n], open, start, goal) /\ (Ended(g[n], goal) \/ Work(g[n]) + n <= n)
  BY <1>1, <1>16
<1>18. Ended(g[n], goal)
  <2> SUFFICES ASSUME Work(g[n]) + n <= n PROVE g[n].heap = {}
    BY <1>17 DEF Ended
  <2>1. /\ IsFiniteSet(g[n].heap)
        /\ Cardinality(g[n].heap) \in Nat /\ Cardinality(Ahead(g[n])) \in Nat
    BY <1>17, WorkType
  <2>2. Cardinality(g[n].heap) = 0
    BY <2>1, <1>1 DEF Work
  <2> QED
    BY <2>1, <2>2, FS_EmptySet
<1> QED
  BY <1>12, <1>17, <1>18

\* Node i of a way: where it begins, and the ends of its edges.
NodeOn(start, way, i) == IF i = 0 THEN start ELSE To[way[i]]

Leads(way, open, start, goal) ==
    /\ way \in Seq(open)
    /\ \A i \in 1 .. Len(way) : From[way[i]] = NodeOn(start, way, i - 1)
    /\ NodeOn(start, way, Len(way)) = goal

LEMMA NodeOnType ==
    ASSUME NEW open \in SUBSET Edges, NEW start \in Nodes, NEW way \in Seq(open),
           NEW i \in 0 .. Len(way)
    PROVE  NodeOn(start, way, i) \in Nodes
<1>1. CASE i = 0
  BY <1>1 DEF NodeOn
<1>2. CASE i # 0
  <2>1. way[i] \in Edges
    BY <1>2
  <2> QED
    BY <2>1, <1>2, GraphTypes DEF NodeOn
<1> QED
  BY <1>1, <1>2

\* If there is a way, the search has reached the goal, with a score that is no greater.
LEMMA SearchBeats ==
    ASSUME NEW open \in SUBSET Edges, NEW start \in Nodes, NEW goal \in Nodes,
           NEW s, SearchInv(s, open, start, goal), Ended(s, goal),
           NEW way, Leads(way, open, start, goal)
    PROVE  goal \in Known(s) /\ s.score[goal] <= Total(Minutes, way)
<1> DEFINE n == Len(way)
           T == Cumulative(Minutes, way)
           N(i) == NodeOn(start, way, i)
           h(m) == Straight[m][goal]
<1>1. way \in Seq(open) /\ way \in Seq(Edges) /\ n \in Nat
  BY DEF Leads
<1>2. /\ T \in [0 .. n -> Nat] /\ T[0] = 0
      /\ \A i \in 1 .. n : T[i] = T[i - 1] + Minutes[way[i]]
  <2>1. Minutes \in [Edges -> Nat]
    BY RoutingAssumption
  <2> QED
    BY <2>1, <1>1, CumulativeUnfolds
<1>3. \A i \in 0 .. n : N(i) \in Nodes
  BY <1>1, NodeOnType
<1>4. /\ N(0) = start /\ N(n) = goal
      /\ \A i \in 1 .. n : /\ way[i] \in open /\ way[i] \in Edges
                           /\ From[way[i]] = N(i - 1) /\ To[way[i]] = N(i)
                           /\ N(i) \in Nodes /\ N(i - 1) \in Nodes /\ i - 1 \in 0 .. n
  <2>1. N(0) = start /\ N(n) = goal
    BY DEF Leads, NodeOn
  <2>2. ASSUME NEW i \in 1 .. n
        PROVE  /\ way[i] \in open /\ way[i] \in Edges
               /\ From[way[i]] = N(i - 1) /\ To[way[i]] = N(i)
               /\ N(i) \in Nodes /\ N(i - 1) \in Nodes /\ i - 1 \in 0 .. n
    <3>1. way[i] \in open /\ way[i] \in Edges
      BY <1>1
    <3>2. From[way[i]] = N(i - 1)
      BY DEF Leads
    <3>3. To[way[i]] = N(i)
      BY DEF NodeOn
    <3>4. i - 1 \in 0 .. n /\ i \in 0 .. n
      BY <1>1
    <3>5. N(i) \in Nodes /\ N(i - 1) \in Nodes
      BY <3>4, <1>3
    <3> QED
      BY <3>1, <3>2, <3>3, <3>4, <3>5
  <2> QED
    BY <2>1, <2>2
<1>5. /\ Known(s) \subseteq Nodes
      /\ s.score \in [Known(s) -> Nat]
      /\ s.heap \in SUBSET (Nat \X Nodes)
      /\ start \in Known(s) /\ s.score[start] = 0
      /\ s.visited \subseteq Known(s) /\ goal \notin s.visited
  BY SearchTypes DEF SearchInv, Typed
<1>6. /\ \A m \in Known(s) \ s.visited : <<s.score[m] + h(m), m>> \in s.heap
      /\ \A x \in s.heap : x[2] \in Known(s) /\ s.score[x[2]] + h(x[2]) <= x[1]
      /\ \A e \in open : From[e] \in s.visited =>
             To[e] \in Known(s) /\ s.score[To[e]] <= s.score[From[e]] + Minutes[e]
  BY DEF SearchInv, HeapComplete, Relaxed
<1> HIDE DEF n, T, N
<1>7. CASE s.heap = {}
  <2>1. Known(s) = s.visited
    BY <1>5, <1>6, <1>7
  <2> DEFINE G == {i \in 0 .. n : N(i) \in s.visited}
  <2>2. 0 \in G
    BY <2>1, <1>1, <1>4, <1>5
  <2>3. ASSUME NEW i \in 1 .. n, i - 1 \in G PROVE i \in G
    <3>1. N(i - 1) \in s.visited
      BY <2>3
    <3>2. N(i) \in Known(s)
      BY <3>1, <1>4, <1>6
    <3> QED
      BY <3>2, <2>1
  <2>4. \A i \in 0 .. n : i \in G
    <3> HIDE DEF G
    <3> QED
      BY <1>1, <2>2, <2>3, Induction
  <2>5. N(n) \in s.visited
    BY <2>4, <1>1
  <2> QED
    BY <2>5, <1>4, <1>5
<1>8. CASE s.heap # {} /\ Best(s.heap)[2] = goal
  <2>1. Best(s.heap) \in s.heap /\ \A x \in s.heap : Best(s.heap)[1] <= x[1]
    BY <1>5, <1>8, BestIsLeast
  <2>2. goal \in Known(s) /\ s.score[goal] + h(goal) <= Best(s.heap)[1]
    BY <2>1, <1>6, <1>8
  <2>3. h(goal) = 0
    BY RoutingAssumption
  <2>4. s.score[goal] \in Nat
    BY <2>2, <1>5
  <2>5. \A x \in s.heap : s.score[goal] <= x[1] /\ x[1] \in Nat
    <3> TAKE x \in s.heap
    <3>1. Best(s.heap)[1] \in Nat /\ x[1] \in Nat /\ Best(s.heap)[1] <= x[1]
      BY <2>1, <1>5
    <3> QED
      BY <3>1, <2>2, <2>3, <2>4
  <2> DEFINE Direct(i) == N(i) \in Known(s) /\ s.score[N(i)] <= T[i]
             Beaten(i) == s.score[goal] <= T[i] + h(N(i))
             G == {i \in 0 .. n : Direct(i) \/ Beaten(i)}
  <2>6. 0 \in G
    BY <1>1, <1>2, <1>4, <1>5
  <2>7. ASSUME NEW i \in 1 .. n, i - 1 \in G PROVE i \in G
    <3>1. /\ way[i] \in open /\ From[way[i]] = N(i - 1) /\ To[way[i]] = N(i)
          /\ Minutes[way[i]] \in Nat /\ h(N(i)) \in Nat /\ h(N(i - 1)) \in Nat
          /\ h(N(i - 1)) <= Minutes[way[i]] + h(N(i))
      BY <1>4, GraphTypes
    <3>2. T[i] = T[i - 1] + Minutes[way[i]] /\ T[i - 1] \in Nat /\ T[i] \in Nat
      BY <1>1, <1>2, <1>4
    <3>3. CASE Beaten(i - 1)
      <4>1. Beaten(i)
        BY <3>1, <3>2, <3>3, <2>4
      <4> QED
        BY <4>1
    <3>4. CASE Direct(i - 1) /\ N(i - 1) \in s.visited
      <4>1. N(i) \in Known(s) /\ s.score[N(i)] <= s.score[N(i - 1)] + Minutes[way[i]]
        BY <3>1, <3>4, <1>6
      <4>2. s.score[N(i)] \in Nat /\ s.score[N(i - 1)] \in Nat /\ s.score[N(i - 1)] <= T[i - 1]
        BY <4>1, <3>4, <1>5
      <4>3. Direct(i)
        BY <4>1, <4>2, <3>1, <3>2
      <4> QED
        BY <4>3
    <3>5. CASE Direct(i - 1) /\ N(i - 1) \notin s.visited
      <4> DEFINE x == <<s.score[N(i - 1)] + h(N(i - 1)), N(i - 1)>>
      <4>1. x \in s.heap
        BY <3>5, <1>6
      <4>2. s.score[goal] <= s.score[N(i - 1)] + h(N(i - 1))
        BY <4>1, <2>5
      <4>3. s.score[N(i - 1)] \in Nat /\ s.score[N(i - 1)] <= T[i - 1]
        BY <3>5, <1>5
      <4>4. Beaten(i)
        BY <4>2, <4>3, <3>1, <3>2, <2>4
      <4> QED
        BY <4>4
    <3> QED
      BY <2>7, <3>3, <3>4, <3>5
  <2>8. \A i \in 0 .. n : i \in G
    <3> HIDE DEF G
    <3> QED
      BY <1>1, <2>6, <2>7, Induction
  <2>9. Direct(n) \/ Beaten(n)
    BY <2>8, <1>1
  <2>10. T[n] \in Nat
    BY <1>1, <1>2
  <2>11. s.score[goal] <= T[n]
    BY <2>3, <2>4, <2>9, <2>10, <1>4
  <2> QED
    BY <2>2, <2>11 DEF T, n, Total
<1> QED
  BY <1>7, <1>8 DEF Ended

-----------------------------------------------------------------------------
(* The way back.                                                           *)

FirstNode(way, goal) == IF way = <<>> THEN goal ELSE From[way[1]]

\* A part of the way back, from where it has come to the goal.
Trail(way, s, open, rank, start, goal) ==
    /\ way \in Seq(open)
    /\ \A j \in 1 .. Len(way) : To[way[j]] \in Known(s) \ {start} /\ way[j] = s.from[To[way[j]]]
    /\ \A j \in 1 .. Len(way) - 1 : From[way[j + 1]] = To[way[j]]
    /\ way # <<>> => To[way[Len(way)]] = goal
    /\ FirstNode(way, goal) \in Known(s)
    /\ rank[FirstNode(way, goal)] + Len(way) <= Cardinality(s.visited)

Back(way, from, start, goal) ==
    LET n == FirstNode(way, goal)
    IN  IF n = start THEN way ELSE <<from[n]>> \o way

\* A step back leads to a node visited earlier.
LEMMA BackKeepsTrail ==
    ASSUME NEW open \in SUBSET Edges, NEW start \in Nodes, NEW goal \in Nodes,
           NEW s, SearchInv(s, open, start, goal),
           NEW rank \in [Nodes -> Nat], Ranks(rank, s, start),
           NEW way, Trail(way, s, open, rank, start, goal)
    PROVE  /\ Trail(Back(way, s.from, start, goal), s, open, rank, start, goal)
           /\ FirstNode(way, goal) = start => Back(way, s.from, start, goal) = way
           /\ FirstNode(way, goal) # start => Len(Back(way, s.from, start, goal)) = Len(way) + 1
<1> DEFINE n == FirstNode(way, goal)
           e == s.from[n]
           new == <<e>> \o way
<1>1. CASE n = start
  BY <1>1 DEF Back
<1>2. CASE n # start
  <2>1. Back(way, s.from, start, goal) = new
    BY <1>2 DEF Back
  <2>2. /\ way \in Seq(open) /\ n \in Known(s) \ {start}
        /\ rank[n] + Len(way) <= Cardinality(s.visited)
    BY <1>2 DEF Trail
  <2>3. e \in open
    <3>1. s.from \in [Known(s) \ {start} -> open]
      BY SearchTypes DEF SearchInv
    <3> QED
      BY <3>1, <2>2
  <2>4. To[e] = n /\ From[e] \in s.visited /\ rank[From[e]] < rank[n]
    BY <2>2 DEF SearchInv, CameFrom, Ranks
  <2>5. s.visited \subseteq Known(s) /\ Known(s) \subseteq Nodes
    BY SearchTypes DEF SearchInv, Typed
  <2>6. rank[From[e]] \in Nat /\ rank[n] \in Nat
    BY <2>2, <2>4, <2>5
  <2> HIDE DEF e
  <2>7. /\ new \in Seq(open) /\ Len(new) = Len(way) + 1 /\ new[1] = e
        /\ \A j \in 1 .. Len(way) : new[j + 1] = way[j]
        /\ new # <<>>
    BY <2>2, <2>3
  <2>8. \A j \in 2 .. Len(new) : j - 1 \in 1 .. Len(way) /\ new[j] = way[j - 1]
    <3> TAKE j \in 2 .. Len(new)
    <3>1. j - 1 \in 1 .. Len(way) /\ (j - 1) + 1 = j
      BY <2>2, <2>7
    <3> QED
      BY <3>1, <2>7
  <2> HIDE DEF new
  <2>9. ASSUME NEW j \in 1 .. Len(new)
        PROVE  To[new[j]] \in Known(s) \ {start} /\ new[j] = s.from[To[new[j]]]
    <3>1. CASE j = 1
      BY <3>1, <2>2, <2>4, <2>7 DEF e
    <3>2. CASE j # 1
      <4>1. j \in 2 .. Len(new)
        BY <3>2, <2>2, <2>7
      <4> QED
        BY <4>1, <2>8 DEF Trail
    <3> QED
      BY <3>1, <3>2
  <2>10. ASSUME NEW j \in 1 .. Len(new) - 1
         PROVE  From[new[j + 1]] = To[new[j]]
    <3>1. j \in 1 .. Len(way) /\ new[j + 1] = way[j]
      BY <2>2, <2>7
    <3>2. CASE j = 1
      <4>1. way # <<>>
        BY <2>2, <3>1
      <4>2. From[way[1]] = n
        BY <4>1 DEF FirstNode
      <4> QED
        BY <4>2, <3>1, <3>2, <2>4, <2>7
    <3>3. CASE j # 1
      <4>1. j \in 2 .. Len(new) /\ j - 1 \in 1 .. Len(way) - 1 /\ (j - 1) + 1 = j
        BY <2>2, <3>1, <3>3, <2>7
      <4>2. new[j] = way[j - 1]
        BY <4>1, <2>8
      <4>3. From[way[(j - 1) + 1]] = To[way[j - 1]]
        BY <4>1 DEF Trail
      <4> QED
        BY <4>1, <4>2, <4>3, <3>1
    <3> QED
      BY <3>2, <3>3
  <2>11. To[new[Len(new)]] = goal
    <3>1. CASE way = <<>>
      BY <3>1, <2>4, <2>7 DEF FirstNode
    <3>2. CASE way # <<>>
      <4>1. Len(way) \in 1 .. Len(way)
        BY <3>2, <2>2
      <4> QED
        BY <4>1, <3>2, <2>7 DEF Trail
    <3> QED
      BY <3>1, <3>2
  <2>12. FirstNode(new, goal) = From[e]
    BY <2>7 DEF FirstNode
  <2>13. rank[From[e]] + Len(new) <= Cardinality(s.visited)
    <3>1. IsFiniteSet(s.visited)
      <4>1. IsFiniteSet(Nodes) /\ s.visited \in SUBSET Nodes
        BY <2>5, RoutingAssumption
      <4> QED
        BY <4>1, FS_Subset
    <3>2. Cardinality(s.visited) \in Nat /\ Len(way) \in Nat
      BY <3>1, <2>2, FS_CardinalityType
    <3> QED
      BY <3>2, <2>2, <2>4, <2>6, <2>7
  <2>14. Trail(new, s, open, rank, start, goal)
    BY <2>4, <2>5, <2>7, <2>9, <2>10, <2>11, <2>12, <2>13 DEF Trail
  <2> QED
    BY <2>1, <2>7, <2>14, <1>2
<1> QED
  BY <1>1, <1>2

IsWayBack(f, from, start, goal) ==
    f = [i \in 0 .. Cardinality(Nodes) |-> IF i = 0 THEN <<>> ELSE Back(f[i - 1], from, start, goal)]

\* A trail that begins at the start is a way, whose time is the score of the goal.
LEMMA TrailIsWay ==
    ASSUME NEW open \in SUBSET Edges, NEW start \in Nodes, NEW goal \in Nodes,
           NEW s, SearchInv(s, open, start, goal),
           NEW rank \in [Nodes -> Nat],
           NEW way, Trail(way, s, open, rank, start, goal), FirstNode(way, goal) = start
    PROVE  Leads(way, open, start, goal) /\ Total(Minutes, way) = s.score[goal]
<1> DEFINE n == Len(way)
           T == Cumulative(Minutes, way)
           N(i) == NodeOn(start, way, i)
<1>1. way \in Seq(open) /\ way \in Seq(Edges) /\ n \in Nat
  BY DEF Trail
<1>2. /\ T \in [0 .. n -> Nat] /\ T[0] = 0
      /\ \A i \in 1 .. n : T[i] = T[i - 1] + Minutes[way[i]]
  <2>1. Minutes \in [Edges -> Nat]
    BY RoutingAssumption
  <2> QED
    BY <2>1, <1>1, CumulativeUnfolds
<1>3. ASSUME NEW i \in 1 .. n PROVE From[way[i]] = N(i - 1)
  <2>1. CASE i = 1
    <3>1. way # <<>>
      BY <1>1
    <3> QED
      BY <3>1, <2>1 DEF FirstNode, NodeOn
  <2>2. CASE i # 1
    <3>1. i - 1 \in 1 .. n - 1 /\ (i - 1) + 1 = i /\ i - 1 # 0
      BY <2>2, <1>1
    <3>2. From[way[(i - 1) + 1]] = To[way[i - 1]]
      BY <3>1 DEF Trail
    <3> QED
      BY <3>1, <3>2 DEF NodeOn
  <2> QED
    BY <2>1, <2>2
<1>4. N(n) = goal
  <2>1. CASE way = <<>>
    BY <2>1 DEF NodeOn, FirstNode
  <2>2. CASE way # <<>>
    BY <1>1, <2>2 DEF NodeOn, Trail
  <2> QED
    BY <2>1, <2>2
<1>5. \A i \in 1 .. n : N(i) = To[way[i]] /\ N(i) \in Known(s) \ {start} /\ way[i] = s.from[N(i)]
  BY <1>1 DEF NodeOn, Trail
<1>6. N(0) = start
  BY DEF NodeOn
<1> HIDE DEF N, T, n
<1>7. /\ s.score[start] = 0 /\ CameFrom(s, start)
  BY DEF SearchInv, Typed
<1> DEFINE G == {i \in 0 .. n : T[i] = s.score[N(i)]}
<1>8. 0 \in G
  BY <1>1, <1>2, <1>6, <1>7
<1>9. ASSUME NEW i \in 1 .. n, i - 1 \in G PROVE i \in G
  <2>1. s.score[N(i)] = s.score[N(i - 1)] + Minutes[way[i]]
    BY <1>3, <1>5, <1>7 DEF CameFrom
  <2> QED
    BY <2>1, <1>2, <1>9
<1>10. \A i \in 0 .. n : i \in G
  <2> HIDE DEF G
  <2> QED
    BY <1>1, <1>8, <1>9, Induction
<1>11. T[n] = s.score[goal]
  BY <1>1, <1>4, <1>10
<1>12. Leads(way, open, start, goal)
  BY <1>1, <1>3, <1>4 DEF Leads, n, N
<1> QED
  BY <1>11, <1>12 DEF Total, T, n

\* Backtrack finds the start in as many steps as there are nodes, and passes no more of
\* them than there are.
LEMMA BacktrackLeads ==
    ASSUME NEW open \in SUBSET Edges, NEW start \in Nodes, NEW goal \in Nodes,
           NEW s, SearchInv(s, open, start, goal), goal \in Known(s),
           NEW way, way = Backtrack(s.from, start, goal)
    PROVE  /\ Leads(way, open, start, goal)
           /\ Len(way) <= Cardinality(Nodes) - 1
           /\ Total(Minutes, way) = s.score[goal]
<1> DEFINE n == Cardinality(Nodes)
<1>1. PICK rank \in [Nodes -> Nat] : Ranks(rank, s, start)
  BY DEF SearchInv, Ranked
<1> DEFINE S == {w \in Seq(open) : Trail(w, s, open, rank, start, goal)}
           step == [x \in (1 .. n) \X S |-> Back(x[2], s.from, start, goal)]
<1>2. n \in Nat /\ Cardinality(s.visited) \in Nat /\ Cardinality(s.visited) <= n - 1
  <2>1. IsFiniteSet(Nodes)
    BY RoutingAssumption
  <2>2. IsFiniteSet(Nodes \ {goal}) /\ Cardinality(Nodes \ {goal}) = n - 1
    BY <2>1, FS_RemoveElement
  <2>3. s.visited \in SUBSET (Nodes \ {goal})
    BY SearchTypes DEF SearchInv, Typed
  <2>4. IsFiniteSet(s.visited) /\ Cardinality(s.visited) <= Cardinality(Nodes \ {goal})
    BY <2>2, <2>3, FS_Subset
  <2> QED
    BY <2>1, <2>2, <2>4, FS_CardinalityType
<1>3. <<>> \in S
  <2>1. rank[goal] = Cardinality(s.visited)
    BY <1>1 DEF SearchInv, Typed, Ranks
  <2>2. FirstNode(<<>>, goal) = goal
    BY DEF FirstNode
  <2> QED
    BY <2>1, <2>2, <1>2 DEF Trail
<1>4. \A w \in S : Back(w, s.from, start, goal) \in S
  <2> TAKE w \in S
  <2>1. Trail(Back(w, s.from, start, goal), s, open, rank, start, goal)
    BY <1>1, BackKeepsTrail
  <2> QED
    BY <2>1 DEF Trail
<1>5. step \in [(1 .. n) \X S -> S]
  BY <1>4
<1>6. \A i \in 1 .. n, w \in S : step[<<i, w>>] = Back(w, s.from, start, goal)
  OBVIOUS
<1>7. \A w \in S : Trail(w, s, open, rank, start, goal)
  OBVIOUS
<1> HIDE DEF S, step, n
<1>8. PICK f \in [0 .. n -> S] : Iterates(f, n, <<>>, step)
  BY <1>2, <1>3, <1>5, Iteration
<1>9. \A i \in 1 .. n : f[i] = Back(f[i - 1], s.from, start, goal)
  <2> TAKE i \in 1 .. n
  <2>1. f[i - 1] \in S
    BY <1>2
  <2> QED
    BY <2>1, <1>6, <1>8 DEF Iterates
<1>10. IsWayBack(f, s.from, start, goal)
  <2>1. f[0] = <<>>
    BY <1>8 DEF Iterates
  <2> QED
    BY <2>1, <1>9, <1>8 DEF IsWayBack, n
<1>11. Backtrack(s.from, start, goal) = (CHOOSE g : IsWayBack(g, s.from, start, goal))[Cardinality(Nodes)]
  BY Zenon DEF Backtrack, IsWayBack, Back, FirstNode
<1>12. PICK g : g[n] = way /\ IsWayBack(g, s.from, start, goal)
  BY <1>10, <1>11 DEF n
<1>13. g[0] = <<>> /\ \A i \in 1 .. n : g[i] = Back(g[i - 1], s.from, start, goal)
  <2>1. \A i \in 0 .. n : g[i] = IF i = 0 THEN <<>> ELSE Back(g[i - 1], s.from, start, goal)
    BY <1>12 DEF IsWayBack, n
  <2> QED
    BY <2>1, <1>2
<1> DEFINE G == {i \in 0 .. n : g[i] \in S /\ (FirstNode(g[i], goal) = start \/ Len(g[i]) = i)}
<1>14. 0 \in G
  BY <1>2, <1>3, <1>13
<1>15. ASSUME NEW i \in 1 .. n, i - 1 \in G PROVE i \in G
  <2> DEFINE w == g[i - 1]
  <2>1. w \in S /\ (FirstNode(w, goal) = start \/ Len(w) = i - 1) /\ g[i] = Back(w, s.from, start, goal)
    BY <1>13, <1>15
  <2> HIDE DEF w
  <2>2. g[i] \in S
    BY <2>1, <1>4
  <2>3. Trail(w, s, open, rank, start, goal)
    BY <2>1, <1>7
  <2>4. /\ FirstNode(w, goal) = start => g[i] = w
        /\ FirstNode(w, goal) # start => Len(g[i]) = Len(w) + 1
    BY <2>1, <2>3, <1>1, BackKeepsTrail
  <2>5. FirstNode(g[i], goal) = start \/ Len(g[i]) = i
    BY <2>1, <2>4, <1>2
  <2> QED
    BY <2>2, <2>5, <1>2
<1>16. \A i \in 0 .. n : i \in G
  <2> HIDE DEF G
  <2> QED
    BY <1>2, <1>14, <1>15, Induction
<1>17. way \in S /\ (FirstNode(way, goal) = start \/ Len(way) = n)
  BY <1>2, <1>12, <1>16
<1>18. Trail(way, s, open, rank, start, goal)
  BY <1>7, <1>17
<1>19. Len(way) <= n - 1
  <2>1. /\ way \in Seq(open) /\ FirstNode(way, goal) \in Known(s)
        /\ rank[FirstNode(way, goal)] + Len(way) <= Cardinality(s.visited)
    BY <1>18 DEF Trail
  <2>2. rank[FirstNode(way, goal)] \in Nat
    BY <2>1, <1>1, SearchTypes DEF SearchInv
  <2>3. Len(way) \in Nat
    BY <2>1
  <2> QED
    BY <2>1, <2>2, <2>3, <1>2
<1>20. FirstNode(way, goal) = start
  BY <1>2, <1>17, <1>19
<1> QED
  BY <1>1, <1>18, <1>19, <1>20, TrailIsWay DEF n

-----------------------------------------------------------------------------
(* What find_route returns.                                                *)

\* find_route fails only if there is no way; otherwise what it returns is a way, without
\* a node too many, and no way takes less time.
LEMMA RouteIsBest ==
    ASSUME NEW open \in SUBSET Edges, NEW start \in Nodes, NEW goal \in Nodes,
           NEW route, route = Routes[open][start][goal]
    PROVE  \/ /\ route = NoRoute
              /\ \A way : ~Leads(way, open, start, goal)
           \/ /\ route # NoRoute
              /\ Leads(route, open, start, goal)
              /\ Len(route) <= Cardinality(Nodes) - 1
              /\ \A way : Leads(way, open, start, goal) => Total(Minutes, route) <= Total(Minutes, way)
<1> DEFINE s == Search(open, start, goal)
           way == Backtrack(s.from, start, goal)
<1>1. SearchInv(s, open, start, goal) /\ Ended(s, goal)
  BY SearchEnds
<1>2. route = FindRoute(open, start, goal)
  BY DEF Routes
<1>3. route = IF goal \in Known(s) THEN way ELSE NoRoute
  BY <1>2, Zenon DEF FindRoute, Known
<1> HIDE DEF s
<1>4. CASE goal \in Known(s)
  <2>1. /\ Leads(way, open, start, goal)
        /\ Len(way) <= Cardinality(Nodes) - 1
        /\ Total(Minutes, way) = s.score[goal]
    BY <1>1, <1>4, BacktrackLeads
  <2>2. \A w : Leads(w, open, start, goal) => s.score[goal] <= Total(Minutes, w)
    BY <1>1, SearchBeats
  <2>3. way # NoRoute
    <3>1. way \in Seq(Edges)
      BY <2>1 DEF Leads
    <3> QED
      BY <3>1, RoutingAssumption
  <2> HIDE DEF way
  <2> QED
    BY <1>3, <1>4, <2>1, <2>2, <2>3
<1>5. CASE goal \notin Known(s)
  BY <1>1, <1>3, <1>5, SearchBeats
<1> QED
  BY <1>4, <1>5

\* The ways that the property enumerates are ways, and it has those without a node too many.
LEMMA WaysLead ==
    ASSUME NEW open \in SUBSET Edges, NEW start \in Nodes, NEW goal \in Nodes, start # goal
    PROVE  /\ \A way \in Ways(open, start, goal) : Leads(way, open, start, goal)
           /\ \A way : Leads(way, open, start, goal) /\ Len(way) <= Cardinality(Nodes) - 1
                         => way \in Ways(open, start, goal)
<1>1. ASSUME NEW way \in Ways(open, start, goal) PROVE Leads(way, open, start, goal)
  <2>1. PICK k \in 1 .. Cardinality(Nodes) - 1 : way \in [1 .. k -> open]
    BY DEF Ways
  <2>2. /\ From[way[1]] = start /\ To[way[Len(way)]] = goal
        /\ \A i \in 1 .. Len(way) - 1 : To[way[i]] = From[way[i + 1]]
    BY DEF Ways
  <2>3. k \in Nat \ {0} /\ way \in Seq(open) /\ Len(way) = k
    BY <2>1
  <2>4. ASSUME NEW i \in 1 .. Len(way) PROVE From[way[i]] = NodeOn(start, way, i - 1)
    <3>1. CASE i = 1
      BY <3>1, <2>2 DEF NodeOn
    <3>2. CASE i # 1
      <4>1. i - 1 \in 1 .. Len(way) - 1 /\ (i - 1) + 1 = i /\ i - 1 # 0
        BY <3>2, <2>3
      <4>2. To[way[i - 1]] = From[way[(i - 1) + 1]]
        BY <4>1, <2>2
      <4> QED
        BY <4>1, <4>2 DEF NodeOn
    <3> QED
      BY <3>1, <3>2
  <2>5. NodeOn(start, way, Len(way)) = goal
    BY <2>2, <2>3 DEF NodeOn
  <2> QED
    BY <2>3, <2>4, <2>5 DEF Leads
<1>2. ASSUME NEW way, Leads(way, open, start, goal), Len(way) <= Cardinality(Nodes) - 1
      PROVE  way \in Ways(open, start, goal)
  <2> DEFINE k == Len(way)
  <2>1. way \in Seq(open) /\ k \in Nat
    BY <1>2 DEF Leads
  <2>2. k # 0
    BY <1>2 DEF Leads, NodeOn
  <2>3. Cardinality(Nodes) \in Nat
    BY RoutingAssumption, FS_CardinalityType
  <2>4. k \in 1 .. Cardinality(Nodes) - 1 /\ way \in [1 .. k -> open]
    BY <1>2, <2>1, <2>2, <2>3
  <2>5. From[way[1]] = start
    <3>1. From[way[1]] = NodeOn(start, way, 1 - 1)
      BY <1>2, <2>4, <2>3 DEF Leads
    <3> QED
      BY <3>1 DEF NodeOn
  <2>6. To[way[k]] = goal
    BY <1>2, <2>1, <2>2 DEF Leads, NodeOn
  <2>7. ASSUME NEW i \in 1 .. k - 1 PROVE To[way[i]] = From[way[i + 1]]
    <3>1. i + 1 \in 1 .. k /\ (i + 1) - 1 = i /\ i # 0
      BY <2>1
    <3>2. From[way[i + 1]] = NodeOn(start, way, (i + 1) - 1)
      BY <1>2, <3>1 DEF Leads
    <3> QED
      BY <3>1, <3>2 DEF NodeOn
  <2>8. way \in UNION {[1 .. j -> open] : j \in 1 .. Cardinality(Nodes) - 1}
    BY <2>4
  <2> QED
    BY <2>5, <2>6, <2>7, <2>8 DEF Ways
<1> QED
  BY <1>1, <1>2

\* Whatever roads are open, find_route returns a fastest way.
LEMMA FastestAlways == ASSUME NEW open \in SUBSET Edges PROVE Fastest(open)
<1> SUFFICES ASSUME NEW start \in Nodes, NEW goal \in Nodes, start # goal
             PROVE  LET route == Routes[open][start][goal]
                        ways == Ways(open, start, goal)
                    IN  IF ways = {} THEN route = NoRoute
                        ELSE /\ route \in ways
                             /\ \A way \in ways : Total(Minutes, route) <= Total(Minutes, way)
  BY DEF Fastest
<1> DEFINE route == Routes[open][start][goal]
           ways == Ways(open, start, goal)
<1>1. \A way \in ways : Leads(way, open, start, goal)
  BY WaysLead
<1>2. \A way : Leads(way, open, start, goal) /\ Len(way) <= Cardinality(Nodes) - 1 => way \in ways
  BY WaysLead
<1>3. \/ /\ route = NoRoute
         /\ \A way : ~Leads(way, open, start, goal)
      \/ /\ Leads(route, open, start, goal)
         /\ Len(route) <= Cardinality(Nodes) - 1
         /\ \A way : Leads(way, open, start, goal) => Total(Minutes, route) <= Total(Minutes, way)
  BY RouteIsBest
<1> HIDE DEF route, ways
<1> QED
  BY <1>1, <1>2, <1>3 DEF route, ways

\* The search visits a node once, yet whatever roads are closed the route of find_route is
\* a way that no other beats, and it fails only if there is none: no step of the game can
\* change that, on any map whose heuristic is consistent.
THEOREM RoutesStayFastest == Spec => []RoutesAreFastest
<1>1. RoutesAreFastest
  <2>1. Open \in SUBSET Edges
    BY DEF Open
  <2> QED
    BY <2>1, FastestAlways DEF RoutesAreFastest
<1> QED
  BY <1>1, PTL

-----------------------------------------------------------------------------
(* Routes with several stops.                                              *)

Cat(w, v) == w \o v

Joins(j, w, v, open, start, goal) ==
    /\ Leads(j, open, start, goal)
    /\ Len(j) = Len(w) + Len(v) /\ Len(w) \in Nat /\ Len(v) \in Nat
    /\ \A i \in 0 .. Len(w) : NodeOn(start, j, i) = NodeOn(start, w, i)

\* Two ways, one after the other.
LEMMA WaysJoin ==
    ASSUME NEW open \in SUBSET Edges, NEW start \in Nodes, NEW mid \in Nodes, NEW goal \in Nodes,
           NEW w, Leads(w, open, start, mid), NEW v, Leads(v, open, mid, goal)
    PROVE  Joins(Cat(w, v), w, v, open, start, goal)
<1> DEFINE j == Cat(w, v)
<1>1. w \in Seq(open) /\ v \in Seq(open) /\ Len(w) \in Nat /\ Len(v) \in Nat
  BY DEF Leads
<1>2. /\ j \in Seq(open) /\ Len(j) = Len(w) + Len(v)
      /\ \A i \in 1 .. Len(w) : j[i] = w[i]
      /\ \A i \in 1 .. Len(v) : j[Len(w) + i] = v[i]
  BY <1>1 DEF Cat
<1> HIDE DEF j
<1>3. \A i \in 0 .. Len(w) : NodeOn(start, j, i) = NodeOn(start, w, i)
  BY <1>1, <1>2 DEF NodeOn
<1>4. \A i \in 0 .. Len(v) : NodeOn(start, j, Len(w) + i) = NodeOn(mid, v, i)
  <2> TAKE i \in 0 .. Len(v)
  <2>1. CASE i = 0
    <3>1. NodeOn(start, j, Len(w)) = NodeOn(start, w, Len(w))
      BY <1>1, <1>3
    <3>2. NodeOn(start, w, Len(w)) = mid
      BY DEF Leads
    <3>3. NodeOn(mid, v, 0) = mid
      BY DEF NodeOn
    <3> QED
      BY <2>1, <3>1, <3>2, <3>3, <1>1
  <2>2. CASE i # 0
    <3>1. i \in 1 .. Len(v) /\ Len(w) + i # 0
      BY <2>2, <1>1
    <3> QED
      BY <3>1, <2>2, <1>2 DEF NodeOn
  <2> QED
    BY <2>1, <2>2
<1>5. ASSUME NEW i \in 1 .. Len(j) PROVE From[j[i]] = NodeOn(start, j, i - 1)
  <2>1. CASE i \in 1 .. Len(w)
    <3>1. From[w[i]] = NodeOn(start, w, i - 1)
      BY <2>1 DEF Leads
    <3>2. i - 1 \in 0 .. Len(w)
      BY <2>1, <1>1
    <3> QED
      BY <2>1, <3>1, <3>2, <1>2, <1>3
  <2>2. CASE i \notin 1 .. Len(w)
    <3> DEFINE l == i - Len(w)
    <3>1. l \in 1 .. Len(v) /\ Len(w) + l = i /\ l - 1 \in 0 .. Len(v) /\ Len(w) + (l - 1) = i - 1
      BY <2>2, <1>1, <1>2
    <3> HIDE DEF l
    <3>2. From[v[l]] = NodeOn(mid, v, l - 1)
      BY <3>1 DEF Leads
    <3>3. j[i] = v[l]
      BY <3>1, <1>2
    <3>4. NodeOn(start, j, i - 1) = NodeOn(mid, v, l - 1)
      BY <3>1, <1>4
    <3> QED
      BY <3>2, <3>3, <3>4
  <2> QED
    BY <2>1, <2>2
<1>6. NodeOn(start, j, Len(j)) = goal
  <2>1. NodeOn(start, j, Len(w) + Len(v)) = NodeOn(mid, v, Len(v))
    BY <1>1, <1>4
  <2> QED
    BY <2>1, <1>2 DEF Leads
<1>7. Leads(j, open, start, goal)
  BY <1>2, <1>5, <1>6 DEF Leads
<1> QED
  BY <1>1, <1>2, <1>3, <1>7 DEF j, Joins

\* The leg to stop i, and the node where it begins.
At(start, stops, i) == IF i = 0 THEN start ELSE stops[i]

Leg(open, start, stops, i) == Routes[open][At(start, stops, i - 1)][stops[i]]

IsChain(f, leg, n) == f = [i \in 0 .. n |-> IF i = 0 THEN <<>> ELSE Cat(f[i - 1], leg[i])]

\* A chain of legs is one way, and the point it gives to a stop is the stop's.
ChainLeads(chain, open, start, stops) ==
    /\ chain.edges \in Seq(open)
    /\ \A i \in 1 .. Len(chain.edges) : From[chain.edges[i]] = NodeOn(start, chain.edges, i - 1)
    /\ chain.points \in [DOMAIN stops -> Nat]
    /\ \A i \in DOMAIN stops : /\ chain.points[i] \in 0 .. Len(chain.edges)
                               /\ NodeOn(start, chain.edges, chain.points[i]) = stops[i]

LEMMA ChainsLead ==
    ASSUME NEW open \in SUBSET Edges, NEW start \in Nodes, NEW stops \in Seq(Nodes),
           \A i \in DOMAIN stops : Leg(open, start, stops, i) # NoRoute
    PROVE  /\ ChainLeads(ChainLegs(open, start, stops), open, start, stops)
           /\ ChainLegs(open, start, stops) # NoRoute
<1> DEFINE n == Len(stops)
           leg == [i \in DOMAIN stops |-> Routes[open][IF i = 1 THEN start ELSE stops[i - 1]][stops[i]]]
           N(i) == At(start, stops, i)
<1>1. n \in Nat /\ DOMAIN stops = 1 .. n
  OBVIOUS
<1>2. \A i \in 0 .. n : N(i) \in Nodes
  BY DEF At
<1>3. \A i \in 1 .. n : leg[i] = Leg(open, start, stops, i)
  <2> TAKE i \in 1 .. n
  <2>1. leg[i] = Routes[open][IF i = 1 THEN start ELSE stops[i - 1]][stops[i]]
    BY <1>1
  <2>2. (IF i = 1 THEN start ELSE stops[i - 1]) = At(start, stops, i - 1)
    BY <1>1 DEF At
  <2> QED
    BY <2>1, <2>2, Zenon DEF Leg
<1>4. \A i \in 1 .. n : Leads(leg[i], open, N(i - 1), N(i))
  <2> TAKE i \in 1 .. n
  <2>1. i - 1 \in 0 .. n /\ i \in 0 .. n
    BY <1>1
  <2>2. N(i - 1) \in Nodes /\ N(i) \in Nodes
    BY <2>1, <1>2
  <2>3. N(i) = stops[i]
    BY <1>1 DEF At
  <2>4. leg[i] = Routes[open][N(i - 1)][N(i)] /\ leg[i] # NoRoute
    BY <2>3, <1>1, <1>3 DEF Leg
  <2> HIDE DEF leg, N, n
  <2> QED
    BY <2>2, <2>4, RouteIsBest
<1> HIDE DEF N, leg, n
<1> DEFINE step == [x \in (1 .. n) \X Seq(open) |-> Cat(x[2], leg[x[1]])]
<1>5. \A i \in 1 .. n : leg[i] \in Seq(open)
  BY <1>4 DEF Leads
<1>6. step \in [(1 .. n) \X Seq(open) -> Seq(open)]
  BY <1>5 DEF Cat
<1>7. \A i \in 1 .. n, s \in Seq(open) : step[<<i, s>>] = Cat(s, leg[i])
  OBVIOUS
<1>8. <<>> \in Seq(open)
  OBVIOUS
<1> HIDE DEF step
<1>9. PICK f \in [0 .. n -> Seq(open)] : Iterates(f, n, <<>>, step)
  BY <1>1, <1>6, <1>8, Iteration
<1>10. IsChain(f, leg, n)
  <2>1. \A i \in 1 .. n : f[i] = Cat(f[i - 1], leg[i])
    <3> TAKE i \in 1 .. n
    <3>1. f[i - 1] \in Seq(open)
      BY <1>1
    <3> QED
      BY <3>1, <1>7, <1>9 DEF Iterates
  <2>2. f[0] = <<>>
    BY <1>9 DEF Iterates
  <2> QED
    BY <2>1, <2>2, <1>9 DEF IsChain
<1> DEFINE g == CHOOSE h : IsChain(h, leg, n)
<1>11. IsChain(g, leg, n)
  BY <1>10
<1>12. ChainLegs(open, start, stops) =
           IF \E i \in DOMAIN stops : leg[i] = NoRoute THEN NoRoute
           ELSE [edges |-> g[n], points |-> [i \in DOMAIN stops |-> Len(g[i])]]
  BY Zenon DEF ChainLegs, IsChain, Cat, leg, n
<1> HIDE DEF g
<1>13. ChainLegs(open, start, stops) = [edges |-> g[n], points |-> [i \in DOMAIN stops |-> Len(g[i])]]
  BY <1>1, <1>3, <1>12
<1>14. g[0] = <<>> /\ \A i \in 1 .. n : g[i] = Cat(g[i - 1], leg[i])
  <2>1. \A i \in 0 .. n : g[i] = IF i = 0 THEN <<>> ELSE Cat(g[i - 1], leg[i])
    BY <1>11 DEF IsChain
  <2> QED
    BY <2>1, <1>1
<1> DEFINE G == {i \in 0 .. n : /\ Leads(g[i], open, start, N(i))
                                /\ \A j \in 1 .. i : /\ Len(g[j]) \in 0 .. Len(g[i])
                                                     /\ NodeOn(start, g[i], Len(g[j])) = stops[j]}
<1>15. 0 \in G
  <2>1. Leads(<<>>, open, start, N(0))
    BY DEF Leads, NodeOn, N, At
  <2> QED
    BY <2>1, <1>1, <1>14
<1>16. ASSUME NEW i \in 1 .. n, i - 1 \in G PROVE i \in G
  <2>1. i - 1 \in 0 .. n /\ i \in 0 .. n /\ N(i - 1) \in Nodes /\ N(i) \in Nodes /\ N(i) = stops[i]
    BY <1>1, <1>2 DEF N, At
  <2> DEFINE w == g[i - 1]
             v == leg[i]
             c == g[i]
  <2>2. Leads(w, open, start, N(i - 1)) /\ Leads(v, open, N(i - 1), N(i)) /\ c = Cat(w, v)
    BY <1>4, <1>14, <1>16
  <2>3. \A j \in 1 .. i - 1 : Len(g[j]) \in 0 .. Len(w) /\ NodeOn(start, w, Len(g[j])) = stops[j]
    BY <1>16
  <2> HIDE DEF w, v
  <2>4. Joins(c, w, v, open, start, N(i))
    BY <2>1, <2>2, WaysJoin
  <2>5. /\ Leads(c, open, start, N(i))
        /\ Len(c) = Len(w) + Len(v) /\ Len(w) \in Nat /\ Len(v) \in Nat
        /\ \A l \in 0 .. Len(w) : NodeOn(start, c, l) = NodeOn(start, w, l)
    BY <2>4, Zenon DEF Joins
  <2>6. NodeOn(start, c, Len(c)) = stops[i]
    BY <2>1, <2>5, Zenon DEF Leads
  <2>7. Len(c) \in Nat
    BY <2>5
  <2> HIDE DEF c
  <2>8. \A j \in 1 .. i - 1 : Len(g[j]) \in 0 .. Len(c) /\ NodeOn(start, c, Len(g[j])) = stops[j]
    <3> TAKE j \in 1 .. i - 1
    <3> DEFINE l == Len(g[j])
    <3>1. l \in 0 .. Len(w) /\ NodeOn(start, w, l) = stops[j]
      BY <2>3
    <3> HIDE DEF l
    <3>2. l \in 0 .. Len(c) /\ NodeOn(start, c, l) = stops[j]
      BY <3>1, <2>5
    <3> QED
      BY <3>2 DEF l
  <2>9. \A j \in 1 .. i : Len(g[j]) \in 0 .. Len(c) /\ NodeOn(start, c, Len(g[j])) = stops[j]
    <3> TAKE j \in 1 .. i
    <3>1. CASE j = i
      <4>1. Len(g[j]) = Len(c)
        BY <3>1 DEF c
      <4>2. Len(c) \in 0 .. Len(c)
        BY <2>7
      <4> QED
        BY <4>1, <4>2, <2>6, <3>1, Zenon
    <3>2. CASE j # i
      <4>1. j \in 1 .. i - 1
        BY <3>2
      <4> QED
        BY <4>1, <2>8
    <3> QED
      BY <3>1, <3>2
  <2> QED
    BY <2>1, <2>5, <2>9 DEF c
<1>17. \A i \in 0 .. n : i \in G
  <2> HIDE DEF G
  <2> QED
    BY <1>1, <1>15, <1>16, Induction
<1>18. /\ Leads(g[n], open, start, N(n))
       /\ \A j \in 1 .. n : /\ Len(g[j]) \in 0 .. Len(g[n])
                            /\ NodeOn(start, g[n], Len(g[j])) = stops[j]
  BY <1>1, <1>17
<1>19. \A j \in 1 .. n : Len(g[j]) \in Nat
  BY <1>18 DEF Leads
<1> DEFINE chain == [edges |-> g[n], points |-> [i \in DOMAIN stops |-> Len(g[i])]]
<1>20. chain.edges = g[n] /\ chain.points \in [1 .. n -> Nat] /\ \A i \in 1 .. n : chain.points[i] = Len(g[i])
  BY <1>1, <1>19
<1> HIDE DEF chain
<1>21. ChainLeads(chain, open, start, stops)
  BY <1>1, <1>18, <1>20 DEF ChainLeads, Leads
<1>22. chain # NoRoute
  <2>1. g[n] \in Seq(Edges)
    BY <1>18 DEF Leads
  <2>2. [i \in DOMAIN stops |-> Len(g[i])] \in Seq(Nat)
    BY <1>1, <1>19
  <2>3. chain \in [edges : Seq(Edges), points : Seq(Nat)]
    BY <2>1, <2>2 DEF chain
  <2> QED
    BY <2>3, RoutingAssumption
<1> QED
  BY <1>13, <1>21, <1>22 DEF chain

\* The time of a route is a number.
LEMMA TotalType ==
    ASSUME NEW way \in Seq(Edges) PROVE Total(Minutes, way) \in Nat
<1>1. Minutes \in [Edges -> Nat]
  BY RoutingAssumption
<1>2. Cumulative(Minutes, way) \in [0 .. Len(way) -> Nat]
  BY <1>1, CumulativeUnfolds
<1>3. Len(way) \in 0 .. Len(way)
  OBVIOUS
<1> QED
  BY <1>2, <1>3 DEF Total

\* The nearest of the nodes that can be reached.
LEMMA NearestReachable ==
    ASSUME NEW open \in SUBSET Edges, NEW at \in Nodes, NEW stops \in SUBSET Nodes,
           NEW found, found = Reachable(open, at, stops), found # {}
    PROVE  \E n \in found : \A m \in found :
               Total(Minutes, Routes[open][at][n]) <= Total(Minutes, Routes[open][at][m])
<1> DEFINE Time(n) == Total(Minutes, Routes[open][at][n])
           times == {Time(n) : n \in found}
<1>1. \A n \in found : Time(n) \in Nat
  <2> TAKE n \in found
  <2>1. n \in Nodes /\ Routes[open][at][n] # NoRoute
    BY DEF Reachable
  <2>2. Leads(Routes[open][at][n], open, at, n)
    BY <2>1, RouteIsBest
  <2>3. Routes[open][at][n] \in Seq(Edges)
    BY <2>2 DEF Leads
  <2> QED
    BY <2>3, TotalType
<1> HIDE DEF Time
<1>2. times \in SUBSET Nat /\ times # {}
  BY <1>1
<1>3. PICK t \in times : \A u \in times : t <= u
  <2> HIDE DEF times
  <2> QED
    BY <1>2, Least
<1>4. \E n \in found : \A m \in found : Time(n) <= Time(m)
  BY <1>3
<1> QED
  BY <1>4 DEF Time

\* One more stop for an order.
Extended(order, open, start, stops) ==
    LET at == IF order = <<>> THEN start ELSE order[Len(order)]
        found == Reachable(open, at, stops \ Range(order))
        Time(n) == Total(Minutes, Routes[open][at][n])
    IN  IF order = NoRoute \/ found = {} THEN NoRoute
        ELSE Append(order, CHOOSE n \in found : \A m \in found : Time(n) <= Time(m))

\* An order of which every leg has a route.
Passable(order, open, start, stops) ==
    /\ order \in Seq(stops)
    /\ \A i \in DOMAIN order : Leg(open, start, order, i) # NoRoute

LEMMA ExtendedIsPassable ==
    ASSUME NEW open \in SUBSET Edges, NEW start \in Nodes, NEW stops \in SUBSET Nodes,
           NEW order, Passable(order, open, start, stops),
           NEW next, next = Extended(order, open, start, stops), next # NoRoute
    PROVE  Passable(next, open, start, stops)
<1> DEFINE at == IF order = <<>> THEN start ELSE order[Len(order)]
           found == Reachable(open, at, stops \ Range(order))
           Time(n) == Total(Minutes, Routes[open][at][n])
           n == CHOOSE m \in found : \A l \in found : Time(m) <= Time(l)
<1>1. order \in Seq(stops) /\ Len(order) \in Nat
  BY DEF Passable
<1>2. found # {} /\ next = Append(order, n)
  BY DEF Extended
<1>3. at \in Nodes /\ at = At(start, order, Len(order))
  BY <1>1 DEF At
<1> HIDE DEF at
<1>4. n \in found
  <2>1. stops \ Range(order) \in SUBSET Nodes
    OBVIOUS
  <2>2. \E m \in found : \A l \in found : Time(m) <= Time(l)
    BY <2>1, <1>2, <1>3, NearestReachable
  <2> HIDE DEF found, Time
  <2> QED
    BY <2>2
<1>5. n \in stops /\ Routes[open][at][n] # NoRoute
  BY <1>4 DEF Reachable
<1> HIDE DEF n
<1>6. /\ next \in Seq(stops) /\ Len(next) = Len(order) + 1 /\ next[Len(next)] = n
      /\ \A i \in 1 .. Len(order) : next[i] = order[i]
  BY <1>1, <1>2, <1>5
<1>7. ASSUME NEW i \in DOMAIN next PROVE Leg(open, start, next, i) # NoRoute
  <2>1. i \in 1 .. Len(order) + 1 /\ i - 1 \in 0 .. Len(order)
    BY <1>1, <1>6
  <2>2. At(start, next, i - 1) = At(start, order, i - 1)
    BY <2>1, <1>1, <1>6 DEF At
  <2>3. CASE i = Len(next)
    <3>1. i - 1 = Len(order) /\ next[i] = n
      BY <2>3, <1>1, <1>6
    <3>2. At(start, next, i - 1) = at
      BY <3>1, <2>2, <1>3
    <3> QED
      BY <3>1, <3>2, <1>5, Zenon DEF Leg
  <2>4. CASE i # Len(next)
    <3>1. i \in DOMAIN order /\ next[i] = order[i]
      BY <2>1, <2>4, <1>1, <1>6
    <3>2. Leg(open, start, order, i) # NoRoute
      BY <3>1 DEF Passable
    <3> QED
      BY <3>1, <3>2, <2>2, Zenon DEF Leg
  <2> QED
    BY <2>3, <2>4
<1> QED
  BY <1>6, <1>7 DEF Passable

IsGreedy(f, open, start, stops) ==
    f = [i \in 0 .. Cardinality(stops) |-> IF i = 0 THEN <<>> ELSE Extended(f[i - 1], open, start, stops)]

\* Every leg of a greedy order has a route.
LEMMA GreedyIsPassable ==
    ASSUME NEW open \in SUBSET Edges, NEW start \in Nodes, NEW stops \in SUBSET Nodes,
           GreedyOrder(open, start, stops) # NoRoute
    PROVE  Passable(GreedyOrder(open, start, stops), open, start, stops)
<1> DEFINE n == Cardinality(stops)
           S == {o \in Seq(stops) : Passable(o, open, start, stops)} \cup {NoRoute}
           step == [x \in (1 .. n) \X S |-> Extended(x[2], open, start, stops)]
<1>1. n \in Nat
  <2>1. IsFiniteSet(stops)
    BY RoutingAssumption, FS_Subset
  <2> QED
    BY <2>1, FS_CardinalityType
<1>2. Passable(<<>>, open, start, stops)
  BY DEF Passable
<1>3. <<>> \in S
  BY <1>2
<1>4. ASSUME NEW o \in S PROVE Extended(o, open, start, stops) \in S
  <2>1. CASE o = NoRoute
    BY <2>1 DEF Extended
  <2>2. CASE Passable(o, open, start, stops)
    <3>1. \/ Extended(o, open, start, stops) = NoRoute
          \/ Passable(Extended(o, open, start, stops), open, start, stops)
      BY <2>2, ExtendedIsPassable
    <3> QED
      BY <3>1 DEF Passable
  <2> QED
    BY <2>1, <2>2
<1>5. step \in [(1 .. n) \X S -> S]
  BY <1>4
<1>6. \A i \in 1 .. n, o \in S : step[<<i, o>>] = Extended(o, open, start, stops)
  OBVIOUS
<1>7. \A o \in S : o = NoRoute \/ Passable(o, open, start, stops)
  OBVIOUS
<1> HIDE DEF S, step, n
<1>8. PICK f \in [0 .. n -> S] : Iterates(f, n, <<>>, step)
  BY <1>1, <1>3, <1>5, Iteration
<1>9. IsGreedy(f, open, start, stops)
  <2>1. \A i \in 1 .. n : f[i] = Extended(f[i - 1], open, start, stops)
    <3> TAKE i \in 1 .. n
    <3>1. f[i - 1] \in S
      BY <1>1
    <3> QED
      BY <3>1, <1>6, <1>8 DEF Iterates
  <2>2. f[0] = <<>>
    BY <1>8 DEF Iterates
  <2> QED
    BY <2>1, <2>2, <1>8 DEF IsGreedy, n
<1>10. GreedyOrder(open, start, stops) = (CHOOSE g : IsGreedy(g, open, start, stops))[Cardinality(stops)]
  BY Zenon DEF GreedyOrder, IsGreedy, Extended
<1>11. PICK g : g[n] = GreedyOrder(open, start, stops) /\ IsGreedy(g, open, start, stops)
  BY <1>9, <1>10 DEF n
<1>12. g[0] = <<>> /\ \A i \in 1 .. n : g[i] = Extended(g[i - 1], open, start, stops)
  <2>1. \A i \in 0 .. n : g[i] = IF i = 0 THEN <<>> ELSE Extended(g[i - 1], open, start, stops)
    BY <1>11 DEF IsGreedy, n
  <2> QED
    BY <2>1, <1>1
<1> DEFINE G == {i \in 0 .. n : g[i] \in S}
<1>13. 0 \in G
  BY <1>1, <1>3, <1>12
<1>14. \A i \in 1 .. n : i - 1 \in G => i \in G
  <2> TAKE i \in 1 .. n
  <2>1. g[i - 1] \in S => g[i] \in S
    BY <1>4, <1>12
  <2> QED
    BY <2>1, <1>1
<1>15. \A i \in 0 .. n : i \in G
  <2> HIDE DEF G
  <2> QED
    BY <1>1, <1>13, <1>14, Induction
<1>16. g[n] \in S
  BY <1>1, <1>15
<1> QED
  BY <1>7, <1>11, <1>16

-----------------------------------------------------------------------------
(* Traffic.                                                                *)

\* What a mover may see ahead.
Sights == Int \cup {None}

MoversType(movers) ==
    \A k \in DOMAIN movers : movers[k].edge \in Edges /\ movers[k].pos \in Nat

\* A mover does not go back, and stays the gap behind what is ahead unless it is nearer already.
LEMMA CandidateBounds ==
    ASSUME NEW m, m.edge \in Edges, m.pos \in Nat, NEW a \in Sights
    PROVE  /\ Candidate(m, a) \in Nat /\ m.pos <= Candidate(m, a)
           /\ a \in Int => Candidate(m, a) <= Larger(m.pos, a - MoverLength - MinGap)
<1> DEFINE free == Speed[m.edge]
           gap == a - MoverLength - m.pos
           v == TargetSpeed(m, a)
<1>1. free \in Nat /\ MoverLength \in Nat /\ MinGap \in Nat \ {0} /\ None \notin Int
  BY TrafficAssumption, TrucksAssumption
<1>2. v \in Nat
  <2>1. CASE a = None
    BY <2>1, <1>1 DEF TargetSpeed
  <2>2. CASE a # None /\ gap <= 0
    BY <2>2 DEF TargetSpeed
  <2>3. CASE a # None /\ ~(gap <= 0)
    <3>1. gap \in Nat
      BY <2>3, <1>1 DEF Sights
    <3>2. v = Smaller(free, (free * gap) \div MinGap)
      BY <2>3 DEF TargetSpeed
    <3> HIDE DEF gap, free, v
    <3>3. free * gap \in Nat
      BY <1>1, <3>1
    <3>4. (free * gap) \div MinGap \in Nat
      <4> DEFINE x == free * gap
      <4>1. x \in Nat
        BY <3>3
      <4> HIDE DEF x
      <4>2. x \div MinGap \in Nat
        BY <4>1, <1>1
      <4> QED
        BY <4>2 DEF x
    <3> QED
      BY <3>2, <3>4, <1>1 DEF Smaller
  <2> QED
    BY <2>1, <2>2, <2>3
<1> HIDE DEF v
<1>3. Candidate(m, a) = HeldBack(m, a, m.pos + v)
  BY DEF Candidate, v
<1>4. CASE a = None
  BY <1>1, <1>2, <1>3, <1>4 DEF HeldBack
<1>5. CASE a # None
  <2>1. a \in Int
    BY <1>5 DEF Sights
  <2>2. Candidate(m, a) = Smaller(m.pos + v, Larger(m.pos, a - MoverLength - MinGap))
    BY <1>3, <1>5 DEF HeldBack
  <2> QED
    BY <2>1, <2>2, <1>1, <1>2 DEF Smaller, Larger
<1> QED
  BY <1>4, <1>5

\* What a tick does to a mover.
Bounded(r, m, a) ==
    /\ r.pos \in Nat /\ r.seen \in Int /\ r.seen <= Candidate(m, a)
    /\ r.crossed \in BOOLEAN
    /\ r.crossed => m.next # None
    /\ ~r.crossed => /\ r.seen = r.pos /\ r.pos <= Length[m.edge]
                     /\ m.pos <= Length[m.edge] => m.pos <= r.pos
    /\ Candidate(m, a) < Length[m.edge] => ~r.crossed /\ r.pos = Candidate(m, a)

LEMMA StepMoverBounds ==
    ASSUME NEW movers, NEW red, NEW m, m.edge \in Edges, m.pos \in Nat, NEW a \in Sights
    PROVE  Bounded(StepMover(movers, red, m, a), m, a)
<1> DEFINE r == StepMover(movers, red, m, a)
<1> DEFINE c == Candidate(m, a)
           end == Length[m.edge]
<1>1. end \in Nat
  BY TrafficAssumption, TrucksAssumption
<1>2. c \in Nat /\ m.pos <= c
  BY CandidateBounds
<1> DEFINE Stay(pos) == [edge |-> m.edge, pos |-> pos, crossed |-> FALSE, arrived |-> FALSE, seen |-> pos]
<1>3. r = IF c < end THEN Stay(c)
          ELSE IF m.next = None THEN [Stay(end) EXCEPT !.arrived = TRUE]
          ELSE IF ~CanCross(movers, red, m) THEN Stay(Smaller(c, end))
          ELSE [edge |-> m.next, pos |-> c - end, crossed |-> TRUE, arrived |-> FALSE, seen |-> c]
  BY DEF StepMover
<1> SUFFICES Bounded(r, m, a)
  OBVIOUS
<1> HIDE DEF c, end, r
<1>4. CASE c < end
  <2>1. r.pos = c /\ r.seen = c /\ r.crossed \in BOOLEAN /\ ~r.crossed
    BY <1>3, <1>4
  <2> QED
    BY <2>1, <1>1, <1>2, <1>4 DEF c, end, Bounded
<1>5. CASE ~(c < end) /\ m.next = None
  <2>1. r.pos = end /\ r.seen = end /\ r.crossed \in BOOLEAN /\ ~r.crossed
    BY <1>3, <1>5
  <2> QED
    BY <2>1, <1>1, <1>2, <1>5 DEF c, end, Bounded
<1>6. CASE ~(c < end) /\ m.next # None /\ ~CanCross(movers, red, m)
  <2>1. r.pos = Smaller(c, end) /\ r.seen = Smaller(c, end) /\ r.crossed \in BOOLEAN /\ ~r.crossed
    BY <1>3, <1>6
  <2>2. Smaller(c, end) = end
    BY <1>1, <1>2, <1>6 DEF Smaller
  <2> QED
    BY <2>1, <2>2, <1>1, <1>2, <1>6 DEF c, end, Bounded
<1>7. CASE ~(c < end) /\ m.next # None /\ CanCross(movers, red, m)
  <2>1. r.pos = c - end /\ r.seen = c /\ r.crossed \in BOOLEAN /\ r.crossed
    BY <1>3, <1>7
  <2> QED
    BY <2>1, <1>1, <1>2, <1>7 DEF c, end, Bounded
<1> QED
  BY <1>4, <1>5, <1>6, <1>7

\* A finite set of movers has a front.
LEMMA FrontExists ==
    ASSUME NEW D, IsFiniteSet(D), NEW f \in [D -> Nat]
    PROVE  \A T \in SUBSET D : T # {} => \E k \in T : \A l \in T : f[l] <= f[k]
<1> DEFINE G == {T \in SUBSET D : T # {} => \E k \in T : \A l \in T : f[l] <= f[k]}
<1>1. {} \in G
  OBVIOUS
<1>2. ASSUME NEW T \in SUBSET D, NEW x \in D \ T, T \in G PROVE T \cup {x} \in G
  <2>1. \A l \in T \cup {x} : f[l] \in Nat
    OBVIOUS
  <2>2. CASE T = {}
    BY <2>1, <2>2
  <2>3. CASE T # {}
    <3>1. PICK k \in T : \A l \in T : f[l] <= f[k]
      BY <1>2, <2>3
    <3>2. CASE f[x] <= f[k]
      <4>1. \A l \in T \cup {x} : f[l] <= f[k]
        BY <3>1, <3>2
      <4> QED
        BY <4>1
    <3>3. CASE ~(f[x] <= f[k])
      <4>1. \A l \in T \cup {x} : f[l] <= f[x]
        BY <3>1, <3>3, <2>1
      <4> QED
        BY <4>1
    <3> QED
      BY <3>2, <3>3
  <2> QED
    BY <2>2, <2>3
<1>3. \A T \in SUBSET D : T \in G
  <2> HIDE DEF G
  <2> QED
    BY <1>1, <1>2, SetInduction
<1> QED
  BY <1>3

\* The queue of edge e: those worked off were all in front of those that are left, each has
\* a result of StepMover; and if one of them stays on the edge, all behind it see something
\* that is not in front of it, and stay behind it.
Results(movers, red, keys) == {StepMover(movers, red, movers[k], a) : k \in keys, a \in Sights}

Queues(movers, red, keys) ==
    [left : SUBSET keys, ahead : Sights,
     results : UNION {[K -> Results(movers, red, keys)] : K \in SUBSET keys}]

StaysOn(q, movers, e, u) == ~q.results[u].crossed /\ movers[u].pos <= Length[e]

QueueInv(q, movers, red, keys, e) ==
    /\ q \in Queues(movers, red, keys)
    /\ DOMAIN q.results = keys \ q.left
    /\ \A k \in keys \ q.left : \E a \in Sights : q.results[k] = StepMover(movers, red, movers[k], a)
    /\ \A k \in keys \ q.left, l \in q.left : movers[l].pos <= movers[k].pos
    /\ \A u \in keys \ q.left : StaysOn(q, movers, e, u) =>
           /\ q.ahead \in Int /\ q.ahead <= q.results[u].pos
           /\ \A t \in keys \ q.left : movers[t].pos < movers[u].pos =>
                  ~q.results[t].crossed /\ q.results[t].pos < q.results[u].pos

\* The movers of an edge.
KeysOf(movers, keys, e) ==
    /\ IsFiniteSet(keys) /\ keys \subseteq DOMAIN movers
    /\ MoversType(movers)
    /\ \A k \in keys : movers[k].edge = e

LEMMA StepFrontKeepsQueue ==
    ASSUME NEW movers, NEW red, NEW keys, NEW e, KeysOf(movers, keys, e),
           NEW q, QueueInv(q, movers, red, keys, e), q.left # {},
           NEW v, v = StepFront(movers, red, q)
    PROVE  /\ QueueInv(v, movers, red, keys, e)
           /\ \E k \in q.left : v.left = q.left \ {k}
<1> DEFINE f == CHOOSE k \in q.left : \A l \in q.left : movers[l].pos <= movers[k].pos
           r == StepMover(movers, red, movers[f], q.ahead)
<1>1. v = [left |-> q.left \ {f}, ahead |-> r.seen,
           results |-> [k \in {f} \cup DOMAIN q.results |-> IF k = f THEN r ELSE q.results[k]]]
  BY Zenon DEF StepFront
<1>2. /\ q.left \subseteq keys /\ q.ahead \in Sights
      /\ DOMAIN q.results = keys \ q.left
      /\ \A k \in keys \ q.left : q.results[k] \in Results(movers, red, keys)
  <2>1. q \in Queues(movers, red, keys) /\ DOMAIN q.results = keys \ q.left
    BY DEF QueueInv
  <2>2. PICK K \in SUBSET keys : q.results \in [K -> Results(movers, red, keys)]
    BY <2>1 DEF Queues
  <2> QED
    BY <2>1, <2>2 DEF Queues
<1>3. \A k \in keys : movers[k].pos \in Nat /\ movers[k].edge = e /\ e \in Edges
  BY DEF KeysOf, MoversType
<1>4. f \in q.left /\ \A l \in q.left : movers[l].pos <= movers[f].pos
  <2> DEFINE p == [k \in keys |-> movers[k].pos]
  <2>1. p \in [keys -> Nat]
    BY <1>3
  <2>2. IsFiniteSet(keys)
    BY DEF KeysOf
  <2>3. \E k \in q.left : \A l \in q.left : p[l] <= p[k]
    <3> HIDE DEF p
    <3> QED
      BY <2>1, <2>2, <1>2, FrontExists
  <2>4. \E k \in q.left : \A l \in q.left : movers[l].pos <= movers[k].pos
    BY <2>3, <1>2
  <2> QED
    BY <2>4
<1> HIDE DEF f
<1> DEFINE c == Candidate(movers[f], q.ahead)
<1>5. /\ r.pos \in Nat /\ r.seen \in Int /\ r.seen <= c
      /\ r.crossed \in BOOLEAN
      /\ ~r.crossed => r.seen = r.pos
      /\ c < Length[e] => ~r.crossed /\ r.pos = c
  <2>1. movers[f].edge \in Edges /\ movers[f].pos \in Nat /\ movers[f].edge = e /\ q.ahead \in Sights
    BY <1>2, <1>3, <1>4
  <2>2. Bounded(r, movers[f], q.ahead)
    BY <2>1, StepMoverBounds
  <2> HIDE DEF r
  <2> QED
    BY <2>1, <2>2 DEF Bounded
<1>6. /\ c \in Nat
      /\ q.ahead \in Int => c <= Larger(movers[f].pos, q.ahead - MoverLength - MinGap)
  BY <1>2, <1>3, <1>4, CandidateBounds
<1>7. r \in Results(movers, red, keys) /\ f \in keys
  BY <1>2, <1>4 DEF Results
<1> DEFINE rest == [k \in {f} \cup DOMAIN q.results |-> IF k = f THEN r ELSE q.results[k]]
<1>8. keys \ (q.left \ {f}) = {f} \cup (keys \ q.left) /\ f \notin keys \ q.left
  BY <1>4, <1>7
<1>9. /\ rest \in [{f} \cup (keys \ q.left) -> Results(movers, red, keys)]
      /\ rest[f] = r
      /\ \A k \in keys \ q.left : rest[k] = q.results[k]
  <2> HIDE DEF r
  <2> QED
    BY <1>2, <1>7, <1>8
<1>10. v.left = q.left \ {f} /\ v.ahead = r.seen /\ v.results = rest
  <2> HIDE DEF r
  <2> QED
    BY <1>1
<1> HIDE DEF rest, c
<1>11. v \in Queues(movers, red, keys)
  <2>1. v.left \in SUBSET keys /\ v.ahead \in Sights
    BY <1>2, <1>5, <1>10 DEF Sights
  <2>2. v.results \in UNION {[K -> Results(movers, red, keys)] : K \in SUBSET keys}
    <3>1. {f} \cup (keys \ q.left) \in SUBSET keys
      BY <1>7
    <3> QED
      BY <3>1, <1>9, <1>10
  <2>3. v = [left |-> v.left, ahead |-> v.ahead, results |-> v.results]
    <3> HIDE DEF r
    <3> QED
      BY <1>1
  <2> QED
    BY <2>1, <2>2, <2>3 DEF Queues
<1>12. DOMAIN v.results = keys \ v.left /\ keys \ v.left = {f} \cup (keys \ q.left)
  BY <1>8, <1>9, <1>10
<1>13. ASSUME NEW k \in keys \ v.left
       PROVE  \E a \in Sights : v.results[k] = StepMover(movers, red, movers[k], a)
  <2>1. CASE k = f
    BY <2>1, <1>2, <1>9, <1>10
  <2>2. CASE k # f
    <3>1. k \in keys \ q.left /\ v.results[k] = q.results[k]
      BY <2>2, <1>9, <1>10, <1>12
    <3> QED
      BY <3>1 DEF QueueInv
  <2> QED
    BY <2>1, <2>2
<1>14. ASSUME NEW k \in keys \ v.left, NEW l \in v.left PROVE movers[l].pos <= movers[k].pos
  <2>1. l \in q.left
    BY <1>10
  <2>2. CASE k = f
    BY <2>1, <2>2, <1>4
  <2>3. CASE k # f
    <3>1. k \in keys \ q.left
      BY <2>3, <1>12
    <3> QED
      BY <2>1, <3>1 DEF QueueInv
  <2> QED
    BY <2>2, <2>3
<1>15. ASSUME NEW u \in keys \ v.left, StaysOn(v, movers, e, u)
       PROVE  /\ v.ahead \in Int /\ v.ahead <= v.results[u].pos
              /\ \A t \in keys \ v.left : movers[t].pos < movers[u].pos =>
                     ~v.results[t].crossed /\ v.results[t].pos < v.results[u].pos
  <2>1. CASE u = f
    <3>1. v.results[u] = r /\ ~r.crossed
      BY <2>1, <1>9, <1>10, <1>15 DEF StaysOn
    <3>2. v.ahead \in Int /\ v.ahead <= v.results[u].pos
      BY <3>1, <1>5, <1>10
    <3>3. ASSUME NEW t \in keys \ v.left PROVE ~(movers[t].pos < movers[u].pos)
      <4>1. CASE t = f
        BY <4>1, <2>1, <1>3, <1>7
      <4>2. CASE t # f
        <5>1. t \in keys \ q.left
          BY <4>2, <1>12
        <5>2. movers[f].pos <= movers[t].pos
          BY <5>1, <1>4 DEF QueueInv
        <5> QED
          BY <5>1, <5>2, <2>1, <1>3, <1>7
      <4> QED
        BY <4>1, <4>2
    <3> QED
      BY <3>2, <3>3
  <2>2. CASE u # f
    <3> DEFINE x == q.results[u].pos
    <3>1. u \in keys \ q.left /\ v.results[u] = q.results[u] /\ StaysOn(q, movers, e, u)
      BY <2>2, <1>9, <1>10, <1>12, <1>15 DEF StaysOn
    <3>2. /\ q.ahead \in Int /\ q.ahead <= x
          /\ \A t \in keys \ q.left : movers[t].pos < movers[u].pos =>
                 ~q.results[t].crossed /\ q.results[t].pos < x
      BY <3>1 DEF QueueInv
    <3>3. PICK a \in Sights : q.results[u] = StepMover(movers, red, movers[u], a)
      BY <3>1 DEF QueueInv
    <3>4. movers[u].edge \in Edges /\ movers[u].pos \in Nat /\ movers[u].edge = e
      BY <3>1, <1>3
    <3>5. x \in Nat /\ movers[u].pos <= x /\ x <= Length[e] /\ Length[e] \in Nat
      <4>1. ~q.results[u].crossed /\ movers[u].pos <= Length[movers[u].edge]
        BY <3>1, <3>4 DEF StaysOn
      <4>2. Bounded(q.results[u], movers[u], a)
        BY <3>3, <3>4, StepMoverBounds
      <4>3. x \in Nat /\ movers[u].pos <= x /\ x <= Length[movers[u].edge]
        BY <4>1, <4>2 DEF Bounded
      <4>4. Length[e] \in Nat
        BY <3>4, TrafficAssumption, TrucksAssumption
      <4> QED
        BY <3>4, <4>3, <4>4
    <3>6. movers[f].pos <= movers[u].pos /\ movers[f].pos \in Nat
      BY <3>1, <1>3, <1>4, <1>7 DEF QueueInv
    <3> HIDE DEF x
    <3>7. MoverLength \in Nat /\ MinGap \in Nat \ {0}
      BY TrafficAssumption
    <3>8. c <= x
      BY <3>2, <3>4, <3>5, <3>6, <3>7, <1>6 DEF Larger
    <3>9. movers[f].pos < movers[u].pos => c < x
      BY <3>2, <3>4, <3>5, <3>6, <3>7, <1>6 DEF Larger
    <3> HIDE DEF r
    <3>10. v.ahead \in Int /\ v.ahead <= x
      BY <3>5, <3>8, <1>5, <1>6, <1>10
    <3>11. ASSUME NEW t \in keys \ v.left, movers[t].pos < movers[u].pos
           PROVE  ~v.results[t].crossed /\ v.results[t].pos < x
      <4>1. CASE t = f
        <5>1. c < Length[e] /\ c < x
          BY <4>1, <3>5, <3>9, <3>11, <1>6
        <5> QED
          BY <5>1, <4>1, <1>5, <1>9, <1>10
      <4>2. CASE t # f
        <5>1. t \in keys \ q.left /\ v.results[t] = q.results[t]
          BY <4>2, <1>9, <1>10, <1>12
        <5> QED
          BY <5>1, <3>2, <3>11
      <4> QED
        BY <4>1, <4>2
    <3> QED
      BY <3>1, <3>10, <3>11 DEF x
  <2> QED
    BY <2>1, <2>2
<1>16. QueueInv(v, movers, red, keys, e)
  BY <1>11, <1>12, <1>13, <1>14, <1>15 DEF QueueInv
<1> QED
  BY <1>4, <1>10, <1>16

IsQueue(f, movers, red, keys, n) ==
    f = [i \in 0 .. n |-> IF i = 0 THEN [left |-> keys, ahead |-> None, results |-> <<>>]
                          ELSE StepFront(movers, red, f[i - 1])]

\* The queue after i steps: i of its movers are worked off.
Worked(q, i, n, movers, red, keys, e) ==
    QueueInv(q, movers, red, keys, e) /\ Cardinality(q.left) = n - i

LEMMA QueueBegins ==
    ASSUME NEW movers, NEW red, NEW keys, NEW e, KeysOf(movers, keys, e),
           NEW q, q = [left |-> keys, ahead |-> None, results |-> <<>>]
    PROVE  Worked(q, 0, Cardinality(keys), movers, red, keys, e)
<1>1. q.left = keys /\ q.ahead = None /\ q.results = <<>>
  OBVIOUS
<1>2. DOMAIN q.results = {} /\ keys \ q.left = {}
  BY <1>1
<1>3. q \in Queues(movers, red, keys)
  <2>1. q.results \in [{} -> Results(movers, red, keys)]
    BY <1>1
  <2>2. q.results \in UNION {[K -> Results(movers, red, keys)] : K \in SUBSET keys}
    BY <2>1
  <2> QED
    BY <1>1, <2>2 DEF Queues, Sights
<1>4. Cardinality(keys) \in Nat
  BY FS_CardinalityType DEF KeysOf
<1> QED
  BY <1>1, <1>2, <1>3, <1>4 DEF Worked, QueueInv

LEMMA QueueShortens ==
    ASSUME NEW movers, NEW red, NEW keys, NEW e, KeysOf(movers, keys, e),
           NEW n, n = Cardinality(keys), NEW i \in 1 .. n,
           NEW q, Worked(q, i - 1, n, movers, red, keys, e)
    PROVE  Worked(StepFront(movers, red, q), i, n, movers, red, keys, e)
<1> DEFINE v == StepFront(movers, red, q)
<1>1. n \in Nat /\ IsFiniteSet(keys)
  BY FS_CardinalityType DEF KeysOf
<1>2. QueueInv(q, movers, red, keys, e) /\ Cardinality(q.left) = n - (i - 1)
  BY DEF Worked
<1>3. IsFiniteSet(q.left)
  <2>1. q.left \subseteq keys
    BY <1>2 DEF QueueInv, Queues
  <2> QED
    BY <2>1, <1>1, FS_Subset
<1>4. q.left # {}
  BY <1>1, <1>2, <1>3, FS_EmptySet
<1>5. QueueInv(v, movers, red, keys, e) /\ \E k \in q.left : v.left = q.left \ {k}
  <2> HIDE DEF v
  <2>1. v = StepFront(movers, red, q)
    BY DEF v
  <2> QED
    BY <2>1, <1>2, <1>4, StepFrontKeepsQueue
<1> HIDE DEF v
<1>6. Cardinality(v.left) = n - i
  <2>1. PICK k \in q.left : v.left = q.left \ {k}
    BY <1>5
  <2>2. Cardinality(q.left \ {k}) = Cardinality(q.left) - 1
    BY <1>3, FS_RemoveElement
  <2> QED
    BY <2>1, <2>2, <1>1, <1>2
<1>7. Worked(v, i, n, movers, red, keys, e)
  BY <1>5, <1>6 DEF Worked
<1> QED
  BY <1>7 DEF v

\* What a tick does to the movers of an edge.
EdgeStepped(results, movers, red, keys, e) ==
    /\ \A k \in keys : \E a \in Sights : results[k] = StepMover(movers, red, movers[k], a)
    /\ \A t, u \in keys :
           /\ movers[t].pos < movers[u].pos
           /\ ~results[u].crossed
           /\ movers[u].pos <= Length[e]
           => ~results[t].crossed /\ results[t].pos < results[u].pos

LEMMA EdgeSteps ==
    ASSUME NEW movers, NEW red, NEW keys, NEW e, KeysOf(movers, keys, e),
           keys = {k \in DOMAIN movers : movers[k].edge = e}
    PROVE  EdgeStepped(StepEdge(movers, red, e), movers, red, keys, e)
<1> DEFINE n == Cardinality(keys)
           first == [left |-> keys, ahead |-> None, results |-> <<>>]
           W(q, i) == Worked(q, i, n, movers, red, keys, e)
           S == UNION {{q \in Queues(movers, red, keys) : W(q, i)} : i \in 0 .. n}
           Step(i, q) == IF W(q, i - 1) THEN StepFront(movers, red, q) ELSE first
           step == [x \in (1 .. n) \X S |-> Step(x[1], x[2])]
<1>1. n \in Nat
  BY FS_CardinalityType DEF KeysOf
<1>2. W(first, 0)
  <2> HIDE DEF first
  <2>1. first = [left |-> keys, ahead |-> None, results |-> <<>>]
    BY DEF first
  <2> QED
    BY <2>1, QueueBegins
<1>3. ASSUME NEW i \in 1 .. n, NEW q, W(q, i - 1) PROVE W(StepFront(movers, red, q), i)
  BY <1>3, QueueShortens
<1>4. \A q, i : i \in 0 .. n /\ W(q, i) => q \in S
  BY DEF Worked, QueueInv
<1> HIDE DEF first, W, S
<1>5. first \in S
  BY <1>1, <1>2, <1>4
<1>6. ASSUME NEW i \in 1 .. n, NEW q \in S PROVE Step(i, q) \in S
  <2>1. CASE W(q, i - 1)
    BY <2>1, <1>1, <1>3, <1>4
  <2>2. CASE ~W(q, i - 1)
    BY <2>2, <1>5
  <2> QED
    BY <2>1, <2>2
<1> HIDE DEF Step
<1>7. step \in [(1 .. n) \X S -> S]
  BY <1>6
<1>8. \A i \in 1 .. n, q \in S : step[<<i, q>>] = Step(i, q)
  OBVIOUS
<1> HIDE DEF step
<1>9. PICK f \in [0 .. n -> S] : Iterates(f, n, first, step)
  <2> HIDE DEF n
  <2> QED
    BY <1>1, <1>5, <1>7, Iteration
<1> HIDE DEF n
<1>10. f[0] = first /\ \A i \in 1 .. n : f[i] = Step(i, f[i - 1])
  <2>1. f[0] = first /\ \A i \in 1 .. n : f[i] = step[<<i, f[i - 1]>>]
    BY <1>9 DEF Iterates
  <2>2. \A i \in 1 .. n : f[i - 1] \in S
    BY <1>1
  <2> QED
    BY <2>1, <2>2, <1>8
<1> DEFINE F == {i \in 0 .. n : W(f[i], i)}
<1>11. \A i \in 0 .. n : i \in F
  <2>1. 0 \in F
    BY <1>1, <1>2, <1>10
  <2>2. \A i \in 1 .. n : i - 1 \in F => i \in F
    <3> SUFFICES ASSUME NEW i \in 1 .. n, W(f[i - 1], i - 1) PROVE W(f[i], i)
      BY <1>1
    <3>1. f[i] = StepFront(movers, red, f[i - 1])
      BY <1>10 DEF Step
    <3> QED
      BY <3>1, <1>3
  <2> HIDE DEF F
  <2> QED
    BY <2>1, <2>2, <1>1, Induction
<1>12. IsQueue(f, movers, red, keys, n)
  <2>1. \A i \in 1 .. n : f[i] = StepFront(movers, red, f[i - 1])
    <3> TAKE i \in 1 .. n
    <3>1. i - 1 \in F
      <4>1. i - 1 \in 0 .. n
        BY <1>1
      <4> HIDE DEF F
      <4> QED
        BY <4>1, <1>11
    <3>2. W(f[i - 1], i - 1)
      BY <3>1
    <3> QED
      BY <3>2, <1>10 DEF Step
  <2> HIDE DEF F
  <2> QED
    BY <2>1, <1>9, <1>10 DEF IsQueue, first
<1> HIDE DEF F
<1>13. StepEdge(movers, red, e) = (CHOOSE g : IsQueue(g, movers, red, keys, n))[n].results
  BY Zenon DEF StepEdge, IsQueue, n
<1>14. PICK g : IsQueue(g, movers, red, keys, n) /\ g[n].results = StepEdge(movers, red, e)
  BY <1>12, <1>13
<1>15. g[0] = first /\ \A i \in 1 .. n : g[i] = StepFront(movers, red, g[i - 1])
  <2>1. \A i \in 0 .. n : g[i] = IF i = 0 THEN first ELSE StepFront(movers, red, g[i - 1])
    BY <1>14 DEF IsQueue, first
  <2> QED
    BY <2>1, <1>1
<1> DEFINE G == {i \in 0 .. n : W(g[i], i)}
<1>16. \A i \in 0 .. n : i \in G
  <2>1. 0 \in G
    BY <1>1, <1>2, <1>15
  <2>2. \A i \in 1 .. n : i - 1 \in G => i \in G
    BY <1>1, <1>3, <1>15
  <2> HIDE DEF G
  <2> QED
    BY <2>1, <2>2, <1>1, Induction
<1>17. W(g[n], n)
  BY <1>1, <1>16
<1> DEFINE q == g[n]
<1> HIDE DEF q
<1>18. QueueInv(q, movers, red, keys, e) /\ Cardinality(q.left) = 0
  BY <1>1, <1>17 DEF W, Worked, q
<1>19. q.left = {}
  <2>1. q.left \subseteq keys /\ IsFiniteSet(keys)
    BY <1>18 DEF QueueInv, Queues, KeysOf
  <2> QED
    BY <2>1, <1>18, FS_Subset, FS_EmptySet
<1>20. EdgeStepped(q.results, movers, red, keys, e)
  <2>1. \A k \in keys : \E a \in Sights : q.results[k] = StepMover(movers, red, movers[k], a)
    BY <1>18, <1>19 DEF QueueInv
  <2>2. \A t, u \in keys : StaysOn(q, movers, e, u) /\ movers[t].pos < movers[u].pos =>
            ~q.results[t].crossed /\ q.results[t].pos < q.results[u].pos
    BY <1>18, <1>19 DEF QueueInv
  <2> QED
    BY <2>1, <2>2 DEF EdgeStepped, StaysOn
<1> QED
  BY <1>14, <1>20 DEF q

\* What a tick does to all movers.
TrafficStepped(results, movers, red) ==
    /\ \A k \in DOMAIN movers : \E a \in Sights : results[k] = StepMover(movers, red, movers[k], a)
    /\ \A t, u \in DOMAIN movers :
           /\ movers[t].edge = movers[u].edge
           /\ movers[t].pos < movers[u].pos
           /\ ~results[u].crossed
           /\ movers[u].pos <= Length[movers[u].edge]
           => ~results[t].crossed /\ results[t].pos < results[u].pos

LEMMA TrafficSteps ==
    ASSUME NEW movers, NEW red, IsFiniteSet(DOMAIN movers), MoversType(movers)
    PROVE  TrafficStepped(StepTraffic(movers, red), movers, red)
<1> DEFINE keys(e) == {k \in DOMAIN movers : movers[k].edge = e}
           R == StepTraffic(movers, red)
<1>1. ASSUME NEW e PROVE EdgeStepped(StepEdge(movers, red, e), movers, red, keys(e), e)
  <2>1. IsFiniteSet(keys(e))
    BY FS_Subset
  <2>2. KeysOf(movers, keys(e), e)
    BY <2>1 DEF KeysOf
  <2> QED
    BY <2>2, EdgeSteps
<1>2. \A k \in DOMAIN movers : R[k] = StepEdge(movers, red, movers[k].edge)[k]
  BY DEF StepTraffic
<1> HIDE DEF R
<1>3. ASSUME NEW k \in DOMAIN movers
      PROVE  \E a \in Sights : R[k] = StepMover(movers, red, movers[k], a)
  <2>1. k \in keys(movers[k].edge)
    OBVIOUS
  <2> HIDE DEF keys
  <2>2. \E a \in Sights : StepEdge(movers, red, movers[k].edge)[k] = StepMover(movers, red, movers[k], a)
    BY <2>1, <1>1 DEF EdgeStepped
  <2> QED
    BY <2>2, <1>2
<1>4. ASSUME NEW t \in DOMAIN movers, NEW u \in DOMAIN movers,
             movers[t].edge = movers[u].edge, movers[t].pos < movers[u].pos,
             ~R[u].crossed, movers[u].pos <= Length[movers[u].edge]
      PROVE  ~R[t].crossed /\ R[t].pos < R[u].pos
  <2> DEFINE e == movers[u].edge
             E == StepEdge(movers, red, e)
  <2>1. t \in keys(e) /\ u \in keys(e)
    BY <1>4
  <2>2. R[t] = E[t] /\ R[u] = E[u]
    BY <1>2, <1>4
  <2>3. EdgeStepped(E, movers, red, keys(e), e)
    BY <1>1
  <2>4. movers[u].pos <= Length[e]
    BY <1>4
  <2> HIDE DEF keys, e, E
  <2> QED
    BY <2>1, <2>2, <2>3, <2>4, <1>4 DEF EdgeStepped
<1>5. TrafficStepped(R, movers, red)
  BY <1>3, <1>4 DEF TrafficStepped
<1> QED
  BY <1>5 DEF R

-----------------------------------------------------------------------------
(* A truck.                                                                *)

IsFrom(f, k) ==
    f = [p \in 0 .. Len(k.order) |->
            IF p = 0 THEN <<>>
            ELSE IF p \in DOMAIN k.stops /\ ~Reached(k, p) THEN Append(f[p - 1], p)
            ELSE f[p - 1]]

\* The positions that remain are positions of stops that the truck knows.
LEMMA RemainingType ==
    ASSUME NEW k, k.order \in Seq(Nodes), DOMAIN k.stops \subseteq DOMAIN k.order
    PROVE  Remaining(k) \in Seq(DOMAIN k.stops)
<1> DEFINE n == Len(k.order)
           S == Seq(DOMAIN k.stops)
           Step(p, w) == IF p \in DOMAIN k.stops /\ ~Reached(k, p) THEN Append(w, p) ELSE w
           step == [x \in (1 .. n) \X S |-> Step(x[1], x[2])]
<1>1. n \in Nat /\ <<>> \in S
  OBVIOUS
<1>2. ASSUME NEW p \in 1 .. n, NEW w \in S PROVE Step(p, w) \in S
  <2>1. CASE p \in DOMAIN k.stops /\ ~Reached(k, p)
    BY <2>1
  <2>2. CASE ~(p \in DOMAIN k.stops /\ ~Reached(k, p))
    BY <2>2
  <2> QED
    BY <2>1, <2>2
<1> HIDE DEF S, Step
<1>3. step \in [(1 .. n) \X S -> S]
  BY <1>2
<1>4. \A p \in 1 .. n, w \in S : step[<<p, w>>] = Step(p, w)
  OBVIOUS
<1> HIDE DEF step
<1>5. PICK f \in [0 .. n -> S] : Iterates(f, n, <<>>, step)
  <2> HIDE DEF n
  <2> QED
    BY <1>1, <1>3, Iteration
<1> HIDE DEF n
<1>6. IsFrom(f, k)
  <2>1. f[0] = <<>> /\ \A p \in 1 .. n : f[p] = step[<<p, f[p - 1]>>]
    BY <1>5 DEF Iterates
  <2>2. \A p \in 1 .. n : f[p - 1] \in S
    BY <1>1
  <2>3. \A p \in 1 .. n : f[p] = Step(p, f[p - 1])
    BY <2>1, <2>2, <1>4
  <2>4. f = [p \in 0 .. n |-> IF p = 0 THEN <<>> ELSE Step(p, f[p - 1])]
    BY <2>1, <2>3, <1>5
  <2> QED
    BY <2>4, Zenon DEF IsFrom, Step, n
<1>7. Remaining(k) = (CHOOSE g : IsFrom(g, k))[n]
  BY Zenon DEF Remaining, IsFrom, n
<1>8. PICK g : IsFrom(g, k) /\ g[n] = Remaining(k)
  BY <1>6, <1>7
<1>9. g = [p \in 0 .. n |-> IF p = 0 THEN <<>> ELSE Step(p, g[p - 1])]
  BY <1>8, Zenon DEF IsFrom, Step, n
<1>10. g[0] = <<>> /\ \A p \in 1 .. n : g[p] = Step(p, g[p - 1])
  <2>1. \A p \in 0 .. n : g[p] = IF p = 0 THEN <<>> ELSE Step(p, g[p - 1])
    BY <1>9
  <2> QED
    BY <2>1, <1>1
<1> DEFINE G == {p \in 0 .. n : g[p] \in S}
<1>11. \A p \in 0 .. n : p \in G
  <2>1. 0 \in G
    BY <1>1, <1>10
  <2>2. \A p \in 1 .. n : p - 1 \in G => p \in G
    BY <1>1, <1>2, <1>10
  <2> HIDE DEF G
  <2> QED
    BY <1>1, <2>1, <2>2, Induction
<1> QED
  BY <1>1, <1>8, <1>11 DEF S

Shaped(k) ==
    /\ k = [status |-> k.status, order |-> k.order, start |-> k.start, route |-> k.route,
            stops |-> k.stops, idx |-> k.idx, pos |-> k.pos, pending |-> k.pending]
    /\ k.status \in {"EN_ROUTE", "DELIVERED"}
    /\ k.order \in Seq(Nodes)

\* The route is a way through the map, and a stop is at its own station on it.
OnMap(k) ==
    /\ k.start \in Nodes
    /\ k.route \in Seq(Edges)
    /\ \A i \in 1 .. Len(k.route) : From[k.route[i]] = NodeOn(k.start, k.route, i - 1)
    /\ DOMAIN k.stops \subseteq DOMAIN k.order
    /\ \A p \in DOMAIN k.stops : /\ k.stops[p] \in 0 .. Len(k.route)
                                 /\ NodeOn(k.start, k.route, k.stops[p]) = k.order[p]

\* The truck is on an edge of its route, unless the route has none.
Placed(k) ==
    /\ k.idx \in 1 .. Larger(1, Len(k.route))
    /\ k.pos \in Nat
    /\ OnEdge(k) \/ k.pos = 0

Owes(k) ==
    /\ k.pending \subseteq DOMAIN k.order
    /\ k.status = "DELIVERED" => k.pending = {}

TruckOK(k) == Shaped(k) /\ OnMap(k) /\ Placed(k) /\ Owes(k)

\* A chain that is built has a route for every leg.
LEMMA BuiltLegs ==
    ASSUME NEW open \in SUBSET Edges, NEW start \in Nodes, NEW stops \in Seq(Nodes),
           ChainLegs(open, start, stops) # NoRoute
    PROVE  \A i \in DOMAIN stops : Leg(open, start, stops, i) # NoRoute
<1>1. ASSUME NEW i \in DOMAIN stops PROVE Leg(open, start, stops, i) # NoRoute
  <2> DEFINE leg == [j \in DOMAIN stops |-> Routes[open][IF j = 1 THEN start ELSE stops[j - 1]][stops[j]]]
  <2>1. ~\E j \in DOMAIN stops : leg[j] = NoRoute
    BY DEF ChainLegs
  <2>2. leg[i] = Routes[open][IF i = 1 THEN start ELSE stops[i - 1]][stops[i]]
    OBVIOUS
  <2> HIDE DEF leg
  <2>3. (IF i = 1 THEN start ELSE stops[i - 1]) = At(start, stops, i - 1)
    BY DEF At
  <2>4. leg[i] # NoRoute
    BY <2>1
  <2> QED
    BY <2>2, <2>3, <2>4, Zenon DEF Leg
<1> QED
  BY <1>1

LEMMA BuiltChainLeads ==
    ASSUME NEW open \in SUBSET Edges, NEW start \in Nodes, NEW stops \in Seq(Nodes),
           ChainLegs(open, start, stops) # NoRoute
    PROVE  ChainLeads(ChainLegs(open, start, stops), open, start, stops)
BY BuiltLegs, ChainsLead

\* Where there is no chain, closing more roads makes none.
LEMMA ChainsShrink ==
    ASSUME NEW open \in SUBSET Edges, NEW fewer \in SUBSET open, NEW start \in Nodes,
           NEW stops \in Seq(Nodes), ChainLegs(open, start, stops) = NoRoute
    PROVE  ChainLegs(fewer, start, stops) = NoRoute
<1> SUFFICES ASSUME ChainLegs(fewer, start, stops) # NoRoute PROVE FALSE
  OBVIOUS
<1>1. fewer \in SUBSET Edges
  OBVIOUS
<1>2. ASSUME NEW i \in DOMAIN stops PROVE Leg(open, start, stops, i) # NoRoute
  <2> DEFINE from == At(start, stops, i - 1)
             goal == stops[i]
             leg == Routes[fewer][from][goal]
  <2>1. from \in Nodes /\ goal \in Nodes
    BY DEF At
  <2>2. leg # NoRoute
    BY <1>1, BuiltLegs DEF Leg
  <2> HIDE DEF from, goal
  <2>3. Leads(leg, fewer, from, goal)
    BY <1>1, <2>1, <2>2, RouteIsBest
  <2> HIDE DEF leg
  <2>4. Leads(leg, open, from, goal)
    BY <2>3 DEF Leads
  <2>5. Routes[open][from][goal] # NoRoute
    BY <2>1, <2>4, RouteIsBest
  <2> QED
    BY <2>5 DEF Leg, from, goal
<1> QED
  BY <1>2, ChainsLead

LEMMA NewTruckIsOK ==
    ASSUME NEW open \in SUBSET Edges, NEW wanted \in SUBSET Stations,
           NEW order, order = GreedyOrder(open, Refinery, wanted), order # NoRoute
    PROVE  TruckOK(NewTruck(order, ChainLegs(open, Refinery, order)))
<1> DEFINE c == ChainLegs(open, Refinery, order)
           k == NewTruck(order, c)
<1>1. Refinery \in Nodes /\ Stations \subseteq Nodes
  BY TrucksAssumption
<1>2. Passable(order, open, Refinery, wanted)
  BY <1>1, GreedyIsPassable
<1>3. order \in Seq(Nodes) /\ \A i \in DOMAIN order : Leg(open, Refinery, order, i) # NoRoute
  BY <1>1, <1>2 DEF Passable
<1>4. ChainLeads(c, open, Refinery, order)
  BY <1>1, <1>3, ChainsLead
<1> HIDE DEF c
<1>5. /\ k.status = "EN_ROUTE" /\ k.order = order /\ k.start = Refinery /\ k.route = c.edges
      /\ k.stops = [p \in DOMAIN order |-> c.points[p]] /\ k.idx = 1 /\ k.pos = 0
      /\ k.pending = DOMAIN order
      /\ k = [status |-> k.status, order |-> k.order, start |-> k.start, route |-> k.route,
              stops |-> k.stops, idx |-> k.idx, pos |-> k.pos, pending |-> k.pending]
  BY DEF NewTruck
<1> HIDE DEF k
<1>6. Shaped(k) /\ Owes(k)
  BY <1>3, <1>5 DEF Shaped, Owes
<1>7. k.route \in Seq(Edges)
  BY <1>4, <1>5 DEF ChainLeads
<1>8. Placed(k)
  <2>1. Len(k.route) \in Nat
    BY <1>7
  <2> QED
    BY <2>1, <1>5 DEF Placed, Larger
<1>9. OnMap(k)
  <2>1. \A p \in DOMAIN k.stops : p \in DOMAIN order /\ k.stops[p] = c.points[p]
    BY <1>5
  <2> QED
    BY <2>1, <1>1, <1>4, <1>5, <1>7 DEF OnMap, ChainLeads
<1> QED
  BY <1>6, <1>8, <1>9 DEF TruckOK, k, c

Goals(k) == [i \in DOMAIN Remaining(k) |-> k.order[Remaining(k)[i]]]

\* What a detour is searched for: the truck is on an edge, and its stops are its own.
LEMMA DetourGoals ==
    ASSUME NEW k, TruckOK(k), OnEdge(k)
    PROVE  /\ NearestNode(k) \in Nodes
           /\ Goals(k) \in Seq(Nodes)
           /\ Remaining(k) \in Seq(DOMAIN k.stops)
           /\ Detour(k) = ChainLegs(Open, NearestNode(k), Goals(k))
<1> DEFINE r == Remaining(k)
<1>1. k.idx \in Nat /\ 1 <= k.idx /\ k.route \in Seq(Edges) /\ k.order \in Seq(Nodes)
  <2>1. Len(k.route) \in Nat /\ k.route \in Seq(Edges)
    BY DEF TruckOK, OnMap
  <2> QED
    BY <2>1 DEF TruckOK, Shaped, Placed, Larger
<1>2. NearestNode(k) \in Nodes
  <2>1. Edge(k) \in Edges
    BY <1>1 DEF Edge, OnEdge
  <2> QED
    BY <2>1, GraphTypes DEF NearestNode
<1>3. r \in Seq(DOMAIN k.stops) /\ DOMAIN k.stops \subseteq DOMAIN k.order
  BY <1>1, RemainingType DEF TruckOK, OnMap
<1>4. Goals(k) = [i \in DOMAIN r |-> k.order[r[i]]]
  BY DEF Goals
<1> HIDE DEF r
<1>5. Goals(k) \in Seq(Nodes)
  <2>1. \A i \in 1 .. Len(r) : k.order[r[i]] \in Nodes
    BY <1>1, <1>3
  <2> QED
    BY <2>1, <1>3, <1>4
<1>6. Detour(k) = ChainLegs(Open, NearestNode(k), Goals(k))
  BY DEF Detour, Goals
<1> QED
  BY <1>2, <1>3, <1>5, <1>6 DEF r

LEMMA AheadIsOnEdge ==
    ASSUME NEW k, TruckOK(k), ClosedAhead(k)
    PROVE  OnEdge(k)
<1>1. k.idx \in Nat /\ Len(k.route) \in Nat
  <2>1. Len(k.route) \in Nat
    BY DEF TruckOK, OnMap
  <2> QED
    BY <2>1 DEF TruckOK, Placed, Larger
<1> QED
  BY <1>1 DEF ClosedAhead, OnEdge

\* What a detour is given.
LEMMA DetourLeads ==
    ASSUME closed \subseteq Edges, NEW k, TruckOK(k), OnEdge(k), Detour(k) # NoRoute
    PROVE  ChainLeads(Detour(k), Open, NearestNode(k), Goals(k))
<1>1. Open \in SUBSET Edges
  BY DEF Open
<1> QED
  BY <1>1, DetourGoals, BuiltChainLeads

LEMMA RerouteIsOK ==
    ASSUME closed \subseteq Edges, NEW k, TruckOK(k), OnEdge(k), Detour(k) # NoRoute
    PROVE  TruckOK(Rerouted(k))
<1> DEFINE r == Remaining(k)
           d == Detour(k)
           near == NearestNode(k)
           v == Rerouted(k)
           place(p) == CHOOSE i \in DOMAIN r : r[i] = p
<1>1. near \in Nodes /\ Goals(k) \in Seq(Nodes) /\ r \in Seq(DOMAIN k.stops)
  BY DetourGoals
<1>2. ChainLeads(d, Open, near, Goals(k))
  BY DetourLeads
<1>3. /\ v.status = k.status /\ v.order = k.order /\ v.start = near /\ v.route = d.edges
      /\ v.stops = StopsOfDetour(k) /\ v.idx = 1 /\ v.pos = 0 /\ v.pending = k.pending
      /\ v = [status |-> v.status, order |-> v.order, start |-> v.start, route |-> v.route,
              stops |-> v.stops, idx |-> v.idx, pos |-> v.pos, pending |-> v.pending]
  <2>1. k = [status |-> k.status, order |-> k.order, start |-> k.start, route |-> k.route,
             stops |-> k.stops, idx |-> k.idx, pos |-> k.pos, pending |-> k.pending]
    BY DEF TruckOK, Shaped
  <2> HIDE DEF d, near
  <2>2. v = [k EXCEPT !.start = near, !.route = d.edges, !.stops = StopsOfDetour(k), !.idx = 1, !.pos = 0]
    BY DEF Rerouted, d, near
  <2> HIDE DEF v
  <2> QED
    BY <2>1, <2>2
<1>4. StopsOfDetour(k) = [p \in Range(r) |-> d.points[place(p)]]
  BY DEF StopsOfDetour
<1>5. Goals(k) = [i \in DOMAIN r |-> k.order[r[i]]]
  BY DEF Goals
<1> HIDE DEF r, d, near, v
<1>6. Shaped(v) /\ Owes(v)
  BY <1>3 DEF TruckOK, Shaped, Owes
<1>7. v.route \in Seq(Edges)
  BY <1>2, <1>3 DEF ChainLeads, Open
<1>8. Placed(v)
  <2>1. Len(v.route) \in Nat
    BY <1>7
  <2> QED
    BY <2>1, <1>3 DEF Placed, Larger
<1>9. ASSUME NEW p \in DOMAIN v.stops
      PROVE  /\ p \in DOMAIN k.order
             /\ v.stops[p] \in 0 .. Len(v.route)
             /\ NodeOn(v.start, v.route, v.stops[p]) = v.order[p]
  <2>1. p \in Range(r) /\ v.stops[p] = d.points[place(p)]
    BY <1>3, <1>4
  <2>2. place(p) \in DOMAIN r /\ r[place(p)] = p
    BY <2>1 DEF Range
  <2> HIDE DEF place
  <2>3. p \in DOMAIN k.stops
    BY <2>2, <1>1
  <2>4. p \in DOMAIN k.order
    BY <2>3 DEF TruckOK, OnMap
  <2>5. place(p) \in DOMAIN Goals(k) /\ Goals(k)[place(p)] = k.order[p]
    BY <2>2, <1>5
  <2>6. /\ d.points[place(p)] \in 0 .. Len(d.edges)
        /\ NodeOn(near, d.edges, d.points[place(p)]) = Goals(k)[place(p)]
    BY <2>5, <1>2 DEF ChainLeads
  <2> QED
    BY <2>1, <2>4, <2>5, <2>6, <1>3
<1>10. OnMap(v)
  <2>1. \A i \in 1 .. Len(v.route) : From[v.route[i]] = NodeOn(v.start, v.route, i - 1)
    BY <1>2, <1>3 DEF ChainLeads
  <2>2. DOMAIN v.stops \subseteq DOMAIN v.order
    BY <1>3, <1>9
  <2>3. v.start \in Nodes
    BY <1>1, <1>3
  <2> QED
    BY <2>1, <2>2, <2>3, <1>7, <1>9 DEF OnMap
<1> QED
  BY <1>6, <1>8, <1>10 DEF TruckOK, v

LEMMA MoveIsOK ==
    ASSUME NEW k, TruckOK(k), OnEdge(k), k.status = "EN_ROUTE",
           NEW a, NEW result, Bounded(result, MoverOf(k), a)
    PROVE  TruckOK(Deliver(Advanced(k, result), result.arrived))
<1> DEFINE m == Advanced(k, result)
           v == Deliver(m, result.arrived)
           left == {p \in m.pending : p \notin DOMAIN m.stops \/ ~Reached(m, p)}
<1>1. k = [status |-> k.status, order |-> k.order, start |-> k.start, route |-> k.route,
           stops |-> k.stops, idx |-> k.idx, pos |-> k.pos, pending |-> k.pending]
  BY DEF TruckOK, Shaped
<1>2. /\ m.status = k.status /\ m.order = k.order /\ m.start = k.start /\ m.route = k.route
      /\ m.stops = k.stops /\ m.idx = (IF result.crossed THEN k.idx + 1 ELSE k.idx)
      /\ m.pos = result.pos /\ m.pending = k.pending
      /\ m = [status |-> m.status, order |-> m.order, start |-> m.start, route |-> m.route,
              stops |-> m.stops, idx |-> m.idx, pos |-> m.pos, pending |-> m.pending]
  <2>1. m = [k EXCEPT !.idx = IF result.crossed THEN k.idx + 1 ELSE k.idx, !.pos = result.pos]
    BY DEF Advanced
  <2> HIDE DEF m
  <2> QED
    BY <2>1, <1>1
<1>3. v = [m EXCEPT !.pending = left,
                    !.status = IF result.arrived /\ left = {} THEN "DELIVERED" ELSE m.status]
  BY DEF Deliver
<1>4. left \subseteq k.pending
  BY <1>2
<1> HIDE DEF left, m, v
<1>5. /\ v.status = (IF result.arrived /\ left = {} THEN "DELIVERED" ELSE k.status)
      /\ v.order = k.order /\ v.start = k.start /\ v.route = k.route
      /\ v.stops = k.stops /\ v.idx = m.idx /\ v.pos = result.pos /\ v.pending = left
      /\ v = [status |-> v.status, order |-> v.order, start |-> v.start, route |-> v.route,
              stops |-> v.stops, idx |-> v.idx, pos |-> v.pos, pending |-> v.pending]
  BY <1>2, <1>3
<1>6. Shaped(v)
  BY <1>5 DEF TruckOK, Shaped
<1>7. Owes(v)
  <2>1. v.pending \subseteq DOMAIN v.order
    BY <1>4, <1>5 DEF TruckOK, Owes
  <2>2. v.status = "DELIVERED" => v.pending = {}
    BY <1>5
  <2> QED
    BY <2>1, <2>2 DEF Owes
<1>8. OnMap(v)
  BY <1>5 DEF TruckOK, OnMap
<1>9. Placed(v)
  <2>1. Len(k.route) \in Nat /\ k.idx \in 1 .. Len(k.route)
    <3>1. Len(k.route) \in Nat
      BY DEF TruckOK, OnMap
    <3> QED
      BY <3>1 DEF TruckOK, Placed, OnEdge, Larger
  <2>2. result.pos \in Nat
    BY DEF Bounded
  <2>3. result.crossed => k.idx < Len(k.route)
    <3>1. result.crossed => MoverOf(k).next # None
      BY DEF Bounded
    <3>2. MoverOf(k).next = IF k.idx < Len(k.route) THEN k.route[k.idx + 1] ELSE None
      BY DEF MoverOf, NextEdge
    <3> QED
      BY <3>1, <3>2
  <2>4. v.idx \in 1 .. Len(k.route)
    BY <2>1, <2>3, <1>2, <1>5
  <2> QED
    BY <2>1, <2>2, <2>4, <1>5 DEF Placed, OnEdge, Larger
<1>10. TruckOK(v)
  BY <1>6, <1>7, <1>8, <1>9 DEF TruckOK
<1> QED
  BY <1>10 DEF v, m

\* What a tick writes to a truck that moves.
LEMMA MoveFields ==
    ASSUME NEW k, TruckOK(k), NEW result
    PROVE  LET v == Deliver(Advanced(k, result), result.arrived)
           IN  /\ v.route = k.route
               /\ v.idx = (IF result.crossed THEN k.idx + 1 ELSE k.idx)
               /\ v.pos = result.pos
<1> DEFINE m == Advanced(k, result)
           v == Deliver(m, result.arrived)
           left == {p \in m.pending : p \notin DOMAIN m.stops \/ ~Reached(m, p)}
<1>1. k = [status |-> k.status, order |-> k.order, start |-> k.start, route |-> k.route,
           stops |-> k.stops, idx |-> k.idx, pos |-> k.pos, pending |-> k.pending]
  BY DEF TruckOK, Shaped
<1>2. /\ m.route = k.route /\ m.idx = (IF result.crossed THEN k.idx + 1 ELSE k.idx)
      /\ m.pos = result.pos
      /\ m = [status |-> m.status, order |-> m.order, start |-> m.start, route |-> m.route,
              stops |-> m.stops, idx |-> m.idx, pos |-> m.pos, pending |-> m.pending]
  <2>1. m = [k EXCEPT !.idx = IF result.crossed THEN k.idx + 1 ELSE k.idx, !.pos = result.pos]
    BY DEF Advanced
  <2> HIDE DEF m
  <2> QED
    BY <2>1, <1>1
<1>3. v = [m EXCEPT !.pending = left,
                    !.status = IF result.arrived /\ left = {} THEN "DELIVERED" ELSE m.status]
  BY DEF Deliver
<1> HIDE DEF left, m, v
<1>4. v.route = k.route /\ v.idx = (IF result.crossed THEN k.idx + 1 ELSE k.idx) /\ v.pos = result.pos
  BY <1>2, <1>3
<1> QED
  BY <1>4 DEF v, m

-----------------------------------------------------------------------------
(* The trucks of a game.                                                   *)

Driving(k) == k # None /\ k.status = "EN_ROUTE"

Blocked(k, shut) == \E i \in k.idx .. Len(k.route) : k.route[i] \in shut

\* A truck that is moved on passes no closed road in sight, or has no other way.
Passes(t, k, shut, late) ==
    NextEdge(k) \in shut /\ Remaining(k) # <<>>
    => t \in late \/ ChainLegs(Edges \ shut, NearestNode(k), Goals(k)) = NoRoute

TickTyped(q) ==
    /\ q = [left |-> q.left, detouring |-> q.detouring, moving |-> q.moving,
            rerouted |-> q.rerouted, late |-> q.late]
    /\ q.left \subseteq TruckIds
    /\ q.moving \subseteq TruckIds
    /\ DOMAIN q.rerouted \subseteq TruckIds

\* The trucks that the tick is about are on the road; the others have just set out.
TickSorts(q, rows) ==
    /\ \A t \in q.left \cup q.moving : Driving(rows[t])
    /\ \A t \in TruckIds :
          \/ ~Driving(rows[t]) \/ rows[t].pos = 0
          \/ t \in q.left \cup q.moving \/ t = q.detouring \/ t \in DOMAIN q.rerouted

TickSearches(q, rows, shut) ==
    q.detouring # None => /\ q.detouring \in TruckIds
                          /\ Driving(rows[q.detouring])
                          /\ Blocked(rows[q.detouring], shut)

\* A truck that is sent on a detour is seen to be.
TickFinds(q, rows) ==
    \A t \in DOMAIN q.rerouted : /\ rows[t] # None
                                 /\ TruckOK(q.rerouted[t])
                                 /\ q.rerouted[t].route # rows[t].route

TickPasses(q, rows, shut) == \A t \in q.moving : Passes(t, rows[t], shut, q.late)

TickOK(q, rows, shut) ==
    /\ TickTyped(q)
    /\ TickSorts(q, rows)
    /\ TickSearches(q, rows, shut)
    /\ TickFinds(q, rows)
    /\ TickPasses(q, rows, shut)

TrucksInv ==
    /\ closed \subseteq Edges
    /\ DOMAIN trucks = TruckIds
    /\ \A t \in TruckIds : trucks[t] # None => TruckOK(trucks[t])
    /\ tick # None => TickOK(tick, trucks, closed)

Movers == [t \in Moving |-> MoverOf(trucks[t])]

Stepped(red) == StepTraffic(Movers, red)

LEMMA MoversAreTyped ==
    ASSUME TrucksInv, tick # None
    PROVE  IsFiniteSet(DOMAIN Movers) /\ MoversType(Movers) /\ DOMAIN Movers = Moving
<1>1. DOMAIN Movers = Moving /\ Moving \subseteq TruckIds
  BY DEF Movers, Moving, TrucksInv, TickOK, TickTyped
<1>2. IsFiniteSet(Moving)
  BY <1>1, TrucksAssumption, FS_Subset
<1>3. ASSUME NEW t \in Moving PROVE Movers[t].edge \in Edges /\ Movers[t].pos \in Nat
  <2> DEFINE k == trucks[t]
  <2>1. TruckOK(k) /\ OnEdge(k)
    BY <1>1 DEF Moving, TrucksInv, TickOK, TickSorts, Driving
  <2>2. Movers[t].edge = Edge(k) /\ Movers[t].pos = k.pos
    BY DEF Movers, MoverOf
  <2> HIDE DEF k
  <2>3. Len(k.route) \in Nat /\ k.route \in Seq(Edges)
    BY <2>1 DEF TruckOK, OnMap
  <2>4. k.idx \in 1 .. Len(k.route) /\ k.pos \in Nat
    BY <2>1, <2>3 DEF TruckOK, Placed, OnEdge, Larger
  <2>5. Edge(k) \in Edges
    BY <2>3, <2>4 DEF Edge
  <2> QED
    BY <2>2, <2>4, <2>5
<1> QED
  BY <1>1, <1>2, <1>3 DEF MoversType

\* The results of a tick, one for each truck that moves.
LEMMA TickSteps ==
    ASSUME TrucksInv, tick # None, NEW red
    PROVE  /\ TrafficStepped(Stepped(red), Movers, red)
           /\ \A t \in Moving : /\ Movers[t] = MoverOf(trucks[t])
                                /\ \E a \in Sights : Bounded(Stepped(red)[t], Movers[t], a)
<1>1. IsFiniteSet(DOMAIN Movers) /\ MoversType(Movers) /\ DOMAIN Movers = Moving
  BY MoversAreTyped
<1>2. TrafficStepped(Stepped(red), Movers, red)
  BY <1>1, TrafficSteps DEF Stepped
<1>3. ASSUME NEW t \in Moving PROVE \E a \in Sights : Bounded(Stepped(red)[t], Movers[t], a)
  <2>1. PICK a \in Sights : Stepped(red)[t] = StepMover(Movers, red, Movers[t], a)
    BY <1>1, <1>2 DEF TrafficStepped
  <2>2. Movers[t].edge \in Edges /\ Movers[t].pos \in Nat
    BY <1>1 DEF MoversType
  <2>3. Bounded(StepMover(Movers, red, Movers[t], a), Movers[t], a)
    BY <2>2, StepMoverBounds
  <2> QED
    BY <2>1, <2>3
<1> QED
  BY <1>2, <1>3 DEF Movers

\* A tick, truck by truck.
LEMMA TickCases ==
    ASSUME NEW red, NEW t \in TruckIds
    PROVE  Ticked(red)[t] = IF t \in Moving
                            THEN Deliver(Advanced(trucks[t], Stepped(red)[t]), Stepped(red)[t].arrived)
                            ELSE IF t \in DOMAIN tick.rerouted THEN tick.rerouted[t]
                            ELSE trucks[t]
BY DEF Ticked, Stepped, Movers

LEMMA TrucksBegin == Init => TrucksInv
BY DEF Init, TrucksInv

LEMMA NextIsAhead ==
    ASSUME NEW shut \in SUBSET Edges, NEW k, TruckOK(k), NextEdge(k) \in shut
    PROVE  Blocked(k, shut) /\ OnEdge(k)
<1>1. k.idx \in Nat /\ Len(k.route) \in Nat
  <2>1. Len(k.route) \in Nat
    BY DEF TruckOK, OnMap
  <2> QED
    BY <2>1 DEF TruckOK, Placed, Larger
<1>2. NextEdge(k) # None
  BY TrucksAssumption
<1>3. k.idx < Len(k.route) /\ k.route[k.idx + 1] \in shut
  BY <1>2 DEF NextEdge
<1>4. k.idx + 1 \in k.idx .. Len(k.route)
  BY <1>1, <1>3
<1> QED
  BY <1>1, <1>3, <1>4 DEF Blocked, OnEdge

LEMMA CreateKeepsTick ==
    ASSUME TrucksInv, NEW t \in TruckIds, NEW k, trucks[t] = None, k.pos = 0,
           trucks' = [trucks EXCEPT ![t] = k], closed' = closed, tick' = tick, tick # None
    PROVE  TickOK(tick', trucks', closed')
<1>1. /\ DOMAIN trucks = TruckIds /\ TickTyped(tick) /\ TickSorts(tick, trucks)
      /\ TickSearches(tick, trucks, closed) /\ TickFinds(tick, trucks)
      /\ TickPasses(tick, trucks, closed)
  BY DEF TrucksInv, TickOK
<1>2. trucks'[t].pos = 0
  BY <1>1
<1>3. \A u \in TruckIds : trucks[u] # None => trucks'[u] = trucks[u]
  BY <1>1
<1>4. \A u \in TruckIds : u # t => trucks'[u] = trucks[u]
  BY <1>1
<1>5. TickSorts(tick, trucks')
  BY <1>1, <1>2, <1>3, <1>4 DEF TickSorts, TickTyped, Driving
<1>6. TickSearches(tick, trucks', closed)
  BY <1>1, <1>3 DEF TickSearches, Driving
<1>7. TickFinds(tick, trucks')
  BY <1>1, <1>3 DEF TickFinds, TickTyped
<1>8. TickPasses(tick, trucks', closed)
  <2> SUFFICES ASSUME NEW u \in tick.moving PROVE Passes(u, trucks'[u], closed, tick.late)
    BY DEF TickPasses
  <2>1. trucks'[u] = trucks[u]
    BY <1>1, <1>3 DEF TickTyped, TickSorts, Driving
  <2> QED
    BY <2>1, <1>1, Zenon DEF TickPasses
<1> QED
  BY <1>1, <1>5, <1>6, <1>7, <1>8 DEF TickOK

\* A closure takes no detour away that there was none of, and the trucks it comes too late
\* for are kept track of.
LEMMA CloseKeepsTick ==
    ASSUME TrucksInv, NEW e \in Edges, CloseRoad(e), tick # None
    PROVE  TickOK(tick', trucks', closed')
<1> DEFINE late == tick.late \cup {t \in tick.moving : NextEdge(trucks[t]) = e}
           q == [left |-> tick.left, detouring |-> tick.detouring, moving |-> tick.moving,
                 rerouted |-> tick.rerouted, late |-> late]
<1>1. /\ closed \subseteq Edges /\ TickTyped(tick) /\ TickSorts(tick, trucks)
      /\ TickSearches(tick, trucks, closed) /\ TickFinds(tick, trucks)
      /\ TickPasses(tick, trucks, closed)
  BY DEF TrucksInv, TickOK
<1>2. closed' = closed \cup {e} /\ trucks' = trucks
  BY DEF CloseRoad
<1>3. tick' = q
  <2>1. tick' = [tick EXCEPT !.late = late]
    BY DEF CloseRoad
  <2> HIDE DEF late
  <2> QED
    BY <2>1, <1>1 DEF TickTyped
<1> HIDE DEF late
<1>4. /\ q.left = tick.left /\ q.detouring = tick.detouring /\ q.moving = tick.moving
      /\ q.rerouted = tick.rerouted /\ q.late = late
  OBVIOUS
<1>5. TickTyped(q)
  BY <1>1 DEF TickTyped
<1> HIDE DEF q
<1>6. TickSorts(q, trucks)
  BY <1>1, <1>4 DEF TickSorts
<1>7. TickSearches(q, trucks, closed')
  BY <1>1, <1>2, <1>4 DEF TickSearches, Blocked
<1>8. TickFinds(q, trucks)
  BY <1>1, <1>4 DEF TickFinds
<1>9. ASSUME NEW t \in tick.moving PROVE Passes(t, trucks[t], closed', late)
  <2> DEFINE k == trucks[t]
             goals == Goals(k)
             near == NearestNode(k)
  <2> SUFFICES ASSUME NextEdge(k) \in closed', Remaining(k) # <<>>, t \notin late
               PROVE  ChainLegs(Edges \ closed', near, goals) = NoRoute
    BY DEF Passes
  <2>1. t \in TruckIds /\ TruckOK(k)
    BY <1>1 DEF TickTyped, TickSorts, Driving, TrucksInv
  <2>2. NextEdge(k) # e
    BY DEF late
  <2>3. NextEdge(k) \in closed /\ t \notin tick.late
    BY <1>2, <2>2 DEF late
  <2>4. ChainLegs(Edges \ closed, near, goals) = NoRoute
    BY <1>1, <2>3 DEF TickPasses, Passes
  <2>5. near \in Nodes /\ goals \in Seq(Nodes)
    BY <1>1, <2>1, <2>3, NextIsAhead, DetourGoals
  <2> HIDE DEF near, goals
  <2>6. Edges \ closed \in SUBSET Edges /\ Edges \ closed' \in SUBSET (Edges \ closed)
    BY <1>2
  <2> QED
    BY <2>4, <2>5, <2>6, ChainsShrink
<1>10. TickPasses(q, trucks, closed')
  BY <1>4, <1>9 DEF TickPasses
<1> QED
  BY <1>2, <1>3, <1>5, <1>6, <1>7, <1>8, <1>10 DEF TickOK

LEMMA BeginIsOK ==
    ASSUME TrucksInv, TickBegin
    PROVE  TickOK(tick', trucks', closed')
<1> DEFINE q == [left |-> {t \in TruckIds : EnRoute(t)}, detouring |-> None, moving |-> {},
                 rerouted |-> <<>>, late |-> {}]
<1>1. tick' = q /\ trucks' = trucks /\ closed' = closed
  BY DEF TickBegin
<1>2. TickTyped(q)
  BY DEF TickTyped
<1>3. TickSorts(q, trucks)
  BY DEF TickSorts, Driving, EnRoute
<1>4. TickSearches(q, trucks, closed) /\ TickFinds(q, trucks) /\ TickPasses(q, trucks, closed)
  BY DEF TickSearches, TickFinds, TickPasses
<1> HIDE DEF q
<1> QED
  BY <1>1, <1>2, <1>3, <1>4 DEF TickOK

LEMMA LookKeepsTick ==
    ASSUME TrucksInv, NEW t \in TruckIds, TickLook(t)
    PROVE  TickOK(tick', trucks', closed')
<1> DEFINE k == trucks[t]
           blocked == ClosedAhead(k) /\ Remaining(k) # <<>>
           q == [left |-> tick.left \ {t}, detouring |-> IF blocked THEN t ELSE None,
                 moving |-> IF blocked THEN tick.moving ELSE tick.moving \cup {t},
                 rerouted |-> tick.rerouted, late |-> tick.late]
<1>1. tick # None /\ tick.detouring = None /\ t \in tick.left /\ trucks' = trucks /\ closed' = closed
  BY DEF TickLook, Looking
<1>2. /\ closed \subseteq Edges /\ TickTyped(tick) /\ TickSorts(tick, trucks)
      /\ TickFinds(tick, trucks) /\ TickPasses(tick, trucks, closed)
  BY <1>1 DEF TrucksInv, TickOK
<1>3. tick' = q
  <2>1. tick' = IF blocked THEN [tick EXCEPT !.left = tick.left \ {t}, !.detouring = t]
                ELSE [tick EXCEPT !.left = tick.left \ {t}, !.moving = tick.moving \cup {t}]
    BY DEF TickLook
  <2> HIDE DEF blocked
  <2>2. CASE blocked
    BY <2>1, <2>2, <1>1, <1>2 DEF TickTyped
  <2>3. CASE ~blocked
    BY <2>1, <2>3, <1>1, <1>2 DEF TickTyped
  <2> QED
    BY <2>2, <2>3
<1>4. Driving(k) /\ TruckOK(k)
  BY <1>1, <1>2 DEF TickSorts, Driving, TrucksInv
<1>5. Blocked(k, closed) <=> ClosedAhead(k)
  BY DEF Blocked, ClosedAhead
<1>6. /\ q.left = tick.left \ {t} /\ q.detouring = (IF blocked THEN t ELSE None)
      /\ q.moving = (IF blocked THEN tick.moving ELSE tick.moving \cup {t})
      /\ q.rerouted = tick.rerouted /\ q.late = tick.late
  OBVIOUS
<1>7. TickTyped(q)
  BY <1>2 DEF TickTyped
<1>8. blocked => ClosedAhead(k)
  OBVIOUS
<1>9. ~blocked => Passes(t, k, closed, tick.late)
  BY <1>2, <1>4, <1>5, NextIsAhead DEF Passes
<1> HIDE DEF q, blocked, k
<1>10. TickSorts(q, trucks)
  <2>1. ASSUME NEW u \in q.left \cup q.moving PROVE Driving(trucks[u])
    <3>1. u \in tick.left \cup tick.moving
      BY <1>1, <1>6
    <3> QED
      BY <3>1, <1>2 DEF TickSorts
  <2>2. ASSUME NEW u \in TruckIds, Driving(trucks[u]), trucks[u].pos # 0
        PROVE  u \in q.left \cup q.moving \/ u = q.detouring \/ u \in DOMAIN q.rerouted
    <3>1. u \in tick.left \cup tick.moving \/ u \in DOMAIN tick.rerouted
      BY <2>2, <1>1, <1>2, TrucksAssumption DEF TickSorts
    <3>2. t = q.detouring \/ t \in q.moving
      BY <1>6
    <3> QED
      BY <3>1, <3>2, <1>6
  <2> QED
    BY <2>1, <2>2 DEF TickSorts
<1>11. TickSearches(q, trucks, closed)
  BY <1>4, <1>5, <1>6, <1>8 DEF TickSearches, k
<1>12. TickFinds(q, trucks)
  BY <1>2, <1>6 DEF TickFinds
<1>13. TickPasses(q, trucks, closed)
  <2> SUFFICES ASSUME NEW u \in q.moving PROVE Passes(u, trucks[u], closed, tick.late)
    BY <1>6 DEF TickPasses
  <2>1. CASE u = t /\ ~blocked
    BY <2>1, <1>9, Zenon DEF k
  <2>2. CASE u \in tick.moving
    BY <2>2, <1>2 DEF TickPasses
  <2> QED
    BY <2>1, <2>2, <1>6
<1> QED
  BY <1>1, <1>3, <1>7, <1>10, <1>11, <1>12, <1>13 DEF TickOK

\* A truck that the tick sends on a detour is seen to be: its old route has a closed road
\* ahead, its new one has none.
LEMMA DetoursShow ==
    ASSUME closed \subseteq Edges, NEW k, TruckOK(k), ClosedAhead(k), Detour(k) # NoRoute
    PROVE  Rerouted(k).route # k.route
<1>1. OnEdge(k)
  BY AheadIsOnEdge
<1>2. Detour(k).edges \in Seq(Open)
  BY <1>1, DetourLeads DEF ChainLeads
<1>3. Rerouted(k).route = Detour(k).edges
  <2>1. k = [status |-> k.status, order |-> k.order, start |-> k.start, route |-> k.route,
             stops |-> k.stops, idx |-> k.idx, pos |-> k.pos, pending |-> k.pending]
    BY DEF TruckOK, Shaped
  <2> DEFINE v == Rerouted(k)
  <2>2. v = [k EXCEPT !.start = NearestNode(k), !.route = Detour(k).edges,
                      !.stops = StopsOfDetour(k), !.idx = 1, !.pos = 0]
    BY DEF Rerouted
  <2> HIDE DEF v
  <2>3. v.route = Detour(k).edges
    BY <2>1, <2>2
  <2> QED
    BY <2>3 DEF v
<1>4. PICK i \in k.idx .. Len(k.route) : k.route[i] \in closed
  BY DEF ClosedAhead
<1>5. i \in 1 .. Len(k.route)
  <2>1. Len(k.route) \in Nat
    BY DEF TruckOK, OnMap
  <2>2. k.idx \in Nat /\ 1 <= k.idx
    BY <2>1 DEF TruckOK, Placed, Larger
  <2> QED
    BY <2>1, <2>2
<1>6. Detour(k).edges # k.route
  <2> SUFFICES ASSUME Detour(k).edges = k.route PROVE FALSE
    OBVIOUS
  <2>1. k.route \in Seq(Open)
    BY <1>2
  <2>2. k.route[i] \in Open
    BY <2>1, <1>5
  <2> QED
    BY <2>2, <1>4 DEF Open
<1> QED
  BY <1>3, <1>6

LEMMA RerouteKeepsTick ==
    ASSUME TrucksInv, NEW t \in TruckIds, TickReroute(t)
    PROVE  TickOK(tick', trucks', closed')
<1> DEFINE k == trucks[t]
           vain == Detour(k) = NoRoute
           found == Over([u \in {t} |-> Rerouted(k)], tick.rerouted)
           q == [left |-> tick.left, detouring |-> None,
                 moving |-> IF vain THEN tick.moving \cup {t} ELSE tick.moving,
                 rerouted |-> IF vain THEN tick.rerouted ELSE found, late |-> tick.late]
<1>1. tick # None /\ tick.detouring = t /\ trucks' = trucks /\ closed' = closed
  BY DEF TickReroute
<1>2. /\ closed \subseteq Edges /\ TickTyped(tick) /\ TickSorts(tick, trucks)
      /\ TickSearches(tick, trucks, closed) /\ TickFinds(tick, trucks)
      /\ TickPasses(tick, trucks, closed)
  BY <1>1 DEF TrucksInv, TickOK
<1>3. tick' = q
  <2>1. tick' = IF vain THEN [tick EXCEPT !.detouring = None, !.moving = tick.moving \cup {t}]
                ELSE [tick EXCEPT !.detouring = None, !.rerouted = found]
    BY DEF TickReroute
  <2> HIDE DEF vain, found
  <2>2. CASE vain
    BY <2>1, <2>2, <1>1, <1>2 DEF TickTyped
  <2>3. CASE ~vain
    BY <2>1, <2>3, <1>1, <1>2 DEF TickTyped
  <2> QED
    BY <2>2, <2>3
<1>4. t # None
  BY TrucksAssumption
<1>5. Driving(k) /\ TruckOK(k) /\ ClosedAhead(k)
  BY <1>1, <1>2, <1>4 DEF TickSearches, Driving, Blocked, ClosedAhead, TrucksInv
<1>6. OnEdge(k)
  BY <1>5, AheadIsOnEdge
<1>7. vain => Passes(t, k, closed, tick.late)
  <2>1. Detour(k) = ChainLegs(Edges \ closed, NearestNode(k), Goals(k))
    BY <1>5, <1>6, DetourGoals DEF Open
  <2> QED
    BY <2>1 DEF Passes
<1>8. ~vain => TruckOK(Rerouted(k)) /\ Rerouted(k).route # k.route
  BY <1>2, <1>5, <1>6, RerouteIsOK, DetoursShow
<1>9. DOMAIN found = {t} \cup DOMAIN tick.rerouted /\ found[t] = Rerouted(k)
  BY DEF Over
<1>10. \A u \in DOMAIN tick.rerouted : u # t => found[u] = tick.rerouted[u]
  BY DEF Over
<1>11. /\ q.left = tick.left /\ q.detouring = None
       /\ q.moving = (IF vain THEN tick.moving \cup {t} ELSE tick.moving)
       /\ q.rerouted = (IF vain THEN tick.rerouted ELSE found) /\ q.late = tick.late
       /\ q = [left |-> q.left, detouring |-> q.detouring, moving |-> q.moving,
               rerouted |-> q.rerouted, late |-> q.late]
  OBVIOUS
<1> HIDE DEF q, vain, found
<1>12. TickTyped(q)
  BY <1>2, <1>9, <1>11 DEF TickTyped
<1>13. TickSorts(q, trucks)
  BY <1>1, <1>2, <1>5, <1>9, <1>11 DEF TickSorts
<1>14. TickSearches(q, trucks, closed)
  BY <1>11 DEF TickSearches
<1>15. TickFinds(q, trucks)
  <2>1. CASE vain
    BY <2>1, <1>2, <1>11 DEF TickFinds
  <2>2. CASE ~vain
    <3> SUFFICES ASSUME NEW u \in DOMAIN found
                 PROVE  trucks[u] # None /\ TruckOK(found[u]) /\ found[u].route # trucks[u].route
      BY <2>2, <1>11 DEF TickFinds
    <3>1. CASE u = t
      BY <3>1, <2>2, <1>5, <1>8, <1>9 DEF Driving
    <3>2. CASE u # t
      BY <3>2, <1>2, <1>9, <1>10 DEF TickFinds
    <3> QED
      BY <3>1, <3>2
  <2> QED
    BY <2>1, <2>2
<1> HIDE DEF k
<1>16. TickPasses(q, trucks, closed)
  <2> SUFFICES ASSUME NEW u \in q.moving PROVE Passes(u, trucks[u], closed, tick.late)
    BY <1>11 DEF TickPasses
  <2>1. CASE u = t /\ vain
    BY <2>1, <1>7, Zenon DEF k
  <2>2. CASE u \in tick.moving
    BY <2>2, <1>2 DEF TickPasses
  <2> QED
    BY <2>1, <2>2, <1>11
<1> QED
  BY <1>1, <1>3, <1>12, <1>13, <1>14, <1>15, <1>16 DEF TickOK

LEMMA CommitIsOK ==
    ASSUME TrucksInv, NEW red, TickCommit(red)
    PROVE  TrucksInv'
<1>1. tick # None /\ tick' = None /\ closed' = closed /\ trucks' = Ticked(red)
  BY DEF TickCommit
<1>2. TickTyped(tick) /\ TickSorts(tick, trucks) /\ TickFinds(tick, trucks)
  BY <1>1 DEF TrucksInv, TickOK
<1>3. DOMAIN trucks' = TruckIds
  BY <1>1 DEF Ticked
<1>4. ASSUME NEW t \in TruckIds, trucks'[t] # None PROVE TruckOK(trucks'[t])
  <2>1. CASE t \in Moving
    <3>1. PICK a \in Sights : Bounded(Stepped(red)[t], MoverOf(trucks[t]), a)
      BY <1>1, <2>1, TickSteps
    <3>2. TruckOK(trucks[t]) /\ OnEdge(trucks[t]) /\ trucks[t].status = "EN_ROUTE"
      BY <2>1, <1>2 DEF Moving, TickSorts, Driving, TrucksInv
    <3>3. trucks'[t] = Deliver(Advanced(trucks[t], Stepped(red)[t]), Stepped(red)[t].arrived)
      BY <2>1, <1>1, TickCases
    <3> QED
      BY <3>1, <3>2, <3>3, MoveIsOK
  <2>2. CASE t \notin Moving /\ t \in DOMAIN tick.rerouted
    <3>1. trucks'[t] = tick.rerouted[t]
      BY <2>2, <1>1, TickCases
    <3> QED
      BY <3>1, <2>2, <1>2 DEF TickFinds
  <2>3. CASE t \notin Moving /\ t \notin DOMAIN tick.rerouted
    <3>1. trucks'[t] = trucks[t]
      BY <2>3, <1>1, TickCases
    <3> QED
      BY <3>1, <1>4 DEF TrucksInv
  <2> QED
    BY <2>1, <2>2, <2>3
<1> QED
  BY <1>1, <1>3, <1>4 DEF TrucksInv

LEMMA TrucksGoOn ==
    ASSUME TrucksInv, [Next]_vars
    PROVE  TrucksInv'
<1>1. /\ closed \subseteq Edges /\ DOMAIN trucks = TruckIds
      /\ \A t \in TruckIds : trucks[t] # None => TruckOK(trucks[t])
      /\ tick # None => TickOK(tick, trucks, closed)
  BY DEF TrucksInv
<1>2. ASSUME NEW t \in TruckIds, CreateFuelOrder(t) PROVE TrucksInv'
  <2>1. PICK k \in NewTrucks : trucks' = [trucks EXCEPT ![t] = k]
    BY <1>2 DEF CreateFuelOrder
  <2>2. PICK open \in SUBSET Edges :
            \E order \in Orders(open) : k = NewTruck(order, ChainLegs(open, Refinery, order))
    BY DEF NewTrucks
  <2> PICK order \in Orders(open) : k = NewTruck(order, ChainLegs(open, Refinery, order))
    BY <2>2
  <2>3. TruckOK(k)
    <3>1. PICK wanted \in SUBSET Stations : order = GreedyOrder(open, Refinery, wanted)
      BY DEF Orders
    <3>2. order # NoRoute
      BY DEF Orders
    <3> QED
      BY <2>2, <3>1, <3>2, NewTruckIsOK
  <2>4. k.pos = 0
    BY <2>2 DEF NewTruck
  <2>5. closed' = closed /\ tick' = tick /\ trucks[t] = None
    BY <1>2 DEF CreateFuelOrder
  <2>6. tick' # None => TickOK(tick', trucks', closed')
    BY <2>1, <2>4, <2>5, CreateKeepsTick
  <2> QED
    BY <1>1, <2>1, <2>3, <2>5, <2>6 DEF TrucksInv
<1>3. ASSUME NEW e \in Edges, CloseRoad(e) PROVE TrucksInv'
  <2>1. tick' # None => TickOK(tick', trucks', closed')
    BY <1>3, CloseKeepsTick DEF CloseRoad
  <2> QED
    BY <1>1, <1>3, <2>1 DEF CloseRoad, TrucksInv
<1>4. ASSUME NEW e \in Edges, ReopenRoad(e) PROVE TrucksInv'
  BY <1>1, <1>4 DEF ReopenRoad, TrucksInv
<1>5. CASE TickBegin
  BY <1>1, <1>5, BeginIsOK DEF TickBegin, TrucksInv
<1>6. ASSUME NEW t \in TruckIds, TickLook(t) PROVE TrucksInv'
  BY <1>1, <1>6, LookKeepsTick DEF TickLook, TrucksInv
<1>7. ASSUME NEW t \in TruckIds, TickReroute(t) PROVE TrucksInv'
  BY <1>1, <1>7, RerouteKeepsTick DEF TickReroute, TrucksInv
<1>8. ASSUME NEW red, TickCommit(red) PROVE TrucksInv'
  BY <1>8, CommitIsOK
<1>9. CASE TickAbort
  BY <1>1, <1>9 DEF TickAbort, TrucksInv
<1>10. CASE Restart
  BY <1>1, <1>10 DEF Restart, TrucksInv
<1>11. CASE UNCHANGED vars
  BY <1>1, <1>11 DEF vars, TrucksInv
<1> QED
  BY <1>2, <1>3, <1>4, <1>5, <1>6, <1>7, <1>8, <1>9, <1>10, <1>11 DEF Next

\* The strengthening is inductive.
THEOREM TrucksInductive == Spec => []TrucksInv
<1> QED
  BY TrucksBegin, TrucksGoOn, PTL DEF Spec

\* However often a truck is sent around closed roads, each stop it still knows is at its own
\* station on a route that is a way through the map.
THEOREM StopsStayOnRoute == Spec => []StopsAreOnRoute
<1>1. TrucksInv => StopsAreOnRoute
  <2> SUFFICES ASSUME TrucksInv, NEW t \in Present
               PROVE  LET k == trucks[t]
                      IN  /\ k.idx \in 1 .. Larger(1, Len(k.route))
                          /\ k.pos >= 0 /\ (OnEdge(k) \/ k.pos = 0)
                          /\ k.pending \subseteq DOMAIN k.order
                          /\ k.status = "DELIVERED" => k.pending = {}
                          /\ \A i \in 1 .. Len(k.route) : From[k.route[i]] = NodeAt(k, i - 1)
                          /\ \A p \in DOMAIN k.stops : NodeAt(k, k.stops[p]) = k.order[p]
    BY DEF StopsAreOnRoute
  <2> DEFINE k == trucks[t]
  <2>1. TruckOK(k)
    BY DEF TrucksInv, Present
  <2> HIDE DEF k
  <2>2. \A i : NodeAt(k, i) = NodeOn(k.start, k.route, i)
    BY DEF NodeAt, NodeOn
  <2>3. k.idx \in 1 .. Larger(1, Len(k.route)) /\ k.pos >= 0 /\ (OnEdge(k) \/ k.pos = 0)
    BY <2>1 DEF TruckOK, Placed
  <2>4. k.pending \subseteq DOMAIN k.order /\ (k.status = "DELIVERED" => k.pending = {})
    BY <2>1 DEF TruckOK, Owes
  <2>5. /\ \A i \in 1 .. Len(k.route) : From[k.route[i]] = NodeAt(k, i - 1)
        /\ \A p \in DOMAIN k.stops : NodeAt(k, k.stops[p]) = k.order[p]
    BY <2>1, <2>2 DEF TruckOK, OnMap
  <2> QED
    BY <2>3, <2>4, <2>5 DEF k
<1> QED
  BY <1>1, TrucksInductive, PTL

-----------------------------------------------------------------------------
(* What a step does to trucks that are not sent around closed roads.       *)

\* A commit moves the trucks that are on the road and keep their route; one that has set out
\* since the tick began stays where it is, at the beginning of its route.
LEMMA KeepersMove ==
    ASSUME TrucksInv, NEW red, TickCommit(red), NEW t \in TruckIds, EnRoute(t), OnEdge(trucks[t]),
           ~Detours(t)
    PROVE  \/ /\ t \in Moving
              /\ trucks'[t].pos = Stepped(red)[t].pos
              /\ trucks'[t].idx = (IF Stepped(red)[t].crossed THEN trucks[t].idx + 1 ELSE trucks[t].idx)
           \/ t \notin Moving /\ trucks'[t] = trucks[t] /\ trucks[t].pos = 0
<1>1. trucks[t] # None /\ trucks[t].status = "EN_ROUTE" /\ TruckOK(trucks[t])
  BY DEF EnRoute, TrucksInv
<1>2. /\ tick # None /\ tick.detouring = None /\ tick.left = {}
      /\ trucks'[t] = Ticked(red)[t]
  BY DEF TickCommit
<1>3. TickSorts(tick, trucks) /\ TickFinds(tick, trucks)
  BY <1>2 DEF TrucksInv, TickOK
<1>4. CASE t \in Moving
  <2>1. trucks'[t] = Deliver(Advanced(trucks[t], Stepped(red)[t]), Stepped(red)[t].arrived)
    BY <1>2, <1>4, TickCases
  <2> QED
    BY <1>1, <1>4, <2>1, MoveFields
<1>5. CASE t \notin Moving
  <2>1. t \notin DOMAIN tick.rerouted
    <3> SUFFICES ASSUME t \in DOMAIN tick.rerouted PROVE FALSE
      OBVIOUS
    <3>1. trucks'[t] = tick.rerouted[t]
      BY <1>2, <1>5, TickCases
    <3>2. tick.rerouted[t].route # trucks[t].route
      BY <1>3 DEF TickFinds
    <3> QED
      BY <3>1, <3>2 DEF Detours
  <2>2. trucks'[t] = trucks[t]
    BY <2>1, <1>2, <1>5, TickCases
  <2>3. t \notin tick.moving
    BY <1>5 DEF Moving
  <2>4. t # tick.detouring
    BY <1>2, TrucksAssumption
  <2>5. trucks[t].pos = 0
    BY <2>1, <2>3, <2>4, <1>1, <1>2, <1>3 DEF TickSorts, Driving
  <2> QED
    BY <1>5, <2>2, <2>5
<1> QED
  BY <1>4, <1>5

\* Only a commit changes a truck there is, or a restart, which may delete it.
LEMMA TrucksStay ==
    ASSUME TrucksInv, [Next]_vars, NEW t \in TruckIds, trucks[t] # None, trucks'[t] # None
    PROVE  trucks'[t] = trucks[t] \/ \E red : TickCommit(red)
<1>1. DOMAIN trucks = TruckIds
  BY DEF TrucksInv
<1>2. ASSUME NEW x \in TruckIds, CreateFuelOrder(x) PROVE trucks'[t] = trucks[t]
  <2>1. x # t
    BY <1>2 DEF CreateFuelOrder
  <2>2. \E k : trucks' = [trucks EXCEPT ![x] = k]
    BY <1>2 DEF CreateFuelOrder
  <2> QED
    BY <2>1, <2>2, <1>1
<1>3. ASSUME NEW e \in Edges, CloseRoad(e) \/ ReopenRoad(e) PROVE trucks'[t] = trucks[t]
  BY <1>3 DEF CloseRoad, ReopenRoad
<1>4. ASSUME NEW x \in TruckIds, TickLook(x) \/ TickReroute(x) PROVE trucks'[t] = trucks[t]
  BY <1>4 DEF TickLook, TickReroute
<1>5. CASE TickBegin \/ TickAbort
  BY <1>5 DEF TickBegin, TickAbort
<1>6. CASE Restart
  BY <1>6 DEF Restart
<1>7. CASE UNCHANGED vars
  BY <1>7 DEF vars
<1> QED
  BY <1>2, <1>3, <1>4, <1>5, <1>6, <1>7 DEF Next

\* Trucks on the same edge never pass each other: as long as the one in front stays on the
\* edge, the one behind it stays there too, and behind it.
THEOREM TrucksKeepTheirOrder == Spec => NoOvertaking
<1>1. ASSUME TrucksInv, [Next]_vars, NEW t \in TruckIds, NEW u \in TruckIds,
             EnRoute(t), OnEdge(trucks[t]), EnRoute(u), OnEdge(trucks[u]),
             Edge(trucks[t]) = Edge(trucks[u]), trucks[t].pos < trucks[u].pos,
             trucks[u].pos <= Length[Edge(trucks[u])],
             trucks'[t] # None, trucks'[u] # None,
             ~Detours(t), ~Detours(u), trucks'[u].idx = trucks[u].idx
      PROVE  trucks'[t].idx = trucks[t].idx /\ trucks'[t].pos < trucks'[u].pos
  <2>1. trucks[t] # None /\ trucks[u] # None
    BY <1>1 DEF EnRoute
  <2>2. CASE trucks'[t] = trucks[t] /\ trucks'[u] = trucks[u]
    BY <2>2, <1>1
  <2>3. CASE \E red : TickCommit(red)
    <3>1. PICK red : TickCommit(red)
      BY <2>3
    <3> DEFINE R == Stepped(red)
    <3>2. tick # None
      BY <3>1 DEF TickCommit
    <3>3. TruckOK(trucks[t]) /\ TruckOK(trucks[u])
      BY <2>1, <1>1 DEF TrucksInv
    <3>4. trucks[t].pos \in Nat /\ trucks[u].pos \in Nat /\ trucks[u].idx \in Nat
      <4>1. Len(trucks[u].route) \in Nat
        BY <3>3 DEF TruckOK, OnMap
      <4> QED
        BY <3>3, <4>1 DEF TruckOK, Placed, Larger
    <3>5. /\ u \in Moving /\ trucks'[u].pos = R[u].pos
          /\ trucks'[u].idx = (IF R[u].crossed THEN trucks[u].idx + 1 ELSE trucks[u].idx)
      <4>1. trucks[u].pos # 0
        BY <3>4, <1>1
      <4> QED
        BY <1>1, <3>1, <4>1, KeepersMove
    <3> HIDE DEF R
    <3>6. ~R[u].crossed
      BY <3>4, <3>5, <1>1
    <3>7. /\ Movers[u] = MoverOf(trucks[u]) /\ Movers[u].edge = Edge(trucks[u])
          /\ Movers[u].pos = trucks[u].pos /\ u \in DOMAIN Movers
      BY <3>5 DEF Movers, MoverOf
    <3>8. CASE t \in Moving
      <4>1. /\ trucks'[t].pos = R[t].pos
            /\ trucks'[t].idx = (IF R[t].crossed THEN trucks[t].idx + 1 ELSE trucks[t].idx)
        BY <3>8, <1>1, <3>1, KeepersMove DEF R
      <4>2. TrafficStepped(R, Movers, red)
        BY <1>1, <3>2, TickSteps DEF R
      <4>3. /\ Movers[t].edge = Edge(trucks[t]) /\ Movers[t].pos = trucks[t].pos
            /\ t \in DOMAIN Movers
        BY <3>8 DEF Movers, MoverOf
      <4>4. ~R[t].crossed /\ R[t].pos < R[u].pos
        BY <3>6, <3>7, <4>2, <4>3, <1>1 DEF TrafficStepped
      <4> QED
        BY <3>5, <4>1, <4>4
    <3>9. CASE t \notin Moving
      <4>1. trucks'[t] = trucks[t] /\ trucks[t].pos = 0
        BY <3>9, <1>1, <3>1, KeepersMove
      <4>2. PICK a \in Sights : Bounded(R[u], Movers[u], a)
        BY <1>1, <3>2, <3>5, TickSteps DEF R
      <4>3. trucks[u].pos <= R[u].pos /\ R[u].pos \in Nat
        BY <4>2, <3>6, <3>7, <1>1 DEF Bounded
      <4> QED
        BY <4>1, <4>3, <3>4, <3>5, <1>1
    <3> QED
      BY <3>8, <3>9
  <2> QED
    BY <2>1, <2>2, <2>3, <1>1, TrucksStay
<1>2. TrucksInv /\ [Next]_vars =>
        [\A t, u \in TruckIds :
          (/\ EnRoute(t) /\ OnEdge(trucks[t]) /\ EnRoute(u) /\ OnEdge(trucks[u])
           /\ Edge(trucks[t]) = Edge(trucks[u]) /\ trucks[t].pos < trucks[u].pos
           /\ trucks[u].pos <= Length[Edge(trucks[u])]
           /\ t \in Present' /\ EnRoute(u)' /\ ~Detours(t) /\ ~Detours(u)
           /\ trucks'[u].idx = trucks[u].idx)
          => trucks'[t].idx = trucks[t].idx /\ trucks'[t].pos < trucks'[u].pos]_vars
  BY <1>1 DEF Present, EnRoute
<1> QED
  BY <1>2, TrucksInductive, PTL DEF Spec, NoOvertaking

\* A truck drives onto a closed road only if there is no other way to the stops it has not
\* reached, or if the road was closed after the tick had looked at the truck's way.
THEOREM TrucksTakeDetours == Spec => DetoursAreTaken
<1>1. ASSUME TrucksInv, [Next]_vars, NEW t \in TruckIds,
             EnRoute(t), trucks'[t] # None, ~Detours(t),
             trucks'[t].idx > trucks[t].idx, Edge(trucks'[t]) \in closed,
             Remaining(trucks[t]) # <<>>
      PROVE  t \in tick.late \/ Detour(trucks[t]) = NoRoute
  <2> DEFINE k == trucks[t]
             v == trucks'[t]
  <2>1. k # None /\ k.status = "EN_ROUTE" /\ TruckOK(k)
    BY <1>1 DEF EnRoute, TrucksInv
  <2>2. Len(k.route) \in Nat
    BY <2>1 DEF TruckOK, OnMap
  <2>3. k.idx \in Nat /\ 1 <= k.idx
    BY <2>1, <2>2 DEF TruckOK, Placed, Larger
  <2>4. v # k
    BY <1>1, <2>3
  <2>5. PICK red : TickCommit(red)
    BY <1>1, <2>1, <2>4, TrucksStay
  <2>6. tick # None /\ v = Ticked(red)[t]
    BY <2>5 DEF TickCommit
  <2>7. TickFinds(tick, trucks) /\ TickPasses(tick, trucks, closed)
    BY <2>6, <1>1 DEF TrucksInv, TickOK
  <2>8. t \in Moving
    <3>1. t \notin Moving => t \in DOMAIN tick.rerouted /\ v = tick.rerouted[t]
      BY <2>4, <2>6, TickCases
    <3> QED
      BY <3>1, <2>7, <1>1 DEF TickFinds, Detours
  <2>9. v = Deliver(Advanced(k, Stepped(red)[t]), Stepped(red)[t].arrived)
    BY <2>6, <2>8, TickCases
  <2>10. v.route = k.route /\ v.idx = k.idx + 1
    <3>1. v.route = k.route /\ v.idx = (IF Stepped(red)[t].crossed THEN k.idx + 1 ELSE k.idx)
      BY <2>1, <2>9, MoveFields
    <3> QED
      BY <3>1, <2>3, <1>1
  <2>11. k.idx + 1 <= Len(k.route)
    <3>1. PICK a \in Sights : Bounded(Stepped(red)[t], MoverOf(k), a)
      BY <1>1, <2>6, <2>8, TickSteps
    <3>2. TruckOK(v)
      BY <3>1, <2>1, <2>8, <2>9, MoveIsOK DEF Moving
    <3>3. v.idx \in 1 .. Larger(1, Len(k.route))
      BY <3>2, <2>10 DEF TruckOK, Placed
    <3> QED
      BY <3>3, <2>2, <2>3, <2>10 DEF Larger
  <2>12. NextEdge(k) \in closed
    <3>1. k.route[k.idx + 1] \in closed
      BY <2>10, <1>1 DEF Edge
    <3>2. k.idx < Len(k.route)
      BY <2>2, <2>3, <2>11
    <3> QED
      BY <3>1, <3>2 DEF NextEdge
  <2>13. OnEdge(k) /\ t \in tick.moving
    BY <2>8 DEF Moving
  <2>14. t \in tick.late \/ ChainLegs(Edges \ closed, NearestNode(k), Goals(k)) = NoRoute
    BY <2>7, <2>12, <2>13, <1>1 DEF TickPasses, Passes
  <2>15. Detour(k) = ChainLegs(Edges \ closed, NearestNode(k), Goals(k))
    BY <2>1, <2>13, DetourGoals DEF Open
  <2> QED
    BY <2>14, <2>15
<1>2. TrucksInv /\ [Next]_vars =>
        [\A t \in TruckIds :
          (/\ EnRoute(t) /\ t \in Present' /\ ~Detours(t)
           /\ trucks'[t].idx > trucks[t].idx /\ Edge(trucks'[t]) \in closed
           /\ Remaining(trucks[t]) # <<>>)
          => t \in tick.late \/ Detour(trucks[t]) = NoRoute]_vars
  BY <1>1 DEF Present
<1> QED
  BY <1>2, TrucksInductive, PTL DEF Spec, DetoursAreTaken
=============================================================================
