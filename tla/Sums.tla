-------------------------------- MODULE Sums --------------------------------
(***************************************************************************)
(* Facts about the sum of a function with a finite domain, the community   *)
(* modules' FoldFunction(+, 0, f), which the models use for the liters of  *)
(* an order, the reservations of a tank and the revenue of a player.       *)
(*                                                                         *)
(* The fold is a recursion over the subsets of the domain.  The facts rest *)
(* on induction over finite sets, in the form that every family of subsets *)
(* of a finite set has a member that contains no other.                    *)
(***************************************************************************)
EXTENDS Integers, FiniteSetTheorems, Functions, TLAPS

\* A family of subsets of a finite set has a member that contains no other.
LEMMA FiniteMin ==
    ASSUME NEW S, IsFiniteSet(S), NEW F, F \subseteq SUBSET S, F # {}
    PROVE  \E X \in F : \A Y \in F : Y \subseteq X => Y = X
<1>1. IsWellFoundedOn(StrictSubsetOrdering(S), SUBSET S)
  BY FS_StrictSubsetOrderingWellFounded, FS_FiniteSubsetsOfFinite, Zenon
<1>2. PICK X \in F : \A Y \in F : <<Y, X>> \notin StrictSubsetOrdering(S)
  <2> HIDE DEF StrictSubsetOrdering
  <2> QED
    BY <1>1, WFMin, Zenon
<1>3. ASSUME NEW Y \in F, Y \subseteq X, Y # X PROVE FALSE
  BY <1>2, <1>3 DEF StrictSubsetOrdering
<1> QED
  BY <1>3

\* What holds of the empty set and stays when an element is added holds of every
\* subset of a finite set.
LEMMA SetInduction ==
    ASSUME NEW S, IsFiniteSet(S), NEW G, {} \in G,
           \A T \in SUBSET S : \A x \in S \ T : T \in G => T \cup {x} \in G
    PROVE  \A T \in SUBSET S : T \in G
<1> SUFFICES ASSUME NEW U \in SUBSET S, U \notin G PROVE FALSE
  OBVIOUS
<1> DEFINE F == {T \in SUBSET S : T \notin G}
<1>1. F # {} /\ F \subseteq SUBSET S
  OBVIOUS
<1>2. PICK X \in F : \A Y \in F : Y \subseteq X => Y = X
  <2> HIDE DEF F
  <2> QED
    BY <1>1, FiniteMin
<1>3. X \in SUBSET S /\ X \notin G
  OBVIOUS
<1>4. PICK x \in X : TRUE
  BY <1>3
<1>5. X \ {x} \in G
  <2>1. X \ {x} \notin F
    <3> HIDE DEF F
    <3> QED
      BY <1>2, <1>4
  <2> QED
    BY <2>1, <1>3
<1>6. (X \ {x}) \cup {x} = X
  BY <1>4
<1>7. X \ {x} \in SUBSET S /\ x \in S \ (X \ {x})
  BY <1>3, <1>4
<1> HIDE DEF F
<1> QED
  BY <1>3, <1>5, <1>6, <1>7

\* The element that the fold adds first.
Pick(s) == CHOOSE x \in s : TRUE

\* it gives the sum of f over every subset of D.
Recursion(it, f, D) ==
    it = [s \in SUBSET D |-> IF s = {} THEN 0 ELSE f[Pick(s)] + it[s \ {Pick(s)}]]

Partial(f) == CHOOSE it : Recursion(it, f, DOMAIN f)

Sum(f) == Partial(f)[DOMAIN f]

\* The fold of the community modules is this sum.
LEMMA FoldIsSum == ASSUME NEW f PROVE FoldFunction(+, 0, f) = Sum(f)
BY Zenon DEF FoldFunction, FoldFunctionOnSet, MapThenFoldSet, Sum, Partial, Recursion, Pick

\* A set that is not empty contains the element that is picked from it.
LEMMA PickIn == ASSUME NEW s, s # {} PROVE Pick(s) \in s
BY DEF Pick

\* A solution for integers has integer values and unfolds.
LEMMA RecursionType ==
    ASSUME NEW D, IsFiniteSet(D), NEW f \in [D -> Int], NEW g, Recursion(g, f, D)
    PROVE  /\ g \in [SUBSET D -> Int]
           /\ g[{}] = 0
           /\ \A s \in SUBSET D : s # {} => g[s] = f[Pick(s)] + g[s \ {Pick(s)}]
<1>1. \A s \in SUBSET D : g[s] = IF s = {} THEN 0 ELSE f[Pick(s)] + g[s \ {Pick(s)}]
  BY DEF Recursion
<1>2. g = [s \in SUBSET D |-> g[s]]
  BY DEF Recursion
<1> DEFINE Bad == {s \in SUBSET D : g[s] \notin Int}
<1>3. Bad = {}
  <2> SUFFICES ASSUME Bad # {} PROVE FALSE
    OBVIOUS
  <2>1. Bad \subseteq SUBSET D
    OBVIOUS
  <2>2. PICK X \in Bad : \A Y \in Bad : Y \subseteq X => Y = X
    <3> HIDE DEF Bad
    <3> QED
      BY <2>1, FiniteMin
  <2>3. X \in SUBSET D /\ g[X] \notin Int
    OBVIOUS
  <2>4. X # {}
    <3>1. {} \in SUBSET D
      OBVIOUS
    <3>2. g[{}] = 0
      BY <3>1, <1>1
    <3> HIDE DEF Bad
    <3> QED
      BY <2>3, <3>2
  <2>5. Pick(X) \in X
    BY <2>4, PickIn
  <2>6. X \ {Pick(X)} \notin Bad
    <3> HIDE DEF Bad
    <3> QED
      BY <2>2, <2>5
  <2>7. g[X \ {Pick(X)}] \in Int
    BY <2>6, <2>3
  <2>8. f[Pick(X)] \in Int
    BY <2>5, <2>3
  <2>9. g[X] = f[Pick(X)] + g[X \ {Pick(X)}]
    <3> HIDE DEF Bad
    <3> QED
      BY <2>3, <2>4, <1>1
  <2> HIDE DEF Bad
  <2> QED
    BY <2>3, <2>7, <2>8, <2>9
<1>4. \A s \in SUBSET D : g[s] \in Int
  BY <1>3
<1> QED
  BY <1>1, <1>2, <1>4

\* Solutions over two domains, one within the other, agree.
LEMMA RecursionUnique ==
    ASSUME NEW U, IsFiniteSet(U), NEW T \in SUBSET U, NEW f,
           NEW g, Recursion(g, f, T), NEW h, Recursion(h, f, U)
    PROVE  \A s \in SUBSET T : g[s] = h[s]
<1>1. \A s \in SUBSET T : g[s] = IF s = {} THEN 0 ELSE f[Pick(s)] + g[s \ {Pick(s)}]
  BY DEF Recursion
<1>2. \A s \in SUBSET T : h[s] = IF s = {} THEN 0 ELSE f[Pick(s)] + h[s \ {Pick(s)}]
  <2>1. \A s \in SUBSET U : h[s] = IF s = {} THEN 0 ELSE f[Pick(s)] + h[s \ {Pick(s)}]
    BY DEF Recursion
  <2> QED
    BY <2>1
<1> DEFINE Bad == {s \in SUBSET T : g[s] # h[s]}
<1>3. Bad = {}
  <2> SUFFICES ASSUME Bad # {} PROVE FALSE
    OBVIOUS
  <2>1. Bad \subseteq SUBSET U
    OBVIOUS
  <2>2. PICK X \in Bad : \A Y \in Bad : Y \subseteq X => Y = X
    <3> HIDE DEF Bad
    <3> QED
      BY <2>1, FiniteMin
  <2>3. X \in SUBSET T /\ g[X] # h[X]
    OBVIOUS
  <2>4. X # {}
    BY <2>3, <1>1, <1>2
  <2>5. Pick(X) \in X
    BY <2>4, PickIn
  <2>6. X \ {Pick(X)} \notin Bad
    <3> HIDE DEF Bad
    <3> QED
      BY <2>2, <2>5
  <2>7. g[X \ {Pick(X)}] = h[X \ {Pick(X)}]
    BY <2>6, <2>3
  <2> QED
    BY <2>3, <2>4, <2>7, <1>1, <1>2
<1> QED
  BY <1>3

\* There is a solution for every finite domain.
LEMMA RecursionExists ==
    ASSUME NEW D, IsFiniteSet(D), NEW f
    PROVE  \E g : Recursion(g, f, D)
<1> DEFINE Bad == {T \in SUBSET D : ~ \E g : Recursion(g, f, T)}
<1> SUFFICES ASSUME Bad # {} PROVE FALSE
  OBVIOUS
<1>1. Bad \subseteq SUBSET D
  OBVIOUS
<1>2. PICK X \in Bad : \A Y \in Bad : Y \subseteq X => Y = X
  <2> HIDE DEF Bad
  <2> QED
    BY <1>1, FiniteMin
<1>3. X \in SUBSET D /\ ~ \E g : Recursion(g, f, X)
  OBVIOUS
<1>4. \A Y \in SUBSET X : Y # X => \E g : Recursion(g, f, Y)
  <2> TAKE Y \in SUBSET X
  <2> HAVE Y # X
  <2>1. Y \notin Bad
    <3> HIDE DEF Bad
    <3> QED
      BY <1>2
  <2> QED
    BY <2>1, <1>3
<1> DEFINE part(Y) == CHOOSE g : Recursion(g, f, Y)
<1>5. \A Y \in SUBSET X : Y # X => Recursion(part(Y), f, Y)
  BY <1>4
<1> HIDE DEF part
<1> DEFINE below(s) == f[Pick(s)] + part(s \ {Pick(s)})[s \ {Pick(s)}]
           g == [s \in SUBSET X |-> IF s = {} THEN 0 ELSE below(s)]
<1>6. ASSUME NEW s \in SUBSET X, s # X PROVE part(s)[s] = g[s]
  <2>1. Recursion(part(s), f, s)
    BY <1>5, <1>6
  <2>2. CASE s = {}
    BY <2>1, <2>2 DEF Recursion
  <2>3. CASE s # {}
    <3> DEFINE t == s \ {Pick(s)}
    <3>1. Pick(s) \in s
      BY <2>3, PickIn
    <3>2. t \in SUBSET s /\ t \in SUBSET X /\ t # X /\ t \in SUBSET t
      BY <3>1, <1>6
    <3>3. Recursion(part(t), f, t)
      BY <3>2, <1>5
    <3>4. IsFiniteSet(s)
      BY <1>3, FS_Subset
    <3>5. part(t)[t] = part(s)[t]
      <4> HIDE DEF t
      <4> QED
        BY <2>1, <3>2, <3>3, <3>4, RecursionUnique
    <3>6. part(s)[s] = f[Pick(s)] + part(s)[t]
      BY <2>1, <2>3 DEF Recursion
    <3> QED
      BY <3>5, <3>6, <2>3
  <2> QED
    BY <2>2, <2>3
<1>7. \A s \in SUBSET X : s # {} => g[s] = f[Pick(s)] + g[s \ {Pick(s)}]
  <2> TAKE s \in SUBSET X
  <2> HAVE s # {}
  <2> DEFINE t == s \ {Pick(s)}
  <2>1. Pick(s) \in s
    BY PickIn
  <2>2. t \in SUBSET X /\ t # X
    BY <2>1
  <2>3. part(t)[t] = g[t]
    BY <2>2, <1>6
  <2>4. g[s] = f[Pick(s)] + part(t)[t]
    OBVIOUS
  <2> QED
    BY <2>3, <2>4
<1>8. g = [s \in SUBSET X |-> IF s = {} THEN 0 ELSE f[Pick(s)] + g[s \ {Pick(s)}]]
  <2>1. \A s \in SUBSET X : g[s] = IF s = {} THEN 0 ELSE f[Pick(s)] + g[s \ {Pick(s)}]
    BY <1>7
  <2>2. g = [s \in SUBSET X |-> g[s]]
    OBVIOUS
  <2> HIDE DEF g
  <2> QED
    BY <2>1, <2>2
<1> QED
  BY <1>3, <1>8 DEF Recursion

\* The solution that the fold chooses is one.
LEMMA PartialSums ==
    ASSUME NEW D, IsFiniteSet(D), NEW f \in [D -> Int]
    PROVE  /\ Partial(f) \in [SUBSET D -> Int]
           /\ Partial(f)[{}] = 0
           /\ \A s \in SUBSET D : s # {} =>
                Partial(f)[s] = f[Pick(s)] + Partial(f)[s \ {Pick(s)}]
<1>1. Recursion(Partial(f), f, D)
  <2>1. DOMAIN f = D
    OBVIOUS
  <2>2. \E g : Recursion(g, f, D)
    BY RecursionExists
  <2> QED
    BY <2>1, <2>2 DEF Partial
<1>2. PICK g : g = Partial(f)
  OBVIOUS
<1>3. Recursion(g, f, D)
  BY <1>1, <1>2
<1>4. /\ g \in [SUBSET D -> Int]
      /\ g[{}] = 0
      /\ \A s \in SUBSET D : s # {} => g[s] = f[Pick(s)] + g[s \ {Pick(s)}]
  BY <1>3, RecursionType
<1> QED
  BY <1>2, <1>4

\* An element adds its value, whichever element is picked first.
LEMMA PartialAdd ==
    ASSUME NEW D, IsFiniteSet(D), NEW f \in [D -> Int],
           NEW T \in SUBSET D, NEW x \in D \ T
    PROVE  Partial(f)[T \cup {x}] = Partial(f)[T] + f[x]
<1> DEFINE g == Partial(f)
           Bad == {S \in SUBSET D : \E y \in D \ S : g[S \cup {y}] # g[S] + f[y]}
<1>1. /\ g \in [SUBSET D -> Int]
      /\ \A s \in SUBSET D : s # {} => g[s] = f[Pick(s)] + g[s \ {Pick(s)}]
  BY PartialSums
<1> HIDE DEF g
<1>2. Bad = {}
  <2> SUFFICES ASSUME Bad # {} PROVE FALSE
    OBVIOUS
  <2>1. Bad \subseteq SUBSET D
    OBVIOUS
  <2>2. PICK X \in Bad : \A Y \in Bad : Y \subseteq X => Y = X
    <3> HIDE DEF Bad
    <3> QED
      BY <2>1, FiniteMin
  <2>3. PICK y \in D \ X : X \in SUBSET D /\ g[X \cup {y}] # g[X] + f[y]
    OBVIOUS
  <2> DEFINE c == Pick(X \cup {y})
  <2>4. c \in X \cup {y}
    BY PickIn
  <2>5. X \cup {y} \in SUBSET D /\ X \cup {y} # {}
    BY <2>3
  <2>6. g[X \cup {y}] = f[c] + g[(X \cup {y}) \ {c}]
    BY <2>5, <1>1
  <2> HIDE DEF c, Bad
  <2>7. c \in X
    <3> SUFFICES ASSUME c = y PROVE FALSE
      BY <2>4
    <3>1. (X \cup {y}) \ {c} = X
      BY <2>3
    <3>2. g[X] \in Int /\ f[y] \in Int /\ g[X \cup {y}] \in Int
      BY <2>3, <2>5, <1>1
    <3>3. f[y] + g[X] = g[X] + f[y]
      BY <3>2
    <3> QED
      BY <2>3, <2>6, <3>1, <3>3
  <2> DEFINE Y == X \ {c}
  <2>8. Y \in SUBSET D /\ Y \subseteq X /\ Y # X /\ c \in D \ Y /\ y \in D \ Y
    BY <2>3, <2>7
  <2>9. Y \notin Bad
    BY <2>2, <2>8
  <2>10. g[Y \cup {c}] = g[Y] + f[c] /\ g[Y \cup {y}] = g[Y] + f[y]
    BY <2>8, <2>9 DEF Bad
  <2>11. Y \cup {c} = X /\ Y \cup {y} = (X \cup {y}) \ {c}
    BY <2>3, <2>7
  <2>12. g[Y] \in Int /\ f[c] \in Int /\ f[y] \in Int
    BY <2>8, <1>1
  <2> HIDE DEF Y
  <2>13. f[c] + (g[Y] + f[y]) = (g[Y] + f[c]) + f[y]
    BY <2>12
  <2> QED
    BY <2>3, <2>6, <2>10, <2>11, <2>13
<1>3. T \notin Bad
  BY <1>2
<1> QED
  BY <1>3 DEF g

\* p gives the sum of f over every part of D, built up one element at a time.
SumsOver(p, f, D) ==
    /\ p \in [SUBSET D -> Int]
    /\ p[{}] = 0
    /\ \A T \in SUBSET D : \A x \in D \ T : p[T \cup {x}] = p[T] + f[x]

\* The sum of f is built up one element at a time, in any order.
LEMMA SumParts ==
    ASSUME NEW D, IsFiniteSet(D), NEW f \in [D -> Int]
    PROVE  \E p : SumsOver(p, f, D) /\ p[D] = Sum(f)
<1>1. SumsOver(Partial(f), f, D)
  <2>1. \A T \in SUBSET D : \A x \in D \ T :
          Partial(f)[T \cup {x}] = Partial(f)[T] + f[x]
    BY PartialAdd
  <2>2. Partial(f) \in [SUBSET D -> Int] /\ Partial(f)[{}] = 0
    BY PartialSums
  <2> QED
    BY <2>1, <2>2 DEF SumsOver
<1>2. DOMAIN f = D
  OBVIOUS
<1> QED
  BY <1>1, <1>2 DEF Sum

\* The sum of integers is an integer.
LEMMA SumType ==
    ASSUME NEW D, IsFiniteSet(D), NEW f \in [D -> Int]
    PROVE  Sum(f) \in Int
<1>1. PICK p : SumsOver(p, f, D) /\ p[D] = Sum(f)
  BY SumParts
<1> QED
  BY <1>1 DEF SumsOver

\* The sum of natural numbers is one, and none of them exceeds it.
LEMMA SumNat ==
    ASSUME NEW D, IsFiniteSet(D), NEW f \in [D -> Nat]
    PROVE  Sum(f) \in Nat /\ \A x \in D : f[x] <= Sum(f)
<1>1. f \in [D -> Int]
  OBVIOUS
<1>2. PICK p : SumsOver(p, f, D) /\ p[D] = Sum(f)
  BY <1>1, SumParts
<1> DEFINE G == {T \in SUBSET D : p[T] \in Nat /\ \A x \in T : f[x] <= p[T]}
<1>3. {} \in G
  BY <1>2 DEF SumsOver
<1>4. ASSUME NEW T \in SUBSET D, NEW x \in D \ T, T \in G
      PROVE  T \cup {x} \in G
  <2>1. p[T] \in Nat /\ f[x] \in Nat /\ \A y \in T : f[y] <= p[T] /\ f[y] \in Nat
    BY <1>4
  <2>2. p[T \cup {x}] = p[T] + f[x]
    BY <1>2 DEF SumsOver
  <2>3. p[T \cup {x}] \in Nat /\ \A y \in T \cup {x} : f[y] <= p[T \cup {x}]
    BY <2>1, <2>2
  <2> QED
    BY <2>3
<1>5. D \in G
  <2> HIDE DEF G
  <2> QED
    BY <1>3, <1>4, SetInduction
<1> QED
  BY <1>2, <1>5

\* The sum of a sum of functions is the sum of their sums.
LEMMA SumPlus ==
    ASSUME NEW D, IsFiniteSet(D), NEW f \in [D -> Int], NEW g \in [D -> Int],
           NEW h \in [D -> Int], \A x \in D : h[x] = f[x] + g[x]
    PROVE  Sum(h) = Sum(f) + Sum(g)
<1>1. PICK p : SumsOver(p, f, D) /\ p[D] = Sum(f)
  BY SumParts
<1>2. PICK q : SumsOver(q, g, D) /\ q[D] = Sum(g)
  BY SumParts
<1>3. PICK r : SumsOver(r, h, D) /\ r[D] = Sum(h)
  BY SumParts
<1> DEFINE G == {T \in SUBSET D : r[T] = p[T] + q[T]}
<1>4. {} \in G
  BY <1>1, <1>2, <1>3 DEF SumsOver
<1>5. ASSUME NEW T \in SUBSET D, NEW x \in D \ T, T \in G
      PROVE  T \cup {x} \in G
  <2>1. p[T] \in Int /\ q[T] \in Int /\ f[x] \in Int /\ g[x] \in Int
    BY <1>1, <1>2 DEF SumsOver
  <2>2. /\ p[T \cup {x}] = p[T] + f[x]
        /\ q[T \cup {x}] = q[T] + g[x]
        /\ r[T \cup {x}] = r[T] + h[x]
    BY <1>1, <1>2, <1>3 DEF SumsOver
  <2>3. h[x] = f[x] + g[x] /\ r[T] = p[T] + q[T]
    BY <1>5
  <2>4. r[T \cup {x}] = p[T \cup {x}] + q[T \cup {x}]
    BY <2>1, <2>2, <2>3
  <2> QED
    BY <2>4
<1>6. D \in G
  <2> HIDE DEF G
  <2> QED
    BY <1>4, <1>5, SetInduction
<1> QED
  BY <1>1, <1>2, <1>3, <1>6

\* The sum of zeros is zero.
LEMMA SumZero ==
    ASSUME NEW D, IsFiniteSet(D), NEW z \in [D -> Int], \A x \in D : z[x] = 0
    PROVE  Sum(z) = 0
<1>1. \A x \in D : z[x] = z[x] + z[x]
  OBVIOUS
<1>2. Sum(z) = Sum(z) + Sum(z)
  BY <1>1, SumPlus
<1>3. Sum(z) \in Int
  BY SumType
<1>4. \A i \in Int : i = i + i => i = 0
  OBVIOUS
<1> QED
  BY <1>2, <1>3, <1>4

\* Changing one value changes the sum by as much.
LEMMA SumChange ==
    ASSUME NEW D, IsFiniteSet(D), NEW f \in [D -> Int], NEW g \in [D -> Int],
           NEW x \in D, \A y \in D \ {x} : g[y] = f[y]
    PROVE  Sum(g) = Sum(f) + (g[x] - f[x])
<1>1. PICK p : SumsOver(p, f, D) /\ p[D] = Sum(f)
  BY SumParts
<1>2. PICK q : SumsOver(q, g, D) /\ q[D] = Sum(g)
  BY SumParts
<1> DEFINE R == D \ {x}
           G == {T \in SUBSET R : q[T] = p[T]}
<1>3. {} \in G
  BY <1>1, <1>2 DEF SumsOver
<1>4. ASSUME NEW T \in SUBSET R, NEW y \in R \ T, T \in G
      PROVE  T \cup {y} \in G
  <2>1. T \in SUBSET D /\ y \in D \ T /\ g[y] = f[y] /\ q[T] = p[T]
    BY <1>4
  <2>2. q[T \cup {y}] = p[T \cup {y}]
    BY <2>1, <1>1, <1>2 DEF SumsOver
  <2> QED
    BY <2>2
<1>5. IsFiniteSet(R)
  BY FS_Subset
<1>6. R \in G
  <2> HIDE DEF G, R
  <2> QED
    BY <1>3, <1>4, <1>5, SetInduction
<1>7. R \in SUBSET D /\ x \in D \ R /\ R \cup {x} = D /\ q[R] = p[R]
  BY <1>6
<1> HIDE DEF R, G
<1>8. p[D] = p[R] + f[x] /\ q[D] = q[R] + g[x]
  BY <1>1, <1>2, <1>7 DEF SumsOver
<1>9. p[R] \in Int /\ f[x] \in Int /\ g[x] \in Int
  BY <1>1, <1>7 DEF SumsOver
<1> QED
  BY <1>1, <1>2, <1>7, <1>8, <1>9
=============================================================================
