--------------------------- MODULE VehiclesProofs ---------------------------
(***************************************************************************)
(* Proofs about Vehicles: rows stay in their ranges, the queue counters    *)
(* count the cars at the stations, and sales are covered and paid to the   *)
(* owner of the moment.                                                    *)
(*                                                                         *)
(* An update writes its copies at its commit.  The invariant says what the *)
(* copies are worth until then: the rows of cars and queues are nobody     *)
(* else's, and tanks and stations of what it has sold are locked.          *)
(***************************************************************************)
EXTENDS Vehicles, FiniteSetTheorems, TLAPS

\* A budget is overspent by at most the price of half a unit and half a cent.
Solvent(budget) == \E price \in Prices : 2 * PerLiter * budget >= -(price + PerLiter)

\* A car that waits does so at a station.
RowOK(row) ==
    /\ Solvent(row.budget)
    /\ row.status = "REFUELING" => row.station \in Stations

\* The car whose purchase is under way: the counter no longer counts it.
InService(t) ==
    {v \in Cars : t.at = "serve" /\ (t.car = v \/ \E price \in Prices : t.car = <<v, price>>)}

Counted(t, s) == Waiting(t.cars, s) \ InService(t)

\* The copies of update t have the types of the rows, and no car that is new.
CopiesOK(t) ==
    /\ t = [at |-> t.at, todo |-> t.todo, car |-> t.car, cars |-> t.cars,
            queue |-> t.queue, sold |-> t.sold, earned |-> t.earned]
    /\ t.todo \subseteq Cars
    /\ t.cars \in [Cars -> CarRows \cup {None}]
    /\ t.queue \in [Stations -> Nat]
    /\ t.sold \in [Stations -> Nat]
    /\ t.earned \in [Players -> Nat]
    /\ \A v \in Cars : Exists(t.cars, v) => Exists(cars, v) /\ RowOK(t.cars[v])

\* The copies of the cars still to do are as the rows were read.
TodoOK(t) ==
    /\ \A v \in t.todo : Exists(cars, v) /\ t.cars[v] = cars[v]
    /\ t.at = "serve" =>
          /\ \A v \in t.todo : cars[v].status = "REFUELING"
          /\ \A v \in Active : cars[v].status = "DRIVING" => t.cars[v] = cars[v]
    /\ t.at = "drive" => \A v \in t.todo : cars[v].status = "DRIVING"

CountsOK(t) ==
    \A s \in Stations : t.queue[s] = Cardinality(Counted(t, s)) + stranded[s] /\ t.queue[s] <= MaxQueue

\* What is sold is in the tank; h are the rows that the session holds.
SoldOK(t, h) ==
    \A s \in Stations : /\ t.sold[s] <= liters[s]
                        /\ t.sold[s] > 0 => {StationRow(s), FuelRow(s)} \subseteq h

ServiceOK(t, h) ==
    /\ \A v \in InService(t) : v \in t.todo /\ StationRow(cars[v].station) \in h
    /\ \A v \in Cars, price \in Prices :
          t.at = "serve" /\ t.car = <<v, price>> =>
             FuelRow(cars[v].station) \in h /\ Purchasable(t, v, price) > 0

UpdateOK(t, h) == CopiesOK(t) /\ TodoOK(t) /\ CountsOK(t) /\ SoldOK(t, h) /\ ServiceOK(t, h)

\* A spawn leaves the cars within the limit.
SpawnOK(t) ==
    /\ t.count \in Nat
    /\ Cardinality(Active) + t.count <= MaxActive
    /\ t.stations \subseteq Stations

SessionInv ==
    /\ tick # None /\ tick.at \in {"serve", "drive"} => UpdateOK(tick, held[Tick])
    /\ tick # None /\ tick.at = "spawn" => SpawnOK(tick)

RowsTyped ==
    /\ balance \in [Players -> Nat] /\ ledger \in [Players -> Int]
    /\ \A p \in Players : balance[p] = ledger[p]
    /\ owner \in [Stations -> Players \cup {None}]
    /\ liters \in [Stations -> 0 .. Capacity]
    /\ cars \in [Cars -> CarRows \cup {None}]
    /\ queue \in [Stations -> Nat]
    /\ stranded \in [Stations -> Nat]
    /\ turn \in {"spawn", "update"}
    /\ credit \in 0 .. MaxCredit

LocksOK ==
    /\ held = [w \in Sessions |-> held[w]]
    /\ \A a, b \in Sessions : a # b => held[a] \cap held[b] = {}

CarsOK ==
    /\ \A v \in Active : RowOK(cars[v])
    /\ Cardinality(Active) <= MaxActive
    /\ QueueCountsCars

CarInv == RowsTyped /\ LocksOK /\ CarsOK /\ SessionInv

-----------------------------------------------------------------------------
(* Rows, sets of cars and arithmetic. *)

LEMMA FuelRowsDiffer == \A s, x : FuelRow(s) = FuelRow(x) => s = x
BY DEF FuelRow

LEMMA CarSets == \A S \in SUBSET Cars : IsFiniteSet(S) /\ Cardinality(S) \in Nat
BY VehiclesAssumption, FS_Subset, FS_CardinalityType

LEMMA WaitingCars == \A rows, s : Waiting(rows, s) \subseteq Cars
BY DEF Waiting

LEMMA NobodyInService ==
    ASSUME NEW t, t.car = None \/ t.at # "serve"
    PROVE  InService(t) = {}
<1>1. \A v \in Cars, price \in Prices : None # v /\ None # <<v, price>>
  <2>2. None \notin Cars /\ None \notin Cars \X Prices
    BY VehiclesAssumption
  <2>3. ASSUME NEW v \in Cars, NEW price \in Prices
        PROVE  None # v /\ None # <<v, price>>
    <3>1. <<v, price>> \in Cars \X Prices
      OBVIOUS
    <3> DEFINE x == <<v, price>>
    <3> HIDE DEF x
    <3>2. \A y, S : y \in S /\ None \notin S => None # y
      BY Zenon
    <3> QED
      BY <2>2, <3>1, <3>2 DEF x
  <2> QED
    BY <2>3
<1>2. ASSUME NEW v \in Cars, t.at = "serve", t.car = v \/ \E price \in Prices : t.car = <<v, price>>
      PROVE  FALSE
  <2>1. t.car = None
    BY <1>2
  <2>2. t.car # v
    BY <1>1, <2>1, VehiclesAssumption
  <2>3. PICK price \in Prices : t.car = <<v, price>>
    BY <1>2, <2>2
  <2> QED
    BY <1>1, <2>1, <2>3, Zenon
<1> QED
  BY <1>2 DEF InService

LEMMA ServiceOfCar ==
    ASSUME NEW t, NEW v \in Cars, t.at = "serve",
           t.car = v \/ \E price \in Prices : t.car = <<v, price>>
    PROVE  InService(t) = {v}
<1>1. \A w \in Cars, price \in Prices : <<w, price>> \notin Cars
  BY VehiclesAssumption
<1> QED
  BY <1>1 DEF InService

\* A car that is not waiting any more.
LEMMA WaitingWithout ==
    ASSUME NEW rows \in [Cars -> CarRows \cup {None}], NEW v \in Cars, NEW row,
           row = None \/ row.status # "REFUELING", NEW s
    PROVE  Waiting([rows EXCEPT ![v] = row], s) = Waiting(rows, s) \ {v}
BY DEF Waiting, Exists

\* How far a purchase may overspend: the affordable amount is rounded half up.
LEMMA ProductOrder == ASSUME NEW x \in Nat, NEW a \in Int, NEW d \in Int, a <= d
                      PROVE  x * a <= x * d
<1>1. d - a \in Nat
  OBVIOUS
<1>2. \A u, w \in Nat : u * w \in Nat
  OBVIOUS
<1>3. x * (d - a) \in Nat
  BY <1>1, <1>2
<1>4. x * (d - a) = x * d - x * a
  OBVIOUS
<1> QED
  BY <1>3, <1>4

LEMMA QuotientBelow == ASSUME NEW y \in Int, NEW x \in Nat, x > 0
                       PROVE  (y \div x) \in Int /\ x * (y \div x) <= y
OBVIOUS

\* Twice the rounded quotient, and its divisor: no more than half a unit too much.
LEMMA RoundedBelow ==
    ASSUME NEW x \in Int, NEW y \in Nat, y > 0
    PROVE  Rounded(x, y) \in Int /\ 2 * (y * Rounded(x, y)) <= 2 * x + y
<1> DEFINE z == 2 * y
           w == 2 * x + y
           d == w \div z
<1>1. z \in Nat /\ z > 0 /\ w \in Int
  OBVIOUS
<1>2. Rounded(x, y) = d
  BY DEF Rounded
<1> HIDE DEF z, w
<1>3. d \in Int /\ z * d <= w
  BY <1>1, QuotientBelow
<1> HIDE DEF d
<1>4. z * d = 2 * (y * d) /\ y * d \in Int
  BY <1>3 DEF z
<1> QED
  BY <1>2, <1>3, <1>4 DEF w

LEMMA RoundedAbove ==
    ASSUME NEW x \in Nat, NEW y \in Nat, y > 0
    PROVE  Rounded(x, y) \in Nat
<1> DEFINE z == 2 * y
           w == 2 * x + y
<1>1. z \in Nat /\ z > 0 /\ w \in Nat
  OBVIOUS
<1> HIDE DEF z, w
<1>2. w \div z \in Nat
  BY <1>1
<1> QED
  BY <1>2 DEF Rounded, w, z

LEMMA Overspent ==
    ASSUME NEW b \in Int, NEW p \in Nat, p > 0, NEW a \in Nat, a <= Affordable(b, p)
    PROVE  2 * PerLiter * (b - Total(a, p)) >= -(p + PerLiter)
<1> DEFINE L == PerLiter
           m == b * L
           r == Rounded(m, p)
           n == a * p
           t == Rounded(n, L)
<1>1. L \in Nat /\ L > 0 /\ m \in Int /\ n \in Int
  BY VehiclesAssumption
<1>2. Affordable(b, p) = r /\ Total(a, p) = t
  BY DEF Affordable, Total
<1>3. r \in Int /\ 2 * (p * r) <= 2 * m + p
  BY <1>1, RoundedBelow
<1>4. t \in Int /\ 2 * (L * t) <= 2 * n + L
  BY <1>1, RoundedBelow
<1>5. p * a <= p * r
  BY <1>2, <1>3, ProductOrder
<1>6. n = p * a
  OBVIOUS
<1> HIDE DEF n, r, t
<1>7. p * r \in Int /\ L * t \in Int
  BY <1>1, <1>3, <1>4
<1>8. 2 * (L * t) <= 2 * m + p + L
  BY <1>1, <1>3, <1>4, <1>5, <1>6, <1>7
<1>9. 2 * L * (b - t) = 2 * m - 2 * (L * t)
  BY <1>1, <1>4
<1> QED
  BY <1>1, <1>2, <1>7, <1>8, <1>9

-----------------------------------------------------------------------------
(* What a step must show. *)

\* The scheduler takes a row that nobody else holds.
LEMMA TickTakes ==
    ASSUME LocksOK, NEW row, Lock(row)
    PROVE  /\ LocksOK'
           /\ held'[Tick] = held[Tick] \cup {row}
<1>1. /\ \A w \in Sessions \ {Tick} : row \notin held[w]
      /\ held' = [held EXCEPT ![Tick] = held[Tick] \cup {row}]
      /\ Tick \in Sessions
  BY DEF Lock, Free, Take, Sessions
<1>2. /\ held'[Tick] = held[Tick] \cup {row}
      /\ \A w \in Sessions \ {Tick} : held'[w] = held[w]
      /\ held' = [w \in Sessions |-> held'[w]]
  BY <1>1 DEF LocksOK
<1> QED
  BY <1>1, <1>2 DEF LocksOK

\* A step of the update that writes nothing to the rows of cars.
LEMMA UpdateFollows ==
    ASSUME CarInv, NEW u, tick' = u, u.at \in {"serve", "drive"},
           UNCHANGED <<liters, cars, queue, stranded>>,
           RowsTyped', LocksOK', UpdateOK(u, held'[Tick])
    PROVE  CarInv'
<1>1. CarsOK'
  BY DEF CarInv, CarsOK, Active, QueueCountsCars
<1>2. UpdateOK(tick, held[Tick])'
  BY DEF UpdateOK, CopiesOK, TodoOK, CountsOK, SoldOK, ServiceOK, Active, Purchasable, Stock
<1>3. SessionInv'
  BY <1>2 DEF SessionInv
<1> QED
  BY <1>1, <1>3 DEF CarInv

LEMMA UpdateStep ==
    ASSUME CarInv, NEW u, tick' = u, u.at \in {"serve", "drive"},
           UNCHANGED <<balance, ledger, owner, liters, cars, queue, stranded, turn, credit>>,
           LocksOK', UpdateOK(u, held'[Tick])
    PROVE  CarInv'
<1>1. RowsTyped'
  BY DEF CarInv, RowsTyped
<1> QED
  BY <1>1, UpdateFollows

\* A step of somebody else: what the scheduler's session has locked stays.
LEMMA OthersStep ==
    ASSUME CarInv, UNCHANGED <<cars, queue, stranded, tick>>, held'[Tick] = held[Tick],
           RowsTyped', LocksOK',
           \A s \in Stations : FuelRow(s) \in held[Tick] => liters'[s] = liters[s]
    PROVE  CarInv'
<1>1. CarsOK'
  BY DEF CarInv, CarsOK, Active, QueueCountsCars
<1>2. tick # None /\ tick.at = "spawn" => SpawnOK(tick)'
  BY DEF CarInv, SessionInv, SpawnOK, Active
<1>3. ASSUME tick # None, tick.at \in {"serve", "drive"}
      PROVE  UpdateOK(tick, held[Tick])'
  <2>1. UpdateOK(tick, held[Tick])
    BY <1>3 DEF CarInv, SessionInv
  <2>2. CopiesOK(tick)' /\ TodoOK(tick)' /\ CountsOK(tick)'
    BY <2>1 DEF UpdateOK, CopiesOK, TodoOK, CountsOK, Active
  <2>3. SoldOK(tick, held[Tick])'
    <3> SUFFICES ASSUME NEW s \in Stations
                 PROVE  /\ tick.sold[s] <= liters'[s]
                        /\ tick.sold[s] > 0 => {StationRow(s), FuelRow(s)} \subseteq held[Tick]
      BY DEF SoldOK
    <3>1. /\ tick.sold[s] <= liters[s] /\ tick.sold[s] \in Nat
          /\ tick.sold[s] > 0 => {StationRow(s), FuelRow(s)} \subseteq held[Tick]
      BY <2>1 DEF UpdateOK, CopiesOK, SoldOK
    <3>2. liters'[s] >= 0
      BY DEF RowsTyped
    <3> QED
      BY <3>1, <3>2
  <2>4. ServiceOK(tick, held[Tick])'
    <3>1. \A v \in InService(tick) : v \in tick.todo /\ StationRow(cars[v].station) \in held[Tick]
      BY <2>1 DEF UpdateOK, ServiceOK
    <3>2. ASSUME NEW v \in Cars, NEW price \in Prices,
                 tick.at = "serve", tick.car = <<v, price>>
          PROVE  FuelRow(cars[v].station) \in held[Tick] /\ Purchasable(tick, v, price)' > 0
      <4>1. FuelRow(cars[v].station) \in held[Tick] /\ Purchasable(tick, v, price) > 0
        BY <2>1, <3>2 DEF UpdateOK, ServiceOK
      <4>2. v \in InService(tick)
        BY <3>2 DEF InService
      <4>3. v \in tick.todo
        BY <3>1, <4>2
      <4>4. Exists(cars, v) /\ cars[v].status = "REFUELING"
        BY <2>1, <3>2, <4>3 DEF UpdateOK, TodoOK
      <4>5. cars[v].station \in Stations
        BY <4>4 DEF CarInv, CarsOK, RowOK, Active
      <4>6. liters'[cars[v].station] = liters[cars[v].station]
        BY <4>1, <4>5
      <4> QED
        BY <4>1, <4>6 DEF Purchasable, Stock
    <3> QED
      BY <3>1, <3>2 DEF ServiceOK, InService
  <2> QED
    BY <2>2, <2>3, <2>4 DEF UpdateOK
<1> QED
  BY <1>1, <1>2, <1>3 DEF CarInv, SessionInv

\* The scheduler's session ends.
LEMMA SessionEnds ==
    ASSUME CarInv, tick' = None, RowsTyped', LocksOK', CarsOK'
    PROVE  CarInv'
BY DEF CarInv, SessionInv

-----------------------------------------------------------------------------
(* The update serves cars. *)

\* What a handler of the update finds.
LEMMA ServingFacts ==
    ASSUME CarInv, tick # None, tick.at \in {"serve", "drive"}
    PROVE  /\ UpdateOK(tick, held[Tick])
           /\ \A v \in tick.todo : /\ v \in Cars /\ Exists(cars, v) /\ cars[v] \in CarRows
                                   /\ tick.cars[v] = cars[v] /\ RowOK(cars[v])
                                   /\ tick.at = "serve" => cars[v].status = "REFUELING"
                                   /\ tick.at = "drive" => cars[v].status = "DRIVING"
<1>1. UpdateOK(tick, held[Tick])
  BY DEF CarInv, SessionInv
<1> QED
  BY <1>1 DEF UpdateOK, CopiesOK, TodoOK, CarInv, CarsOK, RowsTyped, Active, Exists

LEMMA ResumedRow ==
    ASSUME NEW row \in CarRows
    PROVE  LET r == [row EXCEPT !.status = "DRIVING", !.station = None] IN
           /\ r \in CarRows /\ r.status = "DRIVING"
           /\ RowOK(row) => RowOK(r)
<1> DEFINE r == [status |-> "DRIVING", station |-> None, need |-> row.need, budget |-> row.budget]
<1>1. row = [status |-> row.status, station |-> row.station, need |-> row.need, budget |-> row.budget]
  BY DEF CarRows
<1>2. [row EXCEPT !.status = "DRIVING", !.station = None] = r
  <2> DEFINE f == [status |-> row.status, station |-> row.station, need |-> row.need,
                   budget |-> row.budget]
             g == [status |-> "DRIVING", station |-> row.station, need |-> row.need,
                   budget |-> row.budget]
  <2>1. [f EXCEPT !.status = "DRIVING"] = g
    OBVIOUS
  <2>2. [g EXCEPT !.station = None] = r
    OBVIOUS
  <2>3. row = f
    BY <1>1
  <2> HIDE DEF f, g, r
  <2>4. [row EXCEPT !.status = "DRIVING"] = g
    BY <2>1, <2>3, Zenon
  <2>5. [[row EXCEPT !.status = "DRIVING"] EXCEPT !.station = None] = r
    BY <2>2, <2>4, Zenon
  <2> QED
    BY <2>5
<1>3. r \in CarRows
  BY DEF CarRows
<1>4. RowOK(row) => RowOK(r)
  BY DEF RowOK
<1> QED
  BY <1>2, <1>3, <1>4

\* Writing one field of an update.
Update(at, todo, car, rows, counters, sold, earned) ==
    [at |-> at, todo |-> todo, car |-> car, cars |-> rows,
     queue |-> counters, sold |-> sold, earned |-> earned]

LEMMA WriteAt ==
    ASSUME NEW at, NEW todo, NEW car, NEW rows, NEW counters, NEW sold, NEW earned, NEW x
    PROVE  [Update(at, todo, car, rows, counters, sold, earned) EXCEPT !.at = x]
             = Update(x, todo, car, rows, counters, sold, earned)
BY DEF Update

LEMMA WriteTodo ==
    ASSUME NEW at, NEW todo, NEW car, NEW rows, NEW counters, NEW sold, NEW earned, NEW x
    PROVE  [Update(at, todo, car, rows, counters, sold, earned) EXCEPT !.todo = x]
             = Update(at, x, car, rows, counters, sold, earned)
BY DEF Update

LEMMA WriteCar ==
    ASSUME NEW at, NEW todo, NEW car, NEW rows, NEW counters, NEW sold, NEW earned, NEW x
    PROVE  [Update(at, todo, car, rows, counters, sold, earned) EXCEPT !.car = x]
             = Update(at, todo, x, rows, counters, sold, earned)
BY DEF Update

LEMMA WriteCars ==
    ASSUME NEW at, NEW todo, NEW car, NEW rows, NEW counters, NEW sold, NEW earned, NEW x
    PROVE  [Update(at, todo, car, rows, counters, sold, earned) EXCEPT !.cars = x]
             = Update(at, todo, car, x, counters, sold, earned)
BY DEF Update

LEMMA WriteQueue ==
    ASSUME NEW at, NEW todo, NEW car, NEW rows, NEW counters, NEW sold, NEW earned, NEW x
    PROVE  [Update(at, todo, car, rows, counters, sold, earned) EXCEPT !.queue = x]
             = Update(at, todo, car, rows, x, sold, earned)
BY DEF Update

LEMMA WriteSold ==
    ASSUME NEW at, NEW todo, NEW car, NEW rows, NEW counters, NEW sold, NEW earned, NEW x
    PROVE  [Update(at, todo, car, rows, counters, sold, earned) EXCEPT !.sold = x]
             = Update(at, todo, car, rows, counters, x, earned)
BY DEF Update

LEMMA WriteEarned ==
    ASSUME NEW at, NEW todo, NEW car, NEW rows, NEW counters, NEW sold, NEW earned, NEW x
    PROVE  [Update(at, todo, car, rows, counters, sold, earned) EXCEPT !.earned = x]
             = Update(at, todo, car, rows, counters, sold, x)
BY DEF Update

\* The rows when car v drives on.
Left(rows, v) ==
    [rows EXCEPT ![v] = [rows[v] EXCEPT !.status = "DRIVING", !.station = None]]

LEMMA ResumeIs ==
    ASSUME NEW at, NEW todo, NEW car, NEW rows, NEW counters, NEW sold, NEW earned, NEW v
    PROVE  Resume(Update(at, todo, car, rows, counters, sold, earned), v) =
             Update(at, todo \ {v}, None,
                    Left(rows, v), counters, sold, earned)
<1> DEFINE t == Update(at, todo, car, rows, counters, sold, earned)
           b == Update(at, todo, None, rows, counters, sold, earned)
           c == Update(at, todo \ {v}, None, rows, counters, sold, earned)
           left == Left(rows, v)
           d == Update(at, todo \ {v}, None, left, counters, sold, earned)
<1>1. [t EXCEPT !.car = None] = b
  BY WriteCar
<1>2. [b EXCEPT !.todo = todo \ {v}] = c /\ b.todo = todo
  BY WriteTodo DEF Update
<1>3. [c EXCEPT !.cars = left] = d /\ c.cars = rows
  <2> HIDE DEF left
  <2> QED
    BY WriteCars DEF Update
<1>4. t.todo = todo /\ t.cars = rows
  BY DEF Update
<1> HIDE DEF t
<1>5. Resume(t, v) = [[[t EXCEPT !.car = None] EXCEPT !.todo = todo \ {v}] EXCEPT !.cars = left]
  BY <1>4 DEF Resume, Left
<1> HIDE DEF b, c, d, left
<1>6. [[t EXCEPT !.car = None] EXCEPT !.todo = todo \ {v}] = c
  BY <1>1, <1>2, Zenon
<1>7. Resume(t, v) = d
  BY <1>3, <1>5, <1>6, Zenon
<1> QED
  BY <1>7 DEF t, d, left

LEMMA ResumeServes ==
    ASSUME NEW t, NEW v, t.at = "serve", CopiesOK(t)
    PROVE  Resume(t, v) =
             Update("serve", t.todo \ {v}, None,
                    Left(t.cars, v), t.queue, t.sold, t.earned)
<1>1. t = Update("serve", t.todo, t.car, t.cars, t.queue, t.sold, t.earned)
  BY DEF CopiesOK, Update
<1>2. Resume(Update("serve", t.todo, t.car, t.cars, t.queue, t.sold, t.earned), v) =
        Update("serve", t.todo \ {v}, None, Left(t.cars, v), t.queue, t.sold, t.earned)
  BY ResumeIs
<1> QED
  BY <1>1, <1>2, Zenon

\* The car leaves the pump: it is neither waiting nor in service any more.
LEMMA Resumes ==
    ASSUME CarInv, NEW t, NEW h, NEW v \in Cars, t.at = "serve", CopiesOK(t), Exists(t.cars, v),
           cars[v].status = "REFUELING",
           \A w \in t.todo \ {v} : /\ Exists(cars, w) /\ t.cars[w] = cars[w]
                                   /\ cars[w].status = "REFUELING",
           \A w \in Active : cars[w].status = "DRIVING" => t.cars[w] = cars[w],
           \A s \in Stations : /\ t.queue[s] = Cardinality(Waiting(t.cars, s) \ {v}) + stranded[s]
                               /\ t.queue[s] <= MaxQueue,
           SoldOK(t, h)
    PROVE  Resume(t, v).at = "serve" /\ UpdateOK(Resume(t, v), h)
<1> DEFINE row == [t.cars[v] EXCEPT !.status = "DRIVING", !.station = None]
           rows == [t.cars EXCEPT ![v] = row]
           u == [at |-> "serve", todo |-> t.todo \ {v}, car |-> None, cars |-> rows,
                 queue |-> t.queue, sold |-> t.sold, earned |-> t.earned]
<1>1. t.cars[v] \in CarRows /\ RowOK(t.cars[v])
  BY DEF CopiesOK, Exists
<1>2. row \in CarRows /\ row.status = "DRIVING" /\ RowOK(row)
  BY <1>1, ResumedRow
<1> HIDE DEF row
<1>3. /\ rows \in [Cars -> CarRows \cup {None}] /\ rows[v] = row
      /\ \A w \in Cars \ {v} : rows[w] = t.cars[w]
  BY <1>2 DEF CopiesOK
<1>4. Resume(t, v) = u
  <2>1. Resume(t, v)
          = Update("serve", t.todo \ {v}, None, Left(t.cars, v), t.queue, t.sold, t.earned)
    BY ResumeServes
  <2> HIDE DEF rows
  <2>2. Update("serve", t.todo \ {v}, None, rows, t.queue, t.sold, t.earned) = u
    BY DEF Update
  <2> HIDE DEF u
  <2> QED
    BY <2>1, <2>2, Zenon DEF rows, row, Left
<1> HIDE DEF rows
<1>5. CopiesOK(u)
  <2>1. \A w \in Cars : Exists(rows, w) => Exists(cars, w) /\ RowOK(rows[w])
    <3> SUFFICES ASSUME NEW w \in Cars, Exists(rows, w)
                 PROVE  Exists(cars, w) /\ RowOK(rows[w])
      OBVIOUS
    <3>1. CASE w = v
      BY <1>2, <1>3, <3>1 DEF CopiesOK, Exists
    <3>2. CASE w # v
      BY <1>3, <3>2 DEF CopiesOK, Exists
    <3> QED
      BY <3>1, <3>2
  <2> QED
    BY <1>3, <2>1 DEF CopiesOK
<1>6. TodoOK(u)
  <2>1. t.todo \subseteq Cars
    BY DEF CopiesOK
  <2>2. \A w \in t.todo \ {v} : rows[w] = cars[w] /\ cars[w].status = "REFUELING" /\ Exists(cars, w)
    BY <1>3, <2>1
  <2>3. \A w \in Active : cars[w].status = "DRIVING" => rows[w] = cars[w]
    BY <1>3 DEF Active
  <2> QED
    BY <2>2, <2>3 DEF TodoOK
<1>7. InService(u) = {}
  BY NobodyInService
<1>8. CountsOK(u)
  <2>1. \A s \in Stations : Waiting(rows, s) = Waiting(t.cars, s) \ {v}
    BY <1>2, WaitingWithout DEF rows, CopiesOK
  <2>2. \A s \in Stations : Counted(u, s) = Waiting(t.cars, s) \ {v}
    BY <1>7, <2>1 DEF Counted
  <2> QED
    BY <2>2 DEF CountsOK
<1>9. SoldOK(u, h)
  BY DEF SoldOK
<1>10. ServiceOK(u, h)
  <2>1. \A w \in Cars, price \in Prices : u.car # <<w, price>>
    BY <1>7 DEF InService
  <2> QED
    BY <1>7, <2>1 DEF ServiceOK
<1> HIDE DEF u
<1>11. UpdateOK(u, h)
  BY <1>5, <1>6, <1>8, <1>9, <1>10 DEF UpdateOK
<1>12. u.at = "serve"
  BY DEF u
<1> QED
  BY <1>4, <1>11, <1>12

LEMMA ServeStationStep ==
    ASSUME CarInv, NEW v \in Cars, ServeStation(v)
    PROVE  CarInv'
<1>1. PICK t : t = tick
  OBVIOUS
<1>2. PICK s : s = cars[v].station
  OBVIOUS
<1>3. t # None /\ t.at = "serve" /\ t.car = None /\ v \in t.todo
  BY <1>1 DEF ServeStation, Serving
<1>4. /\ UpdateOK(t, held[Tick]) /\ cars[v] \in CarRows /\ t.cars[v] = cars[v]
      /\ cars[v].status = "REFUELING" /\ RowOK(cars[v]) /\ Exists(cars, v)
  BY <1>1, <1>3, ServingFacts
<1>5. s \in Stations
  BY <1>2, <1>4 DEF RowOK
<1>6. Lock(StationRow(s))
  BY <1>2 DEF ServeStation
<1>7. LocksOK' /\ held'[Tick] = held[Tick] \cup {StationRow(s)}
  BY <1>6, TickTakes DEF CarInv
<1> DEFINE W == Waiting(t.cars, s)
           q == t.queue[s]
           queues == [t.queue EXCEPT ![s] = q - 1]
           left == [at |-> "serve", todo |-> t.todo, car |-> None, cars |-> t.cars,
                    queue |-> queues, sold |-> t.sold, earned |-> t.earned]
           h == held'[Tick]
<1>8. /\ t = [at |-> "serve", todo |-> t.todo, car |-> None, cars |-> t.cars,
              queue |-> t.queue, sold |-> t.sold, earned |-> t.earned]
      /\ t.todo \subseteq Cars
      /\ t.cars \in [Cars -> CarRows \cup {None}]
      /\ t.queue \in [Stations -> Nat]
      /\ t.sold \in [Stations -> Nat]
      /\ t.earned \in [Players -> Nat]
      /\ \A w \in Cars : Exists(t.cars, w) => Exists(cars, w) /\ RowOK(t.cars[w])
  BY <1>3, <1>4 DEF UpdateOK, CopiesOK
<1>9. \A x \in Stations : t.queue[x] = Cardinality(Waiting(t.cars, x)) + stranded[x] /\ t.queue[x] <= MaxQueue
  <2>1. InService(t) = {}
    BY <1>3, NobodyInService
  <2> QED
    BY <1>4, <2>1 DEF UpdateOK, CountsOK, Counted
<1>10. v \in W /\ q = Cardinality(W) + stranded[s] /\ IsFiniteSet(W) /\ q \in Nat
  BY <1>2, <1>4, <1>5, <1>8, <1>9, WaitingCars, CarSets DEF Waiting, Exists
<1>11. Cardinality(W \ {v}) + stranded[s] = q - 1 /\ q > 0 /\ q - 1 \in Nat
  <2>1. stranded[s] \in Nat
    BY <1>5 DEF CarInv, RowsTyped
  <2>2. Cardinality(W) \in Nat
    BY WaitingCars, CarSets
  <2> HIDE DEF W, q
  <2>3. Cardinality(W \ {v}) = Cardinality(W) - 1
    BY <1>10, FS_RemoveElement
  <2>4. IsFiniteSet(W \ {v})
    BY <1>10, FS_RemoveElement
  <2>5. Cardinality(W \ {v}) \in Nat
    BY <2>4, FS_CardinalityType
  <2> QED
    BY <1>10, <2>1, <2>2, <2>3, <2>5
<1>12. /\ queues \in [Stations -> Nat]
       /\ \A x \in Stations : /\ queues[x] = Cardinality(Waiting(t.cars, x) \ {v}) + stranded[x]
                              /\ queues[x] <= MaxQueue
  <2>1. queues[s] = q - 1 /\ queues \in [Stations -> Nat]
    BY <1>5, <1>8, <1>11
  <2>2. q - 1 <= MaxQueue
    <3>1. q <= MaxQueue /\ q \in Nat /\ MaxQueue \in Nat
      BY <1>5, <1>9, <1>10, VehiclesAssumption
    <3> HIDE DEF q
    <3> QED
      BY <3>1
  <2>3. ASSUME NEW x \in Stations, x # s
        PROVE  queues[x] = Cardinality(Waiting(t.cars, x) \ {v}) + stranded[x] /\ queues[x] <= MaxQueue
    <3>1. queues[x] = t.queue[x]
      BY <1>8, <2>3
    <3>2. Waiting(t.cars, x) \ {v} = Waiting(t.cars, x)
      BY <1>2, <1>4, <2>3 DEF Waiting
    <3> QED
      BY <1>9, <3>1, <3>2
  <2>4. queues[s] = Cardinality(Waiting(t.cars, s) \ {v}) + stranded[s]
    BY <1>11, <2>1
  <2> HIDE DEF queues, q
  <2> QED
    BY <2>1, <2>2, <2>3, <2>4
<1>13. tick' = IF owner[s] = None THEN Resume(left, v) ELSE [left EXCEPT !.car = v]
  <2>1. LeaveQueue(q) = q - 1
    BY <1>10, <1>11 DEF LeaveQueue
  <2>2. [t EXCEPT !.queue = [t.queue EXCEPT ![s] = LeaveQueue(q)]] = left
    <3> HIDE DEF queues
    <3>1. [t EXCEPT !.queue = queues] = left
      BY <1>8
    <3> QED
      BY <2>1, <3>1 DEF queues
  <2>3. [t EXCEPT !.queue[s] = LeaveQueue(@)] = left
    BY <2>2
  <2> HIDE DEF left
  <2> QED
    BY <1>1, <1>2, <2>3 DEF ServeStation
<1> HIDE DEF queues, W, q
<1>14. /\ \A w \in t.todo : /\ Exists(cars, w) /\ t.cars[w] = cars[w]
                            /\ cars[w].status = "REFUELING"
       /\ \A w \in Active : cars[w].status = "DRIVING" => t.cars[w] = cars[w]
  BY <1>3, <1>4 DEF UpdateOK, TodoOK
<1>15. SoldOK(left, h)
  BY <1>4, <1>7 DEF UpdateOK, SoldOK
<1>16. CopiesOK(left)
  BY <1>8, <1>12 DEF CopiesOK
<1>17. UNCHANGED <<balance, ledger, owner, liters, cars, queue, stranded, turn, credit>>
  BY DEF ServeStation
<1>18. CASE owner[s] = None
  <2>1. Resume(left, v).at = "serve" /\ UpdateOK(Resume(left, v), h)
    <3>1. /\ left.at = "serve" /\ Exists(left.cars, v) /\ cars[v].status = "REFUELING"
          /\ \A w \in left.todo \ {v} : /\ Exists(cars, w) /\ left.cars[w] = cars[w]
                                        /\ cars[w].status = "REFUELING"
          /\ \A w \in Active : cars[w].status = "DRIVING" => left.cars[w] = cars[w]
          /\ \A x \in Stations : /\ left.queue[x] = Cardinality(Waiting(left.cars, x) \ {v}) + stranded[x]
                                 /\ left.queue[x] <= MaxQueue
      BY <1>4, <1>12, <1>14 DEF Exists
    <3> HIDE DEF left, h
    <3> QED
      BY <1>15, <1>16, <3>1, Resumes
  <2> QED
    BY <1>7, <1>13, <1>17, <1>18, <2>1, UpdateStep
<1>19. CASE owner[s] # None
  <2> DEFINE u == [at |-> "serve", todo |-> t.todo, car |-> v, cars |-> t.cars,
                   queue |-> queues, sold |-> t.sold, earned |-> t.earned]
  <2>1. tick' = u
    BY <1>13, <1>19
  <2>2. InService(u) = {v}
    BY ServiceOfCar
  <2>3. CopiesOK(u)
    BY <1>8, <1>12 DEF CopiesOK
  <2>4. TodoOK(u)
    BY <1>14 DEF TodoOK
  <2>5. CountsOK(u)
    BY <1>12, <2>2 DEF CountsOK, Counted
  <2>6. SoldOK(u, h)
    BY <1>15 DEF SoldOK
  <2>7. ServiceOK(u, h)
    <3>1. \A w \in Cars, price \in Prices : u.car # <<w, price>>
      <4>1. \A w \in Cars, price \in Prices : <<w, price>> \notin Cars
        BY VehiclesAssumption
      <4> QED
        BY <4>1
    <3> QED
      BY <1>2, <1>3, <1>7, <2>2, <3>1 DEF ServiceOK
  <2>8. u.at = "serve"
    OBVIOUS
  <2> HIDE DEF u
  <2>9. UpdateOK(u, h)
    BY <2>3, <2>4, <2>5, <2>6, <2>7 DEF UpdateOK
  <2> QED
    BY <1>7, <1>17, <2>1, <2>8, <2>9, UpdateStep
<1> QED
  BY <1>18, <1>19

\* What can be bought: no more than the need, the stock and the budget allow.
LEMMA PurchaseBounds ==
    ASSUME CarInv, NEW t, CopiesOK(t), NEW v \in Cars, Exists(t.cars, v),
           cars[v].station \in Stations, NEW price \in Prices
    PROVE  LET amount == Purchasable(t, v, price) IN
           /\ amount \in Int
           /\ amount <= t.cars[v].need
           /\ amount <= liters[cars[v].station] - t.sold[cars[v].station]
           /\ amount <= Affordable(t.cars[v].budget, price)
<1> DEFINE n == t.cars[v].need
           s == cars[v].station
           l == liters[s] - t.sold[s]
           f == Affordable(t.cars[v].budget, price)
<1>1. n \in Int /\ t.cars[v].budget \in Int
  BY DEF CopiesOK, Exists, CarRows
<1>2. l \in Int
  <2>1. liters[s] \in Nat /\ t.sold[s] \in Nat
    BY StoreAssumption DEF CopiesOK, CarInv, RowsTyped
  <2> QED
    BY <2>1
<1>3. f \in Int
  <2>1. price \in Nat
    BY VehiclesAssumption
  <2>2. CASE price = 0
    BY <2>2 DEF Affordable
  <2>3. CASE price # 0
    <3> DEFINE m == t.cars[v].budget * PerLiter
    <3>1. m \in Int
      BY <1>1, VehiclesAssumption
    <3>2. Affordable(t.cars[v].budget, price) = Rounded(m, price)
      BY <2>3 DEF Affordable
    <3> HIDE DEF m
    <3> QED
      BY <2>1, <2>3, <3>1, <3>2, RoundedBelow
  <2> QED
    BY <2>2, <2>3
<1>4. Purchasable(t, v, price) = Least(n, Least(l, f))
  BY DEF Purchasable, Stock
<1> HIDE DEF n, l, f
<1>5. LET amount == Least(n, Least(l, f)) IN
      amount \in Int /\ amount <= n /\ amount <= l /\ amount <= f
  BY <1>1, <1>2, <1>3 DEF Least
<1> QED
  BY <1>4, <1>5 DEF n, l, f

\* What the handlers of the car in service find.
LEMMA InServiceFacts ==
    ASSUME CarInv, NEW v \in Cars, NEW price \in Prices, tick # None, tick.at = "serve",
           tick.car = v \/ tick.car = <<v, price>>
    PROVE  /\ UpdateOK(tick, held[Tick])
           /\ InService(tick) = {v}
           /\ v \in tick.todo
           /\ Exists(tick.cars, v) /\ cars[v].status = "REFUELING"
           /\ cars[v].station \in Stations
           /\ StationRow(cars[v].station) \in held[Tick]
           /\ \A w \in tick.todo : /\ Exists(cars, w) /\ tick.cars[w] = cars[w]
                                   /\ cars[w].status = "REFUELING"
           /\ \A w \in Active : cars[w].status = "DRIVING" => tick.cars[w] = cars[w]
           /\ \A s \in Stations : /\ tick.queue[s] = Cardinality(Waiting(tick.cars, s) \ {v}) + stranded[s]
                                  /\ tick.queue[s] <= MaxQueue
<1>1. UpdateOK(tick, held[Tick]) /\ InService(tick) = {v}
  BY ServingFacts, ServiceOfCar
<1>2. v \in tick.todo /\ StationRow(cars[v].station) \in held[Tick]
  BY <1>1 DEF UpdateOK, ServiceOK
<1>3. \A w \in tick.todo : /\ Exists(cars, w) /\ tick.cars[w] = cars[w]
                           /\ cars[w].status = "REFUELING" /\ RowOK(cars[w])
  BY ServingFacts
<1>4. cars[v].station \in Stations /\ Exists(tick.cars, v)
  BY <1>2, <1>3 DEF RowOK, Exists
<1>5. /\ \A w \in Active : cars[w].status = "DRIVING" => tick.cars[w] = cars[w]
      /\ \A s \in Stations : /\ tick.queue[s] = Cardinality(Waiting(tick.cars, s) \ {v}) + stranded[s]
                             /\ tick.queue[s] <= MaxQueue
  BY <1>1 DEF UpdateOK, TodoOK, CountsOK, Counted
<1> QED
  BY <1>1, <1>2, <1>3, <1>4, <1>5

LEMMA ServeTankStep ==
    ASSUME CarInv, NEW v \in Cars, ServeTank(v)
    PROVE  CarInv'
<1>1. PICK t : t = tick
  OBVIOUS
<1>2. PICK s : s = cars[v].station
  OBVIOUS
<1>3. PICK price \in Prices :
        tick' = IF Stock(t, s) <= 0 \/ Purchasable(t, v, price) <= 0
                THEN Resume(t, v) ELSE [t EXCEPT !.car = <<v, price>>]
  BY <1>1, <1>2 DEF ServeTank
<1>4. tick # None /\ t.at = "serve" /\ t.car = v
  BY <1>1 DEF ServeTank, Serving
<1>5. /\ UpdateOK(t, held[Tick]) /\ InService(t) = {v} /\ v \in t.todo
      /\ Exists(t.cars, v) /\ cars[v].status = "REFUELING"
      /\ s \in Stations /\ StationRow(s) \in held[Tick]
      /\ \A w \in t.todo : /\ Exists(cars, w) /\ t.cars[w] = cars[w]
                           /\ cars[w].status = "REFUELING"
      /\ \A w \in Active : cars[w].status = "DRIVING" => t.cars[w] = cars[w]
      /\ \A x \in Stations : /\ t.queue[x] = Cardinality(Waiting(t.cars, x) \ {v}) + stranded[x]
                             /\ t.queue[x] <= MaxQueue
  BY <1>1, <1>2, <1>4, InServiceFacts
<1>6. Lock(FuelRow(s))
  BY <1>2 DEF ServeTank
<1>7. LocksOK' /\ held'[Tick] = held[Tick] \cup {FuelRow(s)}
  BY <1>6, TickTakes DEF CarInv
<1>8. PICK h : h = held'[Tick]
  OBVIOUS
<1>9. SoldOK(t, h) /\ CopiesOK(t)
  BY <1>5, <1>7, <1>8 DEF UpdateOK, SoldOK
<1>10. UNCHANGED <<balance, ledger, owner, liters, cars, queue, stranded, turn, credit>>
  BY DEF ServeTank
<1>11. CASE Stock(t, s) <= 0 \/ Purchasable(t, v, price) <= 0
  <2>1. tick' = Resume(t, v)
    BY <1>3, <1>11
  <2>2. Resume(t, v).at = "serve" /\ UpdateOK(Resume(t, v), h)
    BY <1>4, <1>5, <1>9, Resumes
  <2> QED
    BY <1>7, <1>8, <1>10, <2>1, <2>2, UpdateStep
<1>12. CASE ~(Stock(t, s) <= 0 \/ Purchasable(t, v, price) <= 0)
  <2> DEFINE u == [at |-> "serve", todo |-> t.todo, car |-> <<v, price>>, cars |-> t.cars,
                   queue |-> t.queue, sold |-> t.sold, earned |-> t.earned]
  <2>1. tick' = u
    <3>1. t = Update("serve", t.todo, t.car, t.cars, t.queue, t.sold, t.earned)
      BY <1>4, <1>9 DEF CopiesOK, Update
    <3>2. [Update("serve", t.todo, t.car, t.cars, t.queue, t.sold, t.earned)
             EXCEPT !.car = <<v, price>>] = u
      BY WriteCar DEF Update
    <3> HIDE DEF u
    <3>3. [t EXCEPT !.car = <<v, price>>] = u
      BY <3>1, <3>2, Zenon
    <3> QED
      BY <1>3, <1>12, <3>3
  <2>2. InService(u) = {v}
    BY ServiceOfCar
  <2>3. CopiesOK(u)
    BY <1>9 DEF CopiesOK
  <2>4. TodoOK(u)
    BY <1>5 DEF TodoOK
  <2>5. CountsOK(u)
    BY <1>5, <2>2 DEF CountsOK, Counted
  <2>6. SoldOK(u, h)
    BY <1>9 DEF SoldOK
  <2>7. ServiceOK(u, h)
    <3>1. Purchasable(u, v, price) = Purchasable(t, v, price)
      BY DEF Purchasable, Stock
    <3>2. Purchasable(t, v, price) > 0
      BY <1>2, <1>5, <1>9, <1>12, PurchaseBounds
    <3>3. ASSUME NEW w \in Cars, NEW other \in Prices, u.car = <<w, other>>
          PROVE  FuelRow(cars[w].station) \in h /\ Purchasable(u, w, other) > 0
      <4>1. w = v /\ other = price
        BY <3>3
      <4> HIDE DEF u
      <4> QED
        BY <1>2, <1>7, <1>8, <3>1, <3>2, <4>1
    <3> HIDE DEF u
    <3>4. \A w \in InService(u) : w = v
      BY <2>2
    <3>5. u.todo = t.todo
      BY DEF u
    <3> QED
      BY <1>2, <1>5, <1>7, <1>8, <3>3, <3>4, <3>5 DEF ServiceOK
  <2>8. u.at = "serve"
    OBVIOUS
  <2> HIDE DEF u
  <2>9. UpdateOK(u, h)
    BY <2>3, <2>4, <2>5, <2>6, <2>7 DEF UpdateOK
  <2> QED
    BY <1>7, <1>8, <1>10, <2>1, <2>8, <2>9, UpdateStep
<1> QED
  BY <1>11, <1>12

\* The rows after car v has bought amount for total.
Sold(rows, v, amount, total) ==
    [[rows EXCEPT ![v].need = rows[v].need - amount]
          EXCEPT ![v].budget = rows[v].budget - total]

\* The update after that purchase at station s, paid to player p.
Sale(t, v, s, p, amount, total, extra) ==
    [t EXCEPT !.sold[s] = @ + amount,
              !.earned[p] = @ + total + extra,
              !.cars[v].need = @ - amount,
              !.cars[v].budget = @ - total]

Sales(sold, s, amount) == [sold EXCEPT ![s] = sold[s] + amount]

Paid(earned, p, total, extra) ==
    [earned EXCEPT ![p] = earned[p] + total + extra]

LEMMA SaleIs ==
    ASSUME NEW at, NEW todo, NEW car, NEW rows, NEW counters, NEW sold, NEW earned,
           NEW v, NEW s, NEW p, NEW amount, NEW total, NEW extra
    PROVE  Sale(Update(at, todo, car, rows, counters, sold, earned), v, s, p, amount, total, extra)
           = Update(at, todo, car, Sold(rows, v, amount, total), counters,
                    Sales(sold, s, amount), Paid(earned, p, total, extra))
<1> DEFINE t == Update(at, todo, car, rows, counters, sold, earned)
           sales == [sold EXCEPT ![s] = sold[s] + amount]
           money == [earned EXCEPT ![p] = earned[p] + total + extra]
           half == [rows EXCEPT ![v].need = rows[v].need - amount]
           left == [half EXCEPT ![v].budget = rows[v].budget - total]
           b == Update(at, todo, car, rows, counters, sales, earned)
           c == Update(at, todo, car, rows, counters, sales, money)
           d == Update(at, todo, car, half, counters, sales, money)
           e == Update(at, todo, car, left, counters, sales, money)
<1>1. [t EXCEPT !.sold = sales] = b
  <2> HIDE DEF sales
  <2> QED
    BY WriteSold
<1>2. [b EXCEPT !.earned = money] = c
  <2> HIDE DEF sales, money
  <2> QED
    BY WriteEarned
<1>3. [c EXCEPT !.cars = half] = d /\ c.cars = rows
  <2> HIDE DEF sales, money, half
  <2> QED
    BY WriteCars DEF Update
<1>4. [d EXCEPT !.cars = left] = e /\ d.cars = half
  <2> HIDE DEF sales, money, half, left
  <2> QED
    BY WriteCars DEF Update
<1>5. t.cars = rows /\ t.sold = sold /\ t.earned = earned /\ b.earned = earned
  BY DEF Update
<1> DEFINE sale == [t EXCEPT !.sold[s] = @ + amount,
                             !.earned[p] = @ + total + extra,
                             !.cars[v].need = @ - amount,
                             !.cars[v].budget = @ - total]
<1> HIDE DEF t
<1>6. sale = [[[[t EXCEPT !.sold[s] = t.sold[s] + amount]
                     EXCEPT !.earned[p] = t.earned[p] + total + extra]
                     EXCEPT !.cars[v].need = t.cars[v].need - amount]
                     EXCEPT !.cars[v].budget = t.cars[v].budget - total]
  OBVIOUS
<1>7. [t EXCEPT !.sold[s] = t.sold[s] + amount] = b
  <2>1. [t EXCEPT !.sold[s] = t.sold[s] + amount] = [t EXCEPT !.sold = sales]
    BY <1>5
  <2> QED
    BY <1>1, <2>1
<1>8. [b EXCEPT !.earned[p] = t.earned[p] + total + extra] = c
  <2> HIDE DEF b
  <2>1. [b EXCEPT !.earned[p] = t.earned[p] + total + extra] = [b EXCEPT !.earned = money]
    BY <1>5
  <2> QED
    BY <1>2, <2>1
<1>9. [c EXCEPT !.cars[v].need = t.cars[v].need - amount] = d
  <2> HIDE DEF c
  <2>1. [c EXCEPT !.cars[v].need = t.cars[v].need - amount] = [c EXCEPT !.cars = half]
    BY <1>3, <1>5
  <2> QED
    BY <1>3, <2>1
<1>10. [d EXCEPT !.cars[v].budget = t.cars[v].budget - total] = e
  <2> HIDE DEF d
  <2>1. [d EXCEPT !.cars[v].budget = t.cars[v].budget - total] = [d EXCEPT !.cars = left]
    <3> HIDE DEF half
    <3> QED
      BY <1>4, <1>5
  <2> QED
    BY <1>4, <2>1
<1> HIDE DEF sale, b, c, d, e, sales, money, half, left
<1>11. sale = e
  BY <1>6, <1>7, <1>8, <1>9, <1>10, Zenon
<1> QED
  BY <1>11 DEF t, sale, e, left, half, money, sales, Sold, Sale, Sales, Paid

Bought(row, n, b) == [[row EXCEPT !.need = n] EXCEPT !.budget = b]

LEMMA SoldRow ==
    ASSUME NEW row \in CarRows, NEW n \in Int, NEW b \in Int
    PROVE  LET r == Bought(row, n, b) IN
           /\ r \in CarRows /\ r.status = row.status /\ r.station = row.station
           /\ r.need = n /\ r.budget = b
BY DEF CarRows, Bought

LEMMA SoldRows ==
    ASSUME NEW rows \in [Cars -> CarRows \cup {None}], NEW v \in Cars, Exists(rows, v),
           NEW amount \in Int, NEW total \in Int
    PROVE  LET after == Sold(rows, v, amount, total) IN
           /\ after \in [Cars -> CarRows \cup {None}]
           /\ \A w \in Cars : w # v => after[w] = rows[w]
           /\ after[v] \in CarRows
           /\ after[v].status = rows[v].status /\ after[v].station = rows[v].station
           /\ after[v].need = rows[v].need - amount
           /\ after[v].budget = rows[v].budget - total
<1> DEFINE n == rows[v].need - amount
           b == rows[v].budget - total
           r == Bought(rows[v], n, b)
           half == [rows EXCEPT ![v] = [rows[v] EXCEPT !.need = n]]
           after == [half EXCEPT ![v] = [half[v] EXCEPT !.budget = b]]
<1>1. rows[v] \in CarRows
  BY DEF Exists
<1>2. n \in Int /\ b \in Int
  <2>1. rows[v].need \in Int /\ rows[v].budget \in Int
    BY <1>1 DEF CarRows
  <2>2. \A x, y \in Int : x - y \in Int
    OBVIOUS
  <2> QED
    BY <2>1, <2>2
<1>3. Sold(rows, v, amount, total) = after
  BY DEF Sold
<1> HIDE DEF n, b
<1>4. r \in CarRows /\ r.status = rows[v].status /\ r.station = rows[v].station
      /\ r.need = n /\ r.budget = b
  BY <1>1, <1>2, SoldRow
<1>5. half[v] = [rows[v] EXCEPT !.need = n] /\ \A w \in Cars : w # v => half[w] = rows[w]
  OBVIOUS
<1>6. DOMAIN half = Cars
  OBVIOUS
<1> HIDE DEF half
<1>7. after[v] = r /\ \A w \in Cars : w # v => after[w] = rows[w]
  <2>1. [half[v] EXCEPT !.budget = b] = r
    BY <1>5, Zenon DEF Bought
  <2> QED
    BY <1>5, <1>6, <2>1
<1>8. after = [w \in Cars |-> after[w]]
  BY <1>6
<1> HIDE DEF after, r
<1>9. after \in [Cars -> CarRows \cup {None}]
  BY <1>4, <1>7, <1>8
<1> QED
  BY <1>3, <1>4, <1>7, <1>9 DEF n, b

LEMMA ServePlayerStep ==
    ASSUME CarInv, NEW v \in Cars, NEW price \in Prices, ServePlayer(v, price)
    PROVE  CarInv'
<1>1. PICK t : t = tick
  OBVIOUS
<1>2. PICK s : s = cars[v].station
  OBVIOUS
<1>3. PICK p : p = owner[s]
  OBVIOUS
<1>4. PICK a : a = Purchasable(t, v, price)
  OBVIOUS
<1>5. PICK extra \in Extras :
        tick' = Resume(Sale(t, v, s, p, a, Total(a, price), extra), v)
  BY <1>1, <1>2, <1>3, <1>4 DEF ServePlayer, Sale
<1>6. tick # None /\ t.at = "serve" /\ t.car = <<v, price>>
  BY <1>1 DEF ServePlayer, Serving
<1>7. /\ UpdateOK(t, held[Tick]) /\ InService(t) = {v} /\ v \in t.todo
      /\ Exists(t.cars, v) /\ cars[v].status = "REFUELING"
      /\ s \in Stations /\ StationRow(s) \in held[Tick]
      /\ \A w \in t.todo : /\ Exists(cars, w) /\ t.cars[w] = cars[w]
                           /\ cars[w].status = "REFUELING"
      /\ \A w \in Active : cars[w].status = "DRIVING" => t.cars[w] = cars[w]
      /\ \A x \in Stations : /\ t.queue[x] = Cardinality(Waiting(t.cars, x) \ {v}) + stranded[x]
                             /\ t.queue[x] <= MaxQueue
  BY <1>1, <1>2, <1>6, InServiceFacts
<1>8. Lock(PlayerRow(p))
  BY <1>2, <1>3 DEF ServePlayer
<1>9. LocksOK' /\ held'[Tick] = held[Tick] \cup {PlayerRow(p)}
  BY <1>8, TickTakes DEF CarInv
<1>10. PICK h : h = held'[Tick]
  OBVIOUS
<1>11. SoldOK(t, h) /\ CopiesOK(t) /\ {StationRow(s), FuelRow(s)} \subseteq h /\ a > 0
  BY <1>2, <1>4, <1>6, <1>7, <1>9, <1>10 DEF UpdateOK, SoldOK, ServiceOK
<1>12. /\ a \in Nat
       /\ a <= t.cars[v].need
       /\ a <= liters[s] - t.sold[s]
       /\ a <= Affordable(t.cars[v].budget, price)
  BY <1>2, <1>4, <1>7, <1>11, PurchaseBounds
<1>13. price \in Nat /\ price > 0
  <2>1. price \in Nat
    BY VehiclesAssumption
  <2>2. price # 0
    BY <1>11, <1>12 DEF Affordable
  <2> QED
    BY <2>1, <2>2
<1>14. /\ t = [at |-> "serve", todo |-> t.todo, car |-> <<v, price>>, cars |-> t.cars,
               queue |-> t.queue, sold |-> t.sold, earned |-> t.earned]
       /\ t.todo \subseteq Cars
       /\ t.cars \in [Cars -> CarRows \cup {None}]
       /\ t.queue \in [Stations -> Nat]
       /\ t.sold \in [Stations -> Nat]
       /\ t.earned \in [Players -> Nat]
       /\ \A w \in Cars : Exists(t.cars, w) => Exists(cars, w) /\ RowOK(t.cars[w])
  BY <1>6, <1>11 DEF CopiesOK
<1> DEFINE total == Total(a, price)
<1>15. total \in Nat
  <2>1. a * price \in Nat
    BY <1>12, <1>13
  <2> QED
    BY <2>1, RoundedAbove, VehiclesAssumption DEF Total
<1>16. 2 * PerLiter * (t.cars[v].budget - total) >= -(price + PerLiter)
  <2>1. t.cars[v].budget \in Int
    BY <1>7, <1>14 DEF Exists, CarRows
  <2> QED
    BY <1>12, <1>13, <2>1, Overspent
<1> HIDE DEF total
<1> DEFINE rows == Sold(t.cars, v, a, total)
           sales == Sales(t.sold, s, a)
           money == Paid(t.earned, p, total, extra)
           u == [at |-> "serve", todo |-> t.todo, car |-> <<v, price>>, cars |-> rows,
                 queue |-> t.queue, sold |-> sales, earned |-> money]
<1>17. Sale(t, v, s, p, a, total, extra) = u
  <2> DEFINE f == Update("serve", t.todo, <<v, price>>, t.cars, t.queue, t.sold, t.earned)
  <2>1. t = f
    BY <1>14 DEF Update
  <2>2. Sale(f, v, s, p, a, total, extra)
          = Update("serve", t.todo, <<v, price>>, rows, t.queue, sales, money)
    BY SaleIs
  <2>3. Update("serve", t.todo, <<v, price>>, rows, t.queue, sales, money) = u
    BY DEF Update
  <2> HIDE DEF f, u, rows, sales, money
  <2> QED
    BY <2>1, <2>2, <2>3, Zenon
<1>18. tick' = Resume(u, v)
  <2> HIDE DEF u
  <2> QED
    BY <1>5, <1>17 DEF total
<1>19. t.cars[v] \in CarRows /\ t.cars[v].budget \in Int
  BY <1>7, <1>14 DEF Exists, CarRows
<1>20. /\ rows \in [Cars -> CarRows \cup {None}]
       /\ \A w \in Cars : w # v => rows[w] = t.cars[w]
       /\ rows[v] \in CarRows
       /\ rows[v].status = t.cars[v].status /\ rows[v].station = t.cars[v].station
       /\ rows[v].need = t.cars[v].need - a
       /\ rows[v].budget = t.cars[v].budget - total
  BY <1>7, <1>12, <1>15, <1>14, SoldRows
<1> HIDE DEF rows
<1>21. RowOK(rows[v]) /\ Exists(rows, v)
  <2>1. Solvent(rows[v].budget)
    BY <1>20, <1>16 DEF Solvent
  <2>2. RowOK(t.cars[v])
    BY <1>7, <1>14
  <2>3. rows[v] # None
    BY <1>20, NoneIsNoCar
  <2> QED
    BY <1>20, <2>1, <2>2, <2>3 DEF RowOK, Exists
<1>22. \A x : Waiting(rows, x) = Waiting(t.cars, x)
  BY <1>7, <1>20, <1>21 DEF Waiting, Exists
<1>23. sales \in [Stations -> Nat] /\ money \in [Players -> Nat]
  <2>1. t.sold[s] + a \in Nat
    BY <1>7, <1>12, <1>14
  <2>2. ASSUME p \in Players
        PROVE  t.earned[p] + total + extra \in Nat
    <3>1. t.earned[p] \in Nat /\ extra \in Nat
      BY <1>14, <2>2, VehiclesAssumption
    <3> QED
      BY <1>15, <3>1
  <2> QED
    BY <1>14, <2>1, <2>2 DEF Sales, Paid
<1>24. CopiesOK(u)
  <2>1. \A w \in Cars : Exists(rows, w) => Exists(cars, w) /\ RowOK(rows[w])
    BY <1>7, <1>14, <1>20, <1>21 DEF Exists
  <2> HIDE DEF sales, money
  <2> QED
    BY <1>14, <1>20, <1>23, <2>1 DEF CopiesOK
<1>25. SoldOK(u, h)
  <2> SUFFICES ASSUME NEW x \in Stations
               PROVE  /\ sales[x] <= liters[x]
                      /\ sales[x] > 0 => {StationRow(x), FuelRow(x)} \subseteq h
    BY DEF SoldOK
  <2>1. CASE x = s
    <3>1. sales[x] = t.sold[s] + a /\ t.sold[s] \in Nat /\ liters[s] \in Nat
      BY <1>7, <1>14, <2>1, StoreAssumption DEF CarInv, RowsTyped, Sales
    <3> HIDE DEF sales
    <3> QED
      BY <1>11, <1>12, <2>1, <3>1
  <2>2. CASE x # s
    BY <1>11, <1>14, <2>2 DEF SoldOK, Sales
  <2> QED
    BY <2>1, <2>2
<1>26. /\ u.at = "serve" /\ Exists(u.cars, v) /\ cars[v].status = "REFUELING"
       /\ \A w \in u.todo \ {v} : /\ Exists(cars, w) /\ u.cars[w] = cars[w]
                                  /\ cars[w].status = "REFUELING"
       /\ \A w \in Active : cars[w].status = "DRIVING" => u.cars[w] = cars[w]
       /\ \A x \in Stations : /\ u.queue[x] = Cardinality(Waiting(u.cars, x) \ {v}) + stranded[x]
                              /\ u.queue[x] <= MaxQueue
  <2>1. /\ u.at = "serve" /\ u.todo = t.todo /\ u.cars = rows /\ u.queue = t.queue
    OBVIOUS
  <2>2. \A w \in t.todo \ {v} : /\ Exists(cars, w) /\ rows[w] = cars[w]
                                /\ cars[w].status = "REFUELING"
    BY <1>7, <1>14, <1>20
  <2>3. \A w \in Active : cars[w].status = "DRIVING" => rows[w] = cars[w]
    BY <1>7, <1>20 DEF Active
  <2>4. \A x \in Stations : /\ t.queue[x] = Cardinality(Waiting(rows, x) \ {v}) + stranded[x]
                            /\ t.queue[x] <= MaxQueue
    BY <1>7, <1>22
  <2> HIDE DEF u
  <2> QED
    BY <1>7, <1>21, <2>1, <2>2, <2>3, <2>4
<1> HIDE DEF u
<1>27. Resume(u, v).at = "serve" /\ UpdateOK(Resume(u, v), h)
  BY <1>24, <1>25, <1>26, Resumes
<1>28. UNCHANGED <<balance, ledger, owner, liters, cars, queue, stranded, turn, credit>>
  BY DEF ServePlayer
<1> QED
  BY <1>9, <1>10, <1>18, <1>27, <1>28, UpdateStep

-----------------------------------------------------------------------------
(* The update moves cars. *)

LEMMA UpdateDriveStep == CarInv /\ UpdateDrive => CarInv'
<1> SUFFICES ASSUME CarInv, UpdateDrive
             PROVE  CarInv'
  OBVIOUS
<1>1. PICK t : t = tick
  OBVIOUS
<1>2. PICK moving : moving = {v \in Active : cars[v].status = "DRIVING"}
  OBVIOUS
<1>3. tick # None /\ t.at = "serve" /\ t.car = None
  BY <1>1 DEF UpdateDrive, Serving
<1>4. UpdateOK(t, held[Tick]) /\ InService(t) = {}
  BY <1>1, <1>3, ServingFacts, NobodyInService
<1> DEFINE u == Update("drive", moving, t.car, t.cars, t.queue, t.sold, t.earned)
<1>5. tick' = u
  <2> DEFINE f == Update(t.at, t.todo, t.car, t.cars, t.queue, t.sold, t.earned)
             g == Update("drive", t.todo, t.car, t.cars, t.queue, t.sold, t.earned)
  <2>1. t = f
    BY <1>4 DEF UpdateOK, CopiesOK, Update
  <2>2. [f EXCEPT !.at = "drive"] = g
    BY WriteAt
  <2>3. [g EXCEPT !.todo = moving] = u
    BY WriteTodo
  <2>4. tick' = [[t EXCEPT !.at = "drive"] EXCEPT !.todo = moving]
    BY <1>1, <1>2 DEF UpdateDrive
  <2> HIDE DEF f, g, u
  <2> QED
    BY <2>1, <2>2, <2>3, <2>4, Zenon
<1>6. /\ u.at = "drive" /\ u.todo = moving /\ u.cars = t.cars
      /\ u.queue = t.queue /\ u.sold = t.sold
      /\ u.earned = t.earned
  BY DEF Update
<1>7. CopiesOK(u)
  BY <1>2, <1>4 DEF UpdateOK, CopiesOK, Update, Active
<1> HIDE DEF u
<1>8. TodoOK(u)
  <2>1. \A v \in moving : Exists(cars, v) /\ t.cars[v] = cars[v] /\ cars[v].status = "DRIVING"
    BY <1>2, <1>3, <1>4 DEF UpdateOK, TodoOK, Active
  <2> QED
    BY <1>6, <2>1 DEF TodoOK
<1>9. InService(u) = {}
  BY <1>6, NobodyInService
<1>10. CountsOK(u) /\ SoldOK(u, held[Tick]) /\ ServiceOK(u, held[Tick])
  BY <1>4, <1>6, <1>9 DEF UpdateOK, CountsOK, Counted, SoldOK, ServiceOK
<1>11. UpdateOK(u, held[Tick])
  BY <1>7, <1>8, <1>10 DEF UpdateOK
<1>12. UNCHANGED <<balance, ledger, owner, liters, held, cars, queue, stranded, turn, credit>>
  BY DEF UpdateDrive, storeVars
<1>13. LocksOK'
  BY <1>12 DEF CarInv, LocksOK
<1> QED
  BY <1>5, <1>6, <1>11, <1>12, <1>13, UpdateStep

\* Car v moves: its row changes and the counters follow.
MovesOK(t, v, rows, counters) ==
    /\ rows \in [Cars -> CarRows \cup {None}]
    /\ \A w \in Cars : w # v => rows[w] = t.cars[w]
    /\ rows[v] # None => RowOK(rows[v])
    /\ counters \in [Stations -> Nat]
    /\ \A s \in Stations : /\ counters[s] = Cardinality(Waiting(rows, s)) + stranded[s]
                           /\ counters[s] <= MaxQueue

LEMMA CarMoves ==
    ASSUME CarInv, NEW t, t = tick, NEW v, Driving(v),
           NEW rows, NEW counters, MovesOK(t, v, rows, counters),
           NEW h, held[Tick] \subseteq h,
           NEW u, u = Update("drive", t.todo \ {v}, t.car, rows, counters, t.sold, t.earned)
    PROVE  u.at = "drive" /\ UpdateOK(u, h)
<1>1. tick # None /\ t.at = "drive" /\ v \in t.todo
  BY DEF Driving
<1>2. UpdateOK(t, held[Tick])
  BY <1>1, ServingFacts
<1>3. /\ u.at = "drive" /\ u.todo = t.todo \ {v} /\ u.cars = rows
      /\ u.queue = counters /\ u.sold = t.sold
  BY DEF Update
<1>4. v \in Cars /\ Exists(cars, v)
  BY <1>1, ServingFacts
<1>5. CopiesOK(u)
  <2>1. \A w \in Cars : Exists(rows, w) => Exists(cars, w) /\ RowOK(rows[w])
    BY <1>2, <1>4 DEF UpdateOK, CopiesOK, Exists, MovesOK
  <2> QED
    BY <1>2, <2>1 DEF UpdateOK, CopiesOK, Update, MovesOK
<1>6. TodoOK(u)
  <2>1. \A w \in t.todo \ {v} : /\ Exists(cars, w) /\ rows[w] = cars[w]
                                /\ cars[w].status = "DRIVING"
    BY <1>1, ServingFacts DEF MovesOK
  <2> QED
    BY <1>3, <2>1 DEF TodoOK
<1>7. InService(u) = {}
  BY <1>3, NobodyInService
<1>8. CountsOK(u)
  <2>1. \A x : Counted(u, x) = Waiting(rows, x)
    BY <1>3, <1>7 DEF Counted
  <2>2. \A x \in Stations : counters[x] = Cardinality(Waiting(rows, x)) + stranded[x] /\ counters[x] <= MaxQueue
    BY DEF MovesOK
  <2> QED
    BY <1>3, <2>1, <2>2 DEF CountsOK
<1>9. ServiceOK(u, h)
  <2>1. u.at # "serve"
    BY <1>3
  <2>2. \A w \in InService(u) : FALSE
    BY <1>7
  <2> QED
    BY <2>1, <2>2, Zenon DEF ServiceOK
<1>10. SoldOK(u, h)
  BY <1>2, <1>3 DEF UpdateOK, SoldOK
<1>11. UpdateOK(u, h)
  BY <1>5, <1>6, <1>8, <1>10, <1>9 DEF UpdateOK
<1> QED
  BY <1>3, <1>11

\* What a moving car finds.
LEMMA DrivingFacts ==
    ASSUME CarInv, NEW v, Driving(v)
    PROVE  /\ v \in Cars /\ tick.cars[v] = cars[v] /\ cars[v] \in CarRows
           /\ cars[v].status = "DRIVING" /\ RowOK(cars[v])
           /\ tick = Update("drive", tick.todo, tick.car, tick.cars, tick.queue,
                            tick.sold, tick.earned)
           /\ tick.cars \in [Cars -> CarRows \cup {None}]
           /\ tick.queue \in [Stations -> Nat]
           /\ \A s \in Stations : /\ tick.queue[s] = Cardinality(Waiting(tick.cars, s)) + stranded[s]
                                  /\ tick.queue[s] <= MaxQueue
<1>1. tick # None /\ tick.at = "drive" /\ v \in tick.todo
  BY DEF Driving
<1>2. UpdateOK(tick, held[Tick])
  BY <1>1, ServingFacts
<1>3. /\ tick = Update("drive", tick.todo, tick.car, tick.cars, tick.queue,
                       tick.sold, tick.earned)
      /\ tick.cars \in [Cars -> CarRows \cup {None}]
      /\ tick.queue \in [Stations -> Nat]
  BY <1>1, <1>2 DEF UpdateOK, CopiesOK, Update
<1>4. InService(tick) = {}
  BY <1>1, NobodyInService
<1>5. \A s \in Stations : /\ tick.queue[s] = Cardinality(Waiting(tick.cars, s)) + stranded[s]
                          /\ tick.queue[s] <= MaxQueue
  BY <1>2, <1>4 DEF UpdateOK, CountsOK, Counted
<1>6. /\ v \in Cars /\ tick.cars[v] = cars[v] /\ cars[v] \in CarRows
      /\ cars[v].status = "DRIVING" /\ RowOK(cars[v])
  BY <1>1, ServingFacts
<1> QED
  BY <1>3, <1>5, <1>6

LEMMA ArriveStep ==
    ASSUME CarInv, NEW v, Arrive(v)
    PROVE  CarInv'
<1>1. PICK t : t = tick
  OBVIOUS
<1>2. Driving(v)
  BY DEF Arrive
<1>3. /\ v \in Cars /\ t.cars[v] = cars[v] /\ cars[v].status = "DRIVING"
      /\ t = Update("drive", t.todo, t.car, t.cars, t.queue, t.sold, t.earned)
      /\ t.cars \in [Cars -> CarRows \cup {None}]
      /\ t.queue \in [Stations -> Nat]
      /\ \A s \in Stations : /\ t.queue[s] = Cardinality(Waiting(t.cars, s)) + stranded[s]
                             /\ t.queue[s] <= MaxQueue
  BY <1>1, <1>2, DrivingFacts
<1> DEFINE rows == [t.cars EXCEPT ![v] = None]
           u == Update("drive", t.todo \ {v}, t.car, rows, t.queue, t.sold, t.earned)
<1>4. tick' = u
  <2> DEFINE f == Update("drive", t.todo, t.car, t.cars, t.queue, t.sold, t.earned)
             g == Update("drive", t.todo \ {v}, t.car, t.cars, t.queue, t.sold, t.earned)
  <2>1. t = f
    BY <1>3
  <2>2. [f EXCEPT !.todo = t.todo \ {v}] = g
    BY WriteTodo
  <2>3. [g EXCEPT !.cars[v] = None] = u
    <3>1. [g EXCEPT !.cars[v] = None] = [g EXCEPT !.cars = rows]
      BY DEF Update
    <3> HIDE DEF rows
    <3>2. [g EXCEPT !.cars = rows] = u
      BY WriteCars
    <3> QED
      BY <3>1, <3>2
  <2>4. tick' = [[t EXCEPT !.todo = t.todo \ {v}] EXCEPT !.cars[v] = None]
    BY <1>1 DEF Arrive
  <2> HIDE DEF f, g, u, rows
  <2>5. [[t EXCEPT !.todo = t.todo \ {v}] EXCEPT !.cars[v] = None] = u
    BY <2>1, <2>2, <2>3, Zenon
  <2> QED
    BY <2>4, <2>5
<1>5. \A s : Waiting(rows, s) = Waiting(t.cars, s)
  <2>1. \A s : Waiting(rows, s) = Waiting(t.cars, s) \ {v}
    BY <1>3, WaitingWithout
  <2>2. \A s : v \notin Waiting(t.cars, s)
    BY <1>3 DEF Waiting
  <2> HIDE DEF rows
  <2> QED
    BY <2>1, <2>2
<1>6. /\ rows \in [Cars -> CarRows \cup {None}] /\ rows[v] = None
      /\ \A w \in Cars : w # v => rows[w] = t.cars[w]
  BY <1>3
<1> HIDE DEF rows
<1>7. UNCHANGED <<balance, ledger, owner, liters, held, cars, queue, stranded, turn, credit>>
  BY DEF Arrive, storeVars
<1>8. u.at = "drive" /\ UpdateOK(u, held[Tick])
  <2>1. MovesOK(t, v, rows, t.queue)
    BY <1>3, <1>5, <1>6 DEF MovesOK
  <2>2. u = Update("drive", t.todo \ {v}, t.car, rows, t.queue, t.sold, t.earned)
    OBVIOUS
  <2> HIDE DEF u
  <2> QED
    BY <1>1, <1>2, <2>1, <2>2, CarMoves
<1>9. LocksOK'
  BY <1>7 DEF CarInv, LocksOK
<1> HIDE DEF u
<1> QED
  BY <1>4, <1>7, <1>8, <1>9, UpdateStep

\* The row of a car that drives past its station, and of one that joins the queue.
Passing(row) == [row EXCEPT !.station = None]

Joining(row) == [row EXCEPT !.status = "REFUELING"]

LEMMA StationRows ==
    ASSUME NEW row \in CarRows, RowOK(row)
    PROVE  /\ Passing(row) \in CarRows /\ Passing(row).status = row.status
           /\ row.status = "DRIVING" => RowOK(Passing(row))
           /\ Joining(row) \in CarRows /\ Joining(row).status = "REFUELING"
           /\ Joining(row).station = row.station
           /\ row.station \in Stations => RowOK(Joining(row))
<1>1. /\ Passing(row) \in CarRows /\ Passing(row).status = row.status
      /\ Passing(row).budget = row.budget
  BY DEF CarRows, Passing
<1>2. /\ Joining(row) \in CarRows /\ Joining(row).status = "REFUELING"
      /\ Joining(row).station = row.station /\ Joining(row).budget = row.budget
  BY DEF CarRows, Joining
<1>3. Solvent(row.budget)
  BY DEF RowOK
<1>4. row.status = "DRIVING" => RowOK(Passing(row))
  BY <1>1, <1>3 DEF RowOK
<1>5. row.station \in Stations => RowOK(Joining(row))
  BY <1>2, <1>3 DEF RowOK
<1> QED
  BY <1>1, <1>2, <1>4, <1>5

PassRows(rows, v) == [rows EXCEPT ![v] = Passing(rows[v])]

JoinRows(rows, v) == [rows EXCEPT ![v] = Joining(rows[v])]

JoinQueue(counters, s) == [counters EXCEPT ![s] = counters[s] + 1]

Passes(t, v) == [t EXCEPT !.todo = @ \ {v}, !.cars[v].station = None]

Joins(t, v, s) ==
    [t EXCEPT !.todo = @ \ {v}, !.queue[s] = @ + 1, !.cars[v].status = "REFUELING"]

LEMMA PassWrites ==
    ASSUME NEW todo, NEW car, NEW rows, NEW counters, NEW sold, NEW earned, NEW v
    PROVE  Passes(Update("drive", todo, car, rows, counters, sold, earned), v)
           = Update("drive", todo \ {v}, car, PassRows(rows, v), counters, sold, earned)
<1> DEFINE t == Update("drive", todo, car, rows, counters, sold, earned)
           b == Update("drive", todo \ {v}, car, rows, counters, sold, earned)
           after == [rows EXCEPT ![v] = Passing(rows[v])]
           c == Update("drive", todo \ {v}, car, after, counters, sold, earned)
           u == [t EXCEPT !.todo = @ \ {v}, !.cars[v].station = None]
<1>1. [t EXCEPT !.todo = todo \ {v}] = b
  BY WriteTodo
<1>2. [b EXCEPT !.cars = after] = c /\ b.cars = rows
  <2> HIDE DEF after
  <2> QED
    BY WriteCars DEF Update
<1>3. t.todo = todo
  BY DEF Update
<1> HIDE DEF t, b
<1>4. [b EXCEPT !.cars[v].station = None] = [b EXCEPT !.cars = after]
  BY <1>2 DEF Passing
<1>5. u = [[t EXCEPT !.todo = todo \ {v}] EXCEPT !.cars[v].station = None]
  BY <1>3
<1> HIDE DEF u, c, after
<1>6. u = c
  BY <1>1, <1>2, <1>4, <1>5, Zenon
<1> QED
  BY <1>6 DEF u, t, c, after, Passes, PassRows

LEMMA JoinWrites ==
    ASSUME NEW todo, NEW car, NEW rows, NEW counters, NEW sold, NEW earned, NEW v, NEW s
    PROVE  Joins(Update("drive", todo, car, rows, counters, sold, earned), v, s)
           = Update("drive", todo \ {v}, car, JoinRows(rows, v), JoinQueue(counters, s),
                    sold, earned)
<1> DEFINE t == Update("drive", todo, car, rows, counters, sold, earned)
           b == Update("drive", todo \ {v}, car, rows, counters, sold, earned)
           more == [counters EXCEPT ![s] = counters[s] + 1]
           c == Update("drive", todo \ {v}, car, rows, more, sold, earned)
           after == [rows EXCEPT ![v] = Joining(rows[v])]
           d == Update("drive", todo \ {v}, car, after, more, sold, earned)
           u == [t EXCEPT !.todo = @ \ {v}, !.queue[s] = @ + 1, !.cars[v].status = "REFUELING"]
<1>1. [t EXCEPT !.todo = todo \ {v}] = b
  BY WriteTodo
<1>2. [b EXCEPT !.queue = more] = c /\ b.queue = counters
  <2> HIDE DEF more
  <2> QED
    BY WriteQueue DEF Update
<1>3. [c EXCEPT !.cars = after] = d /\ c.cars = rows
  <2> HIDE DEF after, more
  <2> QED
    BY WriteCars DEF Update
<1>4. t.todo = todo /\ t.queue = counters
  BY DEF Update
<1> HIDE DEF t, b, c
<1>5. [b EXCEPT !.queue[s] = counters[s] + 1] = [b EXCEPT !.queue = more]
  BY <1>2
<1>6. [c EXCEPT !.cars[v].status = "REFUELING"] = [c EXCEPT !.cars = after]
  BY <1>3 DEF Joining
<1>7. u = [[[t EXCEPT !.todo = todo \ {v}] EXCEPT !.queue[s] = counters[s] + 1]
             EXCEPT !.cars[v].status = "REFUELING"]
  BY <1>4
<1> HIDE DEF u, d, after, more
<1>8. u = d
  BY <1>1, <1>2, <1>3, <1>5, <1>6, <1>7, Zenon
<1> QED
  BY <1>8 DEF u, t, d, after, more, Joins, JoinRows, JoinQueue

LEMMA ReachStationStep ==
    ASSUME CarInv, NEW v, ReachStation(v)
    PROVE  CarInv'
<1>1. PICK t : t = tick
  OBVIOUS
<1>2. PICK s : s = cars[v].station
  OBVIOUS
<1>3. Driving(v) /\ s # None
  BY <1>2 DEF ReachStation
<1>4. /\ v \in Cars /\ t.cars[v] = cars[v] /\ cars[v] \in CarRows
      /\ cars[v].status = "DRIVING" /\ RowOK(cars[v])
      /\ t = Update("drive", t.todo, t.car, t.cars, t.queue, t.sold, t.earned)
      /\ t.cars \in [Cars -> CarRows \cup {None}]
      /\ t.queue \in [Stations -> Nat]
      /\ \A x \in Stations : /\ t.queue[x] = Cardinality(Waiting(t.cars, x)) + stranded[x]
                             /\ t.queue[x] <= MaxQueue
  BY <1>1, <1>3, DrivingFacts
<1>5. s \in Stations
  BY <1>2, <1>3, <1>4 DEF CarRows
<1>6. PICK h : h = held'[Tick]
  OBVIOUS
<1>7. LocksOK' /\ held[Tick] \subseteq h
  <2>1. Lock(StationRow(s))
    BY <1>2 DEF ReachStation
  <2> QED
    BY <1>6, <2>1, TickTakes DEF CarInv
<1>8. tick' = IF Full(t.queue[s]) THEN Passes(t, v) ELSE Joins(t, v, s)
  BY <1>1, <1>2 DEF ReachStation, Passes, Joins
<1>9. UNCHANGED <<balance, ledger, owner, liters, cars, queue, stranded, turn, credit>>
  BY DEF ReachStation
<1>10. \A x : v \notin Waiting(t.cars, x)
  BY <1>4 DEF Waiting
<1>11. CASE Full(t.queue[s])
  <2> DEFINE rows == PassRows(t.cars, v)
             u == Update("drive", t.todo \ {v}, t.car, rows, t.queue, t.sold, t.earned)
  <2>1. Passing(cars[v]) \in CarRows /\ Passing(cars[v]).status = "DRIVING"
        /\ RowOK(Passing(cars[v]))
    BY <1>4, StationRows
  <2>2. /\ rows \in [Cars -> CarRows \cup {None}] /\ rows[v] = Passing(cars[v])
        /\ \A w \in Cars : w # v => rows[w] = t.cars[w]
    BY <1>4, <2>1 DEF PassRows
  <2>3. ASSUME NEW x
        PROVE  Waiting(rows, x) = Waiting(t.cars, x)
    <3> HIDE DEF rows
    <3>1. v \notin Waiting(rows, x)
      BY <2>1, <2>2 DEF Waiting
    <3>2. \A w \in Cars : w # v => (w \in Waiting(rows, x) <=> w \in Waiting(t.cars, x))
      BY <2>2 DEF Waiting, Exists
    <3> QED
      BY <1>10, <3>1, <3>2, WaitingCars
  <2>4. MovesOK(t, v, rows, t.queue)
    <3> HIDE DEF rows
    <3> QED
      BY <1>4, <2>1, <2>2, <2>3 DEF MovesOK
  <2>5. tick' = u
    <3>1. Passes(Update("drive", t.todo, t.car, t.cars, t.queue, t.sold, t.earned), v) = u
      BY PassWrites
    <3> HIDE DEF u
    <3>2. Passes(t, v) = u
      BY <1>4, <3>1, Zenon
    <3> QED
      BY <1>8, <1>11, <3>2
  <2>6. u = Update("drive", t.todo \ {v}, t.car, rows, t.queue, t.sold, t.earned)
    OBVIOUS
  <2> HIDE DEF u, rows
  <2>7. u.at = "drive" /\ UpdateOK(u, h)
    BY <1>1, <1>3, <1>7, <2>4, <2>6, CarMoves
  <2> QED
    BY <1>6, <1>7, <1>9, <2>5, <2>7, UpdateStep
<1>12. CASE ~Full(t.queue[s])
  <2> DEFINE rows == JoinRows(t.cars, v)
             counters == JoinQueue(t.queue, s)
             u == Update("drive", t.todo \ {v}, t.car, rows, counters, t.sold, t.earned)
  <2>1. /\ Joining(cars[v]) \in CarRows /\ Joining(cars[v]).status = "REFUELING"
        /\ Joining(cars[v]).station = s /\ RowOK(Joining(cars[v]))
    BY <1>2, <1>4, <1>5, StationRows
  <2>2. /\ rows \in [Cars -> CarRows \cup {None}] /\ rows[v] = Joining(cars[v])
        /\ \A w \in Cars : w # v => rows[w] = t.cars[w]
    BY <1>4, <2>1 DEF JoinRows
  <2>3. ASSUME NEW x
        PROVE  Waiting(rows, x) = IF x = s THEN Waiting(t.cars, x) \cup {v} ELSE Waiting(t.cars, x)
    <3> HIDE DEF rows
    <3>1. v \in Waiting(rows, x) <=> x = s
      <4>1. rows[v] # None
        BY <2>1, <2>2, NoneIsNoCar
      <4> QED
        BY <1>4, <2>1, <2>2, <4>1 DEF Waiting, Exists
    <3>2. \A w \in Cars : w # v => (w \in Waiting(rows, x) <=> w \in Waiting(t.cars, x))
      BY <2>2 DEF Waiting, Exists
    <3>3. Waiting(rows, x) \subseteq Cars /\ Waiting(t.cars, x) \subseteq Cars
      BY WaitingCars
    <3>4. CASE x = s
      BY <1>4, <3>1, <3>2, <3>3, <3>4
    <3>5. CASE x # s
      BY <1>10, <3>1, <3>2, <3>3, <3>5
    <3> QED
      BY <3>4, <3>5
  <2>4. /\ counters \in [Stations -> Nat] /\ counters[s] = t.queue[s] + 1
        /\ \A x \in Stations : x # s => counters[x] = t.queue[x]
    BY <1>4, <1>5 DEF JoinQueue
  <2>5. Cardinality(Waiting(t.cars, s) \cup {v}) + stranded[s] = t.queue[s] + 1
    <3>1. IsFiniteSet(Waiting(t.cars, s))
      BY WaitingCars, CarSets
    <3>2. Cardinality(Waiting(t.cars, s) \cup {v}) = Cardinality(Waiting(t.cars, s)) + 1
      BY <1>10, <3>1, FS_AddElement
    <3>3. stranded[s] \in Nat /\ Cardinality(Waiting(t.cars, s)) \in Nat
      BY <1>5, WaitingCars, CarSets DEF CarInv, RowsTyped
    <3> QED
      BY <1>4, <1>5, <3>2, <3>3
  <2>6. t.queue[s] + 1 <= MaxQueue
    <3>1. t.queue[s] \in Nat /\ MaxQueue \in Nat
      BY <1>4, <1>5, VehiclesAssumption
    <3> QED
      BY <1>12, <3>1 DEF Full
  <2>7. MovesOK(t, v, rows, counters)
    <3> HIDE DEF rows, counters
    <3>1. ASSUME NEW x \in Stations
          PROVE  counters[x] = Cardinality(Waiting(rows, x)) + stranded[x] /\ counters[x] <= MaxQueue
      <4>1. CASE x = s
        BY <2>3, <2>4, <2>5, <2>6, <4>1
      <4>2. CASE x # s
        BY <1>4, <2>3, <2>4, <4>2
      <4> QED
        BY <4>1, <4>2
    <3> QED
      BY <2>1, <2>2, <2>4, <3>1 DEF MovesOK
  <2>8. tick' = u
    <3>1. Joins(Update("drive", t.todo, t.car, t.cars, t.queue, t.sold, t.earned), v, s) = u
      BY JoinWrites
    <3> HIDE DEF u
    <3>2. Joins(t, v, s) = u
      BY <1>4, <3>1, Zenon
    <3> QED
      BY <1>8, <1>12, <3>2
  <2>9. u = Update("drive", t.todo \ {v}, t.car, rows, counters, t.sold, t.earned)
    OBVIOUS
  <2> HIDE DEF u, rows, counters
  <2>10. u.at = "drive" /\ UpdateOK(u, h)
    BY <1>1, <1>3, <1>7, <2>7, <2>9, CarMoves
  <2> QED
    BY <1>6, <1>7, <1>9, <2>8, <2>10, UpdateStep
<1> QED
  BY <1>11, <1>12

LEMMA UpdateBeginStep == CarInv /\ UpdateBegin => CarInv'
<1> SUFFICES ASSUME CarInv, UpdateBegin
             PROVE  CarInv'
  OBVIOUS
<1>1. PICK over \in SUBSET {v \in Active : cars[v].status = "REFUELING"} : tick' = NewUpdate(over)
  BY DEF UpdateBegin
<1> DEFINE sold == [s \in Stations |-> 0]
           earned == [p \in Players |-> 0]
           u == Update("serve", over, None, cars, queue, sold, earned)
<1>2. tick' = u
  BY <1>1 DEF NewUpdate, Update
<1>3. UNCHANGED <<balance, ledger, owner, liters, held, cars, queue, stranded, credit>> /\ turn' = "spawn"
  BY DEF UpdateBegin, storeVars
<1>4. RowsTyped'
  BY <1>3 DEF CarInv, RowsTyped
<1>5. LocksOK'
  BY <1>3 DEF CarInv, LocksOK
<1>6. /\ u.at = "serve" /\ u.todo = over /\ u.cars = cars /\ u.queue = queue
      /\ u.car = None /\ u.sold = sold
  BY DEF Update
<1>7. CopiesOK(u)
  <2>1. sold \in [Stations -> Nat] /\ earned \in [Players -> Nat]
    OBVIOUS
  <2>2. \A v \in Cars : Exists(cars, v) => RowOK(cars[v])
    BY DEF CarInv, CarsOK, Active
  <2>3. over \subseteq Cars
    BY DEF Active
  <2>4. cars \in [Cars -> CarRows \cup {None}] /\ queue \in [Stations -> Nat]
    BY DEF CarInv, RowsTyped
  <2> HIDE DEF sold, earned
  <2> QED
    BY <2>1, <2>2, <2>3, <2>4 DEF CopiesOK, Update
<1>8. \A s \in Stations : sold[s] = 0
  OBVIOUS
<1> HIDE DEF u, sold, earned
<1>9. TodoOK(u)
  <2>1. \A v \in over : Exists(cars, v) /\ cars[v].status = "REFUELING"
    BY DEF Active
  <2> QED
    BY <1>6, <2>1 DEF TodoOK
<1>10. InService(u) = {}
  BY <1>6, NobodyInService
<1>11. CountsOK(u)
  <2>1. \A s : Counted(u, s) = Waiting(cars, s)
    BY <1>6, <1>10 DEF Counted
  <2> QED
    BY <1>6, <2>1 DEF CountsOK, CarInv, CarsOK, QueueCountsCars
<1>12. SoldOK(u, held'[Tick])
  <2>1. \A s \in Stations : liters[s] \in Nat
    BY StoreAssumption DEF CarInv, RowsTyped
  <2> QED
    BY <1>6, <1>8, <2>1 DEF SoldOK
<1>13. ServiceOK(u, held'[Tick])
  <2>1. \A w \in Cars, price \in Prices : u.car # <<w, price>>
    BY <1>6, <1>10 DEF InService
  <2> QED
    BY <1>10, <2>1 DEF ServiceOK
<1>14. UpdateOK(u, held'[Tick])
  BY <1>7, <1>9, <1>11, <1>12, <1>13 DEF UpdateOK
<1> QED
  BY <1>2, <1>3, <1>4, <1>5, <1>6, <1>14, UpdateFollows

LEMMA ActiveLimit ==
    ASSUME CarsOK
    PROVE  /\ IsFiniteSet(Active) /\ Cardinality(Active) \in Nat
           /\ Cardinality(Active) <= MaxActive
<1>1. Active \in SUBSET Cars
  BY DEF Active
<1> QED
  BY <1>1, CarSets DEF CarsOK

\* The scheduler lets go of its rows.
LEMMA TickReleases ==
    ASSUME LocksOK, Release(Tick)
    PROVE  LocksOK'
<1>1. /\ held'[Tick] = {}
      /\ \A w \in Sessions \ {Tick} : held'[w] = held[w]
      /\ held' = [w \in Sessions |-> held'[w]]
  BY DEF Release, LocksOK, Sessions
<1> QED
  BY <1>1 DEF LocksOK

LEMMA UpdateCommitStep == CarInv /\ UpdateCommit => CarInv'
<1> SUFFICES ASSUME CarInv, UpdateCommit
             PROVE  CarInv'
  OBVIOUS
<1>1. PICK t : t = tick
  OBVIOUS
<1>2. tick # None /\ t.at = "drive"
  BY <1>1 DEF UpdateCommit
<1>3. UpdateOK(t, held[Tick]) /\ InService(t) = {}
  BY <1>1, <1>2, ServingFacts, NobodyInService
<1>4. /\ cars' = t.cars /\ queue' = t.queue
      /\ liters' = [s \in Stations |-> liters[s] - t.sold[s]]
      /\ balance' = [p \in Players |-> balance[p] + t.earned[p]]
      /\ ledger' = [p \in Players |-> ledger[p] + t.earned[p]]
      /\ Release(Tick) /\ tick' = None
      /\ UNCHANGED <<owner, turn, credit, stranded>>
  BY <1>1 DEF UpdateCommit
<1>5. RowsTyped'
  <2>1. \A s \in Stations : liters[s] - t.sold[s] \in 0 .. Capacity
    <3> SUFFICES ASSUME NEW s \in Stations
                 PROVE  liters[s] - t.sold[s] \in 0 .. Capacity
      OBVIOUS
    <3>1. t.sold[s] \in Nat /\ t.sold[s] <= liters[s] /\ liters[s] \in 0 .. Capacity
      BY <1>3 DEF UpdateOK, CopiesOK, SoldOK, CarInv, RowsTyped
    <3> QED
      BY <3>1, StoreAssumption
  <2>2. \A p \in Players : /\ balance[p] + t.earned[p] \in Nat
                           /\ ledger[p] + t.earned[p] \in Int
                           /\ balance[p] + t.earned[p] = ledger[p] + t.earned[p]
    <3> SUFFICES ASSUME NEW p \in Players
                 PROVE  /\ balance[p] + t.earned[p] \in Nat
                        /\ ledger[p] + t.earned[p] \in Int
                        /\ balance[p] + t.earned[p] = ledger[p] + t.earned[p]
      OBVIOUS
    <3>1. /\ t.earned[p] \in Nat /\ balance[p] \in Nat
          /\ ledger[p] \in Int /\ balance[p] = ledger[p]
      BY <1>3 DEF UpdateOK, CopiesOK, CarInv, RowsTyped
    <3> QED
      BY <3>1
  <2>3. t.cars \in [Cars -> CarRows \cup {None}] /\ t.queue \in [Stations -> Nat]
    BY <1>3 DEF UpdateOK, CopiesOK
  <2>4. liters' \in [Stations -> 0 .. Capacity]
    BY <1>4, <2>1
  <2>5. balance' \in [Players -> Nat] /\ ledger' \in [Players -> Int]
        /\ \A p \in Players : balance'[p] = ledger'[p]
    BY <1>4, <2>2
  <2> QED
    BY <1>4, <2>3, <2>4, <2>5 DEF CarInv, RowsTyped
<1>6. LocksOK'
  BY <1>4, TickReleases DEF CarInv
<1>7. CarsOK'
  <2>1. \A v \in Cars : Exists(t.cars, v) => Exists(cars, v) /\ RowOK(t.cars[v])
    BY <1>3 DEF UpdateOK, CopiesOK
  <2>2. Active' \subseteq Active /\ \A v \in Active' : RowOK(t.cars[v])
    BY <1>4, <2>1 DEF Active
  <2>3. IsFiniteSet(Active) /\ Cardinality(Active) \in Nat /\ Cardinality(Active) <= MaxActive
    BY ActiveLimit DEF CarInv
  <2>4. Cardinality(Active') <= Cardinality(Active) /\ Cardinality(Active') \in Nat
    BY <2>2, <2>3, FS_Subset, FS_CardinalityType
  <2>5. Cardinality(Active') <= MaxActive
    BY <2>3, <2>4, VehiclesAssumption
  <2>6. \A s \in Stations : t.queue[s] = Cardinality(Waiting(t.cars, s)) + stranded[s] /\ t.queue[s] <= MaxQueue
    <3>1. \A s : Counted(t, s) = Waiting(t.cars, s)
      BY <1>3 DEF Counted
    <3> QED
      BY <1>3, <3>1 DEF UpdateOK, CountsOK
  <2>7. QueueCountsCars'
    BY <1>4, <2>6 DEF QueueCountsCars
  <2>8. \A v \in Active' : RowOK(cars'[v])
    BY <1>4, <2>2
  <2> QED
    BY <2>5, <2>7, <2>8 DEF CarsOK
<1> QED
  BY <1>4, <1>5, <1>6, <1>7, SessionEnds

-----------------------------------------------------------------------------
(* New cars, failures and requests. *)

LEMMA SpawnReadStep == CarInv /\ SpawnRead => CarInv'
<1> SUFFICES ASSUME CarInv, SpawnRead
             PROVE  CarInv'
  OBVIOUS
<1>1. /\ tick = None /\ turn' = "update"
      /\ UNCHANGED <<balance, ledger, owner, liters, held, cars, queue, stranded>>
  BY DEF SpawnRead, storeVars
<1>2. LocksOK' /\ CarsOK'
  BY <1>1 DEF CarInv, LocksOK, CarsOK, Active, QueueCountsCars
<1>3. /\ Cardinality(Active) \in Nat /\ Cardinality(Active) <= MaxActive
      /\ MaxActive \in Nat /\ MaxCredit \in Nat /\ credit \in 0 .. MaxCredit
  BY ActiveLimit, VehiclesAssumption DEF CarInv, RowsTyped
<1>4. CASE UNCHANGED <<tick, credit>>
  <2>1. RowsTyped'
    BY <1>1, <1>4 DEF CarInv, RowsTyped
  <2>2. SessionInv'
    BY <1>1, <1>4 DEF SessionInv
  <2> QED
    BY <1>2, <2>1, <2>2 DEF CarInv
<1>5. CASE ~(UNCHANGED <<tick, credit>>)
  <2>1. Room > 0
    BY <1>3, <1>5 DEF SpawnRead, Room
  <2>2. PICK earned \in credit .. MaxCredit :
          /\ credit' = earned - SpawnCount(Room, earned)
          /\ tick' = IF SpawnCount(Room, earned) = 0 THEN None ELSE NewSpawn(SpawnCount(Room, earned))
    BY <1>5 DEF SpawnRead
  <2>3. PICK n : n = SpawnCount(Room, earned)
    OBVIOUS
  <2>4. /\ n \in Nat /\ n <= earned /\ earned \in Nat /\ earned <= MaxCredit
        /\ Cardinality(Active) + n <= MaxActive
    BY <1>3, <2>1, <2>3 DEF SpawnCount, Least, Room
  <2>5. credit' = earned - n /\ tick' = IF n = 0 THEN None ELSE NewSpawn(n)
    BY <2>2, <2>3
  <2>6. credit' \in 0 .. MaxCredit
    BY <1>3, <2>4, <2>5
  <2>7. RowsTyped'
    BY <1>1, <2>6 DEF CarInv, RowsTyped
  <2>8. SessionInv'
    <3>1. CASE n = 0
      BY <2>5, <3>1 DEF SessionInv
    <3>2. CASE n # 0
      <4>1. tick' = NewSpawn(n)
        BY <2>5, <3>2
      <4>2. tick'.at = "spawn" /\ tick'.count = n /\ tick'.stations \subseteq Stations
        BY <4>1 DEF NewSpawn
      <4>3. SpawnOK(tick)'
        BY <1>1, <2>4, <4>2 DEF SpawnOK, Active
      <4> QED
        BY <4>2, <4>3 DEF SessionInv
    <3> QED
      BY <3>1, <3>2
  <2> QED
    BY <1>2, <2>7, <2>8 DEF CarInv
<1> QED
  BY <1>4, <1>5

LEMMA SpawnCommitStep == CarInv /\ SpawnCommit => CarInv'
<1> SUFFICES ASSUME CarInv, SpawnCommit
             PROVE  CarInv'
  OBVIOUS
<1>1. /\ tick # None /\ tick.at = "spawn" /\ tick' = None
      /\ UNCHANGED <<balance, ledger, owner, liters, held, queue, stranded, turn, credit>>
  BY DEF SpawnCommit, storeVars
<1>2. SpawnOK(tick)
  BY <1>1 DEF CarInv, SessionInv
<1>3. PICK new \in SUBSET (Cars \ Active) :
        /\ Cardinality(new) <= tick.count
        /\ \E station \in [new -> tick.stations \cup {None}], need \in Needs, budget \in Budgets :
            cars' = [v \in Cars |->
                IF v \in new
                THEN [status |-> "DRIVING", station |-> station[v], need |-> need, budget |-> budget]
                ELSE cars[v]]
  BY DEF SpawnCommit
<1>4. PICK station \in [new -> tick.stations \cup {None}], need \in Needs, budget \in Budgets :
        cars' = [v \in Cars |->
            IF v \in new
            THEN [status |-> "DRIVING", station |-> station[v], need |-> need, budget |-> budget]
            ELSE cars[v]]
  BY <1>3
<1> DEFINE row(v) == [status |-> "DRIVING", station |-> station[v], need |-> need,
                      budget |-> budget]
<1>5. /\ \A v \in new : cars'[v] = row(v)
      /\ \A v \in Cars \ new : cars'[v] = cars[v]
      /\ cars' = [v \in Cars |-> cars'[v]]
  BY <1>4
<1>6. \A v \in new : row(v) \in CarRows /\ RowOK(row(v)) /\ row(v).status = "DRIVING"
  <2> SUFFICES ASSUME NEW v \in new
               PROVE  row(v) \in CarRows /\ RowOK(row(v)) /\ row(v).status = "DRIVING"
    OBVIOUS
  <2>1. station[v] \in Stations \cup {None}
    BY <1>2 DEF SpawnOK
  <2>2. need \in Nat /\ budget \in Nat
    BY VehiclesAssumption
  <2>3. Solvent(budget)
    <3>1. PICK price \in Prices : price \in Nat
      BY VehiclesAssumption
    <3>2. 2 * PerLiter * budget \in Nat /\ PerLiter \in Nat
      BY <2>2, VehiclesAssumption
    <3>3. 2 * PerLiter * budget >= -(price + PerLiter)
      BY <3>1, <3>2
    <3> QED
      BY <3>3 DEF Solvent
  <2> QED
    BY <2>1, <2>2, <2>3 DEF CarRows, RowOK
<1> HIDE DEF row
<1>7. \A v \in Cars : cars'[v] \in CarRows \cup {None}
  BY <1>5, <1>6 DEF CarInv, RowsTyped
<1>8. cars' \in [Cars -> CarRows \cup {None}]
  BY <1>5, <1>7
<1>9. RowsTyped'
  BY <1>1, <1>8 DEF CarInv, RowsTyped
<1>10. LocksOK'
  BY <1>1 DEF CarInv, LocksOK
<1>11. \A v \in new : cars'[v] # None
  BY <1>5, <1>6, NoneIsNoCar
<1>12. Active' = Active \cup new
  BY <1>5, <1>11 DEF Active, Exists
<1>13. Cardinality(Active') <= MaxActive
  <2>1. IsFiniteSet(new) /\ Cardinality(new) \in Nat
    BY CarSets
  <2>2. IsFiniteSet(Active) /\ Cardinality(Active) \in Nat
    BY ActiveLimit DEF CarInv
  <2>3. Cardinality(Active \cup new)
          = Cardinality(Active) + Cardinality(new) - Cardinality(Active \cap new)
    BY <2>1, <2>2, FS_Union
  <2>4. Active \cap new = {}
    OBVIOUS
  <2>5. Cardinality(Active') = Cardinality(Active) + Cardinality(new)
    BY <1>12, <2>1, <2>2, <2>3, <2>4, FS_EmptySet
  <2> QED
    BY <1>2, <1>3, <2>1, <2>2, <2>5, VehiclesAssumption DEF SpawnOK
<1>14. QueueCountsCars'
  <2>1. \A s : Waiting(cars', s) = Waiting(cars, s)
    <3> SUFFICES ASSUME NEW s
                 PROVE  Waiting(cars', s) = Waiting(cars, s)
      OBVIOUS
    <3>1. \A v \in new : v \notin Waiting(cars', s) /\ v \notin Waiting(cars, s)
      BY <1>5, <1>6 DEF Waiting, Active
    <3>2. \A v \in Cars \ new : v \in Waiting(cars', s) <=> v \in Waiting(cars, s)
      BY <1>5 DEF Waiting, Exists
    <3> QED
      BY <3>1, <3>2, WaitingCars
  <2> QED
    BY <1>1, <2>1 DEF CarInv, CarsOK, QueueCountsCars
<1>15. \A v \in Active' : RowOK(cars'[v])
  BY <1>5, <1>6, <1>12 DEF CarInv, CarsOK, Active
<1>16. CarsOK'
  BY <1>13, <1>14, <1>15 DEF CarsOK
<1> QED
  BY <1>1, <1>9, <1>10, <1>16, SessionEnds

LEMMA AbortStep == CarInv /\ TickAbort => CarInv'
<1> SUFFICES ASSUME CarInv, TickAbort
             PROVE  CarInv'
  OBVIOUS
<1>1. /\ tick' = None /\ Release(Tick)
      /\ UNCHANGED <<balance, ledger, owner, liters, cars, queue, stranded, turn, credit>>
  BY DEF TickAbort, Fail
<1>2. RowsTyped' /\ CarsOK'
  BY <1>1 DEF CarInv, RowsTyped, CarsOK, Active, QueueCountsCars
<1>3. LocksOK'
  BY <1>1, TickReleases DEF CarInv
<1> QED
  BY <1>1, <1>2, <1>3, SessionEnds

\* A restart deletes the cars that wait, and the counters keep counting them.
LEMMA RestartStep == CarInv /\ Restart => CarInv'
<1> SUFFICES ASSUME CarInv, Restart
             PROVE  CarInv'
  OBVIOUS
<1>1. /\ tick' = None /\ held' = [r \in Sessions |-> {}]
      /\ turn' = "spawn" /\ credit' = 0
      /\ UNCHANGED <<balance, ledger, owner, liters, queue>>
      /\ stranded' = [s \in Stations |-> stranded[s] + Cardinality(Waiting(cars, s))]
  BY DEF Restart, Fail
<1>2. PICK kept \in SUBSET {v \in Active : cars[v].status = "DRIVING"} :
        cars' = [v \in Cars |-> IF v \in kept THEN cars[v] ELSE None]
  BY DEF Restart
<1>3. \A s : Waiting(cars, s) \in SUBSET Cars
  BY WaitingCars
<1>4. stranded' \in [Stations -> Nat]
  <2>1. \A s \in Stations : stranded[s] \in Nat /\ Cardinality(Waiting(cars, s)) \in Nat
    BY <1>3, CarSets DEF CarInv, RowsTyped
  <2> QED
    BY <1>1, <2>1
<1>5. /\ \A v \in Cars : cars'[v] = None \/ (v \in kept /\ cars'[v] = cars[v])
      /\ cars' \in [Cars -> CarRows \cup {None}]
  BY <1>2 DEF CarInv, RowsTyped
<1>6. RowsTyped'
  <2>1. 0 \in 0 .. MaxCredit
    BY VehiclesAssumption
  <2> QED
    BY <1>1, <1>4, <1>5, <2>1 DEF CarInv, RowsTyped
<1>7. LocksOK'
  BY <1>1 DEF LocksOK
<1>8. Active' \subseteq kept /\ \A v \in Active' : cars'[v] = cars[v]
  BY <1>5 DEF Active, Exists
<1>9. kept \subseteq Active /\ \A v \in kept : cars[v].status = "DRIVING"
  OBVIOUS
<1>10. \A v \in Active' : RowOK(cars'[v])
  BY <1>8, <1>9 DEF CarInv, CarsOK
<1>11. Cardinality(Active') <= MaxActive
  <2>1. IsFiniteSet(Active) /\ Cardinality(Active) \in Nat /\ Cardinality(Active) <= MaxActive
    BY ActiveLimit DEF CarInv
  <2>2. Cardinality(Active') <= Cardinality(Active) /\ Cardinality(Active') \in Nat
    BY <1>8, <1>9, <2>1, FS_Subset, FS_CardinalityType
  <2> QED
    BY <2>1, <2>2, VehiclesAssumption
<1>12. \A s : Waiting(cars', s) = {}
  <2> SUFFICES ASSUME NEW s, NEW v \in Cars, Exists(cars', v), cars'[v].status = "REFUELING"
               PROVE  FALSE
    BY DEF Waiting
  <2>1. v \in kept /\ cars'[v] = cars[v]
    BY <1>5 DEF Exists
  <2> QED
    BY <1>9, <2>1
<1>13. QueueCountsCars'
  <2> SUFFICES ASSUME NEW s \in Stations
               PROVE  /\ queue'[s] = Cardinality(Waiting(cars', s)) + stranded'[s]
                      /\ queue'[s] <= MaxQueue
    BY DEF QueueCountsCars
  <2>1. /\ queue[s] = Cardinality(Waiting(cars, s)) + stranded[s] /\ queue[s] <= MaxQueue
        /\ stranded[s] \in Nat /\ Cardinality(Waiting(cars, s)) \in Nat
    BY <1>3, CarSets DEF CarInv, CarsOK, RowsTyped, QueueCountsCars
  <2>2. Cardinality(Waiting(cars', s)) = 0
    BY <1>12, FS_EmptySet
  <2>3. stranded'[s] = stranded[s] + Cardinality(Waiting(cars, s))
    BY <1>1
  <2> QED
    BY <1>1, <2>1, <2>2, <2>3
<1>14. CarsOK'
  BY <1>10, <1>11, <1>13 DEF CarsOK
<1> QED
  BY <1>1, <1>6, <1>7, <1>14, SessionEnds

\* The locks of a request are not the scheduler's.
LEMMA RequestLocks ==
    ASSUME LocksOK, NEW r \in Requests,
           \/ \E row : Free(r, row) /\ Take(r, {row})
           \/ Release(r)
    PROVE  LocksOK' /\ held'[Tick] = held[Tick]
<1>1. r \in Sessions /\ Tick \in Sessions /\ r # Tick
  BY StoreAssumption DEF Sessions
<1>2. CASE Release(r)
  <2>1. /\ held'[r] = {}
        /\ \A w \in Sessions \ {r} : held'[w] = held[w]
        /\ held' = [w \in Sessions |-> held'[w]]
    BY <1>1, <1>2 DEF Release, LocksOK
  <2> QED
    BY <1>1, <2>1 DEF LocksOK
<1>3. ASSUME NEW row, Free(r, row), Take(r, {row})
      PROVE  LocksOK' /\ held'[Tick] = held[Tick]
  <2>1. /\ held'[r] = held[r] \cup {row}
        /\ \A w \in Sessions \ {r} : held'[w] = held[w] /\ row \notin held[w]
        /\ held' = [w \in Sessions |-> held'[w]]
    BY <1>1, <1>3 DEF Free, Take, LocksOK
  <2> QED
    BY <1>1, <2>1 DEF LocksOK
<1> QED
  BY <1>2, <1>3

LEMMA RequestChanges ==
    ASSUME CarInv, NEW r \in Requests, RequestStep(r)
    PROVE  CarInv'
<1>1. UNCHANGED <<cars, queue, stranded, tick, turn, credit, owner>>
  BY DEF RequestStep, RequestPlayer, RequestTank, RequestCommit, RequestAbort, carVars
<1>2. LocksOK' /\ held'[Tick] = held[Tick]
  BY RequestLocks DEF RequestStep, RequestPlayer, RequestTank, RequestCommit, RequestAbort, CarInv
<1>3. CASE RequestCommit(r)
  <2>1. PICK p \in Players, s \in Stations :
          /\ {PlayerRow(p), FuelRow(s)} \subseteq held[r]
          /\ \E amount \in {-1, 1} :
              /\ balance[p] + amount \in 0 .. MaxMoney
              /\ balance' = [balance EXCEPT ![p] = @ + amount]
              /\ Post(p, amount)
          /\ \E level \in 0 .. Capacity : liters' = [liters EXCEPT ![s] = level]
    BY <1>3 DEF RequestCommit
  <2>2. PICK amount \in {-1, 1} :
          /\ balance[p] + amount \in 0 .. MaxMoney
          /\ balance' = [balance EXCEPT ![p] = @ + amount]
          /\ Post(p, amount)
    BY <2>1
  <2>3. PICK level \in 0 .. Capacity : liters' = [liters EXCEPT ![s] = level]
    BY <2>1
  <2>4. /\ balance \in [Players -> Nat] /\ ledger \in [Players -> Int]
        /\ \A q \in Players : balance[q] = ledger[q]
        /\ liters \in [Stations -> 0 .. Capacity]
    BY DEF CarInv, RowsTyped
  <2>5. balance[p] + amount \in Nat /\ ledger[p] + amount \in Int
    BY <2>2, <2>4, VehiclesAssumption
  <2>6. balance' \in [Players -> Nat] /\ ledger' \in [Players -> Int]
    BY <2>2, <2>4, <2>5 DEF Post
  <2>7. \A q \in Players : balance'[q] = ledger'[q]
    BY <2>2, <2>4 DEF Post
  <2>8. liters' \in [Stations -> 0 .. Capacity]
    BY <2>3, <2>4
  <2>9. RowsTyped'
    BY <1>1, <2>6, <2>7, <2>8 DEF CarInv, RowsTyped
  <2>10. FuelRow(s) \notin held[Tick]
    <3>1. r \in Sessions /\ Tick \in Sessions /\ r # Tick
      BY StoreAssumption DEF Sessions
    <3> QED
      BY <2>1, <3>1 DEF CarInv, LocksOK
  <2>11. \A x \in Stations : FuelRow(x) \in held[Tick] => liters'[x] = liters[x]
    BY <2>3, <2>4, <2>10
  <2> QED
    BY <1>1, <1>2, <2>9, <2>11, OthersStep
<1>4. CASE ~RequestCommit(r)
  <2>1. UNCHANGED <<balance, ledger, liters>>
    BY <1>4 DEF RequestStep, RequestPlayer, RequestTank, RequestAbort
  <2>2. RowsTyped'
    BY <1>1, <2>1 DEF CarInv, RowsTyped
  <2> QED
    BY <1>1, <1>2, <2>1, <2>2, OthersStep
<1> QED
  BY <1>3, <1>4

LEMMA OwnerChanges ==
    ASSUME CarInv, NEW s \in Stations, StationChangesHands(s)
    PROVE  CarInv'
<1>1. UNCHANGED <<balance, ledger, liters, held, cars, queue, stranded, tick, turn, credit>>
  BY DEF StationChangesHands, carVars
<1>2. owner' \in [Stations -> Players \cup {None}]
  BY DEF StationChangesHands, CarInv, RowsTyped
<1>3. RowsTyped'
  BY <1>1, <1>2 DEF CarInv, RowsTyped
<1>4. LocksOK'
  BY <1>1 DEF CarInv, LocksOK
<1> QED
  BY <1>1, <1>3, <1>4, OthersStep

LEMMA CarStutter == CarInv /\ UNCHANGED vars => CarInv'
<1> SUFFICES ASSUME CarInv, UNCHANGED vars
             PROVE  CarInv'
  OBVIOUS
<1>1. UNCHANGED <<balance, ledger, owner, liters, held, cars, queue, stranded, tick, turn, credit>>
  BY DEF vars
<1>2. RowsTyped' /\ LocksOK'
  BY <1>1 DEF CarInv, RowsTyped, LocksOK
<1> QED
  BY <1>1, <1>2, OthersStep

LEMMA CarInit == VehiclesInit => CarInv
<1> SUFFICES ASSUME VehiclesInit
             PROVE  CarInv
  OBVIOUS
<1>1. RowsTyped
  BY StoreAssumption, VehiclesAssumption DEF VehiclesInit, RowsTyped
<1>2. LocksOK
  BY DEF VehiclesInit, LocksOK
<1>3. Active = {}
  BY DEF VehiclesInit, Active, Exists
<1>4. \A s : Waiting(cars, s) = {}
  BY DEF VehiclesInit, Waiting, Exists
<1>5. QueueCountsCars
  <2>1. \A s \in Stations : queue[s] = 0 /\ stranded[s] = 0
    BY DEF VehiclesInit
  <2>2. Cardinality({}) = 0 /\ 0 <= MaxQueue
    BY FS_EmptySet, VehiclesAssumption
  <2> QED
    BY <1>4, <2>1, <2>2 DEF QueueCountsCars
<1>6. CarsOK
  BY <1>3, <1>5, FS_EmptySet, VehiclesAssumption DEF CarsOK
<1>7. SessionInv
  BY DEF VehiclesInit, SessionInv
<1> QED
  BY <1>1, <1>2, <1>6, <1>7 DEF CarInv

LEMMA CarNext == CarInv /\ [VehiclesNext]_vars => CarInv'
<1> SUFFICES ASSUME CarInv, [VehiclesNext]_vars
             PROVE  CarInv'
  OBVIOUS
<1>1. CASE SchedulerStep
  <2>1. CASE SpawnRead
    BY <2>1, SpawnReadStep
  <2>2. CASE SpawnCommit
    BY <2>2, SpawnCommitStep
  <2>3. CASE UpdateBegin
    BY <2>3, UpdateBeginStep
  <2>4. CASE UpdateDrive
    BY <2>4, UpdateDriveStep
  <2>5. CASE UpdateCommit
    BY <2>5, UpdateCommitStep
  <2>6. ASSUME NEW v \in Cars,
               \/ ServeStation(v) \/ ServeTank(v) \/ Arrive(v) \/ ReachStation(v)
               \/ \E price \in Prices : ServePlayer(v, price)
        PROVE  CarInv'
    BY <2>6, ServeStationStep, ServeTankStep, ArriveStep, ReachStationStep, ServePlayerStep
  <2> QED
    BY <1>1, <2>1, <2>2, <2>3, <2>4, <2>5, <2>6 DEF SchedulerStep
<1>2. CASE TickAbort \/ Restart
  BY <1>2, AbortStep, RestartStep
<1>3. CASE \E r \in Requests : RequestStep(r)
  BY <1>3, RequestChanges
<1>4. CASE \E s \in Stations : StationChangesHands(s)
  BY <1>4, OwnerChanges
<1>5. CASE UNCHANGED vars
  BY <1>5, CarStutter
<1> QED
  BY <1>1, <1>2, <1>3, <1>4, <1>5 DEF VehiclesNext

-----------------------------------------------------------------------------

\* What the copies of an update are worth, and the rows with them, holds in every
\* reachable state: the queue counters and the locks of vehicles.py:510-660.
THEOREM CarsInductive == VehiclesSpec => []CarInv
<1>1. VehiclesInit => CarInv
  BY CarInit
<1>2. CarInv /\ [VehiclesNext]_vars => CarInv'
  BY CarNext
<1> QED
  BY <1>1, <1>2, PTL DEF VehiclesSpec

\* Rows and memory stay in their ranges: never more cars than allowed, no budget
\* overspent by more than half the price of a unit of fuel and half a cent, although
\* the liters and then their price are rounded; no negative balance or tank.
THEOREM CarTypesCorrect == VehiclesSpec => []VehiclesTypeOK
<1>1. CarInv => VehiclesTypeOK
  BY DEF CarInv, RowsTyped, CarsOK, RowOK, Solvent, VehiclesTypeOK
<1> QED
  BY <1>1, CarsInductive, PTL

\* queue_length is the number of cars standing at the station and of those deleted
\* there by restarts (map_import_service.py:230), and within the limit.
THEOREM QueuesAreCounted == VehiclesSpec => []QueueCountsCars
<1>1. CarInv => QueueCountsCars
  BY DEF CarInv, CarsOK
<1> QED
  BY <1>1, CarsInductive, PTL

\* What an update has sold is in the tank until it commits; balances follow the journal.
THEOREM SalesCovered == VehiclesSpec => []SalesAreCovered
<1>1. CarInv => SalesAreCovered
  <2> SUFFICES ASSUME CarInv
               PROVE  SalesAreCovered
    OBVIOUS
  <2>1. \A s \in Stations : liters[s] >= 0
    BY StoreAssumption DEF CarInv, RowsTyped
  <2>2. \A p \in Players : balance[p] = ledger[p]
    BY DEF CarInv, RowsTyped
  <2>3. tick # None /\ tick.at \in {"serve", "drive"} =>
           \A s \in Stations : tick.sold[s] <= liters[s]
    BY DEF CarInv, SessionInv, UpdateOK, SoldOK
  <2> QED
    BY <2>1, <2>2, <2>3 DEF SalesAreCovered
<1> QED
  BY <1>1, CarsInductive, PTL

\* A station that has sold something in the open update keeps its owner until the
\* update has ended: the sale is paid to the owner who made it.
THEOREM OwnersArePaid == VehiclesSpec => OwnerIsPaid
<1> DEFINE Kept == \A s \in Stations :
                      /\ tick # None /\ tick.at \in {"serve", "drive"} /\ tick.sold[s] > 0
                      => owner'[s] = owner[s]
<1>1. CarInv /\ [VehiclesNext]_vars => [Kept]_vars
  <2> SUFFICES ASSUME CarInv, VehiclesNext
               PROVE  Kept
    OBVIOUS
  <2> SUFFICES ASSUME NEW s \in Stations,
                      tick # None, tick.at \in {"serve", "drive"}, tick.sold[s] > 0
               PROVE  owner'[s] = owner[s]
    OBVIOUS
  <2>1. StationRow(s) \in held[Tick]
    BY DEF CarInv, SessionInv, UpdateOK, SoldOK
  <2>2. CASE UNCHANGED owner
    BY <2>2
  <2>3. ASSUME NEW x \in Stations, StationChangesHands(x)
        PROVE  owner'[s] = owner[s]
    <3>1. x # s
      BY <2>1, <2>3 DEF StationChangesHands
    <3>2. PICK p \in Players : owner' = [owner EXCEPT ![x] = p]
      BY <2>3 DEF StationChangesHands
    <3> QED
      BY <3>1, <3>2 DEF CarInv, RowsTyped
  <2>4. SchedulerStep => UNCHANGED owner
    <3>1. SpawnRead \/ SpawnCommit \/ UpdateBegin \/ UpdateDrive => UNCHANGED owner
      BY DEF SpawnRead, SpawnCommit, UpdateBegin, UpdateDrive, storeVars
    <3>2. UpdateCommit => UNCHANGED owner
      BY Zenon DEF UpdateCommit
    <3>3. ASSUME NEW v \in Cars
          PROVE  ServeStation(v) \/ ServeTank(v) \/ ReachStation(v) => UNCHANGED owner
      BY Zenon DEF ServeStation, ServeTank, ReachStation
    <3>4. ASSUME NEW v \in Cars
          PROVE  Arrive(v) => UNCHANGED owner
      BY DEF Arrive, storeVars
    <3>5. ASSUME NEW v \in Cars, NEW price \in Prices
          PROVE  ServePlayer(v, price) => UNCHANGED owner
      BY Zenon DEF ServePlayer
    <3> QED
      BY <3>1, <3>2, <3>3, <3>4, <3>5 DEF SchedulerStep
  <2>5. TickAbort \/ Restart => UNCHANGED owner
    BY DEF TickAbort, Restart, Fail
  <2>6. \A r \in Requests : RequestStep(r) => UNCHANGED owner
    BY DEF RequestStep, RequestPlayer, RequestTank, RequestCommit, RequestAbort
  <2> QED
    BY <2>2, <2>3, <2>4, <2>5, <2>6 DEF VehiclesNext
<1> QED
  BY <1>1, CarsInductive, PTL DEF VehiclesSpec, OwnerIsPaid
=============================================================================
