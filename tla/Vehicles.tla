------------------------------ MODULE Vehicles ------------------------------
(***************************************************************************)
(* Simulated cars of one game and the queues at its stations               *)
(* (simulation/vehicles.py): spawn_vehicles_for_game, then                 *)
(* update_vehicles_for_game, once per tick cycle, each in its own session. *)
(*                                                                         *)
(* A session of the scheduler works on copies of the rows and writes them  *)
(* at its commit; what it has not locked, requests change meanwhile.  One  *)
(* action is one locking statement with the checks and writes after it.    *)
(* Where a car is on its way is left to Traffic: here it is before its     *)
(* station's stop, waiting at it, or past it.  One fuel type; fuel and     *)
(* money are counted in the units the code rounds both to, hundredths of a *)
(* liter and cents.  Ratings and scores only weigh the choice of a         *)
(* station, which is left open.                                            *)
(***************************************************************************)
EXTENDS GameStore, FiniteSets

CONSTANTS
    Cars,         \* ids of vehicles rows: bounds how many there are at once
    MaxActive,    \* settings.max_active_vehicles
    MaxQueue,     \* settings.vehicle_max_queue_length
    PerLiter,     \* units of fuel in a liter: 100 in the code
    Needs,        \* tank_capacity_liters - fuel_liters of a new car
    Budgets,      \* budget of a new car
    Prices,       \* station_fuel.retail_price while the car is served
    Extras,       \* ancillary revenue: shop, food court, car wash
    MaxCredit,    \* bounds the spawn accumulator
    MaxMoney,     \* bounds what requests pay in
    MaxFailures   \* bounds failures and restarts of the scheduler's sessions

ASSUME VehiclesAssumption ==
    /\ IsFiniteSet(Cars)
    /\ None \notin Cars \cup (Cars \X Prices)
    /\ Cars \cap (Cars \X Prices) = {}
    /\ MaxActive \in Nat \ {0}
    /\ MaxQueue \in Nat \ {0}
    /\ PerLiter \in Nat \ {0}
    /\ Needs \subseteq Nat
    /\ Budgets \subseteq Nat
    /\ Prices \subseteq Nat /\ Prices # {}
    /\ Extras \subseteq Nat
    /\ MaxCredit \in Nat
    /\ MaxMoney \in Nat
    /\ MaxFailures \in Nat

VARIABLES
    cars,      \* vehicles rows
    queue,     \* game_stations.queue_length
    tick,      \* the open session of the scheduler, or None
    turn,      \* what the scheduler's cycle does next for the game
    credit,    \* _spawn_accumulator[game_id], whole cars
    seen,      \* whether _last_spawn_check knows the game
    failures,  \* failures so far
    stranded   \* history: how many waiting cars restarts have deleted

carVars == <<cars, queue, tick, turn, credit, seen, failures, stranded>>
vars == <<gameStatus, balance, ledger, owner, liters, held,
          cars, queue, tick, turn, credit, seen, failures, stranded>>

CarRows == [status: {"DRIVING", "REFUELING"},
            station: Stations \cup {None},     \* chosen_station_id
            need: Int, budget: Int]

ASSUME NoneIsNoCar == None \notin CarRows

\* An update works on copies of the rows it will write, and on what it sells.
NewUpdate(todo) ==
    [at |-> "serve", todo |-> todo, car |-> None, cars |-> cars, queue |-> queue,
     sold |-> [s \in Stations |-> 0], earned |-> [p \in Players |-> 0]]

\* A spawn has counted the new cars and read the stations they may choose.
NewSpawn(count) ==
    [at |-> "spawn", count |-> count,
     stations |-> {s \in Stations : owner[s] # None /\ liters[s] > 0}]

Exists(rows, v) == rows[v] # None

Waiting(rows, s) ==
    {v \in Cars : Exists(rows, v) /\ rows[v].status = "REFUELING" /\ rows[v].station = s}

VehiclesInit ==
    /\ gameStatus = "RUNNING"
    /\ balance = [p \in Players |-> StartBalance]
    /\ ledger = balance
    /\ owner = [s \in Stations |-> None]
    /\ liters = [s \in Stations |-> StartLiters]
    /\ held = [s \in Sessions |-> {}]
    /\ cars = [v \in Cars |-> None]
    /\ queue = [s \in Stations |-> 0]
    /\ tick = None
    /\ turn = "spawn"
    /\ credit = 0
    /\ seen = FALSE
    /\ failures = 0
    /\ stranded = [s \in Stations |-> 0]

-----------------------------------------------------------------------------
(* spawn_vehicles_for_game.                                                *)

Active == {v \in Cars : Exists(cars, v)}

Room == MaxActive - Cardinality(Active)

Least(a, b) == IF a < b THEN a ELSE b

SpawnCount(room, earned) == Least(room, earned)

\* The first check after a start of the process, and a check without room,
\* only remember the time; otherwise the elapsed time earns credit.
SpawnRead ==
    /\ turn = "spawn" /\ tick = None
    /\ turn' = "update"
    /\ seen' = TRUE
    /\ IF ~seen \/ Room <= 0 \/ \E p \in Players : balance[p] > MaxMoney
       THEN UNCHANGED <<tick, credit>>
       ELSE \E earned \in credit .. MaxCredit :
              LET count == SpawnCount(Room, earned)
              IN  /\ credit' = earned - count
                  /\ tick' = IF count = 0 THEN None ELSE NewSpawn(count)
    /\ UNCHANGED <<storeVars, cars, queue, failures, stranded>>

\* A car that finds no road is dropped; one that needs fuel may choose any of
\* the stations that had an owner and fuel when the session read them.
SpawnCommit ==
    /\ tick # None /\ tick.at = "spawn"
    /\ \E new \in SUBSET (Cars \ Active) :
        /\ Cardinality(new) <= tick.count
        /\ \E station \in [new -> tick.stations \cup {None}], need \in Needs, budget \in Budgets :
            cars' = [v \in Cars |->
                IF v \in new
                THEN [status |-> "DRIVING", station |-> station[v], need |-> need, budget |-> budget]
                ELSE cars[v]]
    /\ tick' = None
    /\ UNCHANGED <<storeVars, queue, turn, credit, seen, failures, stranded>>

-----------------------------------------------------------------------------
(* update_vehicles_for_game: first every car whose station_departure_at    *)
(* has passed completes its purchase, in the order of the rows.            *)

UpdateBegin ==
    /\ turn = "update" /\ tick = None
    /\ turn' = "spawn"
    /\ \E over \in SUBSET {v \in Active : cars[v].status = "REFUELING"} : tick' = NewUpdate(over)
    /\ UNCHANGED <<storeVars, cars, queue, credit, seen, failures, stranded>>

Serving(v) == tick # None /\ tick.at = "serve" /\ tick.car = v

\* The car leaves the pump, with or without a purchase.
Resume(t, v) ==
    [t EXCEPT !.car = None, !.todo = @ \ {v},
              !.cars[v] = [@ EXCEPT !.status = "DRIVING", !.station = None]]

\* Fault: the rows are read without a lock.
LockNothing(row) == UNCHANGED held

\* A request's UPDATE or FOR UPDATE and the scheduler's wait for each other.
Lock(row) == Free(Tick, row) /\ Take(Tick, {row})

\* Fault: the counter is left alone.
StayInQueue(q) == q

LeaveQueue(q) == IF q > 0 THEN q - 1 ELSE 0

ServeStation(v) ==
    /\ Serving(None) /\ v \in tick.todo
    /\ LET s == cars[v].station
           left == [tick EXCEPT !.queue[s] = LeaveQueue(@)]
       IN  /\ Lock(StationRow(s))
           /\ tick' = IF owner[s] = None THEN Resume(left, v) ELSE [left EXCEPT !.car = v]
    /\ UNCHANGED <<gameStatus, balance, ledger, owner, liters,
                   cars, queue, turn, credit, seen, failures, stranded>>

Stock(t, s) == liters[s] - t.sold[s]

\* x / y, where half a unit rounds up.
Rounded(x, y) == (2 * x + y) \div (2 * y)

\* Fault: any fraction rounds up.
AffordableRoundedUp(budget, price) ==
    IF price = 0 THEN 0 ELSE (budget * PerLiter + price - 1) \div price

Affordable(budget, price) == IF price = 0 THEN 0 ELSE Rounded(budget * PerLiter, price)

\* The price of the amount is rounded as well.
Total(amount, price) == Rounded(amount * price, PerLiter)

Purchasable(t, v, price) ==
    Least(t.cars[v].need, Least(Stock(t, cars[v].station), Affordable(t.cars[v].budget, price)))

\* Without fuel, or when nothing can be bought, the car leaves before the
\* owner's row is locked; otherwise the price that was read stays with the sale.
ServeTank(v) ==
    /\ Serving(v) /\ v \in Cars
    /\ LET s == cars[v].station
       IN  /\ Lock(FuelRow(s))
           /\ \E price \in Prices :
                tick' = IF Stock(tick, s) <= 0 \/ Purchasable(tick, v, price) <= 0
                        THEN Resume(tick, v)
                        ELSE [tick EXCEPT !.car = <<v, price>>]
    /\ UNCHANGED <<gameStatus, balance, ledger, owner, liters,
                   cars, queue, turn, credit, seen, failures, stranded>>

ServePlayer(v, price) ==
    /\ Serving(<<v, price>>)
    /\ LET s == cars[v].station
           amount == Purchasable(tick, v, price)
           total == Total(amount, price)
       IN  /\ Lock(PlayerRow(owner[s]))
           /\ \E extra \in Extras :
                tick' = Resume([tick EXCEPT
                            !.sold[s] = @ + amount,
                            !.earned[owner[s]] = @ + total + extra,
                            !.cars[v].need = @ - amount,
                            !.cars[v].budget = @ - total], v)
    /\ UNCHANGED <<gameStatus, balance, ledger, owner, liters,
                   cars, queue, turn, credit, seen, failures, stranded>>

-----------------------------------------------------------------------------
(* Then the cars that were driving when the tick began move.               *)

UpdateDrive ==
    /\ Serving(None) /\ tick.todo = {}
    /\ tick' = [tick EXCEPT !.at = "drive",
                            !.todo = {v \in Active : cars[v].status = "DRIVING"}]
    /\ UNCHANGED <<storeVars, cars, queue, turn, credit, seen, failures, stranded>>

Driving(v) == tick # None /\ tick.at = "drive" /\ v \in tick.todo

\* The row of a car that reaches its destination is deleted, also of one whose
\* chosen station stands at that destination: it has no edge beyond the stop.
Arrive(v) ==
    /\ Driving(v)
    /\ tick' = [tick EXCEPT !.todo = @ \ {v}, !.cars[v] = None]
    /\ UNCHANGED <<storeVars, cars, queue, turn, credit, seen, failures, stranded>>

\* Fault: one car too many may wait.
OverFull(q) == q > MaxQueue

Full(q) == q >= MaxQueue

\* A car that passes its station joins the queue, or drives on when it is full.
ReachStation(v) ==
    /\ Driving(v) /\ cars[v].station # None
    /\ LET s == cars[v].station
       IN  /\ Lock(StationRow(s))
           /\ tick' = IF Full(tick.queue[s])
                      THEN [tick EXCEPT !.todo = @ \ {v}, !.cars[v].station = None]
                      ELSE [tick EXCEPT !.todo = @ \ {v}, !.queue[s] = @ + 1,
                                        !.cars[v].status = "REFUELING"]
    /\ UNCHANGED <<gameStatus, balance, ledger, owner, liters,
                   cars, queue, turn, credit, seen, failures, stranded>>

\* The cars left in todo have moved within their edge or not at all.
UpdateCommit ==
    /\ tick # None /\ tick.at = "drive"
    /\ cars' = tick.cars
    /\ queue' = tick.queue
    /\ liters' = [s \in Stations |-> liters[s] - tick.sold[s]]
    /\ balance' = [p \in Players |-> balance[p] + tick.earned[p]]
    /\ ledger' = [p \in Players |-> ledger[p] + tick.earned[p]]
    /\ Release(Tick)
    /\ tick' = None
    /\ UNCHANGED <<gameStatus, owner, turn, credit, seen, failures, stranded>>

-----------------------------------------------------------------------------
(* Failures: a statement fails and the session rolls back; the process is  *)
(* restarted, forgets what the module kept in memory, and rebuilds the     *)
(* road graph.                                                             *)

Fail ==
    /\ failures < MaxFailures
    /\ failures' = failures + 1
    /\ tick' = None
    /\ UNCHANGED <<gameStatus, balance, ledger, owner, liters, queue>>

TickAbort ==
    /\ tick # None
    /\ Fail
    /\ Release(Tick)
    /\ UNCHANGED <<cars, turn, credit, seen, stranded>>

\* Every car that is on an edge is deleted with the edges, also one that waits: it
\* has stopped on an edge beyond its station's.  A car whose way has only one point
\* is on none.  The counters of the stations stay.
Restart ==
    /\ Fail
    /\ held' = [r \in Sessions |-> {}]
    /\ turn' = "spawn" /\ credit' = 0 /\ seen' = FALSE
    /\ \E kept \in SUBSET {v \in Active : cars[v].status = "DRIVING"} :
           cars' = [v \in Cars |-> IF v \in kept THEN cars[v] ELSE None]
    /\ stranded' = [s \in Stations |-> stranded[s] + Cardinality(Waiting(cars, s))]

-----------------------------------------------------------------------------
(* Requests on the same rows.  Orders lock the player, then the tank: the  *)
(* other way round than a purchase of fuel.  Only their effect on the rows *)
(* matters here: Trading and FuelOrders model what they do.                *)

RequestPlayer(r) ==
    /\ held[r] = {}
    /\ \E p \in Players : Free(r, PlayerRow(p)) /\ Take(r, {PlayerRow(p)})
    /\ UNCHANGED <<gameStatus, balance, ledger, owner, liters, carVars>>

RequestTank(r) ==
    /\ Cardinality(held[r]) = 1
    /\ \E s \in Stations : Free(r, FuelRow(s)) /\ Take(r, {FuelRow(s)})
    /\ UNCHANGED <<gameStatus, balance, ledger, owner, liters, carVars>>

RequestCommit(r) ==
    /\ \E p \in Players, s \in Stations :
        /\ {PlayerRow(p), FuelRow(s)} \subseteq held[r]
        /\ \E amount \in {-1, 1} :
            /\ balance[p] + amount \in 0 .. MaxMoney
            /\ balance' = [balance EXCEPT ![p] = @ + amount]
            /\ Post(p, amount)
        /\ \E level \in 0 .. Capacity : liters' = [liters EXCEPT ![s] = level]
    /\ Release(r)
    /\ UNCHANGED <<gameStatus, owner, carVars>>

RequestAbort(r) ==
    /\ held[r] # {}
    /\ Release(r)
    /\ UNCHANGED <<gameStatus, balance, ledger, owner, liters, carVars>>

\* The station is bought, or sold to another player.
StationChangesHands(s) ==
    /\ Free(Tick, StationRow(s)) /\ StationRow(s) \notin held[Tick]
    /\ \E p \in Players : owner' = [owner EXCEPT ![s] = p]
    /\ UNCHANGED <<gameStatus, balance, ledger, liters, held, carVars>>

-----------------------------------------------------------------------------

SchedulerStep ==
    \/ SpawnRead \/ SpawnCommit
    \/ UpdateBegin \/ UpdateDrive \/ UpdateCommit
    \/ \E v \in Cars :
        \/ ServeStation(v) \/ ServeTank(v) \/ Arrive(v) \/ ReachStation(v)
        \/ \E price \in Prices : ServePlayer(v, price)

RequestStep(r) == RequestPlayer(r) \/ RequestTank(r) \/ RequestCommit(r) \/ RequestAbort(r)

VehiclesNext ==
    \/ SchedulerStep
    \/ TickAbort \/ Restart
    \/ \E r \in Requests : RequestStep(r)
    \/ \E s \in Stations : StationChangesHands(s)

VehiclesSpec == VehiclesInit /\ [][VehiclesNext]_vars

\* The scheduler task goes on and its sessions fail only so often; a lock request
\* is queued, so it is granted when the requests before it have ended; while cars
\* wait, the departure time of some of them passes.
VehiclesFairSpec ==
    /\ VehiclesSpec
    /\ WF_vars(SchedulerStep)
    /\ SF_vars(\E v \in Cars, price \in Prices :
                   ServeStation(v) \/ ServeTank(v) \/ ServePlayer(v, price))
    /\ \A r \in Requests : WF_vars(RequestAbort(r))
    /\ SF_vars(UpdateBegin /\ tick'.todo # {})

-----------------------------------------------------------------------------
(* Properties. *)

\* Rows and memory stay in their ranges, whatever ticks fail and whenever the process
\* restarts: cars within the limit, although the accumulator keeps credit for which
\* there was no room; a budget overspent by no more than the price of half a unit of
\* fuel and half a cent, since the affordable amount and then its price are rounded
\* half up.
VehiclesTypeOK ==
    /\ Cardinality(Active) <= MaxActive
    /\ \A v \in Active : \E price \in Prices :
           2 * PerLiter * cars[v].budget >= -(price + PerLiter)
    /\ balance \in [Players -> Nat] /\ ledger \in [Players -> Int]
    /\ owner \in [Stations -> Players \cup {None}]
    /\ liters \in [Stations -> 0 .. Capacity]
    /\ cars \in [Cars -> CarRows \cup {None}]
    /\ queue \in [Stations -> Nat]
    /\ turn \in {"spawn", "update"}
    /\ credit \in 0 .. MaxCredit
    /\ stranded \in [Stations -> Nat]

\* The counter that cars, players and the economic tick read is the number of
\* cars standing at the station, and of those that a restart has deleted there,
\* and never above the limit: it is incremented and decremented in different
\* ticks, by handlers with four early returns, in sessions that may roll back
\* after a part of the cars.
QueueCountsCars ==
    \A s \in Stations :
        /\ queue[s] = Cardinality(Waiting(cars, s)) + stranded[s]
        /\ queue[s] <= MaxQueue

\* Money and fuel move under the locks of both sides: what a tick has sold is
\* still in the tank when it commits, and each balance is the sum of its journal.
SalesAreCovered ==
    /\ \A s \in Stations : liters[s] >= 0
    /\ \A p \in Players : balance[p] = ledger[p]
    /\ tick # None /\ tick.at \in {"serve", "drive"} =>
           \A s \in Stations : tick.sold[s] <= liters[s]

\* A sale is paid to the player who owns the station while it is made: nobody
\* buys the station between the car's payment and the owner's credit.
OwnerIsPaid ==
    [][\A s \in Stations :
           /\ tick # None /\ tick.at \in {"serve", "drive"} /\ tick.sold[s] > 0
           => owner'[s] = owner[s]]_vars

\* No station stays full with the same cars before its pumps: its queue has room
\* again and again, or cars leave it and others take their places.  Except when
\* restarts have deleted as many waiting cars as a queue may hold: nothing takes
\* them off the counter, and every car drives on.
QueuesMove ==
    \A s \in Stations :
        \/ []<>(queue[s] < MaxQueue)
        \/ []<><<\E v \in Waiting(cars, s) : v \notin Waiting(cars', s)>>_vars
        \/ <>(stranded[s] = MaxQueue)
=============================================================================
