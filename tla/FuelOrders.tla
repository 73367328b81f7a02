----------------------------- MODULE FuelOrders -----------------------------
(***************************************************************************)
(* Ordering fuel from the refinery and having it delivered:                *)
(* create_fuel_order (services/fuel_order_service.py), the deliveries of   *)
(* update_trucks_for_game (simulation/trucks.py) and the incident that     *)
(* destroys refinery stock (services/event_service.py).                    *)
(*                                                                         *)
(* One action is one SQL statement with the checks that follow it, as in   *)
(* Trading.  Where a truck is and which stops it has reached is left open  *)
(* here: Trucks models it.                                                 *)
(*                                                                         *)
(* One refinery, one fuel type.  Stops of one order at the same tank share *)
(* a key, a lock, a check and a position in the code, so an order is given *)
(* by the liters for each station.                                         *)
(***************************************************************************)
EXTENDS GameStore, FiniteSets, Functions

CONSTANTS
    Orders,         \* ids of fuel_orders rows: bounds how many are created
    OrderOps,       \* operations the requests perform
    OrderVolumes,   \* liters of one stop
    UnitPrices,     \* purchase price per liter, with the events' multiplier
    DeliveryCosts,  \* delivery_cost, which depends on the route
    TruckCapacity,  \* settings.fuel_truck_capacity_liters
    PercentKept,    \* of the stock after an incident: 100 * (1 - stock_loss_ratio)
    StartStock,     \* settings.refinery_starting_stock_liters
    OrderOwner      \* owners when the modelled part of the game starts

ASSUME FuelOrdersAssumption ==
    /\ None \notin Orders
    /\ IsFiniteSet(Orders) /\ IsFiniteSet(Stations)
    /\ OrderOps \subseteq {"order", "incident"}
    /\ OrderVolumes \subseteq Nat \ {0}
    /\ UnitPrices \subseteq Nat
    /\ DeliveryCosts \subseteq Nat
    /\ TruckCapacity \in Nat
    /\ PercentKept \in 0 .. 100
    /\ StartStock \in Nat
    /\ OrderOwner \in [Stations -> Players \cup {None}]

VARIABLES
    stock,      \* refinery_fuel.current_liters
    reserved,   \* station_fuel.reserved_liters
    orders,     \* fuel_orders rows with their stops
    oreq,       \* what the session of each request remembers
    moving,     \* orders whose trucks the running truck tick has selected
    drops,      \* stops that tick has served and not committed
    unload      \* liters it has added to the tanks and not committed

supplyVars == <<stock, reserved, orders, oreq, moving, drops, unload>>
orderVars == <<gameStatus, balance, ledger, owner, liters, held,
               stock, reserved, orders, oreq, moving, drops, unload>>

-----------------------------------------------------------------------------
(* Rows and sessions. *)

Loads == [Stations -> OrderVolumes \cup {0}]

Total(load) == FoldFunction(+, 0, load)

Stops(load) == {s \in Stations : load[s] > 0}

\* A fuel_orders row, its fuel_order_stops and the status of its truck, which
\* changes together with the order's.  A stop that is not pending is delivered.
OrderRecords ==
    [status : {"IN_TRANSIT", "DELIVERED"}, player : Players, cost : Nat,
     stops : Loads, pending : SUBSET Stations]

NoOrder == [status |-> "none", pending |-> {}]

Placed(o) == orders[o].status # "none"

OrderPcs == {"idle", "player", "stations", "tanks", "refinery", "funds",
             "insert", "spoil"}

OrderSessions ==
    [pc : OrderPcs, actor : Players \cup {None}, stops : Loads, total : 0 .. TruckCapacity,
     todo : SUBSET Stations, cost : Nat, seen : Int]

NoLoad == [s \in Stations |-> 0]

IdleOrder == [pc |-> "idle", actor |-> None, stops |-> NoLoad, total |-> 0,
              todo |-> {}, cost |-> 0, seen |-> 0]

OrderRows == ({"player"} \X Players) \cup ({"fuel"} \X Stations) \cup {RefineryRow}

OrderTypeOK ==
    /\ gameStatus \in {"RUNNING", "FINISHED"}
    /\ balance \in [Players -> Int]
    /\ ledger \in [Players -> Int]
    /\ owner \in [Stations -> Players \cup {None}]
    /\ liters \in [Stations -> Int]
    /\ held \in [Sessions -> SUBSET OrderRows]
    /\ stock \in Int
    /\ reserved \in [Stations -> Int]
    /\ orders \in [Orders -> OrderRecords \cup {NoOrder}]
    /\ oreq \in [Requests -> OrderSessions]
    /\ moving \subseteq Orders
    /\ drops \subseteq Orders \X Stations
    /\ unload \in [Stations -> Nat]

SupplyInit ==
    /\ stock = StartStock
    /\ reserved = NoLoad
    /\ orders = [o \in Orders |-> NoOrder]
    /\ oreq = [r \in Requests |-> IdleOrder]
    /\ moving = {}
    /\ drops = {}
    /\ unload = NoLoad

OrderInit ==
    /\ gameStatus = "RUNNING"
    /\ balance = [p \in Players |-> StartBalance]
    /\ ledger = [p \in Players |-> StartBalance]
    /\ owner = OrderOwner
    /\ liters = [s \in Stations |-> StartLiters]
    /\ held = [s \in Sessions |-> {}]
    /\ SupplyInit

-----------------------------------------------------------------------------
(* Shapes shared by the steps. *)

\* The session takes the rows and goes on if the check passes; otherwise the
\* service raises and the session rolls back.
Proceed(r, check, rows, next) ==
    /\ oreq' = [oreq EXCEPT ![r] = IF check THEN next ELSE IdleOrder]
    /\ held' = [held EXCEPT ![r] = IF check THEN @ \cup rows ELSE {}]

\* A read, or a write the session has not committed, changes no committed row.
NoRowWritten ==
    UNCHANGED <<gameStatus, balance, ledger, owner, liters, stock, reserved,
                orders, moving, drops, unload>>

-----------------------------------------------------------------------------
(* create_fuel_order *)

\* Bound: as many requests that insert an order as there are ids left.
RoomForOrder ==
    Cardinality({r \in Requests : oreq[r].total > 0})
        + Cardinality({o \in Orders : Placed(o)}) < Cardinality(Orders)

\* The game runs and the truck can carry the order.
OrderBegin(r) ==
    /\ oreq[r].pc = "idle"
    /\ "order" \in OrderOps
    /\ gameStatus = "RUNNING"
    /\ RoomForOrder
    /\ \E p \in Players, load \in Loads :
         /\ Total(load) \in 1 .. TruckCapacity
         /\ oreq' = [oreq EXCEPT ![r] =
                      [IdleOrder EXCEPT !.pc = "player", !.actor = p,
                         !.stops = load, !.total = Total(load)]]
    /\ NoRowWritten
    /\ UNCHANGED held

\* SELECT the player FOR UPDATE, for the first time in this session.
OrderLockPlayer(r) ==
    /\ oreq[r].pc = "player"
    /\ Free(r, PlayerRow(oreq[r].actor))
    /\ Proceed(r, TRUE, {PlayerRow(oreq[r].actor)},
               [oreq[r] EXCEPT !.pc = "stations", !.todo = Stops(oreq[r].stops)])
    /\ NoRowWritten

\* SELECT one station of the order, unlocked, and check its owner.
OrderCheckStation(r) ==
    /\ oreq[r].pc = "stations"
    /\ \E s \in oreq[r].todo :
         LET rest == oreq[r].todo \ {s}
         IN Proceed(r, owner[s] = oreq[r].actor, {},
                    [oreq[r] EXCEPT
                       !.pc   = IF rest = {} THEN "tanks" ELSE "stations",
                       !.todo = IF rest = {} THEN Stops(oreq[r].stops) ELSE rest])
    /\ NoRowWritten

\* Fault: the reservations are left out.
RoomForStock(load) ==
    \A s \in Stops(load) : liters[s] + load[s] <= Capacity

\* What is in the tank, what is on its way to it and what the order adds.
RoomFor(load) ==
    \A s \in Stops(load) : liters[s] + reserved[s] + load[s] <= Capacity

\* SELECT one tank FOR UPDATE; with the last one, the capacity of all.
OrderLockTank(r) ==
    /\ oreq[r].pc = "tanks"
    /\ \E s \in oreq[r].todo :
         LET rest == oreq[r].todo \ {s}
         IN /\ Free(r, FuelRow(s))
            /\ Proceed(r, rest = {} => RoomFor(oreq[r].stops), {FuelRow(s)},
                       [oreq[r] EXCEPT
                          !.pc   = IF rest = {} THEN "refinery" ELSE "tanks",
                          !.todo = rest])
    /\ NoRowWritten

\* Fault: the stock is read without a lock.
ReadRefinery(r) ==
    /\ oreq[r].pc = "refinery"
    /\ Proceed(r, stock >= oreq[r].total, {}, [oreq[r] EXCEPT !.pc = "funds"])
    /\ NoRowWritten

\* SELECT the refinery's stock FOR UPDATE.
OrderLockRefinery(r) ==
    /\ oreq[r].pc = "refinery"
    /\ Free(r, RefineryRow)
    /\ Proceed(r, stock >= oreq[r].total, {RefineryRow}, [oreq[r] EXCEPT !.pc = "funds"])
    /\ NoRowWritten

\* Fault: the delivery cost is left out of the check.
CheckFuelFunds(r) ==
    /\ oreq[r].pc = "funds"
    /\ \E price \in UnitPrices, delivery \in DeliveryCosts :
         Proceed(r, balance[oreq[r].actor] >= price * oreq[r].total, {},
                 [oreq[r] EXCEPT !.pc = "insert",
                    !.cost = price * oreq[r].total + delivery])
    /\ NoRowWritten

\* The route decides the price; no route ends the request, as OrderAbort does.
OrderCheckFunds(r) ==
    /\ oreq[r].pc = "funds"
    /\ \E price \in UnitPrices, delivery \in DeliveryCosts :
         LET cost == price * oreq[r].total + delivery
         IN Proceed(r, balance[oreq[r].actor] >= cost, {},
                    [oreq[r] EXCEPT !.pc = "insert", !.cost = cost])
    /\ NoRowWritten

\* Fault: every tank of the order gets the same reservation.
ReserveAlike(r) ==
    [s \in Stations |-> reserved[s] + (IF oreq[r].stops[s] > 0 THEN 1 ELSE 0)]

Reserve(r) == [s \in Stations |-> reserved[s] + oreq[r].stops[s]]

\* Payment, stock, reservations, order, stops and truck in one COMMIT.
OrderCommit(r) ==
    /\ oreq[r].pc = "insert"
    /\ LET p == oreq[r].actor IN
         /\ balance' = [balance EXCEPT ![p] = @ - oreq[r].cost]
         /\ Post(p, -oreq[r].cost)
         /\ \E o \in Orders :
              /\ ~Placed(o)
              /\ orders' = [orders EXCEPT ![o] =
                    [status |-> "IN_TRANSIT", player |-> p, cost |-> oreq[r].cost,
                     stops |-> oreq[r].stops, pending |-> Stops(oreq[r].stops)]]
    /\ stock' = stock - oreq[r].total
    /\ reserved' = Reserve(r)
    /\ oreq' = [oreq EXCEPT ![r] = IdleOrder]
    /\ Release(r)
    /\ UNCHANGED <<gameStatus, owner, liters, moving, drops, unload>>

\* No route, a timeout, a deadlock victim, a dropped client, a killed process.
OrderAbort(r) ==
    /\ oreq[r].pc # "idle"
    /\ Proceed(r, FALSE, {}, IdleOrder)
    /\ NoRowWritten

-----------------------------------------------------------------------------
(* create_event_for_game with a stock_loss_ratio *)

\* _reduce_refinery_stock: SELECT without a lock.
IncidentRead(r) ==
    /\ oreq[r].pc = "idle"
    /\ "incident" \in OrderOps
    /\ gameStatus = "RUNNING"
    /\ oreq' = [oreq EXCEPT ![r] = [IdleOrder EXCEPT !.pc = "spoil", !.seen = stock]]
    /\ NoRowWritten
    /\ UNCHANGED held

\* In units of the column's scale, to which the database rounds.
Remaining(read) == (read * PercentKept + 50) \div 100

\* The flush writes what remains of the stock that was read.
IncidentCommit(r) ==
    /\ oreq[r].pc = "spoil"
    /\ Free(r, RefineryRow)
    /\ stock' = Remaining(oreq[r].seen)
    /\ oreq' = [oreq EXCEPT ![r] = IdleOrder]
    /\ Release(r)
    /\ UNCHANGED <<gameStatus, balance, ledger, owner, liters, reserved, orders,
                   moving, drops, unload>>

-----------------------------------------------------------------------------
(* update_trucks_for_game, one transaction of the scheduler. *)

\* SELECT the trucks that are en route.
TruckSelect ==
    /\ gameStatus = "RUNNING"
    /\ moving = {}
    /\ moving' = {o \in Orders : orders[o].status = "IN_TRANSIT"}
    /\ moving' # {}
    /\ UNCHANGED <<gameStatus, balance, ledger, owner, liters, held, stock,
                   reserved, orders, oreq, drops, unload>>

\* Fault: stops that are not pending any more are served again.
UnloadAgain ==
    /\ \E o \in moving, s \in Stations :
         /\ orders[o].stops[s] > 0
         /\ <<o, s>> \notin drops
         /\ Free(Tick, FuelRow(s))
         /\ Take(Tick, {FuelRow(s)})
         /\ drops' = drops \cup {<<o, s>>}
         /\ unload' = [unload EXCEPT ![s] = @ + orders[o].stops[s]]
    /\ UNCHANGED <<gameStatus, balance, ledger, owner, liters, stock, reserved,
                   orders, oreq, moving>>

\* A truck has reached a pending stop: SELECT the tank FOR UPDATE and add to it.
\* create_fuel_order has seen the tank, and tanks are never deleted, so the
\* branch that marks the stop FAILED for want of a tank is not taken.
TruckUnload ==
    /\ \E o \in moving : \E s \in orders[o].pending :
         /\ <<o, s>> \notin drops
         /\ Free(Tick, FuelRow(s))
         /\ Take(Tick, {FuelRow(s)})
         /\ drops' = drops \cup {<<o, s>>}
         /\ unload' = [unload EXCEPT ![s] = @ + orders[o].stops[s]]
    /\ UNCHANGED <<gameStatus, balance, ledger, owner, liters, stock, reserved,
                   orders, oreq, moving>>

Left(o) == {s \in orders[o].pending : <<o, s>> \notin drops}

\* Fault: the reservation stays.
KeepReservation == reserved

ReleaseReservation == [s \in Stations |-> reserved[s] - unload[s]]

\* COMMIT.  Orders whose truck has arrived and has nothing left are complete.
TruckCommit ==
    /\ moving # {}
    /\ \E arrived \in SUBSET {o \in moving : Left(o) = {}} :
         orders' = [o \in Orders |->
            IF o \in moving
              THEN [orders[o] EXCEPT !.pending = Left(o),
                      !.status = IF o \in arrived THEN "DELIVERED" ELSE @]
              ELSE orders[o]]
    /\ liters' = [s \in Stations |-> liters[s] + unload[s]]
    /\ reserved' = ReleaseReservation
    /\ moving' = {}
    /\ drops' = {}
    /\ unload' = NoLoad
    /\ Release(Tick)
    /\ UNCHANGED <<gameStatus, balance, ledger, owner, stock, oreq>>

\* The step fails or the process restarts: everything is rolled back, and the
\* trucks of this tick are advanced by the next one.
TruckAbort ==
    /\ moving # {}
    /\ moving' = {}
    /\ drops' = {}
    /\ unload' = NoLoad
    /\ Release(Tick)
    /\ UNCHANGED <<gameStatus, balance, ledger, owner, liters, stock, reserved,
                   orders, oreq>>

\* maybe_finish_game, at the start of a tick cycle.
OrderFinishGame ==
    /\ gameStatus = "RUNNING"
    /\ moving = {}
    /\ gameStatus' = "FINISHED"
    /\ UNCHANGED <<balance, ledger, owner, liters, held, supplyVars>>

-----------------------------------------------------------------------------
OrderSteps(r) ==
    \/ OrderBegin(r) \/ OrderLockPlayer(r) \/ OrderCheckStation(r)
    \/ OrderLockTank(r) \/ OrderLockRefinery(r) \/ OrderCheckFunds(r)
    \/ OrderCommit(r) \/ OrderAbort(r) \/ IncidentRead(r) \/ IncidentCommit(r)

TruckTick == TruckSelect \/ TruckUnload \/ TruckCommit \/ TruckAbort

OrderNext == (\E r \in Requests : OrderSteps(r)) \/ TruckTick \/ OrderFinishGame

OrderSpec == OrderInit /\ [][OrderNext]_orderVars

-----------------------------------------------------------------------------
(* Properties. *)

\* As long as orders and trucks are the only ones to write a tank, the fuel in
\* it and the fuel promised to it fit, whatever requests and ticks overlap,
\* fail and start again.
RoomReserved == \A s \in Stations : liters[s] + reserved[s] <= Capacity

\* The reservation of a tank is the sum of the stops still to be served.
ReservedIsPending ==
    \A s \in Stations :
      reserved[s] = Total([o \in Orders |-> IF s \in orders[o].pending
                                              THEN orders[o].stops[s] ELSE 0])

\* A tank holds what it started with and its delivered stops, each counted
\* once, whatever ticks fail between a delivery and its commit.
FuelAccounted ==
    \A s \in Stations :
      liters[s] = StartLiters
         + Total([o \in Orders |-> IF Placed(o) /\ s \notin orders[o].pending
                                     THEN orders[o].stops[s] ELSE 0])

\* Overlapping orders never spend the same money, and the journal explains
\* every balance.
OrdersPaid == balance = ledger /\ \A p \in Players : balance[p] >= 0

\* An order is complete exactly once and only when each of its stops has been
\* served; the completion is never taken back, nor is a delivery.
DeliveriesFinal ==
    [][\A o \in Orders :
         /\ Placed(o) => orders'[o].pending \subseteq orders[o].pending
         /\ orders[o].status = "DELIVERED" => UNCHANGED orders[o]
         /\ orders'[o].status = "DELIVERED" => orders'[o].pending = {}]_orderVars

\* What a session may rely on between two statements because of the row locks:
\* q is what it remembers, h the rows it holds.
OrderSessionOK(q, h) ==
    /\ q.pc \notin {"idle", "spoil"} => q.actor \in Players
    /\ q.pc \in {"stations", "tanks", "refinery", "funds", "insert"} =>
         PlayerRow(q.actor) \in h
    /\ q.pc = "tanks" => \A s \in Stops(q.stops) \ q.todo : FuelRow(s) \in h
    /\ q.pc \in {"refinery", "funds", "insert"} =>
         RoomFor(q.stops) /\ \A s \in Stops(q.stops) : FuelRow(s) \in h
    /\ q.pc \in {"funds", "insert"} => RefineryRow \in h /\ stock >= q.total
    /\ q.pc = "insert" => balance[q.actor] >= q.cost
    /\ q.seen >= 0

\* The room, the stock and the funds that an order was promised are still there
\* when it commits, because no two sessions hold the same row.
OrderSessionsConsistent ==
    /\ \A s, t \in Sessions : s # t => held[s] \cap held[t] = {}
    /\ \A r \in Requests : OrderSessionOK(oreq[r], held[r])

Contract(o) ==
    IF Placed(o) THEN [player |-> orders[o].player, cost |-> orders[o].cost,
                       stops |-> orders[o].stops, pending |-> orders[o].pending]
                 ELSE [pending |-> {}]

D == INSTANCE Depot WITH contracts <- [o \in Orders |-> Contract(o)],
                         Volumes <- OrderVolumes

\* Overlapping orders, truck ticks and their failures behave as if an order was
\* placed in one atomic step and the deliveries were made at once.
RefinesDepot == D!Spec

\* The refinery never sells what it does not have, not even when an incident
\* writes its stock back from an unlocked read.
StockNotOversold == stock >= 0
=============================================================================
