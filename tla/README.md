# A TLA+ model of the fuel game's backend

The repository is a multiplayer economy game: players buy petrol stations,
order fuel from refineries, set prices, trade with each other and compete for
net worth while simulated traffic drives around and fills up. The backend is a
FastAPI application over PostgreSQL (`backend/app`); one asyncio task inside
the same process, the scheduler, advances every running game once a second.
This directory holds TLA+ modules that model the backend from its source, the
TLC configurations that check them, and proofs checked by TLAPS.

## 1. Inventory

The state lives in PostgreSQL rows. Every HTTP request and every scheduler step
opens one SQLAlchemy session (`db/session.py`), which is one READ COMMITTED
transaction: an unlocked `SELECT` may be stale by the time its result is used;
`SELECT ... FOR UPDATE` and `UPDATE` wait for the row lock, and an
`UPDATE ... WHERE` looks at its condition again after the wait; an ORM
attribute write is flushed as an absolute value by primary key; a second
`SELECT` of a row the session already holds does not refresh the object.
Nearly all that is hard in this code follows from these five rules. What is
not in the database is in the memory of the one process: the sockets of the
clients, the scheduler's times, the accumulator of new vehicles.

A start of the process is more than a loss of that memory. `main.py` runs the
release tasks before it starts the scheduler (`core/release.py`): migrations, the
import of stations, the refinery, and `build_road_graph`, which deletes all edges
and inserts them again, open and under fresh ids. With the old edges it deletes the
vehicles and trucks that are on them, and nothing else: queue counters, orders and
the rows of events stay as they were.

| Component | State | Operations | Hard behaviour | What makes it correct | Modules |
|---|---|---|---|---|---|
| Trade offers (`services/trade_service.py`, `simulation/trades.py`) | offers, and with them balances, owners, tanks | create, accept, reject, cancel, counter, expire | requests racing for one offer; copies read before the lock; writes by primary key | an offer is paid at most once; only pending offers are settled or closed; money and owners move together | Trading, Market |
| Stations (`services/station_service.py`) | owner, rating, queue, prices | purchase, set price, set network price, create for a game | two buyers; price cooldown checked before it is written | one owner, paid for | Trading, Rooms |
| Fuel orders (`services/fuel_order_service.py`) | orders, stops, reserved liters, refinery stock | create order | reservation against trades and sales; lock order | current + reserved never exceeds capacity; stock is conserved | FuelOrders, Depot, Supply |
| Trucks (`simulation/trucks.py`) | route, position, stops | advance, deliver, reroute | roads closed between the reads of a tick, one-point routes, restarts that delete trucks | a stop is delivered once; what a restart leaves on the road arrives | Trucks, FuelOrders |
| Economic tick (`simulation/economy.py`) | stock, balances, sales | run tick | unlocked reads, absolute writes | no stock and no balance below zero | Upkeep |
| Vehicles (`simulation/vehicles.py`) | route, queue membership, tank, budget | spawn, drive, queue, refuel, arrive | queue counters, locks opposite to those of orders, restarts | queue length equals vehicles waiting, as long as no restart has deleted any; sales are covered and paid to the owner | Vehicles |
| Upgrades (`services/station_upgrade_service.py`, `simulation/station_upgrades.py`) | level, status, times | buy, complete, expire | buying while under construction | no effect of a level that is not built | Upkeep |
| Events, accidents (`services/event_service.py`, `simulation/events.py`, `simulation/accidents.py`) | active events, accidents, shared road edges, closed stations | trigger, roll, expire | several causes close one road; games share the map; one event closes twice; finished games; restarts | what is closed has a cause that will open it | Roads, Upkeep, FuelOrders |
| Game life cycle (`services/game_service.py`, `simulation/game_lifecycle.py`) | room status, players | create, join, leave, ready, network, start, finish | join against start, leave against everything | one start, one set of stations, money given once | Rooms |
| Scheduler (`simulation/scheduler.py`) | times of the last ticks (in memory) | tick cycle over all games and steps | steps fail alone; a broadcast fails; restart | every step is retried, every game is reached | Roads, Upkeep, Vehicles, Broadcast, Supply |
| Routing, traffic (`services/routing_service.py`, `simulation/traffic.py`) | none / positions | shortest path, stop order; one physics step | consistency of the heuristic, full crossings | paths are shortest; movers neither overlap nor stall | Routing, Traffic, Trucks |
| Accounts (`services/auth_service.py`, `core/session.py`, `core/password_reset.py`) | users, sessions, reset tokens | register, login, logout, reset | reset in three transactions; login during reset | a token works once | Accounts, Rooms |
| Broadcast (`websocket/`) | connections per game | connect, disconnect, broadcast | the set changes while a broadcast awaits | connected clients stay in their room; empty rooms go | Broadcast |
| Maps, start of the process (`services/map_import_service.py`, `core/release.py`, `main.py`) | road edges, lights, templates | import, rebuild at every start | what refers to a deleted edge | nothing refers to an edge that is gone | `Restart` in Roads, Vehicles, Trucks |
| Configuration, migrations, frontend | - | - | - | - | none, see section 7 |

Components interact through rows (balances are written by purchases, orders,
upgrades, trades, sales and fines; tanks by orders, trucks, trades, sales and
vehicles), through direct calls (the scheduler calls every `simulation` module,
those call `event_service` and `routing_service`), and through broadcasts after
a commit. An HTTP handler (`api/`) opens the session, calls one service and
broadcasts: it is a request of the module that models that service.

`PROJECT.json` lists the hazards at their lines, each with the properties that
watch it, or with the reason why none does.

## 2. Plan

The order in which the modules were written, the most important behaviour first.

1. **GameStore, Trading, Market**: money and ownership under
   overlapping requests. Abstract specification: `Market`.
2. **FuelOrders, Depot, Supply, SupplyProofs**: orders, deliveries and
   refinery stock, alone and together with trades on the same tanks. Abstract
   specification: `Depot`. The proofs about 1 and 2 are in one module.
3. **Roads, RoadsProofs**: events and accidents of several games over shared edges.
4. **Vehicles, VehiclesProofs**: queues and sales at the pumps.
5. **Upkeep, UpkeepProofs**: upgrades, the economic tick, inspections.
6. **Routing, Traffic, Trucks, TrucksProofs**: routes, movement, rerouting, and that orders
   end.
7. **Accounts, Rooms, RoomsProofs**: from registration to the end of a game.
8. **Broadcast, BroadcastProofs**: the sockets and the tick cycle.

Left for later: changes of prices and their cooldown, ADVERTISING campaigns,
emergency vehicles, the rate limiter.

## 3. The modules

**GameStore** holds what all services share: the committed rows (`balance`,
`owner`, `liters`, `gameStatus`, and `ledger`, the starting balance plus the
amounts of a player's `FinancialTransaction` rows) and `held`, the row locks of
each session. `Free`, `Take`, `Release` are the lock rules.

**Trading** models `purchase_station` and the five operations of
`trade_service.py`, the expiry step and the end of the game. One action is one
SQL statement with the Python checks that follow it. `req[r]` is what the
session of request `r` remembers: its program counter, the acting player, the
offer, the row it will insert, the copy `bal` of the acting player's balance
and the copy `fuel` of the buyer's tank. What a session wrote and did not commit
is derived from its program counter and becomes visible in its `...Commit`
action. `Continue` is the common shape: if the check passes, take the rows and
go on; otherwise roll back.

| Code | Actions |
|---|---|
| `_get_running_game`, `_get_member_player` | `Begin` |
| `purchase_station` | `PurchaseLockPlayer`, `PurchaseClaimStation`, `PurchaseCommit` |
| `create_trade_offer` | `CreateCheckStation`, `CreateCheckAsset`, `CreateCommit` |
| `accept_trade_offer` | `AcceptReadPlayer`, `AcceptReadOffer`, `AcceptLockPlayer` (once per row, in either order), `AcceptClaimStation` or `AcceptReadBuyerFuel` and `AcceptDrawFuel`, `AcceptTakeOffer`, `AcceptCommitStationSale` or `AcceptCommitFuelSale` |
| `reject_trade_offer`, `cancel_trade_offer` | `CloseReadOffer`, `CloseCommit` |
| `counter_trade_offer` | `CloseReadOffer`, `CounterSupersede`, `CounterCommit` |
| `expire_due_trade_offers_for_game` | `ExpireSelect`, `ExpireFlush` (one row at a time), `ExpireCommit`, `ExpireAbort` |
| `maybe_finish_game` | `FinishGame` |
| timeouts, deadlock victims, dropped clients, a killed process | `Abort`, `ExpireAbort` |

Abstractions. There is one fuel type. The price of an offer is the amount paid
in total. `overdue` stands for `expires_at <= now()`. The average purchase price
of a tank is left out. Whether trading is enabled is constant and true. The
tanks are written by fuel sales only, so `TanksWithinCapacity` says that trades
alone do no harm, no more: `Supply` adds the deliveries, `Vehicles` and `Upkeep`
the sales. Two fields have no column: `by` (who wrote an offer's terms) and
`payments` (how many pairs of transactions refer to the offer).

**Market** is what the services promise: buying, offering, selling, closing and
countering as atomic steps over owners, journal and deals. `RefinesMarket` maps
a `Trading` state to it; whether a deal was made is decided by the payment,
since the status column can be overwritten by the expiry step (section 5).

**FuelOrders** models `create_fuel_order`, the deliveries of the truck tick and
the incident that destroys refinery stock, on the same rows. `stock` and
`reserved` are the committed `refinery_fuel.current_liters` and
`station_fuel.reserved_liters`; `orders[o]` is an order with its stops;
`oreq[r]` is what a request's session remembers; `moving`, `drops` and `unload`
are the transaction of the running truck tick: the trucks it has selected, the
stops it has served, and the liters it has added and not committed.

| Code | Actions |
|---|---|
| checks before the first lock | `OrderBegin` |
| player `FOR UPDATE`; stations read and owners checked | `OrderLockPlayer`, `OrderCheckStation` (once per station) |
| tanks `FOR UPDATE` one by one, capacity check | `OrderLockTank` (with the last one, `RoomFor`) |
| refinery row `FOR UPDATE`, stock check | `OrderLockRefinery` |
| route, price, funds check | `OrderCheckFunds` |
| payment, stock, reservations, rows, `COMMIT` | `OrderCommit` |
| no route, timeout, deadlock victim, crash | `OrderAbort` |
| `_reduce_refinery_stock` in `create_event_for_game` | `IncidentRead`, `IncidentCommit` |
| `update_trucks_for_game` | `TruckSelect`, `TruckUnload` (once per stop reached), `TruckCommit`, `TruckAbort` |

Abstractions. One refinery and one fuel type. Stops of one order at one station
share a key, a lock, a check and a position in the code, so they are one entry
of `stops`. The route only enters through its price: any of `DeliveryCosts`.
Which stops a truck has reached by a tick, and whether it has arrived, is left
open; that is a superset of what movement allows (`Trucks`), so the safety
properties hold for any movement. The rows of trucks and stops are written by the scheduler
alone, so their locks are left out. A stop becomes FAILED only for a tank that
does not exist; `create_fuel_order` has locked the tank, and tanks are never
deleted, so that branch is not taken. Stations do not change owner here; they can
in `Supply`, although its run trades fuel only.

**Depot** is what ordering promises: `Place` takes fuel, money and room in one
step, `Deliver` turns reserved room into fuel. `RefinesDepot` maps `FuelOrders`
to it. Of an incident it only says that some part of the first stock is left:
the incident writes a share of a stock it read without a lock, so it may undo an
order's withdrawal, and no more can be said (section 5).

**Supply** extends `Trading` and `FuelOrders` and runs them on the same balances,
tanks, owners and locks. A request does one thing, the scheduler's steps follow
each other.

**Roads** models who closes and reopens `road_edges`, rows that all games share.
`events` and `accidents` are the rows while they are active, `job[w]` is the
transaction of the scheduler or of an admin's request between its read and its
commit, `pc` is the place in the tick cycle (`Plan`: the event rolls of all games,
then per game accidents, their end, the events' end).

| Code | Actions |
|---|---|
| `maybe_finish_game` before the steps of a cycle | `FinishGames` |
| `_close_random_road_edge` in `create_event_for_game` | `StartRoadWorks`, `FindReverse` |
| `_close_edges_in_region`, after a random edge; without one, or nothing closed | `CloseRegion`; `StartCheckpoint` |
| the event's row with its edges, `COMMIT` | `CommitEvent` |
| `expire_due_events_for_game` | `StartEndEvents`, `CommitEndEvents` |
| `roll_accidents_for_game` | `StartAccidents`, `CommitAccidents` |
| `expire_due_accidents_for_game` | `StartEndAccidents`, `CommitEndAccidents` |
| a step that is not due or finds nothing; a step that fails | `Pass`, `Abort` |
| `build_road_graph` at a start of the process | `Restart` |

Abstractions. A traffic coefficient is how often it was multiplied. Which edge an
accident hits and how severely is left open. Event types differ only in the edges
they close: the definition of an event may set `close_random_edge`,
`close_region_edges`, both or none. An open event has `edges`, those it will close,
and `named`, those its row will name; they differ when both are set, since the second
assignment of `closed_edge_ids` replaces the first, and `orphans` remembers the
difference. After a restart the rows of events name edges that are gone, so `Restart`
leaves them with no edges. While there is an accident, its foreign key keeps the edges
from being deleted, so `Restart` waits (section 5).

**Vehicles** models the cars of a game and the queues at stations. A session of the
scheduler (`tick`) works on copies (`cars`, `queue`) and on the liters and money it
has sold and earned, and writes them at its commit; `turn`, `credit` and `seen` are
what the process keeps in memory.

| Code | Actions |
|---|---|
| `spawn_vehicles_for_game` | `SpawnRead`, `SpawnCommit` |
| selection of what is over and what moves | `UpdateBegin`, `UpdateDrive` |
| `_complete_purchase`: station, tank, owner, each `FOR UPDATE` | `ServeStation`, `ServeTank`, `ServePlayer` |
| reaching a station, leaving for good | `ReachStation`, `Arrive` |
| the commit; a failed statement | `UpdateCommit`; `TickAbort` |
| a new process: memory forgotten, cars on an edge deleted, counters kept | `Restart` |
| requests on the same player and tank (as orders lock them), changes of owner | `RequestPlayer`, `RequestTank`, `RequestCommit`, `RequestAbort`, `StationChangesHands` |

Abstractions. Where a car is on its route is left open; it is before, at or past its
station. Which station it chooses is any that has an owner and fuel when the session
reads it. Liters are counted in the hundredths the code rounds to, `PerLiter` in
a liter, and money in cents; `Affordable` and `Total` are the two roundings of a
purchase. `Restart` may keep cars that drive, those whose way has one point and no edge;
a car that waits is on an edge. `stranded` counts the waiting cars that were deleted.

**Upkeep** models what owning a station brings and costs. `job[w]` is the open
session of a request or of the scheduler, `turn` the step of the cycle that is due.
`effects` counts the one-time effects that are in `capacity_liters` and `rating`.

| Code | Actions |
|---|---|
| `purchase_upgrade` | `UpgradeBegin`, `UpgradeLockStation`, `UpgradeCommit` |
| `complete_due_upgrades_for_game` | `CompleteLock`, `CompleteEffect`, `CompleteCommit` |
| `run_economic_tick_for_game` | `EconomicRead`, `EconomicStock`, `EconomicPlayers`, `EconomicCommit` |
| `_inspect_stations` in `create_event_for_game` | `InspectRead`, `InspectSpare`, `InspectFine`, `InspectCommit` |
| stations in `expire_due_events_for_game` | `ExpireRead`, `ExpireCommit` |

Abstractions. How much of a stock the tick sells is left open. A request to upgrade
passes its unlocked checks at the moment it locks the player.

**Routing** holds `find_route` as a search over sets (`Turn` is one turn of its loop,
`Search` and `Backtrack` repeat theirs), the chaining of legs and the greedy order of
stops, and `Fastest`, the reference definition: every simple way enumerated. The loops
are functions of the number of turns. `Search` makes one turn more than there are edges,
`Backtrack` one for each node; that this is enough is proved (section 6). **Traffic** is
`step_edge_occupants` in whole units: `StepFront` takes the mover in front off the queue
of an edge. **Trucks** uses both: a route is the sequence
of its edges, `stops[p]` the point of the route at which the stop in place `p` is
reached, `idx` and `pos` where the truck is.

| Code | Actions |
|---|---|
| the routing part of `create_fuel_order` | `CreateFuelOrder` |
| `update_trucks_for_game`: the trucks en route | `TickBegin` |
| first loop: are roads closed on a truck's way? | `TickLook` (once per truck) |
| `_reroute_truck`, which reads the roads again | `TickReroute` (with `Detour`, `Rerouted`) |
| second loop, `COMMIT`: the trucks that were not rerouted move and deliver | `TickCommit` (with `Advanced`, `Deliver`) |
| a tick that fails | `TickAbort` |
| events and accidents (see `Roads`) | `CloseRoad`, at any time, and `ReopenRoad` |
| the phases of the lights | the argument of `TickCommit` |
| `build_road_graph` at a start of the process: roads open, trucks on an edge deleted | `Restart` |

Abstractions. The tick's transaction alone writes trucks, so what it writes becomes
visible in one step. What it reads of the roads does not wait for anybody: `tick` holds
what it has found so far, the trucks left to look at, those that will move (`moving`)
and those that were rerouted, and roads close between any two of its reads. `late`, which
no code reads, remembers the trucks that were looked at before their next road was
closed. The third read of the edges, before the trucks move, is of lengths and speeds,
which closures do not change. Reopening waits for the tick's end because both are steps of
the scheduler. `CreateFuelOrder` is one step although it reads the roads before its
commit: the way of the new truck may be one of any earlier closures. Lengths are odd numbers, so
`find_nearest_node` has no tie. `ShortEdges` are edges whose length, computed back
from rounded meters, is below `distance_km`: on these the comparison of distances at
the last stop fails. `RoutingAssumption` asks that the heuristic be consistent,
which holds when no coefficient is below 1. The defaults are 1.3 and 1.6, but
`schemas/game_settings.py` accepts a `traffic_multiplier` below 1, and then routes
need not be fastest.

A mover passes one edge in a tick at most, so it may enter a short edge beyond its end
(`overflow_m` is not compared with the next length) and is put back to that end by the
next tick. `StopsAreOnRoute` therefore does not bound `pos` by the length, and
`NoOvertaking` is about a truck in front that is not beyond the end.

**Accounts** models users, sessions and reset tokens; an action is one transaction
or the reads before it. **Rooms** extends it with a game from its creation to its end:
a request authenticates (`Authenticate`), reads, and commits, and nothing keeps what
it read as it was.

| Code | Actions |
|---|---|
| `register_user`, `login_user`, `create_session`, `logout_user` | `Register`, `Login`, `CreateSession`, `EndSession` |
| `request_password_reset`, `reset_password` | `ForgotPassword`; `ConsumeToken`, `SetPassword`, `DeleteSessions` |
| `create_game`, `join_game`, `leave_game` | `CreateGame`; `JoinRead`, `JoinCommit`; `ReadRow`, `LeaveCommit` |
| `set_ready`, `set_network` | `ReadRow`, `SetReady`, `SetNetwork` |
| `start_game` with `create_stations_for_game` | `StartRoom`, `StartMembers`, `StartCommit` |
| `maybe_finish_game` | `ComputeNetWorth`, `FinishGame`, `FinishAborts` |

Abstractions. There is one game. What members do with their money is `Play`. Net
worth is the balance alone, places are left out. Hashing and the rate limits are left
out; expired rows are removed.

**Broadcast** models the sockets. `handler[w]` is the coroutine of a socket,
`table[g]` the set of a room, `cast[x]` a broadcast that awaits: the set it iterates
over when it began, what it has sent and found dead, and whether the room has been
deleted behind its back (`orphan`). `Connect`, `Disconnect` are those of
`ConnectionManager`; `Announce`, `Send`, `Announced` are `broadcast` for a request;
`CycleStep`, `CycleServed`, `CycleFails` for the tick cycle, which an exception of a
broadcast ends; `Restart` is a new process.

Abstractions. Python's iterator over a set may or may not visit an element that was
added behind it; it raises when the size is not the one at the start. The membership
check before `connect` is left out.

The modules named **MC...** give the constants values. **SupplyProofs** (about
`Trading`, `FuelOrders` and `Supply`), **VehiclesProofs**, **RoadsProofs**, **UpkeepProofs**,
**RoomsProofs** and **BroadcastProofs** hold the theorems, **Sums** the facts about sums
over finite sets that two of them need.

The operators introduced as "Fault" next to an action are what the action would
be with a plausible bug. No specification uses them. Each property is known to
fail when the fault listed for it in `PROJECT.json` ("mutants") replaces the
action, which shows that the property watches the code and that its run reaches
the case.

## 4. Runs that pass

| Run | Bounds | Shows |
|---|---|---|
| `trading_stations` | 2 players, 2 stations (one owned), 2 requests at once, 2 offers, price 1, balance 1; purchase, create, accept, counter | no overdraft, one payment per offer, sessions' assumptions, owners change only by purchase or paid sale, `Market` implemented |
| `trading_fuel` | both stations owned, offers of 2 or 3 liters, stock 3 of 5; create, accept, counter, cancel | sales of fuel implement `Market` too; tanks stay between 0 and capacity |
| `orders_supply` | 2 players, 3 stations (two of one player), 2 requests at once, 2 orders with stops of 1 or 2 liters, truck of 3, stock 4, tanks of 3 holding 1, balance 5, incidents that keep 70% | room for what is reserved, reservations are the pending stops, no delivered liter lost or doubled, what is ordered is paid, what a session checked under its locks still holds, `Depot` implemented |
| `supply` | 2 players, 2 stations, 2 requests, one fuel offer (create, accept, reject, cancel), one order, volumes 1, fairness | nothing overdrawn, overdue offers are closed |
| `roads` | 1 game, the scheduler and an admin's request, the two directions of one road, a region of one edge, 2 active events and 1 accident at a time, 1 multiplication, restarts, fairness | closed roads have a cause or were forgotten by their event, only ends of causes reopen them, and while the game runs they reopen |
| `vehicles` | 2 players, 1 station with a queue of 1, 1 request, 3 cars of which 2 at once, 1 failure or restart, 2 units in a liter, prices 3 and 5 with a budget of 1, 1 unit needed, fairness | counter = cars waiting and those a restart has deleted, rows in range (limit of cars, overspending by no more than the two roundings), sales covered and paid to the owner, queues move unless a restart has filled the counter for ever |
| `upkeep` | 2 players, 1 station, one request that upgrades and one that triggers inspections, 2 inspections at once, levels up to 2, price, fine and cost per level 1, balance up to 1, 1 failure, fairness | rows in range (no debt), one-time effects are built, closed stations have an inspection, only due levels open, nothing stays overdue or closed |
| `trucks` | 2 trucks, a triangle of roads, up to 2 closed at any time, lights at one crossing, length 3 and speed 4 (5 and 2 on a slow road), failing ticks, restarts, fairness | routes are fastest, trucks and stops stay on the route, no truck passes another, detours around what a tick has seen closed are taken, trucks that are not deleted arrive |
| `rooms` | 2 users, 2 requests, 2 sessions, 1 reset token, 2 member rows, 1 network name, balance 1, late joins allowed | members and names distinct, one whole start, money given once, a token works once |
| `broadcast` | 3 sockets in one of 2 games, 1 request, restarts, fairness | connected clients are in their room, no empty room stays, every game is reached |

The types of `Trading`, `FuelOrders`, `Roads`, `Rooms` and `Broadcast`,
`StockNotOversold` and `DeliveriesFinal` are proved for all values of the constants
(section 6), so no run repeats them.

Why the bounds are enough. Two players and two requests let every pair of
statements interleave; a third request adds no new pair, since each statement
looks at the rows of one offer, one station and two players. Two offers allow a
counter-offer, a double listing and a race for the same money. With balance 1 and
price 1 a second purchase by the same player is an overdraft, so the funds checks
matter; with stock 3, capacity 5 and volumes 2 and 3, both the stock check
(2+2 > 3) and the capacity check (3+3 > 5) decide. `RoomForOffer` bounds how many
offers are created. For orders, two requests that insert an order exhaust `Orders`
(`RoomForOrder`). Stock 4 is less than two full trucks, a tank takes two liters
besides the one in it, and two orders of up to 3 liters at price 1 plus delivery
1 may cost more than the balance of 5: each check decides in some behaviour.
Three stations allow an order of two stops and one at another owner's station.

The cross effects on a road need an edge with its way back, two transactions at once and
a cause of each kind. The admin's request is not bound to wait for other events, so one
game has two events at once that overlap with each other, with an accident and with the
ends of both; another game would add steps of the same kind between them, and the proofs
are about any number of games. An event and an accident on the same edge at once, read by one
end and written by another, are reached, and so is an event whose region of one edge
replaces the random edge in its row. A queue of one with two cars on the road
is full when the second arrives; the third car takes the place of one that has
left. With two units in a liter, prices of 3 and 5 make the affordable amount and then its price round up and down. In `upkeep` the second
level may be bought while the first is under construction or being completed. The
triangle gives each truck a direct way and a detour, and one closure more than the
detour can take, before, during and after a tick; at speed 4 a truck may enter a road of length 3 beyond its end. Three sockets allow a broadcast to await while one leaves and one
comes, with the size of the set the same as before. Symmetry is declared where liveness is not checked: for requests, offers and orders,
and in `rooms` for users and rows; players and stations are not symmetric (initial
owners differ), but in `trading_fuel` each player together with its station is.

Deadlock checking is off in the runs with trades and orders only: the game ends there,
and then nothing needs to happen.

Fairness is stated next to each specification.

- `Supply!FairSpec`: each request that has begun takes a step eventually (a
  statement returns or its timeout ends the request); the scheduler's loop runs for
  ever, and each step of a tick is taken again and again. Its flush waits for row
  locks; PostgreSQL queues waiters, so it is strongly fair. `DueOffersClose`
  excepts runs in which the step is aborted again and again.
- `Roads!FairSpec`: the scheduler's task goes on, time passes, and the ends of
  events and accidents of one game do not fail every time they are tried. Creation
  of events need not happen. Restarts may happen without end.
- `VehiclesFairSpec`, `UpkeepFairSpec`: the scheduler goes on and fails only
  `MaxFailures` times; requests end; a lock request that is possible again and again
  is granted; time passes.
- `Trucks!FairSpec`: ticks commit again and again while a truck is en route, and for
  each light among them ticks that find it green. Each light has a phase of its own
  (a random offset), so no more is asked of them together: all lights need never be
  green at once, and what a light shows when a truck does not stand at it is left open.
  It is written out because TLC evaluates `ENABLED` of a whole tick too slowly.
  `TrucksArrive` excepts roads being closed for ever, trucks that are `Lost`, and trucks
  that a restart has deleted (section 5).
- `Broadcast!FairSpec`: a send ends at the latest with its connection; the
  scheduler's task runs for ever. `EveryGameIsReached` excepts sockets leaving and
  restarts without end, each of which can end one cycle early.

## 5. Disagreements

Two runs check one statement of a document or comment each, and TLC shows a
behaviour of the code that contradicts it. `PROJECT.json` quotes them.

| Run | Statement | What happens |
|---|---|---|
| `stale_balance` | a balance changes only with a transaction (`TECHNICAL_SPEC.md` 20.3) | a purchase committed between `accept`'s unlocked read of the buyer and its row lock is overwritten: the station is bought, the money comes back |
| `broadcast_stops` | a broken socket does not stop delivery to the room (`connection_manager.py`) | a socket that leaves while a broadcast awaits changes the size of the set; the exception ends the loop before the rest of the room is served |

The models hold more behaviours of this kind, which have no run of their own:

- the expiry step writes EXPIRED by primary key over an offer that was accepted and
  paid since it was selected (`simulation/trades.py`);
- two overlapping requests list one station twice; the fuel of a sale is not
  reserved, so that of a station sold meanwhile is drawn from the new owner's tank
  and paid to the old owner; a sale writes back a tank it read before a delivery
  (`trade_service.py`);
- an incident writes a share of a stock it read without a lock, and may leave the
  refinery with more than before (`event_service.py`);
- the economic tick writes stocks and balances it has read before others changed
  them (`economy.py`): nothing becomes negative, but the journal does not explain the
  balance;
- a penalty that was multiplied by two overlapping accidents may be restored to the
  penalized value (`accidents.py`); roads that a game closed stay closed when it
  finishes first (`RoadsReopen` excepts it);
- a level bought during construction makes the unfinished level count in the
  bonuses, which look at `level` for any status (`station_upgrades.py`);
- a truck rerouted while it stands at its only remaining station has a route of one
  point and never moves or delivers; a stop at the first point is dropped when the
  truck is rerouted again before it moves; the last stop is not reached when the
  rounded distance falls short (`trucks.py`). `Lost` names the three;
- a truck that finds no detour drives on through the closure, and so does one that a
  tick has looked at before the road was closed; a detour may lead over a road that is
  closed before the tick commits (`trucks.py`; `DetoursAreTaken` excepts the first two,
  and the next tick reroutes the third);
- an event that closes a random edge and the edges of its region names only the latter
  in its row (`event_service.py`, lines 328-336): the random edge and its way back stay
  closed when the event ends, until another cause that names them ends or the process
  restarts (`orphans` in `ClosedHasCause` and `RoadsReopen`);
- the price of a purchase is rounded as well as its amount (`vehicles.py`): at 95.01 a
  budget of 4607.51 buys 48.50 l for 4607.99, so a budget may end below zero by half
  the price of a unit and half a cent;
- each start of the process deletes the cars on an edge, those that wait at a pump
  included, and leaves `queue_length` (`map_import_service.py`, line 230): the places in
  the queue are lost, and a station that was full turns every car away from then on
  (`stranded` in `QueueCountsCars` and `QueuesMove`);
- it also deletes the trucks on an edge, whose orders stay IN_TRANSIT with their liters
  reserved: `map_import_service.py`, lines 225-226, expects that "the game's own spawn
  logic replaces them within moments", but only vehicles are spawned. `TrucksArrive`
  excepts these trucks; in `FuelOrders` a truck need never unload, so that its
  invariants hold of such orders as well;
- the docstring of `build_road_graph` says that edges are rebuilt "since nothing
  references them by foreign key", but `road_accidents` does (`road_accident.py`, line 37;
  migration `786ca269b31c`): while there is an accident the deletion fails and with it the
  start of the process, and no scheduler runs that would end the accident;
- a restart gives every edge a fresh id, so an active event names edges that are gone
  and its closures end early;
- an offer whose `expires_at` has passed can be accepted until the next expiry step
  (`trade_service.py`, line 301: only the status is looked at);
- a member who joins while the start is under way, or late, has no starting balance
  (`game_service.py`; `TECHNICAL_SPEC.md` 7 gives it to every player). `SpendingIsKept`
  is about those who have spent something;
- a login between two commits of a reset survives the reset, and a crash there leaves
  the sessions alive or the token used without effect (`auth_service.py`);
- a request that read RUNNING may commit after `maybe_finish_game`, and the net worth
  is the one computed before.

In `Supply` a trade can fill the room an order has reserved, because `accept` leaves
`reserved_liters` out of its capacity check; the truck then fills the tank above its
capacity.

## 6. Proofs

`SupplyProofs` proves of `Trading`, for any sets of players, stations, offers and requests
and any prices, volumes and capacity (`StoreAssumption`, `TradingAssumption`):
`TypesCorrect`, `NeverOverdrawn`, `TanksSafe`, `OffersSettleOnce`,
`LocksProtectSessions` and `OwnersChangeBySale`.

The argument. `NoOverdraft` is not inductive: `accept` debits a copy of the
balance, `purchase` a row it checked one statement earlier. What is needed is
what a session may rely on between two statements, and that is what its locks
are for. `SessionsConsistent` says it: a session that has claimed a station holds
the row and nobody has changed the owner since the check; a session that is about
to settle an offer holds the players' and the offer's rows, the offer is still
pending and the copy of the balance covers the price; no two sessions hold the
same row. `IndInv` is the conjunction of the type invariant, the three safety
invariants (of the tanks only that they are not overdrawn) and `SessionsConsistent`. TLC checks the safety parts in
`trading_stations` and `trading_fuel`.

The steps fall into three groups, with one lemma each for what they share:
statements that commit nothing (`ContinueStep`: the new record must be right
about the rows), commits of a request (`FinishStep` with `OthersOK`: the other
sessions' assumptions survive because the rows written are held by the one that
commits), and the scheduler's steps (`SchedulerKeeps`). `NextOK` has one case per
action. For `OwnershipChain` only the two commits that write an owner need an
argument.

`MarketImplemented`: `Trading` implements `Market`. A step maps to the step of `Market`
that its commit is, and to a stutter when it commits nothing. `MarketInv` adds to `IndInv`
what a session remembers of the parties: while an offer it works on is still pending, an
accept is by a player the offer is open to, and a counter-offer names the seller, the
buyer, the kind and the station of the offer it answers.

`SupplyProofs` proves of `FuelOrders`, under `StoreAssumption` and `FuelOrdersAssumption`:
`OrderTypesCorrect`, `ReservationsFit`, `OrdersArePaid`, `StockSuffices`,
`OrderLocksProtect` and `DeliveriesAreFinal`. `RoomReserved` alone is not
inductive: the commit of an order adds to the reservations what was checked four
statements earlier. The invariant `OrderInv` adds `OrderSessionsConsistent`: from
the check on, the session holds the tanks, and the room, the stock and the funds
are still there. A tick's commit needs no more than that: it moves the same liters from
`reserved` to `liters`, and their sum stays. The incident is harmless for `StockNotOversold`
although it writes a stale value: the row lock makes it wait until no order relies
on the stock, and a share of a non-negative stock is not negative.

`ReservationsArePending` and `FuelIsAccounted` are about sums: of the pending stops of
all orders at a station, of what was ordered and delivered. `FuelInv` says what the open
tick has already served (each stop it has served is pending in the row, once, and
`unload` is their sum), so that its commit takes from the sums what it adds to the tanks.
`DepotImplemented`, that `FuelOrders` implements `Depot`, follows from it: a tick maps to a
delivery of all the stops it commits. The sums are folds over finite sets, and `Sums`
proves what is used of them (the sum is a natural number, changes with one term by the
difference, is additive, vanishes with its terms) from the fact that a family of subsets
of a finite set has a smallest member: that form of induction needs no operator as a
parameter.

Of `Supply`, under the assumptions of both, it proves `NothingIsOverdrawn`,
`PromisesSurvive` and `OwnersChangeBySaleOnly`. `SupplyInv` is `IndInv` with `BillOK`, what
an order relies on when trades go on beside it: its session holds the player's and the
refinery's rows, so the funds and the stock it was promised are still there when it
commits. `TradesSurvive` is what makes `IndInv` fit for this: another session that takes
free rows and writes only balances whose rows it holds leaves each trade's assumptions
alone; `TradesSurviveTick` says it of a tick, which only adds to the tanks. `TradeLocal` is
the converse, what a trade leaves alone. What does not survive the composition is room in
the tanks (section 5 and the hazards): `IndInv` has `TanksNotOverdrawn` where `Trading`
alone keeps `TanksWithinCapacity`, which `TanksSafe` proves with it.

`VehiclesProofs` proves, under `StoreAssumption`, `VehiclesAssumption` and `NoneIsNoCar`,
for any cars, stations, prices and limits: `CarTypesCorrect`, `QueuesAreCounted`,
`SalesCovered` and `OwnersArePaid`. None of the four properties is inductive: an update
writes copies of the rows and commits them after it has handled every car. `CarInv` adds
`SessionInv`, what the copies are worth until then (`UpdateOK`): a counter is the number of
copies that wait at the station, without the car whose purchase is under way, which left
the count when its station was locked; the copies of cars still to do are the committed
rows; what is sold is in the tank, and the session holds the tank and the station it was
sold from; a car about to pay holds the tank from which `Purchasable` was read, so that it
is still positive when the sale is written. For a spawn it says that the counted cars fit
below the limit. The proof has a lemma for each handler; `Resumes` is shared by the five
ways in which a car leaves the pump, `CarMoves` by the three in which it moves, `OthersStep`
by everything requests do. `Overspent` is the rounding: the affordable amount and its
price are both rounded half up, so a budget falls short by at most half the price of a
unit and half a cent. Across a restart the counters stay, and the cars that waited are
counted in `stranded` instead; no open update survives it.

`RoadsProofs` proves, under `RoadsAssumption` and `NoneIsNoRow`, for any games,
edges, regions and rows: `RoadsTypesCorrect`, `ClosuresHaveCauses` and
`EndsAloneReopen`. `ClosedHasCause` is not inductive: an end reads which rows are due
and which of their edges are closed, and writes later. `IInv` adds `EndsSound`: the
rows an open end will remove are still active, each edge it will open is named by one of
them, and each closed edge it will not open is named by a row that stays, since nobody
else ends rows of this kind and an edge is closed only with a row that names it; the
edges of which that is not so are in `orphans`, which grows by them in the same commit.
A restart leaves nothing closed and no end open. `RoadsInductive` has one case per
action.

`UpkeepProofs` proves, under `StoreAssumption`, `UpkeepAssumption` and `NoneIsNoRow`:
`EffectsBuilt`, `ClosedStationsRemembered`, `DueLevelsOnly` and `UpkeepTypesCorrect`. The
properties are not inductive, since a completion and an expiry read in one statement and write in a later
one. `UInv` adds `JobsSound`, what an open session may rely on: the levels a completion
will open are under construction and due, and it holds their rows, so a purchase of the
next level waits (`UpgradeCommits` uses the lock); the events an expiry will remove are
still there, and each closed station it will not open is named by an event that stays,
whatever inspections commit meanwhile (`InspectCommits`: a new event has an id that was
free, so it is not one of those found due). For the types, `TypeInv` adds that what an
open session has read and computed was in range and stays so, whatever others write
meanwhile: a tick writes the tanks and a fine the balances as they were read. The revenue
of a tick is a sum over stations (`Sums`).

`RoomsProofs` proves, under the assumptions of `Accounts` and `Rooms` (with
`NoneIsNoMember`): `RoomsTypesCorrect`, `MembersStayDistinct`, `StartsAreWhole`,
`SpendingStays` and `TokensWorkOnce`. The invariant is `RowsSound`, what the rows keep,
with `ReqsSound`, what each request relies on: a start that has passed its first
`UPDATE` is the only one, the room is still in the lobby, and the members it will give
money to are still there; a token that is being used is gone from the table and in no
other request's hands.

`BroadcastProofs` proves, under `BroadcastAssumption` and `NoneIsNoSet`:
`BroadcastTypesCorrect`, `ClientsStayInRooms` and `RoomsAreDeleted`. The invariant adds
`RoomsAreHandled`, each socket in a room has a handler that will take it out, and
`CastsSound`, what a broadcast found dead is no open socket: so taking the dead away
harms nobody, also when sockets left and came meanwhile.

`TrucksProofs` proves, under `RoutingAssumption`, `TrafficAssumption` and
`TrucksAssumption`, for any map, trucks, lengths, speeds, gaps and lights:
`RoutesStayFastest`, `StopsStayOnRoute`, `TrucksKeepTheirOrder` and `TrucksTakeDetours`.
There are three arguments.

- *The search.* `SearchInv` holds after every turn of `find_route`: a score is the time of
  the edge in `came_from` plus a score that is settled; a node reached and not visited has
  its score in the heap; the edges out of a visited node are relaxed. With a consistent
  heuristic, the entry with which a node is visited holds its score, and the visits come
  in the order of their entries (`TopIsExact`). So no later visit improves a node that was
  visited, which is why a node may be closed at its first visit, and stale entries do no
  harm. `Ranked` keeps `came_from` free of cycles, so `Backtrack` ends in as many
  steps as there are nodes. Each turn takes from `Work`, entries and edges ahead, so the
  search ends (`SearchEnds`); then no way beats the score of the goal (`SearchBeats`), and
  the way back has that score (`BacktrackLeads`).
- *The route of a truck.* `TrucksInv` says of every truck that its route is a way, that
  its stops are points of it at their stations, and that it is on an edge unless the route
  has none. It follows for a new truck and a detour from `ChainsLead`: legs that are ways
  join, and the point noted for a stop stays the stop's when legs are added. `TickOK` says
  what an open tick's findings are worth while roads close behind its back: a truck that
  will move and still has stops ahead either had no closed road ahead but those that
  closed since, or has no detour; and a detour that does not exist does not come to exist
  when roads close, for a way through fewer roads is a way through more (`ChainsShrink`).
  So at the commit a truck that drives onto a closed road is in `late` or has no detour.
  The road that was closed ahead is not on the new route of a rerouted truck, so a detour
  can be told from a move (`DetoursShow`), which `TrucksTakeDetours` needs. Trucks whose
  order was committed after the tick began are not among those it moves.
- *The queue of an edge.* `QueueInv` holds while `StepEdge` works an edge off from the
  front: those done were not behind those left, and if one that is done stays on the edge,
  then whoever is next sees something not in front of it. So nobody behind it gets past
  the end or reaches it (`StepFrontKeepsQueue`).

The provers cannot instantiate an induction theorem with an operator. `Induction`,
`Iteration` and `Least` at the head of `TrucksProofs` state what is needed of induction
over sets of numbers and functions instead: that the functions with which the loops are
written exist, and what their values keep.

Only model-checked: `TrucksArrive`, `QueuesMove`, `DueOffersClose`, `RoadsReopen`,
`NothingStaysDue` and `EveryGameIsReached`, the liveness properties (out of the prover's
reach), and the two violations of section 5.

## 7. Not modelled

Of the release tasks, which run at every start of the process, the rebuilding of the road
graph is `Restart` in `Roads`, `Vehicles` and `Trucks`; left out are the conversion of map
data into nodes, edges and stations (a pure function of a file; the same file gives the
same roads), the migrations, and the seeding of the refinery (`ensure_refinery` updates
the row it finds). Also not modelled: map queries (read-only), configuration, logging,
health, scripts, and the frontend (it renders server state).

Left out of modelled components: setting prices and their cooldown (two changes may
pass the check together; any price may be read in a sale); the expiry of ADVERTISING
campaigns, which have no one-time effect; emergency vehicles, which ignore lights and
gaps; the rate limiter and hashing; regional modifiers and bonuses, which are inputs of
amounts that are left open; the intervals at which the economic tick and the event rolls
are due (a step may pass instead); the mapping of exceptions to status codes; the check
that a socket's user is a member; the station and fuel values in the net worth.
