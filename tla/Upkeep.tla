------------------------------- MODULE Upkeep -------------------------------
(***************************************************************************)
(* What owning a station brings and costs: upgrades under construction     *)
(* (services/station_upgrade_service.py, simulation/station_upgrades.py),  *)
(* the aggregated sales of the economic tick (simulation/economy.py), and  *)
(* inspections that fine and close stations (services/event_service.py,    *)
(* simulation/events.py).                                                  *)
(*                                                                         *)
(* Each session of a request or of the scheduler is a job: one action is   *)
(* one locking statement, or one unlocked read, with what follows it; the  *)
(* last one commits.  The scheduler takes the steps of its cycle in turn.  *)
(***************************************************************************)
EXTENDS GameStore, FiniteSets, Functions

CONSTANTS
    Types,       \* upgrade types with a one-time effect
    BaseCost,    \* settings.station_upgrades[..].base_cost
    LevelCost,   \* settings.station_upgrades[..].cost_per_level
    Prices,      \* prices the economic tick sells at
    Fine,        \* fine_amount of the inspection's definition
    Ops,         \* what each request may be: "upgrade", "event"
    Admin,       \* the player who may trigger events
    EventIds,    \* ids of ACTIVE inspections: bounds how many at once
    MaxLevel,    \* bounds the upgrade levels
    MaxBalance,  \* bounds the balances
    MaxFailures  \* bounds failures of the scheduler's sessions

ASSUME UpkeepAssumption ==
    /\ IsFiniteSet(Stations)
    /\ Types \subseteq {"TANKS", "RATING"}
    /\ BaseCost \in Nat /\ LevelCost \in Nat /\ Fine \in Nat
    /\ Prices \subseteq Nat \ {0}
    /\ Admin \in Players
    /\ Ops \in [Requests -> SUBSET {"upgrade", "event"}]
    /\ MaxLevel \in Nat /\ MaxBalance \in Nat /\ MaxFailures \in Nat
    /\ None \notin EventIds

VARIABLES
    upgrade,   \* station_upgrades rows: level, status, whether the time has passed
    effects,   \* one-time effects in capacity_liters and rating
    open,      \* game_stations.status is active
    events,    \* fined_station_ids of the ACTIVE inspections, and whether due
    job,       \* the open sessions
    turn,      \* the step of the tick cycle that is due
    failures   \* sessions of the scheduler that failed

upkeepVars == <<upgrade, effects, open, events>>
vars == <<gameStatus, balance, ledger, owner, liters, held,
          upgrade, effects, open, events, job, turn, failures>>

Statuses == {"UNDER_CONSTRUCTION", "ACTIVE", None}

EventRows == [stations : SUBSET Stations, due : BOOLEAN]

ASSUME NoneIsNoRow == None \notin EventRows /\ None \notin {"UNDER_CONSTRUCTION", "ACTIVE"}

UpgradeRow(s, t) == <<"upgrade", s, t>>

NoUpgrade == [level |-> 0, status |-> None, due |-> FALSE]

UpkeepInit ==
    /\ gameStatus = "RUNNING"
    /\ balance = [p \in Players |-> StartBalance]
    /\ ledger = balance
    /\ owner \in [Stations -> Players]
    /\ liters = [s \in Stations |-> StartLiters]
    /\ held = [w \in Sessions |-> {}]
    /\ upgrade = [s \in Stations |-> [t \in Types |-> NoUpgrade]]
    /\ effects = [s \in Stations |-> [t \in Types |-> 0]]
    /\ open = [s \in Stations |-> TRUE]
    /\ events = [i \in EventIds |-> None]
    /\ job = [w \in Sessions |-> None]
    /\ turn = "economy"
    /\ failures = 0

-----------------------------------------------------------------------------
(* The steps of a session.                                                 *)

At(w, step) == job[w] # None /\ job[w].at = step

\* The scheduler's turns, and what a request may begin.
After == [economy |-> "event", event |-> "upgrades", upgrades |-> "expire", expire |-> "economy"]

MayBegin(w, step) == job[w] = None /\ IF w = Tick THEN turn = step ELSE step \in Ops[w]

Continue(w, j) == job' = [job EXCEPT ![w] = j]

\* The session ends: its locks are released and the scheduler goes on.
Done(w) ==
    /\ job' = [job EXCEPT ![w] = None]
    /\ Release(w)
    /\ turn' = IF w = Tick THEN After[turn] ELSE turn

Lock(w, row) == Free(w, row) /\ Take(w, {row})

-----------------------------------------------------------------------------
(* purchase_upgrade: the locks of the player, the station and the upgrade, *)
(* in this order.                                                          *)

Cost(level) == BaseCost + LevelCost * level

\* A player asks for an upgrade of a station that is the player's by then.
UpgradeBegin(r, p, s, t) ==
    /\ MayBegin(r, "upgrade")
    /\ owner[s] = p
    /\ Lock(r, PlayerRow(p))
    /\ Continue(r, [at |-> "station", player |-> p, station |-> s, type |-> t])
    /\ UNCHANGED <<gameStatus, balance, ledger, owner, liters, upkeepVars, turn, failures>>

UpgradeLockStation(r) ==
    /\ At(r, "station")
    /\ owner[job[r].station] = job[r].player
    /\ Lock(r, StationRow(job[r].station))
    /\ Continue(r, [job[r] EXCEPT !.at = "buy"])
    /\ UNCHANGED <<gameStatus, balance, ledger, owner, liters, upkeepVars, turn, failures>>

\* Buying starts the construction of the next level, whatever is under
\* construction.
UpgradeCommit(r) ==
    /\ At(r, "buy")
    /\ LET s == job[r].station
           t == job[r].type
           p == job[r].player
           cost == Cost(upgrade[s][t].level)
       IN  /\ Free(r, UpgradeRow(s, t))
           /\ upgrade[s][t].level < MaxLevel
           /\ balance[p] >= cost
           /\ balance' = [balance EXCEPT ![p] = @ - cost]
           /\ Post(p, -cost)
           /\ upgrade' = [upgrade EXCEPT ![s][t] =
                  [level |-> @.level + 1, status |-> "UNDER_CONSTRUCTION", due |-> FALSE]]
    /\ Done(r)
    /\ UNCHANGED <<gameStatus, owner, liters, effects, open, events, failures>>

-----------------------------------------------------------------------------
(* complete_due_upgrades_for_game: locks every row of the game, then the   *)
(* rows that an effect updates.  The end of ADVERTISING campaigns, which   *)
(* have no such effect, is left out.                                       *)

Bought == {x \in Stations \X Types : upgrade[x[1]][x[2]] # NoUpgrade}

Finished ==
    {x \in Bought : upgrade[x[1]][x[2]].status = "UNDER_CONSTRUCTION" /\ upgrade[x[1]][x[2]].due}

\* Fault: the rows are read without their locks.
CompleteReadOnly ==
    /\ MayBegin(Tick, "upgrades")
    /\ Finished # {}
    /\ Continue(Tick, [at |-> "complete", todo |-> Finished, activated |-> Finished])
    /\ UNCHANGED <<storeVars, upkeepVars, turn, failures>>

CompleteLock ==
    /\ MayBegin(Tick, "upgrades")
    /\ Finished # {}
    /\ \A x \in Bought : Free(Tick, UpgradeRow(x[1], x[2]))
    /\ Take(Tick, {UpgradeRow(x[1], x[2]) : x \in Bought})
    /\ Continue(Tick, [at |-> "complete", todo |-> Finished, activated |-> Finished])
    /\ UNCHANGED <<gameStatus, balance, ledger, owner, liters, upkeepVars, turn, failures>>

\* More capacity for every tank of the station, or a better rating.
EffectRow(x) == IF x[2] = "TANKS" THEN FuelRow(x[1]) ELSE StationRow(x[1])

CompleteEffect ==
    /\ At(Tick, "complete")
    /\ \E x \in job[Tick].todo :
        /\ Lock(Tick, EffectRow(x))
        /\ Continue(Tick, [job[Tick] EXCEPT !.todo = @ \ {x}])
    /\ UNCHANGED <<gameStatus, balance, ledger, owner, liters, upkeepVars, turn, failures>>

\* Fault: the effect of all levels so far is applied again.
RepeatEffects(n, level) == n + level

OneEffect(n, level) == n + 1

Complete(u) == [level |-> u.level, status |-> "ACTIVE", due |-> FALSE]

CompleteCommit ==
    /\ At(Tick, "complete")
    /\ job[Tick].todo = {}
    /\ upgrade' = [s \in Stations |-> [t \in Types |->
           IF <<s, t>> \in job[Tick].activated THEN Complete(upgrade[s][t]) ELSE upgrade[s][t]]]
    /\ effects' = [s \in Stations |-> [t \in Types |->
           IF <<s, t>> \in job[Tick].activated
           THEN OneEffect(effects[s][t], upgrade[s][t].level) ELSE effects[s][t]]]
    /\ Done(Tick)
    /\ UNCHANGED <<gameStatus, balance, ledger, owner, liters, open, events, failures>>

-----------------------------------------------------------------------------
(* run_economic_tick_for_game: one read of the owned stations, one UPDATE  *)
(* of the stocks, one read of the players, and the flush of their copies.  *)

Sellable(stock) == 0 .. stock

EconomicRead ==
    /\ MayBegin(Tick, "economy")
    /\ \E sold \in [Stations -> 0 .. Capacity], price \in Prices :
        /\ \A s \in Stations : sold[s] \in Sellable(liters[s]) /\ (owner[s] = None => sold[s] = 0)
        /\ \E s \in Stations : sold[s] > 0
        /\ Continue(Tick, [at |-> "stock", sold |-> sold, left |-> [s \in Stations |-> liters[s] - sold[s]],
                           owner |-> owner, price |-> price])
    /\ UNCHANGED <<storeVars, upkeepVars, turn, failures>>

EconomicStock ==
    /\ At(Tick, "stock")
    /\ LET stocks == {FuelRow(s) : s \in {x \in Stations : job[Tick].sold[x] > 0}}
       IN  /\ \A row \in stocks : Free(Tick, row)
           /\ Take(Tick, stocks)
    /\ Continue(Tick, [job[Tick] EXCEPT !.at = "players"])
    /\ UNCHANGED <<gameStatus, balance, ledger, owner, liters, upkeepVars, turn, failures>>

Sellers(j) == {j.owner[s] : s \in {x \in Stations : j.sold[x] > 0}}

Revenue(j) ==
    [p \in Players |-> FoldFunction(+, 0,
        [s \in Stations |-> IF j.owner[s] = p THEN j.sold[s] * j.price ELSE 0])]

EconomicPlayers ==
    /\ At(Tick, "players")
    /\ Continue(Tick, [at |-> "pay", sold |-> job[Tick].sold, left |-> job[Tick].left,
                       sellers |-> Sellers(job[Tick]), revenue |-> Revenue(job[Tick]),
                       copy |-> balance])
    /\ UNCHANGED <<storeVars, upkeepVars, turn, failures>>

EconomicCommit ==
    /\ At(Tick, "pay")
    /\ LET j == job[Tick]
       IN  /\ \A p \in j.sellers : Free(Tick, PlayerRow(p)) /\ j.copy[p] + j.revenue[p] <= MaxBalance
           /\ liters' = [s \in Stations |-> IF j.sold[s] > 0 THEN j.left[s] ELSE liters[s]]
           /\ balance' = [p \in Players |->
                  IF p \in j.sellers THEN j.copy[p] + j.revenue[p] ELSE balance[p]]
           /\ ledger' = [p \in Players |-> ledger[p] + j.revenue[p]]
    /\ Done(Tick)
    /\ UNCHANGED <<gameStatus, owner, upgrade, effects, open, events, failures>>

-----------------------------------------------------------------------------
(* _inspect_stations within create_event_for_game, for the scheduler or    *)
(* for the admin, whose request has read the admin's own row before; the   *)
(* lock does not refresh that copy.                                        *)

InspectRead(w) ==
    /\ MayBegin(w, "event")
    /\ w = Tick => \A i \in EventIds : events[i] = None
    /\ Cardinality({i \in EventIds : events[i] # None}) + Cardinality({x \in Sessions : At(x, "inspect")})
           < Cardinality(EventIds)
    /\ \E sample \in (SUBSET {s \in Stations : owner[s] # None /\ open[s]}) \ {{}} :
        Continue(w, [at |-> "inspect", todo |-> sample, fined |-> {}, owner |-> owner,
                     copy |-> [p \in Players |->
                                  IF w # Tick /\ p = Admin THEN balance[p] ELSE None],
                     fine |-> [p \in Players |-> 0]])
    /\ UNCHANGED <<storeVars, upkeepVars, turn, failures>>

\* Fault: the fine is taken whatever the balance.
FullFine(money) == Fine

FineOf(money) == IF money < Fine THEN money ELSE Fine

\* A station with an active upgrade is spared.
InspectSpare(w) ==
    /\ At(w, "inspect")
    /\ \E s \in job[w].todo :
        /\ \E t \in Types : upgrade[s][t].status = "ACTIVE"
        /\ Continue(w, [job[w] EXCEPT !.todo = @ \ {s}])
    /\ UNCHANGED <<storeVars, upkeepVars, turn, failures>>

InspectFine(w) ==
    /\ At(w, "inspect")
    /\ \E s \in job[w].todo :
        LET p == job[w].owner[s]
            money == IF job[w].copy[p] = None THEN balance[p] ELSE job[w].copy[p]
        IN  /\ \A t \in Types : upgrade[s][t].status # "ACTIVE"
            /\ Lock(w, PlayerRow(p))
            /\ Continue(w, [at |-> "inspect", todo |-> job[w].todo \ {s},
                            fined |-> job[w].fined \cup {s}, owner |-> job[w].owner,
                            copy |-> [job[w].copy EXCEPT ![p] = money - FineOf(money)],
                            fine |-> [job[w].fine EXCEPT ![p] = @ + FineOf(money)]])
    /\ UNCHANGED <<gameStatus, balance, ledger, owner, liters, upkeepVars, turn, failures>>

\* Fault: the stations are closed and the event does not remember them.
NoRecord(i, stations) == events' = [events EXCEPT ![i] = [stations |-> {}, due |-> FALSE]]

Record(i, stations) == events' = [events EXCEPT ![i] = [stations |-> stations, due |-> FALSE]]

InspectCommit(w) ==
    /\ At(w, "inspect")
    /\ job[w].todo = {}
    /\ LET closing == job[w].fined
           paying == {job[w].owner[s] : s \in closing}
       IN  /\ \A s \in closing : Free(w, StationRow(s))
           /\ open' = [s \in Stations |-> open[s] /\ s \notin closing]
           /\ balance' = [p \in Players |-> IF p \in paying THEN job[w].copy[p] ELSE balance[p]]
           /\ ledger' = [p \in Players |-> ledger[p] - job[w].fine[p]]
           /\ \E i \in EventIds : events[i] = None /\ Record(i, closing)
    /\ Done(w)
    /\ UNCHANGED <<gameStatus, owner, liters, upgrade, effects, failures>>

(* expire_due_events_for_game: a station that is read as active is not     *)
(* written.                                                                *)

DueEvents == {i \in EventIds : events[i] # None /\ events[i].due}

\* Fault: only the first event that is due gives its stations back.
StationsOfFirst(due) == events[CHOOSE i \in due : TRUE].stations

StationsOf(due) == UNION {events[i].stations : i \in due}

ExpireRead ==
    /\ MayBegin(Tick, "expire")
    /\ DueEvents # {}
    /\ Continue(Tick, [at |-> "expire", due |-> DueEvents,
                       stations |-> {s \in StationsOf(DueEvents) : ~open[s]}])
    /\ UNCHANGED <<storeVars, upkeepVars, turn, failures>>

ExpireCommit ==
    /\ At(Tick, "expire")
    /\ \A s \in job[Tick].stations : Free(Tick, StationRow(s))
    /\ open' = [s \in Stations |-> open[s] \/ s \in job[Tick].stations]
    /\ events' = [i \in EventIds |-> IF i \in job[Tick].due THEN None ELSE events[i]]
    /\ Done(Tick)
    /\ UNCHANGED <<gameStatus, balance, ledger, owner, liters, upgrade, effects, failures>>

-----------------------------------------------------------------------------

\* A check fails, a statement fails, a lock is not granted in time.
Abort(w) ==
    /\ job[w] # None
    /\ w = Tick => failures < MaxFailures
    /\ failures' = IF w = Tick THEN failures + 1 ELSE failures
    /\ Done(w)
    /\ UNCHANGED <<gameStatus, balance, ledger, owner, liters, upkeepVars>>

\* The step that is due finds nothing to do.
Skip ==
    /\ job[Tick] = None
    /\ turn = "upgrades" => Finished = {}
    /\ turn = "expire" => DueEvents = {}
    /\ turn' = After[turn]
    /\ UNCHANGED <<storeVars, upkeepVars, job, failures>>

\* completed_at and ends_at pass.
UpgradeFallsDue(s, t) ==
    /\ upgrade[s][t].status = "UNDER_CONSTRUCTION"
    /\ upgrade' = [upgrade EXCEPT ![s][t].due = TRUE]
    /\ UNCHANGED <<storeVars, effects, open, events, job, turn, failures>>

EventFallsDue(i) ==
    /\ events[i] # None
    /\ events' = [events EXCEPT ![i].due = TRUE]
    /\ UNCHANGED <<storeVars, upgrade, effects, open, job, turn, failures>>

\* A trade of the station commits.
StationChangesHands(s) ==
    /\ \A w \in Sessions : StationRow(s) \notin held[w]
    /\ \E p \in Players : owner' = [owner EXCEPT ![s] = p]
    /\ UNCHANGED <<gameStatus, balance, ledger, liters, held, upkeepVars, job, turn, failures>>

SchedulerStep ==
    \/ EconomicRead \/ EconomicStock \/ EconomicPlayers \/ EconomicCommit
    \/ InspectRead(Tick) \/ InspectSpare(Tick) \/ InspectFine(Tick) \/ InspectCommit(Tick)
    \/ CompleteLock \/ CompleteEffect \/ CompleteCommit
    \/ ExpireRead \/ ExpireCommit
    \/ Skip \/ Abort(Tick)

RequestStep(r) ==
    \/ \E p \in Players, s \in Stations, t \in Types : UpgradeBegin(r, p, s, t)
    \/ UpgradeLockStation(r) \/ UpgradeCommit(r)
    \/ InspectRead(r) \/ InspectSpare(r) \/ InspectFine(r) \/ InspectCommit(r)
    \/ Abort(r)

TimePasses ==
    \/ \E s \in Stations, t \in Types : UpgradeFallsDue(s, t)
    \/ \E i \in EventIds : EventFallsDue(i)

UpkeepNext ==
    \/ SchedulerStep
    \/ \E r \in Requests : RequestStep(r)
    \/ \E s \in Stations : StationChangesHands(s)
    \/ TimePasses

UpkeepSpec == UpkeepInit /\ [][UpkeepNext]_vars

\* The scheduler task goes on and its sessions fail only so often; requests end;
\* a lock request is queued, so it is granted when those before it have ended.
TickLocks ==
    \/ EconomicStock \/ EconomicCommit \/ InspectFine(Tick) \/ InspectCommit(Tick)
    \/ CompleteLock \/ CompleteEffect \/ ExpireCommit

UpkeepFairSpec ==
    /\ UpkeepSpec
    /\ WF_vars(SchedulerStep)
    /\ SF_vars(TickLocks)
    /\ \A r \in Requests : WF_vars(Abort(r))
    /\ \A i \in EventIds : WF_vars(EventFallsDue(i))

-----------------------------------------------------------------------------
(* Properties. *)

\* Rows stay in their ranges: no balance and no stock is negative, although the
\* economic tick and the admin's request write what they have read before others
\* changed it.
UpkeepTypeOK ==
    /\ balance \in [Players -> Nat]
    /\ ledger \in [Players -> Int]
    /\ owner \in [Stations -> Players \cup {None}]
    /\ liters \in [Stations -> 0 .. Capacity]
    /\ upgrade \in [Stations -> [Types ->
           [level : 0 .. MaxLevel, status : Statuses, due : BOOLEAN]]]
    /\ open \in [Stations -> BOOLEAN]
    /\ events \in [EventIds -> EventRows \cup {None}]
    /\ turn \in DOMAIN After

\* A level enlarges the tanks, or raises the rating, at most once and not before
\* it is built, however purchases, completions and failed ticks overlap.
EffectsAreBuilt ==
    \A s \in Stations, t \in Types :
        effects[s][t] + (IF upgrade[s][t].status = "UNDER_CONSTRUCTION" THEN 1 ELSE 0)
            <= upgrade[s][t].level

\* Only a level whose time has passed comes into use: a level bought while the tick
\* completes the one before is not completed with it.
OnlyDueLevelsOpen ==
    [][\A s \in Stations, t \in Types :
           upgrade[s][t].status # "ACTIVE" /\ upgrade'[s][t].status = "ACTIVE"
               => upgrade[s][t].due]_vars

\* A closed station is named by an inspection that will open it again, although
\* inspections overlap and the end of one reads before it writes.
ClosedStationHasEvent ==
    \A s \in Stations : ~open[s] => \E i \in EventIds : events[i] # None /\ s \in events[i].stations

\* No upgrade stays overdue and no station stays closed: what is under construction
\* is finished or the next level is bought, and deadlocks with purchases, which hold
\* the station and wait for the upgrade, only delay it.
NothingStaysDue ==
    \A s \in Stations :
        /\ []<>open[s]
        /\ \A t \in Types :
               []<>~(upgrade[s][t].status = "UNDER_CONSTRUCTION" /\ upgrade[s][t].due)
=============================================================================
