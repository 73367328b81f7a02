------------------------------ MODULE Trading ------------------------------
(***************************************************************************)
(* Who owns a station and what was paid for it: purchase_station           *)
(* (services/station_service.py), the five operations on trade offers      *)
(* (services/trade_service.py), the expiry of offers by the scheduler      *)
(* (simulation/trades.py) and the end of the game.                         *)
(*                                                                         *)
(* A request is a sequence of SQL statements; each action below is one     *)
(* statement with the Python checks that follow it.  What the session      *)
(* keeps between two statements is in req[r].  In particular req[r].bal    *)
(* is the acting player's balance as accept_trade_offer read it BEFORE it  *)
(* locked the row: the later SELECT ... FOR UPDATE returns the object the  *)
(* session already holds and does not refresh it, so the copy stays.       *)
(*                                                                         *)
(* One fuel type; the price of an offer is the amount paid in total.       *)
(***************************************************************************)
EXTENDS GameStore, FiniteSets

CONSTANTS
    Offers,        \* ids of trade_offers rows: bounds how many are created
    Ops,           \* operations the requests perform
    Kinds,         \* types of offers they create: "station", "fuel"
    Prices,        \* prices players ask
    Volumes,       \* liters players offer
    StationPrice,  \* game_stations.purchase_price
    StartOwner     \* owners when the modelled part of the game starts

AllOps == {"purchase", "create", "accept", "reject", "cancel", "counter"}

ASSUME TradingAssumption ==
    /\ None \notin Offers
    /\ Ops \subseteq AllOps
    /\ Kinds \subseteq {"station", "fuel"}
    /\ Prices \subseteq Nat \ {0}
    /\ Volumes \subseteq Nat \ {0}
    /\ StationPrice \in Nat
    /\ StartOwner \in [Stations -> Players \cup {None}]

VARIABLES
    offers,     \* trade_offers rows
    payments,   \* per offer: pairs of FinancialTransaction rows that reference it
    req,        \* what the session of each request remembers
    due         \* offers the scheduler's expiry step has selected

tradeVars == <<offers, payments, req, due>>
vars == <<gameStatus, balance, ledger, owner, liters, held,
          offers, payments, req, due>>

-----------------------------------------------------------------------------
(* Rows and sessions. *)

Statuses == {"PENDING", "ACCEPTED", "REJECTED", "CANCELLED", "EXPIRED"}

\* A trade_offers row.  "overdue" stands for expires_at <= now(); "by" is not
\* a column: it remembers which player wrote the terms.
OfferRecords ==
    [status : Statuses, kind : Kinds, seller : Players,
     buyer : Players \cup {None}, station : Stations,
     price : Prices, liters : Volumes \cup {0},
     overdue : BOOLEAN, by : Players]

NoOffer == [status |-> "none"]

Exists(o) == offers[o] # NoOffer

Pcs == {"idle", "player", "lock", "offer", "station", "listing",
        "claimed", "taken", "insert"}

SessionRecords ==
    [pc : Pcs, op : AllOps \cup {None}, actor : Players \cup {None},
     offer : Offers \cup {None}, row : OfferRecords \cup {NoOffer},
     bal : Int, station : Stations \cup {None}, fuel : Int]

\* The refinery's row is for orders only (Supply).
Rows == ({"player"} \X Players) \cup ({"station", "fuel"} \X Stations)
           \cup ({"offer"} \X Offers) \cup {RefineryRow}

IdleReq == [pc |-> "idle", op |-> None, actor |-> None, offer |-> None,
            row |-> NoOffer, bal |-> 0, station |-> None, fuel |-> 0]

TypeOK ==
    /\ gameStatus \in {"RUNNING", "FINISHED"}
    /\ balance \in [Players -> Int]
    /\ ledger \in [Players -> Int]
    /\ owner \in [Stations -> Players \cup {None}]
    /\ liters \in [Stations -> Int]
    /\ held \in [Sessions -> SUBSET Rows]
    /\ offers \in [Offers -> OfferRecords \cup {NoOffer}]
    /\ payments \in [Offers -> Nat]
    /\ req \in [Requests -> SessionRecords]
    /\ due \subseteq Offers

Init ==
    /\ gameStatus = "RUNNING"
    /\ balance = [p \in Players |-> StartBalance]
    /\ ledger = [p \in Players |-> StartBalance]
    /\ owner = StartOwner
    /\ liters = [s \in Stations |-> StartLiters]
    /\ held = [s \in Sessions |-> {}]
    /\ offers = [o \in Offers |-> NoOffer]
    /\ payments = [o \in Offers |-> 0]
    /\ req = [r \in Requests |-> IdleReq]
    /\ due = {}

-----------------------------------------------------------------------------
(* Shapes shared by the steps. *)

At(r, op, pc) == req[r].op = op /\ req[r].pc = pc

\* The offer the request works on.  Its terms and seller never change, so for
\* these the session's copy and the row are the same.
Offer(r) == offers[req[r].offer]

\* The session takes the rows and goes on if the check passes; otherwise the
\* service raises, the session rolls back and nothing of it remains.
Continue(r, check, rows, next) ==
    /\ req' = [req EXCEPT ![r] = IF check THEN next ELSE IdleReq]
    /\ held' = [held EXCEPT ![r] = IF check THEN @ \cup rows ELSE {}]

\* COMMIT at the end of a request.
Finish(r) ==
    /\ req' = [req EXCEPT ![r] = IdleReq]
    /\ Release(r)

\* A read, or a write the session has not committed, changes no committed row.
NothingCommitted ==
    UNCHANGED <<gameStatus, balance, ledger, owner, liters, offers, payments, due>>

-----------------------------------------------------------------------------
(* The request arrives and _get_running_game lets it pass. *)

FirstPc(op) == CASE op = "purchase" -> "lock"
                 [] op = "accept"   -> "player"
                 [] op = "create"   -> "station"
                 [] OTHER           -> "offer"

\* Bound: as many requests that insert an offer as there are ids left.
RoomForOffer ==
    LET inserting == {r \in Requests : req[r].op \in {"create", "counter"}}
        used      == {o \in Offers : Exists(o)}
    IN Cardinality(inserting) + Cardinality(used) < Cardinality(Offers)

Begin(r) ==
    /\ req[r].pc = "idle"
    /\ gameStatus = "RUNNING"
    /\ \E op \in Ops, p \in Players :
         /\ op \in {"create", "counter"} => RoomForOffer
         /\ req' = [req EXCEPT ![r] =
                     [IdleReq EXCEPT !.pc = FirstPc(op), !.op = op, !.actor = p]]
    /\ NothingCommitted
    /\ UNCHANGED held

\* lock_timeout, statement_timeout, a deadlock victim, a dropped client or a
\* killed process: the transaction rolls back.
Abort(r) ==
    /\ req[r].pc # "idle"
    /\ Continue(r, FALSE, {}, IdleReq)
    /\ NothingCommitted

-----------------------------------------------------------------------------
(* purchase_station *)

\* SELECT the player FOR UPDATE: it is read for the first time, so it is fresh.
PurchaseLockPlayer(r) ==
    /\ At(r, "purchase", "lock")
    /\ Free(r, PlayerRow(req[r].actor))
    /\ Continue(r, TRUE, {PlayerRow(req[r].actor)}, [req[r] EXCEPT !.pc = "station"])
    /\ NothingCommitted

\* Faults: no funds check; a claim of a station that has an owner.
ClaimUnpaid(r) ==
    /\ At(r, "purchase", "station")
    /\ \E s \in Stations :
         /\ owner[s] = None => Free(r, StationRow(s))
         /\ Continue(r, owner[s] = None, {StationRow(s)},
                     [req[r] EXCEPT !.pc = "claimed", !.station = s])
    /\ NothingCommitted

ClaimOwned(r) ==
    /\ At(r, "purchase", "station")
    /\ \E s \in Stations :
         /\ Free(r, StationRow(s))
         /\ Continue(r, balance[req[r].actor] >= StationPrice, {StationRow(s)},
                     [req[r] EXCEPT !.pc = "claimed", !.station = s])
    /\ NothingCommitted

\* UPDATE ... SET owner WHERE owner IS NULL, then the balance check.
PurchaseClaimStation(r) ==
    /\ At(r, "purchase", "station")
    /\ \E s \in Stations :
         /\ owner[s] = None => Free(r, StationRow(s))
         /\ Continue(r, owner[s] = None /\ balance[req[r].actor] >= StationPrice,
                     {StationRow(s)},
                     [req[r] EXCEPT !.pc = "claimed", !.station = s])
    /\ NothingCommitted

\* Fault: the station changes hands, the money does not.
PurchaseForFree(r) ==
    /\ At(r, "purchase", "claimed")
    /\ owner' = [owner EXCEPT ![req[r].station] = req[r].actor]
    /\ Finish(r)
    /\ UNCHANGED <<gameStatus, balance, ledger, liters, offers, payments, due>>

PurchaseCommit(r) ==
    /\ At(r, "purchase", "claimed")
    /\ LET p == req[r].actor IN
         /\ owner' = [owner EXCEPT ![req[r].station] = p]
         /\ balance' = [balance EXCEPT ![p] = @ - StationPrice]
         /\ Post(p, -StationPrice)
    /\ Finish(r)
    /\ UNCHANGED <<gameStatus, liters, offers, payments, due>>

-----------------------------------------------------------------------------
(* create_trade_offer *)

\* SELECT the station; the terms of the offer come with the request.
CreateCheckStation(r) ==
    /\ At(r, "create", "station")
    /\ \E s \in Stations, k \in Kinds, c \in Prices, v \in Volumes,
          b \in (Players \ {req[r].actor}) \cup {None} :
         LET row == [status |-> "PENDING", kind |-> k, seller |-> req[r].actor,
                     buyer |-> b, station |-> s, price |-> c,
                     liters |-> IF k = "fuel" THEN v ELSE 0,
                     overdue |-> FALSE, by |-> req[r].actor]
         IN Continue(r, owner[s] = req[r].actor, {},
                     [req[r] EXCEPT !.pc = "listing", !.row = row])
    /\ NothingCommitted

Listed(s) == \E o \in Offers : /\ Exists(o)
                               /\ offers[o].kind = "station"
                               /\ offers[o].status = "PENDING"
                               /\ offers[o].station = s

\* SELECT the pending listings, or the stock the offer promises.
CreateCheckAsset(r) ==
    /\ At(r, "create", "listing")
    /\ LET row == req[r].row
           ok  == IF row.kind = "station" THEN ~Listed(row.station)
                                          ELSE liters[row.station] >= row.liters
       IN Continue(r, ok, {}, [req[r] EXCEPT !.pc = "insert"])
    /\ NothingCommitted

\* INSERT of req[r].row under a new id.  The foreign keys of the row wait until
\* no other session holds the players' rows FOR UPDATE.
CanInsert(r, o) ==
    /\ ~Exists(o)
    /\ Free(r, PlayerRow(req[r].row.seller))
    /\ req[r].row.buyer # None => Free(r, PlayerRow(req[r].row.buyer))

CreateCommit(r) ==
    /\ At(r, "create", "insert")
    /\ \E o \in Offers :
         /\ CanInsert(r, o)
         /\ offers' = [offers EXCEPT ![o] = req[r].row]
    /\ Finish(r)
    /\ UNCHANGED <<gameStatus, balance, ledger, owner, liters, payments, due>>

-----------------------------------------------------------------------------
(* accept_trade_offer *)

\* _get_member_player: the row enters the session, unlocked.
AcceptReadPlayer(r) ==
    /\ At(r, "accept", "player")
    /\ Continue(r, TRUE, {},
                [req[r] EXCEPT !.pc = "offer", !.bal = balance[req[r].actor]])
    /\ NothingCommitted

\* _get_offer and the three checks on it.
AcceptReadOffer(r) ==
    /\ At(r, "accept", "offer")
    /\ \E o \in Offers :
         /\ Exists(o)
         /\ Continue(r, /\ offers[o].status = "PENDING"
                        /\ offers[o].seller # req[r].actor
                        /\ offers[o].buyer \in {None, req[r].actor},
                     {},
                     [req[r] EXCEPT !.pc = "lock", !.offer = o])
    /\ NothingCommitted

\* Fault: the players are read without FOR UPDATE.
AcceptUnlocked(r) ==
    /\ At(r, "accept", "lock")
    /\ Continue(r, TRUE, {}, [req[r] EXCEPT !.pc = "station"])
    /\ NothingCommitted

\* One row of SELECT ... WHERE id IN (actor, seller) FOR UPDATE.  Sorting the
\* ids in the IN list does not order the locks, so either row may come first.
AcceptLockPlayer(r) ==
    /\ At(r, "accept", "lock")
    /\ \E p \in {req[r].actor, Offer(r).seller} :
         LET others == {req[r].actor, Offer(r).seller} \ {p}
             last   == \A q \in others : PlayerRow(q) \in held[r]
         IN /\ PlayerRow(p) \notin held[r]
            /\ Free(r, PlayerRow(p))
            /\ Continue(r, TRUE, {PlayerRow(p)},
                        [req[r] EXCEPT !.pc = IF last THEN "station" ELSE "lock"])
    /\ NothingCommitted

\* Station sale: funds check on the copy of the balance, then UPDATE ... SET
\* owner WHERE owner = seller.
AcceptClaimStation(r) ==
    /\ At(r, "accept", "station")
    /\ Offer(r).kind = "station"
    /\ LET s    == Offer(r).station
           paid == req[r].bal >= Offer(r).price
           own  == owner[s] = Offer(r).seller
       IN /\ paid /\ own => Free(r, StationRow(s))
          /\ Continue(r, paid /\ own, {StationRow(s)}, [req[r] EXCEPT !.pc = "claimed"])
    /\ NothingCommitted

\* Faults in what follows: no funds check; no capacity check.
ReadFuelUnpaid(r) ==
    /\ At(r, "accept", "station")
    /\ Offer(r).kind = "fuel"
    /\ \E s \in Stations :
         Continue(r, /\ owner[s] = req[r].actor
                     /\ liters[s] + Offer(r).liters <= Capacity,
                  {},
                  [req[r] EXCEPT !.pc = "listing", !.station = s, !.fuel = liters[s]])
    /\ NothingCommitted

ReadFuelUnbounded(r) ==
    /\ At(r, "accept", "station")
    /\ Offer(r).kind = "fuel"
    /\ \E s \in Stations :
         Continue(r, owner[s] = req[r].actor /\ req[r].bal >= Offer(r).price,
                  {},
                  [req[r] EXCEPT !.pc = "listing", !.station = s, !.fuel = liters[s]])
    /\ NothingCommitted

\* Fuel sale: SELECT the buyer's station and its stock, without a lock; then
\* the checks on ownership, funds and capacity.
AcceptReadBuyerFuel(r) ==
    /\ At(r, "accept", "station")
    /\ Offer(r).kind = "fuel"
    /\ \E s \in Stations :
         Continue(r, /\ owner[s] = req[r].actor
                     /\ req[r].bal >= Offer(r).price
                     /\ liters[s] + Offer(r).liters <= Capacity,
                  {},
                  [req[r] EXCEPT !.pc = "listing", !.station = s, !.fuel = liters[s]])
    /\ NothingCommitted

\* UPDATE the source tank WHERE current_liters >= liters.
AcceptDrawFuel(r) ==
    /\ At(r, "accept", "listing")
    /\ LET src    == Offer(r).station
           enough == liters[src] >= Offer(r).liters
       IN /\ enough => Free(r, FuelRow(src))
          /\ Continue(r, enough, {FuelRow(src)}, [req[r] EXCEPT !.pc = "claimed"])
    /\ NothingCommitted

\* Fault: UPDATE without the condition on the status.
TakeAnyOffer(r) ==
    /\ At(r, "accept", "claimed")
    /\ Free(r, OfferRow(req[r].offer))
    /\ Continue(r, TRUE, {OfferRow(req[r].offer)}, [req[r] EXCEPT !.pc = "taken"])
    /\ NothingCommitted

\* UPDATE the offer WHERE status = PENDING.
AcceptTakeOffer(r) ==
    /\ At(r, "accept", "claimed")
    /\ LET o       == req[r].offer
           pending == offers[o].status = "PENDING"
       IN /\ pending => Free(r, OfferRow(o))
          /\ Continue(r, pending, {OfferRow(o)}, [req[r] EXCEPT !.pc = "taken"])
    /\ NothingCommitted

\* _record_trade_payment: the buyer's new balance is computed from the copy,
\* the seller's from the row the lock returned.
Pay(r) ==
    LET buyer  == req[r].actor
        seller == Offer(r).seller
        amount == Offer(r).price
    IN /\ balance' = [balance EXCEPT ![buyer] = req[r].bal - amount,
                                     ![seller] = @ + amount]
       /\ ledger' = [ledger EXCEPT ![buyer] = @ - amount, ![seller] = @ + amount]
       /\ payments' = [payments EXCEPT ![req[r].offer] = @ + 1]

\* Fault: the buyer of an open offer is not written.
SettleAnonymously(r) ==
    /\ offers' = [offers EXCEPT ![req[r].offer].status = "ACCEPTED"]
    /\ Pay(r)
    /\ Finish(r)
    /\ UNCHANGED <<gameStatus, due>>

Settle(r) ==
    /\ offers' = [offers EXCEPT ![req[r].offer] =
                    [@ EXCEPT !.status = "ACCEPTED", !.buyer = req[r].actor]]
    /\ Pay(r)
    /\ Finish(r)
    /\ UNCHANGED <<gameStatus, due>>

AcceptCommitStationSale(r) ==
    /\ At(r, "accept", "taken")
    /\ Offer(r).kind = "station"
    /\ owner' = [owner EXCEPT ![Offer(r).station] = req[r].actor]
    /\ Settle(r)
    /\ UNCHANGED liters

\* What the ORM object of the buyer's tank holds when it is flushed.  Drawing
\* from that very tank has lowered the object too (synchronize_session).
BuyerLiters(r) ==
    LET same == req[r].station = Offer(r).station
    IN IF same /\ req[r].fuel >= Offer(r).liters
         THEN req[r].fuel
         ELSE req[r].fuel + Offer(r).liters

\* The flush writes the buyer's tank as an absolute value.
AcceptCommitFuelSale(r) ==
    /\ At(r, "accept", "taken")
    /\ Offer(r).kind = "fuel"
    /\ Free(r, FuelRow(req[r].station))
    /\ liters' = [[liters EXCEPT ![Offer(r).station] = @ - Offer(r).liters]
                         EXCEPT ![req[r].station] = BuyerLiters(r)]
    /\ Settle(r)
    /\ UNCHANGED owner

-----------------------------------------------------------------------------
(* reject_trade_offer, cancel_trade_offer, counter_trade_offer *)

\* Who may reject, cancel and counter the offer.  Only counter looks at the
\* status here; the conditional UPDATE looks at it for all three.
MayClose(op, p, row) ==
    CASE op = "reject"  -> row.buyer = p
      [] op = "cancel"  -> row.seller = p
      [] op = "counter" -> /\ row.status = "PENDING"
                           /\ row.buyer # None
                           /\ p \in {row.seller, row.buyer}

\* A counter-offer keeps parties and asset and brings its own price and volume.
Countered(row, p, c, v) ==
    [row EXCEPT !.price = c, !.liters = IF row.kind = "fuel" THEN v ELSE 0,
                !.overdue = FALSE, !.by = p]

CloseReadOffer(r) ==
    /\ req[r].op \in {"reject", "cancel", "counter"}
    /\ req[r].pc = "offer"
    /\ \E o \in Offers :
         /\ Exists(o)
         /\ IF req[r].op = "counter"
              THEN \E c \in Prices, v \in Volumes :
                     Continue(r, MayClose(req[r].op, req[r].actor, offers[o]), {},
                              [req[r] EXCEPT !.pc = "claimed", !.offer = o,
                                 !.row = Countered(offers[o], req[r].actor, c, v)])
              ELSE Continue(r, MayClose(req[r].op, req[r].actor, offers[o]), {},
                            [req[r] EXCEPT !.pc = "claimed", !.offer = o])
    /\ NothingCommitted

\* UPDATE the offer WHERE status = PENDING, and COMMIT.
CloseCommit(r) ==
    /\ req[r].op \in {"reject", "cancel"}
    /\ req[r].pc = "claimed"
    /\ LET o       == req[r].offer
           pending == offers[o].status = "PENDING"
           closed  == IF req[r].op = "reject" THEN "REJECTED" ELSE "CANCELLED"
       IN /\ pending => Free(r, OfferRow(o))
          /\ offers' = IF pending THEN [offers EXCEPT ![o] = [@ EXCEPT !.status = closed]]
                                  ELSE offers
    /\ Finish(r)
    /\ UNCHANGED <<gameStatus, balance, ledger, owner, liters, payments, due>>

\* UPDATE the offer WHERE status = PENDING ...
CounterSupersede(r) ==
    /\ At(r, "counter", "claimed")
    /\ LET o       == req[r].offer
           pending == offers[o].status = "PENDING"
       IN /\ pending => Free(r, OfferRow(o))
          /\ Continue(r, pending, {OfferRow(o)}, [req[r] EXCEPT !.pc = "insert"])
    /\ NothingCommitted

\* ... INSERT the new offer, and COMMIT both.
CounterCommit(r) ==
    /\ At(r, "counter", "insert")
    /\ \E o \in Offers :
         /\ CanInsert(r, o)
         /\ offers' = [offers EXCEPT ![o] = req[r].row,
                         ![req[r].offer] = [@ EXCEPT !.status = "REJECTED"]]
    /\ Finish(r)
    /\ UNCHANGED <<gameStatus, balance, ledger, owner, liters, payments, due>>

-----------------------------------------------------------------------------
(* The scheduler: one task, so its steps do not overlap each other. *)

\* expires_at passes.  Nothing reads it of an offer that is not pending.
Elapse(o) ==
    /\ offers[o].status = "PENDING"
    /\ ~offers[o].overdue
    /\ offers' = [offers EXCEPT ![o] = [@ EXCEPT !.overdue = TRUE]]
    /\ UNCHANGED <<gameStatus, balance, ledger, owner, liters, held, payments, req, due>>

\* Fault: the comparison with now() is turned round.
SelectNotDue ==
    /\ gameStatus = "RUNNING"
    /\ due = {}
    /\ due' = {o \in Offers : Exists(o) /\ offers[o].status = "PENDING"
                                        /\ ~offers[o].overdue}
    /\ due' # {}
    /\ UNCHANGED <<gameStatus, balance, ledger, owner, liters, held, offers, payments, req>>

\* expire_due_trade_offers_for_game, the SELECT: no lock.
ExpireSelect ==
    /\ gameStatus = "RUNNING"
    /\ due = {}
    /\ due' = {o \in Offers : Exists(o) /\ offers[o].status = "PENDING"
                                        /\ offers[o].overdue}
    /\ due' # {}
    /\ UNCHANGED <<gameStatus, balance, ledger, owner, liters, held, offers, payments, req>>

\* The flush in COMMIT: UPDATE ... SET status WHERE id, for one selected offer.
ExpireFlush ==
    /\ \E o \in due :
         /\ OfferRow(o) \notin held[Tick]
         /\ Free(Tick, OfferRow(o))
         /\ Take(Tick, {OfferRow(o)})
    /\ UNCHANGED <<gameStatus, balance, ledger, owner, liters, offers, payments, req, due>>

ExpireCommit ==
    /\ due # {}
    /\ \A o \in due : OfferRow(o) \in held[Tick]
    /\ offers' = [o \in Offers |-> IF o \in due THEN [offers[o] EXCEPT !.status = "EXPIRED"]
                                                ELSE offers[o]]
    /\ due' = {}
    /\ Release(Tick)
    /\ UNCHANGED <<gameStatus, balance, ledger, owner, liters, payments, req>>

\* lock_timeout or a restart: the step is logged as failed and left to the next tick.
ExpireAbort ==
    /\ due # {}
    /\ due' = {}
    /\ Release(Tick)
    /\ UNCHANGED <<gameStatus, balance, ledger, owner, liters, offers, payments, req>>

\* maybe_finish_game, at the start of a tick cycle.
FinishGame ==
    /\ gameStatus = "RUNNING"
    /\ due = {}
    /\ gameStatus' = "FINISHED"
    /\ UNCHANGED <<balance, ledger, owner, liters, held, offers, payments, req, due>>

-----------------------------------------------------------------------------
PurchaseSteps(r) ==
    PurchaseLockPlayer(r) \/ PurchaseClaimStation(r) \/ PurchaseCommit(r)

CreateSteps(r) == CreateCheckStation(r) \/ CreateCheckAsset(r) \/ CreateCommit(r)

AcceptSteps(r) ==
    \/ AcceptReadPlayer(r) \/ AcceptReadOffer(r) \/ AcceptLockPlayer(r)
    \/ AcceptClaimStation(r) \/ AcceptReadBuyerFuel(r) \/ AcceptDrawFuel(r)
    \/ AcceptTakeOffer(r) \/ AcceptCommitStationSale(r) \/ AcceptCommitFuelSale(r)

CloseSteps(r) ==
    CloseReadOffer(r) \/ CloseCommit(r) \/ CounterSupersede(r) \/ CounterCommit(r)

RequestStep(r) == PurchaseSteps(r) \/ CreateSteps(r) \/ AcceptSteps(r) \/ CloseSteps(r)

ExpireStep == ExpireSelect \/ ExpireFlush \/ ExpireCommit

Next ==
    \/ \E r \in Requests : Begin(r) \/ RequestStep(r) \/ Abort(r)
    \/ \E o \in Offers : Elapse(o)
    \/ ExpireStep \/ ExpireAbort
    \/ FinishGame

Spec == Init /\ [][Next]_vars

-----------------------------------------------------------------------------
(* Properties that hold. *)

\* No sequence of purchases and sales makes a player's balance negative, even
\* though accept_trade_offer checks and debits a copy of the buyer's balance.
NoOverdraft == \A p \in Players : balance[p] >= 0

\* Fuel sales neither overdraw a tank nor fill it over its capacity, although
\* the buyer's tank is read without a lock and written back as a whole.
TanksWithinCapacity == \A s \in Stations : liters[s] \in 0 .. Capacity

\* However accept, reject, cancel, counter and the expiry step race for an
\* offer, at most one payment is booked for it, an accepted offer has been
\* paid, and an offer that was turned down or withdrawn has not.
SettledOnce ==
    \A o \in Offers :
      /\ payments[o] \in {0, 1}
      /\ offers[o].status = "ACCEPTED" => payments[o] = 1
      /\ payments[o] = 1 => offers[o].status \in {"ACCEPTED", "EXPIRED"}

\* What a session may rely on between two statements, because it holds the
\* row locks named here: q is what it remembers, h the rows it holds.
PurchaseOK(q, h) ==
    /\ q.pc \in {"station", "claimed"} => PlayerRow(q.actor) \in h
    /\ q.pc = "claimed" => /\ q.station \in Stations
                           /\ StationRow(q.station) \in h
                           /\ owner[q.station] = None
                           /\ balance[q.actor] >= StationPrice

AcceptOK(q, h) ==
    LET d == offers[q.offer] IN
    /\ q.pc \in {"lock", "station", "listing", "claimed", "taken"} =>
         q.offer \in Offers /\ Exists(q.offer) /\ d.seller # q.actor
    /\ q.pc \in {"station", "listing", "claimed", "taken"} =>
         {PlayerRow(q.actor), PlayerRow(d.seller)} \subseteq h
    /\ q.pc \in {"listing", "claimed", "taken"} => q.bal >= d.price
    /\ q.pc = "listing" => d.kind = "fuel"
    /\ q.pc \in {"listing", "claimed", "taken"} /\ d.kind = "fuel" =>
         q.station \in Stations /\ q.fuel >= 0 /\ q.fuel + d.liters <= Capacity
    /\ q.pc \in {"claimed", "taken"} /\ d.kind = "station" =>
         StationRow(d.station) \in h /\ owner[d.station] = d.seller
    /\ q.pc \in {"claimed", "taken"} /\ d.kind = "fuel" =>
         FuelRow(d.station) \in h /\ liters[d.station] >= d.liters
    /\ q.pc = "taken" => OfferRow(q.offer) \in h /\ d.status = "PENDING"

CounterOK(q, h) ==
    /\ q.pc \in {"claimed", "insert"} => q.offer \in Offers /\ Exists(q.offer)
    /\ q.pc = "insert" => /\ OfferRow(q.offer) \in h
                          /\ offers[q.offer].status = "PENDING"

SessionOK(q, h) ==
    /\ q.pc # "idle" => q.actor \in Players
    /\ q.bal >= 0
    /\ q.op = "purchase" => PurchaseOK(q, h)
    /\ q.op = "accept" => AcceptOK(q, h)
    /\ q.op = "counter" => CounterOK(q, h)
    /\ <<q.op, q.pc>> \in {<<"create", "listing">>, <<"create", "insert">>,
                           <<"counter", "claimed">>, <<"counter", "insert">>}
       => q.row \in OfferRecords /\ q.row.status = "PENDING"

\* The row locks make every session's assumptions hold until it commits.
SessionsConsistent ==
    /\ \A s, t \in Sessions : s # t => held[s] \cap held[t] = {}
    /\ \A r \in Requests : SessionOK(req[r], held[r])
    /\ \A o \in due : Exists(o)

\* A station gets a new owner only by a purchase that found it unowned, or by
\* the settlement of a pending offer of that station by its owner of that
\* moment to the player who becomes the owner; it never becomes unowned.
SoldBy(s, o) ==
    /\ Exists(o)
    /\ offers[o].kind = "station"
    /\ offers[o].station = s
    /\ offers[o].status = "PENDING"
    /\ offers[o].seller = owner[s]
    /\ offers'[o].status = "ACCEPTED"
    /\ offers'[o].buyer = owner'[s]
    /\ payments'[o] = payments[o] + 1

OwnersChange ==
    \A s \in Stations : owner'[s] # owner[s] =>
       /\ owner'[s] # None
       /\ owner[s] = None \/ \E o \in Offers : SoldBy(s, o)

OwnershipChain == [][OwnersChange]_vars

\* The deals of the market that the rows stand for.  The payment decides
\* whether a deal was made: the status column alone does not, because the
\* expiry step also overwrites an offer that was settled after its SELECT.
Deal(o) ==
    IF ~Exists(o) THEN [state |-> "none"]
    ELSE [state |-> IF payments[o] > 0 THEN "sold"
                    ELSE IF offers[o].status = "PENDING" THEN "open" ELSE "closed",
          kind |-> offers[o].kind, seller |-> offers[o].seller,
          buyer |-> offers[o].buyer, station |-> offers[o].station,
          price |-> offers[o].price]

M == INSTANCE Market WITH deals <- [o \in Offers |-> Deal(o)]

\* Seen through owners, journal and deals, the concurrent requests behave as
\* if each operation were one atomic step of the market.
RefinesMarket == M!Spec

-----------------------------------------------------------------------------
(* What a document says, and the code does not do when requests overlap.   *)

\* TECHNICAL_SPEC 20.3: a balance never changes without a transaction record.
LedgerExplainsBalance == balance = ledger
=============================================================================
