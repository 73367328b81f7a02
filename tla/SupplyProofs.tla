---------------------------- MODULE SupplyProofs ----------------------------
(***************************************************************************)
(* Proofs about Trading, FuelOrders and Supply, for every set of players,  *)
(* stations, offers, orders and requests and every price, capacity and     *)
(* stock.                                                                  *)
(*                                                                         *)
(* Part 1, Trading: IndInv is inductive.  Besides the properties it says   *)
(* what each session may rely on between two of its statements             *)
(* (SessionsConsistent), which is what the row locks are for.  With the    *)
(* parties of each offer (MarketInv), Trading implements Market.           *)
(*                                                                         *)
(* Part 2, FuelOrders: OrderInv is inductive, again the properties and     *)
(* what each session may rely on.  FuelInv relates the sums over orders    *)
(* and stops to the tanks; with it FuelOrders implements Depot.            *)
(*                                                                         *)
(* Part 3, Supply: IndInv stays true when orders and trucks work on the    *)
(* same rows, and with it what a balance, a tank and the stock promise.    *)
(***************************************************************************)
EXTENDS Supply, Sums

-----------------------------------------------------------------------------
(* Part 1: Trading.                                                          *)

\* What of TanksWithinCapacity does not depend on who else fills the tanks.
TanksNotOverdrawn == \A s \in Stations : liters[s] >= 0

IndInv ==
    /\ TypeOK
    /\ NoOverdraft
    /\ TanksNotOverdrawn
    /\ SettledOnce
    /\ SessionsConsistent

\* The rows a session may name are rows of the store.
LEMMA RowTypes ==
    /\ \A p \in Players : PlayerRow(p) \in Rows
    /\ \A s \in Stations : StationRow(s) \in Rows /\ FuelRow(s) \in Rows
    /\ \A o \in Offers : OfferRow(o) \in Rows
BY DEF PlayerRow, StationRow, FuelRow, OfferRow, Rows

\* A session without a request has made no assumption.
LEMMA IdleOK == IdleReq \in SessionRecords /\ SessionOK(IdleReq, {})
BY DEF IdleReq, SessionRecords, SessionOK, PurchaseOK, AcceptOK, CounterOK, Pcs

\* Taking free rows keeps the locks exclusive; so does releasing rows.
LEMMA LocksStay ==
    ASSUME TypeOK, SessionsConsistent,
           NEW s \in Sessions, NEW rows \in SUBSET Rows,
           NEW h \in SUBSET (held[s] \cup rows),
           \A row \in rows : row \in h => Free(s, row),
           held' = [held EXCEPT ![s] = h]
    PROVE  /\ \A a, b \in Sessions : a # b => held'[a] \cap held'[b] = {}
           /\ held' \in [Sessions -> SUBSET Rows]
<1>1. \A a, b \in Sessions : a # b => held[a] \cap held[b] = {}
  BY DEF SessionsConsistent
<1>2. \A row \in h : \A t \in Sessions \ {s} : row \notin held[t]
  BY <1>1 DEF Free
<1>3. held \in [Sessions -> SUBSET Rows]
  BY DEF TypeOK
<1> QED
  BY <1>1, <1>2, <1>3

\* The statements that commit nothing: the session goes on with a record that
\* is right about the rows, or ends.
LEMMA ContinueStep ==
    ASSUME IndInv, NEW r \in Requests, NEW check \in BOOLEAN,
           NEW rows \in SUBSET Rows, NEW next \in SessionRecords,
           check => SessionOK(next, held[r] \cup rows),
           check => \A row \in rows : Free(r, row),
           Continue(r, check, rows, next),
           NothingCommitted
    PROVE  IndInv'
<1> DEFINE q == IF check THEN next ELSE IdleReq
           h == IF check THEN held[r] \cup rows ELSE {}
<1>1. r \in Sessions
  BY DEF Sessions
<1>2. /\ req' = [req EXCEPT ![r] = q]
      /\ held' = [held EXCEPT ![r] = h]
  BY <1>1 DEF Continue, IndInv, TypeOK
<1>3. q \in SessionRecords /\ SessionOK(q, h)
  BY IdleOK
<1>4. /\ \A a, b \in Sessions : a # b => held'[a] \cap held'[b] = {}
      /\ held' \in [Sessions -> SUBSET Rows]
  <2>1. h \in SUBSET (held[r] \cup rows)
    OBVIOUS
  <2>2. \A row \in rows : row \in h => Free(r, row)
    OBVIOUS
  <2> QED
    BY <1>1, <1>2, <2>1, <2>2, LocksStay DEF IndInv
<1>5. TypeOK'
  BY <1>2, <1>3, <1>4 DEF IndInv, TypeOK, NothingCommitted
<1>6. (NoOverdraft /\ TanksNotOverdrawn /\ SettledOnce)'
  BY DEF IndInv, NoOverdraft, TanksNotOverdrawn, SettledOnce, NothingCommitted
<1>7. \A t \in Requests : SessionOK(req[t], held[t])'
  <2> SUFFICES ASSUME NEW t \in Requests
               PROVE  SessionOK(req[t], held[t])'
    OBVIOUS
  <2>1. SessionOK(req'[t], held'[t])
    <3>1. CASE t = r
      BY <3>1, <1>1, <1>2, <1>3 DEF IndInv, TypeOK
    <3>2. CASE t # r
      BY <3>2, <1>1, <1>2 DEF IndInv, TypeOK, SessionsConsistent, Sessions
    <3> QED
      BY <3>1, <3>2
  <2> QED
    BY <2>1 DEF SessionOK, PurchaseOK, AcceptOK, CounterOK, NothingCommitted, Exists
<1>8. \A o \in due' : Exists(o)'
  BY DEF IndInv, SessionsConsistent, NothingCommitted, Exists
<1> QED
  BY <1>4, <1>5, <1>6, <1>7, <1>8 DEF IndInv, SessionsConsistent

-----------------------------------------------------------------------------
(* One lemma for each statement that commits nothing. *)

LEMMA BeginStep ==
    ASSUME IndInv, NEW r \in Requests, Begin(r)
    PROVE  IndInv'
<1>1. PICK op \in Ops, p \in Players :
        req' = [req EXCEPT ![r] =
                  [IdleReq EXCEPT !.pc = FirstPc(op), !.op = op, !.actor = p]]
  BY DEF Begin
<1> DEFINE next == [IdleReq EXCEPT !.pc = FirstPc(op), !.op = op, !.actor = p]
<1>2. op \in AllOps
  BY TradingAssumption
<1>3. FirstPc(op) \in {"lock", "player", "station", "offer"}
  BY <1>2 DEF FirstPc, AllOps
<1>4. next \in SessionRecords
  BY <1>2, <1>3, IdleOK DEF IdleReq, SessionRecords, Pcs
<1>5. SessionOK(next, held[r] \cup {})
  BY <1>2, <1>3 DEF SessionOK, PurchaseOK, AcceptOK, CounterOK, IdleReq, FirstPc, AllOps
<1>6. Continue(r, TRUE, {}, next)
  <2>1. held' = [held EXCEPT ![r] = @ \cup {}]
    BY DEF Begin, IndInv, TypeOK, Sessions
  <2> QED
    BY <1>1, <2>1 DEF Continue
<1>7. NothingCommitted
  BY DEF Begin
<1> HIDE DEF next
<1> QED
  BY <1>4, <1>5, <1>6, <1>7, ContinueStep

LEMMA AbortStep ==
    ASSUME IndInv, NEW r \in Requests, Abort(r)
    PROVE  IndInv'
<1>1. IdleReq \in SessionRecords
  BY IdleOK
<1> QED
  BY <1>1, ContinueStep DEF Abort

LEMMA PurchaseLockPlayerStep ==
    ASSUME IndInv, NEW r \in Requests, PurchaseLockPlayer(r)
    PROVE  IndInv'
<1> DEFINE rows == {PlayerRow(req[r].actor)}
           next == [req[r] EXCEPT !.pc = "station"]
<1>1. req[r] \in SessionRecords /\ SessionOK(req[r], held[r])
  BY DEF IndInv, TypeOK, SessionsConsistent
<1>2. req[r].actor \in Players
  BY <1>1 DEF PurchaseLockPlayer, At, SessionOK
<1>3. next \in SessionRecords
  BY <1>1 DEF SessionRecords, Pcs
<1>4. SessionOK(next, held[r] \cup rows)
  BY <1>1, <1>2 DEF PurchaseLockPlayer, At, SessionOK, PurchaseOK, SessionRecords
<1>5. rows \in SUBSET Rows
  BY <1>2, RowTypes
<1> QED
  BY <1>3, <1>4, <1>5, ContinueStep DEF PurchaseLockPlayer

LEMMA PurchaseClaimStationStep ==
    ASSUME IndInv, NEW r \in Requests, PurchaseClaimStation(r)
    PROVE  IndInv'
<1>1. PICK s \in Stations :
        /\ owner[s] = None => Free(r, StationRow(s))
        /\ Continue(r, owner[s] = None /\ balance[req[r].actor] >= StationPrice,
                    {StationRow(s)},
                    [req[r] EXCEPT !.pc = "claimed", !.station = s])
  BY DEF PurchaseClaimStation
<1> DEFINE check == owner[s] = None /\ balance[req[r].actor] >= StationPrice
           next == [req[r] EXCEPT !.pc = "claimed", !.station = s]
<1>2. req[r] \in SessionRecords /\ SessionOK(req[r], held[r])
  BY DEF IndInv, TypeOK, SessionsConsistent
<1>3. next \in SessionRecords
  BY <1>2 DEF SessionRecords, Pcs
<1>4. check => SessionOK(next, held[r] \cup {StationRow(s)})
  BY <1>2 DEF PurchaseClaimStation, At, SessionOK, PurchaseOK, SessionRecords
<1>5. {StationRow(s)} \in SUBSET Rows
  BY RowTypes
<1> QED
  BY <1>1, <1>3, <1>4, <1>5, ContinueStep DEF PurchaseClaimStation

LEMMA CreateCheckStationStep ==
    ASSUME IndInv, NEW r \in Requests, CreateCheckStation(r)
    PROVE  IndInv'
<1> DEFINE row(s, k, c, v, b) ==
             [status |-> "PENDING", kind |-> k, seller |-> req[r].actor,
              buyer |-> b, station |-> s, price |-> c,
              liters |-> IF k = "fuel" THEN v ELSE 0,
              overdue |-> FALSE, by |-> req[r].actor]
<1>1. PICK s \in Stations, k \in Kinds, c \in Prices, v \in Volumes,
          b \in (Players \ {req[r].actor}) \cup {None} :
        Continue(r, owner[s] = req[r].actor, {},
                 [req[r] EXCEPT !.pc = "listing", !.row = row(s, k, c, v, b)])
  BY DEF CreateCheckStation
<1> DEFINE next == [req[r] EXCEPT !.pc = "listing", !.row = row(s, k, c, v, b)]
<1>2. req[r] \in SessionRecords /\ SessionOK(req[r], held[r])
  BY DEF IndInv, TypeOK, SessionsConsistent
<1>3. req[r].actor \in Players
  BY <1>2 DEF CreateCheckStation, At, SessionOK
<1>4. row(s, k, c, v, b) \in OfferRecords
  BY <1>3 DEF OfferRecords, Statuses
<1>5. next \in SessionRecords
  BY <1>2, <1>4 DEF SessionRecords, Pcs
<1>6. SessionOK(next, held[r] \cup {})
  <2> HIDE DEF row
  <2>1. row(s, k, c, v, b).status = "PENDING"
    BY DEF row
  <2> QED
    BY <1>2, <1>3, <1>4, <2>1
    DEF CreateCheckStation, At, SessionOK, SessionRecords
<1>7. (owner[s] = req[r].actor) \in BOOLEAN
  OBVIOUS
<1>8. Continue(r, owner[s] = req[r].actor, {}, next)
  BY <1>1
<1> HIDE DEF next
<1> QED
  BY <1>5, <1>6, <1>7, <1>8, ContinueStep DEF CreateCheckStation

LEMMA CreateCheckAssetStep ==
    ASSUME IndInv, NEW r \in Requests, CreateCheckAsset(r)
    PROVE  IndInv'
<1> DEFINE row == req[r].row
           ok == IF row.kind = "station" THEN ~Listed(row.station)
                                         ELSE liters[row.station] >= row.liters
           next == [req[r] EXCEPT !.pc = "insert"]
<1>1. Continue(r, ok, {}, next)
  BY DEF CreateCheckAsset
<1>2. req[r] \in SessionRecords /\ SessionOK(req[r], held[r])
  BY DEF IndInv, TypeOK, SessionsConsistent
<1>3. next \in SessionRecords
  BY <1>2 DEF SessionRecords, Pcs
<1>4. SessionOK(next, held[r] \cup {})
  BY <1>2 DEF CreateCheckAsset, At, SessionOK, SessionRecords
<1>5. ok \in BOOLEAN
  <2>1. row \in OfferRecords
    BY <1>2 DEF CreateCheckAsset, At, SessionOK
  <2>2. CASE row.kind = "station"
    BY <2>2
  <2>3. CASE row.kind # "station"
    BY <2>3
  <2> QED
    BY <2>2, <2>3
<1> HIDE DEF ok, next
<1> QED
  BY <1>1, <1>3, <1>4, <1>5, ContinueStep DEF CreateCheckAsset

LEMMA AcceptReadPlayerStep ==
    ASSUME IndInv, NEW r \in Requests, AcceptReadPlayer(r)
    PROVE  IndInv'
<1> DEFINE next == [req[r] EXCEPT !.pc = "offer", !.bal = balance[req[r].actor]]
<1>1. req[r] \in SessionRecords /\ SessionOK(req[r], held[r])
  BY DEF IndInv, TypeOK, SessionsConsistent
<1>2. balance[req[r].actor] \in Int /\ balance[req[r].actor] >= 0
  BY <1>1 DEF AcceptReadPlayer, At, SessionOK, IndInv, TypeOK, NoOverdraft
<1>3. next \in SessionRecords
  BY <1>1, <1>2 DEF SessionRecords, Pcs
<1>4. SessionOK(next, held[r] \cup {})
  BY <1>1, <1>2 DEF AcceptReadPlayer, At, SessionOK, AcceptOK, SessionRecords
<1>5. Continue(r, TRUE, {}, next)
  BY DEF AcceptReadPlayer
<1> HIDE DEF next
<1> QED
  BY <1>3, <1>4, <1>5, ContinueStep DEF AcceptReadPlayer

LEMMA AcceptReadOfferStep ==
    ASSUME IndInv, NEW r \in Requests, AcceptReadOffer(r)
    PROVE  IndInv'
<1> DEFINE check(o) == /\ offers[o].status = "PENDING"
                       /\ offers[o].seller # req[r].actor
                       /\ offers[o].buyer \in {None, req[r].actor}
           next(o) == [req[r] EXCEPT !.pc = "lock", !.offer = o]
<1>1. PICK o \in Offers : Exists(o) /\ Continue(r, check(o), {}, next(o))
  BY DEF AcceptReadOffer
<1>2. req[r] \in SessionRecords /\ SessionOK(req[r], held[r])
  BY DEF IndInv, TypeOK, SessionsConsistent
<1>3. next(o) \in SessionRecords
  BY <1>2 DEF SessionRecords, Pcs
<1>4. check(o) => SessionOK(next(o), held[r] \cup {})
  BY <1>1, <1>2 DEF AcceptReadOffer, At, SessionOK, AcceptOK, SessionRecords
<1>5. check(o) \in BOOLEAN
  OBVIOUS
<1> HIDE DEF check, next
<1> QED
  BY <1>1, <1>3, <1>4, <1>5, ContinueStep DEF AcceptReadOffer

LEMMA AcceptLockPlayerStep ==
    ASSUME IndInv, NEW r \in Requests, AcceptLockPlayer(r)
    PROVE  IndInv'
<1> DEFINE both == {req[r].actor, Offer(r).seller}
           last(p) == \A x \in both \ {p} : PlayerRow(x) \in held[r]
           next(p) == [req[r] EXCEPT !.pc = IF last(p) THEN "station" ELSE "lock"]
<1>1. PICK p \in both :
        /\ Free(r, PlayerRow(p))
        /\ Continue(r, TRUE, {PlayerRow(p)}, next(p))
  BY DEF AcceptLockPlayer
<1>2. req[r] \in SessionRecords /\ SessionOK(req[r], held[r])
  BY DEF IndInv, TypeOK, SessionsConsistent
<1>3. next(p) \in SessionRecords
  BY <1>2 DEF SessionRecords, Pcs
<1>4. Offer(r) \in OfferRecords /\ both \subseteq Players
  BY <1>2 DEF AcceptLockPlayer, At, SessionOK, AcceptOK, Exists, Offer,
              IndInv, TypeOK, OfferRecords
<1>5. SessionOK(next(p), held[r] \cup {PlayerRow(p)})
  <2>1. CASE last(p)
    BY <1>2, <1>4, <2>1
    DEF AcceptLockPlayer, At, SessionOK, AcceptOK, SessionRecords, Offer
  <2>2. CASE ~last(p)
    BY <1>2, <1>4, <2>2
    DEF AcceptLockPlayer, At, SessionOK, AcceptOK, SessionRecords, Offer
  <2> QED
    BY <2>1, <2>2
<1>6. {PlayerRow(p)} \in SUBSET Rows
  BY <1>4, RowTypes
<1> HIDE DEF next
<1> QED
  BY <1>1, <1>3, <1>5, <1>6, ContinueStep DEF AcceptLockPlayer

LEMMA AcceptClaimStationStep ==
    ASSUME IndInv, NEW r \in Requests, AcceptClaimStation(r)
    PROVE  IndInv'
<1> DEFINE s == Offer(r).station
           check == req[r].bal >= Offer(r).price /\ owner[s] = Offer(r).seller
           next == [req[r] EXCEPT !.pc = "claimed"]
<1>1. /\ check => Free(r, StationRow(s))
      /\ Continue(r, check, {StationRow(s)}, next)
  BY DEF AcceptClaimStation
<1>2. req[r] \in SessionRecords /\ SessionOK(req[r], held[r])
  BY DEF IndInv, TypeOK, SessionsConsistent
<1>3. next \in SessionRecords
  BY <1>2 DEF SessionRecords, Pcs
<1>4. Offer(r) \in OfferRecords
  BY <1>2 DEF AcceptClaimStation, At, SessionOK, AcceptOK, Exists, Offer, IndInv, TypeOK
<1>5. check => SessionOK(next, held[r] \cup {StationRow(s)})
  BY <1>2, <1>4
  DEF AcceptClaimStation, At, SessionOK, AcceptOK, SessionRecords, Offer
<1>6. {StationRow(s)} \in SUBSET Rows
  BY <1>4, RowTypes DEF OfferRecords
<1>7. check \in BOOLEAN
  OBVIOUS
<1> HIDE DEF check, next, s
<1> QED
  BY <1>1, <1>3, <1>5, <1>6, <1>7, ContinueStep DEF AcceptClaimStation

LEMMA AcceptReadBuyerFuelStep ==
    ASSUME IndInv, NEW r \in Requests, AcceptReadBuyerFuel(r)
    PROVE  IndInv'
<1> DEFINE check(s) == /\ owner[s] = req[r].actor
                       /\ req[r].bal >= Offer(r).price
                       /\ liters[s] + Offer(r).liters <= Capacity
           next(s) == [req[r] EXCEPT !.pc = "listing", !.station = s, !.fuel = liters[s]]
<1>1. PICK s \in Stations : Continue(r, check(s), {}, next(s))
  BY DEF AcceptReadBuyerFuel
<1>2. req[r] \in SessionRecords /\ SessionOK(req[r], held[r])
  BY DEF IndInv, TypeOK, SessionsConsistent
<1>3. liters[s] \in Int /\ liters[s] >= 0
  BY StoreAssumption DEF IndInv, TypeOK, TanksNotOverdrawn
<1>4. next(s) \in SessionRecords
  BY <1>2, <1>3 DEF SessionRecords, Pcs
<1>5. check(s) => SessionOK(next(s), held[r] \cup {})
  BY <1>2, <1>3
  DEF AcceptReadBuyerFuel, At, SessionOK, AcceptOK, SessionRecords, Offer
<1>6. check(s) \in BOOLEAN
  OBVIOUS
<1> HIDE DEF check, next
<1> QED
  BY <1>1, <1>4, <1>5, <1>6, ContinueStep DEF AcceptReadBuyerFuel

LEMMA AcceptDrawFuelStep ==
    ASSUME IndInv, NEW r \in Requests, AcceptDrawFuel(r)
    PROVE  IndInv'
<1> DEFINE src == Offer(r).station
           check == liters[src] >= Offer(r).liters
           next == [req[r] EXCEPT !.pc = "claimed"]
<1>1. /\ check => Free(r, FuelRow(src))
      /\ Continue(r, check, {FuelRow(src)}, next)
  BY DEF AcceptDrawFuel
<1>2. req[r] \in SessionRecords /\ SessionOK(req[r], held[r])
  BY DEF IndInv, TypeOK, SessionsConsistent
<1>3. next \in SessionRecords
  BY <1>2 DEF SessionRecords, Pcs
<1>4. Offer(r) \in OfferRecords
  BY <1>2 DEF AcceptDrawFuel, At, SessionOK, AcceptOK, Exists, Offer, IndInv, TypeOK
<1>5. check => SessionOK(next, held[r] \cup {FuelRow(src)})
  BY <1>2, <1>4
  DEF AcceptDrawFuel, At, SessionOK, AcceptOK, SessionRecords, Offer
<1>6. {FuelRow(src)} \in SUBSET Rows
  BY <1>4, RowTypes DEF OfferRecords
<1>7. check \in BOOLEAN
  OBVIOUS
<1> HIDE DEF check, next, src
<1> QED
  BY <1>1, <1>3, <1>5, <1>6, <1>7, ContinueStep DEF AcceptDrawFuel

LEMMA AcceptTakeOfferStep ==
    ASSUME IndInv, NEW r \in Requests, AcceptTakeOffer(r)
    PROVE  IndInv'
<1> DEFINE o == req[r].offer
           check == offers[o].status = "PENDING"
           next == [req[r] EXCEPT !.pc = "taken"]
<1>1. /\ check => Free(r, OfferRow(o))
      /\ Continue(r, check, {OfferRow(o)}, next)
  BY DEF AcceptTakeOffer
<1>2. req[r] \in SessionRecords /\ SessionOK(req[r], held[r])
  BY DEF IndInv, TypeOK, SessionsConsistent
<1>3. next \in SessionRecords
  BY <1>2 DEF SessionRecords, Pcs
<1>4. o \in Offers
  BY <1>2 DEF AcceptTakeOffer, At, SessionOK, AcceptOK
<1>5. check => SessionOK(next, held[r] \cup {OfferRow(o)})
  BY <1>2, <1>4 DEF AcceptTakeOffer, At, SessionOK, AcceptOK, SessionRecords
<1>6. {OfferRow(o)} \in SUBSET Rows
  BY <1>4, RowTypes
<1>7. check \in BOOLEAN
  OBVIOUS
<1> HIDE DEF check, next, o
<1> QED
  BY <1>1, <1>3, <1>5, <1>6, <1>7, ContinueStep DEF AcceptTakeOffer

LEMMA CloseReadOfferStep ==
    ASSUME IndInv, NEW r \in Requests, CloseReadOffer(r)
    PROVE  IndInv'
<1> DEFINE may(o) == MayClose(req[r].op, req[r].actor, offers[o])
           closing(o) == [req[r] EXCEPT !.pc = "claimed", !.offer = o]
           countering(o, c, v) ==
             [req[r] EXCEPT !.pc = "claimed", !.offer = o,
                            !.row = Countered(offers[o], req[r].actor, c, v)]
<1>1. req[r] \in SessionRecords /\ SessionOK(req[r], held[r])
  BY DEF IndInv, TypeOK, SessionsConsistent
<1>2. req[r].actor \in Players
  BY <1>1 DEF CloseReadOffer, SessionOK
<1>3. PICK o \in Offers :
        /\ Exists(o)
        /\ IF req[r].op = "counter"
             THEN \E c \in Prices, v \in Volumes :
                    Continue(r, may(o), {}, countering(o, c, v))
             ELSE Continue(r, may(o), {}, closing(o))
  BY DEF CloseReadOffer
<1>4. offers[o] \in OfferRecords
  BY <1>3 DEF IndInv, TypeOK, Exists
<1>5. may(o) \in BOOLEAN
  BY <1>4 DEF MayClose, CloseReadOffer, OfferRecords
<1>8. NothingCommitted
  BY DEF CloseReadOffer
<1>6. CASE req[r].op = "counter"
  <2>1. PICK c \in Prices, v \in Volumes :
          Continue(r, may(o), {}, countering(o, c, v))
    BY <1>3, <1>6
  <2>2. Countered(offers[o], req[r].actor, c, v) \in OfferRecords
    BY <1>2, <1>4 DEF Countered, OfferRecords
  <2>3. Countered(offers[o], req[r].actor, c, v).status = offers[o].status
    BY <1>4 DEF Countered, OfferRecords
  <2>4. countering(o, c, v) \in SessionRecords
    BY <1>1, <2>2 DEF SessionRecords, Pcs
  <2>5. may(o) => offers[o].status = "PENDING"
    BY <1>6 DEF MayClose
  <2>6. may(o) => SessionOK(countering(o, c, v), held[r] \cup {})
    BY <1>1, <1>2, <1>3, <1>6, <2>2, <2>3, <2>5
    DEF SessionOK, CounterOK, SessionRecords
  <2> DEFINE next == countering(o, c, v)
  <2>7. /\ Continue(r, may(o), {}, next)
        /\ next \in SessionRecords
        /\ may(o) => SessionOK(next, held[r] \cup {})
    BY <2>1, <2>4, <2>6
  <2> HIDE DEF may, next
  <2> QED
    BY <1>5, <1>8, <2>7, ContinueStep
<1>7. CASE req[r].op # "counter"
  <2>1. Continue(r, may(o), {}, closing(o))
    BY <1>3, <1>7
  <2>2. closing(o) \in SessionRecords
    BY <1>1 DEF SessionRecords, Pcs
  <2>3. SessionOK(closing(o), held[r] \cup {})
    BY <1>1, <1>2, <1>7 DEF CloseReadOffer, SessionOK, SessionRecords
  <2> HIDE DEF may, closing, countering
  <2> QED
    BY <1>5, <1>8, <2>1, <2>2, <2>3, ContinueStep
<1> QED
  BY <1>6, <1>7

LEMMA CounterSupersedeStep ==
    ASSUME IndInv, NEW r \in Requests, CounterSupersede(r)
    PROVE  IndInv'
<1> DEFINE o == req[r].offer
           check == offers[o].status = "PENDING"
           next == [req[r] EXCEPT !.pc = "insert"]
<1>1. /\ check => Free(r, OfferRow(o))
      /\ Continue(r, check, {OfferRow(o)}, next)
  BY DEF CounterSupersede
<1>2. req[r] \in SessionRecords /\ SessionOK(req[r], held[r])
  BY DEF IndInv, TypeOK, SessionsConsistent
<1>3. next \in SessionRecords
  BY <1>2 DEF SessionRecords, Pcs
<1>4. o \in Offers
  BY <1>2 DEF CounterSupersede, At, SessionOK, CounterOK
<1>5. check => SessionOK(next, held[r] \cup {OfferRow(o)})
  BY <1>2, <1>4 DEF CounterSupersede, At, SessionOK, CounterOK, SessionRecords
<1>6. {OfferRow(o)} \in SUBSET Rows
  BY <1>4, RowTypes
<1>7. check \in BOOLEAN
  OBVIOUS
<1> HIDE DEF check, next, o
<1> QED
  BY <1>1, <1>3, <1>5, <1>6, <1>7, ContinueStep DEF CounterSupersede

-----------------------------------------------------------------------------
(* The commits.  A session that ends leaves the other sessions' rows alone. *)

\* Rows are equal only if they are the same row of the same table.
LEMMA RowsDiffer ==
    /\ \A p, q : PlayerRow(p) = PlayerRow(q) => p = q
    /\ \A s, t : StationRow(s) = StationRow(t) => s = t
    /\ \A s, t : FuelRow(s) = FuelRow(t) => s = t
    /\ \A o, x : OfferRow(o) = OfferRow(x) => o = x
BY DEF PlayerRow, StationRow, FuelRow, OfferRow

\* COMMIT ends the session of r and touches no other.
LEMMA FinishSession ==
    ASSUME TypeOK, SessionsConsistent, NEW r \in Requests, Finish(r)
    PROVE  /\ req' \in [Requests -> SessionRecords]
           /\ held' \in [Sessions -> SUBSET Rows]
           /\ \A a, b \in Sessions : a # b => held'[a] \cap held'[b] = {}
           /\ req'[r] = IdleReq /\ held'[r] = {}
           /\ \A t \in Requests \ {r} : req'[t] = req[t] /\ held'[t] = held[t]
<1>1. r \in Sessions /\ Requests \subseteq Sessions
  BY DEF Sessions
<1>2. req' = [req EXCEPT ![r] = IdleReq] /\ held' = [held EXCEPT ![r] = {}]
  BY DEF Finish, Release
<1>3. req' \in [Requests -> SessionRecords]
  BY <1>2, IdleOK DEF TypeOK
<1>4. /\ \A a, b \in Sessions : a # b => held'[a] \cap held'[b] = {}
      /\ held' \in [Sessions -> SUBSET Rows]
  BY <1>1, <1>2 DEF TypeOK, SessionsConsistent
<1> QED
  BY <1>1, <1>2, <1>3, <1>4 DEF TypeOK

\* The rest of IndInv' when the session of r ends: the assumptions of every
\* other session hold after the step, and no offer disappears.
LEMMA FinishStep ==
    ASSUME IndInv, NEW r \in Requests, Finish(r), UNCHANGED due,
           (TypeOK /\ NoOverdraft /\ TanksNotOverdrawn /\ SettledOnce)',
           \A t \in Requests \ {r} : SessionOK(req[t], held[t])',
           \A o \in due : Exists(o)'
    PROVE  IndInv'
<1>1. /\ \A a, b \in Sessions : a # b => held'[a] \cap held'[b] = {}
      /\ req'[r] = IdleReq /\ held'[r] = {}
  BY FinishSession DEF IndInv
<1>2. SessionOK(req[r], held[r])'
  BY <1>1 DEF SessionOK, PurchaseOK, AcceptOK, CounterOK, IdleReq
<1>3. \A t \in Requests : SessionOK(req[t], held[t])'
  BY <1>2
<1> QED
  BY <1>1, <1>3 DEF IndInv, SessionsConsistent

\* An offer keeps existing and keeps its parties, asset and terms.
KeepsTerms(o) ==
    Exists(o) => /\ Exists(o)'
                 /\ offers'[o].kind = offers[o].kind
                 /\ offers'[o].seller = offers[o].seller
                 /\ offers'[o].station = offers[o].station
                 /\ offers'[o].price = offers[o].price
                 /\ offers'[o].liters = offers[o].liters

\* Rewriting the status of an offer gives an offer with the same terms.
LEMMA StatusWrite ==
    ASSUME NEW d \in OfferRecords, NEW st \in Statuses,
           NEW e, e = [d EXCEPT !.status = st]
    PROVE  /\ e \in OfferRecords /\ e # NoOffer /\ e.status = st
           /\ e.kind = d.kind /\ e.seller = d.seller /\ e.station = d.station
           /\ e.price = d.price /\ e.liters = d.liters
<1>1. e.status = st /\ NoOffer.status = "none"
  BY DEF OfferRecords, NoOffer
<1>2. st # "none"
  BY DEF Statuses
<1> QED
  BY <1>1, <1>2 DEF OfferRecords

\* What the row locks are for: if a step changes only rows that session t does
\* not hold, then t's assumptions survive the step.
LEMMA OthersOK ==
    ASSUME TypeOK, NEW t \in Requests, SessionOK(req[t], held[t]),
           req'[t] = req[t], held'[t] = held[t],
           \A o \in Offers : KeepsTerms(o),
           \A o \in Offers : Exists(o) /\ OfferRow(o) \in held[t]
              => offers'[o].status = offers[o].status,
           \A s \in Stations : StationRow(s) \in held[t] => owner'[s] = owner[s],
           \A s \in Stations : FuelRow(s) \in held[t] => liters'[s] = liters[s],
           \A p \in Players : PlayerRow(p) \in held[t] => balance'[p] = balance[p]
    PROVE  SessionOK(req[t], held[t])'
<1> DEFINE q == req[t]
           h == held[t]
<1>1. q \in SessionRecords
  BY DEF TypeOK
<1>2. q.op = "purchase" => PurchaseOK(q, h)'
  <2> SUFFICES ASSUME q.op = "purchase", PurchaseOK(q, h),
                      q.pc # "idle" => q.actor \in Players
               PROVE  PurchaseOK(q, h)'
    BY DEF SessionOK
  <2> QED
    BY DEF PurchaseOK
<1>3. q.op = "accept" => AcceptOK(q, h)'
  <2> SUFFICES ASSUME q.op = "accept", AcceptOK(q, h)
               PROVE  AcceptOK(q, h)'
    BY DEF SessionOK
  <2>1. q.pc \in {"lock", "station", "listing", "claimed", "taken"}
          => q.offer \in Offers /\ Exists(q.offer) /\ offers[q.offer] \in OfferRecords
    BY DEF AcceptOK, TypeOK, Exists
  <2> QED
    BY <2>1 DEF AcceptOK, KeepsTerms, OfferRecords
<1>4. q.op = "counter" => CounterOK(q, h)'
  <2> SUFFICES ASSUME q.op = "counter", CounterOK(q, h)
               PROVE  CounterOK(q, h)'
    BY DEF SessionOK
  <2> QED
    BY DEF CounterOK, KeepsTerms
<1> QED
  BY <1>2, <1>3, <1>4 DEF SessionOK

LEMMA PurchaseCommitStep ==
    ASSUME IndInv, NEW r \in Requests, PurchaseCommit(r)
    PROVE  IndInv'
<1> DEFINE p == req[r].actor
           s == req[r].station
<1>1. /\ owner' = [owner EXCEPT ![s] = p]
      /\ balance' = [balance EXCEPT ![p] = @ - StationPrice]
      /\ ledger' = [ledger EXCEPT ![p] = @ - StationPrice]
      /\ Finish(r)
      /\ UNCHANGED <<gameStatus, liters, offers, payments, due>>
  BY DEF PurchaseCommit, Post, IndInv, TypeOK, TradingAssumption
<1>2. req[r] \in SessionRecords /\ SessionOK(req[r], held[r])
  BY DEF IndInv, TypeOK, SessionsConsistent
<1>3. /\ p \in Players /\ s \in Stations
      /\ PlayerRow(p) \in held[r] /\ StationRow(s) \in held[r]
      /\ owner[s] = None /\ balance[p] >= StationPrice
  BY <1>2 DEF PurchaseCommit, At, SessionOK, PurchaseOK
<1>4. TypeOK'
  BY <1>1, <1>3, FinishSession, TradingAssumption DEF IndInv, TypeOK
<1>5. NoOverdraft'
  BY <1>1, <1>3, TradingAssumption DEF IndInv, TypeOK, NoOverdraft
<1>6. (TanksNotOverdrawn /\ SettledOnce)'
  BY <1>1 DEF IndInv, TanksNotOverdrawn, SettledOnce
<1>7. ASSUME NEW t \in Requests \ {r}
      PROVE  SessionOK(req[t], held[t])'
  <2>1. req'[t] = req[t] /\ held'[t] = held[t]
    BY <1>1, FinishSession DEF IndInv
  <2>2. SessionOK(req[t], held[t])
    BY DEF IndInv, SessionsConsistent
  <2>3. PlayerRow(p) \notin held[t] /\ StationRow(s) \notin held[t]
    BY <1>3 DEF IndInv, SessionsConsistent, Sessions
  <2>4. /\ \A x \in Players : PlayerRow(x) \in held[t] => balance'[x] = balance[x]
        /\ \A x \in Stations : StationRow(x) \in held[t] => owner'[x] = owner[x]
    BY <1>1, <2>3 DEF IndInv, TypeOK
  <2>5. \A o \in Offers : KeepsTerms(o)
    BY <1>1 DEF KeepsTerms, Exists
  <2> QED
    BY <1>1, <2>1, <2>2, <2>4, <2>5, OthersOK DEF IndInv
<1>8. \A o \in due : Exists(o)'
  BY <1>1 DEF IndInv, SessionsConsistent, Exists
<1> HIDE DEF p, s
<1> QED
  BY <1>1, <1>4, <1>5, <1>6, <1>7, <1>8, FinishStep

LEMMA CreateCommitStep ==
    ASSUME IndInv, NEW r \in Requests, CreateCommit(r)
    PROVE  IndInv'
<1>1. req[r] \in SessionRecords /\ SessionOK(req[r], held[r])
  BY DEF IndInv, TypeOK, SessionsConsistent
<1>2. req[r].row \in OfferRecords /\ req[r].row.status = "PENDING"
  BY <1>1 DEF CreateCommit, At, SessionOK
<1>3. PICK o \in Offers : ~Exists(o) /\ offers' = [offers EXCEPT ![o] = req[r].row]
  BY DEF CreateCommit, CanInsert
<1>4. Finish(r) /\ UNCHANGED <<gameStatus, balance, ledger, owner, liters, payments, due>>
  BY DEF CreateCommit
<1>5. TypeOK'
  BY <1>2, <1>3, <1>4, FinishSession DEF IndInv, TypeOK
<1>6. (NoOverdraft /\ TanksNotOverdrawn /\ SettledOnce)'
  BY <1>2, <1>3, <1>4
  DEF IndInv, NoOverdraft, TanksNotOverdrawn, SettledOnce, TypeOK, Exists, NoOffer
<1>7. \A x \in Offers : Exists(x) => offers'[x] = offers[x]
  BY <1>3 DEF IndInv, TypeOK
<1>8. ASSUME NEW t \in Requests \ {r}
      PROVE  SessionOK(req[t], held[t])'
  <2>1. req'[t] = req[t] /\ held'[t] = held[t]
    BY <1>4, FinishSession DEF IndInv
  <2>2. SessionOK(req[t], held[t])
    BY DEF IndInv, SessionsConsistent
  <2>3. \A x \in Offers : KeepsTerms(x)
    BY <1>7 DEF KeepsTerms, Exists
  <2> QED
    BY <1>4, <1>7, <2>1, <2>2, <2>3, OthersOK DEF IndInv
<1>9. \A x \in due : Exists(x)'
  BY <1>4, <1>7 DEF IndInv, SessionsConsistent, Exists, TypeOK
<1> QED
  BY <1>4, <1>5, <1>6, <1>8, <1>9, FinishStep

LEMMA CloseCommitStep ==
    ASSUME IndInv, NEW r \in Requests, CloseCommit(r)
    PROVE  IndInv'
<1> DEFINE o == req[r].offer
           closed == IF req[r].op = "reject" THEN "REJECTED" ELSE "CANCELLED"
<1>1. /\ offers[o].status = "PENDING" => Free(r, OfferRow(o))
      /\ offers' = IF offers[o].status = "PENDING"
                     THEN [offers EXCEPT ![o] = [@ EXCEPT !.status = closed]]
                     ELSE offers
      /\ Finish(r)
      /\ UNCHANGED <<gameStatus, balance, ledger, owner, liters, payments, due>>
  BY DEF CloseCommit
<1>2. \A x \in Offers : offers[x].status = "PENDING" => offers[x] \in OfferRecords
  BY DEF IndInv, TypeOK, NoOffer
<1>3. \A x \in Offers : \/ offers'[x] = offers[x]
                        \/ /\ x = o
                           /\ offers[x] \in OfferRecords
                           /\ offers[x].status = "PENDING"
                           /\ Free(r, OfferRow(x))
                           /\ offers'[x] = [offers[x] EXCEPT !.status = closed]
  BY <1>1, <1>2 DEF IndInv, TypeOK
<1>4. closed \in {"REJECTED", "CANCELLED"}
  OBVIOUS
<1> HIDE DEF closed, o
<1>5. \A x \in Offers : /\ offers'[x] \in OfferRecords \cup {NoOffer}
                        /\ KeepsTerms(x)
  <2> SUFFICES ASSUME NEW x \in Offers
               PROVE  offers'[x] \in OfferRecords \cup {NoOffer} /\ KeepsTerms(x)
    OBVIOUS
  <2>1. CASE offers'[x] = offers[x]
    BY <2>1 DEF KeepsTerms, Exists, IndInv, TypeOK
  <2>2. CASE offers'[x] # offers[x]
    <3>1. closed \in Statuses
      BY <1>4 DEF Statuses
    <3>2. offers[x] \in OfferRecords /\ offers'[x] = [offers[x] EXCEPT !.status = closed]
      BY <1>3, <2>2
    <3> QED
      BY <3>1, <3>2, StatusWrite DEF KeepsTerms, Exists
  <2> QED
    BY <2>1, <2>2
<1>6. offers' \in [Offers -> OfferRecords \cup {NoOffer}]
  BY <1>1, <1>5 DEF IndInv, TypeOK
<1>7. TypeOK'
  BY <1>1, <1>6, FinishSession DEF IndInv, TypeOK
<1>8. (NoOverdraft /\ TanksNotOverdrawn)'
  BY <1>1 DEF IndInv, NoOverdraft, TanksNotOverdrawn
<1>9. SettledOnce'
  BY <1>1, <1>3, <1>4 DEF IndInv, SettledOnce, OfferRecords
<1>10. ASSUME NEW t \in Requests \ {r}
       PROVE  SessionOK(req[t], held[t])'
  <2>1. req'[t] = req[t] /\ held'[t] = held[t]
    BY <1>1, FinishSession DEF IndInv
  <2>2. SessionOK(req[t], held[t])
    BY DEF IndInv, SessionsConsistent
  <2>3. \A x \in Offers : OfferRow(x) \in held[t] => offers'[x].status = offers[x].status
    BY <1>3 DEF Free, Sessions
  <2> QED
    BY <1>1, <1>5, <2>1, <2>2, <2>3, OthersOK DEF IndInv
<1>11. \A x \in due : Exists(x)'
  BY <1>1, <1>5 DEF IndInv, SessionsConsistent, KeepsTerms, TypeOK
<1> QED
  BY <1>1, <1>7, <1>8, <1>9, <1>10, <1>11, FinishStep

LEMMA CounterCommitStep ==
    ASSUME IndInv, NEW r \in Requests, CounterCommit(r)
    PROVE  IndInv'
<1> DEFINE o == req[r].offer
<1>1. req[r] \in SessionRecords /\ SessionOK(req[r], held[r])
  BY DEF IndInv, TypeOK, SessionsConsistent
<1>2. /\ req[r].row \in OfferRecords /\ req[r].row.status = "PENDING"
      /\ o \in Offers /\ OfferRow(o) \in held[r]
      /\ Exists(o) /\ offers[o].status = "PENDING"
  BY <1>1 DEF CounterCommit, At, SessionOK, CounterOK
<1>3. PICK n \in Offers :
        /\ ~Exists(n)
        /\ offers' = [offers EXCEPT ![n] = req[r].row,
                                    ![o] = [@ EXCEPT !.status = "REJECTED"]]
  BY DEF CounterCommit, CanInsert
<1>4. Finish(r) /\ UNCHANGED <<gameStatus, balance, ledger, owner, liters, payments, due>>
  BY DEF CounterCommit
<1>5. n # o /\ offers[o] \in OfferRecords
  BY <1>2, <1>3 DEF Exists, IndInv, TypeOK
<1>6. /\ offers'[n] = req[r].row
      /\ offers'[o] = [offers[o] EXCEPT !.status = "REJECTED"]
      /\ \A x \in Offers \ {n, o} : offers'[x] = offers[x]
      /\ offers' = [x \in Offers |-> offers'[x]]
  BY <1>2, <1>3, <1>5 DEF IndInv, TypeOK
<1> HIDE DEF o
<1>7. \A x \in Offers : /\ offers'[x] \in OfferRecords \cup {NoOffer}
                        /\ KeepsTerms(x)
  BY <1>2, <1>3, <1>5, <1>6
  DEF OfferRecords, Statuses, KeepsTerms, Exists, NoOffer, IndInv, TypeOK
<1>8. TypeOK'
  BY <1>4, <1>6, <1>7, FinishSession DEF IndInv, TypeOK
<1>9. (NoOverdraft /\ TanksNotOverdrawn)'
  BY <1>4 DEF IndInv, NoOverdraft, TanksNotOverdrawn
<1>10. SettledOnce'
  <2>1. payments[n] = 0
    BY <1>3 DEF IndInv, SettledOnce, Exists, NoOffer
  <2>2. payments[o] = 0
    BY <1>2 DEF IndInv, SettledOnce
  <2> QED
    BY <1>2, <1>4, <1>5, <1>6, <2>1, <2>2 DEF IndInv, SettledOnce, OfferRecords
<1>11. ASSUME NEW t \in Requests \ {r}
       PROVE  SessionOK(req[t], held[t])'
  <2>1. req'[t] = req[t] /\ held'[t] = held[t]
    BY <1>4, FinishSession DEF IndInv
  <2>2. SessionOK(req[t], held[t])
    BY DEF IndInv, SessionsConsistent
  <2>3. OfferRow(o) \notin held[t]
    BY <1>2 DEF IndInv, SessionsConsistent, Sessions
  <2>4. \A x \in Offers : Exists(x) /\ OfferRow(x) \in held[t]
          => offers'[x].status = offers[x].status
    BY <1>3, <1>6, <2>3
  <2> QED
    BY <1>4, <1>7, <2>1, <2>2, <2>4, OthersOK DEF IndInv
<1>12. \A x \in due : Exists(x)'
  BY <1>4, <1>7 DEF IndInv, SessionsConsistent, KeepsTerms, TypeOK
<1> QED
  BY <1>4, <1>8, <1>9, <1>10, <1>11, <1>12, FinishStep

\* Both kinds of sale: the session holds the players' rows, has taken the offer
\* and can afford it.
LEMMA TakenFacts ==
    ASSUME IndInv, NEW r \in Requests, At(r, "accept", "taken")
    PROVE  LET o == req[r].offer IN
           /\ req[r] \in SessionRecords
           /\ o \in Offers /\ offers[o] \in OfferRecords
           /\ offers[o].status = "PENDING" /\ OfferRow(o) \in held[r]
           /\ req[r].actor \in Players /\ offers[o].seller \in Players
           /\ offers[o].seller # req[r].actor
           /\ PlayerRow(req[r].actor) \in held[r]
           /\ PlayerRow(offers[o].seller) \in held[r]
           /\ req[r].bal >= offers[o].price
           /\ payments[o] = 0
<1>1. req[r] \in SessionRecords /\ SessionOK(req[r], held[r])
  BY DEF IndInv, TypeOK, SessionsConsistent
<1>2. req[r].offer \in Offers /\ offers[req[r].offer] \in OfferRecords
  BY <1>1 DEF At, SessionOK, AcceptOK, Exists, IndInv, TypeOK
<1> QED
  BY <1>1, <1>2 DEF At, SessionOK, AcceptOK, OfferRecords, IndInv, SettledOnce

\* What Settle does to everything but the asset.
LEMMA SettleStep ==
    ASSUME IndInv, NEW r \in Requests, At(r, "accept", "taken"), Settle(r)
    PROVE  LET o == req[r].offer IN
           /\ offers' \in [Offers -> OfferRecords \cup {NoOffer}]
           /\ \A x \in Offers : KeepsTerms(x)
           /\ \A x \in Offers : x # o => offers'[x] = offers[x]
           /\ balance' \in [Players -> Int] /\ ledger' \in [Players -> Int]
           /\ payments' \in [Offers -> Nat]
           /\ \A p \in Players : p \notin {req[r].actor, offers[o].seller}
                => balance'[p] = balance[p]
           /\ NoOverdraft' /\ SettledOnce'
           /\ Finish(r) /\ UNCHANGED <<gameStatus, due>>
<1> DEFINE o == req[r].offer
           buyer == req[r].actor
           seller == offers[o].seller
           amount == offers[o].price
           e == [offers[o] EXCEPT !.status = "ACCEPTED", !.buyer = buyer]
<1>1. /\ offers' = [offers EXCEPT ![o] = e]
      /\ balance' = [balance EXCEPT ![buyer] = req[r].bal - amount,
                                    ![seller] = @ + amount]
      /\ ledger' = [ledger EXCEPT ![buyer] = @ - amount, ![seller] = @ + amount]
      /\ payments' = [payments EXCEPT ![o] = @ + 1]
      /\ Finish(r) /\ UNCHANGED <<gameStatus, due>>
  BY DEF Settle, Pay, Offer
<1>2. /\ req[r] \in SessionRecords
      /\ o \in Offers /\ offers[o] \in OfferRecords
      /\ buyer \in Players /\ seller \in Players /\ seller # buyer
      /\ req[r].bal >= amount
      /\ payments[o] = 0
  BY TakenFacts
<1>3. amount \in Int /\ amount > 0 /\ req[r].bal \in Int
  <2>1. amount \in Prices /\ req[r].bal \in Int
    BY <1>2 DEF OfferRecords, SessionRecords
  <2>2. Prices \subseteq Nat \ {0}
    BY TradingAssumption
  <2> HIDE DEF amount
  <2> QED
    BY <2>1, <2>2
<1>4. /\ e \in OfferRecords /\ e # NoOffer /\ e.status = "ACCEPTED"
      /\ e.kind = offers[o].kind /\ e.seller = offers[o].seller
      /\ e.station = offers[o].station
      /\ e.price = offers[o].price /\ e.liters = offers[o].liters
  <2>1. e.status = "ACCEPTED" /\ NoOffer.status = "none"
    BY <1>2 DEF OfferRecords, NoOffer
  <2> QED
    BY <1>2, <2>1 DEF OfferRecords, Statuses
<1> HIDE DEF o, buyer, seller, amount, e
<1>5. /\ offers'[o] = e
      /\ \A x \in Offers : x # o => offers'[x] = offers[x]
      /\ offers' \in [Offers -> OfferRecords \cup {NoOffer}]
  BY <1>1, <1>2, <1>4 DEF IndInv, TypeOK
<1>6. \A x \in Offers : KeepsTerms(x)
  BY <1>4, <1>5 DEF KeepsTerms, Exists
<1>7. /\ balance' \in [Players -> Int] /\ ledger' \in [Players -> Int]
      /\ \A p \in Players : p \notin {buyer, seller} => balance'[p] = balance[p]
      /\ balance'[buyer] = req[r].bal - amount
      /\ balance'[seller] = balance[seller] + amount
  BY <1>1, <1>2, <1>3 DEF IndInv, TypeOK
<1>8. NoOverdraft'
  BY <1>2, <1>3, <1>7 DEF IndInv, NoOverdraft, TypeOK
<1>9. /\ payments' \in [Offers -> Nat] /\ payments'[o] = 1
      /\ \A x \in Offers : x # o => payments'[x] = payments[x]
  BY <1>1, <1>2 DEF IndInv, TypeOK
<1>10. SettledOnce'
  BY <1>4, <1>5, <1>9 DEF IndInv, SettledOnce
<1> QED
  BY <1>1, <1>5, <1>6, <1>7, <1>8, <1>9, <1>10 DEF o, buyer, seller

LEMMA AcceptCommitStationSaleStep ==
    ASSUME IndInv, NEW r \in Requests, AcceptCommitStationSale(r)
    PROVE  IndInv'
<1> DEFINE o == req[r].offer
           s == offers[o].station
<1>1. /\ At(r, "accept", "taken") /\ Settle(r)
      /\ owner' = [owner EXCEPT ![s] = req[r].actor]
      /\ UNCHANGED liters
  BY DEF AcceptCommitStationSale, Offer
<1>2. /\ \A x \in Offers : KeepsTerms(x)
      /\ \A x \in Offers : x # o => offers'[x] = offers[x]
      /\ \A p \in Players : p \notin {req[r].actor, offers[o].seller}
           => balance'[p] = balance[p]
      /\ NoOverdraft' /\ SettledOnce'
      /\ Finish(r) /\ UNCHANGED <<gameStatus, due>>
  BY <1>1, SettleStep
<1>3. /\ o \in Offers /\ offers[o] \in OfferRecords
      /\ OfferRow(o) \in held[r]
      /\ req[r].actor \in Players
      /\ PlayerRow(req[r].actor) \in held[r]
      /\ PlayerRow(offers[o].seller) \in held[r]
  BY <1>1, TakenFacts
<1>4. StationRow(s) \in held[r] /\ s \in Stations
  BY <1>1, <1>3
  DEF AcceptCommitStationSale, At, Offer, IndInv, SessionsConsistent, SessionOK,
      AcceptOK, OfferRecords
<1>5. TypeOK'
  BY <1>1, <1>2, <1>3, SettleStep, FinishSession DEF IndInv, TypeOK
<1>6. TanksNotOverdrawn'
  BY <1>1 DEF IndInv, TanksNotOverdrawn
<1>7. ASSUME NEW t \in Requests \ {r}
      PROVE  SessionOK(req[t], held[t])'
  <2>1. req'[t] = req[t] /\ held'[t] = held[t]
    BY <1>2, FinishSession DEF IndInv
  <2>2. SessionOK(req[t], held[t])
    BY DEF IndInv, SessionsConsistent
  <2>3. \A row \in held[r] : row \notin held[t]
    BY DEF IndInv, SessionsConsistent, Sessions
  <2>4. /\ \A p \in Players : PlayerRow(p) \in held[t] => balance'[p] = balance[p]
        /\ \A x \in Offers : OfferRow(x) \in held[t] => offers'[x] = offers[x]
    BY <1>2, <1>3, <2>3
  <2>5. \A x \in Stations : StationRow(x) \in held[t] => owner'[x] = owner[x]
    BY <1>1, <1>4, <2>3 DEF IndInv, TypeOK
  <2> QED
    BY <1>1, <1>2, <2>1, <2>2, <2>4, <2>5, OthersOK DEF IndInv
<1>8. \A x \in due : Exists(x)'
  BY <1>2 DEF IndInv, SessionsConsistent, KeepsTerms, TypeOK
<1> HIDE DEF o, s
<1> QED
  BY <1>2, <1>5, <1>6, <1>7, <1>8, FinishStep

LEMMA AcceptCommitFuelSaleStep ==
    ASSUME IndInv, NEW r \in Requests, AcceptCommitFuelSale(r)
    PROVE  IndInv'
<1> DEFINE o == req[r].offer
           src == offers[o].station
           dst == req[r].station
           vol == offers[o].liters
<1>1. /\ At(r, "accept", "taken") /\ Settle(r)
      /\ offers[o].kind = "fuel"
      /\ Free(r, FuelRow(dst))
      /\ liters' = [[liters EXCEPT ![src] = @ - vol] EXCEPT ![dst] = BuyerLiters(r)]
      /\ UNCHANGED owner
  BY DEF AcceptCommitFuelSale, Offer
<1>2. /\ \A x \in Offers : KeepsTerms(x)
      /\ \A x \in Offers : x # o => offers'[x] = offers[x]
      /\ \A p \in Players : p \notin {req[r].actor, offers[o].seller}
           => balance'[p] = balance[p]
      /\ NoOverdraft' /\ SettledOnce'
      /\ Finish(r) /\ UNCHANGED <<gameStatus, due>>
  BY <1>1, SettleStep
<1>3. /\ req[r] \in SessionRecords
      /\ o \in Offers /\ offers[o] \in OfferRecords
      /\ OfferRow(o) \in held[r]
      /\ PlayerRow(req[r].actor) \in held[r]
      /\ PlayerRow(offers[o].seller) \in held[r]
  BY <1>1, TakenFacts
<1>4. /\ FuelRow(src) \in held[r] /\ src \in Stations /\ liters[src] >= vol
      /\ dst \in Stations /\ req[r].fuel >= 0 /\ req[r].fuel + vol <= Capacity
  BY <1>1, <1>3
  DEF At, Offer, IndInv, SessionsConsistent, SessionOK, AcceptOK, OfferRecords
<1>5. vol \in Nat /\ req[r].fuel \in Int
  <2>1. vol \in Volumes \cup {0} /\ req[r].fuel \in Int
    BY <1>3 DEF OfferRecords, SessionRecords
  <2> HIDE DEF vol
  <2> QED
    BY <2>1, TradingAssumption
<1>6. BuyerLiters(r) \in Nat
  <2>1. BuyerLiters(r) \in {req[r].fuel, req[r].fuel + vol}
    BY DEF BuyerLiters, Offer
  <2> HIDE DEF vol
  <2> QED
    BY <1>4, <1>5, <2>1
<1>7. /\ liters' \in [Stations -> Int]
      /\ TanksNotOverdrawn'
      /\ \A x \in Stations : x \notin {src, dst} => liters'[x] = liters[x]
  <2>1. liters \in [Stations -> Int] /\ \A x \in Stations : liters[x] >= 0
    BY DEF IndInv, TypeOK, TanksNotOverdrawn
  <2> HIDE DEF src, dst, vol
  <2>2. liters[src] - vol \in Nat
    BY <1>4, <1>5, <2>1
  <2>3. /\ liters' \in [Stations -> Int]
        /\ \A x \in Stations : x \notin {src, dst} => liters'[x] = liters[x]
        /\ liters'[dst] = BuyerLiters(r)
        /\ src # dst => liters'[src] = liters[src] - vol
    BY <1>1, <1>4, <1>5, <1>6, <2>1
  <2>4. \A x \in Stations : liters'[x] >= 0
    BY <1>6, <2>1, <2>2, <2>3
  <2> QED
    BY <2>3, <2>4 DEF TanksNotOverdrawn
<1>8. TypeOK'
  BY <1>1, <1>2, <1>7, SettleStep, FinishSession DEF IndInv, TypeOK
<1>9. ASSUME NEW t \in Requests \ {r}
      PROVE  SessionOK(req[t], held[t])'
  <2>1. req'[t] = req[t] /\ held'[t] = held[t]
    BY <1>2, FinishSession DEF IndInv
  <2>2. SessionOK(req[t], held[t])
    BY DEF IndInv, SessionsConsistent
  <2>3. \A row \in held[r] : row \notin held[t]
    BY DEF IndInv, SessionsConsistent, Sessions
  <2>4. /\ \A p \in Players : PlayerRow(p) \in held[t] => balance'[p] = balance[p]
        /\ \A x \in Offers : OfferRow(x) \in held[t] => offers'[x] = offers[x]
    BY <1>2, <1>3, <2>3
  <2>5. \A x \in Stations : FuelRow(x) \in held[t] => liters'[x] = liters[x]
    BY <1>1, <1>4, <1>7, <2>3 DEF Free, Sessions
  <2> QED
    BY <1>1, <1>2, <2>1, <2>2, <2>4, <2>5, OthersOK DEF IndInv
<1>10. \A x \in due : Exists(x)'
  BY <1>2 DEF IndInv, SessionsConsistent, KeepsTerms, TypeOK
<1> HIDE DEF o, src, dst, vol
<1> QED
  BY <1>2, <1>7, <1>8, <1>9, <1>10, FinishStep

-----------------------------------------------------------------------------
(* The steps of the scheduler. *)

\* These steps leave the requests alone: their assumptions survive if the
\* status of no offer they hold changes.
LEMMA SchedulerKeeps ==
    ASSUME IndInv,
           UNCHANGED <<balance, ledger, owner, liters, payments, req>>,
           gameStatus' \in {"RUNNING", "FINISHED"},
           offers' \in [Offers -> OfferRecords \cup {NoOffer}],
           \A o \in Offers : KeepsTerms(o),
           held' \in [Sessions -> SUBSET Rows],
           \A a, b \in Sessions : a # b => held'[a] \cap held'[b] = {},
           \A t \in Requests : held'[t] = held[t],
           \A t \in Requests, o \in Offers :
              OfferRow(o) \in held[t] => offers'[o].status = offers[o].status,
           SettledOnce',
           due' \subseteq Offers, \A o \in due' : Exists(o)'
    PROVE  IndInv'
<1>1. TypeOK' /\ (NoOverdraft /\ TanksNotOverdrawn)'
  BY DEF IndInv, TypeOK, NoOverdraft, TanksNotOverdrawn
<1>2. ASSUME NEW t \in Requests
      PROVE  SessionOK(req[t], held[t])'
  <2>1. SessionOK(req[t], held[t]) /\ req'[t] = req[t]
    BY DEF IndInv, SessionsConsistent
  <2> QED
    BY <2>1, OthersOK DEF IndInv
<1> QED
  BY <1>1, <1>2 DEF IndInv, SessionsConsistent

LEMMA ElapseStep ==
    ASSUME IndInv, NEW o \in Offers, Elapse(o)
    PROVE  IndInv'
<1> DEFINE e == [offers[o] EXCEPT !.overdue = TRUE]
<1>1. /\ offers[o].status = "PENDING"
      /\ offers' = [offers EXCEPT ![o] = e]
      /\ UNCHANGED <<gameStatus, balance, ledger, owner, liters, held, payments, req, due>>
  BY DEF Elapse
<1>2. offers[o] \in OfferRecords
  BY <1>1 DEF IndInv, TypeOK, NoOffer
<1>3. /\ e \in OfferRecords /\ e # NoOffer /\ e.status = offers[o].status
      /\ e.kind = offers[o].kind /\ e.seller = offers[o].seller
      /\ e.station = offers[o].station
      /\ e.price = offers[o].price /\ e.liters = offers[o].liters
  <2>1. e.status = "PENDING" /\ NoOffer.status = "none"
    BY <1>1, <1>2 DEF OfferRecords, NoOffer
  <2> QED
    BY <1>1, <1>2, <2>1 DEF OfferRecords
<1> HIDE DEF e
<1>4. /\ offers'[o] = e
      /\ \A x \in Offers : x # o => offers'[x] = offers[x]
      /\ offers' \in [Offers -> OfferRecords \cup {NoOffer}]
  BY <1>1, <1>3 DEF IndInv, TypeOK
<1>5. \A x \in Offers : KeepsTerms(x) /\ offers'[x].status = offers[x].status
  BY <1>3, <1>4 DEF KeepsTerms, Exists
<1>6. SettledOnce'
  BY <1>1, <1>5 DEF IndInv, SettledOnce
<1>7. \A x \in due' : Exists(x)'
  BY <1>1, <1>5 DEF IndInv, SessionsConsistent, TypeOK, KeepsTerms
<1> QED
  BY <1>1, <1>4, <1>5, <1>6, <1>7, SchedulerKeeps DEF IndInv, TypeOK, SessionsConsistent

\* The steps that write no offer.
LEMMA NoOfferWritten ==
    ASSUME IndInv,
           UNCHANGED <<balance, ledger, owner, liters, offers, payments, req>>,
           gameStatus' \in {"RUNNING", "FINISHED"},
           held' \in [Sessions -> SUBSET Rows],
           \A a, b \in Sessions : a # b => held'[a] \cap held'[b] = {},
           \A t \in Requests : held'[t] = held[t],
           due' \subseteq Offers, \A o \in due' : Exists(o)
    PROVE  IndInv'
<1>1. \A o \in Offers : KeepsTerms(o)
  BY DEF KeepsTerms, Exists
<1>2. SettledOnce'
  BY DEF IndInv, SettledOnce
<1>3. \A o \in due' : Exists(o)'
  BY DEF Exists
<1>4. offers' \in [Offers -> OfferRecords \cup {NoOffer}]
  BY DEF IndInv, TypeOK
<1> QED
  BY <1>1, <1>2, <1>3, <1>4, SchedulerKeeps

LEMMA ExpireSelectStep ==
    ASSUME IndInv, ExpireSelect
    PROVE  IndInv'
<1>1. due' \subseteq Offers /\ \A o \in due' : Exists(o)
  BY DEF ExpireSelect
<1>2. UNCHANGED <<gameStatus, balance, ledger, owner, liters, held, offers, payments, req>>
  BY DEF ExpireSelect
<1> QED
  BY <1>1, <1>2, NoOfferWritten DEF IndInv, TypeOK, SessionsConsistent

LEMMA ExpireFlushStep ==
    ASSUME IndInv, ExpireFlush
    PROVE  IndInv'
<1>1. PICK o \in due : Free(Tick, OfferRow(o)) /\ Take(Tick, {OfferRow(o)})
  BY DEF ExpireFlush
<1> DEFINE h == held[Tick] \cup {OfferRow(o)}
<1>2. Tick \in Sessions /\ \A t \in Requests : t # Tick /\ t \in Sessions
  BY StoreAssumption DEF Sessions
<1>3. held' = [held EXCEPT ![Tick] = h]
  BY <1>1 DEF Take
<1>4. {OfferRow(o)} \in SUBSET Rows
  BY RowTypes DEF IndInv, TypeOK
<1>5. /\ \A a, b \in Sessions : a # b => held'[a] \cap held'[b] = {}
      /\ held' \in [Sessions -> SUBSET Rows]
  BY <1>1, <1>2, <1>3, <1>4, LocksStay DEF IndInv
<1>6. \A t \in Requests : held'[t] = held[t]
  BY <1>2, <1>3 DEF IndInv, TypeOK
<1>7. UNCHANGED <<gameStatus, balance, ledger, owner, liters, offers, payments, req, due>>
  BY DEF ExpireFlush
<1> QED
  BY <1>5, <1>6, <1>7, NoOfferWritten DEF IndInv, TypeOK, SessionsConsistent

\* Releasing the scheduler's rows.
LEMMA TickEnds ==
    ASSUME IndInv, Release(Tick)
    PROVE  /\ held' \in [Sessions -> SUBSET Rows]
           /\ \A a, b \in Sessions : a # b => held'[a] \cap held'[b] = {}
           /\ \A t \in Requests : held'[t] = held[t]
<1>1. Tick \in Sessions /\ \A t \in Requests : t # Tick /\ t \in Sessions
  BY StoreAssumption DEF Sessions
<1> QED
  BY <1>1 DEF Release, IndInv, TypeOK, SessionsConsistent

LEMMA ExpireAbortStep ==
    ASSUME IndInv, ExpireAbort
    PROVE  IndInv'
BY TickEnds, NoOfferWritten DEF ExpireAbort, IndInv, TypeOK

LEMMA FinishGameStep ==
    ASSUME IndInv, FinishGame
    PROVE  IndInv'
BY NoOfferWritten DEF FinishGame, IndInv, TypeOK, SessionsConsistent

LEMMA ExpireCommitStep ==
    ASSUME IndInv, ExpireCommit
    PROVE  IndInv'
<1>1. /\ \A o \in due : OfferRow(o) \in held[Tick]
      /\ offers' = [o \in Offers |-> IF o \in due
                                       THEN [offers[o] EXCEPT !.status = "EXPIRED"]
                                       ELSE offers[o]]
      /\ due' = {} /\ Release(Tick)
      /\ UNCHANGED <<gameStatus, balance, ledger, owner, liters, payments, req>>
  BY DEF ExpireCommit
<1>2. due \subseteq Offers /\ \A o \in due : offers[o] \in OfferRecords
  BY DEF IndInv, TypeOK, SessionsConsistent, Exists
<1>3. \A o \in Offers : /\ offers'[o] \in OfferRecords \cup {NoOffer}
                        /\ KeepsTerms(o)
                        /\ o \in due => offers'[o].status = "EXPIRED"
                        /\ o \notin due => offers'[o].status = offers[o].status
  <2> SUFFICES ASSUME NEW o \in Offers
               PROVE  /\ offers'[o] \in OfferRecords \cup {NoOffer}
                      /\ KeepsTerms(o)
                      /\ o \in due => offers'[o].status = "EXPIRED"
                      /\ o \notin due => offers'[o].status = offers[o].status
    OBVIOUS
  <2>1. CASE o \in due
    <3>1. "EXPIRED" \in Statuses
      BY DEF Statuses
    <3>2. offers'[o] = [offers[o] EXCEPT !.status = "EXPIRED"]
      BY <1>1, <2>1
    <3> QED
      BY <1>2, <2>1, <3>1, <3>2, StatusWrite DEF KeepsTerms, Exists
  <2>2. CASE o \notin due
    <3>1. offers'[o] = offers[o]
      BY <1>1, <2>2
    <3> QED
      BY <2>2, <3>1 DEF KeepsTerms, Exists, IndInv, TypeOK
  <2> QED
    BY <2>1, <2>2
<1>4. offers' \in [Offers -> OfferRecords \cup {NoOffer}]
  BY <1>1, <1>3
<1>5. \A t \in Requests, o \in Offers :
        OfferRow(o) \in held[t] => offers'[o].status = offers[o].status
  BY <1>1, <1>3, StoreAssumption DEF IndInv, SessionsConsistent, Sessions
<1>6. SettledOnce'
  BY <1>1, <1>3 DEF IndInv, SettledOnce
<1> QED
  BY <1>1, <1>3, <1>4, <1>5, <1>6, TickEnds, SchedulerKeeps DEF IndInv, TypeOK

-----------------------------------------------------------------------------
LEMMA InitOK == Init => IndInv
<1> SUFFICES ASSUME Init
             PROVE  IndInv
  OBVIOUS
<1> USE DEF Init
<1>1. TypeOK
  BY StoreAssumption, TradingAssumption, IdleOK DEF TypeOK
<1>2. NoOverdraft /\ TanksNotOverdrawn
  BY StoreAssumption DEF NoOverdraft, TanksNotOverdrawn
<1>3. SettledOnce
  BY DEF SettledOnce, NoOffer
<1>4. \A r \in Requests : req[r] = IdleReq /\ held[r] = {}
  BY DEF Sessions
<1>5. SessionsConsistent
  BY <1>4, IdleOK DEF SessionsConsistent
<1> QED
  BY <1>1, <1>2, <1>3, <1>5 DEF IndInv

\* Every step of the system keeps the invariant.
LEMMA NextOK == IndInv /\ [Next]_vars => IndInv'
<1> SUFFICES ASSUME IndInv, [Next]_vars
             PROVE  IndInv'
  OBVIOUS
<1>1. ASSUME NEW r \in Requests, Begin(r) \/ RequestStep(r) \/ Abort(r)
      PROVE  IndInv'
  <2>1. CASE Begin(r)
    BY <2>1, BeginStep
  <2>2. CASE Abort(r)
    BY <2>2, AbortStep
  <2>3. CASE PurchaseSteps(r)
    BY <2>3, PurchaseLockPlayerStep, PurchaseClaimStationStep, PurchaseCommitStep
    DEF PurchaseSteps
  <2>4. CASE CreateSteps(r)
    BY <2>4, CreateCheckStationStep, CreateCheckAssetStep, CreateCommitStep
    DEF CreateSteps
  <2>5. CASE AcceptSteps(r)
    BY <2>5, AcceptReadPlayerStep, AcceptReadOfferStep, AcceptLockPlayerStep,
       AcceptClaimStationStep, AcceptReadBuyerFuelStep, AcceptDrawFuelStep,
       AcceptTakeOfferStep, AcceptCommitStationSaleStep, AcceptCommitFuelSaleStep
    DEF AcceptSteps
  <2>6. CASE CloseSteps(r)
    BY <2>6, CloseReadOfferStep, CloseCommitStep, CounterSupersedeStep, CounterCommitStep
    DEF CloseSteps
  <2> QED
    BY <1>1, <2>1, <2>2, <2>3, <2>4, <2>5, <2>6 DEF RequestStep
<1>2. ASSUME NEW o \in Offers, Elapse(o)
      PROVE  IndInv'
  BY <1>2, ElapseStep
<1>3. CASE ExpireStep \/ ExpireAbort
  BY <1>3, ExpireSelectStep, ExpireFlushStep, ExpireCommitStep, ExpireAbortStep
  DEF ExpireStep
<1>4. CASE FinishGame
  BY <1>4, FinishGameStep
<1>5. CASE UNCHANGED vars
  <2>1. UNCHANGED <<balance, ledger, owner, liters, offers, payments, req, gameStatus, held, due>>
    BY <1>5 DEF vars
  <2> QED
    BY <2>1, NoOfferWritten DEF IndInv, TypeOK, SessionsConsistent
<1> QED
  BY <1>1, <1>2, <1>3, <1>4, <1>5 DEF Next

\* In every reachable state each session's assumptions hold, and with them the
\* properties below.
THEOREM Inductive == Spec => []IndInv
  BY InitOK, NextOK, PTL DEF Spec

\* Every row and every session has its type.
THEOREM TypesCorrect == Spec => []TypeOK
<1>1. IndInv => TypeOK
  BY DEF IndInv
<1> QED
  BY <1>1, Inductive, PTL

\* No player's balance is ever negative, however purchases and sales overlap.
THEOREM NeverOverdrawn == Spec => []NoOverdraft
<1>1. IndInv => NoOverdraft
  BY DEF IndInv
<1> QED
  BY <1>1, Inductive, PTL

\* As long as only sales write the tanks, a sale fills none over its capacity:
\* the buyer's tank is written from a copy that had the room.
LEMMA CapacityKept ==
    ASSUME IndInv, TanksWithinCapacity, [Next]_vars
    PROVE  TanksWithinCapacity'
<1>1. CASE UNCHANGED liters
  BY <1>1 DEF TanksWithinCapacity
<1>2. ASSUME NEW r \in Requests, AcceptCommitFuelSale(r)
      PROVE  TanksWithinCapacity'
  <2> DEFINE src == offers[req[r].offer].station
             dst == req[r].station
             vol == offers[req[r].offer].liters
  <2>1. /\ At(r, "accept", "taken") /\ offers[req[r].offer].kind = "fuel"
        /\ liters' = [[liters EXCEPT ![src] = @ - vol] EXCEPT ![dst] = BuyerLiters(r)]
    BY <1>2 DEF AcceptCommitFuelSale, Offer
  <2>2. req[r] \in SessionRecords /\ offers[req[r].offer] \in OfferRecords
    BY <2>1, TakenFacts
  <2>3. /\ src \in Stations /\ liters[src] >= vol /\ dst \in Stations
        /\ req[r].fuel >= 0 /\ req[r].fuel + vol <= Capacity
    BY <2>1, <2>2
    DEF At, IndInv, SessionsConsistent, SessionOK, AcceptOK, OfferRecords
  <2>4. vol \in Nat /\ req[r].fuel \in Int
    <3>1. vol \in Volumes \cup {0} /\ req[r].fuel \in Int
      BY <2>2 DEF OfferRecords, SessionRecords
    <3> HIDE DEF vol
    <3> QED
      BY <3>1, TradingAssumption
  <2>5. BuyerLiters(r) \in {req[r].fuel, req[r].fuel + vol}
    BY DEF BuyerLiters, Offer
  <2>6. liters \in [Stations -> Int] /\ \A x \in Stations : liters[x] \in 0 .. Capacity
    BY DEF IndInv, TypeOK, TanksWithinCapacity
  <2> HIDE DEF src, dst, vol
  <2>7. BuyerLiters(r) \in 0 .. Capacity /\ liters[src] - vol \in 0 .. Capacity
    BY <2>3, <2>4, <2>5, <2>6, StoreAssumption
  <2>8. \A x \in Stations : liters'[x] \in 0 .. Capacity
    BY <2>1, <2>3, <2>6, <2>7
  <2> QED
    BY <2>8 DEF TanksWithinCapacity
<1>3. [Next]_vars => UNCHANGED liters \/ \E r \in Requests : AcceptCommitFuelSale(r)
  BY DEF Next, RequestStep, PurchaseSteps, CreateSteps, AcceptSteps, CloseSteps, ExpireStep,
         Begin, Abort, PurchaseLockPlayer, PurchaseClaimStation, PurchaseCommit,
         CreateCheckStation, CreateCheckAsset, CreateCommit, AcceptReadPlayer,
         AcceptReadOffer, AcceptLockPlayer, AcceptClaimStation, AcceptReadBuyerFuel,
         AcceptDrawFuel, AcceptTakeOffer, AcceptCommitStationSale, CloseReadOffer,
         CloseCommit, CounterSupersede, CounterCommit, Elapse, ExpireSelect, ExpireFlush,
         ExpireCommit, ExpireAbort, FinishGame, NothingCommitted, vars
<1> QED
  BY <1>1, <1>2, <1>3

\* A fuel sale neither overdraws a tank nor overfills it.
THEOREM TanksSafe == Spec => []TanksWithinCapacity
<1>1. Init => TanksWithinCapacity
  BY StoreAssumption DEF Init, TanksWithinCapacity
<1>2. IndInv /\ TanksWithinCapacity /\ [Next]_vars => TanksWithinCapacity'
  BY CapacityKept
<1> QED
  BY <1>1, <1>2, Inductive, PTL DEF Spec

\* An offer is paid at most once, exactly when it has been accepted.
THEOREM OffersSettleOnce == Spec => []SettledOnce
<1>1. IndInv => SettledOnce
  BY DEF IndInv
<1> QED
  BY <1>1, Inductive, PTL

\* The row locks keep what each session relies on true until it commits.
THEOREM LocksProtectSessions == Spec => []SessionsConsistent
<1>1. IndInv => SessionsConsistent
  BY DEF IndInv
<1> QED
  BY <1>1, Inductive, PTL

-----------------------------------------------------------------------------
(* Owners change as OwnershipChain says. *)

LEMMA PurchaseChangesOwner ==
    ASSUME IndInv, NEW r \in Requests, PurchaseCommit(r)
    PROVE  OwnersChange
<1>1. owner' = [owner EXCEPT ![req[r].station] = req[r].actor]
  BY DEF PurchaseCommit
<1>2. req[r].actor \in Players /\ owner[req[r].station] = None
  BY DEF PurchaseCommit, At, IndInv, SessionsConsistent, SessionOK, PurchaseOK
<1>3. None \notin Players
  BY StoreAssumption
<1> QED
  BY <1>1, <1>2, <1>3 DEF OwnersChange, IndInv, TypeOK

LEMMA SaleChangesOwner ==
    ASSUME IndInv, NEW r \in Requests, AcceptCommitStationSale(r)
    PROVE  OwnersChange
<1> DEFINE o == req[r].offer
           st == offers[o].station
<1>1. At(r, "accept", "taken") /\ Settle(r)
  BY DEF AcceptCommitStationSale
<1>2. /\ o \in Offers /\ offers[o] \in OfferRecords
      /\ offers[o].status = "PENDING" /\ payments[o] = 0
      /\ req[r].actor \in Players
  BY <1>1, TakenFacts
<1>3. /\ owner' = [owner EXCEPT ![st] = req[r].actor]
      /\ offers' = [offers EXCEPT ![o] =
                      [offers[o] EXCEPT !.status = "ACCEPTED", !.buyer = req[r].actor]]
      /\ payments' = [payments EXCEPT ![o] = @ + 1]
      /\ offers[o].kind = "station"
  BY DEF AcceptCommitStationSale, Settle, Pay, Offer
<1>4. owner[st] = offers[o].seller /\ Exists(o)
  BY <1>1, <1>2, <1>3 DEF At, IndInv, SessionsConsistent, SessionOK, AcceptOK
<1>5. st \in Stations /\ owner'[st] = req[r].actor
  BY <1>2, <1>3 DEF OfferRecords, IndInv, TypeOK
<1>6. /\ offers'[o].status = "ACCEPTED" /\ offers'[o].buyer = req[r].actor
      /\ payments'[o] = payments[o] + 1
  BY <1>2, <1>3 DEF OfferRecords, IndInv, TypeOK
<1>7. SoldBy(st, o)
  BY <1>2, <1>3, <1>4, <1>5, <1>6 DEF SoldBy
<1>8. owner'[st] # None
  BY <1>2, <1>5, StoreAssumption
<1>9. \A s \in Stations : s # st => owner'[s] = owner[s]
  BY <1>3 DEF IndInv, TypeOK
<1> HIDE DEF o, st
<1> QED
  BY <1>2, <1>5, <1>7, <1>8, <1>9 DEF OwnersChange

LEMMA StepChangesOwner == IndInv /\ [Next]_vars => OwnersChange
<1> SUFFICES ASSUME IndInv, [Next]_vars
             PROVE  OwnersChange
  OBVIOUS
<1>1. UNCHANGED owner => OwnersChange
  BY DEF OwnersChange
<1>2. ASSUME NEW r \in Requests, Begin(r) \/ RequestStep(r) \/ Abort(r)
      PROVE  OwnersChange
  <2>1. CASE Begin(r) \/ Abort(r)
    BY <1>1, <2>1 DEF Begin, Abort, NothingCommitted
  <2>2. CASE PurchaseSteps(r)
    BY <1>1, <2>2, PurchaseChangesOwner
    DEF PurchaseSteps, PurchaseLockPlayer, PurchaseClaimStation, NothingCommitted
  <2>3. CASE CreateSteps(r)
    BY <1>1, <2>3
    DEF CreateSteps, CreateCheckStation, CreateCheckAsset, CreateCommit, NothingCommitted
  <2>4. CASE AcceptSteps(r)
    BY <1>1, <2>4, SaleChangesOwner
    DEF AcceptSteps, AcceptReadPlayer, AcceptReadOffer, AcceptLockPlayer,
        AcceptClaimStation, AcceptReadBuyerFuel, AcceptDrawFuel, AcceptTakeOffer,
        AcceptCommitFuelSale, NothingCommitted
  <2>5. CASE CloseSteps(r)
    BY <1>1, <2>5
    DEF CloseSteps, CloseReadOffer, CloseCommit, CounterSupersede, CounterCommit,
        NothingCommitted
  <2> QED
    BY <1>2, <2>1, <2>2, <2>3, <2>4, <2>5 DEF RequestStep
<1>3. ASSUME NEW o \in Offers, Elapse(o)
      PROVE  OwnersChange
  BY <1>1, <1>3 DEF Elapse
<1>4. CASE ExpireStep \/ ExpireAbort \/ FinishGame
  BY <1>1, <1>4
  DEF ExpireStep, ExpireSelect, ExpireFlush, ExpireCommit, ExpireAbort, FinishGame
<1>5. CASE UNCHANGED vars
  BY <1>1, <1>5 DEF vars
<1> QED
  BY <1>2, <1>3, <1>4, <1>5 DEF Next

\* A station changes hands only by a purchase that found it unowned or by the
\* paid sale of a pending offer of its owner, and it never becomes unowned.
THEOREM OwnersChangeBySale == Spec => OwnershipChain
<1>1. IndInv /\ [Next]_vars => [OwnersChange]_vars
  BY StepChangesOwner
<1> QED
  BY <1>1, Inductive, PTL DEF Spec, OwnershipChain

-----------------------------------------------------------------------------
(* Spec implements Market.  Besides IndInv this takes what a session knows of *)
(* a pending offer that it has read: its parties and its asset stay.          *)

PartiesKept(q) ==
    LET d == offers[q.offer] IN
    /\ q.op = "accept" /\ q.pc \in {"lock", "station", "listing", "claimed", "taken"} =>
         (d.status = "PENDING" => d.buyer \in {None, q.actor})
    /\ q.op = "counter" /\ q.pc \in {"claimed", "insert"} =>
         (d.status = "PENDING" => /\ q.row.seller = d.seller /\ q.row.buyer = d.buyer
                                  /\ q.row.kind = d.kind /\ q.row.station = d.station)

MarketInv == IndInv /\ \A r \in Requests : PartiesKept(req[r])

LEMMA IdleParties == PartiesKept(IdleReq)
BY DEF PartiesKept, IdleReq

LEMMA SessionFacts ==
    ASSUME MarketInv, NEW r \in Requests
    PROVE  /\ req[r] \in SessionRecords
           /\ SessionOK(req[r], held[r])
           /\ PartiesKept(req[r])
BY DEF MarketInv, IndInv, TypeOK, SessionsConsistent

\* A statement that commits nothing.
LEMMA ContinueKeepsParties ==
    ASSUME MarketInv, NEW r \in Requests, NEW check, NEW rows, NEW next,
           check => PartiesKept(next), Continue(r, check, rows, next), NothingCommitted
    PROVE  \A t \in Requests : PartiesKept(req[t])'
<1>1. \A t \in Requests : PartiesKept(req'[t])
  BY IdleParties DEF MarketInv, IndInv, TypeOK, Continue
<1> QED
  BY <1>1 DEF PartiesKept, NothingCommitted

\* An offer that is pending after a step was so before, between the same parties.
PendingKept(o) ==
    Exists(o) /\ offers'[o].status = "PENDING" =>
       /\ offers[o].status = "PENDING"
       /\ offers'[o].seller = offers[o].seller /\ offers'[o].buyer = offers[o].buyer
       /\ offers'[o].kind = offers[o].kind /\ offers'[o].station = offers[o].station

\* A commit, or a step of the scheduler.
LEMMA OthersKeepParties ==
    ASSUME MarketInv, \A o \in Offers : PendingKept(o),
           \A t \in Requests : req'[t] = req[t] \/ req'[t] = IdleReq
    PROVE  \A t \in Requests : PartiesKept(req[t])'
<1> SUFFICES ASSUME NEW t \in Requests PROVE PartiesKept(req[t])'
  OBVIOUS
<1>1. CASE req'[t] = IdleReq
  BY <1>1 DEF PartiesKept, IdleReq
<1>2. CASE req'[t] = req[t]
  <2>1. SessionOK(req[t], held[t]) /\ PartiesKept(req[t])
    BY SessionFacts
  <2>2. req[t].op = "accept" /\ req[t].pc \in {"lock", "station", "listing", "claimed", "taken"}
          => req[t].offer \in Offers /\ Exists(req[t].offer)
    BY <2>1 DEF SessionOK, AcceptOK
  <2>3. req[t].op = "counter" /\ req[t].pc \in {"claimed", "insert"}
          => req[t].offer \in Offers /\ Exists(req[t].offer)
    BY <2>1 DEF SessionOK, CounterOK
  <2> QED
    BY <1>2, <2>1, <2>2, <2>3 DEF PartiesKept, PendingKept
<1> QED
  BY <1>1, <1>2

\* Each statement of a request that commits nothing.
LEMMA ReadsKeepParties ==
    ASSUME MarketInv, NEW r \in Requests, Begin(r) \/ RequestStep(r) \/ Abort(r),
           NothingCommitted
    PROVE  \A t \in Requests : PartiesKept(req[t])'
<1>1. req[r] \in SessionRecords /\ SessionOK(req[r], held[r]) /\ PartiesKept(req[r])
  BY SessionFacts
<1>2. CASE Begin(r)
  <2>1. PICK op \in Ops, p \in Players :
          req' = [req EXCEPT ![r] =
                    [IdleReq EXCEPT !.pc = FirstPc(op), !.op = op, !.actor = p]]
    BY <1>2 DEF Begin
  <2> DEFINE next == [IdleReq EXCEPT !.pc = FirstPc(op), !.op = op, !.actor = p]
  <2>2. next.op = op /\ next.pc = FirstPc(op)
    BY DEF IdleReq
  <2>3. PartiesKept(next)
    <3>1. op = "accept" => FirstPc(op) = "player"
      BY DEF FirstPc
    <3>2. op = "counter" => FirstPc(op) = "offer"
      BY DEF FirstPc
    <3> HIDE DEF next
    <3> QED
      BY <2>2, <3>1, <3>2 DEF PartiesKept
  <2> HIDE DEF next
  <2>4. \A t \in Requests : PartiesKept(req'[t])
    BY <2>1, <2>3 DEF next, MarketInv, IndInv, TypeOK
  <2> QED
    BY <2>4 DEF PartiesKept, NothingCommitted
<1>3. CASE Abort(r)
  BY <1>3, ContinueKeepsParties DEF Abort
<1>4. CASE PurchaseSteps(r)
  <2>1. CASE PurchaseLockPlayer(r)
    <3>1. PartiesKept([req[r] EXCEPT !.pc = "station"])
      BY <1>1, <2>1 DEF PurchaseLockPlayer, At, PartiesKept, SessionRecords
    <3> QED
      BY <2>1, <3>1, ContinueKeepsParties DEF PurchaseLockPlayer
  <2>2. CASE PurchaseClaimStation(r)
    <3>1. PICK s \in Stations :
            Continue(r, owner[s] = None /\ balance[req[r].actor] >= StationPrice,
                     {StationRow(s)}, [req[r] EXCEPT !.pc = "claimed", !.station = s])
      BY <2>2 DEF PurchaseClaimStation
    <3>2. PartiesKept([req[r] EXCEPT !.pc = "claimed", !.station = s])
      BY <1>1, <2>2 DEF PurchaseClaimStation, At, PartiesKept, SessionRecords
    <3> QED
      BY <3>1, <3>2, ContinueKeepsParties
  <2>3. CASE PurchaseCommit(r)
    <3>1. \A t \in Requests : req'[t] = req[t] \/ req'[t] = IdleReq
      BY <2>3 DEF PurchaseCommit, Finish, MarketInv, IndInv, TypeOK
    <3> QED
      BY <3>1, OthersKeepParties DEF PendingKept, NothingCommitted
  <2> QED
    BY <1>4, <2>1, <2>2, <2>3 DEF PurchaseSteps
<1>5. CASE CreateCheckStation(r)
  <2>1. PICK s, row :
          Continue(r, owner[s] = req[r].actor, {},
                   [req[r] EXCEPT !.pc = "listing", !.row = row])
    BY <1>5 DEF CreateCheckStation
  <2>2. PartiesKept([req[r] EXCEPT !.pc = "listing", !.row = row])
    BY <1>1, <1>5 DEF CreateCheckStation, At, PartiesKept, SessionRecords
  <2> QED
    BY <2>1, <2>2, ContinueKeepsParties
<1>6. CASE CreateCheckAsset(r)
  <2>1. PartiesKept([req[r] EXCEPT !.pc = "insert"])
    BY <1>1, <1>6 DEF CreateCheckAsset, At, PartiesKept, SessionRecords
  <2> QED
    BY <1>6, <2>1, ContinueKeepsParties DEF CreateCheckAsset
<1>7. CASE AcceptReadPlayer(r)
  <2>1. PartiesKept([req[r] EXCEPT !.pc = "offer", !.bal = balance[req[r].actor]])
    BY <1>1, <1>7 DEF AcceptReadPlayer, At, PartiesKept, SessionRecords
  <2> QED
    BY <1>7, <2>1, ContinueKeepsParties DEF AcceptReadPlayer
<1>8. CASE AcceptReadOffer(r)
  <2>1. PICK o \in Offers :
          Continue(r, /\ offers[o].status = "PENDING"
                      /\ offers[o].seller # req[r].actor
                      /\ offers[o].buyer \in {None, req[r].actor},
                   {}, [req[r] EXCEPT !.pc = "lock", !.offer = o])
    BY <1>8 DEF AcceptReadOffer
  <2>2. offers[o].buyer \in {None, req[r].actor}
          => PartiesKept([req[r] EXCEPT !.pc = "lock", !.offer = o])
    BY <1>1, <1>8 DEF AcceptReadOffer, At, PartiesKept, SessionRecords
  <2> QED
    BY <2>1, <2>2, ContinueKeepsParties
<1>9. CASE AcceptLockPlayer(r)
  <2>1. PICK check, rows, pc :
          Continue(r, check, rows, [req[r] EXCEPT !.pc = pc]) /\ pc \in {"lock", "station"}
    BY <1>9 DEF AcceptLockPlayer
  <2>2. PartiesKept([req[r] EXCEPT !.pc = pc])
    BY <1>1, <1>9, <2>1 DEF AcceptLockPlayer, At, PartiesKept, SessionRecords
  <2> QED
    BY <2>1, <2>2, ContinueKeepsParties
<1>10. CASE AcceptClaimStation(r)
  <2>1. PICK check, rows : Continue(r, check, rows, [req[r] EXCEPT !.pc = "claimed"])
    BY <1>10 DEF AcceptClaimStation
  <2>2. PartiesKept([req[r] EXCEPT !.pc = "claimed"])
    BY <1>1, <1>10 DEF AcceptClaimStation, At, PartiesKept, SessionRecords
  <2> QED
    BY <2>1, <2>2, ContinueKeepsParties
<1>11. CASE AcceptReadBuyerFuel(r)
  <2>1. PICK s, check :
          Continue(r, check, {},
                   [req[r] EXCEPT !.pc = "listing", !.station = s, !.fuel = liters[s]])
    BY <1>11 DEF AcceptReadBuyerFuel
  <2>2. PartiesKept([req[r] EXCEPT !.pc = "listing", !.station = s, !.fuel = liters[s]])
    BY <1>1, <1>11 DEF AcceptReadBuyerFuel, At, PartiesKept, SessionRecords
  <2> QED
    BY <2>1, <2>2, ContinueKeepsParties
<1>12. CASE AcceptDrawFuel(r)
  <2>1. PICK check, rows : Continue(r, check, rows, [req[r] EXCEPT !.pc = "claimed"])
    BY <1>12 DEF AcceptDrawFuel
  <2>2. PartiesKept([req[r] EXCEPT !.pc = "claimed"])
    BY <1>1, <1>12 DEF AcceptDrawFuel, At, PartiesKept, SessionRecords
  <2> QED
    BY <2>1, <2>2, ContinueKeepsParties
<1>13. CASE AcceptTakeOffer(r)
  <2>1. PICK check, rows : Continue(r, check, rows, [req[r] EXCEPT !.pc = "taken"])
    BY <1>13 DEF AcceptTakeOffer
  <2>2. PartiesKept([req[r] EXCEPT !.pc = "taken"])
    BY <1>1, <1>13 DEF AcceptTakeOffer, At, PartiesKept, SessionRecords
  <2> QED
    BY <2>1, <2>2, ContinueKeepsParties
<1>14. CASE CloseReadOffer(r)
  <2>1. PICK o \in Offers :
          /\ Exists(o)
          /\ IF req[r].op = "counter"
               THEN \E c \in Prices, v \in Volumes :
                      Continue(r, MayClose(req[r].op, req[r].actor, offers[o]), {},
                               [req[r] EXCEPT !.pc = "claimed", !.offer = o,
                                  !.row = Countered(offers[o], req[r].actor, c, v)])
               ELSE Continue(r, MayClose(req[r].op, req[r].actor, offers[o]), {},
                             [req[r] EXCEPT !.pc = "claimed", !.offer = o])
    BY <1>14 DEF CloseReadOffer
  <2>2. offers[o] \in OfferRecords
    BY <2>1 DEF Exists, MarketInv, IndInv, TypeOK
  <2>3. CASE req[r].op = "counter"
    <3>1. PICK c \in Prices, v \in Volumes :
            Continue(r, MayClose(req[r].op, req[r].actor, offers[o]), {},
                     [req[r] EXCEPT !.pc = "claimed", !.offer = o,
                        !.row = Countered(offers[o], req[r].actor, c, v)])
      BY <2>1, <2>3
    <3> DEFINE row == Countered(offers[o], req[r].actor, c, v)
    <3>2. /\ row.seller = offers[o].seller /\ row.buyer = offers[o].buyer
          /\ row.kind = offers[o].kind /\ row.station = offers[o].station
      BY <2>2 DEF Countered, OfferRecords
    <3> HIDE DEF row
    <3>3. PartiesKept([req[r] EXCEPT !.pc = "claimed", !.offer = o, !.row = row])
      BY <1>1, <2>3, <3>2 DEF PartiesKept, SessionRecords
    <3> QED
      BY <3>1, <3>3, ContinueKeepsParties DEF row
  <2>4. CASE req[r].op # "counter"
    <3>1. req[r].op \in {"reject", "cancel"}
      BY <1>14, <2>4 DEF CloseReadOffer
    <3>2. PartiesKept([req[r] EXCEPT !.pc = "claimed", !.offer = o])
      BY <1>1, <3>1 DEF PartiesKept, SessionRecords
    <3> QED
      BY <2>1, <2>4, <3>2, ContinueKeepsParties
  <2> QED
    BY <2>3, <2>4
<1>15. CASE CounterSupersede(r)
  <2>1. PICK check, rows : Continue(r, check, rows, [req[r] EXCEPT !.pc = "insert"])
    BY <1>15 DEF CounterSupersede
  <2>2. PartiesKept([req[r] EXCEPT !.pc = "insert"])
    BY <1>1, <1>15 DEF CounterSupersede, At, PartiesKept, SessionRecords
  <2> QED
    BY <2>1, <2>2, ContinueKeepsParties
<1>16. CASE CreateCommit(r) \/ AcceptCommitStationSale(r) \/ AcceptCommitFuelSale(r)
            \/ CloseCommit(r) \/ CounterCommit(r)
  <2>1. \A t \in Requests : req'[t] = req[t] \/ req'[t] = IdleReq
    BY <1>16 DEF CreateCommit, AcceptCommitStationSale, AcceptCommitFuelSale, Settle,
                 CloseCommit, CounterCommit, Finish, MarketInv, IndInv, TypeOK
  <2> QED
    BY <2>1, OthersKeepParties DEF PendingKept, NothingCommitted
<1> QED
  BY <1>2, <1>3, <1>4, <1>5, <1>6, <1>7, <1>8, <1>9, <1>10, <1>11, <1>12, <1>13,
     <1>14, <1>15, <1>16
  DEF RequestStep, CreateSteps, AcceptSteps, CloseSteps

\* The commits and the scheduler's steps: none makes an offer pending again or
\* changes the parties of one that is.
LEMMA CommitsKeepPending ==
    ASSUME MarketInv, NEW r \in Requests,
           \/ PurchaseCommit(r) \/ CreateCommit(r) \/ AcceptCommitStationSale(r)
           \/ AcceptCommitFuelSale(r) \/ CloseCommit(r) \/ CounterCommit(r)
    PROVE  /\ \A o \in Offers : PendingKept(o)
           /\ \A t \in Requests : req'[t] = req[t] \/ req'[t] = IdleReq
<1>1. \A t \in Requests : req'[t] = req[t] \/ req'[t] = IdleReq
  BY DEF PurchaseCommit, CreateCommit, AcceptCommitStationSale, AcceptCommitFuelSale,
         Settle, CloseCommit, CounterCommit, Finish, MarketInv, IndInv, TypeOK
<1> USE DEF MarketInv, IndInv, TypeOK
<1>2. CASE PurchaseCommit(r)
  BY <1>1, <1>2 DEF PurchaseCommit, PendingKept
<1>3. CASE CreateCommit(r)
  BY <1>1, <1>3 DEF CreateCommit, CanInsert, Exists, PendingKept
<1>4. CASE AcceptCommitStationSale(r) \/ AcceptCommitFuelSale(r)
  <2>1. /\ Settle(r) /\ At(r, "accept", "taken")
    BY <1>4 DEF AcceptCommitStationSale, AcceptCommitFuelSale
  <2>2. req[r].offer \in Offers /\ offers[req[r].offer] \in OfferRecords
    BY <2>1, TakenFacts
  <2>3. offers' = [offers EXCEPT ![req[r].offer] =
                      [offers[req[r].offer] EXCEPT !.status = "ACCEPTED", !.buyer = req[r].actor]]
    BY <2>1 DEF Settle
  <2>4. offers'[req[r].offer].status = "ACCEPTED"
    BY <2>2, <2>3 DEF OfferRecords
  <2>5. \A o \in Offers : o # req[r].offer => offers'[o] = offers[o]
    BY <2>3
  <2>6. \A o \in Offers : PendingKept(o)
    BY <2>4, <2>5 DEF PendingKept
  <2> QED
    BY <1>1, <2>6
<1>5. CASE CloseCommit(r)
  <2>1. CASE offers' = offers
    <3>1. \A o \in Offers : PendingKept(o)
      BY <2>1 DEF PendingKept
    <3> QED
      BY <1>1, <3>1
  <2>2. CASE offers' # offers
    <3> DEFINE x == req[r].offer
    <3>1. PICK st \in {"REJECTED", "CANCELLED"} :
            offers' = [offers EXCEPT ![x] = [offers[x] EXCEPT !.status = st]]
      BY <1>5, <2>2 DEF CloseCommit
    <3>2. ASSUME NEW o \in Offers
          PROVE  PendingKept(o)
      <4>1. CASE o # x
        BY <3>1, <4>1 DEF PendingKept
      <4>2. CASE o = x /\ Exists(o)
        <5>1. offers[o] \in OfferRecords
          BY <4>2 DEF Exists
        <5>2. offers'[o] = [offers[o] EXCEPT !.status = st]
          BY <3>1, <4>2
        <5>3. offers'[o].status = st
          BY <5>1, <5>2 DEF OfferRecords
        <5> QED
          BY <5>3 DEF PendingKept
      <4> QED
        BY <4>1, <4>2 DEF PendingKept
    <3> QED
      BY <1>1, <3>2
  <2> QED
    BY <2>1, <2>2
<1>6. CASE CounterCommit(r)
  <2> DEFINE x == req[r].offer
  <2>1. PICK n \in Offers :
          /\ ~Exists(n)
          /\ offers' = [offers EXCEPT ![n] = req[r].row,
                                      ![x] = [@ EXCEPT !.status = "REJECTED"]]
    BY <1>6 DEF CounterCommit, CanInsert
  <2>2. x \in Offers /\ Exists(x) /\ offers[x] \in OfferRecords
    BY <1>6, SessionFacts DEF CounterCommit, At, SessionOK, CounterOK, Exists
  <2>3. offers'[x] = [offers[x] EXCEPT !.status = "REJECTED"]
    BY <2>1, <2>2 DEF Exists
  <2>4. offers'[x].status = "REJECTED"
    BY <2>2, <2>3 DEF OfferRecords
  <2>5. \A o \in Offers : o # x /\ o # n => offers'[o] = offers[o]
    BY <2>1
  <2> HIDE DEF x
  <2> QED
    BY <1>1, <2>1, <2>4, <2>5 DEF PendingKept
<1> QED
  BY <1>1, <1>2, <1>3, <1>4, <1>5, <1>6

LEMMA SchedulerKeepsPending ==
    ASSUME MarketInv,
           \/ \E o \in Offers : Elapse(o)
           \/ ExpireStep \/ ExpireAbort \/ FinishGame \/ UNCHANGED vars
    PROVE  /\ \A o \in Offers : PendingKept(o)
           /\ req' = req
<1> USE DEF MarketInv, IndInv, TypeOK
<1>1. req' = req
  BY DEF Elapse, ExpireStep, ExpireSelect, ExpireFlush, ExpireCommit, ExpireAbort,
         FinishGame, vars
<1>2. CASE offers' = offers
  BY <1>1, <1>2 DEF PendingKept
<1>3. ASSUME NEW x \in Offers, Elapse(x)
      PROVE  \A o \in Offers : PendingKept(o)
  <2>1. /\ offers[x].status = "PENDING"
        /\ offers' = [offers EXCEPT ![x] = [offers[x] EXCEPT !.overdue = TRUE]]
    BY <1>3 DEF Elapse
  <2>2. offers[x] \in OfferRecords
    BY <2>1 DEF NoOffer
  <2>3. offers'[x] = [offers[x] EXCEPT !.overdue = TRUE]
    BY <2>1
  <2>4. /\ offers'[x].seller = offers[x].seller /\ offers'[x].buyer = offers[x].buyer
        /\ offers'[x].kind = offers[x].kind /\ offers'[x].station = offers[x].station
    BY <2>2, <2>3 DEF OfferRecords
  <2>5. \A o \in Offers : o # x => offers'[o] = offers[o]
    BY <2>1
  <2> QED
    BY <2>1, <2>4, <2>5 DEF PendingKept
<1>4. CASE ExpireCommit
  <2> SUFFICES ASSUME NEW o \in Offers
               PROVE  PendingKept(o)
    BY <1>1
  <2>1. CASE o \notin due
    BY <1>4, <2>1 DEF ExpireCommit, PendingKept
  <2>2. CASE o \in due
    <3>1. offers[o] \in OfferRecords
      BY <2>2 DEF SessionsConsistent, Exists
    <3>2. offers'[o] = [offers[o] EXCEPT !.status = "EXPIRED"]
      BY <1>4, <2>2 DEF ExpireCommit
    <3>3. offers'[o].status = "EXPIRED"
      BY <3>1, <3>2 DEF OfferRecords
    <3> QED
      BY <3>3 DEF PendingKept
  <2> QED
    BY <2>1, <2>2
<1> QED
  BY <1>1, <1>2, <1>3, <1>4
  DEF ExpireStep, ExpireSelect, ExpireFlush, ExpireAbort, FinishGame, vars

\* Every other statement commits nothing.
LEMMA CommitOrRead ==
    ASSUME NEW r \in Requests, Begin(r) \/ RequestStep(r) \/ Abort(r)
    PROVE  \/ NothingCommitted
           \/ PurchaseCommit(r) \/ CreateCommit(r) \/ AcceptCommitStationSale(r)
           \/ AcceptCommitFuelSale(r) \/ CloseCommit(r) \/ CounterCommit(r)
BY DEF RequestStep, PurchaseSteps, CreateSteps, AcceptSteps, CloseSteps, Begin, Abort,
       PurchaseLockPlayer, PurchaseClaimStation, CreateCheckStation, CreateCheckAsset,
       AcceptReadPlayer, AcceptReadOffer, AcceptLockPlayer, AcceptClaimStation,
       AcceptReadBuyerFuel, AcceptDrawFuel, AcceptTakeOffer, CloseReadOffer,
       CounterSupersede

LEMMA MarketInit == Init => MarketInv
<1> SUFFICES ASSUME Init
             PROVE  MarketInv
  OBVIOUS
<1>1. IndInv
  BY InitOK
<1>2. \A r \in Requests : req[r] = IdleReq
  BY DEF Init
<1> QED
  BY <1>1, <1>2, IdleParties DEF MarketInv

LEMMA MarketNext == MarketInv /\ [Next]_vars => MarketInv'
<1> SUFFICES ASSUME MarketInv, [Next]_vars
             PROVE  MarketInv'
  OBVIOUS
<1>1. IndInv'
  BY NextOK DEF MarketInv
<1>2. (\A t \in Requests : PartiesKept(req[t]))'
  <2>1. ASSUME NEW r \in Requests, Begin(r) \/ RequestStep(r) \/ Abort(r)
        PROVE  (\A t \in Requests : PartiesKept(req[t]))'
    <3>1. CASE NothingCommitted
      BY <2>1, <3>1, ReadsKeepParties
    <3>2. CASE ~NothingCommitted
      BY <2>1, <3>2, CommitOrRead, CommitsKeepPending, OthersKeepParties
    <3> QED
      BY <3>1, <3>2
  <2>2. CASE \/ \E o \in Offers : Elapse(o)
             \/ ExpireStep \/ ExpireAbort \/ FinishGame \/ UNCHANGED vars
    BY <2>2, SchedulerKeepsPending, OthersKeepParties
  <2> QED
    BY <2>1, <2>2 DEF Next
<1> QED
  BY <1>1, <1>2 DEF MarketInv

\* Whatever the other sessions do, the offer that an accept or a counter goes on
\* to write is, while it is pending, still the one between the parties it read.
THEOREM MarketInductive == Spec => []MarketInv
BY MarketInit, MarketNext, PTL DEF Spec

-----------------------------------------------------------------------------
(* The step of Market that each step implements. *)

\* The deal that a row and its payments stand for, field by field.
DealState(row, paid) ==
    IF paid > 0 THEN "sold" ELSE IF row.status = "PENDING" THEN "open" ELSE "closed"

DealRecord(row, state) ==
    [state |-> state, kind |-> row.kind, seller |-> row.seller, buyer |-> row.buyer,
     station |-> row.station, price |-> row.price]

Deals == [o \in Offers |-> Deal(o)]

LEMMA DealIs ==
    ASSUME NEW o \in Offers
    PROVE  /\ ~Exists(o) => Deal(o) = M!NoDeal
           /\ Exists(o) =>
                Deal(o) = DealRecord(offers[o], DealState(offers[o], payments[o]))
BY DEF Deal, DealRecord, DealState, M!NoDeal

LEMMA DealBecomes ==
    ASSUME NEW o \in Offers
    PROVE  /\ ~Exists(o)' => Deal(o)' = M!NoDeal
           /\ Exists(o)' =>
                Deal(o)' = DealRecord(offers'[o], DealState(offers'[o], payments'[o]))
BY DEF Deal, DealRecord, DealState, M!NoDeal

LEMMA DealChange ==
    ASSUME NEW o \in Offers, offers'[o] = offers[o], payments'[o] = payments[o]
    PROVE  Deal(o)' = Deal(o)
BY DEF Deal, Exists

\* A pending offer is an open deal: nothing was paid for it yet.
LEMMA PendingIsOpen ==
    ASSUME MarketInv, NEW o \in Offers, offers[o].status = "PENDING"
    PROVE  /\ offers[o] \in OfferRecords /\ Exists(o)
           /\ payments[o] = 0
           /\ Deal(o) = DealRecord(offers[o], "open")
<1>1. offers[o] \in OfferRecords /\ Exists(o)
  BY DEF NoOffer, MarketInv, IndInv, TypeOK, Exists
<1>2. payments[o] = 0
  BY DEF MarketInv, IndInv, SettledOnce
<1>3. DealState(offers[o], payments[o]) = "open"
  BY <1>2 DEF DealState
<1> QED
  BY <1>1, <1>2, <1>3, DealIs

\* An offer that is not there has no payments.
LEMMA AbsentIsUnpaid ==
    ASSUME MarketInv, NEW o \in Offers, ~Exists(o)
    PROVE  payments[o] = 0 /\ Deal(o) = M!NoDeal
<1>1. offers[o].status = "none"
  BY DEF Exists, NoOffer
<1> QED
  BY <1>1, DealIs DEF MarketInv, IndInv, SettledOnce

\* The rows a create or a counter inserts are pending offers.
LEMMA InsertedRow ==
    ASSUME MarketInv, NEW r \in Requests,
           At(r, "create", "insert") \/ At(r, "counter", "insert")
    PROVE  req[r].row \in OfferRecords /\ req[r].row.status = "PENDING"
BY SessionFacts DEF At, SessionOK

\* A new row under an id that was free is a new open deal.
LEMMA InsertOpens ==
    ASSUME MarketInv, NEW n \in Offers, ~Exists(n), NEW row \in OfferRecords,
           row.status = "PENDING", offers'[n] = row, payments' = payments
    PROVE  Deal(n)' = DealRecord(row, "open")
<1>1. payments'[n] = 0
  BY AbsentIsUnpaid
<1>2. Exists(n)'
  BY DEF Exists, NoOffer
<1>3. DealState(offers'[n], payments'[n]) = "open"
  BY <1>1 DEF DealState
<1> QED
  BY <1>2, <1>3, DealBecomes

\* Writing a status other than PENDING closes a deal.
LEMMA StatusCloses ==
    ASSUME MarketInv, NEW o \in Offers, offers[o].status = "PENDING",
           NEW st \in Statuses \ {"PENDING"},
           offers'[o] = [offers[o] EXCEPT !.status = st], payments'[o] = payments[o]
    PROVE  Deal(o)' = [Deal(o) EXCEPT !.state = "closed"]
<1>1. offers[o] \in OfferRecords /\ payments'[o] = 0 /\ Deal(o) = DealRecord(offers[o], "open")
  BY PendingIsOpen
<1> DEFINE e == offers'[o]
<1>2. /\ e.status = st /\ e # NoOffer
      /\ e.kind = offers[o].kind /\ e.seller = offers[o].seller
      /\ e.station = offers[o].station /\ e.price = offers[o].price
  BY <1>1, StatusWrite
<1>3. e.buyer = offers[o].buyer
  BY <1>1 DEF OfferRecords
<1>4. DealState(e, payments'[o]) = "closed"
  BY <1>1, <1>2 DEF DealState
<1>5. Deal(o)' = DealRecord(e, "closed")
  BY <1>2, <1>4, DealBecomes DEF Exists
<1> HIDE DEF e
<1>6. DealRecord(e, "closed") = DealRecord(offers[o], "closed")
  BY <1>2, <1>3 DEF DealRecord
<1>7. DealRecord(offers[o], "closed") = [DealRecord(offers[o], "open") EXCEPT !.state = "closed"]
  BY DEF DealRecord
<1> QED
  BY <1>1, <1>5, <1>6, <1>7

\* A step that writes neither owners, nor the journal, nor offers and payments.
LEMMA MarketStutters ==
    ASSUME UNCHANGED <<owner, ledger, offers, payments>>
    PROVE  UNCHANGED M!marketVars
<1>1. \A o \in Offers : Deal(o)' = Deal(o)
  BY DealChange
<1> QED
  BY <1>1 DEF M!marketVars

LEMMA PurchaseBuys ==
    ASSUME MarketInv, NEW r \in Requests, PurchaseCommit(r)
    PROVE  \E p \in Players, s \in Stations : M!Buy(p, s)
<1> DEFINE p == req[r].actor
           s == req[r].station
<1>1. p \in Players /\ s \in Stations /\ owner[s] = None
  BY SessionFacts DEF PurchaseCommit, At, SessionOK, PurchaseOK
<1>2. owner' = [owner EXCEPT ![s] = p]
  BY DEF PurchaseCommit
<1>3. ledger' = [ledger EXCEPT ![p] = @ - StationPrice]
  <2>1. ledger' = [ledger EXCEPT ![p] = @ + -StationPrice]
    BY DEF PurchaseCommit, Post
  <2>2. ledger[p] \in Int /\ StationPrice \in Int
    BY <1>1, TradingAssumption DEF MarketInv, IndInv, TypeOK
  <2>3. ledger[p] + -StationPrice = ledger[p] - StationPrice
    BY <2>2
  <2> HIDE DEF p
  <2> QED
    BY <2>1, <2>3
<1>4. \A o \in Offers : Deal(o)' = Deal(o)
  BY DealChange DEF PurchaseCommit
<1>5. Deals' = Deals
  BY <1>4 DEF Deals
<1>6. M!Buy(p, s)
  <2> HIDE DEF p, s
  <2> QED
    BY <1>1, <1>2, <1>3, <1>5, Zenon DEF M!Buy, Deals
<1> QED
  BY <1>1, <1>6, Zenon

LEMMA CreateOpens ==
    ASSUME MarketInv, NEW r \in Requests, CreateCommit(r)
    PROVE  \E o \in Offers : M!Open(o)
<1>1. PICK o \in Offers : ~Exists(o) /\ offers' = [offers EXCEPT ![o] = req[r].row]
  BY DEF CreateCommit, CanInsert
<1>2. req[r].row \in OfferRecords /\ req[r].row.status = "PENDING"
  BY InsertedRow DEF CreateCommit
<1>3. UNCHANGED <<owner, ledger, payments>>
  BY DEF CreateCommit
<1>4. offers'[o] = req[r].row /\ \A x \in Offers : x # o => offers'[x] = offers[x]
  BY <1>1 DEF MarketInv, IndInv, TypeOK
<1>5. Deal(o)' = DealRecord(req[r].row, "open")
  BY <1>1, <1>2, <1>3, <1>4, InsertOpens
<1>6. Deals[o] = M!NoDeal
  BY <1>1, AbsentIsUnpaid DEF Deals
<1>7. Deals'[o].state = "open"
  BY <1>5 DEF Deals, DealRecord
<1>8. Deals' = [Deals EXCEPT ![o] = Deals'[o]]
  <2>1. \A x \in Offers : x # o => Deal(x)' = Deal(x)
    BY <1>3, <1>4, DealChange
  <2> QED
    BY <2>1 DEF Deals
<1>9. M!Open(o)
  BY <1>3, <1>6, <1>7, <1>8, Zenon DEF M!Open, Deals
<1> QED
  BY <1>9, Zenon

LEMMA CommitCloses ==
    ASSUME MarketInv, NEW r \in Requests, CloseCommit(r)
    PROVE  (\E O \in SUBSET Offers : M!Close(O)) \/ UNCHANGED M!marketVars
<1>1. UNCHANGED <<owner, ledger, payments>>
  BY DEF CloseCommit
<1>2. CASE offers' = offers
  BY <1>1, <1>2, MarketStutters
<1>3. CASE offers' # offers
  <2>1. req[r].offer \in Offers
    BY <1>3 DEF CloseCommit, MarketInv, IndInv, TypeOK
  <2>2. PICK x \in Offers : x = req[r].offer
    BY <2>1
  <2>3. /\ offers[x].status = "PENDING"
        /\ \E st \in {"REJECTED", "CANCELLED"} :
             offers' = [offers EXCEPT ![x] = [offers[x] EXCEPT !.status = st]]
    BY <1>3, <2>2 DEF CloseCommit
  <2>13. PICK st \in {"REJECTED", "CANCELLED"} :
          offers' = [offers EXCEPT ![x] = [offers[x] EXCEPT !.status = st]]
    BY <2>3
  <2>4. /\ offers'[x] = [offers[x] EXCEPT !.status = st]
        /\ \A o \in Offers : o # x => offers'[o] = offers[o]
    BY <2>13 DEF MarketInv, IndInv, TypeOK
  <2>5. st \in Statuses \ {"PENDING"}
    BY DEF Statuses
  <2>6. Deal(x)' = [Deal(x) EXCEPT !.state = "closed"]
    <3>1. payments'[x] = payments[x]
      BY <1>1
    <3> QED
      BY <2>3, <2>4, <2>5, <3>1, StatusCloses
  <2>7. \A o \in Offers : o # x => Deal(o)' = Deal(o)
    BY <1>1, <2>4, DealChange
  <2>8. Deals[x].state = "open"
    BY <2>3, PendingIsOpen DEF Deals, DealRecord
  <2>9. Deals' = [o \in Offers |-> IF o \in {x} THEN [Deals[o] EXCEPT !.state = "closed"]
                                                ELSE Deals[o]]
    <3>1. \A o \in Offers : Deals[o] = Deal(o)
      BY DEF Deals
    <3>2. \A o \in Offers :
            Deal(o)' = IF o \in {x} THEN [Deal(o) EXCEPT !.state = "closed"] ELSE Deal(o)
      BY <2>6, <2>7
    <3>3. Deals' = [o \in Offers |-> Deal(o)']
      BY DEF Deals
    <3> QED
      BY <3>1, <3>2, <3>3, Zenon
  <2>10. \A o \in {x} : Deals[o].state = "open"
    BY <2>8
  <2>11. M!Close({x})
    BY <1>1, <2>9, <2>10, Zenon DEF M!Close, Deals
  <2>12. {x} \in SUBSET Offers
    OBVIOUS
  <2> QED
    BY <2>11, <2>12, Zenon
<1> QED
  BY <1>2, <1>3

LEMMA CounterReplaces ==
    ASSUME MarketInv, NEW r \in Requests, CounterCommit(r)
    PROVE  \E o, n \in Offers : M!Counter(o, n)
<1> DEFINE row == req[r].row
<1>0. req[r].offer \in Offers
  BY SessionFacts DEF CounterCommit, At, SessionOK, CounterOK
<1>16. PICK x \in Offers : x = req[r].offer
  BY <1>0
<1>1. PICK n \in Offers :
        /\ ~Exists(n)
        /\ offers' = [offers EXCEPT ![n] = row, ![x] = [@ EXCEPT !.status = "REJECTED"]]
  BY <1>16 DEF CounterCommit, CanInsert
<1>2. row \in OfferRecords /\ row.status = "PENDING"
  BY InsertedRow DEF CounterCommit
<1>3. UNCHANGED <<owner, ledger, payments>>
  BY DEF CounterCommit
<1>4. x \in Offers /\ Exists(x) /\ offers[x].status = "PENDING"
  BY <1>16, SessionFacts DEF CounterCommit, At, SessionOK, CounterOK
<1>5. /\ row.seller = offers[x].seller /\ row.buyer = offers[x].buyer
      /\ row.kind = offers[x].kind /\ row.station = offers[x].station
  BY <1>4, <1>16, SessionFacts DEF CounterCommit, At, PartiesKept
<1> HIDE DEF row
<1>6. n # x
  BY <1>1, <1>4
<1>7. /\ offers'[n] = row
      /\ offers'[x] = [offers[x] EXCEPT !.status = "REJECTED"]
      /\ \A o \in Offers : o # x /\ o # n => offers'[o] = offers[o]
  BY <1>1, <1>4, <1>6 DEF MarketInv, IndInv, TypeOK
<1>8. Deal(n)' = DealRecord(row, "open")
  BY <1>1, <1>2, <1>3, <1>7, InsertOpens
<1>9. Deal(x)' = [Deal(x) EXCEPT !.state = "closed"]
  <2>1. "REJECTED" \in Statuses \ {"PENDING"}
    BY DEF Statuses
  <2>2. payments'[x] = payments[x]
    BY <1>3
  <2> QED
    BY <1>4, <1>7, <2>1, <2>2, StatusCloses
<1>10. \A o \in Offers : o # x /\ o # n => Deal(o)' = Deal(o)
  BY <1>3, <1>7, DealChange
<1>11. Deal(x) = DealRecord(offers[x], "open")
  BY <1>4, PendingIsOpen
<1>12. Deals[x].state = "open" /\ Deals[n] = M!NoDeal
  BY <1>1, <1>4, <1>11, AbsentIsUnpaid DEF Deals, DealRecord
<1>13. /\ Deals'[n].state = "open"
       /\ Deals'[n].seller = Deals[x].seller /\ Deals'[n].buyer = Deals[x].buyer
       /\ Deals'[n].kind = Deals[x].kind /\ Deals'[n].station = Deals[x].station
  BY <1>4, <1>5, <1>8, <1>11 DEF Deals, DealRecord
<1>14. Deals' = [Deals EXCEPT ![x].state = "closed", ![n] = Deals'[n]]
  <2>1. Deals'[x] = [Deals[x] EXCEPT !.state = "closed"]
    <3>1. Deals'[x] = Deal(x)' /\ Deals[x] = Deal(x)
      BY <1>4 DEF Deals
    <3> QED
      BY <1>9, <3>1
  <2>2. \A o \in Offers : o # x /\ o # n => Deals'[o] = Deals[o]
    BY <1>10 DEF Deals
  <2>3. Deals = [o \in Offers |-> Deals[o]] /\ Deals' = [o \in Offers |-> Deals'[o]]
    BY DEF Deals
  <2> DEFINE e == [Deals EXCEPT ![x] = [Deals[x] EXCEPT !.state = "closed"], ![n] = Deals'[n]]
  <2>4. e = Deals'
    BY <1>4, <1>6, <2>1, <2>2, <2>3
  <2> QED
    BY <2>4
<1>15. M!Counter(x, n)
  BY <1>3, <1>12, <1>13, <1>14, Zenon DEF M!Counter, Deals
<1> QED
  BY <1>4, <1>15, Zenon

\* Both kinds of sale, seen through the deals and the journal.
LEMMA SettleSells ==
    ASSUME MarketInv, NEW r \in Requests, At(r, "accept", "taken"), Settle(r),
           NEW o \in Offers, o = req[r].offer, NEW b \in Players, b = req[r].actor,
           IF offers[o].kind = "station"
             THEN /\ owner[offers[o].station] = offers[o].seller
                  /\ owner' = [owner EXCEPT ![offers[o].station] = b]
             ELSE UNCHANGED owner
    PROVE  M!Sell(o, b)
<1>1. /\ offers[o] \in OfferRecords /\ offers[o].status = "PENDING"
      /\ offers[o].seller # b
  BY TakenFacts DEF MarketInv
<1>2. /\ payments[o] = 0 /\ Exists(o) /\ Deal(o) = DealRecord(offers[o], "open")
  BY <1>1, PendingIsOpen
<1>3. offers[o].buyer \in {None, b}
  BY <1>1, SessionFacts DEF At, PartiesKept
<1>4. /\ offers' = [offers EXCEPT ![o] = [offers[o] EXCEPT !.status = "ACCEPTED", !.buyer = b]]
      /\ ledger' = [ledger EXCEPT ![b] = @ - offers[o].price,
                                  ![offers[o].seller] = @ + offers[o].price]
      /\ payments' = [payments EXCEPT ![o] = @ + 1]
  BY DEF Settle, Pay, Offer
<1> DEFINE e == [offers[o] EXCEPT !.status = "ACCEPTED", !.buyer = b]
<1>5. /\ offers'[o] = e /\ payments'[o] = 1
      /\ \A x \in Offers : x # o => offers'[x] = offers[x] /\ payments'[x] = payments[x]
  <2>1. /\ offers = [x \in Offers |-> offers[x]] /\ payments = [x \in Offers |-> payments[x]]
    BY DEF MarketInv, IndInv, TypeOK
  <2>2. offers' = [offers EXCEPT ![o] = e]
    BY <1>4
  <2> HIDE DEF e
  <2>3. offers'[o] = e /\ \A x \in Offers : x # o => offers'[x] = offers[x]
    BY <2>1, <2>2
  <2>4. payments'[o] = 1 /\ \A x \in Offers : x # o => payments'[x] = payments[x]
    BY <1>2, <1>4, <2>1
  <2> QED
    BY <2>3, <2>4
<1>6. /\ e.status = "ACCEPTED" /\ e.buyer = b /\ e.kind = offers[o].kind
      /\ e.seller = offers[o].seller /\ e.station = offers[o].station
      /\ e.price = offers[o].price
  BY <1>1 DEF OfferRecords
<1> HIDE DEF e
<1>7. Deal(o)' = DealRecord(e, "sold")
  <2>1. e # NoOffer
    BY <1>6 DEF NoOffer
  <2>2. DealState(e, 1) = "sold"
    BY DEF DealState
  <2> QED
    BY <1>5, <2>1, <2>2, DealBecomes DEF Exists
<1>8. Deal(o)' = [Deal(o) EXCEPT !.state = "sold", !.buyer = b]
  <2>1. DealRecord(e, "sold") =
          [DealRecord(offers[o], "open") EXCEPT !.state = "sold", !.buyer = b]
    <3>1. DealRecord(e, "sold") =
            [state |-> "sold", kind |-> offers[o].kind, seller |-> offers[o].seller,
             buyer |-> b, station |-> offers[o].station, price |-> offers[o].price]
      BY <1>6 DEF DealRecord
    <3>2. [DealRecord(offers[o], "open") EXCEPT !.state = "sold", !.buyer = b] =
            [state |-> "sold", kind |-> offers[o].kind, seller |-> offers[o].seller,
             buyer |-> b, station |-> offers[o].station, price |-> offers[o].price]
      <4>1. [DealRecord(offers[o], "open") EXCEPT !.state = "sold"] =
              DealRecord(offers[o], "sold")
        BY DEF DealRecord
      <4>2. [DealRecord(offers[o], "sold") EXCEPT !.buyer = b] =
              [state |-> "sold", kind |-> offers[o].kind, seller |-> offers[o].seller,
               buyer |-> b, station |-> offers[o].station, price |-> offers[o].price]
        BY DEF DealRecord
      <4>3. [DealRecord(offers[o], "open") EXCEPT !.state = "sold", !.buyer = b] =
              [[DealRecord(offers[o], "open") EXCEPT !.state = "sold"] EXCEPT !.buyer = b]
        OBVIOUS
      <4> QED
        BY <4>1, <4>2, <4>3
    <3> QED
      BY <3>1, <3>2
  <2> QED
    BY <1>2, <1>7, <2>1
<1>9. \A x \in Offers : x # o => Deal(x)' = Deal(x)
  BY <1>5, DealChange
<1>10. Deals' = [Deals EXCEPT ![o].state = "sold", ![o].buyer = b]
  <2>1. Deals'[o] = Deal(o)' /\ Deals[o] = Deal(o)
    BY DEF Deals
  <2>2. \A x \in Offers : x # o => Deals'[x] = Deals[x]
    BY <1>9 DEF Deals
  <2>3. Deals = [x \in Offers |-> Deals[x]] /\ Deals' = [x \in Offers |-> Deals'[x]]
    BY DEF Deals
  <2>4. Deals'[o] = [[Deals[o] EXCEPT !.state = "sold"] EXCEPT !.buyer = b]
    BY <1>8, <2>1
  <2> QED
    BY <2>2, <2>3, <2>4
<1>11. /\ Deals[o].state = "open" /\ Deals[o].kind = offers[o].kind
       /\ Deals[o].seller = offers[o].seller /\ Deals[o].buyer = offers[o].buyer
       /\ Deals[o].station = offers[o].station /\ Deals[o].price = offers[o].price
  BY <1>2 DEF Deals, DealRecord
<1>12. /\ Deals[o].state = "open" /\ b # Deals[o].seller /\ Deals[o].buyer \in {None, b}
  BY <1>1, <1>3, <1>11
<1>13. ledger' = [ledger EXCEPT ![b] = @ - Deals[o].price,
                                ![Deals[o].seller] = @ + Deals[o].price]
  BY <1>4, <1>11
<1>14. IF Deals[o].kind = "station"
         THEN /\ owner[Deals[o].station] = Deals[o].seller
              /\ owner' = [owner EXCEPT ![Deals[o].station] = b]
         ELSE UNCHANGED owner
  BY <1>11
<1> QED
  BY <1>10, <1>12, <1>13, <1>14, Zenon DEF M!Sell, Deals

LEMMA AcceptSells ==
    ASSUME MarketInv, NEW r \in Requests,
           AcceptCommitStationSale(r) \/ AcceptCommitFuelSale(r)
    PROVE  \E o \in Offers, b \in Players : M!Sell(o, b)
<1>1. At(r, "accept", "taken") /\ Settle(r)
  BY DEF AcceptCommitStationSale, AcceptCommitFuelSale
<1>2. req[r].offer \in Offers /\ req[r].actor \in Players
  BY <1>1, TakenFacts DEF MarketInv
<1>3. PICK o \in Offers : o = req[r].offer
  BY <1>2
<1>4. PICK b \in Players : b = req[r].actor
  BY <1>2
<1>5. offers[o].kind = "station" => owner[offers[o].station] = offers[o].seller
  BY <1>1, <1>3, SessionFacts DEF At, SessionOK, AcceptOK
<1>6. IF offers[o].kind = "station"
        THEN /\ owner[offers[o].station] = offers[o].seller
             /\ owner' = [owner EXCEPT ![offers[o].station] = b]
        ELSE UNCHANGED owner
  <2>1. CASE AcceptCommitStationSale(r)
    BY <1>3, <1>4, <1>5, <2>1 DEF AcceptCommitStationSale, Offer
  <2>2. CASE AcceptCommitFuelSale(r)
    BY <1>3, <2>2 DEF AcceptCommitFuelSale, Offer
  <2> QED
    BY <2>1, <2>2
<1>7. M!Sell(o, b)
  BY <1>1, <1>3, <1>4, <1>6, SettleSells
<1> QED
  BY <1>7, Zenon

\* The expiry step closes the deals among its selection that are still open; an
\* offer that was settled after the SELECT stays a deal that was made.
LEMMA ExpiryCloses ==
    ASSUME MarketInv, ExpireCommit
    PROVE  \E O \in SUBSET Offers : M!Close(O)
<1> DEFINE O == {o \in due : Deal(o).state = "open"}
<1>1. due \subseteq Offers /\ \A o \in due : Exists(o) /\ offers[o] \in OfferRecords
  BY DEF MarketInv, IndInv, TypeOK, SessionsConsistent, Exists
<1>2. PICK P \in SUBSET Offers : P = O
  BY <1>1
<1>3. /\ UNCHANGED <<owner, ledger, payments>>
      /\ \A o \in Offers :
           offers'[o] = IF o \in due THEN [offers[o] EXCEPT !.status = "EXPIRED"]
                                     ELSE offers[o]
  BY DEF ExpireCommit
<1>4. ASSUME NEW o \in Offers
      PROVE  Deal(o)' = IF o \in P THEN [Deal(o) EXCEPT !.state = "closed"] ELSE Deal(o)
  <2>1. CASE o \notin due
    BY <1>2, <1>3, <2>1, DealChange
  <2>2. CASE o \in due
    <3>1. offers[o] \in OfferRecords /\ Exists(o) /\ payments'[o] = payments[o]
          /\ offers'[o] = [offers[o] EXCEPT !.status = "EXPIRED"]
      BY <1>1, <1>3, <2>2
    <3>2. /\ offers'[o].status = "EXPIRED" /\ offers'[o] # NoOffer
          /\ offers'[o].kind = offers[o].kind /\ offers'[o].seller = offers[o].seller
          /\ offers'[o].station = offers[o].station /\ offers'[o].price = offers[o].price
      <4>1. "EXPIRED" \in Statuses
        BY DEF Statuses
      <4> QED
        BY <3>1, <4>1, StatusWrite
    <3>3. offers'[o].buyer = offers[o].buyer
      BY <3>1 DEF OfferRecords
    <3>4. \A st : DealRecord(offers'[o], st) = DealRecord(offers[o], st)
      BY <3>2, <3>3 DEF DealRecord
    <3>5. /\ Deal(o) = DealRecord(offers[o], DealState(offers[o], payments[o]))
          /\ Deal(o)' = DealRecord(offers[o], DealState(offers'[o], payments[o]))
      BY <3>1, <3>2, <3>4, DealIs, DealBecomes DEF Exists
    <3>6. CASE DealState(offers[o], payments[o]) = "open"
      <4>1. DealState(offers'[o], payments[o]) = "closed"
        BY <3>2, <3>6 DEF DealState
      <4>2. Deal(o) = DealRecord(offers[o], "open")
        BY <3>5, <3>6
      <4>3. o \in P
        BY <1>2, <2>2, <4>2 DEF DealRecord
      <4>4. DealRecord(offers[o], "closed") = [DealRecord(offers[o], "open") EXCEPT !.state = "closed"]
        BY DEF DealRecord
      <4> QED
        BY <3>5, <4>1, <4>2, <4>3, <4>4
    <3>7. CASE DealState(offers[o], payments[o]) # "open"
      <4>1. DealState(offers'[o], payments[o]) = DealState(offers[o], payments[o])
        BY <3>2, <3>7 DEF DealState
      <4>2. Deal(o).state # "open"
        BY <3>5, <3>7 DEF DealRecord
      <4>3. o \notin P
        BY <1>2, <4>2
      <4> QED
        BY <3>5, <4>1, <4>3
    <3> QED
      BY <3>6, <3>7
  <2> QED
    BY <2>1, <2>2
<1>5. \A o \in P : Deals[o].state = "open"
  BY <1>2 DEF Deals
<1>6. Deals' = [o \in Offers |-> IF o \in P THEN [Deals[o] EXCEPT !.state = "closed"]
                                            ELSE Deals[o]]
  <2>1. \A o \in Offers : Deals[o] = Deal(o)
    BY DEF Deals
  <2>2. Deals' = [o \in Offers |-> Deal(o)']
    BY DEF Deals
  <2> QED
    BY <1>4, <2>1, <2>2, Zenon
<1>7. M!Close(P)
  BY <1>3, <1>5, <1>6, Zenon DEF M!Close, Deals
<1> QED
  BY <1>7, Zenon

LEMMA MarketStart == Init => M!Init
<1> SUFFICES ASSUME Init
             PROVE  M!Init
  OBVIOUS
<1>1. /\ owner \in [Stations -> Players \cup {None}]
      /\ ledger = [p \in Players |-> StartBalance]
  BY TradingAssumption DEF Init
<1>2. \A o \in Offers : ~Exists(o)
  BY DEF Init, Exists
<1>3. Deals = [o \in Offers |-> M!NoDeal]
  BY <1>2, DealIs DEF Deals
<1> QED
  BY <1>1, <1>3, Zenon DEF M!Init, Deals

LEMMA MarketStep == MarketInv /\ [Next]_vars => [M!Next]_(M!marketVars)
<1> SUFFICES ASSUME MarketInv, [Next]_vars
             PROVE  M!Next \/ UNCHANGED M!marketVars
  BY Zenon
<1>1. ASSUME NEW r \in Requests, Begin(r) \/ RequestStep(r) \/ Abort(r)
      PROVE  M!Next \/ UNCHANGED M!marketVars
  <2>1. CASE NothingCommitted
    BY <2>1, MarketStutters DEF NothingCommitted
  <2>2. CASE PurchaseCommit(r)
    BY <2>2, PurchaseBuys, Zenon DEF M!Next
  <2>3. CASE CreateCommit(r)
    BY <2>3, CreateOpens, Zenon DEF M!Next
  <2>4. CASE AcceptCommitStationSale(r) \/ AcceptCommitFuelSale(r)
    BY <2>4, AcceptSells, Zenon DEF M!Next
  <2>5. CASE CloseCommit(r)
    BY <2>5, CommitCloses, Zenon DEF M!Next
  <2>6. CASE CounterCommit(r)
    BY <2>6, CounterReplaces, Zenon DEF M!Next
  <2> QED
    BY <1>1, <2>1, <2>2, <2>3, <2>4, <2>5, <2>6, CommitOrRead
<1>2. ASSUME NEW x \in Offers, Elapse(x)
      PROVE  UNCHANGED M!marketVars
  <2>1. /\ offers[x].status = "PENDING" /\ UNCHANGED <<owner, ledger, payments>>
        /\ offers' = [offers EXCEPT ![x] = [offers[x] EXCEPT !.overdue = TRUE]]
    BY <1>2 DEF Elapse
  <2>2. /\ offers[x] \in OfferRecords /\ payments[x] = 0
        /\ Deal(x) = DealRecord(offers[x], "open")
    BY <2>1, PendingIsOpen
  <2>3. /\ offers'[x] = [offers[x] EXCEPT !.overdue = TRUE]
        /\ \A o \in Offers : o # x => offers'[o] = offers[o]
    BY <2>1 DEF MarketInv, IndInv, TypeOK
  <2>4. /\ offers'[x].status = "PENDING" /\ offers'[x].buyer = offers[x].buyer
        /\ offers'[x].kind = offers[x].kind /\ offers'[x].seller = offers[x].seller
        /\ offers'[x].station = offers[x].station /\ offers'[x].price = offers[x].price
    BY <2>1, <2>2, <2>3 DEF OfferRecords
  <2>5. offers'[x] # NoOffer /\ DealState(offers'[x], payments'[x]) = "open"
    BY <2>1, <2>2, <2>4 DEF NoOffer, DealState
  <2>6. Deal(x)' = DealRecord(offers'[x], "open")
    BY <2>5, DealBecomes DEF Exists
  <2>7. Deal(x)' = Deal(x)
    BY <2>2, <2>4, <2>6 DEF DealRecord
  <2>8. \A o \in Offers : Deal(o)' = Deal(o)
    BY <2>1, <2>3, <2>7, DealChange
  <2> QED
    BY <2>1, <2>8 DEF M!marketVars
<1>3. CASE ExpireCommit
  BY <1>3, ExpiryCloses, Zenon DEF M!Next
<1>4. CASE ExpireSelect \/ ExpireFlush \/ ExpireAbort \/ FinishGame \/ UNCHANGED vars
  <2>1. UNCHANGED <<owner, ledger, offers, payments>>
    BY <1>4 DEF ExpireSelect, ExpireFlush, ExpireAbort, FinishGame, vars
  <2> QED
    BY <2>1, MarketStutters
<1> QED
  BY <1>1, <1>2, <1>3, <1>4 DEF Next, ExpireStep

\* Seen through owners, journal and deals, every committed request and every
\* committed expiry step is one step of Market, and everything else a stutter.
THEOREM MarketImplemented == Spec => RefinesMarket
<1>1. Spec => []MarketInv
  BY MarketInductive
<1> QED
  BY <1>1, MarketStart, MarketStep, PTL DEF Spec, RefinesMarket, M!Spec

-----------------------------------------------------------------------------
(* Part 2: FuelOrders.                                                       *)

\* A complete order has no stop left; a truck tick moves trucks under way only.
OrdersOK ==
    /\ \A o \in Orders : orders[o].status = "DELIVERED" => orders[o].pending = {}
    /\ \A o \in moving : orders[o].status = "IN_TRANSIT"

OrderInv ==
    /\ OrderTypeOK
    /\ RoomReserved
    /\ OrdersPaid
    /\ StockNotOversold
    /\ OrderSessionsConsistent
    /\ OrdersOK

LEMMA OrderRowTypes ==
    /\ \A p \in Players : PlayerRow(p) \in OrderRows
    /\ \A s \in Stations : FuelRow(s) \in OrderRows
    /\ RefineryRow \in OrderRows
BY DEF PlayerRow, FuelRow, RefineryRow, OrderRows

\* A session without a request has made no assumption.
LEMMA IdleOrderOK == IdleOrder \in OrderSessions /\ OrderSessionOK(IdleOrder, {})
BY FuelOrdersAssumption
   DEF IdleOrder, OrderSessions, OrderSessionOK, OrderPcs, Loads, NoLoad

LEMMA OrderInitOK == OrderInit => OrderInv
<1> SUFFICES ASSUME OrderInit PROVE OrderInv
  OBVIOUS
<1>1. NoLoad \in [Stations -> Nat]
  BY DEF NoLoad
<1>2. OrderTypeOK
  BY <1>1, IdleOrderOK, StoreAssumption, FuelOrdersAssumption
  DEF OrderInit, SupplyInit, OrderTypeOK
<1>3. RoomReserved /\ OrdersPaid /\ StockNotOversold
  BY StoreAssumption, FuelOrdersAssumption
  DEF OrderInit, SupplyInit, RoomReserved, OrdersPaid, StockNotOversold, NoLoad
<1>4. OrderSessionsConsistent
  BY IdleOrderOK DEF OrderInit, SupplyInit, OrderSessionsConsistent, Sessions
<1>5. OrdersOK
  BY DEF OrderInit, SupplyInit, NoOrder, OrdersOK
<1> QED
  BY <1>2, <1>3, <1>4, <1>5 DEF OrderInv

\* Taking free rows keeps the locks exclusive; so does releasing rows.
LEMMA OrderLocksStay ==
    ASSUME OrderTypeOK, OrderSessionsConsistent,
           NEW s \in Sessions, NEW rows \in SUBSET OrderRows,
           NEW h \in SUBSET (held[s] \cup rows),
           \A row \in rows : row \in h => Free(s, row),
           held' = [held EXCEPT ![s] = h]
    PROVE  /\ \A a, b \in Sessions : a # b => held'[a] \cap held'[b] = {}
           /\ held' \in [Sessions -> SUBSET OrderRows]
<1>1. \A a, b \in Sessions : a # b => held[a] \cap held[b] = {}
  BY DEF OrderSessionsConsistent
<1>2. \A row \in h : \A t \in Sessions \ {s} : row \notin held[t]
  BY <1>1 DEF Free
<1>3. held \in [Sessions -> SUBSET OrderRows]
  BY DEF OrderTypeOK
<1> QED
  BY <1>1, <1>2, <1>3

-----------------------------------------------------------------------------
(* Statements that commit nothing. *)

LEMMA ProceedStep ==
    ASSUME OrderInv, NEW r \in Requests, NEW check \in BOOLEAN,
           NEW rows \in SUBSET OrderRows, NEW next \in OrderSessions,
           check => OrderSessionOK(next, held[r] \cup rows),
           check => \A row \in rows : Free(r, row),
           Proceed(r, check, rows, next),
           NoRowWritten
    PROVE  OrderInv'
<1> DEFINE q == IF check THEN next ELSE IdleOrder
           h == IF check THEN held[r] \cup rows ELSE {}
<1>1. r \in Sessions
  BY DEF Sessions
<1>2. /\ oreq' = [oreq EXCEPT ![r] = q]
      /\ held' = [held EXCEPT ![r] = h]
  BY <1>1 DEF Proceed, OrderInv, OrderTypeOK
<1>3. q \in OrderSessions /\ OrderSessionOK(q, h)
  BY IdleOrderOK
<1>4. /\ \A a, b \in Sessions : a # b => held'[a] \cap held'[b] = {}
      /\ held' \in [Sessions -> SUBSET OrderRows]
  <2>1. h \in SUBSET (held[r] \cup rows)
    OBVIOUS
  <2>2. \A row \in rows : row \in h => Free(r, row)
    OBVIOUS
  <2> QED
    BY <1>1, <1>2, <2>1, <2>2, OrderLocksStay DEF OrderInv
<1>5. OrderTypeOK'
  BY <1>2, <1>3, <1>4 DEF OrderInv, OrderTypeOK, NoRowWritten
<1>6. (RoomReserved /\ OrdersPaid /\ StockNotOversold)'
  BY DEF OrderInv, RoomReserved, OrdersPaid, StockNotOversold, NoRowWritten
<1>7. \A t \in Requests : OrderSessionOK(oreq[t], held[t])'
  <2> SUFFICES ASSUME NEW t \in Requests
               PROVE  OrderSessionOK(oreq[t], held[t])'
    OBVIOUS
  <2>1. OrderSessionOK(oreq'[t], held'[t])
    <3>1. CASE t = r
      BY <3>1, <1>1, <1>2, <1>3 DEF OrderInv, OrderTypeOK
    <3>2. CASE t # r
      BY <3>2, <1>1, <1>2 DEF OrderInv, OrderTypeOK, OrderSessionsConsistent, Sessions
    <3> QED
      BY <3>1, <3>2
  <2> QED
    BY <2>1 DEF OrderSessionOK, NoRowWritten, RoomFor
<1>8. OrdersOK'
  BY DEF OrderInv, OrdersOK, NoRowWritten
<1> QED
  BY <1>4, <1>5, <1>6, <1>7, <1>8 DEF OrderInv, OrderSessionsConsistent

LEMMA OrderBeginStep ==
    ASSUME OrderInv, NEW r \in Requests, OrderBegin(r)
    PROVE  OrderInv'
<1>1. PICK p \in Players, load \in Loads :
        /\ Total(load) \in 1 .. TruckCapacity
        /\ oreq' = [oreq EXCEPT ![r] =
                     [IdleOrder EXCEPT !.pc = "player", !.actor = p,
                        !.stops = load, !.total = Total(load)]]
  BY DEF OrderBegin
<1> DEFINE next == [IdleOrder EXCEPT !.pc = "player", !.actor = p,
                      !.stops = load, !.total = Total(load)]
<1>2. next \in OrderSessions
  <2>1. Total(load) \in 0 .. TruckCapacity
    BY <1>1, FuelOrdersAssumption
  <2> QED
    BY <2>1, IdleOrderOK DEF IdleOrder, OrderSessions, OrderPcs
<1>3. OrderSessionOK(next, held[r] \cup {})
  BY DEF OrderSessionOK, IdleOrder
<1>4. Proceed(r, TRUE, {}, next)
  <2>1. held' = [held EXCEPT ![r] = @ \cup {}]
    BY DEF OrderBegin, OrderInv, OrderTypeOK, Sessions
  <2> QED
    BY <1>1, <2>1 DEF Proceed
<1>5. NoRowWritten
  BY DEF OrderBegin
<1> HIDE DEF next
<1> QED
  BY <1>2, <1>3, <1>4, <1>5, ProceedStep

LEMMA IncidentReadStep ==
    ASSUME OrderInv, NEW r \in Requests, IncidentRead(r)
    PROVE  OrderInv'
<1> DEFINE next == [IdleOrder EXCEPT !.pc = "spoil", !.seen = stock]
<1>1. stock \in Int /\ stock >= 0
  BY DEF OrderInv, OrderTypeOK, StockNotOversold
<1>2. next \in OrderSessions
  BY <1>1, IdleOrderOK DEF IdleOrder, OrderSessions, OrderPcs
<1>3. OrderSessionOK(next, held[r] \cup {})
  BY <1>1 DEF OrderSessionOK, IdleOrder
<1>4. Proceed(r, TRUE, {}, next)
  <2>1. held' = [held EXCEPT ![r] = @ \cup {}]
    BY DEF IncidentRead, OrderInv, OrderTypeOK, Sessions
  <2> QED
    BY <2>1 DEF Proceed, IncidentRead
<1>5. NoRowWritten
  BY DEF IncidentRead
<1> HIDE DEF next
<1> QED
  BY <1>2, <1>3, <1>4, <1>5, ProceedStep

LEMMA OrderAbortStep ==
    ASSUME OrderInv, NEW r \in Requests, OrderAbort(r)
    PROVE  OrderInv'
<1>1. IdleOrder \in OrderSessions
  BY IdleOrderOK
<1> QED
  BY <1>1, ProceedStep DEF OrderAbort

\* What the invariant says of one session.
LEMMA OrderSessionFacts ==
    ASSUME OrderInv, NEW r \in Requests
    PROVE  /\ oreq[r] \in OrderSessions
           /\ OrderSessionOK(oreq[r], held[r])
BY DEF OrderInv, OrderTypeOK, OrderSessionsConsistent

LEMMA OrderLockPlayerStep ==
    ASSUME OrderInv, NEW r \in Requests, OrderLockPlayer(r)
    PROVE  OrderInv'
<1> DEFINE rows == {PlayerRow(oreq[r].actor)}
           next == [oreq[r] EXCEPT !.pc = "stations", !.todo = Stops(oreq[r].stops)]
<1>1. oreq[r] \in OrderSessions /\ OrderSessionOK(oreq[r], held[r])
  BY OrderSessionFacts
<1>2. oreq[r].actor \in Players
  BY <1>1 DEF OrderLockPlayer, OrderSessionOK
<1>3. rows \in SUBSET OrderRows
  BY <1>2, OrderRowTypes
<1>4. next \in OrderSessions
  BY <1>1 DEF OrderSessions, OrderPcs, Stops
<1>5. OrderSessionOK(next, held[r] \cup rows)
  BY <1>1, <1>2 DEF OrderSessionOK, OrderSessions
<1>6. Proceed(r, TRUE, rows, next) /\ NoRowWritten /\ \A row \in rows : Free(r, row)
  BY DEF OrderLockPlayer
<1> HIDE DEF next, rows
<1> QED
  BY <1>3, <1>4, <1>5, <1>6, ProceedStep

LEMMA OrderCheckStationStep ==
    ASSUME OrderInv, NEW r \in Requests, OrderCheckStation(r)
    PROVE  OrderInv'
<1>1. PICK s \in oreq[r].todo :
        LET rest == oreq[r].todo \ {s}
        IN Proceed(r, owner[s] = oreq[r].actor, {},
                   [oreq[r] EXCEPT
                      !.pc   = IF rest = {} THEN "tanks" ELSE "stations",
                      !.todo = IF rest = {} THEN Stops(oreq[r].stops) ELSE rest])
  BY DEF OrderCheckStation
<1> DEFINE rest == oreq[r].todo \ {s}
           next == [oreq[r] EXCEPT
                      !.pc   = IF rest = {} THEN "tanks" ELSE "stations",
                      !.todo = IF rest = {} THEN Stops(oreq[r].stops) ELSE rest]
<1>2. oreq[r] \in OrderSessions /\ OrderSessionOK(oreq[r], held[r])
  BY OrderSessionFacts
<1>3. next \in OrderSessions
  BY <1>2 DEF OrderSessions, OrderPcs, Stops
<1>4. OrderSessionOK(next, held[r] \cup {})
  BY <1>2 DEF OrderSessionOK, OrderSessions, OrderCheckStation
<1>5. Proceed(r, owner[s] = oreq[r].actor, {}, next)
  BY <1>1
<1>6. NoRowWritten
  BY DEF OrderCheckStation
<1> HIDE DEF next
<1> QED
  BY <1>3, <1>4, <1>5, <1>6, ProceedStep

LEMMA OrderLockTankStep ==
    ASSUME OrderInv, NEW r \in Requests, OrderLockTank(r)
    PROVE  OrderInv'
<1>1. PICK s \in oreq[r].todo :
        LET rest == oreq[r].todo \ {s}
        IN /\ Free(r, FuelRow(s))
           /\ Proceed(r, rest = {} => RoomFor(oreq[r].stops), {FuelRow(s)},
                      [oreq[r] EXCEPT
                         !.pc   = IF rest = {} THEN "refinery" ELSE "tanks",
                         !.todo = rest])
  BY DEF OrderLockTank
<1> DEFINE rest == oreq[r].todo \ {s}
           check == rest = {} => RoomFor(oreq[r].stops)
           rows == {FuelRow(s)}
           next == [oreq[r] EXCEPT
                      !.pc   = IF rest = {} THEN "refinery" ELSE "tanks",
                      !.todo = rest]
<1>2. oreq[r] \in OrderSessions /\ OrderSessionOK(oreq[r], held[r])
  BY OrderSessionFacts
<1>3. s \in Stations
  BY <1>2 DEF OrderSessions
<1>4. rows \in SUBSET OrderRows
  BY <1>3, OrderRowTypes
<1>5. next \in OrderSessions
  BY <1>2 DEF OrderSessions, OrderPcs
<1>6. check => OrderSessionOK(next, held[r] \cup rows)
  <2> SUFFICES ASSUME check PROVE OrderSessionOK(next, held[r] \cup rows)
    OBVIOUS
  <2>1. /\ next.stops = oreq[r].stops /\ next.todo = rest
        /\ next.actor = oreq[r].actor /\ next.seen = oreq[r].seen
        /\ next.pc = IF rest = {} THEN "refinery" ELSE "tanks"
    BY <1>2 DEF OrderSessions
  <2>2. /\ oreq[r].actor \in Players
        /\ PlayerRow(oreq[r].actor) \in held[r]
        /\ \A x \in Stops(oreq[r].stops) \ oreq[r].todo : FuelRow(x) \in held[r]
        /\ oreq[r].seen >= 0
    BY <1>2 DEF OrderSessionOK, OrderLockTank
  <2>3. \A x \in Stops(oreq[r].stops) \ rest : FuelRow(x) \in held[r] \cup rows
    BY <2>2
  <2> HIDE DEF next, rows
  <2> QED
    BY <2>1, <2>2, <2>3 DEF OrderSessionOK
<1>7. Proceed(r, check, rows, next) /\ \A row \in rows : Free(r, row)
  BY <1>1
<1>8. NoRowWritten
  BY DEF OrderLockTank
<1>9. check \in BOOLEAN
  OBVIOUS
<1> HIDE DEF next, rows, check
<1> QED
  BY <1>4, <1>5, <1>6, <1>7, <1>8, <1>9, ProceedStep

LEMMA OrderLockRefineryStep ==
    ASSUME OrderInv, NEW r \in Requests, OrderLockRefinery(r)
    PROVE  OrderInv'
<1> DEFINE rows == {RefineryRow}
           next == [oreq[r] EXCEPT !.pc = "funds"]
<1>1. oreq[r] \in OrderSessions /\ OrderSessionOK(oreq[r], held[r])
  BY OrderSessionFacts
<1>2. rows \in SUBSET OrderRows
  BY OrderRowTypes
<1>3. next \in OrderSessions
  BY <1>1 DEF OrderSessions, OrderPcs
<1>4. stock >= oreq[r].total => OrderSessionOK(next, held[r] \cup rows)
  BY <1>1 DEF OrderSessionOK, OrderSessions, OrderLockRefinery
<1>5. /\ Proceed(r, stock >= oreq[r].total, rows, next)
      /\ NoRowWritten
      /\ \A row \in rows : Free(r, row)
  BY DEF OrderLockRefinery
<1>6. (stock >= oreq[r].total) \in BOOLEAN
  BY <1>1 DEF OrderSessions, OrderInv, OrderTypeOK
<1> HIDE DEF next, rows
<1> QED
  BY <1>2, <1>3, <1>4, <1>5, <1>6, ProceedStep

LEMMA OrderCheckFundsStep ==
    ASSUME OrderInv, NEW r \in Requests, OrderCheckFunds(r)
    PROVE  OrderInv'
<1>1. PICK price \in UnitPrices, delivery \in DeliveryCosts :
        LET cost == price * oreq[r].total + delivery
        IN Proceed(r, balance[oreq[r].actor] >= cost, {},
                   [oreq[r] EXCEPT !.pc = "insert", !.cost = cost])
  BY DEF OrderCheckFunds
<1> DEFINE cost == price * oreq[r].total + delivery
           next == [oreq[r] EXCEPT !.pc = "insert", !.cost = cost]
           check == balance[oreq[r].actor] >= cost
<1>2. oreq[r] \in OrderSessions /\ OrderSessionOK(oreq[r], held[r])
  BY OrderSessionFacts
<1>3. cost \in Nat
  <2>1. price \in Nat /\ delivery \in Nat /\ oreq[r].total \in Nat
    BY <1>2, FuelOrdersAssumption DEF OrderSessions
  <2>2. \A a, b, c \in Nat : a * b + c \in Nat
    OBVIOUS
  <2> QED
    BY <2>1, <2>2
<1> HIDE DEF cost
<1>4. next \in OrderSessions
  BY <1>2, <1>3 DEF OrderSessions, OrderPcs
<1>5. check => OrderSessionOK(next, held[r] \cup {})
  BY <1>2 DEF OrderSessionOK, OrderSessions, OrderCheckFunds
<1>6. Proceed(r, check, {}, next)
  BY <1>1 DEF cost
<1>7. NoRowWritten
  BY DEF OrderCheckFunds
<1>8. check \in BOOLEAN
  <2>1. balance[oreq[r].actor] \in Int
    BY <1>2 DEF OrderInv, OrderTypeOK, OrderSessionOK, OrderCheckFunds
  <2> QED
    BY <1>3, <2>1
<1> HIDE DEF next, check
<1> QED
  BY <1>4, <1>5, <1>6, <1>7, <1>8, ProceedStep

-----------------------------------------------------------------------------
(* Commits. *)

\* A session relies on rows it holds only, so it may go on as long as nobody
\* writes these.
LEMMA OthersRely ==
    ASSUME OrderInv, OrderTypeOK', NEW t \in Requests,
           oreq'[t] = oreq[t], held'[t] = held[t],
           \A s \in Stations : FuelRow(s) \in held[t]
              => liters'[s] + reserved'[s] = liters[s] + reserved[s],
           RefineryRow \in held[t] => stock' = stock,
           \A p \in Players : PlayerRow(p) \in held[t] => balance'[p] = balance[p]
    PROVE  OrderSessionOK(oreq[t], held[t])'
<1>1. oreq[t] \in OrderSessions /\ OrderSessionOK(oreq[t], held[t])
  BY OrderSessionFacts
<1>2. ASSUME \A s \in Stops(oreq[t].stops) : FuelRow(s) \in held[t],
             RoomFor(oreq[t].stops)
      PROVE  RoomFor(oreq[t].stops)'
  <2> SUFFICES ASSUME NEW s \in Stops(oreq[t].stops)
               PROVE  liters'[s] + reserved'[s] + oreq[t].stops[s] <= Capacity
    BY DEF RoomFor, Stops
  <2>1. s \in Stations /\ liters'[s] + reserved'[s] = liters[s] + reserved[s]
    BY <1>2 DEF Stops
  <2>2. liters[s] + reserved[s] + oreq[t].stops[s] <= Capacity
    BY <1>2 DEF RoomFor
  <2>3. /\ liters[s] \in Int /\ reserved[s] \in Int
        /\ liters'[s] \in Int /\ reserved'[s] \in Int
    BY <2>1 DEF OrderInv, OrderTypeOK
  <2> QED
    BY <2>1, <2>2, <2>3
<1>3. oreq[t].pc \in {"refinery", "funds", "insert"} => RoomFor(oreq[t].stops)'
  BY <1>1, <1>2 DEF OrderSessionOK
<1>4. /\ \A s \in Stops(oreq[t].stops) : FuelRow(s)' = FuelRow(s)
      /\ Stops(oreq[t].stops)' = Stops(oreq[t].stops)
      /\ RefineryRow' = RefineryRow
      /\ PlayerRow(oreq[t].actor)' = PlayerRow(oreq[t].actor)
  BY DEF FuelRow, RefineryRow, PlayerRow, Stops
<1>5. oreq[t].pc \in {"funds", "insert"} => stock' >= oreq[t].total
  BY <1>1 DEF OrderSessionOK
<1>6. oreq[t].pc = "insert" => balance'[oreq[t].actor] >= oreq[t].cost
  BY <1>1 DEF OrderSessionOK
<1> QED
  BY <1>1, <1>3, <1>4, <1>5, <1>6 DEF OrderSessionOK, RoomFor, Stops

\* Releasing all rows of a session, in the form the commits have.
LEMMA ReleaseLocks ==
    ASSUME OrderInv, NEW x \in Sessions, Release(x)
    PROVE  /\ held' = [held EXCEPT ![x] = {}]
           /\ held' \in [Sessions -> SUBSET OrderRows]
           /\ \A a, b \in Sessions : a # b => held'[a] \cap held'[b] = {}
<1>1. held' = [held EXCEPT ![x] = {}]
  BY DEF Release
<1> QED
  BY <1>1 DEF OrderInv, OrderTypeOK, OrderSessionsConsistent

LEMMA OrderCommitStep ==
    ASSUME OrderInv, NEW r \in Requests, OrderCommit(r)
    PROVE  OrderInv'
<1> DEFINE q == oreq[r]
<1>1. q \in OrderSessions /\ OrderSessionOK(q, held[r]) /\ q.pc = "insert"
  BY OrderSessionFacts DEF OrderCommit
<1>2. /\ q.actor \in Players
      /\ q.cost \in Nat /\ q.total \in 0 .. TruckCapacity
      /\ q.stops \in Loads
      /\ PlayerRow(q.actor) \in held[r]
      /\ RoomFor(q.stops)
      /\ \A s \in Stops(q.stops) : FuelRow(s) \in held[r]
      /\ RefineryRow \in held[r]
      /\ stock >= q.total
      /\ balance[q.actor] >= q.cost
  BY <1>1 DEF OrderSessionOK, OrderSessions
<1>3. \A s \in Stations : q.stops[s] \in Nat
  <2>1. \A v \in OrderVolumes \cup {0} : v \in Nat
    BY FuelOrdersAssumption
  <2> HIDE DEF q
  <2>2. q.stops \in [Stations -> OrderVolumes \cup {0}]
    BY <1>2 DEF Loads
  <2> QED
    BY <2>1, <2>2
<1>4. r \in Sessions
  BY DEF Sessions
<1>5. /\ held' = [held EXCEPT ![r] = {}]
      /\ held' \in [Sessions -> SUBSET OrderRows]
      /\ \A a, b \in Sessions : a # b => held'[a] \cap held'[b] = {}
  BY <1>4, ReleaseLocks DEF OrderCommit
<1>6. PICK o \in Orders :
        /\ ~Placed(o)
        /\ orders' = [orders EXCEPT ![o] =
              [status |-> "IN_TRANSIT", player |-> q.actor, cost |-> q.cost,
               stops |-> q.stops, pending |-> Stops(q.stops)]]
  BY DEF OrderCommit
<1>7. /\ balance' = [balance EXCEPT ![q.actor] = @ - q.cost]
      /\ ledger' = [ledger EXCEPT ![q.actor] = @ + -q.cost]
      /\ stock' = stock - q.total
      /\ reserved' = [s \in Stations |-> reserved[s] + q.stops[s]]
      /\ oreq' = [oreq EXCEPT ![r] = IdleOrder]
      /\ UNCHANGED <<gameStatus, owner, liters, moving, drops, unload>>
  BY DEF OrderCommit, Post, Reserve
<1> HIDE DEF q
<1>8. OrderTypeOK'
  <2>1. [status |-> "IN_TRANSIT", player |-> q.actor, cost |-> q.cost,
         stops |-> q.stops, pending |-> Stops(q.stops)] \in OrderRecords
    BY <1>2 DEF OrderRecords, Stops
  <2>2. orders' \in [Orders -> OrderRecords \cup {NoOrder}]
    BY <1>6, <2>1 DEF OrderInv, OrderTypeOK
  <2>3. balance' \in [Players -> Int] /\ ledger' \in [Players -> Int] /\ stock' \in Int
    BY <1>2, <1>7 DEF OrderInv, OrderTypeOK
  <2>4. reserved' \in [Stations -> Int]
    BY <1>3, <1>7 DEF OrderInv, OrderTypeOK
  <2>5. oreq' \in [Requests -> OrderSessions]
    BY <1>7, IdleOrderOK DEF OrderInv, OrderTypeOK
  <2> QED
    BY <1>5, <1>7, <2>2, <2>3, <2>4, <2>5 DEF OrderInv, OrderTypeOK
<1>9. RoomReserved'
  <2> SUFFICES ASSUME NEW s \in Stations
               PROVE  liters'[s] + reserved'[s] <= Capacity
    BY DEF RoomReserved
  <2>1. liters[s] \in Int /\ reserved[s] \in Int /\ liters[s] + reserved[s] <= Capacity
    BY DEF OrderInv, OrderTypeOK, RoomReserved
  <2>2. q.stops[s] > 0 => liters[s] + reserved[s] + q.stops[s] <= Capacity
    BY <1>2 DEF RoomFor, Stops
  <2> QED
    BY <1>3, <1>7, <2>1, <2>2, StoreAssumption
<1>10. OrdersPaid'
  <2>1. balance = ledger /\ balance \in [Players -> Int]
    BY DEF OrderInv, OrderTypeOK, OrdersPaid
  <2>2. balance[q.actor] - q.cost = balance[q.actor] + -q.cost
    BY <1>2, <2>1
  <2>3. balance' = ledger'
    BY <1>2, <1>7, <2>1, <2>2
  <2>4. \A p \in Players : balance[p] >= 0
    BY DEF OrderInv, OrdersPaid
  <2>5. balance[q.actor] - q.cost >= 0
    BY <1>2, <2>1
  <2>6. \A p \in Players : balance'[p] >= 0
    BY <1>7, <2>1, <2>4, <2>5
  <2> QED
    BY <2>3, <2>6 DEF OrdersPaid
<1>11. StockNotOversold'
  BY <1>2, <1>7, FuelOrdersAssumption DEF OrderInv, OrderTypeOK, StockNotOversold
<1>12. \A t \in Requests : OrderSessionOK(oreq[t], held[t])'
  <2> SUFFICES ASSUME NEW t \in Requests
               PROVE  OrderSessionOK(oreq[t], held[t])'
    OBVIOUS
  <2>1. CASE t = r
    <3>1. oreq'[t] = IdleOrder
      BY <1>7, <2>1 DEF OrderInv, OrderTypeOK
    <3> QED
      BY <3>1 DEF OrderSessionOK, IdleOrder
  <2>2. CASE t # r
    <3>1. oreq'[t] = oreq[t] /\ held'[t] = held[t] /\ t \in Sessions
      BY <1>5, <1>7, <2>2 DEF OrderInv, OrderTypeOK, Sessions
    <3>2. held[t] \cap held[r] = {}
      BY <1>4, <2>2, <3>1 DEF OrderInv, OrderSessionsConsistent
    <3>3. \A s \in Stations : FuelRow(s) \in held[t] => q.stops[s] = 0
      BY <1>2, <1>3, <3>2 DEF Stops
    <3>4. \A s \in Stations : FuelRow(s) \in held[t]
             => liters'[s] + reserved'[s] = liters[s] + reserved[s]
      BY <1>7, <3>3 DEF OrderInv, OrderTypeOK
    <3>5. RefineryRow \notin held[t] /\ PlayerRow(q.actor) \notin held[t]
      BY <1>2, <3>2
    <3>6. \A p \in Players : PlayerRow(p) \in held[t] => balance'[p] = balance[p]
      BY <1>7, <3>5 DEF OrderInv, OrderTypeOK
    <3> QED
      BY <1>8, <3>1, <3>4, <3>5, <3>6, OthersRely
  <2> QED
    BY <2>1, <2>2
<1>13. OrdersOK'
  BY <1>6, <1>7 DEF OrderInv, OrderTypeOK, OrdersOK, Placed
<1> QED
  BY <1>5, <1>8, <1>9, <1>10, <1>11, <1>12, <1>13 DEF OrderInv, OrderSessionsConsistent

LEMMA IncidentCommitStep ==
    ASSUME OrderInv, NEW r \in Requests, IncidentCommit(r)
    PROVE  OrderInv'
<1>1. /\ oreq[r].seen \in Int /\ oreq[r].seen >= 0
      /\ r \in Sessions
  BY OrderSessionFacts DEF OrderSessions, OrderSessionOK, Sessions
<1>2. Remaining(oreq[r].seen) \in Nat
  <2>1. \A a, b \in Nat : (a * b + 50) \div 100 \in Nat
    OBVIOUS
  <2> QED
    BY <1>1, <2>1, FuelOrdersAssumption DEF Remaining
<1>3. /\ held' = [held EXCEPT ![r] = {}]
      /\ held' \in [Sessions -> SUBSET OrderRows]
      /\ \A a, b \in Sessions : a # b => held'[a] \cap held'[b] = {}
  BY <1>1, ReleaseLocks DEF IncidentCommit
<1>4. /\ stock' = Remaining(oreq[r].seen)
      /\ oreq' = [oreq EXCEPT ![r] = IdleOrder]
      /\ UNCHANGED <<gameStatus, balance, ledger, owner, liters, reserved, orders,
                     moving, drops, unload>>
      /\ Free(r, RefineryRow)
  BY DEF IncidentCommit
<1>5. OrderTypeOK'
  <2>1. oreq' \in [Requests -> OrderSessions]
    BY <1>4, IdleOrderOK DEF OrderInv, OrderTypeOK
  <2> QED
    BY <1>2, <1>3, <1>4, <2>1 DEF OrderInv, OrderTypeOK
<1>6. (RoomReserved /\ OrdersPaid /\ StockNotOversold)'
  BY <1>2, <1>4 DEF OrderInv, RoomReserved, OrdersPaid, StockNotOversold
<1>7. \A t \in Requests : OrderSessionOK(oreq[t], held[t])'
  <2> SUFFICES ASSUME NEW t \in Requests
               PROVE  OrderSessionOK(oreq[t], held[t])'
    OBVIOUS
  <2>1. CASE t = r
    <3>1. oreq'[t] = IdleOrder
      BY <1>4, <2>1 DEF OrderInv, OrderTypeOK
    <3> QED
      BY <3>1 DEF OrderSessionOK, IdleOrder
  <2>2. CASE t # r
    <3>1. oreq'[t] = oreq[t] /\ held'[t] = held[t]
      BY <1>3, <1>4, <2>2 DEF OrderInv, OrderTypeOK, Sessions
    <3>2. RefineryRow \notin held[t]
      BY <1>4, <2>2 DEF Free, Sessions
    <3> QED
      BY <1>4, <1>5, <3>1, <3>2, OthersRely
  <2> QED
    BY <2>1, <2>2
<1>8. OrdersOK'
  BY <1>4 DEF OrderInv, OrdersOK
<1> QED
  BY <1>3, <1>5, <1>6, <1>7, <1>8 DEF OrderInv, OrderSessionsConsistent

-----------------------------------------------------------------------------
(* The truck tick and the end of the game.  No request changes. *)

\* The scheduler leaves requests and their locks alone, so they may go on if
\* every tank keeps the sum of fuel and reservation.
LEMMA TickLeavesRequests ==
    ASSUME OrderInv, OrderTypeOK',
           UNCHANGED <<balance, ledger, stock, oreq>>,
           \A t \in Requests : held'[t] = held[t],
           \A a, b \in Sessions : a # b => held'[a] \cap held'[b] = {},
           \A s \in Stations : liters'[s] + reserved'[s] = liters[s] + reserved[s],
           OrdersOK'
    PROVE  OrderInv'
<1>1. RoomReserved'
  BY DEF OrderInv, RoomReserved
<1>2. (OrdersPaid /\ StockNotOversold)'
  BY DEF OrderInv, OrdersPaid, StockNotOversold
<1>3. \A t \in Requests : OrderSessionOK(oreq[t], held[t])'
  <2> SUFFICES ASSUME NEW t \in Requests
               PROVE  OrderSessionOK(oreq[t], held[t])'
    OBVIOUS
  <2>1. oreq'[t] = oreq[t] /\ held'[t] = held[t]
    OBVIOUS
  <2> QED
    BY <2>1, OthersRely
<1> QED
  BY <1>1, <1>2, <1>3 DEF OrderInv, OrderSessionsConsistent

LEMMA TickIsNoRequest == Tick \in Sessions /\ \A t \in Requests : t # Tick
BY StoreAssumption DEF Sessions

LEMMA QuietTick ==
    ASSUME OrderInv, OrderTypeOK', OrdersOK',
           UNCHANGED <<balance, ledger, liters, reserved, stock, oreq, held>>
    PROVE  OrderInv'
<1>1. \A a, b \in Sessions : a # b => held'[a] \cap held'[b] = {}
  BY DEF OrderInv, OrderSessionsConsistent
<1> QED
  BY <1>1, TickLeavesRequests

LEMMA TruckSelectStep ==
    ASSUME OrderInv, TruckSelect
    PROVE  OrderInv'
<1>1. OrderTypeOK'
  BY DEF OrderInv, OrderTypeOK, TruckSelect
<1>2. OrdersOK'
  BY DEF OrderInv, OrdersOK, TruckSelect
<1> QED
  BY <1>1, <1>2, QuietTick DEF TruckSelect

LEMMA OrderFinishGameStep ==
    ASSUME OrderInv, OrderFinishGame
    PROVE  OrderInv'
<1>1. OrderTypeOK'
  BY DEF OrderInv, OrderTypeOK, OrderFinishGame, supplyVars
<1>2. OrdersOK'
  BY DEF OrderInv, OrdersOK, OrderFinishGame, supplyVars
<1> QED
  BY <1>1, <1>2, QuietTick DEF OrderFinishGame, supplyVars

\* Only placed orders are pending anywhere, and their stops are liters.
LEMMA PendingStops ==
    ASSUME OrderInv, NEW o \in Orders, NEW s \in orders[o].pending
    PROVE  orders[o] \in OrderRecords /\ s \in Stations /\ orders[o].stops[s] \in Nat
<1>1. orders[o] \in OrderRecords \cup {NoOrder}
  BY DEF OrderInv, OrderTypeOK
<1>2. orders[o] # NoOrder
  BY DEF NoOrder
<1>3. orders[o] \in OrderRecords
  BY <1>1, <1>2
<1>4. s \in Stations /\ orders[o].stops \in Loads
  BY <1>3 DEF OrderRecords
<1>5. \A v \in OrderVolumes \cup {0} : v \in Nat
  BY FuelOrdersAssumption
<1> QED
  BY <1>3, <1>4, <1>5 DEF Loads

LEMMA TruckUnloadStep ==
    ASSUME OrderInv, TruckUnload
    PROVE  OrderInv'
<1>1. PICK o \in moving : \E s \in orders[o].pending :
        /\ Free(Tick, FuelRow(s))
        /\ Take(Tick, {FuelRow(s)})
        /\ drops' = drops \cup {<<o, s>>}
        /\ unload' = [unload EXCEPT ![s] = @ + orders[o].stops[s]]
  BY DEF TruckUnload
<1>2. PICK s \in orders[o].pending :
        /\ Free(Tick, FuelRow(s))
        /\ Take(Tick, {FuelRow(s)})
        /\ drops' = drops \cup {<<o, s>>}
        /\ unload' = [unload EXCEPT ![s] = @ + orders[o].stops[s]]
  BY <1>1
<1>3. o \in Orders
  BY DEF OrderInv, OrderTypeOK
<1>4. s \in Stations /\ orders[o].stops[s] \in Nat
  BY <1>3, PendingStops
<1>5. UNCHANGED <<gameStatus, balance, ledger, owner, liters, stock, reserved,
                  orders, oreq, moving>>
  BY DEF TruckUnload
<1> DEFINE h == held[Tick] \cup {FuelRow(s)}
<1>6. held' = [held EXCEPT ![Tick] = h]
  BY <1>2 DEF Take
<1>7. /\ \A a, b \in Sessions : a # b => held'[a] \cap held'[b] = {}
      /\ held' \in [Sessions -> SUBSET OrderRows]
  <2>1. {FuelRow(s)} \in SUBSET OrderRows
    BY <1>4, OrderRowTypes
  <2>2. \A row \in {FuelRow(s)} : row \in h => Free(Tick, row)
    BY <1>2
  <2> QED
    BY <1>6, <2>1, <2>2, TickIsNoRequest, OrderLocksStay DEF OrderInv
<1>8. OrderTypeOK'
  <2>1. unload' \in [Stations -> Nat]
    BY <1>2, <1>4 DEF OrderInv, OrderTypeOK
  <2>2. drops' \subseteq Orders \X Stations
    BY <1>2, <1>3, <1>4 DEF OrderInv, OrderTypeOK
  <2> QED
    BY <1>5, <1>7, <2>1, <2>2 DEF OrderInv, OrderTypeOK
<1>9. \A t \in Requests : held'[t] = held[t]
  BY <1>6, TickIsNoRequest DEF OrderInv, OrderTypeOK, Sessions
<1>10. \A x \in Stations : liters'[x] + reserved'[x] = liters[x] + reserved[x]
  BY <1>5
<1>11. OrdersOK'
  BY <1>5 DEF OrderInv, OrdersOK
<1> QED
  BY <1>5, <1>7, <1>8, <1>9, <1>10, <1>11, TickLeavesRequests

LEMMA TickReleases ==
    ASSUME OrderInv, Release(Tick)
    PROVE  /\ held' \in [Sessions -> SUBSET OrderRows]
           /\ \A a, b \in Sessions : a # b => held'[a] \cap held'[b] = {}
           /\ \A t \in Requests : held'[t] = held[t]
<1>1. /\ held' = [held EXCEPT ![Tick] = {}]
      /\ held' \in [Sessions -> SUBSET OrderRows]
      /\ \A a, b \in Sessions : a # b => held'[a] \cap held'[b] = {}
  BY TickIsNoRequest, ReleaseLocks
<1> QED
  BY <1>1, TickIsNoRequest DEF OrderInv, OrderTypeOK, Sessions

LEMMA TruckAbortStep ==
    ASSUME OrderInv, TruckAbort
    PROVE  OrderInv'
<1>1. /\ held' \in [Sessions -> SUBSET OrderRows]
      /\ \A a, b \in Sessions : a # b => held'[a] \cap held'[b] = {}
      /\ \A t \in Requests : held'[t] = held[t]
  BY TickReleases DEF TruckAbort
<1>2. NoLoad \in [Stations -> Nat]
  BY DEF NoLoad
<1>3. OrderTypeOK'
  BY <1>1, <1>2 DEF OrderInv, OrderTypeOK, TruckAbort
<1>4. OrdersOK'
  BY DEF OrderInv, OrdersOK, TruckAbort
<1> QED
  BY <1>1, <1>3, <1>4, TickLeavesRequests DEF TruckAbort

\* What a committed tick writes to an order.
LEMMA CommittedOrder ==
    ASSUME OrderInv, NEW o \in moving, NEW done \in BOOLEAN, done => Left(o) = {}
    PROVE  LET row == [orders[o] EXCEPT !.pending = Left(o),
                         !.status = IF done THEN "DELIVERED" ELSE @]
           IN /\ row \in OrderRecords
              /\ row.status = "DELIVERED" => row.pending = {}
              /\ row.pending = Left(o)
<1>1. o \in Orders /\ orders[o].status = "IN_TRANSIT"
  BY DEF OrderInv, OrderTypeOK, OrdersOK
<1>2. orders[o] \in OrderRecords
  BY <1>1 DEF OrderInv, OrderTypeOK, NoOrder
<1>3. Left(o) \subseteq orders[o].pending
  BY DEF Left
<1> QED
  BY <1>1, <1>2, <1>3 DEF OrderRecords

\* The same for all orders.
LEMMA CommittedOrders ==
    ASSUME OrderInv, TruckCommit
    PROVE  /\ orders' \in [Orders -> OrderRecords \cup {NoOrder}]
           /\ \A o \in Orders :
                /\ o \notin moving => orders'[o] = orders[o]
                /\ o \in moving => orders'[o].pending = Left(o)
                /\ orders'[o].status = "DELIVERED" => orders'[o].pending = {}
<1>1. PICK arrived \in SUBSET {o \in moving : Left(o) = {}} :
        orders' = [o \in Orders |->
          IF o \in moving
            THEN [orders[o] EXCEPT !.pending = Left(o),
                    !.status = IF o \in arrived THEN "DELIVERED" ELSE @]
            ELSE orders[o]]
  BY DEF TruckCommit
<1>2. \A o \in moving :
        LET row == [orders[o] EXCEPT !.pending = Left(o),
                      !.status = IF o \in arrived THEN "DELIVERED" ELSE @]
        IN /\ row \in OrderRecords
           /\ row.status = "DELIVERED" => row.pending = {}
           /\ row.pending = Left(o)
  <2> SUFFICES ASSUME NEW o \in moving
               PROVE  LET row == [orders[o] EXCEPT !.pending = Left(o),
                                    !.status = IF o \in arrived THEN "DELIVERED" ELSE @]
                      IN /\ row \in OrderRecords
                         /\ row.status = "DELIVERED" => row.pending = {}
                         /\ row.pending = Left(o)
    OBVIOUS
  <2>1. o \in arrived => Left(o) = {}
    BY <1>1
  <2>2. (o \in arrived) \in BOOLEAN
    OBVIOUS
  <2> QED
    BY <2>1, <2>2, CommittedOrder
<1>3. \A o \in Orders : /\ orders[o] \in OrderRecords \cup {NoOrder}
                        /\ orders[o].status = "DELIVERED" => orders[o].pending = {}
  BY DEF OrderInv, OrderTypeOK, OrdersOK
<1> QED
  BY <1>1, <1>2, <1>3

LEMMA TruckCommitStep ==
    ASSUME OrderInv, TruckCommit
    PROVE  OrderInv'
<1>1. /\ held' \in [Sessions -> SUBSET OrderRows]
      /\ \A a, b \in Sessions : a # b => held'[a] \cap held'[b] = {}
      /\ \A t \in Requests : held'[t] = held[t]
  BY TickReleases DEF TruckCommit
<1>2. \A s \in Stations : liters[s] \in Int /\ reserved[s] \in Int /\ unload[s] \in Int
  BY DEF OrderInv, OrderTypeOK
<1>3. /\ liters' = [s \in Stations |-> liters[s] + unload[s]]
      /\ reserved' = [s \in Stations |-> reserved[s] - unload[s]]
  BY DEF TruckCommit, ReleaseReservation
<1>4. OrderTypeOK'
  <2>1. NoLoad \in [Stations -> Nat]
    BY DEF NoLoad
  <2>2. liters' \in [Stations -> Int] /\ reserved' \in [Stations -> Int]
    BY <1>2, <1>3
  <2> QED
    BY <1>1, <2>1, <2>2, CommittedOrders DEF OrderInv, OrderTypeOK, TruckCommit
<1>5. \A s \in Stations : liters'[s] + reserved'[s] = liters[s] + reserved[s]
  BY <1>2, <1>3
<1>6. OrdersOK'
  BY CommittedOrders DEF OrdersOK, TruckCommit
<1>7. UNCHANGED <<balance, ledger, stock, oreq>>
  BY DEF TruckCommit
<1> QED
  BY <1>1, <1>4, <1>5, <1>6, <1>7, TickLeavesRequests

-----------------------------------------------------------------------------
LEMMA OrderNextOK == OrderInv /\ [OrderNext]_orderVars => OrderInv'
<1> SUFFICES ASSUME OrderInv, [OrderNext]_orderVars
             PROVE  OrderInv'
  OBVIOUS
<1>1. ASSUME NEW r \in Requests, OrderSteps(r)
      PROVE  OrderInv'
  BY <1>1, OrderBeginStep, OrderLockPlayerStep, OrderCheckStationStep,
     OrderLockTankStep, OrderLockRefineryStep, OrderCheckFundsStep,
     OrderCommitStep, OrderAbortStep, IncidentReadStep, IncidentCommitStep
  DEF OrderSteps
<1>2. CASE TruckTick
  BY <1>2, TruckSelectStep, TruckUnloadStep, TruckCommitStep, TruckAbortStep
  DEF TruckTick
<1>3. CASE OrderFinishGame
  BY <1>3, OrderFinishGameStep
<1>4. CASE UNCHANGED orderVars
  <2>1. OrderTypeOK' /\ OrdersOK'
    BY <1>4 DEF OrderInv, OrderTypeOK, OrdersOK, orderVars
  <2> QED
    BY <1>4, <2>1, QuietTick DEF orderVars
<1> QED
  BY <1>1, <1>2, <1>3, <1>4 DEF OrderNext

\* The properties and what sessions rely on hold in every reachable state of
\* create_fuel_order, the truck tick and the incident together.
THEOREM OrderInductive == OrderSpec => []OrderInv
  BY OrderInitOK, OrderNextOK, PTL DEF OrderSpec

\* Every row and every session of FuelOrders has its type.
THEOREM OrderTypesCorrect == OrderSpec => []OrderTypeOK
<1>1. OrderInv => OrderTypeOK
  BY DEF OrderInv
<1> QED
  BY <1>1, OrderInductive, PTL

\* Orders and deliveries never promise a tank more than it can hold.
THEOREM ReservationsFit == OrderSpec => []RoomReserved
<1>1. OrderInv => RoomReserved
  BY DEF OrderInv
<1> QED
  BY <1>1, OrderInductive, PTL

\* No order is paid with money the player does not have, and the journal
\* explains every balance.
THEOREM OrdersArePaid == OrderSpec => []OrdersPaid
<1>1. OrderInv => OrdersPaid
  BY DEF OrderInv
<1> QED
  BY <1>1, OrderInductive, PTL

\* The refinery never sells what it does not have, in spite of incidents.
THEOREM StockSuffices == OrderSpec => []StockNotOversold
<1>1. OrderInv => StockNotOversold
  BY DEF OrderInv
<1> QED
  BY <1>1, OrderInductive, PTL

\* The row locks keep what create_fuel_order has checked true until it commits.
THEOREM OrderLocksProtect == OrderSpec => []OrderSessionsConsistent
<1>1. OrderInv => OrderSessionsConsistent
  BY DEF OrderInv
<1> QED
  BY <1>1, OrderInductive, PTL

-----------------------------------------------------------------------------
(* Deliveries are final. *)

FinalDelivery(o) ==
    /\ Placed(o) => orders'[o].pending \subseteq orders[o].pending
    /\ orders[o].status = "DELIVERED" => UNCHANGED orders[o]
    /\ orders'[o].status = "DELIVERED" => orders'[o].pending = {}

LEMMA StepKeepsDeliveries ==
    ASSUME OrderInv, [OrderNext]_orderVars, NEW o \in Orders
    PROVE  FinalDelivery(o)
<1>1. orders[o].status = "DELIVERED" => orders[o].pending = {} /\ o \notin moving
  BY DEF OrderInv, OrdersOK
<1>2. UNCHANGED orders => FinalDelivery(o)
  BY <1>1 DEF FinalDelivery
<1>3. ASSUME NEW r \in Requests, OrderCommit(r)
      PROVE  FinalDelivery(o)
  <2>1. Placed(o) => orders'[o] = orders[o]
    BY <1>3 DEF OrderCommit, OrderInv, OrderTypeOK
  <2>2. CASE Placed(o)
    BY <1>1, <2>1, <2>2 DEF FinalDelivery
  <2>3. CASE ~Placed(o)
    BY <1>3, <2>3 DEF OrderCommit, OrderInv, OrderTypeOK, Placed, FinalDelivery
  <2> QED
    BY <2>2, <2>3
<1>4. CASE TruckCommit
  <2>1. Left(o) \subseteq orders[o].pending
    BY DEF Left
  <2> QED
    BY <1>1, <1>4, <2>1, CommittedOrders DEF FinalDelivery
<1>5. ASSUME NEW r \in Requests, OrderSteps(r)
      PROVE  FinalDelivery(o)
  BY <1>2, <1>3, <1>5
  DEF OrderSteps, OrderBegin, OrderLockPlayer, OrderCheckStation, OrderLockTank,
      OrderLockRefinery, OrderCheckFunds, OrderAbort, IncidentRead, IncidentCommit,
      NoRowWritten
<1>6. CASE TruckTick
  BY <1>2, <1>4, <1>6 DEF TruckTick, TruckSelect, TruckUnload, TruckAbort
<1>7. CASE OrderFinishGame \/ UNCHANGED orderVars
  BY <1>2, <1>7 DEF OrderFinishGame, supplyVars, orderVars
<1> QED
  BY <1>5, <1>6, <1>7 DEF OrderNext

\* A delivery is never taken back, and an order is complete once, when each of
\* its stops has been served.
THEOREM DeliveriesAreFinal == OrderSpec => DeliveriesFinal
<1>1. OrderInv /\ [OrderNext]_orderVars =>
        [\A o \in Orders :
           /\ Placed(o) => orders'[o].pending \subseteq orders[o].pending
           /\ orders[o].status = "DELIVERED" => UNCHANGED orders[o]
           /\ orders'[o].status = "DELIVERED" => orders'[o].pending = {}]_orderVars
  BY StepKeepsDeliveries DEF FinalDelivery
<1> QED
  BY <1>1, OrderInductive, PTL DEF OrderSpec, DeliveriesFinal

-----------------------------------------------------------------------------
(* Where the ordered fuel is: reserved, under way, unloaded, delivered. *)

\* What each order still has to bring to station s, has brought, and has brought
\* with the truck tick that has not committed.
PendingAt(s) ==
    [o \in Orders |-> IF s \in orders[o].pending THEN orders[o].stops[s] ELSE 0]

DeliveredAt(s) ==
    [o \in Orders |-> IF Placed(o) /\ s \notin orders[o].pending
                        THEN orders[o].stops[s] ELSE 0]

DroppedAt(s) ==
    [o \in Orders |-> IF <<o, s>> \in drops THEN orders[o].stops[s] ELSE 0]

\* A tick serves pending stops of its own trucks, and adds to the tanks what
\* they bring.
DropsArePending ==
    \A o \in Orders, s \in Stations :
       <<o, s>> \in drops => o \in moving /\ s \in orders[o].pending

UnloadIsDropped == \A s \in Stations : unload[s] = Total(DroppedAt(s))

\* A session asks the refinery for the liters of its stops, which are some; an
\* incident has read no more than the first stock.
SessionTotal(q) ==
    /\ q.total = Total(q.stops)
    /\ q.pc \notin {"idle", "spoil"} => q.total >= 1
    /\ q.seen <= StartStock

FuelInv ==
    /\ OrderInv
    /\ ReservedIsPending
    /\ FuelAccounted
    /\ DropsArePending
    /\ UnloadIsDropped
    /\ \A r \in Requests : SessionTotal(oreq[r])
    /\ stock <= StartStock

LEMMA TotalIsSum == ASSUME NEW f PROVE Total(f) = Sum(f)
BY FoldIsSum, Zenon DEF Total

\* The reservations and the accounts in terms of sums.
LEMMA InTermsOfSums ==
    /\ ReservedIsPending <=> \A s \in Stations : reserved[s] = Sum(PendingAt(s))
    /\ FuelAccounted <=> \A s \in Stations : liters[s] = StartLiters + Sum(DeliveredAt(s))
    /\ UnloadIsDropped <=> \A s \in Stations : unload[s] = Sum(DroppedAt(s))
<1>1. /\ \A s \in Stations : Total(PendingAt(s)) = Sum(PendingAt(s))
      /\ \A s \in Stations : Total(DeliveredAt(s)) = Sum(DeliveredAt(s))
      /\ \A s \in Stations : Total(DroppedAt(s)) = Sum(DroppedAt(s))
  BY TotalIsSum
<1>2. ReservedIsPending <=> \A s \in Stations : reserved[s] = Total(PendingAt(s))
  BY Zenon DEF ReservedIsPending, PendingAt
<1>3. FuelAccounted <=> \A s \in Stations : liters[s] = StartLiters + Total(DeliveredAt(s))
  BY Zenon DEF FuelAccounted, DeliveredAt
<1> QED
  BY <1>1, <1>2, <1>3, Zenon DEF UnloadIsDropped

LEMMA InTermsOfSumsNext ==
    /\ ReservedIsPending' <=> \A s \in Stations : reserved'[s] = Sum(PendingAt(s)')
    /\ FuelAccounted' <=> \A s \in Stations : liters'[s] = StartLiters + Sum(DeliveredAt(s)')
    /\ UnloadIsDropped' <=> \A s \in Stations : unload'[s] = Sum(DroppedAt(s)')
<1>1. /\ \A s \in Stations : Total(PendingAt(s)') = Sum(PendingAt(s)')
      /\ \A s \in Stations : Total(DeliveredAt(s)') = Sum(DeliveredAt(s)')
      /\ \A s \in Stations : Total(DroppedAt(s)') = Sum(DroppedAt(s)')
  BY TotalIsSum
<1>2. ReservedIsPending' <=> \A s \in Stations : reserved'[s] = Total(PendingAt(s)')
  BY Zenon DEF ReservedIsPending, PendingAt
<1>3. FuelAccounted' <=> \A s \in Stations : liters'[s] = StartLiters + Total(DeliveredAt(s)')
  BY Zenon DEF FuelAccounted, DeliveredAt
<1>4. UnloadIsDropped' <=> \A s \in Stations : unload'[s] = Total(DroppedAt(s)')
  BY Zenon DEF UnloadIsDropped
<1> QED
  BY <1>1, <1>2, <1>3, <1>4, Zenon

\* The liters of an order that exists.
LEMMA PlacedStops ==
    ASSUME OrderInv, NEW o \in Orders, Placed(o)
    PROVE  orders[o] \in OrderRecords /\ \A s \in Stations : orders[o].stops[s] \in Nat
<1>1. orders[o] \in OrderRecords
  BY DEF OrderInv, OrderTypeOK, Placed, NoOrder
<1>2. orders[o].stops \in [Stations -> OrderVolumes \cup {0}]
  BY <1>1 DEF OrderRecords, Loads
<1>3. \A v \in OrderVolumes \cup {0} : v \in Nat
  BY FuelOrdersAssumption
<1> QED
  BY <1>1, <1>2, <1>3

\* An order that has a stop left exists, and so does one of a running tick.
LEMMA PendingIsPlaced ==
    ASSUME OrderInv, NEW o \in Orders
    PROVE  /\ orders[o].pending # {} => Placed(o)
           /\ o \in moving => Placed(o)
           /\ ~Placed(o) => orders[o].pending = {}
<1>1. orders[o] \in OrderRecords \cup {NoOrder}
  BY DEF OrderInv, OrderTypeOK
<1>2. orders[o].status = "none" => orders[o] = NoOrder
  BY <1>1 DEF OrderRecords
<1> QED
  BY <1>1, <1>2 DEF OrderInv, OrdersOK, Placed, NoOrder

LEMMA LoadTypes ==
    ASSUME OrderInv, DropsArePending, NEW s \in Stations
    PROVE  /\ PendingAt(s) \in [Orders -> Nat]
           /\ DeliveredAt(s) \in [Orders -> Nat]
           /\ DroppedAt(s) \in [Orders -> Nat]
<1>1. \A o \in Orders : s \in orders[o].pending => orders[o].stops[s] \in Nat
  BY PlacedStops, PendingIsPlaced
<1>2. \A o \in Orders : Placed(o) => orders[o].stops[s] \in Nat
  BY PlacedStops
<1>3. \A o \in Orders : <<o, s>> \in drops => orders[o].stops[s] \in Nat
  BY <1>1 DEF DropsArePending
<1> QED
  BY <1>1, <1>2, <1>3 DEF PendingAt, DeliveredAt, DroppedAt

LEMMA FiniteSets == IsFiniteSet(Orders) /\ IsFiniteSet(Stations)
BY FuelOrdersAssumption

\* As long as no order and no tank is written, only sessions can matter.
LEMMA FuelStays ==
    ASSUME FuelInv, OrderInv', UNCHANGED <<liters, reserved, orders, drops, unload>>,
           DropsArePending',
           \A r \in Requests : SessionTotal(oreq'[r]),
           stock' <= StartStock
    PROVE  FuelInv'
<1>1. ReservedIsPending' /\ FuelAccounted' /\ UnloadIsDropped'
  <2>1. \A s \in Stations : /\ PendingAt(s)' = PendingAt(s)
                            /\ DeliveredAt(s)' = DeliveredAt(s)
                            /\ DroppedAt(s)' = DroppedAt(s)
    BY DEF PendingAt, DeliveredAt, DroppedAt, Placed
  <2>2. /\ \A s \in Stations : reserved[s] = Sum(PendingAt(s))
        /\ \A s \in Stations : liters[s] = StartLiters + Sum(DeliveredAt(s))
        /\ \A s \in Stations : unload[s] = Sum(DroppedAt(s))
    BY InTermsOfSums DEF FuelInv
  <2> QED
    BY <2>1, <2>2, InTermsOfSumsNext
<1>2. \A r \in Requests : SessionTotal(oreq[r])'
  BY Zenon DEF SessionTotal
<1> QED
  BY <1>1, <1>2 DEF FuelInv

\* No stop, no liters.
LEMMA NoLoadTotal == Total(NoLoad) = 0
<1>1. NoLoad \in [Stations -> Int] /\ \A s \in Stations : NoLoad[s] = 0
  BY DEF NoLoad
<1>2. Sum(NoLoad) = 0
  BY <1>1, FiniteSets, SumZero
<1> QED
  BY <1>2, TotalIsSum

LEMMA IdleTotal == SessionTotal(IdleOrder)
BY NoLoadTotal, FuelOrdersAssumption DEF SessionTotal, IdleOrder

LEMMA FuelInit == OrderInit => FuelInv
<1> SUFFICES ASSUME OrderInit PROVE FuelInv
  OBVIOUS
<1>1. OrderInv
  BY OrderInitOK
<1>2. \A o \in Orders : orders[o] = NoOrder
  BY DEF OrderInit, SupplyInit
<1>3. DropsArePending
  BY DEF OrderInit, SupplyInit, DropsArePending
<1>4. ASSUME NEW s \in Stations
      PROVE  Sum(PendingAt(s)) = 0 /\ Sum(DeliveredAt(s)) = 0 /\ Sum(DroppedAt(s)) = 0
  <2>1. /\ PendingAt(s) \in [Orders -> Int] /\ \A o \in Orders : PendingAt(s)[o] = 0
        /\ DeliveredAt(s) \in [Orders -> Int] /\ \A o \in Orders : DeliveredAt(s)[o] = 0
        /\ DroppedAt(s) \in [Orders -> Int] /\ \A o \in Orders : DroppedAt(s)[o] = 0
    BY <1>2 DEF PendingAt, DeliveredAt, DroppedAt, NoOrder, Placed, OrderInit, SupplyInit
  <2> QED
    BY <2>1, FiniteSets, SumZero
<1>5. ReservedIsPending /\ FuelAccounted /\ UnloadIsDropped
  BY <1>4, InTermsOfSums, StoreAssumption DEF OrderInit, SupplyInit, NoLoad
<1>6. \A r \in Requests : SessionTotal(oreq[r])
  BY IdleTotal DEF OrderInit, SupplyInit
<1> QED
  BY <1>1, <1>3, <1>5, <1>6, FuelOrdersAssumption DEF FuelInv, OrderInit, SupplyInit

\* A statement that commits nothing.
LEMMA ProceedKeepsFuel ==
    ASSUME FuelInv, OrderInv', NEW r \in Requests, NEW check, NEW rows, NEW next,
           SessionTotal(next), Proceed(r, check, rows, next), NoRowWritten
    PROVE  FuelInv'
<1>1. \A t \in Requests : SessionTotal(oreq'[t])
  BY IdleTotal DEF FuelInv, OrderInv, OrderTypeOK, Proceed
<1>2. DropsArePending'
  BY DEF FuelInv, DropsArePending, NoRowWritten
<1> QED
  BY <1>1, <1>2, FuelStays DEF FuelInv, NoRowWritten

LEMMA FuelFacts ==
    ASSUME FuelInv, NEW r \in Requests
    PROVE  /\ oreq[r] \in OrderSessions
           /\ OrderSessionOK(oreq[r], held[r])
           /\ SessionTotal(oreq[r])
           /\ stock \in Int /\ stock <= StartStock
BY OrderSessionFacts DEF FuelInv, OrderInv, OrderTypeOK

\* Every statement of a request but the two commits.
LEMMA RequestKeepsFuel ==
    ASSUME FuelInv, OrderInv', NEW r \in Requests, OrderSteps(r),
           ~OrderCommit(r), ~IncidentCommit(r)
    PROVE  FuelInv'
<1>1. oreq[r] \in OrderSessions /\ SessionTotal(oreq[r])
  BY FuelFacts
<1>2. CASE OrderBegin(r)
  <2>1. PICK p \in Players, load \in Loads :
          /\ Total(load) \in 1 .. TruckCapacity
          /\ oreq' = [oreq EXCEPT ![r] =
                       [IdleOrder EXCEPT !.pc = "player", !.actor = p,
                          !.stops = load, !.total = Total(load)]]
    BY <1>2 DEF OrderBegin
  <2> DEFINE next == [IdleOrder EXCEPT !.pc = "player", !.actor = p,
                        !.stops = load, !.total = Total(load)]
  <2>2. SessionTotal(next)
    <3>1. Total(load) >= 1
      BY <2>1, FuelOrdersAssumption
    <3>2. /\ next.total = Total(load) /\ next.stops = load
          /\ next.seen = 0
      BY DEF IdleOrder
    <3> QED
      BY <3>1, <3>2, FuelOrdersAssumption DEF SessionTotal
  <2>3. \A t \in Requests : SessionTotal(oreq'[t])
    <3> HIDE DEF next
    <3>1. oreq' = [oreq EXCEPT ![r] = next]
      BY <2>1 DEF next
    <3> QED
      BY <2>2, <3>1 DEF FuelInv, OrderInv, OrderTypeOK
  <2>4. DropsArePending'
    BY <1>2 DEF OrderBegin, NoRowWritten, FuelInv, DropsArePending
  <2> QED
    BY <1>2, <2>3, <2>4, FuelStays DEF OrderBegin, NoRowWritten, FuelInv
<1>3. CASE IncidentRead(r)
  <2> DEFINE next == [IdleOrder EXCEPT !.pc = "spoil", !.seen = stock]
  <2>1. SessionTotal(next)
    BY IdleTotal DEF SessionTotal, IdleOrder, FuelInv
  <2>2. \A t \in Requests : SessionTotal(oreq'[t])
    <3> HIDE DEF next
    <3>1. oreq' = [oreq EXCEPT ![r] = next]
      BY <1>3 DEF IncidentRead, next
    <3> QED
      BY <2>1, <3>1 DEF FuelInv, OrderInv, OrderTypeOK
  <2>3. DropsArePending'
    BY <1>3 DEF IncidentRead, NoRowWritten, FuelInv, DropsArePending
  <2> QED
    BY <1>3, <2>2, <2>3, FuelStays DEF IncidentRead, NoRowWritten, FuelInv
<1>4. CASE OrderLockPlayer(r)
  <2> DEFINE next == [oreq[r] EXCEPT !.pc = "stations", !.todo = Stops(oreq[r].stops)]
  <2>1. SessionTotal(next)
    BY <1>1, <1>4 DEF OrderLockPlayer, OrderSessions, SessionTotal
  <2> QED
    BY <1>4, <2>1, ProceedKeepsFuel DEF OrderLockPlayer
<1>5. CASE OrderCheckStation(r)
  <2>1. PICK s \in oreq[r].todo :
          LET rest == oreq[r].todo \ {s}
          IN Proceed(r, owner[s] = oreq[r].actor, {},
                     [oreq[r] EXCEPT
                        !.pc   = IF rest = {} THEN "tanks" ELSE "stations",
                        !.todo = IF rest = {} THEN Stops(oreq[r].stops) ELSE rest])
    BY <1>5 DEF OrderCheckStation
  <2> DEFINE rest == oreq[r].todo \ {s}
             next == [oreq[r] EXCEPT
                        !.pc   = IF rest = {} THEN "tanks" ELSE "stations",
                        !.todo = IF rest = {} THEN Stops(oreq[r].stops) ELSE rest]
  <2>2. SessionTotal(next)
    BY <1>1, <1>5 DEF OrderCheckStation, OrderSessions, SessionTotal
  <2> QED
    BY <1>5, <2>1, <2>2, ProceedKeepsFuel DEF OrderCheckStation
<1>6. CASE OrderLockTank(r)
  <2>1. PICK s \in oreq[r].todo :
          LET rest == oreq[r].todo \ {s}
          IN Proceed(r, rest = {} => RoomFor(oreq[r].stops), {FuelRow(s)},
                     [oreq[r] EXCEPT
                        !.pc   = IF rest = {} THEN "refinery" ELSE "tanks",
                        !.todo = rest])
    BY <1>6 DEF OrderLockTank
  <2> DEFINE rest == oreq[r].todo \ {s}
             next == [oreq[r] EXCEPT
                        !.pc   = IF rest = {} THEN "refinery" ELSE "tanks",
                        !.todo = rest]
  <2>2. SessionTotal(next)
    BY <1>1, <1>6 DEF OrderLockTank, OrderSessions, SessionTotal
  <2> QED
    BY <1>6, <2>1, <2>2, ProceedKeepsFuel DEF OrderLockTank
<1>7. CASE OrderLockRefinery(r)
  <2>1. SessionTotal([oreq[r] EXCEPT !.pc = "funds"])
    BY <1>1, <1>7 DEF OrderLockRefinery, OrderSessions, SessionTotal
  <2> QED
    BY <1>7, <2>1, ProceedKeepsFuel DEF OrderLockRefinery
<1>8. CASE OrderCheckFunds(r)
  <2>1. PICK price \in UnitPrices, delivery \in DeliveryCosts :
          LET cost == price * oreq[r].total + delivery
          IN Proceed(r, balance[oreq[r].actor] >= cost, {},
                     [oreq[r] EXCEPT !.pc = "insert", !.cost = cost])
    BY <1>8 DEF OrderCheckFunds
  <2> DEFINE cost == price * oreq[r].total + delivery
             next == [oreq[r] EXCEPT !.pc = "insert", !.cost = cost]
  <2> HIDE DEF cost
  <2>2. SessionTotal(next)
    BY <1>1, <1>8 DEF OrderCheckFunds, OrderSessions, SessionTotal
  <2>3. Proceed(r, balance[oreq[r].actor] >= cost, {}, next)
    BY <2>1 DEF cost
  <2> QED
    BY <1>8, <2>2, <2>3, ProceedKeepsFuel DEF OrderCheckFunds
<1>9. CASE OrderAbort(r)
  BY <1>9, IdleTotal, ProceedKeepsFuel DEF OrderAbort
<1> QED
  BY <1>2, <1>3, <1>4, <1>5, <1>6, <1>7, <1>8, <1>9 DEF OrderSteps

\* The inserted order brings to each tank what it has reserved there.
LEMMA OrderCommitKeepsFuel ==
    ASSUME FuelInv, OrderInv', NEW r \in Requests, OrderCommit(r)
    PROVE  FuelInv'
<1> DEFINE q == oreq[r]
<1>1. /\ q \in OrderSessions /\ SessionTotal(q) /\ q.pc = "insert"
      /\ stock \in Int /\ stock <= StartStock
  BY FuelFacts DEF OrderCommit
<1>2. q.total \in 0 .. TruckCapacity /\ q.stops \in [Stations -> OrderVolumes \cup {0}]
  BY <1>1 DEF OrderSessions, Loads
<1>3. \A s \in Stations : q.stops[s] \in Nat
  <2>1. \A v \in OrderVolumes \cup {0} : v \in Nat
    BY FuelOrdersAssumption
  <2> HIDE DEF q
  <2> QED
    BY <1>2, <2>1
<1>4. PICK o \in Orders :
        /\ ~Placed(o)
        /\ orders' = [orders EXCEPT ![o] =
              [status |-> "IN_TRANSIT", player |-> q.actor, cost |-> q.cost,
               stops |-> q.stops, pending |-> Stops(q.stops)]]
  BY DEF OrderCommit
<1>5. /\ stock' = stock - q.total
      /\ reserved' = [s \in Stations |-> reserved[s] + q.stops[s]]
      /\ oreq' = [oreq EXCEPT ![r] = IdleOrder]
      /\ UNCHANGED <<liters, moving, drops, unload>>
  BY DEF OrderCommit, Reserve
<1> HIDE DEF q
<1>6. /\ orders[o].pending = {} /\ o \notin moving
      /\ orders'[o].pending = Stops(q.stops) /\ orders'[o].stops = q.stops
      /\ Placed(o)'
      /\ \A x \in Orders \ {o} : orders'[x] = orders[x]
  BY <1>4, PendingIsPlaced DEF FuelInv, OrderInv, OrderTypeOK, Placed
<1>7. DropsArePending'
  BY <1>5, <1>6 DEF FuelInv, DropsArePending
<1>8. ASSUME NEW s \in Stations
      PROVE  /\ Sum(PendingAt(s)') = Sum(PendingAt(s)) + q.stops[s]
             /\ DeliveredAt(s)' = DeliveredAt(s)
             /\ DroppedAt(s)' = DroppedAt(s)
  <2>1. PendingAt(s) \in [Orders -> Nat] /\ q.stops[s] \in Nat
    BY <1>3, LoadTypes DEF FuelInv
  <2>2. PendingAt(s)[o] = 0 /\ PendingAt(s)'[o] = q.stops[s]
    BY <1>6, <2>1 DEF PendingAt, Stops
  <2>3. \A x \in Orders \ {o} : PendingAt(s)'[x] = PendingAt(s)[x]
    BY <1>6 DEF PendingAt
  <2>4. PendingAt(s)' \in [Orders -> Int]
    <3>1. PendingAt(s)' = [x \in Orders |-> PendingAt(s)'[x]]
      BY DEF PendingAt
    <3>2. \A x \in Orders : PendingAt(s)'[x] \in Int
      BY <2>1, <2>2, <2>3
    <3> QED
      BY <3>1, <3>2
  <2>5. Sum(PendingAt(s)') = Sum(PendingAt(s)) + (PendingAt(s)'[o] - PendingAt(s)[o])
    <3>1. PendingAt(s) \in [Orders -> Int]
      BY <2>1
    <3> QED
      BY <2>3, <2>4, <3>1, FiniteSets, SumChange
  <2>6. DeliveredAt(s)' = DeliveredAt(s)
    BY <1>4, <1>6, <2>1 DEF DeliveredAt, Stops, Placed
  <2>7. DroppedAt(s)' = DroppedAt(s)
    BY <1>5, <1>6 DEF DroppedAt, FuelInv, DropsArePending
  <2> QED
    BY <2>1, <2>2, <2>5, <2>6, <2>7
<1>9. ReservedIsPending' /\ FuelAccounted' /\ UnloadIsDropped'
  <2>1. /\ \A s \in Stations : reserved[s] = Sum(PendingAt(s))
        /\ \A s \in Stations : liters[s] = StartLiters + Sum(DeliveredAt(s))
        /\ \A s \in Stations : unload[s] = Sum(DroppedAt(s))
    BY InTermsOfSums DEF FuelInv
  <2> QED
    BY <1>5, <1>8, <2>1, InTermsOfSumsNext
<1>10. \A t \in Requests : SessionTotal(oreq[t])'
  <2>1. \A t \in Requests : SessionTotal(oreq'[t])
    BY <1>5, IdleTotal DEF FuelInv, OrderInv, OrderTypeOK
  <2> QED
    BY <2>1, Zenon DEF SessionTotal
<1>11. stock' <= StartStock
  BY <1>1, <1>2, <1>5, FuelOrdersAssumption
<1> QED
  BY <1>7, <1>9, <1>10, <1>11 DEF FuelInv

\* What is left of the stock that an incident has read is not more.
LEMMA IncidentCommitKeepsFuel ==
    ASSUME FuelInv, OrderInv', NEW r \in Requests, IncidentCommit(r)
    PROVE  FuelInv'
<1>1. oreq[r].seen \in Int /\ oreq[r].seen >= 0 /\ oreq[r].seen <= StartStock
  BY FuelFacts DEF OrderSessions, OrderSessionOK, SessionTotal
<1>2. Remaining(oreq[r].seen) <= oreq[r].seen
  <2>1. \A a \in Nat, k \in 0 .. 100 : a * k <= a * 100
    OBVIOUS
  <2>2. \A n, a \in Nat : n <= a * 100 => (n + 50) \div 100 <= a
    OBVIOUS
  <2>3. \A a, k \in Nat : a * k \in Nat
    OBVIOUS
  <2> QED
    BY <1>1, <2>1, <2>2, <2>3, FuelOrdersAssumption DEF Remaining
<1>3. Remaining(oreq[r].seen) \in Int
  BY <1>1, FuelOrdersAssumption DEF Remaining
<1>4. stock' <= StartStock
  BY <1>1, <1>2, <1>3, FuelOrdersAssumption DEF IncidentCommit
<1>5. \A t \in Requests : SessionTotal(oreq'[t])
  BY IdleTotal DEF IncidentCommit, FuelInv, OrderInv, OrderTypeOK
<1>6. DropsArePending'
  BY DEF IncidentCommit, FuelInv, DropsArePending
<1> QED
  BY <1>4, <1>5, <1>6, FuelStays DEF IncidentCommit

\* What a tick unloads, its trucks still had.
LEMMA TruckUnloadKeepsFuel ==
    ASSUME FuelInv, OrderInv', TruckUnload
    PROVE  FuelInv'
<1>1. PICK o \in moving : \E s \in orders[o].pending :
        /\ <<o, s>> \notin drops
        /\ drops' = drops \cup {<<o, s>>}
        /\ unload' = [unload EXCEPT ![s] = @ + orders[o].stops[s]]
  BY DEF TruckUnload
<1>2. PICK s \in orders[o].pending :
        /\ <<o, s>> \notin drops
        /\ drops' = drops \cup {<<o, s>>}
        /\ unload' = [unload EXCEPT ![s] = @ + orders[o].stops[s]]
  BY <1>1
<1>3. o \in Orders
  BY DEF FuelInv, OrderInv, OrderTypeOK
<1>4. s \in Stations /\ orders[o].stops[s] \in Nat
  BY <1>3, PendingStops DEF FuelInv
<1>5. UNCHANGED <<liters, stock, reserved, orders, oreq, moving>>
  BY DEF TruckUnload
<1>6. DropsArePending'
  BY <1>2, <1>5 DEF FuelInv, DropsArePending
<1>7. \A x \in Stations : PendingAt(x)' = PendingAt(x) /\ DeliveredAt(x)' = DeliveredAt(x)
  BY <1>5 DEF PendingAt, DeliveredAt, Placed
<1>8. \A x \in Stations : x # s => DroppedAt(x)' = DroppedAt(x)
  BY <1>2, <1>5 DEF DroppedAt
<1>9. Sum(DroppedAt(s)') = Sum(DroppedAt(s)) + orders[o].stops[s]
  <2>1. DroppedAt(s) \in [Orders -> Nat]
    BY <1>4, LoadTypes DEF FuelInv
  <2>2. DroppedAt(s)[o] = 0 /\ DroppedAt(s)'[o] = orders[o].stops[s]
    BY <1>2, <1>3, <1>5 DEF DroppedAt
  <2>3. \A x \in Orders \ {o} : DroppedAt(s)'[x] = DroppedAt(s)[x]
    BY <1>2, <1>5 DEF DroppedAt
  <2>4. DroppedAt(s)' \in [Orders -> Int]
    <3>1. DroppedAt(s)' = [x \in Orders |-> DroppedAt(s)'[x]]
      BY DEF DroppedAt
    <3>2. \A x \in Orders : DroppedAt(s)'[x] \in Int
      BY <1>4, <2>1, <2>2, <2>3
    <3> QED
      BY <3>1, <3>2
  <2>5. DroppedAt(s) \in [Orders -> Int]
    BY <2>1
  <2>6. Sum(DroppedAt(s)') = Sum(DroppedAt(s)) + (DroppedAt(s)'[o] - DroppedAt(s)[o])
    BY <1>3, <2>3, <2>4, <2>5, FiniteSets, SumChange
  <2> QED
    BY <1>4, <2>2, <2>6
<1>10. ReservedIsPending' /\ FuelAccounted' /\ UnloadIsDropped'
  <2>1. /\ \A x \in Stations : reserved[x] = Sum(PendingAt(x))
        /\ \A x \in Stations : liters[x] = StartLiters + Sum(DeliveredAt(x))
        /\ \A x \in Stations : unload[x] = Sum(DroppedAt(x))
    BY InTermsOfSums DEF FuelInv
  <2>2. \A x \in Stations : unload'[x] = Sum(DroppedAt(x)')
    BY <1>2, <1>4, <1>8, <1>9, <2>1 DEF FuelInv, OrderInv, OrderTypeOK
  <2> QED
    BY <1>5, <1>7, <2>1, <2>2, InTermsOfSumsNext
<1>11. \A t \in Requests : SessionTotal(oreq[t])'
  BY <1>5, Zenon DEF FuelInv, SessionTotal
<1> QED
  BY <1>5, <1>6, <1>10, <1>11 DEF FuelInv

\* A tick that has ended has unloaded nothing.
LEMMA NothingDropped ==
    ASSUME drops' = {}, unload' = NoLoad
    PROVE  DropsArePending' /\ \A s \in Stations : unload'[s] = Sum(DroppedAt(s)')
<1>1. DropsArePending'
  BY DEF DropsArePending
<1>2. ASSUME NEW s \in Stations PROVE unload'[s] = Sum(DroppedAt(s)')
  <2>1. /\ DroppedAt(s)' \in [Orders -> Int]
        /\ \A o \in Orders : DroppedAt(s)'[o] = 0
    BY DEF DroppedAt
  <2>2. Sum(DroppedAt(s)') = 0
    BY <2>1, FiniteSets, SumZero
  <2> QED
    BY <2>2 DEF NoLoad
<1> QED
  BY <1>1, <1>2

LEMMA TruckAbortKeepsFuel ==
    ASSUME FuelInv, OrderInv', TruckAbort
    PROVE  FuelInv'
<1>1. UNCHANGED <<liters, stock, reserved, orders, oreq>> /\ drops' = {} /\ unload' = NoLoad
  BY DEF TruckAbort
<1>2. \A s \in Stations : PendingAt(s)' = PendingAt(s) /\ DeliveredAt(s)' = DeliveredAt(s)
  BY <1>1 DEF PendingAt, DeliveredAt, Placed
<1>3. ReservedIsPending' /\ FuelAccounted' /\ UnloadIsDropped'
  <2>1. /\ \A s \in Stations : reserved[s] = Sum(PendingAt(s))
        /\ \A s \in Stations : liters[s] = StartLiters + Sum(DeliveredAt(s))
    BY InTermsOfSums DEF FuelInv
  <2> QED
    BY <1>1, <1>2, <2>1, NothingDropped, InTermsOfSumsNext
<1>4. \A t \in Requests : SessionTotal(oreq[t])'
  BY <1>1, Zenon DEF FuelInv, SessionTotal
<1> QED
  BY <1>1, <1>3, <1>4, NothingDropped DEF FuelInv

\* A committed tick moves liters from what is pending to what is delivered.
LEMMA TickMovesLoads ==
    ASSUME FuelInv, TruckCommit, NEW s \in Stations
    PROVE  /\ Sum(PendingAt(s)) = Sum(PendingAt(s)') + Sum(DroppedAt(s))
           /\ Sum(DeliveredAt(s)') = Sum(DeliveredAt(s)) + Sum(DroppedAt(s))
           /\ Sum(PendingAt(s)') \in Nat
<1>1. /\ PendingAt(s) \in [Orders -> Nat]
      /\ DeliveredAt(s) \in [Orders -> Nat]
      /\ DroppedAt(s) \in [Orders -> Nat]
  BY LoadTypes DEF FuelInv
<1>2. ASSUME NEW o \in Orders
      PROVE  /\ Placed(o)' <=> Placed(o)
             /\ s \in orders'[o].pending <=> s \in orders[o].pending /\ <<o, s>> \notin drops
             /\ Placed(o) => orders'[o].stops = orders[o].stops
  <2>1. PICK arrived :
          orders' = [x \in Orders |->
             IF x \in moving
               THEN [orders[x] EXCEPT !.pending = Left(x),
                       !.status = IF x \in arrived THEN "DELIVERED" ELSE @]
               ELSE orders[x]]
    BY DEF TruckCommit
  <2>2. CASE o \in moving
    <3>1. orders[o] \in OrderRecords /\ orders[o].status = "IN_TRANSIT"
      BY <2>2, PendingIsPlaced, PlacedStops DEF FuelInv, OrderInv, OrdersOK
    <3>2. orders'[o] = [orders[o] EXCEPT !.pending = Left(o),
                          !.status = IF o \in arrived THEN "DELIVERED" ELSE @]
      BY <2>1, <2>2
    <3>3. /\ orders'[o].pending = Left(o)
          /\ orders'[o].stops = orders[o].stops
          /\ orders'[o].status \in {"DELIVERED", "IN_TRANSIT"}
      BY <3>1, <3>2 DEF OrderRecords
    <3> QED
      BY <3>1, <3>3 DEF Placed, Left
  <2>3. CASE o \notin moving
    <3>1. orders'[o] = orders[o]
      BY <2>1, <2>3
    <3> QED
      BY <2>3, <3>1 DEF Placed, FuelInv, DropsArePending
  <2> QED
    BY <2>2, <2>3
<1>3. \A o \in Orders : s \in orders[o].pending => Placed(o)
  BY PendingIsPlaced DEF FuelInv
<1>4. \A o \in Orders : <<o, s>> \in drops => s \in orders[o].pending
  BY DEF FuelInv, DropsArePending
<1>5. /\ PendingAt(s)' = [o \in Orders |-> PendingAt(s)'[o]]
      /\ DeliveredAt(s)' = [o \in Orders |-> DeliveredAt(s)'[o]]
  BY DEF PendingAt, DeliveredAt
<1>6. ASSUME NEW o \in Orders
      PROVE  /\ PendingAt(s)'[o] \in Nat
             /\ PendingAt(s)[o] = PendingAt(s)'[o] + DroppedAt(s)[o]
             /\ DeliveredAt(s)'[o] \in Nat
             /\ DeliveredAt(s)'[o] = DeliveredAt(s)[o] + DroppedAt(s)[o]
  <2>1. Placed(o) => orders[o].stops[s] \in Nat
    BY PlacedStops DEF FuelInv
  <2>2. /\ PendingAt(s)[o] = IF s \in orders[o].pending THEN orders[o].stops[s] ELSE 0
        /\ DroppedAt(s)[o] = IF <<o, s>> \in drops THEN orders[o].stops[s] ELSE 0
        /\ DeliveredAt(s)[o] = IF Placed(o) /\ s \notin orders[o].pending
                                 THEN orders[o].stops[s] ELSE 0
    BY DEF PendingAt, DroppedAt, DeliveredAt
  <2>3. /\ PendingAt(s)'[o] = IF s \in orders'[o].pending THEN orders'[o].stops[s] ELSE 0
        /\ DeliveredAt(s)'[o] = IF Placed(o)' /\ s \notin orders'[o].pending
                                  THEN orders'[o].stops[s] ELSE 0
    BY DEF PendingAt, DeliveredAt
  <2>4. CASE <<o, s>> \in drops
    BY <1>2, <1>3, <1>4, <2>1, <2>2, <2>3, <2>4
  <2>5. CASE <<o, s>> \notin drops
    BY <1>2, <1>3, <1>4, <2>1, <2>2, <2>3, <2>5
  <2> QED
    BY <2>4, <2>5
<1>7. PendingAt(s)' \in [Orders -> Nat] /\ DeliveredAt(s)' \in [Orders -> Nat]
  BY <1>5, <1>6
<1>8. /\ PendingAt(s) \in [Orders -> Int] /\ DeliveredAt(s) \in [Orders -> Int]
      /\ DroppedAt(s) \in [Orders -> Int]
      /\ PendingAt(s)' \in [Orders -> Int] /\ DeliveredAt(s)' \in [Orders -> Int]
  BY <1>1, <1>7
<1>9. Sum(PendingAt(s)) = Sum(PendingAt(s)') + Sum(DroppedAt(s))
  BY <1>6, <1>8, FiniteSets, SumPlus
<1>10. Sum(DeliveredAt(s)') = Sum(DeliveredAt(s)) + Sum(DroppedAt(s))
  BY <1>6, <1>8, FiniteSets, SumPlus
<1> QED
  BY <1>7, <1>9, <1>10, FiniteSets, SumNat

LEMMA TruckCommitKeepsFuel ==
    ASSUME FuelInv, OrderInv', TruckCommit
    PROVE  FuelInv'
<1>1. /\ drops' = {} /\ unload' = NoLoad
      /\ liters' = [s \in Stations |-> liters[s] + unload[s]]
      /\ reserved' = [s \in Stations |-> reserved[s] - unload[s]]
      /\ UNCHANGED <<stock, oreq>>
  BY DEF TruckCommit, ReleaseReservation
<1>2. ASSUME NEW s \in Stations
      PROVE  /\ reserved'[s] = Sum(PendingAt(s)')
             /\ liters'[s] = StartLiters + Sum(DeliveredAt(s)')
  <2>1. /\ reserved[s] = Sum(PendingAt(s))
        /\ liters[s] = StartLiters + Sum(DeliveredAt(s))
        /\ unload[s] = Sum(DroppedAt(s))
    BY InTermsOfSums DEF FuelInv
  <2>2. /\ Sum(PendingAt(s)) = Sum(PendingAt(s)') + Sum(DroppedAt(s))
        /\ Sum(DeliveredAt(s)') = Sum(DeliveredAt(s)) + Sum(DroppedAt(s))
        /\ Sum(PendingAt(s)') \in Nat
    BY TickMovesLoads
  <2>3. Sum(DeliveredAt(s)) \in Int /\ Sum(DroppedAt(s)) \in Int
    <3>1. DeliveredAt(s) \in [Orders -> Nat] /\ DroppedAt(s) \in [Orders -> Nat]
      BY LoadTypes DEF FuelInv
    <3>2. Sum(DeliveredAt(s)) \in Nat /\ Sum(DroppedAt(s)) \in Nat
      BY <3>1, FiniteSets, SumNat
    <3> QED
      BY <3>2
  <2> QED
    BY <1>1, <2>1, <2>2, <2>3, StoreAssumption
<1>3. ReservedIsPending' /\ FuelAccounted' /\ UnloadIsDropped'
  BY <1>1, <1>2, NothingDropped, InTermsOfSumsNext
<1>4. \A t \in Requests : SessionTotal(oreq[t])'
  BY <1>1, Zenon DEF FuelInv, SessionTotal
<1> QED
  BY <1>1, <1>3, <1>4, NothingDropped DEF FuelInv

LEMMA FuelNext == FuelInv /\ [OrderNext]_orderVars => FuelInv'
<1> SUFFICES ASSUME FuelInv, [OrderNext]_orderVars
             PROVE  FuelInv'
  OBVIOUS
<1>1. OrderInv'
  BY OrderNextOK DEF FuelInv
<1>2. ASSUME NEW r \in Requests, OrderSteps(r)
      PROVE  FuelInv'
  BY <1>1, <1>2, RequestKeepsFuel, OrderCommitKeepsFuel, IncidentCommitKeepsFuel
<1>3. CASE TruckSelect \/ OrderFinishGame \/ UNCHANGED orderVars
  <2>1. UNCHANGED <<liters, reserved, orders, drops, unload, stock, oreq>>
    BY <1>3 DEF TruckSelect, OrderFinishGame, supplyVars, orderVars
  <2>2. DropsArePending'
    BY <1>3, <2>1 DEF FuelInv, DropsArePending, TruckSelect, OrderFinishGame,
                      supplyVars, orderVars
  <2> QED
    BY <1>1, <2>1, <2>2, FuelStays DEF FuelInv
<1>4. CASE TruckTick
  BY <1>1, <1>3, <1>4, TruckUnloadKeepsFuel, TruckCommitKeepsFuel, TruckAbortKeepsFuel
  DEF TruckTick
<1> QED
  BY <1>2, <1>3, <1>4 DEF OrderNext

\* Reservations, tanks and the liters of orders agree in every reachable state.
THEOREM FuelInductive == OrderSpec => []FuelInv
  BY FuelInit, FuelNext, PTL DEF OrderSpec

\* The reservation of a tank is what its orders still have to bring, however
\* orders, ticks and their failures overlap.
THEOREM ReservationsArePending == OrderSpec => []ReservedIsPending
<1>1. FuelInv => ReservedIsPending
  BY DEF FuelInv
<1> QED
  BY <1>1, FuelInductive, PTL

\* No liter is lost and none is delivered twice.
THEOREM FuelIsAccounted == OrderSpec => []FuelAccounted
<1>1. FuelInv => FuelAccounted
  BY DEF FuelInv
<1> QED
  BY <1>1, FuelInductive, PTL

-----------------------------------------------------------------------------
(* OrderSpec implements Depot. *)

\* The contracts that the orders stand for.
Contracts == [o \in Orders |-> Contract(o)]

LEMMA DepotTotalIsSum == ASSUME NEW f PROVE D!Total(f) = Sum(f)
BY Zenon DEF D!Total, D!FoldFunction, D!FoldFunctionOnSet, D!MapThenFoldSet,
             Sum, Partial, Recursion, Pick

\* A step that commits nothing is invisible.
LEMMA Invisible ==
    ASSUME UNCHANGED <<balance, liters, reserved, stock, orders>>
    PROVE  UNCHANGED D!depotVars
BY DEF D!depotVars, Contract, Placed

LEMMA DepotInit == OrderInit => D!Init
<1> SUFFICES ASSUME OrderInit PROVE D!Init
  OBVIOUS
<1>1. \A o \in Orders : Contract(o) = [pending |-> {}]
  BY DEF OrderInit, SupplyInit, Contract, Placed, NoOrder
<1>2. Contracts = [o \in Orders |-> [pending |-> {}]]
  BY <1>1 DEF Contracts
<1> QED
  BY <1>2 DEF D!Init, D!NoContract, Contracts, OrderInit, SupplyInit, NoLoad

\* An incident leaves a part of the first stock.
LEMMA IncidentIsBreakdown ==
    ASSUME FuelInv, FuelInv', NEW r \in Requests, IncidentCommit(r)
    PROVE  D!Breakdown
<1>1. stock' \in 0 .. StartStock
  BY FuelOrdersAssumption DEF FuelInv, OrderInv, OrderTypeOK, StockNotOversold
<1>2. UNCHANGED <<balance, liters, reserved, orders>>
  BY DEF IncidentCommit
<1>3. Contracts' = Contracts
  BY <1>2 DEF Contracts, Contract, Placed
<1> QED
  BY <1>1, <1>2, <1>3 DEF D!Breakdown, Contracts

\* The commit of an order is the atomic placement of its contract.
LEMMA CommitIsPlace ==
    ASSUME FuelInv, NEW r \in Requests, OrderCommit(r)
    PROVE  D!Place
<1> DEFINE q == oreq[r]
<1>1. /\ q \in OrderSessions /\ OrderSessionOK(q, held[r]) /\ SessionTotal(q)
      /\ q.pc = "insert"
  BY FuelFacts DEF OrderCommit
<1>2. /\ q.actor \in Players
      /\ q.cost \in Nat /\ q.total \in 0 .. TruckCapacity
      /\ q.stops \in [Stations -> OrderVolumes \cup {0}]
      /\ RoomFor(q.stops)
      /\ stock >= q.total
      /\ balance[q.actor] >= q.cost
      /\ q.total = Total(q.stops) /\ q.total >= 1
  BY <1>1 DEF OrderSessionOK, OrderSessions, SessionTotal, Loads
<1>3. PICK o \in Orders :
        /\ ~Placed(o)
        /\ orders' = [orders EXCEPT ![o] =
              [status |-> "IN_TRANSIT", player |-> q.actor, cost |-> q.cost,
               stops |-> q.stops, pending |-> Stops(q.stops)]]
  BY DEF OrderCommit
<1>4. /\ balance' = [balance EXCEPT ![q.actor] = @ - q.cost]
      /\ stock' = stock - q.total
      /\ reserved' = [s \in Stations |-> reserved[s] + q.stops[s]]
      /\ UNCHANGED liters
  BY DEF OrderCommit, Reserve
<1> DEFINE new == [player |-> q.actor, cost |-> q.cost,
                   stops |-> q.stops, pending |-> Stops(q.stops)]
<1> HIDE DEF q
<1>5. Contracts' = [Contracts EXCEPT ![o] = new] /\ Contracts'[o] = new
  <2>1. \A x \in Orders \ {o} : Contract(x)' = Contract(x)
    BY <1>3 DEF Contract, Placed
  <2>2. Contract(o)' = new
    BY <1>3 DEF Contract, Placed, FuelInv, OrderInv, OrderTypeOK
  <2> HIDE DEF new
  <2> QED
    BY <2>1, <2>2 DEF Contracts
<1>6. Contracts[o] = D!NoContract
  BY <1>3 DEF Contracts, Contract, D!NoContract
<1>7. new \in D!Contracts
  BY <1>2 DEF D!Contracts, Stops
<1>8. new.pending = {s \in Stations : new.stops[s] > 0}
  BY DEF Stops
<1>9. D!Total(new.stops) = q.total
  BY <1>2, TotalIsSum, DepotTotalIsSum
<1>10. q.total \in 1 .. stock
  BY <1>2 DEF FuelInv, OrderInv, OrderTypeOK
<1>11. \A s \in new.pending : liters[s] + reserved[s] + new.stops[s] <= Capacity
  BY <1>2 DEF RoomFor
<1>12. balance' = [balance EXCEPT ![new.player] = @ - new.cost] /\ new.cost <= balance[new.player]
  BY <1>2, <1>4 DEF FuelInv, OrderInv, OrderTypeOK
<1>13. reserved' = [s \in Stations |-> reserved[s] + new.stops[s]]
  BY <1>4
<1>14. stock' = stock - D!Total(new.stops) /\ D!Total(new.stops) \in 1 .. stock
  BY <1>4, <1>9, <1>10
<1> HIDE DEF new
<1>15. \E x \in Orders :
         /\ Contracts[x] = D!NoContract
         /\ Contracts'[x] \in D!Contracts
         /\ Contracts' = [Contracts EXCEPT ![x] = Contracts'[x]]
         /\ Contracts'[x].pending = {s \in Stations : Contracts'[x].stops[s] > 0}
         /\ D!Total(Contracts'[x].stops) \in 1 .. stock
         /\ stock' = stock - D!Total(Contracts'[x].stops)
         /\ \A s \in Contracts'[x].pending :
              liters[s] + reserved[s] + Contracts'[x].stops[s] <= Capacity
         /\ reserved' = [s \in Stations |-> reserved[s] + Contracts'[x].stops[s]]
         /\ Contracts'[x].cost <= balance[Contracts'[x].player]
         /\ balance' = [balance EXCEPT ![Contracts'[x].player] = @ - Contracts'[x].cost]
  BY <1>5, <1>6, <1>7, <1>8, <1>11, <1>12, <1>13, <1>14, Zenon
<1> QED
  BY <1>4, <1>15, Zenon DEF D!Place, Contracts

\* What a committed tick changes in a contract: nothing but its pending stops.
LEMMA TickChangesContracts ==
    ASSUME FuelInv, TruckCommit, NEW o \in Orders
    PROVE  /\ Contract(o)' = [Contract(o) EXCEPT !.pending = Contract(o)'.pending]
           /\ Contract(o).pending = orders[o].pending
           /\ Placed(o) => Contract(o).stops = orders[o].stops
           /\ Contract(o)'.pending = {s \in orders[o].pending : <<o, s>> \notin drops}
<1>1. PICK arrived :
        orders' = [x \in Orders |->
           IF x \in moving
             THEN [orders[x] EXCEPT !.pending = Left(x),
                     !.status = IF x \in arrived THEN "DELIVERED" ELSE @]
             ELSE orders[x]]
  BY DEF TruckCommit
<1>2. Contract(o).pending = orders[o].pending
  BY PendingIsPlaced DEF FuelInv, Contract
<1>3. CASE o \in moving
  <2>1. orders[o] \in OrderRecords /\ orders[o].status = "IN_TRANSIT"
    BY <1>3, PendingIsPlaced, PlacedStops DEF FuelInv, OrderInv, OrdersOK
  <2>2. orders'[o] = [orders[o] EXCEPT !.pending = Left(o),
                        !.status = IF o \in arrived THEN "DELIVERED" ELSE @]
    BY <1>1, <1>3
  <2>3. /\ orders'[o].pending = Left(o)
        /\ orders'[o].stops = orders[o].stops
        /\ orders'[o].player = orders[o].player
        /\ orders'[o].cost = orders[o].cost
        /\ orders'[o].status \in {"DELIVERED", "IN_TRANSIT"}
    BY <2>1, <2>2 DEF OrderRecords
  <2>4. Placed(o) /\ Placed(o)'
    BY <2>1, <2>3 DEF Placed
  <2>5. Contract(o) = [player |-> orders[o].player, cost |-> orders[o].cost,
                       stops |-> orders[o].stops, pending |-> orders[o].pending]
    BY <2>4 DEF Contract
  <2>6. Contract(o)' = [player |-> orders[o].player, cost |-> orders[o].cost,
                        stops |-> orders[o].stops, pending |-> Left(o)]
    BY <2>3, <2>4 DEF Contract
  <2>7. Contract(o)' = [Contract(o) EXCEPT !.pending = Contract(o)'.pending]
    BY <2>5, <2>6
  <2>8. Contract(o)'.pending = {s \in orders[o].pending : <<o, s>> \notin drops}
    BY <2>6 DEF Left
  <2>9. Contract(o).stops = orders[o].stops
    BY <2>5
  <2> QED
    BY <1>2, <2>7, <2>8, <2>9
<1>4. CASE o \notin moving
  <2>1. orders'[o] = orders[o]
    BY <1>1, <1>4
  <2>2. Contract(o)' = Contract(o)
    BY <2>1 DEF Contract, Placed
  <2>3. Contract(o) = [Contract(o) EXCEPT !.pending = Contract(o).pending]
    <3>1. \/ Contract(o) = [player |-> orders[o].player, cost |-> orders[o].cost,
                            stops |-> orders[o].stops, pending |-> orders[o].pending]
          \/ Contract(o) = [pending |-> {}]
      BY DEF Contract
    <3> QED
      BY <3>1
  <2>4. \A s \in orders[o].pending : <<o, s>> \notin drops
    BY <1>4, PendingStops DEF FuelInv, DropsArePending
  <2>5. Placed(o) => Contract(o).stops = orders[o].stops
    BY DEF Contract
  <2> QED
    BY <1>2, <2>2, <2>3, <2>4, <2>5
<1> QED
  BY <1>3, <1>4

\* The commit of a tick delivers at once what the tick has unloaded, if anything.
LEMMA TickIsDeliver ==
    ASSUME FuelInv, TruckCommit
    PROVE  D!Deliver \/ UNCHANGED D!depotVars
<1>1. /\ UNCHANGED <<balance, stock>>
      /\ liters' = [s \in Stations |-> liters[s] + unload[s]]
      /\ reserved' = [s \in Stations |-> reserved[s] - unload[s]]
  BY DEF TruckCommit, ReleaseReservation
<1>2. \A o \in Orders :
        /\ Contracts[o] = Contract(o) /\ Contracts'[o] = Contract(o)'
        /\ Contracts'[o] = [Contracts[o] EXCEPT !.pending = Contracts'[o].pending]
        /\ Contracts[o].pending = orders[o].pending
        /\ Placed(o) => Contracts[o].stops = orders[o].stops
        /\ Contracts'[o].pending = {s \in orders[o].pending : <<o, s>> \notin drops}
  <2> SUFFICES ASSUME NEW o \in Orders
               PROVE  /\ Contracts[o] = Contract(o) /\ Contracts'[o] = Contract(o)'
                      /\ Contracts'[o] = [Contracts[o] EXCEPT !.pending = Contracts'[o].pending]
                      /\ Contracts[o].pending = orders[o].pending
                      /\ Placed(o) => Contracts[o].stops = orders[o].stops
                      /\ Contracts'[o].pending = {s \in orders[o].pending : <<o, s>> \notin drops}
    OBVIOUS
  <2>1. Contracts[o] = Contract(o) /\ Contracts'[o] = Contract(o)'
    BY DEF Contracts
  <2> QED
    BY <2>1, TickChangesContracts
<1>3. Contracts' = [o \in Orders |->
                      [Contracts[o] EXCEPT !.pending = Contracts'[o].pending]]
  <2>1. Contracts' = [o \in Orders |-> Contracts'[o]]
    BY DEF Contracts
  <2> QED
    BY <1>2, <2>1
<1>4. \A s \in Stations :
        [o \in Orders |-> IF s \in Contracts[o].pending \ Contracts'[o].pending
                            THEN Contracts[o].stops[s] ELSE 0] = DroppedAt(s)
  <2> SUFFICES ASSUME NEW s \in Stations, NEW o \in Orders
               PROVE  (IF s \in Contracts[o].pending \ Contracts'[o].pending
                         THEN Contracts[o].stops[s] ELSE 0)
                        = IF <<o, s>> \in drops THEN orders[o].stops[s] ELSE 0
    BY DEF DroppedAt
  <2>1. s \in Contracts[o].pending \ Contracts'[o].pending <=> <<o, s>> \in drops
    BY <1>2 DEF FuelInv, DropsArePending
  <2>2. <<o, s>> \in drops => Contracts[o].stops = orders[o].stops
    BY <1>2, PendingIsPlaced DEF FuelInv, DropsArePending
  <2> QED
    BY <2>1, <2>2
<1>5. \A s \in Stations : unload[s] = D!Total(DroppedAt(s))
  BY InTermsOfSums, DepotTotalIsSum DEF FuelInv
<1>6. CASE Contracts' = Contracts
  <2>1. \A s \in Stations : unload[s] = 0
    <3> SUFFICES ASSUME NEW s \in Stations PROVE unload[s] = 0
      OBVIOUS
    <3>1. \A o \in Orders : <<o, s>> \notin drops
      BY <1>2, <1>6 DEF FuelInv, DropsArePending
    <3>2. DroppedAt(s) \in [Orders -> Int] /\ \A o \in Orders : DroppedAt(s)[o] = 0
      BY <3>1 DEF DroppedAt
    <3>3. Sum(DroppedAt(s)) = 0
      BY <3>2, FiniteSets, SumZero
    <3> QED
      BY <1>5, <3>3, DepotTotalIsSum
  <2>2. liters' = liters /\ reserved' = reserved
    BY <1>1, <2>1 DEF FuelInv, OrderInv, OrderTypeOK
  <2> QED
    BY <1>1, <1>6, <2>2 DEF D!depotVars, Contracts
<1>7. CASE Contracts' # Contracts
  <2>1. \A o \in Orders : Contracts'[o].pending \subseteq Contracts[o].pending
    BY <1>2
  <2> DEFINE load(s) == [o \in Orders |->
                           IF s \in Contracts[o].pending \ Contracts'[o].pending
                             THEN Contracts[o].stops[s] ELSE 0]
  <2>2. \A s \in Stations : D!Total(load(s)) = unload[s]
    BY <1>4, <1>5
  <2> HIDE DEF load
  <2>3. /\ liters' = [s \in Stations |-> liters[s] + D!Total(load(s))]
        /\ reserved' = [s \in Stations |-> reserved[s] - D!Total(load(s))]
    BY <1>1, <2>2
  <2>4. D!Deliver
    BY <1>1, <1>3, <1>7, <2>1, <2>3, Zenon DEF D!Deliver, Contracts, load
  <2> QED
    BY <2>4
<1> QED
  BY <1>6, <1>7

LEMMA DepotNext ==
    FuelInv /\ FuelInv' /\ [OrderNext]_orderVars => [D!Next]_(D!depotVars)
<1> SUFFICES ASSUME FuelInv, FuelInv', [OrderNext]_orderVars
             PROVE  D!Next \/ UNCHANGED D!depotVars
  BY Zenon
<1>1. ASSUME NEW r \in Requests, OrderSteps(r)
      PROVE  D!Next \/ UNCHANGED D!depotVars
  <2>1. CASE OrderCommit(r)
    BY <2>1, CommitIsPlace DEF D!Next
  <2>2. CASE IncidentCommit(r)
    BY <2>2, IncidentIsBreakdown DEF D!Next
  <2>3. CASE ~OrderCommit(r) /\ ~IncidentCommit(r)
    <3>1. UNCHANGED <<balance, liters, reserved, stock, orders>>
      BY <1>1, <2>3
      DEF OrderSteps, OrderBegin, OrderLockPlayer, OrderCheckStation, OrderLockTank,
          OrderLockRefinery, OrderCheckFunds, OrderAbort, IncidentRead, NoRowWritten
    <3> QED
      BY <3>1, Invisible
  <2> QED
    BY <2>1, <2>2, <2>3
<1>2. CASE TruckTick
  <2>1. CASE TruckCommit
    BY <2>1, TickIsDeliver DEF D!Next
  <2>2. CASE TruckSelect \/ TruckUnload \/ TruckAbort
    BY <2>2, Invisible DEF TruckSelect, TruckUnload, TruckAbort
  <2> QED
    BY <1>2, <2>1, <2>2 DEF TruckTick
<1>3. CASE OrderFinishGame \/ UNCHANGED orderVars
  BY <1>3, Invisible DEF OrderFinishGame, supplyVars, orderVars
<1> QED
  BY <1>1, <1>2, <1>3 DEF OrderNext

\* Overlapping orders, ticks and incidents implement the atomic depot: an order
\* is placed in one step, its deliveries are made at once, and each of them once.
THEOREM DepotImplemented == OrderSpec => RefinesDepot
<1>1. OrderSpec => []FuelInv
  BY FuelInductive
<1> QED
  BY <1>1, DepotInit, DepotNext, PTL DEF OrderSpec, RefinesDepot, D!Spec

-----------------------------------------------------------------------------
(* Part 3: Supply.                                                           *)
(* Trades, orders and truck ticks together (Supply).  The invariant of     *)
(* Trading stays true whatever orders and trucks do on the same rows; of   *)
(* the orders it takes that a bill is covered until it is paid.            *)

\* The funds and the stock an order was promised are still there when it commits,
\* because its session holds the rows of the player and of the refinery.
BillOK(q, h) ==
    /\ q.pc \notin {"idle", "spoil"} => q.actor \in Players
    /\ q.pc \in {"stations", "tanks", "refinery", "funds", "insert"} =>
         PlayerRow(q.actor) \in h
    /\ q.pc = "insert" => balance[q.actor] >= q.cost
    /\ q.pc \in {"funds", "insert"} => RefineryRow \in h /\ stock >= q.total
    /\ q.seen >= 0

SupplyTypeOK ==
    /\ stock \in Nat
    /\ orders \in [Orders -> OrderRecords \cup {NoOrder}]
    /\ oreq \in [Requests -> OrderSessions]
    /\ moving \subseteq {o \in Orders : orders[o].status = "IN_TRANSIT"}
    /\ unload \in [Stations -> Nat]

\* A request trades or orders, not both.
OneThing == \A r \in Requests : req[r].pc = "idle" \/ oreq[r].pc = "idle"

SupplyInv ==
    /\ IndInv
    /\ SupplyTypeOK
    /\ OneThing
    /\ \A r \in Requests : BillOK(oreq[r], held[r])

\* A session without an order has promised nothing.
LEMMA IdleBill == IdleOrder \in OrderSessions /\ BillOK(IdleOrder, {})
<1>1. NoLoad \in Loads
  BY DEF NoLoad, Loads
<1> QED
  BY <1>1, FuelOrdersAssumption DEF IdleOrder, OrderSessions, OrderPcs, BillOK

LEMMA SupplyStart == BothInit => SupplyInv
<1> SUFFICES ASSUME BothInit PROVE SupplyInv
  OBVIOUS
<1>1. IndInv
  BY InitOK DEF BothInit
<1>2. NoLoad \in [Stations -> Nat] /\ NoLoad \in Loads
  BY DEF NoLoad, Loads
<1>3. IdleOrder \in OrderSessions
  BY IdleBill
<1>4. SupplyTypeOK
  BY <1>2, <1>3, FuelOrdersAssumption DEF BothInit, SupplyInit, SupplyTypeOK
<1>5. \A r \in Requests : oreq[r] = IdleOrder
  BY DEF BothInit, SupplyInit
<1>6. OneThing /\ \A r \in Requests : BillOK(oreq[r], held[r])
  BY <1>5 DEF OneThing, BillOK, IdleOrder
<1> QED
  BY <1>1, <1>4, <1>6 DEF SupplyInv

-----------------------------------------------------------------------------
(* What trades leave of the orders' assumptions. *)

\* A statement of a trade touches the locks of no other request and the balance of
\* no player whose row it does not hold.
LEMMA TradeLocal ==
    ASSUME IndInv, NEW r \in Requests, Begin(r) \/ RequestStep(r) \/ Abort(r)
    PROVE  /\ \A t \in Requests \ {r} : held'[t] = held[t] /\ req'[t] = req[t]
           /\ \A p \in Players : PlayerRow(p) \notin held[r] => balance'[p] = balance[p]
<1> DEFINE Others == \A t \in Requests \ {r} : held'[t] = held[t] /\ req'[t] = req[t]
<1>1. r \in Sessions /\ Requests \subseteq Sessions
  BY DEF Sessions
<1>2. ASSUME NEW check, NEW rows, NEW next, Continue(r, check, rows, next)
      PROVE  Others
  BY <1>1, <1>2 DEF Continue, IndInv, TypeOK
<1>3. ASSUME Finish(r) PROVE Others
  BY <1>1, <1>3 DEF Finish, Release, IndInv, TypeOK
<1>4. CASE Begin(r)
  BY <1>1, <1>4 DEF Begin, NothingCommitted, IndInv, TypeOK
<1>5. CASE Abort(r)
  BY <1>2, <1>5 DEF Abort, NothingCommitted
<1>6. CASE PurchaseCommit(r)
  <2>1. Finish(r) /\ balance' = [balance EXCEPT ![req[r].actor] = @ - StationPrice]
    BY <1>6 DEF PurchaseCommit
  <2>2. SessionOK(req[r], held[r]) /\ balance \in [Players -> Int]
    BY DEF IndInv, SessionsConsistent, TypeOK
  <2>3. PlayerRow(req[r].actor) \in held[r]
    BY <1>6, <2>2 DEF PurchaseCommit, At, SessionOK, PurchaseOK
  <2> QED
    BY <1>3, <2>1, <2>2, <2>3
<1>7. CASE AcceptCommitStationSale(r) \/ AcceptCommitFuelSale(r)
  <2>1. At(r, "accept", "taken") /\ Settle(r)
    BY <1>7 DEF AcceptCommitStationSale, AcceptCommitFuelSale
  <2>2. /\ \A p \in Players : p \notin {req[r].actor, offers[req[r].offer].seller}
             => balance'[p] = balance[p]
        /\ Finish(r)
    BY <2>1, SettleStep
  <2>3. /\ PlayerRow(req[r].actor) \in held[r]
        /\ PlayerRow(offers[req[r].offer].seller) \in held[r]
    BY <2>1, TakenFacts
  <2> QED
    BY <1>3, <2>2, <2>3
<1>8. CASE CreateCommit(r) \/ CloseCommit(r) \/ CounterCommit(r)
  BY <1>3, <1>8 DEF CreateCommit, CloseCommit, CounterCommit
<1>9. CASE PurchaseLockPlayer(r) \/ PurchaseClaimStation(r) \/ CreateCheckStation(r)
           \/ CreateCheckAsset(r)
  BY <1>2, <1>9 DEF PurchaseLockPlayer, PurchaseClaimStation, CreateCheckStation,
                    CreateCheckAsset, NothingCommitted
<1>10. CASE AcceptReadPlayer(r) \/ AcceptReadOffer(r) \/ AcceptLockPlayer(r)
            \/ AcceptClaimStation(r)
  BY <1>2, <1>10 DEF AcceptReadPlayer, AcceptReadOffer, AcceptLockPlayer,
                     AcceptClaimStation, NothingCommitted
<1>11. CASE AcceptReadBuyerFuel(r) \/ AcceptDrawFuel(r) \/ AcceptTakeOffer(r)
  BY <1>2, <1>11 DEF AcceptReadBuyerFuel, AcceptDrawFuel, AcceptTakeOffer, NothingCommitted
<1>12. CASE CloseReadOffer(r) \/ CounterSupersede(r)
  BY <1>2, <1>12 DEF CloseReadOffer, CounterSupersede, NothingCommitted
<1> QED
  BY <1>4, <1>5, <1>6, <1>7, <1>8, <1>9, <1>10, <1>11, <1>12
  DEF RequestStep, PurchaseSteps, CreateSteps, AcceptSteps, CloseSteps

\* A trade keeps the invariant: the request orders nothing, and the other requests
\* hold the rows of the players whose bills they have checked.
LEMMA TradeKeepsSupply ==
    ASSUME SupplyInv, NEW r \in Requests, TradeRequest(r)
    PROVE  SupplyInv'
<1>1. /\ Begin(r) \/ RequestStep(r) \/ Abort(r)
      /\ oreq[r].pc = "idle" /\ UNCHANGED supplyVars
  BY DEF TradeRequest
<1>2. IndInv'
  <2>1. Next
    BY <1>1 DEF Next
  <2> QED
    BY <2>1, NextOK DEF SupplyInv
<1>3. /\ \A t \in Requests \ {r} : held'[t] = held[t] /\ req'[t] = req[t]
      /\ \A p \in Players : PlayerRow(p) \notin held[r] => balance'[p] = balance[p]
  BY <1>1, TradeLocal DEF SupplyInv
<1>4. SupplyTypeOK'
  BY <1>1 DEF SupplyInv, SupplyTypeOK, supplyVars
<1>5. OneThing'
  BY <1>1, <1>3 DEF SupplyInv, OneThing, supplyVars
<1>6. ASSUME NEW t \in Requests PROVE BillOK(oreq[t], held[t])'
  <2>1. oreq'[t] = oreq[t] /\ stock' = stock /\ BillOK(oreq[t], held[t])
    BY <1>1 DEF SupplyInv, supplyVars
  <2>2. CASE t = r
    BY <1>1, <2>1, <2>2 DEF BillOK
  <2>3. CASE t # r
    <3>1. held'[t] = held[t] /\ held[t] \cap held[r] = {} /\ BillOK(oreq[t], held[t])
      BY <1>3, <2>3 DEF SupplyInv, IndInv, SessionsConsistent, Sessions
    <3>2. oreq[t].pc = "insert" => balance'[oreq[t].actor] = balance[oreq[t].actor]
      BY <1>3, <3>1 DEF BillOK
    <3> QED
      BY <2>1, <3>1, <3>2 DEF BillOK
  <2> QED
    BY <2>2, <2>3
<1> QED
  BY <1>2, <1>4, <1>5, <1>6 DEF SupplyInv

\* So do the expiry of offers and the end of the game, which write no balance.
LEMMA ExpiryKeepsSupply ==
    ASSUME SupplyInv, UNCHANGED supplyVars,
           (\E o \in Offers : Elapse(o)) \/ ExpireStep \/ ExpireAbort \/ FinishGame
    PROVE  SupplyInv'
<1>1. IndInv'
  <2>1. Next
    BY DEF Next
  <2> QED
    BY <2>1, NextOK DEF SupplyInv
<1>2. Tick \in Sessions /\ \A t \in Requests : t # Tick
  BY StoreAssumption DEF Sessions
<1>3. UNCHANGED <<balance, req>> /\ \A t \in Requests : held'[t] = held[t]
  BY <1>2 DEF SupplyInv, IndInv, TypeOK, Elapse, ExpireStep, ExpireSelect, ExpireFlush,
              ExpireCommit, ExpireAbort, FinishGame, Take, Release, Sessions
<1>4. SupplyTypeOK' /\ OneThing'
  BY <1>3 DEF SupplyInv, SupplyTypeOK, OneThing, supplyVars
<1>5. \A t \in Requests : BillOK(oreq[t], held[t])'
  BY <1>3 DEF SupplyInv, BillOK, supplyVars
<1> QED
  BY <1>1, <1>4, <1>5 DEF SupplyInv

-----------------------------------------------------------------------------
(* What orders and trucks leave of the trades' assumptions. *)

\* A request that trades nothing may take free rows, give up rows it holds, and
\* write the balances of the players whose rows it holds.
LEMMA TradesSurvive ==
    ASSUME IndInv, NEW r \in Requests, req[r].pc = "idle",
           NEW rows \in SUBSET Rows, NEW h \in SUBSET (held[r] \cup rows),
           \A row \in rows : row \in h => Free(r, row),
           held' = [held EXCEPT ![r] = h],
           balance' \in [Players -> Int], ledger' \in [Players -> Int],
           \A p \in Players : balance'[p] >= 0,
           \A p \in Players : PlayerRow(p) \notin held[r] => balance'[p] = balance[p],
           UNCHANGED <<gameStatus, owner, liters, tradeVars>>
    PROVE  IndInv'
<1>1. r \in Sessions /\ Requests \subseteq Sessions
  BY DEF Sessions
<1>2. /\ \A a, b \in Sessions : a # b => held'[a] \cap held'[b] = {}
      /\ held' \in [Sessions -> SUBSET Rows]
  BY <1>1, LocksStay DEF IndInv
<1>3. UNCHANGED <<offers, payments, req, due>>
  BY DEF tradeVars
<1>4. TypeOK'
  BY <1>2, <1>3 DEF IndInv, TypeOK
<1>5. (NoOverdraft /\ TanksNotOverdrawn /\ SettledOnce)'
  BY <1>3 DEF IndInv, NoOverdraft, TanksNotOverdrawn, SettledOnce
<1>6. ASSUME NEW t \in Requests
      PROVE  SessionOK(req[t], held[t])'
  <2>1. SessionOK(req[t], held[t])
    BY DEF IndInv, SessionsConsistent
  <2>2. CASE t = r
    BY <1>3, <2>1, <2>2 DEF SessionOK, PurchaseOK, AcceptOK, CounterOK
  <2>3. CASE t # r
    <3>1. held'[t] = held[t] /\ held[t] \cap held[r] = {}
      BY <1>1, <2>3 DEF IndInv, TypeOK, SessionsConsistent
    <3>2. \A p \in Players : PlayerRow(p) \in held[t] => balance'[p] = balance[p]
      BY <3>1
    <3>3. \A o \in Offers : KeepsTerms(o)
      BY <1>3 DEF KeepsTerms, Exists
    <3> QED
      BY <1>3, <2>1, <3>1, <3>2, <3>3, OthersOK DEF IndInv
  <2> QED
    BY <2>2, <2>3
<1>7. \A o \in due' : Exists(o)'
  BY <1>3 DEF IndInv, SessionsConsistent, Exists
<1> QED
  BY <1>2, <1>4, <1>5, <1>6, <1>7 DEF IndInv, SessionsConsistent

\* A truck tick takes no row of a request, and only adds to the tanks: a seller who
\* has drawn from a tank still finds the liters there.
LEMMA TradesSurviveTick ==
    ASSUME IndInv, held' \in [Sessions -> SUBSET Rows],
           \A a, b \in Sessions : a # b => held'[a] \cap held'[b] = {},
           \A t \in Requests : held'[t] = held[t],
           liters' \in [Stations -> Int], \A s \in Stations : liters'[s] >= liters[s],
           UNCHANGED <<gameStatus, balance, ledger, owner, tradeVars>>
    PROVE  IndInv'
<1>1. UNCHANGED <<offers, payments, req, due>>
  BY DEF tradeVars
<1>2. TypeOK'
  BY <1>1 DEF IndInv, TypeOK
<1>3. (NoOverdraft /\ TanksNotOverdrawn /\ SettledOnce)'
  BY <1>1 DEF IndInv, NoOverdraft, TanksNotOverdrawn, SettledOnce, TypeOK
<1>4. ASSUME NEW t \in Requests
      PROVE  SessionOK(req[t], held[t])'
  <2>1. SessionOK(req[t], held[t]) /\ req'[t] = req[t] /\ held'[t] = held[t]
    BY <1>1 DEF IndInv, SessionsConsistent
  <2>2. PurchaseOK(req[t], held[t]) => PurchaseOK(req[t], held[t])'
    BY <1>1, <2>1 DEF PurchaseOK
  <2>3. CounterOK(req[t], held[t]) => CounterOK(req[t], held[t])'
    BY <1>1, <2>1 DEF CounterOK, Exists
  <2>4. ASSUME req[t].op = "accept", AcceptOK(req[t], held[t])
        PROVE  AcceptOK(req[t], held[t])'
    <3> DEFINE d == offers[req[t].offer]
    <3>1. req[t].pc \in {"claimed", "taken"} =>
            d.station \in Stations /\ d.liters \in Int /\ liters[d.station] \in Int
      <4> SUFFICES ASSUME req[t].pc \in {"claimed", "taken"}
                   PROVE  d.station \in Stations /\ d.liters \in Int /\ liters[d.station] \in Int
        OBVIOUS
      <4>1. req[t].offer \in Offers /\ d # NoOffer
        BY <2>4 DEF AcceptOK, Exists
      <4>2. offers \in [Offers -> OfferRecords \cup {NoOffer}]
            /\ liters \in [Stations -> Int]
        BY DEF IndInv, TypeOK
      <4>3. d \in OfferRecords
        BY <4>1, <4>2
      <4> HIDE DEF d
      <4>4. d.station \in Stations /\ d.liters \in Volumes \cup {0}
        BY <4>3 DEF OfferRecords
      <4>5. \A v \in Volumes \cup {0} : v \in Int
        BY TradingAssumption
      <4> QED
        BY <4>2, <4>4, <4>5
    <3>2. req[t].pc \in {"claimed", "taken"} /\ liters[d.station] >= d.liters =>
            liters'[d.station] >= d.liters
      <4> HIDE DEF d
      <4> QED
        BY <3>1
    <3> QED
      BY <1>1, <2>1, <2>4, <3>2 DEF AcceptOK, Exists
  <2> QED
    BY <2>1, <2>2, <2>3, <2>4 DEF SessionOK
<1>5. \A o \in due' : Exists(o)'
  BY <1>1 DEF IndInv, SessionsConsistent, Exists
<1> QED
  BY <1>2, <1>3, <1>4, <1>5 DEF IndInv, SessionsConsistent

-----------------------------------------------------------------------------
(* The statements of orders and incidents. *)

\* No statement of an order or incident trades, so a request still does one thing.
LEMMA StillOneThing ==
    ASSUME OneThing, SupplyTypeOK, UNCHANGED req,
           NEW r \in Requests, req[r].pc = "idle",
           NEW q, oreq' = [oreq EXCEPT ![r] = q]
    PROVE  OneThing'
BY DEF OneThing, SupplyTypeOK

LEMMA ProceedKeepsSupply ==
    ASSUME SupplyInv, NEW r \in Requests, req[r].pc = "idle",
           NEW check \in BOOLEAN, NEW rows \in SUBSET Rows, NEW next \in OrderSessions,
           check => BillOK(next, held[r] \cup rows),
           check => \A row \in rows : Free(r, row),
           Proceed(r, check, rows, next),
           NoRowWritten, UNCHANGED tradeVars
    PROVE  SupplyInv'
<1> DEFINE q == IF check THEN next ELSE IdleOrder
           h == IF check THEN held[r] \cup rows ELSE {}
<1>1. r \in Sessions
  BY DEF Sessions
<1>2. /\ oreq' = [oreq EXCEPT ![r] = q]
      /\ held' = [held EXCEPT ![r] = h]
      /\ held \in [Sessions -> SUBSET Rows]
  BY <1>1 DEF Proceed, SupplyInv, SupplyTypeOK, IndInv, TypeOK
<1>3. q \in OrderSessions /\ BillOK(q, h)
  <2>1. IdleOrder \in OrderSessions /\ BillOK(IdleOrder, {})
    BY IdleBill
  <2> QED
    BY <2>1
<1>4. IndInv'
  <2>1. h \in SUBSET (held[r] \cup rows) /\ \A row \in rows : row \in h => Free(r, row)
    OBVIOUS
  <2>2. /\ balance \in [Players -> Int] /\ ledger \in [Players -> Int]
        /\ \A p \in Players : balance[p] >= 0
    BY DEF SupplyInv, IndInv, TypeOK, NoOverdraft
  <2>3. UNCHANGED <<gameStatus, balance, ledger, owner, liters, tradeVars>>
    BY DEF NoRowWritten
  <2> HIDE DEF h, q
  <2> QED
    BY <1>2, <2>1, <2>2, <2>3, TradesSurvive DEF SupplyInv
<1>5. SupplyTypeOK'
  BY <1>2, <1>3 DEF SupplyInv, SupplyTypeOK, NoRowWritten
<1>6. OneThing'
  BY <1>2, StillOneThing DEF SupplyInv, tradeVars
<1>7. ASSUME NEW t \in Requests PROVE BillOK(oreq[t], held[t])'
  <2>1. CASE t = r
    <3>1. oreq'[t] = q /\ held'[t] = h
      BY <1>1, <1>2, <2>1 DEF SupplyInv, SupplyTypeOK
    <3>2. balance' = balance /\ stock' = stock
      BY DEF NoRowWritten
    <3> HIDE DEF q, h
    <3> QED
      BY <1>3, <3>1, <3>2 DEF BillOK
  <2>2. CASE t # r
    BY <1>1, <1>2, <2>2 DEF SupplyInv, SupplyTypeOK, BillOK, NoRowWritten, Sessions
  <2> QED
    BY <2>1, <2>2
<1> QED
  BY <1>4, <1>5, <1>6, <1>7 DEF SupplyInv

\* The statements of an order that commit nothing.
LEMMA OrderKeepsSupply ==
    ASSUME SupplyInv, NEW r \in Requests, req[r].pc = "idle", UNCHANGED tradeVars,
           \/ OrderBegin(r) \/ OrderLockPlayer(r) \/ OrderCheckStation(r)
           \/ OrderLockTank(r) \/ OrderLockRefinery(r) \/ OrderCheckFunds(r)
           \/ OrderAbort(r) \/ IncidentRead(r)
    PROVE  SupplyInv'
<1>1. /\ oreq[r] \in OrderSessions /\ BillOK(oreq[r], held[r])
      /\ IdleOrder \in OrderSessions
      /\ r \in Sessions /\ held \in [Sessions -> SUBSET Rows]
  BY IdleBill DEF SupplyInv, SupplyTypeOK, IndInv, TypeOK, Sessions
<1>2. /\ \A p \in Players : PlayerRow(p) \in Rows
      /\ \A s \in Stations : FuelRow(s) \in Rows
      /\ RefineryRow \in Rows
  BY RowTypes DEF Rows
<1>3. CASE OrderBegin(r)
  <2>1. PICK p \in Players, load \in Loads :
          /\ Total(load) \in 1 .. TruckCapacity
          /\ oreq' = [oreq EXCEPT ![r] =
                       [IdleOrder EXCEPT !.pc = "player", !.actor = p,
                          !.stops = load, !.total = Total(load)]]
    BY <1>3 DEF OrderBegin
  <2> DEFINE next == [IdleOrder EXCEPT !.pc = "player", !.actor = p,
                        !.stops = load, !.total = Total(load)]
  <2>2. Total(load) \in 0 .. TruckCapacity
    BY <2>1, FuelOrdersAssumption
  <2>3. next \in OrderSessions /\ BillOK(next, held[r] \cup {})
    <3>1. next \in OrderSessions
      BY <1>1, <2>2 DEF IdleOrder, OrderSessions, OrderPcs
    <3>2. next.pc = "player" /\ next.actor = p /\ next.seen = 0
      BY DEF IdleOrder
    <3> HIDE DEF next
    <3> QED
      BY <3>1, <3>2 DEF BillOK
  <2>4. Proceed(r, TRUE, {}, next) /\ NoRowWritten
    <3>1. held' = [held EXCEPT ![r] = @ \cup {}]
      BY <1>1, <1>3 DEF OrderBegin
    <3> QED
      BY <1>3, <2>1, <3>1 DEF Proceed, OrderBegin
  <2> HIDE DEF next
  <2> QED
    BY <2>3, <2>4, ProceedKeepsSupply
<1>4. CASE IncidentRead(r)
  <2> DEFINE next == [IdleOrder EXCEPT !.pc = "spoil", !.seen = stock]
  <2>1. stock \in Int /\ stock >= 0
    BY DEF SupplyInv, SupplyTypeOK
  <2>2. next \in OrderSessions /\ BillOK(next, held[r] \cup {})
    <3>1. next \in OrderSessions
      BY <1>1, <2>1 DEF IdleOrder, OrderSessions, OrderPcs
    <3>2. next.pc = "spoil" /\ next.seen = stock
      BY DEF IdleOrder
    <3> HIDE DEF next
    <3> QED
      BY <2>1, <3>1, <3>2 DEF BillOK
  <2>3. Proceed(r, TRUE, {}, next) /\ NoRowWritten
    <3>1. held' = [held EXCEPT ![r] = @ \cup {}]
      BY <1>1, <1>4 DEF IncidentRead
    <3> QED
      BY <1>4, <3>1 DEF Proceed, IncidentRead
  <2> HIDE DEF next
  <2> QED
    BY <2>2, <2>3, ProceedKeepsSupply
<1>5. CASE OrderAbort(r)
  BY <1>1, <1>5, ProceedKeepsSupply DEF OrderAbort
<1>6. CASE OrderLockPlayer(r)
  <2> DEFINE rows == {PlayerRow(oreq[r].actor)}
             next == [oreq[r] EXCEPT !.pc = "stations", !.todo = Stops(oreq[r].stops)]
  <2>1. oreq[r].actor \in Players
    BY <1>1, <1>6 DEF OrderLockPlayer, BillOK
  <2>2. rows \in SUBSET Rows
    BY <1>2, <2>1
  <2>3. next \in OrderSessions /\ BillOK(next, held[r] \cup rows)
    BY <1>1, <2>1 DEF OrderSessions, OrderPcs, Stops, BillOK
  <2>4. Proceed(r, TRUE, rows, next) /\ NoRowWritten /\ \A row \in rows : Free(r, row)
    BY <1>6 DEF OrderLockPlayer
  <2> HIDE DEF next, rows
  <2> QED
    BY <2>2, <2>3, <2>4, ProceedKeepsSupply
<1>7. CASE OrderCheckStation(r)
  <2>1. PICK s \in oreq[r].todo :
          LET rest == oreq[r].todo \ {s}
          IN Proceed(r, owner[s] = oreq[r].actor, {},
                     [oreq[r] EXCEPT
                        !.pc   = IF rest = {} THEN "tanks" ELSE "stations",
                        !.todo = IF rest = {} THEN Stops(oreq[r].stops) ELSE rest])
    BY <1>7 DEF OrderCheckStation
  <2> DEFINE rest == oreq[r].todo \ {s}
             next == [oreq[r] EXCEPT
                        !.pc   = IF rest = {} THEN "tanks" ELSE "stations",
                        !.todo = IF rest = {} THEN Stops(oreq[r].stops) ELSE rest]
  <2>2. next \in OrderSessions /\ BillOK(next, held[r] \cup {})
    BY <1>1, <1>7 DEF OrderSessions, OrderPcs, Stops, BillOK, OrderCheckStation
  <2>3. Proceed(r, owner[s] = oreq[r].actor, {}, next) /\ NoRowWritten
    BY <1>7, <2>1 DEF OrderCheckStation
  <2> HIDE DEF next
  <2> QED
    BY <2>2, <2>3, ProceedKeepsSupply
<1>8. CASE OrderLockTank(r)
  <2>1. PICK s \in oreq[r].todo :
          LET rest == oreq[r].todo \ {s}
          IN /\ Free(r, FuelRow(s))
             /\ Proceed(r, rest = {} => RoomFor(oreq[r].stops), {FuelRow(s)},
                        [oreq[r] EXCEPT
                           !.pc   = IF rest = {} THEN "refinery" ELSE "tanks",
                           !.todo = rest])
    BY <1>8 DEF OrderLockTank
  <2> DEFINE rest == oreq[r].todo \ {s}
             check == rest = {} => RoomFor(oreq[r].stops)
             rows == {FuelRow(s)}
             next == [oreq[r] EXCEPT
                        !.pc   = IF rest = {} THEN "refinery" ELSE "tanks",
                        !.todo = rest]
  <2>2. s \in Stations
    BY <1>1 DEF OrderSessions
  <2>3. rows \in SUBSET Rows
    BY <1>2, <2>2
  <2>4. next \in OrderSessions /\ BillOK(next, held[r] \cup rows)
    BY <1>1, <1>8 DEF OrderSessions, OrderPcs, BillOK, OrderLockTank
  <2>5. /\ Proceed(r, check, rows, next) /\ NoRowWritten
        /\ \A row \in rows : Free(r, row)
        /\ check \in BOOLEAN
    BY <1>8, <2>1 DEF OrderLockTank
  <2> HIDE DEF next, rows, check
  <2> QED
    BY <2>3, <2>4, <2>5, ProceedKeepsSupply
<1>9. CASE OrderLockRefinery(r)
  <2> DEFINE rows == {RefineryRow}
             next == [oreq[r] EXCEPT !.pc = "funds"]
  <2>1. rows \in SUBSET Rows
    BY <1>2
  <2>2. /\ next \in OrderSessions
        /\ stock >= oreq[r].total => BillOK(next, held[r] \cup rows)
    BY <1>1, <1>9 DEF OrderSessions, OrderPcs, BillOK, OrderLockRefinery
  <2>3. /\ Proceed(r, stock >= oreq[r].total, rows, next)
        /\ NoRowWritten
        /\ \A row \in rows : Free(r, row)
    BY <1>9 DEF OrderLockRefinery
  <2>4. (stock >= oreq[r].total) \in BOOLEAN
    BY <1>1 DEF OrderSessions, SupplyInv, SupplyTypeOK
  <2> HIDE DEF next, rows
  <2> QED
    BY <2>1, <2>2, <2>3, <2>4, ProceedKeepsSupply
<1>10. CASE OrderCheckFunds(r)
  <2>1. PICK price \in UnitPrices, delivery \in DeliveryCosts :
          LET cost == price * oreq[r].total + delivery
          IN Proceed(r, balance[oreq[r].actor] >= cost, {},
                     [oreq[r] EXCEPT !.pc = "insert", !.cost = cost])
    BY <1>10 DEF OrderCheckFunds
  <2> DEFINE cost == price * oreq[r].total + delivery
             next == [oreq[r] EXCEPT !.pc = "insert", !.cost = cost]
             check == balance[oreq[r].actor] >= cost
  <2>2. cost \in Nat
    <3>1. price \in Nat /\ delivery \in Nat /\ oreq[r].total \in Nat
      BY <1>1, FuelOrdersAssumption DEF OrderSessions
    <3>2. \A a, b, c \in Nat : a * b + c \in Nat
      OBVIOUS
    <3> QED
      BY <3>1, <3>2
  <2> HIDE DEF cost
  <2>3. next \in OrderSessions
    BY <1>1, <2>2 DEF OrderSessions, OrderPcs
  <2>4. check => BillOK(next, held[r] \cup {})
    BY <1>1, <1>10 DEF OrderSessions, BillOK, OrderCheckFunds
  <2>5. Proceed(r, check, {}, next) /\ NoRowWritten
    BY <1>10, <2>1 DEF OrderCheckFunds, cost
  <2>6. check \in BOOLEAN
    <3>1. balance[oreq[r].actor] \in Int
      BY <1>1, <1>10 DEF SupplyInv, IndInv, TypeOK, BillOK, OrderCheckFunds
    <3> QED
      BY <2>2, <3>1
  <2> HIDE DEF next, check
  <2> QED
    BY <2>3, <2>4, <2>5, <2>6, ProceedKeepsSupply
<1> QED
  BY <1>3, <1>4, <1>5, <1>6, <1>7, <1>8, <1>9, <1>10

\* The payment of an order: its bill is covered, and nobody else has relied on the
\* money, since the session holds the player's row.
LEMMA PaymentKeepsSupply ==
    ASSUME SupplyInv, NEW r \in Requests, req[r].pc = "idle", UNCHANGED tradeVars,
           OrderCommit(r)
    PROVE  SupplyInv'
<1> DEFINE q == oreq[r]
<1>1. /\ q \in OrderSessions /\ BillOK(q, held[r]) /\ q.pc = "insert"
      /\ r \in Sessions /\ held \in [Sessions -> SUBSET Rows]
  BY DEF SupplyInv, SupplyTypeOK, IndInv, TypeOK, OrderCommit, Sessions
<1>2. /\ q.actor \in Players /\ q.cost \in Nat /\ q.total \in 0 .. TruckCapacity
      /\ q.stops \in Loads
      /\ PlayerRow(q.actor) \in held[r]
      /\ balance[q.actor] >= q.cost
      /\ RefineryRow \in held[r] /\ stock >= q.total
  BY <1>1 DEF BillOK, OrderSessions
<1>3. /\ balance' = [balance EXCEPT ![q.actor] = @ - q.cost]
      /\ ledger' = [ledger EXCEPT ![q.actor] = @ + -q.cost]
      /\ held' = [held EXCEPT ![r] = {}]
      /\ stock' = stock - q.total
      /\ oreq' = [oreq EXCEPT ![r] = IdleOrder]
      /\ UNCHANGED <<gameStatus, owner, liters, moving, drops, unload>>
  BY DEF OrderCommit, Post, Release
<1>4. PICK o \in Orders :
        /\ ~Placed(o)
        /\ orders' = [orders EXCEPT ![o] =
              [status |-> "IN_TRANSIT", player |-> q.actor, cost |-> q.cost,
               stops |-> q.stops, pending |-> Stops(q.stops)]]
  BY DEF OrderCommit
<1> HIDE DEF q
<1>5. /\ balance' \in [Players -> Int] /\ ledger' \in [Players -> Int]
      /\ \A p \in Players : balance'[p] >= 0
      /\ \A p \in Players : PlayerRow(p) \notin held[r] => balance'[p] = balance[p]
  BY <1>2, <1>3 DEF SupplyInv, IndInv, TypeOK, NoOverdraft
<1>6. IndInv'
  <2>1. {} \in SUBSET Rows /\ {} \in SUBSET (held[r] \cup {})
    OBVIOUS
  <2> QED
    BY <1>3, <1>5, <2>1, TradesSurvive DEF SupplyInv
<1>7. SupplyTypeOK'
  <2>1. [status |-> "IN_TRANSIT", player |-> q.actor, cost |-> q.cost,
         stops |-> q.stops, pending |-> Stops(q.stops)] \in OrderRecords
    BY <1>2 DEF OrderRecords, Stops
  <2>2. orders' \in [Orders -> OrderRecords \cup {NoOrder}]
    BY <1>4, <2>1 DEF SupplyInv, SupplyTypeOK
  <2>3. moving' \subseteq {x \in Orders : orders'[x].status = "IN_TRANSIT"}
    BY <1>3, <1>4 DEF SupplyInv, SupplyTypeOK
  <2>4. oreq' \in [Requests -> OrderSessions]
    BY <1>3, IdleBill DEF SupplyInv, SupplyTypeOK
  <2>5. stock' \in Nat
    BY <1>2, <1>3, FuelOrdersAssumption DEF SupplyInv, SupplyTypeOK
  <2> QED
    BY <1>3, <2>2, <2>3, <2>4, <2>5 DEF SupplyInv, SupplyTypeOK
<1>8. OneThing'
  BY <1>3, StillOneThing DEF SupplyInv, tradeVars
<1>9. ASSUME NEW t \in Requests PROVE BillOK(oreq[t], held[t])'
  <2>1. CASE t = r
    <3>1. oreq'[t] = IdleOrder
      BY <1>3, <2>1 DEF SupplyInv, SupplyTypeOK
    <3> QED
      BY <3>1 DEF BillOK, IdleOrder
  <2>2. CASE t # r
    <3>1. oreq'[t] = oreq[t] /\ held'[t] = held[t] /\ held[t] \cap held[r] = {}
      BY <1>1, <1>3, <2>2
      DEF SupplyInv, SupplyTypeOK, IndInv, SessionsConsistent, Sessions
    <3>2. BillOK(oreq[t], held[t])
      BY DEF SupplyInv
    <3>3. oreq[t].pc = "insert" => balance'[oreq[t].actor] = balance[oreq[t].actor]
      BY <1>5, <3>1, <3>2 DEF BillOK
    <3>4. RefineryRow \notin held[t]
      BY <1>2, <3>1
    <3> QED
      BY <3>1, <3>2, <3>3, <3>4 DEF BillOK
  <2> QED
    BY <2>1, <2>2
<1> QED
  BY <1>6, <1>7, <1>8, <1>9 DEF SupplyInv

LEMMA SpoilKeepsSupply ==
    ASSUME SupplyInv, NEW r \in Requests, req[r].pc = "idle", UNCHANGED tradeVars,
           IncidentCommit(r)
    PROVE  SupplyInv'
<1>1. /\ oreq[r] \in OrderSessions
      /\ r \in Sessions /\ held \in [Sessions -> SUBSET Rows]
  BY DEF SupplyInv, SupplyTypeOK, IndInv, TypeOK, Sessions
<1>2. /\ held' = [held EXCEPT ![r] = {}]
      /\ oreq' = [oreq EXCEPT ![r] = IdleOrder]
      /\ stock' = Remaining(oreq[r].seen)
      /\ UNCHANGED <<gameStatus, balance, ledger, owner, liters, reserved, orders,
                     moving, drops, unload>>
  BY DEF IncidentCommit, Release
<1>3. stock' \in Nat
  <2>1. oreq[r].seen \in Nat /\ PercentKept \in Nat
    BY <1>1, FuelOrdersAssumption DEF OrderSessions, SupplyInv, BillOK
  <2>2. \A a, b \in Nat : (a * b + 50) \div 100 \in Nat
    OBVIOUS
  <2> QED
    BY <1>2, <2>1, <2>2 DEF Remaining
<1>4. IndInv'
  <2>1. /\ {} \in SUBSET Rows /\ {} \in SUBSET (held[r] \cup {})
        /\ balance \in [Players -> Int] /\ ledger \in [Players -> Int]
        /\ \A p \in Players : balance[p] >= 0
    BY DEF SupplyInv, IndInv, TypeOK, NoOverdraft
  <2> QED
    BY <1>2, <2>1, TradesSurvive DEF SupplyInv
<1>5. SupplyTypeOK'
  BY <1>2, <1>3, IdleBill DEF SupplyInv, SupplyTypeOK
<1>6. OneThing'
  BY <1>2, StillOneThing DEF SupplyInv, tradeVars
<1>7. ASSUME NEW t \in Requests PROVE BillOK(oreq[t], held[t])'
  <2>1. CASE t = r
    <3>1. oreq'[t] = IdleOrder
      BY <1>2, <2>1 DEF SupplyInv, SupplyTypeOK
    <3> QED
      BY <3>1 DEF BillOK, IdleOrder
  <2>2. CASE t # r
    <3>1. RefineryRow \notin held[t]
      BY <2>2 DEF IncidentCommit, Free, Sessions
    <3> QED
      BY <1>1, <1>2, <2>2, <3>1 DEF SupplyInv, SupplyTypeOK, BillOK, Sessions
  <2> QED
    BY <2>1, <2>2
<1> QED
  BY <1>4, <1>5, <1>6, <1>7 DEF SupplyInv

-----------------------------------------------------------------------------
(* The truck tick. *)

LEMMA TickKeepsSupply ==
    ASSUME SupplyInv, SupplyTypeOK', held' \in [Sessions -> SUBSET Rows],
           \A a, b \in Sessions : a # b => held'[a] \cap held'[b] = {},
           \A t \in Requests : held'[t] = held[t],
           liters' \in [Stations -> Int], \A s \in Stations : liters'[s] >= liters[s],
           UNCHANGED <<gameStatus, balance, ledger, owner, tradeVars, oreq, stock>>
    PROVE  SupplyInv'
<1>1. IndInv'
  BY TradesSurviveTick DEF SupplyInv
<1>2. OneThing'
  BY DEF SupplyInv, OneThing, tradeVars
<1>3. \A t \in Requests : BillOK(oreq[t], held[t])'
  BY DEF SupplyInv, BillOK
<1> QED
  BY <1>1, <1>2, <1>3 DEF SupplyInv

LEMMA TruckKeepsSupply ==
    ASSUME SupplyInv, TruckTick, UNCHANGED tradeVars
    PROVE  SupplyInv'
<1>1. /\ Tick \in Sessions /\ \A t \in Requests : t # Tick
      /\ Requests \subseteq Sessions
      /\ held \in [Sessions -> SUBSET Rows]
      /\ \A a, b \in Sessions : a # b => held[a] \cap held[b] = {}
      /\ liters \in [Stations -> Int]
  BY StoreAssumption DEF SupplyInv, IndInv, TypeOK, SessionsConsistent, Sessions
<1>2. UNCHANGED <<gameStatus, balance, ledger, owner, oreq, stock>>
  BY DEF TruckTick, TruckSelect, TruckUnload, TruckCommit, TruckAbort
<1>3. NoLoad \in [Stations -> Nat]
  BY DEF NoLoad
<1>4. CASE TruckSelect
  <2>1. SupplyTypeOK'
    BY <1>4 DEF SupplyInv, SupplyTypeOK, TruckSelect
  <2>2. UNCHANGED <<held, liters>>
    BY <1>4 DEF TruckSelect
  <2> QED
    BY <1>1, <1>2, <2>1, <2>2, TickKeepsSupply
<1>5. CASE TruckAbort
  <2>1. held' = [held EXCEPT ![Tick] = {}] /\ UNCHANGED liters
    BY <1>5 DEF TruckAbort, Release
  <2>2. SupplyTypeOK'
    BY <1>3, <1>5 DEF SupplyInv, SupplyTypeOK, TruckAbort
  <2> QED
    BY <1>1, <1>2, <2>1, <2>2, TickKeepsSupply
<1>6. CASE TruckUnload
  <2>1. PICK o \in moving : \E s \in orders[o].pending :
          /\ Free(Tick, FuelRow(s))
          /\ Take(Tick, {FuelRow(s)})
          /\ unload' = [unload EXCEPT ![s] = @ + orders[o].stops[s]]
    BY <1>6 DEF TruckUnload
  <2>2. PICK s \in orders[o].pending :
          /\ Free(Tick, FuelRow(s))
          /\ Take(Tick, {FuelRow(s)})
          /\ unload' = [unload EXCEPT ![s] = @ + orders[o].stops[s]]
    BY <2>1
  <2>3. orders[o] \in OrderRecords
    BY DEF SupplyInv, SupplyTypeOK, NoOrder
  <2>4. s \in Stations /\ orders[o].stops[s] \in Nat
    <3>1. s \in Stations /\ orders[o].stops \in [Stations -> OrderVolumes \cup {0}]
      BY <2>3 DEF OrderRecords, Loads
    <3>2. \A v \in OrderVolumes \cup {0} : v \in Nat
      BY FuelOrdersAssumption
    <3> QED
      BY <3>1, <3>2
  <2>5. held' = [held EXCEPT ![Tick] = @ \cup {FuelRow(s)}]
    BY <2>2 DEF Take
  <2>6. FuelRow(s) \in Rows /\ \A t \in Sessions \ {Tick} : FuelRow(s) \notin held[t]
    BY <2>2, <2>4, RowTypes DEF Free
  <2>7. UNCHANGED <<liters, orders, moving>>
    BY <1>6 DEF TruckUnload
  <2>8. SupplyTypeOK'
    <3>1. unload' \in [Stations -> Nat]
      BY <2>2, <2>4 DEF SupplyInv, SupplyTypeOK
    <3> QED
      BY <1>2, <2>7, <3>1 DEF SupplyInv, SupplyTypeOK
  <2>9. /\ held' \in [Sessions -> SUBSET Rows]
        /\ \A a, b \in Sessions : a # b => held'[a] \cap held'[b] = {}
        /\ \A t \in Requests : held'[t] = held[t]
    BY <1>1, <2>5, <2>6
  <2> QED
    BY <1>1, <1>2, <2>7, <2>8, <2>9, TickKeepsSupply
<1>7. CASE TruckCommit
  <2>1. /\ held' = [held EXCEPT ![Tick] = {}]
        /\ liters' = [s \in Stations |-> liters[s] + unload[s]]
        /\ moving' = {} /\ unload' = NoLoad
    BY <1>7 DEF TruckCommit, Release
  <2>2. \A s \in Stations : unload[s] \in Nat /\ liters[s] \in Int
    BY <1>1 DEF SupplyInv, SupplyTypeOK
  <2>3. /\ liters' \in [Stations -> Int]
        /\ \A s \in Stations : liters'[s] >= liters[s]
    BY <2>1, <2>2
  <2>4. orders' \in [Orders -> OrderRecords \cup {NoOrder}]
    <3>1. PICK arrived \in SUBSET {o \in moving : Left(o) = {}} :
            orders' = [o \in Orders |->
              IF o \in moving
                THEN [orders[o] EXCEPT !.pending = Left(o),
                        !.status = IF o \in arrived THEN "DELIVERED" ELSE @]
                ELSE orders[o]]
      BY <1>7 DEF TruckCommit
    <3>2. ASSUME NEW o \in moving
          PROVE  [orders[o] EXCEPT !.pending = Left(o),
                    !.status = IF o \in arrived THEN "DELIVERED" ELSE @] \in OrderRecords
      <4>1. orders[o] \in OrderRecords
        BY DEF SupplyInv, SupplyTypeOK, NoOrder
      <4>2. Left(o) \subseteq orders[o].pending
        BY DEF Left
      <4> QED
        BY <4>1, <4>2 DEF OrderRecords
    <3> QED
      BY <3>1, <3>2 DEF SupplyInv, SupplyTypeOK
  <2>5. SupplyTypeOK'
    BY <1>2, <1>3, <2>1, <2>4 DEF SupplyInv, SupplyTypeOK
  <2> QED
    BY <1>1, <1>2, <2>1, <2>3, <2>5, TickKeepsSupply
<1> QED
  BY <1>4, <1>5, <1>6, <1>7 DEF TruckTick

-----------------------------------------------------------------------------
LEMMA SupplyNext == SupplyInv /\ [BothNext]_allVars => SupplyInv'
<1> SUFFICES ASSUME SupplyInv, [BothNext]_allVars
             PROVE  SupplyInv'
  OBVIOUS
<1>1. ASSUME NEW r \in Requests, TradeRequest(r)
      PROVE  SupplyInv'
  BY <1>1, TradeKeepsSupply
<1>2. ASSUME NEW r \in Requests, OrderRequest(r)
      PROVE  SupplyInv'
  BY <1>2, OrderKeepsSupply, PaymentKeepsSupply, SpoilKeepsSupply
  DEF OrderRequest, OrderSteps
<1>3. CASE \E o \in Offers : Elapse(o) /\ UNCHANGED supplyVars
  BY <1>3, ExpiryKeepsSupply
<1>4. CASE SchedulerStep
  BY <1>4, ExpiryKeepsSupply, TruckKeepsSupply DEF SchedulerStep
<1>5. CASE UNCHANGED allVars
  <2>1. UNCHANGED <<vars, supplyVars>>
    BY <1>5 DEF allVars, tradeVars, vars
  <2>2. IndInv'
    BY <2>1, NextOK DEF SupplyInv
  <2> QED
    BY <2>1, <2>2 DEF SupplyInv, SupplyTypeOK, OneThing, BillOK, supplyVars, vars
<1> QED
  BY <1>1, <1>2, <1>3, <1>4, <1>5 DEF BothNext

\* What each session of a trade or an order may rely on because of its locks, and
\* that no balance, no tank and no stock falls below zero, hold in every state.
THEOREM SupplyInductive == BothSpec => []SupplyInv
BY SupplyStart, SupplyNext, PTL DEF BothSpec

\* Trades, fuel orders, truck ticks and incidents never overdraw a balance or a tank
\* they share, however their statements interleave.
THEOREM NothingIsOverdrawn == BothSpec => []NothingOverdrawn
<1>1. SupplyInv => NothingOverdrawn
  BY DEF SupplyInv, IndInv, NoOverdraft, TanksNotOverdrawn, NothingOverdrawn
<1> QED
  BY <1>1, SupplyInductive, PTL

\* What FuelOrders promises of the refinery's stock stays true beside the trades, and
\* what Trading promises of offers and locks stays true beside orders and trucks.
THEOREM PromisesSurvive ==
    BothSpec => [](StockNotOversold /\ SettledOnce /\ SessionsConsistent)
<1>1. SupplyInv => StockNotOversold /\ SettledOnce /\ SessionsConsistent
  BY DEF SupplyInv, SupplyTypeOK, IndInv, StockNotOversold
<1> QED
  BY <1>1, SupplyInductive, PTL

\* Beside orders and trucks, too, a station changes hands only by a purchase that found
\* it unowned or by the paid sale of a pending offer of its owner.
THEOREM OwnersChangeBySaleOnly == BothSpec => OwnershipChain
<1>1. SupplyInv /\ [BothNext]_allVars => [OwnersChange]_vars
  <2> SUFFICES ASSUME SupplyInv, [BothNext]_allVars
               PROVE  [OwnersChange]_vars
    OBVIOUS
  <2>1. CASE [Next]_vars
    BY <2>1, StepChangesOwner DEF SupplyInv
  <2>2. CASE UNCHANGED owner
    BY <2>2 DEF OwnersChange
  <2>3. ASSUME NEW r \in Requests, TradeRequest(r)
        PROVE  [Next]_vars
    BY <2>3 DEF TradeRequest, Next
  <2>4. ASSUME NEW r \in Requests, OrderRequest(r)
        PROVE  UNCHANGED owner
    BY <2>4 DEF OrderRequest, OrderSteps, OrderBegin, OrderLockPlayer, OrderCheckStation,
                OrderLockTank, OrderLockRefinery, OrderCheckFunds, OrderCommit, OrderAbort,
                IncidentRead, IncidentCommit, NoRowWritten
  <2>5. CASE \E o \in Offers : Elapse(o) /\ UNCHANGED supplyVars
    BY <2>1, <2>5 DEF Next
  <2>6. CASE SchedulerStep
    <3>1. CASE TruckTick
      BY <2>2, <3>1 DEF TruckTick, TruckSelect, TruckUnload, TruckCommit, TruckAbort
    <3>2. CASE ExpireStep \/ ExpireAbort \/ FinishGame
      BY <2>1, <3>2 DEF Next
    <3> QED
      BY <2>6, <3>1, <3>2 DEF SchedulerStep
  <2>7. CASE UNCHANGED allVars
    BY <2>2, <2>7 DEF allVars
  <2> QED
    BY <2>1, <2>2, <2>3, <2>4, <2>5, <2>6, <2>7 DEF BothNext
<1> QED
  BY <1>1, SupplyInductive, PTL DEF BothSpec, OwnershipChain
=============================================================================
