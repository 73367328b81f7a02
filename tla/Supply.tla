------------------------------- MODULE Supply -------------------------------
(***************************************************************************)
(* Trade offers, fuel orders and truck ticks on the rows they share: the   *)
(* balances, the tanks and the locks.  A request does one thing; the       *)
(* scheduler runs its steps one after the other.                           *)
(***************************************************************************)
EXTENDS Trading, FuelOrders

ASSUME SupplyAssumption == StartOwner = OrderOwner

allVars == <<gameStatus, balance, ledger, owner, liters, held,
             tradeVars, supplyVars>>

BothInit == Init /\ SupplyInit

TradeRequest(r) ==
    /\ oreq[r].pc = "idle"
    /\ Begin(r) \/ RequestStep(r) \/ Abort(r)
    /\ UNCHANGED supplyVars

OrderRequest(r) ==
    /\ req[r].pc = "idle"
    /\ OrderSteps(r)
    /\ UNCHANGED tradeVars

\* The steps of a tick cycle follow each other: maybe_finish_game, the trucks,
\* the expiry of offers.
SchedulerStep ==
    \/ due = {} /\ TruckTick /\ UNCHANGED tradeVars
    \/ moving = {} /\ (ExpireStep \/ ExpireAbort \/ FinishGame) /\ UNCHANGED supplyVars

BothNext ==
    \/ \E r \in Requests : TradeRequest(r) \/ OrderRequest(r)
    \/ \E o \in Offers : Elapse(o) /\ UNCHANGED supplyVars
    \/ SchedulerStep

BothSpec == BothInit /\ [][BothNext]_allVars

\* A statement returns or its timeout ends the request.  The scheduler task runs for
\* ever: it ends each step, commits or not, and its steps come in turn, so the trucks do
\* not keep the expiry of offers from being next again and again.  PostgreSQL hands a row
\* lock to those who wait for it in turn, so a waiting flush gets its rows.
Fairness ==
    /\ \A r \in Requests : WF_allVars((RequestStep(r) \/ Abort(r)) /\ UNCHANGED supplyVars)
    /\ WF_allVars((TruckCommit \/ TruckAbort) /\ UNCHANGED tradeVars)
    /\ SF_allVars(moving = {} /\ ExpireSelect /\ UNCHANGED supplyVars)
    /\ SF_allVars(ExpireFlush /\ UNCHANGED supplyVars)
    /\ WF_allVars(ExpireCommit /\ UNCHANGED supplyVars)

FairSpec == BothSpec /\ Fairness

-----------------------------------------------------------------------------
(* Properties. *)

\* Whatever trades, orders, ticks and incidents overlap on the same money and
\* tanks, none of them falls below zero.
NothingOverdrawn ==
    /\ \A p \in Players : balance[p] >= 0
    /\ \A s \in Stations : liters[s] >= 0

\* While the game runs and the scheduler's steps are not aborted for ever, an
\* offer whose time is over does not stay pending: neither requests that hold
\* its row nor the ticks of trucks that never arrive keep the expiry step away.
DueOffersClose ==
    []<><<ExpireAbort>>_allVars \/
    \A o \in Offers :
       (offers[o].status = "PENDING" /\ offers[o].overdue)
         ~> (offers[o].status # "PENDING" \/ gameStatus = "FINISHED")
=============================================================================
