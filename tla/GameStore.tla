----------------------------- MODULE GameStore -----------------------------
(***************************************************************************)
(* The PostgreSQL rows of one game that more than one service writes, and  *)
(* the row locks that order those writes.                                  *)
(*                                                                         *)
(* Every HTTP request and every scheduler step runs in one SQLAlchemy      *)
(* session (db/session.py), that is, in one READ COMMITTED transaction.  A *)
(* plain SELECT reads the committed row and takes no lock.  A SELECT ...   *)
(* FOR UPDATE and every UPDATE wait until no other session holds the row,  *)
(* take it, see the committed version, and keep it until COMMIT or         *)
(* ROLLBACK.  The rows below are the committed ones: what a session has    *)
(* written and not committed is visible to that session only, so it is     *)
(* kept with the session.                                                  *)
(***************************************************************************)
EXTENDS Integers

CONSTANTS
    Players,        \* game_players rows
    Stations,       \* game_stations rows, each with one station_fuel row
    Requests,       \* sessions of HTTP requests that may run at once
    Tick,           \* the session of the scheduler task
    None,           \* SQL NULL
    StartBalance,   \* settings.starting_balance
    StartLiters,    \* stock of every station when the game starts
    Capacity        \* station_fuel.capacity_liters

ASSUME StoreAssumption ==
    /\ Tick \notin Requests
    /\ None \notin Players \cup Stations \cup Requests \cup {Tick}
    /\ StartBalance \in Nat
    /\ StartLiters \in Nat
    /\ Capacity \in Nat
    /\ StartLiters <= Capacity

VARIABLES
    gameStatus,   \* game_rooms.status
    balance,      \* game_players.balance
    ledger,       \* starting balance plus the player's FinancialTransaction amounts
    owner,        \* game_stations.owner_player_id
    liters,       \* station_fuel.current_liters
    held          \* row locks each session holds

storeVars == <<gameStatus, balance, ledger, owner, liters, held>>

Sessions == Requests \cup {Tick}

PlayerRow(p)  == <<"player", p>>
StationRow(s) == <<"station", s>>
FuelRow(s)    == <<"fuel", s>>
OfferRow(o)   == <<"offer", o>>
RefineryRow   == <<"refinery", None>>    \* refinery_fuel of the one refinery

\* No session but s holds the row: a lock request of s would not wait.
Free(s, row) == \A t \in Sessions \ {s} : row \notin held[t]

\* s takes the rows, in addition to those it holds.
Take(s, rows) == held' = [held EXCEPT ![s] = @ \cup rows]

\* COMMIT and ROLLBACK both release every lock of the transaction.
Release(s) == held' = [held EXCEPT ![s] = {}]

\* A balance change and the FinancialTransaction row that explains it.
Post(p, amount) == ledger' = [ledger EXCEPT ![p] = @ + amount]
=============================================================================
