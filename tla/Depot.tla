------------------------------- MODULE Depot -------------------------------
(***************************************************************************)
(* What ordering fuel promises the players of one game, without sessions,  *)
(* locks or trucks: an order is placed in one step that takes the fuel     *)
(* from the refinery, the money from the player and the room from the      *)
(* tanks; each of its deliveries turns reserved room into fuel, once.      *)
(***************************************************************************)
EXTENDS Integers, FiniteSets, Functions

CONSTANTS Players, Stations, Orders, Volumes, Capacity, StartBalance, StartLiters, StartStock

VARIABLES balance, liters, reserved, stock, contracts

depotVars == <<balance, liters, reserved, stock, contracts>>

NoContract == [pending |-> {}]

Total(stops) == FoldFunction(+, 0, stops)

Init ==
    /\ balance = [p \in Players |-> StartBalance]
    /\ liters = [s \in Stations |-> StartLiters]
    /\ reserved = [s \in Stations |-> 0]
    /\ stock = StartStock
    /\ contracts = [o \in Orders |-> NoContract]

Contracts ==
    [player : Players, cost : Nat, stops : [Stations -> Volumes \cup {0}],
     pending : SUBSET Stations]

\* The order is accepted only if the refinery has the fuel, every tank has the
\* room besides what is promised to it already, and the player has the money.
Place ==
    /\ UNCHANGED liters
    /\ \E o \in Orders :
         LET new == contracts'[o]
         IN /\ contracts[o] = NoContract
            /\ new \in Contracts
            /\ contracts' = [contracts EXCEPT ![o] = new]
            /\ new.pending = {s \in Stations : new.stops[s] > 0}
            /\ Total(new.stops) \in 1 .. stock
            /\ stock' = stock - Total(new.stops)
            /\ \A s \in new.pending : liters[s] + reserved[s] + new.stops[s] <= Capacity
            /\ reserved' = [s \in Stations |-> reserved[s] + new.stops[s]]
            /\ new.cost <= balance[new.player]
            /\ balance' = [balance EXCEPT ![new.player] = @ - new.cost]

\* Trucks reach some of the stops they still have to serve.
Deliver ==
    /\ UNCHANGED <<balance, stock>>
    /\ contracts' # contracts
    /\ \A o \in Orders : contracts'[o].pending \subseteq contracts[o].pending
    /\ contracts' = [o \in Orders |->
                        [contracts[o] EXCEPT !.pending = contracts'[o].pending]]
    /\ LET load(s) == [o \in Orders |->
                         IF s \in contracts[o].pending \ contracts'[o].pending
                           THEN contracts[o].stops[s] ELSE 0]
       IN /\ liters' = [s \in Stations |-> liters[s] + Total(load(s))]
          /\ reserved' = [s \in Stations |-> reserved[s] - Total(load(s))]

\* A breakdown at the refinery leaves an arbitrary part of the first stock.
Breakdown ==
    /\ stock' \in 0 .. StartStock
    /\ UNCHANGED <<balance, liters, reserved, contracts>>

Next == Place \/ Deliver \/ Breakdown

Spec == Init /\ [][Next]_depotVars
=============================================================================
