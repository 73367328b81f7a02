------------------------------- MODULE Market -------------------------------
(***************************************************************************)
(* What the trading services promise to the players, with no sessions,     *)
(* locks or database: every operation on the market is one atomic step.    *)
(* Trading implements it (RefinesMarket).                                  *)
(***************************************************************************)
EXTENDS Integers

CONSTANTS Players, Stations, Offers, None, StationPrice, StartBalance

VARIABLES
    owner,    \* who owns each station
    ledger,   \* the players' money as the transaction journal tells it
    deals     \* the offers on the market

marketVars == <<owner, ledger, deals>>

NoDeal == [state |-> "none"]

\* A player buys a station that belongs to nobody.
Buy(p, s) ==
    /\ owner[s] = None
    /\ owner' = [owner EXCEPT ![s] = p]
    /\ ledger' = [ledger EXCEPT ![p] = @ - StationPrice]
    /\ UNCHANGED deals

\* A new offer appears.
Open(o) ==
    /\ deals[o] = NoDeal
    /\ deals'[o].state = "open"
    /\ deals' = [deals EXCEPT ![o] = deals'[o]]
    /\ UNCHANGED <<owner, ledger>>

\* b takes up an open offer: the money changes hands, a station sold does too,
\* and it was the seller's until then.
Sell(o, b) ==
    LET d == deals[o] IN
    /\ d.state = "open"
    /\ b # d.seller
    /\ d.buyer \in {None, b}
    /\ deals' = [deals EXCEPT ![o].state = "sold", ![o].buyer = b]
    /\ ledger' = [ledger EXCEPT ![b] = @ - d.price, ![d.seller] = @ + d.price]
    /\ IF d.kind = "station"
         THEN /\ owner[d.station] = d.seller
              /\ owner' = [owner EXCEPT ![d.station] = b]
         ELSE UNCHANGED owner

\* Offers are turned down, withdrawn or run out; a deal that was made stays.
Close(O) ==
    /\ \A o \in O : deals[o].state = "open"
    /\ deals' = [o \in Offers |-> IF o \in O THEN [deals[o] EXCEPT !.state = "closed"]
                                             ELSE deals[o]]
    /\ UNCHANGED <<owner, ledger>>

\* An offer is replaced by one between the same parties about the same asset.
Counter(o, n) ==
    /\ deals[o].state = "open"
    /\ deals[n] = NoDeal
    /\ deals'[n].state = "open"
    /\ deals'[n].seller = deals[o].seller /\ deals'[n].buyer = deals[o].buyer
    /\ deals'[n].kind = deals[o].kind /\ deals'[n].station = deals[o].station
    /\ deals' = [deals EXCEPT ![o].state = "closed", ![n] = deals'[n]]
    /\ UNCHANGED <<owner, ledger>>

Next ==
    \/ \E p \in Players, s \in Stations : Buy(p, s)
    \/ \E o \in Offers : Open(o) \/ \E b \in Players : Sell(o, b)
    \/ \E O \in SUBSET Offers : Close(O)
    \/ \E o, n \in Offers : Counter(o, n)

Init ==
    /\ owner \in [Stations -> Players \cup {None}]
    /\ ledger = [p \in Players |-> StartBalance]
    /\ deals = [o \in Offers |-> NoDeal]

Spec == Init /\ [][Next]_marketVars
=============================================================================
