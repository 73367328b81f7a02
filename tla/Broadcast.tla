----------------------------- MODULE Broadcast -----------------------------
(***************************************************************************)
(* The sockets of the clients (websocket/connection_manager.py,            *)
(* websocket/game_ws.py) and who broadcasts to them: requests after their  *)
(* commit, and the scheduler's tick cycle (simulation/scheduler.py).       *)
(*                                                                         *)
(* All this is one asyncio loop: between two awaits nothing else runs, and *)
(* at every send_text of a broadcast anything may.  Broadcast iterates     *)
(* over the set of the room itself, and Python's iterator raises when the  *)
(* size of the set is not what it was at the start.  While the size is     *)
(* right, an element that came meanwhile may be visited or not.            *)
(***************************************************************************)
EXTENDS Naturals, FiniteSets, Sequences

CONSTANTS
    GameOrder,  \* running games, in the order of the scheduler's query
    Sockets,    \* WebSocket objects: bounds how many are in use at once
    RoomOf,     \* the game a socket is opened for
    Requests,   \* HTTP requests that broadcast
    Scheduler,  \* the caster of the tick cycle
    None        \* no set in the table, no broadcast

Games == {GameOrder[i] : i \in DOMAIN GameOrder}

Casters == Requests \cup {Scheduler}

ASSUME BroadcastAssumption ==
    /\ GameOrder \in Seq(Games)
    /\ RoomOf \in [Sockets -> Games]
    /\ Scheduler \notin Requests
    /\ IsFiniteSet(Sockets)

VARIABLES
    handler,  \* the coroutine of a socket: not started, receiving, or its peer is gone
    table,    \* connection_manager._connections
    cast,     \* the broadcasts under way
    pc        \* the game the tick cycle is at, 0 while it sleeps

vars == <<handler, table, cast, pc>>

\* A broadcast holds the room's set, which is not in the table any more once orphaned.
Casts == [game : Games, room : SUBSET Sockets, sent : SUBSET Sockets,
          dead : SUBSET Sockets, orphan : BOOLEAN]

ASSUME NoneIsNoSet ==
    /\ None \notin Casts
    /\ \A room \in SUBSET Sockets : room # None

BroadcastTypeOK ==
    /\ handler \in [Sockets -> {"none", "open", "broken"}]
    /\ table \in [Games -> (SUBSET Sockets) \cup {None}]
    /\ cast \in [Casters -> Casts \cup {None}]
    /\ pc \in 0 .. Len(GameOrder)
    /\ \A w \in Sockets, g \in Games : table[g] # None /\ w \in table[g] => RoomOf[w] = g
    /\ \A x \in Casters : cast[x] # None /\ ~cast[x].orphan => table[cast[x].game] # None

Init ==
    /\ handler = [w \in Sockets |-> "none"]
    /\ table = [g \in Games |-> None]
    /\ cast = [x \in Casters |-> None]
    /\ pc = 0

-----------------------------------------------------------------------------
(* ConnectionManager.connect and disconnect, in game_websocket.            *)

\* A socket object that a broadcast still knows is not the object of a new connection.
Fresh(w) ==
    /\ handler[w] = "none"
    /\ \A x \in Casters : cast[x] # None => w \notin cast[x].sent \cup cast[x].room

Connect(w) ==
    /\ Fresh(w)
    /\ handler' = [handler EXCEPT ![w] = "open"]
    /\ table' = [table EXCEPT ![RoomOf[w]] = (IF @ = None THEN {} ELSE @) \cup {w}]
    /\ UNCHANGED <<cast, pc>>

\* The peer goes away; the handler learns it later.
Break(w) ==
    /\ handler[w] = "open"
    /\ handler' = [handler EXCEPT ![w] = "broken"]
    /\ UNCHANGED <<table, cast, pc>>

\* Fault: a socket that is no more in its room leaves the empty room behind.
WithoutMember(room, w) == IF room \in {None, {w}} THEN None ELSE room \ {w}

\* The room without the socket; an empty room is deleted from the table.
Without(room, w) == IF room = None \/ room \subseteq {w} THEN None ELSE room \ {w}

\* The broadcasts of a room that was deleted from the table keep its set.
Orphaned(g) ==
    [x \in Casters |-> IF cast[x] # None /\ cast[x].game = g
                       THEN [cast[x] EXCEPT !.orphan = TRUE] ELSE cast[x]]

Disconnect(w) ==
    LET g == RoomOf[w]
    IN  /\ handler[w] = "broken"
        /\ handler' = [handler EXCEPT ![w] = "none"]
        /\ table' = [table EXCEPT ![g] = Without(@, w)]
        /\ cast' = IF table'[g] = None THEN Orphaned(g) ELSE cast
        /\ UNCHANGED pc

-----------------------------------------------------------------------------
(* ConnectionManager.broadcast.                                            *)

Current(x) == IF cast[x].orphan THEN {} ELSE table[cast[x].game]

SizeUnchanged(x) == Cardinality(Current(x)) = Cardinality(cast[x].room)

\* Once the peer is gone a send may fail; then the socket is remembered as dead.
SendTo(x, c, w) ==
    \E fails \in {FALSE, handler[w] = "broken"} :
        cast' = [cast EXCEPT ![x] = [c EXCEPT !.sent = @ \cup {w},
                                              !.dead = IF fails THEN @ \cup {w} ELSE @]]

\* Up to the await of the first send.
Begin(x, g) ==
    IF table[g] \in {None, {}} THEN UNCHANGED cast
    ELSE \E w \in table[g] :
            SendTo(x, [game |-> g, room |-> table[g], sent |-> {}, dead |-> {}, orphan |-> FALSE], w)

Send(x) ==
    /\ cast[x] # None
    /\ SizeUnchanged(x)
    /\ \E w \in Current(x) \ cast[x].sent : SendTo(x, cast[x], w)
    /\ UNCHANGED <<handler, table, pc>>

\* Fault: the room is rebuilt from the sockets that were served.
DropUnserved(x) == cast[x].sent \ cast[x].dead

DropDead(x) == Current(x) \ cast[x].dead

\* Everything that was in the set from the start has been sent the message.
Served(x) ==
    /\ cast[x] # None
    /\ SizeUnchanged(x)
    /\ cast[x].room \cap Current(x) \subseteq cast[x].sent
    /\ table' = [table EXCEPT ![cast[x].game] = DropDead(x)]
    /\ cast' = [cast EXCEPT ![x] = None]

\* "Set changed size during iteration": the exception leaves the handler or the cycle.
Fails(x) ==
    /\ cast[x] # None
    /\ ~SizeUnchanged(x)
    /\ cast' = [cast EXCEPT ![x] = None]
    /\ UNCHANGED table

Announce(r, g) ==
    /\ cast[r] = None
    /\ Begin(r, g)
    /\ UNCHANGED <<handler, table, pc>>

Announced(r) == (Served(r) \/ Fails(r)) /\ UNCHANGED <<handler, pc>>

-----------------------------------------------------------------------------
(* _run_tick_cycle: the games one after the other, each with its           *)
(* broadcasts, here one for each; a failed one ends the cycle.             *)

\* Fault: a room without clients ends the cycle, a return where a continue is meant.
AdvanceFromFullRoom(at) ==
    IF at = Len(GameOrder) \/ (at > 0 /\ table[GameOrder[at]] = None) THEN 0 ELSE at + 1

Advance(at) == IF at = Len(GameOrder) THEN 0 ELSE at + 1

CycleStep ==
    /\ cast[Scheduler] = None
    /\ pc' = Advance(pc)
    /\ IF pc' = 0 THEN UNCHANGED cast ELSE Begin(Scheduler, GameOrder[pc'])
    /\ UNCHANGED <<handler, table>>

CycleServed == Served(Scheduler) /\ UNCHANGED <<handler, pc>>

CycleFails == Fails(Scheduler) /\ pc' = 0 /\ UNCHANGED handler

\* The process ends, and with it all that it only remembers.
Restart ==
    /\ handler' = [w \in Sockets |-> "none"]
    /\ table' = [g \in Games |-> None]
    /\ cast' = [x \in Casters |-> None]
    /\ pc' = 0

Next ==
    \/ \E w \in Sockets : Connect(w) \/ Break(w) \/ Disconnect(w)
    \/ \E r \in Requests, g \in Games : Announce(r, g)
    \/ \E r \in Requests : Send(r) \/ Announced(r)
    \/ CycleStep \/ Send(Scheduler) \/ CycleServed \/ CycleFails
    \/ Restart

Spec == Init /\ [][Next]_vars

\* A send ends at the latest with the connection; the scheduler's task runs for ever.
FairSpec ==
    /\ Spec
    /\ WF_vars(CycleStep)
    /\ WF_vars(Send(Scheduler) \/ CycleServed \/ CycleFails)

-----------------------------------------------------------------------------
(* Properties *)

\* Whatever broadcasts, arrivals and departures overlap, a client that is connected
\* is in its room: disconnect and the removal of dead sockets take only their own.
ConnectedIsInRoom ==
    \A w \in Sockets : handler[w] = "open" => table[RoomOf[w]] # None /\ w \in table[RoomOf[w]]

\* A room stays in the table only as long as one of its handlers runs, though dead
\* sockets are removed behind the handlers' backs.
NoRoomLeaks ==
    \A g \in Games : table[g] # None => \E w \in Sockets : RoomOf[w] = g /\ handler[w] # "none"

\* The cycle reaches every game again and again, unless clients come and go, or the
\* process ends, for ever.
EveryGameIsReached ==
    \/ []<><<CycleFails>>_vars
    \/ []<><<Restart>>_vars
    \/ \A i \in DOMAIN GameOrder : []<>(pc = i)

\* connection_manager.broadcast: "A broken socket must not stop delivery to the rest of
\* the room."  If nobody joins meanwhile, every client that stays is sent the message.
BroadcastReachesAll ==
    [][\A x \in Casters :
          (/\ cast[x] # None /\ cast'[x] = None /\ Current(x) \subseteq cast[x].room
           /\ \E w \in Sockets : handler'[w] # "none")
          => \A w \in cast[x].room : handler[w] = "open" => w \in cast[x].sent]_vars
=============================================================================
