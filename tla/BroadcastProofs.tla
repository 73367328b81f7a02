-------------------------- MODULE BroadcastProofs --------------------------
(***************************************************************************)
(* Broadcast: types, who is in a room and which rooms are kept, for any    *)
(* games, sockets and broadcasts.                                          *)
(*                                                                         *)
(* A broadcast removes the sockets it found dead, long after it found      *)
(* them.  That takes no client out of its room because a dead socket stays *)
(* closed while a broadcast remembers it, and because a broadcast whose    *)
(* room was deleted from the table does not come to the removal: the size  *)
(* of the set it iterates over has changed.                                *)
(***************************************************************************)
EXTENDS Broadcast, FiniteSetTheorems, TLAPS

\* A socket in a room has a handler that will take it out.
RoomsAreHandled ==
    \A g \in Games : \A w \in Sockets : table[g] # None /\ w \in table[g] => handler[w] # "none"

\* What a broadcast remembers: a room with somebody in it, and dead sockets.
CastSound(c) ==
    /\ c.room # {}
    /\ c.dead \subseteq c.sent
    /\ \A w \in c.dead : handler[w] # "open"

CastsSound == \A x \in Casters : cast[x] # None => CastSound(cast[x])

BInv ==
    /\ BroadcastTypeOK
    /\ ConnectedIsInRoom
    /\ NoRoomLeaks
    /\ RoomsAreHandled
    /\ CastsSound

LEMMA SchedulerCasts == Scheduler \in Casters /\ Requests \subseteq Casters
BY DEF Casters

LEMMA LenNat == Len(GameOrder) \in Nat /\ \A i \in 1 .. Len(GameOrder) : GameOrder[i] \in Games
BY BroadcastAssumption DEF Games

\* An orphan never ends its iteration: its room was not empty.
LEMMA OrphanFails ==
    ASSUME BInv, NEW x \in Casters, cast[x] # None, SizeUnchanged(x)
    PROVE  ~cast[x].orphan /\ Current(x) = table[cast[x].game] /\ table[cast[x].game] # None
<1>1. cast[x] \in Casts /\ cast[x].room # {}
  BY DEF BInv, BroadcastTypeOK, CastsSound, CastSound
<1>2. cast[x].room \in SUBSET Sockets
  BY <1>1 DEF Casts
<1>3. IsFiniteSet(cast[x].room)
  BY <1>2, BroadcastAssumption, FS_Subset
<1>4. Cardinality(cast[x].room) # 0
  BY <1>1, <1>3, FS_EmptySet
<1>5. Cardinality({}) = 0
  BY FS_EmptySet
<1>6. ~cast[x].orphan
  BY <1>4, <1>5 DEF SizeUnchanged, Current
<1> QED
  BY <1>6 DEF Current, BInv, BroadcastTypeOK

-----------------------------------------------------------------------------
(* Steps that change no room and no handler. *)

LEMMA CastStep ==
    ASSUME BInv, UNCHANGED <<handler, table>>, pc' \in 0 .. Len(GameOrder),
           NEW x \in Casters, NEW c \in Casts \cup {None},
           c # None => CastSound(c) /\ (~c.orphan => table[c.game] # None),
           cast' = [cast EXCEPT ![x] = c]
    PROVE  BInv'
<1>1. BroadcastTypeOK'
  BY DEF BInv, BroadcastTypeOK
<1>2. ConnectedIsInRoom' /\ NoRoomLeaks' /\ RoomsAreHandled'
  BY DEF BInv, ConnectedIsInRoom, NoRoomLeaks, RoomsAreHandled
<1>3. CastsSound'
  BY DEF BInv, BroadcastTypeOK, CastsSound, CastSound
<1> QED
  BY <1>1, <1>2, <1>3 DEF BInv

LEMMA SendToOK ==
    ASSUME BInv, UNCHANGED <<handler, table>>, pc' \in 0 .. Len(GameOrder),
           NEW x \in Casters, NEW c \in Casts, CastSound(c), ~c.orphan => table[c.game] # None,
           NEW w \in Sockets, SendTo(x, c, w)
    PROVE  BInv'
<1>1. PICK fails \in {FALSE, handler[w] = "broken"} :
          cast' = [cast EXCEPT ![x] = [c EXCEPT !.sent = @ \cup {w},
                                                !.dead = IF fails THEN @ \cup {w} ELSE @]]
  BY DEF SendTo
<1> DEFINE d == [c EXCEPT !.sent = @ \cup {w}, !.dead = IF fails THEN @ \cup {w} ELSE @]
<1>2. d \in Casts /\ d.room = c.room /\ d.game = c.game /\ d.orphan = c.orphan
      /\ d.sent = c.sent \cup {w} /\ d.dead = IF fails THEN c.dead \cup {w} ELSE c.dead
  BY DEF Casts
<1>3. CastSound(d)
  <2>1. CASE fails
    <3>1. handler[w] = "broken"
      BY <2>1, Zenon
    <3>2. handler[w] # "open"
      BY <3>1
    <3> QED
      BY <1>2, <2>1, <3>2 DEF CastSound
  <2>2. CASE ~fails
    BY <1>2, <2>2 DEF CastSound
  <2> QED
    BY <2>1, <2>2
<1>4. cast' = [cast EXCEPT ![x] = d]
  BY <1>1
<1>5. ~d.orphan => table[d.game] # None
  BY <1>2
<1> HIDE DEF d
<1> QED
  BY <1>2, <1>3, <1>4, <1>5, CastStep

LEMMA BeginOK ==
    ASSUME BInv, UNCHANGED <<handler, table>>, pc' \in 0 .. Len(GameOrder),
           NEW x \in Casters, NEW g \in Games, Begin(x, g)
    PROVE  BInv'
<1>1. CASE table[g] \in {None, {}}
  <2>1. cast' = cast
    BY <1>1 DEF Begin
  <2>2. cast[x] \in Casts \cup {None} /\ cast' = [cast EXCEPT ![x] = cast[x]]
    BY <2>1 DEF BInv, BroadcastTypeOK
  <2> QED
    BY <2>2, CastStep DEF BInv, CastsSound, BroadcastTypeOK
<1>2. CASE table[g] \notin {None, {}}
  <2> DEFINE c == [game |-> g, room |-> table[g], sent |-> {}, dead |-> {}, orphan |-> FALSE]
  <2>1. PICK w \in table[g] : SendTo(x, c, w)
    BY <1>2 DEF Begin
  <2>2. table[g] \in SUBSET Sockets
    BY <1>2 DEF BInv, BroadcastTypeOK
  <2>3. c \in Casts /\ CastSound(c) /\ table[c.game] # None
    BY <1>2, <2>2 DEF Casts, CastSound
  <2> HIDE DEF c
  <2> QED
    BY <2>1, <2>2, <2>3, SendToOK
<1> QED
  BY <1>1, <1>2

LEMMA SendOK == ASSUME BInv, NEW x \in Casters, Send(x) PROVE BInv'
<1>1. PICK w \in Current(x) : SendTo(x, cast[x], w)
  BY DEF Send
<1>2. table[cast[x].game] # None /\ w \in table[cast[x].game]
  BY <1>1, OrphanFails DEF Send
<1>3. cast[x] \in Casts /\ CastSound(cast[x])
  BY DEF Send, BInv, BroadcastTypeOK, CastsSound
<1>4. table[cast[x].game] \in SUBSET Sockets
  BY <1>2, <1>3 DEF BInv, BroadcastTypeOK, Casts
<1>5. UNCHANGED <<handler, table>> /\ pc' \in 0 .. Len(GameOrder)
  BY DEF Send, BInv, BroadcastTypeOK
<1> QED
  BY <1>1, <1>2, <1>3, <1>4, <1>5, SendToOK

LEMMA FailsOK ==
    ASSUME BInv, NEW x \in Casters, Fails(x), UNCHANGED handler, pc' \in 0 .. Len(GameOrder)
    PROVE  BInv'
BY CastStep DEF Fails
-----------------------------------------------------------------------------
(* Steps that change a room. *)

\* Removing the dead leaves the room in the table, and everybody connected in it.
LEMMA ServedOK ==
    ASSUME BInv, NEW x \in Casters, Served(x), UNCHANGED <<handler, pc>>
    PROVE  BInv'
<1> DEFINE g == cast[x].game
           dead == cast[x].dead
<1>1. Current(x) = table[g] /\ table[g] # None
  BY OrphanFails DEF Served
<1>2. cast[x] \in Casts /\ CastSound(cast[x])
  BY DEF Served, BInv, BroadcastTypeOK, CastsSound
<1>3. g \in Games /\ table[g] \in SUBSET Sockets
  BY <1>1, <1>2 DEF BInv, BroadcastTypeOK, Casts
<1>4. table' = [table EXCEPT ![g] = table[g] \ dead] /\ cast' = [cast EXCEPT ![x] = None]
  BY <1>1 DEF Served, DropDead
<1>5. table[g] \ dead # None
  BY <1>3, NoneIsNoSet
<1>6. \A h \in Games : /\ table'[h] = IF h = g THEN table[g] \ dead ELSE table[h]
                       /\ table'[h] # None <=> table[h] # None
  BY <1>1, <1>3, <1>4, <1>5 DEF BInv, BroadcastTypeOK
<1>7. \A y \in Casters : cast'[y] = IF y = x THEN None ELSE cast[y]
  BY <1>4 DEF BInv, BroadcastTypeOK
<1>8. BroadcastTypeOK'
  <2>1. table' \in [Games -> (SUBSET Sockets) \cup {None}]
    BY <1>3, <1>4 DEF BInv, BroadcastTypeOK
  <2>2. cast' \in [Casters -> Casts \cup {None}]
    BY <1>4 DEF BInv, BroadcastTypeOK
  <2>3. \A w \in Sockets, h \in Games : table'[h] # None /\ w \in table'[h] => RoomOf[w] = h
    BY <1>6 DEF BInv, BroadcastTypeOK
  <2>4. \A y \in Casters : cast'[y] # None /\ ~cast'[y].orphan => table'[cast'[y].game] # None
    BY <1>6, <1>7 DEF BInv, BroadcastTypeOK, Casts
  <2> QED
    BY <2>1, <2>2, <2>3, <2>4 DEF BInv, BroadcastTypeOK
<1>9. ConnectedIsInRoom'
  BY <1>2, <1>6, BroadcastAssumption DEF BInv, ConnectedIsInRoom, CastSound
<1>10. NoRoomLeaks' /\ RoomsAreHandled'
  BY <1>6 DEF BInv, NoRoomLeaks, RoomsAreHandled
<1>11. CastsSound'
  BY <1>7 DEF BInv, CastsSound, CastSound
<1> QED
  BY <1>8, <1>9, <1>10, <1>11 DEF BInv

LEMMA ConnectOK == ASSUME BInv, NEW w \in Sockets, Connect(w) PROVE BInv'
<1> DEFINE g == RoomOf[w]
           room == (IF table[g] = None THEN {} ELSE table[g]) \cup {w}
<1>1. g \in Games
  BY BroadcastAssumption
<1>2. room \in SUBSET Sockets /\ room # None
  <2>1. room \in SUBSET Sockets
    BY <1>1 DEF BInv, BroadcastTypeOK
  <2> QED
    BY <2>1, NoneIsNoSet
<1>3. /\ table' = [table EXCEPT ![g] = room]
      /\ handler' = [handler EXCEPT ![w] = "open"]
      /\ UNCHANGED <<cast, pc>>
  BY DEF Connect
<1>4. \A h \in Games : table'[h] = IF h = g THEN room ELSE table[h]
  BY <1>1, <1>3 DEF BInv, BroadcastTypeOK
<1>5. \A v \in Sockets : handler'[v] = IF v = w THEN "open" ELSE handler[v]
  BY <1>3 DEF BInv, BroadcastTypeOK
<1>6. BroadcastTypeOK'
  <2>1. table' \in [Games -> (SUBSET Sockets) \cup {None}]
    BY <1>2, <1>3 DEF BInv, BroadcastTypeOK
  <2>2. handler' \in [Sockets -> {"none", "open", "broken"}]
    BY <1>3 DEF BInv, BroadcastTypeOK
  <2>3. \A v \in Sockets, h \in Games : table'[h] # None /\ v \in table'[h] => RoomOf[v] = h
    BY <1>4 DEF BInv, BroadcastTypeOK
  <2>4. \A y \in Casters : cast'[y] # None /\ ~cast'[y].orphan => table'[cast'[y].game] # None
    <3> HIDE DEF room
    <3> QED
      BY <1>2, <1>3, <1>4 DEF BInv, BroadcastTypeOK, Casts
  <2> QED
    BY <1>3, <2>1, <2>2, <2>3, <2>4 DEF BInv, BroadcastTypeOK
<1>7. ConnectedIsInRoom'
  BY <1>1, <1>2, <1>4, <1>5, BroadcastAssumption DEF BInv, ConnectedIsInRoom
<1>8. NoRoomLeaks' /\ RoomsAreHandled'
  BY <1>4, <1>5 DEF BInv, NoRoomLeaks, RoomsAreHandled
<1>9. CastsSound'
  <2>1. \A x \in Casters : cast[x] # None => w \notin cast[x].dead
    BY DEF Connect, Fresh, BInv, CastsSound, CastSound
  <2>2. \A x \in Casters : cast[x] # None => cast[x].dead \subseteq Sockets
    BY DEF BInv, BroadcastTypeOK, Casts
  <2> QED
    BY <1>3, <1>5, <2>1, <2>2 DEF BInv, CastsSound, CastSound
<1> QED
  BY <1>6, <1>7, <1>8, <1>9 DEF BInv

LEMMA BreakOK == ASSUME BInv, NEW w \in Sockets, Break(w) PROVE BInv'
<1>1. \A v \in Sockets : handler'[v] = IF v = w THEN "broken" ELSE handler[v]
  BY DEF Break, BInv, BroadcastTypeOK
<1>2. UNCHANGED <<table, cast, pc>> /\ handler' \in [Sockets -> {"none", "open", "broken"}]
  BY DEF Break, BInv, BroadcastTypeOK
<1>3. BroadcastTypeOK'
  BY <1>2 DEF BInv, BroadcastTypeOK
<1>4. ConnectedIsInRoom' /\ NoRoomLeaks' /\ RoomsAreHandled'
  BY <1>1, <1>2 DEF BInv, ConnectedIsInRoom, NoRoomLeaks, RoomsAreHandled
<1>5. CastsSound'
  <2>1. \A x \in Casters : cast[x] # None => cast[x].dead \subseteq Sockets
    BY DEF BInv, BroadcastTypeOK, Casts
  <2> QED
    BY <1>1, <1>2, <2>1 DEF BInv, CastsSound, CastSound
<1> QED
  BY <1>3, <1>4, <1>5 DEF BInv
\* Whoever stays in the room keeps it in the table; a room that goes had nobody else.
LEMMA DisconnectOK == ASSUME BInv, NEW w \in Sockets, Disconnect(w) PROVE BInv'
<1> DEFINE g == RoomOf[w]
           rest == Without(table[g], w)
<1>1. g \in Games
  BY BroadcastAssumption
<1>2. /\ rest \in (SUBSET Sockets) \cup {None}
      /\ rest # None => table[g] # None /\ rest = table[g] \ {w} /\ rest # {}
      /\ rest = None => table[g] = None \/ table[g] \subseteq {w}
  <2>1. table[g] \in (SUBSET Sockets) \cup {None}
    BY <1>1 DEF BInv, BroadcastTypeOK
  <2>2. CASE table[g] = None \/ table[g] \subseteq {w}
    BY <2>2 DEF Without
  <2>3. CASE ~(table[g] = None \/ table[g] \subseteq {w})
    <3>1. rest = table[g] \ {w}
      BY <2>3 DEF Without
    <3>2. rest # None
      BY <2>1, <2>3, <3>1, NoneIsNoSet
    <3> QED
      BY <2>1, <2>3, <3>1, <3>2
  <2> QED
    BY <2>2, <2>3
<1>3. /\ table' = [table EXCEPT ![g] = rest]
      /\ handler' = [handler EXCEPT ![w] = "none"]
      /\ pc' = pc
      /\ handler[w] = "broken"
  BY DEF Disconnect
<1>4. \A h \in Games : table'[h] = IF h = g THEN rest ELSE table[h]
  BY <1>1, <1>3 DEF BInv, BroadcastTypeOK
<1>5. \A v \in Sockets : handler'[v] = IF v = w THEN "none" ELSE handler[v]
  BY <1>3 DEF BInv, BroadcastTypeOK
<1>6. cast' = IF rest = None THEN Orphaned(g) ELSE cast
  BY <1>1, <1>4 DEF Disconnect
<1> HIDE DEF rest
<1>7. ASSUME NEW x \in Casters
      PROVE  /\ cast'[x] \in Casts \cup {None}
             /\ cast'[x] # None => cast[x] # None
             /\ cast'[x] # None =>
                    /\ cast'[x].game = cast[x].game /\ cast'[x].room = cast[x].room
                    /\ cast'[x].sent = cast[x].sent /\ cast'[x].dead = cast[x].dead
                    /\ ~cast'[x].orphan => ~cast[x].orphan /\ (rest = None => cast[x].game # g)
  <2>1. cast[x] \in Casts \cup {None}
    BY DEF BInv, BroadcastTypeOK
  <2>2. CASE cast'[x] = cast[x] /\ (rest = None /\ cast[x] # None => cast[x].game # g)
    BY <2>1, <2>2
  <2>3. CASE cast[x] # None /\ cast'[x] = [cast[x] EXCEPT !.orphan = TRUE]
    BY <2>1, <2>3 DEF Casts
  <2> QED
    BY <1>6, <2>2, <2>3 DEF Orphaned
<1>8. BroadcastTypeOK'
  <2>1. table' \in [Games -> (SUBSET Sockets) \cup {None}]
    BY <1>2, <1>3 DEF BInv, BroadcastTypeOK
  <2>2. handler' \in [Sockets -> {"none", "open", "broken"}]
    BY <1>3 DEF BInv, BroadcastTypeOK
  <2>3. cast' \in [Casters -> Casts \cup {None}]
    <3>1. cast' = [x \in Casters |-> cast'[x]]
      BY <1>6 DEF Orphaned, BInv, BroadcastTypeOK
    <3> QED
      BY <1>7, <3>1
  <2>4. \A v \in Sockets, h \in Games : table'[h] # None /\ v \in table'[h] => RoomOf[v] = h
    BY <1>2, <1>4 DEF BInv, BroadcastTypeOK
  <2>5. ASSUME NEW x \in Casters, cast'[x] # None, ~cast'[x].orphan
        PROVE  table'[cast'[x].game] # None
    <3>1. cast[x] \in Casts /\ ~cast[x].orphan /\ cast'[x].game = cast[x].game
          /\ (rest = None => cast[x].game # g)
      BY <1>7, <2>5 DEF BInv, BroadcastTypeOK
    <3>2. cast[x].game \in Games /\ table[cast[x].game] # None
      BY <1>7, <2>5, <3>1 DEF BInv, BroadcastTypeOK, Casts
    <3> QED
      BY <1>4, <3>1, <3>2
  <2> QED
    BY <1>3, <2>1, <2>2, <2>3, <2>4, <2>5 DEF BInv, BroadcastTypeOK
<1>9. ConnectedIsInRoom'
  <2> SUFFICES ASSUME NEW v \in Sockets, handler'[v] = "open"
               PROVE  table'[RoomOf[v]] # None /\ v \in table'[RoomOf[v]]
    BY DEF ConnectedIsInRoom
  <2>1. v # w /\ RoomOf[v] \in Games /\ table[RoomOf[v]] # None /\ v \in table[RoomOf[v]]
    BY <1>5, BroadcastAssumption DEF BInv, ConnectedIsInRoom
  <2> QED
    BY <1>2, <1>4, <2>1
<1>10. RoomsAreHandled'
  BY <1>2, <1>4, <1>5 DEF BInv, RoomsAreHandled, BroadcastTypeOK
<1>11. NoRoomLeaks'
  <2> SUFFICES ASSUME NEW h \in Games, table'[h] # None
               PROVE  \E v \in Sockets : RoomOf[v] = h /\ handler'[v] # "none"
    BY DEF NoRoomLeaks
  <2>1. CASE h = g
    <3>1. PICK v \in rest : v \in Sockets /\ v # w /\ v \in table[g] /\ table[g] # None
      BY <1>2, <1>4, <2>1
    <3> QED
      BY <1>1, <1>5, <2>1, <3>1 DEF BInv, BroadcastTypeOK, RoomsAreHandled
  <2>2. CASE h # g
    BY <1>4, <1>5, <2>2 DEF BInv, NoRoomLeaks
  <2> QED
    BY <2>1, <2>2
<1>12. CastsSound'
  <2>1. \A x \in Casters : cast[x] # None => cast[x].dead \subseteq Sockets
    BY DEF BInv, BroadcastTypeOK, Casts
  <2> QED
    BY <1>5, <1>7, <2>1 DEF BInv, CastsSound, CastSound
<1> QED
  BY <1>8, <1>9, <1>10, <1>11, <1>12 DEF BInv

LEMMA CycleStepOK == ASSUME BInv, CycleStep PROVE BInv'
<1>1. pc' \in 0 .. Len(GameOrder) /\ UNCHANGED <<handler, table>>
  BY LenNat DEF CycleStep, Advance, BInv, BroadcastTypeOK
<1>2. CASE pc' = 0
  <2>1. cast' = [cast EXCEPT ![Scheduler] = None]
    BY <1>2 DEF CycleStep, BInv, BroadcastTypeOK
  <2> QED
    BY <1>1, <2>1, SchedulerCasts, CastStep
<1>3. CASE pc' # 0
  <2>1. GameOrder[pc'] \in Games /\ Begin(Scheduler, GameOrder[pc'])
    BY <1>1, <1>3, LenNat DEF CycleStep
  <2> QED
    BY <1>1, <2>1, SchedulerCasts, BeginOK
<1> QED
  BY <1>2, <1>3

LEMMA BroadcastInitOK == Init => BInv
BY LenNat
   DEF Init, BInv, BroadcastTypeOK, ConnectedIsInRoom, NoRoomLeaks, RoomsAreHandled, CastsSound

\* The process starts from nothing.
LEMMA RestartOK == ASSUME Restart PROVE BInv'
BY LenNat
   DEF Restart, BInv, BroadcastTypeOK, ConnectedIsInRoom, NoRoomLeaks, RoomsAreHandled, CastsSound

LEMMA BroadcastStepOK == BInv /\ [Next]_vars => BInv'
<1> SUFFICES ASSUME BInv, [Next]_vars PROVE BInv'
  OBVIOUS
<1>0. pc \in 0 .. Len(GameOrder)
  BY DEF BInv, BroadcastTypeOK
<1>1. CASE \E w \in Sockets : Connect(w) \/ Break(w) \/ Disconnect(w)
  BY <1>1, ConnectOK, BreakOK, DisconnectOK
<1>2. ASSUME NEW r \in Requests, NEW g \in Games, Announce(r, g) PROVE BInv'
  BY <1>0, <1>2, SchedulerCasts, BeginOK DEF Announce
<1>3. ASSUME NEW r \in Requests, Send(r) \/ Announced(r) PROVE BInv'
  <2>1. r \in Casters
    BY SchedulerCasts
  <2>2. CASE Send(r)
    BY <2>1, <2>2, SendOK
  <2>3. CASE Announced(r)
    BY <1>0, <2>1, <2>3, ServedOK, FailsOK DEF Announced
  <2> QED
    BY <1>3, <2>2, <2>3
<1>4. CASE CycleStep
  BY <1>4, CycleStepOK
<1>5. CASE Send(Scheduler)
  BY <1>5, SendOK, SchedulerCasts
<1>6. CASE CycleServed
  BY <1>6, ServedOK, SchedulerCasts DEF CycleServed
<1>7. CASE CycleFails
  <2>1. pc' \in 0 .. Len(GameOrder)
    BY <1>7, LenNat DEF CycleFails
  <2> QED
    BY <1>7, <2>1, FailsOK, SchedulerCasts DEF CycleFails
<1>8. CASE Restart
  BY <1>8, RestartOK
<1>9. CASE UNCHANGED vars
  <2>1. UNCHANGED <<handler, table, pc>> /\ cast' = [cast EXCEPT ![Scheduler] = cast[Scheduler]]
        /\ cast[Scheduler] \in Casts \cup {None}
    BY <1>9, SchedulerCasts DEF vars, BInv, BroadcastTypeOK
  <2> QED
    BY <1>0, <2>1, SchedulerCasts, CastStep DEF BInv, CastsSound, BroadcastTypeOK
<1> QED
  BY <1>1, <1>2, <1>3, <1>4, <1>5, <1>6, <1>7, <1>8, <1>9 DEF Next

\* The invariant that the theorems below are read from.
THEOREM BroadcastInductive == Spec => []BInv
<1> QED
  BY BroadcastInitOK, BroadcastStepOK, PTL DEF Spec

\* Rooms and broadcasts have their types: a socket is in the room of its game only, and
\* a broadcast whose room went is known as an orphan.
THEOREM BroadcastTypesCorrect == Spec => []BroadcastTypeOK
<1>1. BInv => BroadcastTypeOK
  BY DEF BInv
<1> QED
  BY <1>1, BroadcastInductive, PTL

\* A client that is connected is in its room, whatever connection_manager.broadcast
\* removes and whoever disconnects meanwhile.
THEOREM ClientsStayInRooms == Spec => []ConnectedIsInRoom
<1>1. BInv => ConnectedIsInRoom
  BY DEF BInv
<1> QED
  BY <1>1, BroadcastInductive, PTL

\* connection_manager keeps no room that no handler will delete.
THEOREM RoomsAreDeleted == Spec => []NoRoomLeaks
<1>1. BInv => NoRoomLeaks
  BY DEF BInv
<1> QED
  BY <1>1, BroadcastInductive, PTL
=============================================================================
