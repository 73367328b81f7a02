------------------------------- MODULE Rooms -------------------------------
(***************************************************************************)
(* A game room from its creation to its end (services/game_service.py,     *)
(* simulation/game_lifecycle.py) and its members, whose requests are       *)
(* authenticated by the sessions of Accounts (api/deps.py).                *)
(*                                                                         *)
(* A request checks its session, then reads, then commits: nothing keeps   *)
(* the session, the room or the member's row as they were.  Only start_game *)
(* takes locks early, by its UPDATEs: the room's row and the members' rows *)
(* stay locked until it commits.  What members do with their money in the  *)
(* running game is Play here; the other modules model it.                  *)
(***************************************************************************)
EXTENDS Accounts

CONSTANTS
    RowIds,        \* ids of game_players rows: bounds how many at once
    Names,         \* network names
    StartBalance,  \* settings.starting_balance
    JoinLate       \* settings.allow_join_after_start

ASSUME RoomsAssumption == StartBalance \in Nat /\ JoinLate \in BOOLEAN

VARIABLES
    status,    \* game_rooms.status, None before create_game
    elapsed,   \* duration_minutes have passed since started_at
    members,   \* game_players rows
    created,   \* how often the game's stations and refinery stocks were created
    finishing  \* the net worths maybe_finish_game has computed, or None

roomVars == <<status, elapsed, members, created, finishing>>
vars == <<accountVars, req, roomVars>>

Rows == {i \in RowIds : members[i] # None}

RowsOf(u) == {i \in Rows : members[i].user = u}

Unused == {i \in RowIds : i \notin Rows /\ \A r \in Requests : req[r].row # i /\ i \notin req[r].rows}

NewMember(u, admin) ==
    [user |-> u, admin |-> admin, ready |-> FALSE, name |-> None,
     balance |-> 0, spent |-> 0, worth |-> 0]

Init ==
    /\ AccountsInit
    /\ status = None
    /\ elapsed = FALSE
    /\ members = [i \in RowIds |-> None]
    /\ created = 0
    /\ finishing = None

\* require_current_user: from here on the request acts for the session's user.
Authenticate(r) ==
    /\ At(r, "idle")
    /\ \E k \in SessionIds :
           /\ sessions[k] # None
           /\ req' = [req EXCEPT ![r].pc = "user", ![r].user = sessions[k]]
    /\ UNCHANGED <<accountVars, roomVars>>

\* Fault: the status is read before the stations are created, and written after.
StartingUnlocked == FALSE

\* The row lock of a start_game that has not committed.
Starting == \E r \in Requests : At(r, "fund") \/ At(r, "start")

Locked(i) == \E r \in Requests : i \in req[r].rows

-----------------------------------------------------------------------------
(* create_game, join_game, leave_game.                                     *)

CreateGame(r) ==
    /\ At(r, "user")
    /\ status = None
    /\ status' = "LOBBY"
    /\ \E i \in Unused : members' = [members EXCEPT ![i] = NewMember(req[r].user, TRUE)]
    /\ End(r)
    /\ UNCHANGED <<accountVars, elapsed, created, finishing>>

JoinRead(r) ==
    /\ At(r, "user")
    /\ status = "LOBBY" \/ (status = "RUNNING" /\ JoinLate)
    /\ Goto(r, "join")
    /\ UNCHANGED <<accountVars, roomVars>>

\* Fault: nothing but a look at the members keeps a user from joining twice.
MayJoinUnchecked(u) == TRUE

\* uq_game_players_game_user
MayJoin(u) == RowsOf(u) = {}

JoinCommit(r) ==
    /\ At(r, "join")
    /\ IF MayJoin(req[r].user)
       THEN \E i \in Unused : members' = [members EXCEPT ![i] = NewMember(req[r].user, FALSE)]
       ELSE UNCHANGED members
    /\ End(r)
    /\ UNCHANGED <<accountVars, status, elapsed, created, finishing>>

ReadRow(r, pc) ==
    /\ At(r, "user")
    /\ \E i \in RowsOf(req[r].user) :
           /\ pc = "leave" => ~members[i].admin
           /\ req' = [req EXCEPT ![r].pc = pc, ![r].row = i]
    /\ UNCHANGED <<accountVars, roomVars>>

\* A row that other rows refer to, as those of payments do, cannot be deleted.
LeaveCommit(r) ==
    /\ At(r, "leave")
    /\ ~Locked(req[r].row)
    /\ members' = IF req[r].row \in Rows /\ members[req[r].row].spent = 0
                  THEN [members EXCEPT ![req[r].row] = None] ELSE members
    /\ End(r)
    /\ UNCHANGED <<accountVars, status, elapsed, created, finishing>>

-----------------------------------------------------------------------------
(* set_ready and set_network: a row that is gone fails the commit.         *)

SetReady(r) ==
    LET i == req[r].row
    IN  /\ At(r, "ready")
        /\ ~Locked(i)
        /\ \E ready \in BOOLEAN :
               members' = IF i \in Rows THEN [members EXCEPT ![i].ready = ready] ELSE members
        /\ End(r)
        /\ UNCHANGED <<accountVars, status, elapsed, created, finishing>>

\* uq_game_players_game_network_name
NameIsFree(i, name) == \A j \in Rows \ {i} : members[j].name # name

SetNetwork(r) ==
    LET i == req[r].row
    IN  /\ At(r, "network")
        /\ ~Locked(i)
        /\ \E name \in Names :
               members' = IF i \in Rows /\ NameIsFree(i, name)
                          THEN [members EXCEPT ![i].name = name] ELSE members
        /\ End(r)
        /\ UNCHANGED <<accountVars, status, elapsed, created, finishing>>

-----------------------------------------------------------------------------
(* start_game: the UPDATE of the room, the UPDATE of the members, the      *)
(* creation of the stations and the commit.                                *)

\* Fault: the status is not part of the UPDATE's condition.
StartableAlways == status # None

Startable == status = "LOBBY"

StartRoom(r) ==
    /\ At(r, "user")
    /\ \E i \in RowsOf(req[r].user) : members[i].admin
    /\ ~Starting
    /\ Startable
    /\ Goto(r, "fund")
    /\ UNCHANGED <<accountVars, roomVars>>

\* The rows there are now; one that is inserted later is not among them.
StartMembers(r) ==
    /\ At(r, "fund")
    /\ req' = [req EXCEPT ![r].pc = "start", ![r].rows = Rows]
    /\ UNCHANGED <<accountVars, roomVars>>

StartCommit(r) ==
    /\ At(r, "start")
    /\ status' = "RUNNING"
    /\ members' = [i \in RowIds |-> IF i \in req[r].rows
                                     THEN [members[i] EXCEPT !.balance = StartBalance] ELSE members[i]]
    /\ created' = created + 1
    /\ End(r)
    /\ UNCHANGED <<accountVars, elapsed, finishing>>

-----------------------------------------------------------------------------
(* The running game and maybe_finish_game.                                 *)

Play(i) ==
    /\ status = "RUNNING"
    /\ i \in Rows
    /\ members[i].balance > 0
    /\ members' = [members EXCEPT ![i].balance = @ - 1, ![i].spent = @ + 1]
    /\ UNCHANGED <<accountVars, req, status, elapsed, created, finishing>>

Elapse ==
    /\ status = "RUNNING"
    /\ ~elapsed
    /\ elapsed' = TRUE
    /\ UNCHANGED <<accountVars, req, status, members, created, finishing>>

ComputeNetWorth ==
    /\ status = "RUNNING"
    /\ elapsed
    /\ finishing = None
    /\ finishing' = [i \in Rows |-> members[i].balance]
    /\ UNCHANGED <<accountVars, req, status, elapsed, members, created>>

FinishGame ==
    /\ finishing # None
    /\ status' = "FINISHED"
    /\ members' = [i \in RowIds |-> IF i \in Rows \cap DOMAIN finishing
                                     THEN [members[i] EXCEPT !.worth = finishing[i]] ELSE members[i]]
    /\ finishing' = None
    /\ UNCHANGED <<accountVars, req, elapsed, created>>

FinishAborts ==
    /\ finishing # None
    /\ finishing' = None
    /\ UNCHANGED <<accountVars, req, status, elapsed, members, created>>

RoomStep ==
    \/ \E r \in Requests :
          \/ Authenticate(r) \/ CreateGame(r) \/ JoinRead(r) \/ JoinCommit(r)
          \/ \E pc \in {"leave", "ready", "network"} : ReadRow(r, pc)
          \/ LeaveCommit(r) \/ SetReady(r) \/ SetNetwork(r)
          \/ StartRoom(r) \/ StartMembers(r) \/ StartCommit(r)
    \/ \E i \in RowIds : Play(i)
    \/ Elapse \/ ComputeNetWorth \/ FinishGame \/ FinishAborts

Next ==
    \/ AccountsStep /\ UNCHANGED roomVars
    \/ \E r \in Requests : Abort(r) /\ UNCHANGED roomVars
    \/ RoomStep

Spec == Init /\ [][Next]_vars

-----------------------------------------------------------------------------
(* Properties *)

Pcs == {"idle", "session", "password", "sessions", "user", "join", "leave", "ready", "network",
        "fund", "start"}

Statuses == {"LOBBY", "RUNNING", "FINISHED"}

MemberRows ==
    [user : Users, admin : BOOLEAN, ready : BOOLEAN, name : Names \cup {None},
     balance : 0 .. StartBalance, spent : 0 .. StartBalance, worth : 0 .. StartBalance]

ReqRecords ==
    [pc : Pcs, user : Users \cup {None}, word : ResetIds \cup {None},
     row : RowIds \cup {None}, rows : SUBSET RowIds]

ASSUME NoneIsNoMember == None \notin MemberRows \cup Statuses

\* The rows, and what the requests remember of them.
RoomsTypeOK ==
    /\ password \in [Users -> Passwords \cup {None}]
    /\ sessions \in [SessionIds -> Users \cup {None}]
    /\ resets \in [ResetIds -> Users \cup {None}]
    /\ req \in [Requests -> ReqRecords]
    /\ status \in Statuses \cup {None}
    /\ elapsed \in BOOLEAN
    /\ members \in [RowIds -> MemberRows \cup {None}]
    /\ \A r \in Requests : req[r].rows \subseteq Rows
    /\ finishing # None => DOMAIN finishing \subseteq RowIds

\* Requests that read the same room at the same time do not make a user a member twice
\* nor give two members the same name.
MembersAreDistinct ==
    \A i, j \in Rows :
        i # j => /\ members[i].user # members[j].user
                 /\ members[i].name = None \/ members[i].name # members[j].name

\* However start requests overlap and fail, the stations of a game are created once,
\* together with its start.
StartIsWhole == created = IF status \in {None, "LOBBY"} THEN 0 ELSE 1

\* The starting balance is given before anything is spent, never again: a member who
\* got it has what is left of it.
SpendingIsKept == \A i \in Rows : members[i].spent > 0 =>
                                    members[i].balance = StartBalance - members[i].spent
=============================================================================
