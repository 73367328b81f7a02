---------------------------- MODULE RoomsProofs ----------------------------
(***************************************************************************)
(* Rooms and Accounts: types, distinct members, the start of a game, what  *)
(* a member has left, and reset tokens, for any users, requests and rows.  *)
(*                                                                         *)
(* The invariant has three parts: the rows (RowsSound), each request by    *)
(* itself against the rows (ReqSound), and the requests against each other *)
(* (ReqsApart).  A commit changes rows under the eyes of requests that     *)
(* have read them; ReqSound says what of their reading stays true.         *)
(***************************************************************************)
EXTENDS Rooms, TLAPS

Fresh == status \in {None, "LOBBY"}

\* Who has not been given the starting balance has spent nothing of it.
FundsSound(m) ==
    \/ m.balance = 0 /\ m.spent = 0
    \/ m.balance = StartBalance - m.spent

FinishingSound ==
    finishing # None =>
        /\ status = "RUNNING"
        /\ DOMAIN finishing \subseteq RowIds
        /\ \A i \in DOMAIN finishing : finishing[i] \in 0 .. StartBalance

MembersSound ==
    /\ members \in [RowIds -> MemberRows \cup {None}]
    /\ MembersAreDistinct
    /\ status = None => Rows = {}
    /\ \A i \in Rows : FundsSound(members[i])
    /\ Fresh => \A i \in Rows : members[i].spent = 0

AccountsSound ==
    /\ password \in [Users -> Passwords \cup {None}]
    /\ sessions \in [SessionIds -> Users \cup {None}]
    /\ resets \in [ResetIds -> Users \cup {None}]

RowsSound ==
    /\ AccountsSound
    /\ status \in Statuses \cup {None}
    /\ elapsed \in BOOLEAN
    /\ MembersSound
    /\ FinishingSound
    /\ StartIsWhole

Starts(q) == q.pc \in {"fund", "start"}

Resets(q) == q.pc \in {"password", "sessions"}

\* What a request q relies on.
ReqSound(q) ==
    /\ q \in ReqRecords
    /\ q.pc \in {"user", "join"} => q.user \in Users
    /\ q.pc = "join" => status # None
    /\ Starts(q) => status = "LOBBY"
    /\ q.rows \subseteq Rows
    /\ Resets(q) => q.word \in ResetIds /\ resets[q.word] = None

Apart(p, q) ==
    /\ ~(Starts(p) /\ Starts(q))
    /\ Resets(p) /\ Resets(q) => p.word # q.word

ReqsApart == \A r, s \in Requests : r # s => Apart(req[r], req[s])

ReqsSound ==
    /\ req \in [Requests -> ReqRecords]
    /\ \A r \in Requests : ReqSound(req[r])
    /\ ReqsApart

RInv == RowsSound /\ ReqsSound

-----------------------------------------------------------------------------
LEMMA RInvImplies ==
    RInv => /\ RoomsTypeOK /\ MembersAreDistinct /\ StartIsWhole
            /\ SpendingIsKept /\ OneResetPerToken
<1> SUFFICES ASSUME RInv
             PROVE  /\ RoomsTypeOK /\ MembersAreDistinct /\ StartIsWhole
                    /\ SpendingIsKept /\ OneResetPerToken
  OBVIOUS
<1>1. RoomsTypeOK
  BY DEF RInv, RowsSound, AccountsSound, MembersSound, FinishingSound, ReqsSound, ReqSound,
         RoomsTypeOK
<1>2. MembersAreDistinct /\ StartIsWhole
  BY DEF RInv, RowsSound, MembersSound
<1>3. SpendingIsKept
  <2>1. \A i \in Rows : FundsSound(members[i]) /\ members[i] \in MemberRows
    BY DEF RInv, RowsSound, MembersSound, Rows
  <2> QED
    BY <2>1 DEF SpendingIsKept, FundsSound, MemberRows
<1>4. OneResetPerToken
  BY DEF RInv, ReqsSound, ReqsApart, Apart, OneResetPerToken, Resetting, Resets, At
<1> QED
  BY <1>1, <1>2, <1>3, <1>4

LEMMA IdleSound == ReqSound(Idle) /\ ~Starts(Idle) /\ ~Resets(Idle)
BY DEF Idle, ReqSound, ReqRecords, Pcs, Starts, Resets

\* A step of request r that leaves to the others what they rely on.
LEMMA ReqStep ==
    ASSUME ReqsSound, NEW r \in Requests,
           req' \in [Requests -> ReqRecords],
           \A s \in Requests : s # r => req'[s] = req[s] /\ ReqSound(req[s])',
           ReqSound(req[r])',
           Starts(req'[r]) => Starts(req[r]) \/ \A s \in Requests : ~Starts(req[s]),
           Resets(req'[r]) => \/ Resets(req[r]) /\ req'[r].word = req[r].word
                              \/ \A s \in Requests : Resets(req[s]) => req[s].word # req'[r].word
    PROVE  ReqsSound'
<1>1. \A s \in Requests : ReqSound(req[s])'
  OBVIOUS
<1>2. ReqsApart'
  BY DEF ReqsSound, ReqsApart, Apart
<1> QED
  BY <1>1, <1>2 DEF ReqsSound

\* What another request relies on, when the rows change.
LEMMA StaysSound ==
    ASSUME ReqsSound, NEW s \in Requests, req'[s] = req[s],
           status # None => status' # None,
           Starts(req[s]) => status' = "LOBBY",
           req[s].rows \subseteq Rows',
           Resets(req[s]) => resets'[req[s].word] = None
    PROVE  ReqSound(req[s])'
BY DEF ReqsSound, ReqSound, Starts, Resets

\* ... and when they do not.
LEMMA AllStaySound ==
    ASSUME ReqsSound, UNCHANGED <<status, resets, members>>,
           NEW s \in Requests, req'[s] = req[s]
    PROVE  ReqSound(req[s])'
<1>1. ReqSound(req[s]) /\ Rows' = Rows
  BY DEF ReqsSound, Rows
<1> QED
  BY <1>1, StaysSound DEF ReqSound

LEMMA RoomUnchanged ==
    ASSUME RowsSound, UNCHANGED roomVars, AccountsSound'
    PROVE  RowsSound'
<1>1. UNCHANGED <<status, elapsed, members, created, finishing>>
  BY DEF roomVars
<1>2. MembersSound'
  BY <1>1 DEF RowsSound, MembersSound, MembersAreDistinct, Rows, FundsSound, Fresh
<1>3. FinishingSound' /\ StartIsWhole'
  BY <1>1 DEF RowsSound, FinishingSound, StartIsWhole
<1> QED
  BY <1>1, <1>2, <1>3 DEF RowsSound

\* A request goes on with what it has read.
LEMMA ReadStep ==
    ASSUME RInv, UNCHANGED <<accountVars, roomVars>>, NEW r \in Requests, NEW q \in ReqRecords,
           req' = [req EXCEPT ![r] = q],
           q.pc \in {"user", "join"} => q.user \in Users,
           q.pc = "join" => status # None,
           Starts(q) => status = "LOBBY" /\ (Starts(req[r]) \/ \A s \in Requests : ~Starts(req[s])),
           q.rows \subseteq Rows,
           ~Resets(q)
    PROVE  RInv'
<1>1. UNCHANGED <<password, sessions, resets, status, elapsed, members, created, finishing>>
  BY DEF accountVars, roomVars
<1>2. RowsSound'
  BY <1>1, RoomUnchanged DEF RInv, RowsSound, AccountsSound, roomVars
<1>3. req' \in [Requests -> ReqRecords] /\ req'[r] = q /\ Rows' = Rows
      /\ \A s \in Requests : s # r => req'[s] = req[s]
  BY <1>1 DEF RInv, ReqsSound, Rows
<1>4. \A s \in Requests : s # r => ReqSound(req[s])'
  BY <1>1, <1>3, AllStaySound DEF RInv
<1>5. ReqSound(req[r])'
  BY <1>1, <1>3 DEF ReqSound, Starts, Resets
<1>6. ReqsSound'
  BY <1>3, <1>4, <1>5, ReqStep DEF RInv
<1> QED
  BY <1>2, <1>6 DEF RInv

-----------------------------------------------------------------------------
(* Requests that only read. *)

LEMMA AbortOK == ASSUME RInv, NEW r \in Requests, Abort(r), UNCHANGED roomVars PROVE RInv'
BY ReadStep, IdleSound DEF Abort, End, Idle, ReqSound, Starts, Resets

LEMMA LoginOK ==
    ASSUME RInv, NEW r \in Requests, NEW u \in Users, Login(r, u), UNCHANGED roomVars
    PROVE  RInv'
<1> DEFINE q == [req[r] EXCEPT !.pc = "session", !.user = u]
<1>1. req[r] \in ReqRecords /\ req[r].rows \subseteq Rows
  BY DEF RInv, ReqsSound, ReqSound
<1>2. q \in ReqRecords /\ q.pc = "session" /\ q.rows = req[r].rows
  BY <1>1 DEF ReqRecords, Pcs
<1>3. req' = [req EXCEPT ![r] = q]
  BY DEF Login
<1> HIDE DEF q
<1> QED
  BY <1>1, <1>2, <1>3, ReadStep DEF Login, Starts, Resets

LEMMA AuthenticateOK == ASSUME RInv, NEW r \in Requests, Authenticate(r) PROVE RInv'
<1>1. PICK k \in SessionIds :
          /\ sessions[k] # None
          /\ req' = [req EXCEPT ![r].pc = "user", ![r].user = sessions[k]]
  BY DEF Authenticate
<1> DEFINE q == [req[r] EXCEPT !.pc = "user", !.user = sessions[k]]
<1>2. req[r] \in ReqRecords /\ req[r].rows \subseteq Rows
  BY DEF RInv, ReqsSound, ReqSound
<1>3. sessions[k] \in Users
  BY <1>1 DEF RInv, RowsSound, AccountsSound
<1>4. q \in ReqRecords /\ q.pc = "user" /\ q.user = sessions[k] /\ q.rows = req[r].rows
  BY <1>2, <1>3 DEF ReqRecords, Pcs
<1>5. req' = [req EXCEPT ![r] = q]
  BY <1>1
<1> HIDE DEF q
<1> QED
  BY <1>2, <1>3, <1>4, <1>5, ReadStep DEF Authenticate, Starts, Resets

\* A request that goes from "user" to another step keeps its user.
LEMMA GotoOK ==
    ASSUME RInv, NEW r \in Requests, At(r, "user"), NEW pc \in Pcs,
           NEW row \in RowIds \cup {None},
           req' = [req EXCEPT ![r].pc = pc, ![r].row = row],
           pc \notin {"password", "sessions", "start"},
           pc = "join" => status # None,
           pc = "fund" => status = "LOBBY" /\ ~Starting,
           UNCHANGED <<accountVars, roomVars>>
    PROVE  RInv'
<1> DEFINE q == [req[r] EXCEPT !.pc = pc, !.row = row]
<1>1. req[r] \in ReqRecords /\ req[r].rows \subseteq Rows /\ req[r].user \in Users
  BY DEF RInv, ReqsSound, ReqSound, At
<1>2. q \in ReqRecords /\ q.pc = pc /\ q.user = req[r].user /\ q.rows = req[r].rows
  BY <1>1 DEF ReqRecords
<1>3. req' = [req EXCEPT ![r] = q]
  OBVIOUS
<1>4. pc = "fund" => \A s \in Requests : ~Starts(req[s])
  BY DEF Starting, Starts, At
<1> HIDE DEF q
<1> QED
  BY <1>1, <1>2, <1>3, <1>4, ReadStep DEF Starts, Resets

LEMMA JoinReadOK == ASSUME RInv, NEW r \in Requests, JoinRead(r) PROVE RInv'
<1>1. req[r].row \in RowIds \cup {None} /\ req[r] \in ReqRecords
  BY DEF RInv, ReqsSound, ReqRecords
<1>2. req' = [req EXCEPT ![r].pc = "join", ![r].row = req[r].row]
  BY <1>1 DEF JoinRead, Goto, RInv, ReqsSound, ReqRecords
<1>3. status # None
  BY NoneIsNoMember DEF JoinRead, Statuses
<1> QED
  BY <1>1, <1>2, <1>3, GotoOK DEF JoinRead, Pcs

LEMMA ReadRowOK ==
    ASSUME RInv, NEW r \in Requests, NEW pc \in {"leave", "ready", "network"}, ReadRow(r, pc)
    PROVE  RInv'
<1>1. PICK i \in RowIds : req' = [req EXCEPT ![r].pc = pc, ![r].row = i]
  BY DEF ReadRow, RowsOf, Rows
<1> QED
  BY <1>1, GotoOK DEF ReadRow, Pcs

LEMMA StartRoomOK == ASSUME RInv, NEW r \in Requests, StartRoom(r) PROVE RInv'
<1>1. req[r].row \in RowIds \cup {None} /\ req[r] \in ReqRecords
  BY DEF RInv, ReqsSound, ReqRecords
<1>2. req' = [req EXCEPT ![r].pc = "fund", ![r].row = req[r].row]
  BY <1>1 DEF StartRoom, Goto, RInv, ReqsSound, ReqRecords
<1> QED
  BY <1>1, <1>2, GotoOK DEF StartRoom, Startable, Pcs

LEMMA StartMembersOK == ASSUME RInv, NEW r \in Requests, StartMembers(r) PROVE RInv'
<1> DEFINE q == [req[r] EXCEPT !.pc = "start", !.rows = Rows]
<1>1. req[r] \in ReqRecords /\ Starts(req[r]) /\ status = "LOBBY"
  BY DEF RInv, ReqsSound, ReqSound, StartMembers, At, Starts
<1>2. q \in ReqRecords /\ q.pc = "start" /\ q.rows = Rows
  BY <1>1 DEF ReqRecords, Rows, Pcs
<1>3. req' = [req EXCEPT ![r] = q]
  BY DEF StartMembers
<1> HIDE DEF q
<1> QED
  BY <1>1, <1>2, <1>3, ReadStep DEF StartMembers, Starts, Resets
-----------------------------------------------------------------------------
(* Commits to users, sessions and reset tokens. *)

\* No request changes, and no token that one has used comes back.
LEMMA RowStep ==
    ASSUME RInv, UNCHANGED <<req, roomVars>>, AccountsSound',
           \A s \in Requests : Resets(req[s]) => resets'[req[s].word] = None
    PROVE  RInv'
<1>1. req' = req /\ UNCHANGED <<status, members>>
  BY DEF roomVars
<1>2. \A s \in Requests : ReqSound(req[s])'
  <2> SUFFICES ASSUME NEW s \in Requests PROVE ReqSound(req[s])'
    OBVIOUS
  <2>1. ReqSound(req[s]) /\ Rows' = Rows
    BY <1>1 DEF RInv, ReqsSound, Rows
  <2> QED
    BY <1>1, <2>1, StaysSound DEF RInv, ReqSound
<1>3. ReqsSound'
  BY <1>1, <1>2 DEF RInv, ReqsSound, ReqsApart, Apart, Starts, Resets
<1> QED
  BY <1>3, RoomUnchanged DEF RInv

\* Request r goes on or ends, and no token that another has used comes back.
LEMMA CommitStep ==
    ASSUME RInv, UNCHANGED roomVars, AccountsSound', NEW r \in Requests, NEW q \in ReqRecords,
           req' = [req EXCEPT ![r] = q],
           q.pc \notin {"user", "join"}, ~Starts(q), q.rows \subseteq Rows,
           Resets(q) => /\ q.word \in ResetIds /\ resets'[q.word] = None
                        /\ \/ Resets(req[r]) /\ q.word = req[r].word
                           \/ \A s \in Requests : Resets(req[s]) => req[s].word # q.word,
           \A s \in Requests : Resets(req[s]) => resets'[req[s].word] = None
    PROVE  RInv'
<1>1. UNCHANGED <<status, members>>
  BY DEF roomVars
<1>2. req' \in [Requests -> ReqRecords] /\ req'[r] = q /\ Rows' = Rows
      /\ \A s \in Requests : s # r => req'[s] = req[s]
  BY <1>1 DEF RInv, ReqsSound, Rows
<1>3. ASSUME NEW s \in Requests, s # r PROVE ReqSound(req[s])'
  <2>1. ReqSound(req[s])
    BY DEF RInv, ReqsSound
  <2> QED
    BY <1>1, <1>2, <1>3, <2>1, StaysSound DEF RInv, ReqSound
<1>4. ReqSound(req[r])'
  BY <1>1, <1>2 DEF ReqSound, Starts, Resets
<1>5. ReqsSound'
  <2>1. Starts(req'[r]) => Starts(req[r])
    BY <1>2
  <2>2. Resets(req'[r]) => \/ Resets(req[r]) /\ req'[r].word = req[r].word
                           \/ \A s \in Requests : Resets(req[s]) => req[s].word # req'[r].word
    BY <1>2
  <2> QED
    BY <1>2, <1>3, <1>4, <2>1, <2>2, ReqStep DEF RInv
<1> QED
  BY <1>5, RoomUnchanged DEF RInv

LEMMA TokensUsed ==
    ASSUME RInv
    PROVE  \A s \in Requests : Resets(req[s]) => /\ req[s].word \in ResetIds
                                                 /\ resets[req[s].word] = None
BY DEF RInv, ReqsSound, ReqSound

LEMMA RegisterOK ==
    ASSUME RInv, NEW r \in Requests, NEW u \in Users, Register(r, u), UNCHANGED roomVars
    PROVE  RInv'
<1> DEFINE q == [req[r] EXCEPT !.pc = "session", !.user = u]
<1>1. req[r] \in ReqRecords /\ req[r].rows \subseteq Rows
  BY DEF RInv, ReqsSound, ReqSound
<1>2. q \in ReqRecords /\ q.pc = "session" /\ q.rows = req[r].rows
  BY <1>1 DEF ReqRecords, Pcs
<1>3. req' = [req EXCEPT ![r] = q] /\ UNCHANGED <<sessions, resets>>
  BY DEF Register
<1>4. AccountsSound'
  BY <1>3 DEF Register, RInv, RowsSound, AccountsSound
<1> HIDE DEF q
<1> QED
  BY <1>1, <1>2, <1>3, <1>4, TokensUsed, CommitStep DEF Starts, Resets

LEMMA EndsOK ==
    ASSUME RInv, UNCHANGED roomVars, AccountsSound', UNCHANGED resets,
           NEW r \in Requests, End(r)
    PROVE  RInv'
<1>1. Idle \in ReqRecords /\ Idle.pc = "idle" /\ Idle.rows \subseteq Rows
  BY IdleSound DEF ReqSound, Idle
<1>2. req' = [req EXCEPT ![r] = Idle]
  BY DEF End
<1> QED
  BY <1>1, <1>2, TokensUsed, CommitStep DEF Starts, Resets

LEMMA CreateSessionOK ==
    ASSUME RInv, NEW r \in Requests, CreateSession(r), UNCHANGED roomVars
    PROVE  RInv'
<1>1. req[r].user \in Users \cup {None}
  BY DEF RInv, ReqsSound, ReqRecords
<1>2. AccountsSound' /\ UNCHANGED resets /\ End(r)
  BY <1>1 DEF CreateSession, RInv, RowsSound, AccountsSound
<1> QED
  BY <1>2, EndsOK

LEMMA DeleteSessionsOK ==
    ASSUME RInv, NEW r \in Requests, DeleteSessions(r), UNCHANGED roomVars
    PROVE  RInv'
<1>1. AccountsSound' /\ UNCHANGED resets /\ End(r)
  BY DEF DeleteSessions, RInv, RowsSound, AccountsSound
<1> QED
  BY <1>1, EndsOK

LEMMA SetPasswordOK ==
    ASSUME RInv, NEW r \in Requests, SetPassword(r), UNCHANGED roomVars
    PROVE  RInv'
<1> DEFINE q == [req[r] EXCEPT !.pc = "sessions"]
<1>1. req[r] \in ReqRecords /\ req[r].rows \subseteq Rows /\ Resets(req[r])
  BY DEF SetPassword, At, Resets, RInv, ReqsSound, ReqSound
<1>2. q \in ReqRecords /\ q.pc = "sessions" /\ q.rows = req[r].rows /\ q.word = req[r].word
  BY <1>1 DEF ReqRecords, Pcs
<1>3. req' = [req EXCEPT ![r] = q] /\ UNCHANGED <<sessions, resets>>
  BY DEF SetPassword, Goto
<1>4. AccountsSound'
  BY <1>3 DEF SetPassword, RInv, RowsSound, AccountsSound
<1> HIDE DEF q
<1> QED
  BY <1>1, <1>2, <1>3, <1>4, TokensUsed, CommitStep DEF Starts, Resets

LEMMA EndSessionOK ==
    ASSUME RInv, NEW k \in SessionIds, EndSession(k), UNCHANGED roomVars
    PROVE  RInv'
<1>1. AccountsSound' /\ UNCHANGED <<req, resets>>
  BY DEF EndSession, RInv, RowsSound, AccountsSound
<1> QED
  BY <1>1, TokensUsed, RowStep

\* A new token is not one that a request still holds.
LEMMA ForgotPasswordOK ==
    ASSUME RInv, NEW u \in Users, NEW t \in ResetIds, ForgotPassword(u, t), UNCHANGED roomVars
    PROVE  RInv'
<1>1. AccountsSound' /\ req' = req /\ resets' = [resets EXCEPT ![t] = u]
  BY DEF ForgotPassword, RInv, RowsSound, AccountsSound
<1>2. \A s \in Requests : Resets(req[s]) => resets'[req[s].word] = None
  BY <1>1, TokensUsed DEF ForgotPassword, RInv, RowsSound, AccountsSound
<1> QED
  BY <1>1, <1>2, RowStep

LEMMA ExpireResetOK ==
    ASSUME RInv, NEW t \in ResetIds, ExpireReset(t), UNCHANGED roomVars
    PROVE  RInv'
<1>1. AccountsSound' /\ req' = req /\ resets' = [resets EXCEPT ![t] = None]
  BY DEF ExpireReset, RInv, RowsSound, AccountsSound
<1>2. \A s \in Requests : Resets(req[s]) => resets'[req[s].word] = None
  BY <1>1, TokensUsed DEF RInv, RowsSound, AccountsSound
<1> QED
  BY <1>1, <1>2, RowStep

\* A token that is still there is held by no other request.
LEMMA ConsumeTokenOK ==
    ASSUME RInv, NEW r \in Requests, NEW t \in ResetIds, ConsumeToken(r, t), UNCHANGED roomVars
    PROVE  RInv'
<1> DEFINE q == [req[r] EXCEPT !.pc = "password", !.user = resets[t], !.word = t]
<1>1. req[r] \in ReqRecords /\ req[r].rows \subseteq Rows
  BY DEF RInv, ReqsSound, ReqSound
<1>2. resets[t] \in Users /\ resets' = [resets EXCEPT ![t] = None]
      /\ UNCHANGED <<password, sessions>>
  BY DEF ConsumeToken, UseToken, RInv, RowsSound, AccountsSound
<1>3. q \in ReqRecords /\ q.pc = "password" /\ q.rows = req[r].rows /\ q.word = t
  BY <1>1, <1>2 DEF ReqRecords, Pcs
<1>4. req' = [req EXCEPT ![r] = q]
  BY DEF ConsumeToken
<1>5. AccountsSound' /\ resets'[t] = None
  BY <1>2 DEF RInv, RowsSound, AccountsSound
<1>6. \A s \in Requests : Resets(req[s]) => req[s].word # t
  BY TokensUsed DEF ConsumeToken
<1>7. \A s \in Requests : Resets(req[s]) => resets'[req[s].word] = None
  BY <1>2, TokensUsed DEF RInv, RowsSound, AccountsSound
<1> HIDE DEF q
<1> QED
  BY <1>1, <1>3, <1>4, <1>5, <1>6, <1>7, CommitStep DEF Starts
-----------------------------------------------------------------------------
(* Commits to the room and its members. *)

\* Request r ends; the others still have the rows and the status they rely on.
LEMMA RoomCommit ==
    ASSUME RInv, UNCHANGED accountVars, RowsSound', NEW r \in Requests, End(r),
           status # None => status' # None,
           \A s \in Requests : s # r => /\ Starts(req[s]) => status' = "LOBBY"
                                       /\ req[s].rows \subseteq Rows'
    PROVE  RInv'
<1>1. req' = [req EXCEPT ![r] = Idle] /\ resets' = resets
  BY DEF End, accountVars
<1>2. Idle \in ReqRecords /\ ~Starts(Idle) /\ ~Resets(Idle) /\ Idle.pc = "idle" /\ Idle.rows = {}
  BY IdleSound DEF ReqSound, Idle
<1>3. req' \in [Requests -> ReqRecords] /\ req'[r] = Idle
      /\ \A s \in Requests : s # r => req'[s] = req[s]
  BY <1>1, <1>2 DEF RInv, ReqsSound
<1>4. ASSUME NEW s \in Requests, s # r PROVE ReqSound(req[s])'
  BY <1>1, <1>3, <1>4, TokensUsed, StaysSound DEF RInv
<1>5. ReqSound(req[r])'
  BY <1>2, <1>3 DEF ReqSound, Starts, Resets
<1>6. ReqsSound'
  BY <1>2, <1>3, <1>4, <1>5, ReqStep DEF RInv
<1> QED
  BY <1>6 DEF RInv

\* No request changes.
LEMMA RoomAlone ==
    ASSUME RInv, UNCHANGED <<accountVars, req>>, RowsSound',
           status # None => status' # None,
           \A s \in Requests : /\ Starts(req[s]) => status' = "LOBBY"
                               /\ req[s].rows \subseteq Rows'
    PROVE  RInv'
<1>1. req' = req /\ resets' = resets
  BY DEF accountVars
<1>2. ASSUME NEW s \in Requests PROVE ReqSound(req[s])'
  BY <1>1, <1>2, TokensUsed, StaysSound DEF RInv
<1>3. ReqsSound'
  BY <1>1, <1>2 DEF RInv, ReqsSound, ReqsApart, Apart, Starts, Resets
<1> QED
  BY <1>3 DEF RInv

\* What every request relies on, as long as the status stays.
LEMMA StatusReliedOn ==
    ASSUME RInv
    PROVE  \A s \in Requests : (Starts(req[s]) => status = "LOBBY") /\ req[s].rows \subseteq Rows
BY DEF RInv, ReqsSound, ReqSound

LEMMA MembersChange ==
    ASSUME RInv, UNCHANGED <<accountVars, status, elapsed, created, finishing>>, MembersSound'
    PROVE  RowsSound'
BY DEF RInv, RowsSound, AccountsSound, accountVars, FinishingSound, StartIsWhole

\* A new row, for a user who has none.
LEMMA NewRow ==
    ASSUME RInv, NEW i \in Unused, NEW u \in Users, NEW admin \in BOOLEAN, RowsOf(u) = {},
           members' = [members EXCEPT ![i] = NewMember(u, admin)],
           status' # None, Fresh' => Fresh
    PROVE  MembersSound' /\ Rows' = Rows \cup {i}
<1> DEFINE row == NewMember(u, admin)
<1>1. row \in MemberRows /\ row.user = u /\ row.name = None /\ row.balance = 0 /\ row.spent = 0
  BY RoomsAssumption DEF NewMember, MemberRows
<1>2. row # None
  BY <1>1, NoneIsNoMember
<1>3. i \in RowIds /\ i \notin Rows
  BY DEF Unused
<1>4. members \in [RowIds -> MemberRows \cup {None}]
  BY DEF RInv, RowsSound, MembersSound
<1> HIDE DEF row
<1>5. \A j \in RowIds : members'[j] = IF j = i THEN row ELSE members[j]
  BY <1>4 DEF row
<1>6. members' \in [RowIds -> MemberRows \cup {None}]
  BY <1>1, <1>4 DEF row
<1>7. Rows' = Rows \cup {i}
  BY <1>2, <1>3, <1>5 DEF Rows
<1>8. \A j \in Rows : members[j].user # u
  BY DEF RowsOf
<1>9. MembersAreDistinct'
  <2> SUFFICES ASSUME NEW j \in Rows', NEW k \in Rows', j # k
               PROVE  /\ members'[j].user # members'[k].user
                      /\ members'[j].name = None \/ members'[j].name # members'[k].name
    BY DEF MembersAreDistinct
  <2>1. j \in RowIds /\ k \in RowIds /\ (j # i => j \in Rows) /\ (k # i => k \in Rows)
    BY <1>3, <1>7 DEF Rows
  <2>2. CASE j # i /\ k # i
    BY <1>5, <2>1, <2>2 DEF RInv, RowsSound, MembersSound, MembersAreDistinct
  <2>3. CASE j = i
    BY <1>1, <1>5, <1>8, <2>1, <2>3
  <2>4. CASE k = i
    <3>1. members'[j].user # members'[k].user
      BY <1>1, <1>5, <1>8, <2>1, <2>4
    <3>2. members'[k].name = None
      BY <1>1, <1>5, <2>1, <2>4
    <3> QED
      BY <3>1, <3>2
  <2> QED
    BY <2>2, <2>3, <2>4
<1>10. ASSUME NEW j \in Rows' PROVE FundsSound(members'[j]) /\ (Fresh' => members'[j].spent = 0)
  <2>1. CASE j = i
    BY <1>1, <1>3, <1>5, <2>1 DEF FundsSound
  <2>2. CASE j # i
    <3>1. j \in Rows /\ members'[j] = members[j]
      BY <1>5, <1>7, <2>2 DEF Rows
    <3> QED
      BY <3>1 DEF RInv, RowsSound, MembersSound
  <2> QED
    BY <2>1, <2>2
<1> QED
  BY <1>6, <1>7, <1>9, <1>10 DEF MembersSound, FundsSound

\* One row changes: not its user, and its name to one that is free.
LEMMA ChangeRow ==
    ASSUME RInv, NEW i \in Rows, NEW row \in MemberRows, UNCHANGED status,
           members' = [members EXCEPT ![i] = row],
           row.user = members[i].user,
           \/ row.name = members[i].name
           \/ \A j \in Rows \ {i} : members[j].name # row.name,
           FundsSound(row), Fresh => row.spent = 0
    PROVE  MembersSound' /\ Rows' = Rows
<1>1. members \in [RowIds -> MemberRows \cup {None}] /\ i \in RowIds
  BY DEF RInv, RowsSound, MembersSound, Rows
<1>2. \A j \in RowIds : members'[j] = IF j = i THEN row ELSE members[j]
  BY <1>1
<1>3. members' \in [RowIds -> MemberRows \cup {None}]
  BY <1>1
<1>4. row # None
  BY NoneIsNoMember
<1>5. Rows' = Rows
  BY <1>1, <1>2, <1>4 DEF Rows
<1>6. MembersAreDistinct
  BY DEF RInv, RowsSound, MembersSound
<1>7. MembersAreDistinct'
  <2> SUFFICES ASSUME NEW j \in Rows, NEW k \in Rows, j # k
               PROVE  /\ members'[j].user # members'[k].user
                      /\ members'[j].name = None \/ members'[j].name # members'[k].name
    BY <1>5 DEF MembersAreDistinct
  <2>1. j \in RowIds /\ k \in RowIds
    BY DEF Rows
  <2>2. members[j].user # members[k].user
        /\ (members[j].name = None \/ members[j].name # members[k].name)
    BY <1>6 DEF MembersAreDistinct
  <2>3. CASE j # i /\ k # i
    BY <1>2, <2>1, <2>2, <2>3
  <2>4. CASE j = i
    BY <1>2, <2>1, <2>2, <2>4
  <2>5. CASE k = i
    BY <1>2, <2>1, <2>2, <2>5
  <2> QED
    BY <2>3, <2>4, <2>5
<1>8. ASSUME NEW j \in Rows PROVE FundsSound(members'[j]) /\ (Fresh => members'[j].spent = 0)
  BY <1>2 DEF RInv, RowsSound, MembersSound, Rows
<1>9. status = None => Rows = {}
  BY DEF RInv, RowsSound, MembersSound
<1> QED
  BY <1>3, <1>5, <1>7, <1>8, <1>9 DEF MembersSound, FundsSound, Fresh
LEMMA CreateGameOK == ASSUME RInv, NEW r \in Requests, CreateGame(r) PROVE RInv'
<1>1. PICK i \in Unused : members' = [members EXCEPT ![i] = NewMember(req[r].user, TRUE)]
  BY DEF CreateGame
<1>2. req[r].user \in Users /\ RowsOf(req[r].user) = {} /\ Rows = {}
  BY DEF CreateGame, At, RInv, ReqsSound, ReqSound, RowsSound, MembersSound, RowsOf
<1>3. status = None /\ status' = "LOBBY" /\ "LOBBY" # None /\ Fresh /\ End(r)
      /\ UNCHANGED <<accountVars, elapsed, created, finishing>>
  BY NoneIsNoMember DEF CreateGame, Statuses, Fresh
<1>4. MembersSound' /\ Rows' = Rows \cup {i}
  BY <1>1, <1>2, <1>3, NewRow
<1>5. RowsSound'
  <2>1. FinishingSound'
    BY <1>3, NoneIsNoMember DEF RInv, RowsSound, FinishingSound, Statuses
  <2>2. StartIsWhole'
    BY <1>3 DEF RInv, RowsSound, StartIsWhole
  <2> QED
    BY <1>3, <1>4, <2>1, <2>2 DEF RInv, RowsSound, AccountsSound, accountVars, Statuses
<1> QED
  BY <1>3, <1>4, <1>5, StatusReliedOn, RoomCommit

LEMMA JoinCommitOK == ASSUME RInv, NEW r \in Requests, JoinCommit(r) PROVE RInv'
<1>1. req[r].user \in Users /\ status # None /\ status' = status /\ End(r)
      /\ UNCHANGED <<accountVars, elapsed, created, finishing>>
  BY DEF JoinCommit, At, RInv, ReqsSound, ReqSound
<1>2. MembersSound' /\ Rows \subseteq Rows'
  <2>1. CASE MayJoin(req[r].user)
    <3>1. PICK i \in Unused : members' = [members EXCEPT ![i] = NewMember(req[r].user, FALSE)]
      BY <2>1 DEF JoinCommit
    <3>2. RowsOf(req[r].user) = {} /\ (Fresh' => Fresh)
      BY <1>1, <2>1 DEF MayJoin, Fresh
    <3> QED
      BY <1>1, <3>1, <3>2, NewRow
  <2>2. CASE ~MayJoin(req[r].user)
    BY <1>1, <2>2
       DEF JoinCommit, RInv, RowsSound, MembersSound, MembersAreDistinct, Rows, FundsSound, Fresh
  <2> QED
    BY <2>1, <2>2
<1>3. RowsSound'
  BY <1>1, <1>2, MembersChange
<1> QED
  BY <1>1, <1>2, <1>3, StatusReliedOn, RoomCommit

\* A row that a start holds is not deleted.
LEMMA LeaveCommitOK == ASSUME RInv, NEW r \in Requests, LeaveCommit(r) PROVE RInv'
<1> DEFINE i == req[r].row
<1>1. status' = status /\ End(r) /\ ~Locked(i)
      /\ UNCHANGED <<accountVars, elapsed, created, finishing>>
  BY DEF LeaveCommit
<1>2. members \in [RowIds -> MemberRows \cup {None}]
  BY DEF RInv, RowsSound, MembersSound
<1>3. \A j \in RowIds : members'[j] = members[j] \/ (j = i /\ members'[j] = None)
  BY <1>2 DEF LeaveCommit
<1>4. members' \in [RowIds -> MemberRows \cup {None}]
  BY <1>2 DEF LeaveCommit
<1>5. \A j \in Rows' : j \in Rows /\ members'[j] = members[j]
  BY <1>3 DEF Rows
<1>6. \A j \in Rows : j # i => j \in Rows'
  BY <1>3 DEF Rows
<1>7. MembersSound'
  BY <1>1, <1>4, <1>5 DEF RInv, RowsSound, MembersSound, MembersAreDistinct, FundsSound, Fresh
<1>8. RowsSound'
  BY <1>1, <1>7, MembersChange
<1>9. \A s \in Requests : req[s].rows \subseteq Rows'
  BY <1>1, <1>6, StatusReliedOn DEF Locked
<1> QED
  BY <1>1, <1>8, <1>9, StatusReliedOn, RoomCommit

\* set_ready and set_network, and Play, write one row.
LEMMA SetReadyOK == ASSUME RInv, NEW r \in Requests, SetReady(r) PROVE RInv'
<1> DEFINE i == req[r].row
<1>1. status' = status /\ End(r) /\ UNCHANGED <<accountVars, elapsed, created, finishing>>
  BY DEF SetReady
<1>2. PICK ready \in BOOLEAN :
          members' = IF i \in Rows THEN [members EXCEPT ![i].ready = ready] ELSE members
  BY DEF SetReady
<1>3. MembersSound' /\ Rows' = Rows
  <2>1. CASE i \in Rows
    <3> DEFINE row == [members[i] EXCEPT !.ready = ready]
    <3>1. members[i] \in MemberRows /\ FundsSound(members[i]) /\ (Fresh => members[i].spent = 0)
      BY <2>1 DEF RInv, RowsSound, MembersSound, Rows
    <3>2. /\ row \in MemberRows /\ row.user = members[i].user /\ row.name = members[i].name
          /\ row.balance = members[i].balance /\ row.spent = members[i].spent
      BY <3>1 DEF MemberRows
    <3>3. members' = [members EXCEPT ![i] = row]
      BY <1>2, <2>1
    <3> HIDE DEF row
    <3> QED
      BY <1>1, <2>1, <3>1, <3>2, <3>3, ChangeRow DEF FundsSound
  <2>2. CASE i \notin Rows
    BY <1>1, <1>2, <2>2
       DEF RInv, RowsSound, MembersSound, MembersAreDistinct, Rows, FundsSound, Fresh
  <2> QED
    BY <2>1, <2>2
<1>4. RowsSound'
  BY <1>1, <1>3, MembersChange
<1> QED
  BY <1>1, <1>3, <1>4, StatusReliedOn, RoomCommit

LEMMA SetNetworkOK == ASSUME RInv, NEW r \in Requests, SetNetwork(r) PROVE RInv'
<1> DEFINE i == req[r].row
<1>1. status' = status /\ End(r) /\ UNCHANGED <<accountVars, elapsed, created, finishing>>
  BY DEF SetNetwork
<1>2. PICK name \in Names :
          members' = IF i \in Rows /\ NameIsFree(i, name)
                     THEN [members EXCEPT ![i].name = name] ELSE members
  BY DEF SetNetwork
<1>3. MembersSound' /\ Rows' = Rows
  <2>1. CASE i \in Rows /\ NameIsFree(i, name)
    <3> DEFINE row == [members[i] EXCEPT !.name = name]
    <3>1. members[i] \in MemberRows /\ FundsSound(members[i]) /\ (Fresh => members[i].spent = 0)
      BY <2>1 DEF RInv, RowsSound, MembersSound, Rows
    <3>2. /\ row \in MemberRows /\ row.user = members[i].user /\ row.name = name
          /\ row.balance = members[i].balance /\ row.spent = members[i].spent
      BY <3>1 DEF MemberRows
    <3>3. members' = [members EXCEPT ![i] = row]
      BY <1>2, <2>1
    <3>4. \A j \in Rows \ {i} : members[j].name # row.name
      BY <2>1, <3>2 DEF NameIsFree
    <3> HIDE DEF row
    <3> QED
      BY <1>1, <2>1, <3>1, <3>2, <3>3, <3>4, ChangeRow DEF FundsSound
  <2>2. CASE ~(i \in Rows /\ NameIsFree(i, name))
    BY <1>1, <1>2, <2>2
       DEF RInv, RowsSound, MembersSound, MembersAreDistinct, Rows, FundsSound, Fresh
  <2> QED
    BY <2>1, <2>2
<1>4. RowsSound'
  BY <1>1, <1>3, MembersChange
<1> QED
  BY <1>1, <1>3, <1>4, StatusReliedOn, RoomCommit

LEMMA PlayOK == ASSUME RInv, NEW i \in RowIds, Play(i) PROVE RInv'
<1> DEFINE row == [members[i] EXCEPT !.balance = @ - 1, !.spent = @ + 1]
<1>1. /\ status = "RUNNING" /\ i \in Rows /\ members[i].balance > 0
      /\ UNCHANGED <<accountVars, req, status, elapsed, created, finishing>>
      /\ members' = [members EXCEPT ![i] = row]
  BY DEF Play
<1>2. members[i] \in MemberRows /\ FundsSound(members[i])
  BY <1>1 DEF RInv, RowsSound, MembersSound, Rows
<1>3. members[i].balance \in Nat /\ members[i].spent \in Nat
      /\ members[i].balance = StartBalance - members[i].spent
  BY <1>1, <1>2 DEF FundsSound, MemberRows
<1>4. members[i].balance - 1 \in 0 .. StartBalance /\ members[i].spent + 1 \in 0 .. StartBalance
  BY <1>1, <1>3, RoomsAssumption
<1>5. /\ row \in MemberRows /\ row.user = members[i].user /\ row.name = members[i].name
      /\ row.balance = members[i].balance - 1 /\ row.spent = members[i].spent + 1
  BY <1>2, <1>4 DEF MemberRows
<1>6. FundsSound(row)
  BY <1>3, <1>5, RoomsAssumption DEF FundsSound
<1>7. ~Fresh
  BY <1>1, NoneIsNoMember DEF Fresh, Statuses
<1> HIDE DEF row
<1>8. MembersSound' /\ Rows' = Rows
  BY <1>1, <1>5, <1>6, <1>7, ChangeRow
<1>9. RowsSound'
  BY <1>1, <1>8, MembersChange
<1> QED
  BY <1>1, <1>8, <1>9, StatusReliedOn, RoomAlone

\* Nobody has spent anything in a lobby, and no second start is under way.
LEMMA StartCommitOK == ASSUME RInv, NEW r \in Requests, StartCommit(r) PROVE RInv'
<1> DEFINE rows == req[r].rows
           funded(i) == [members[i] EXCEPT !.balance = StartBalance]
<1>1. /\ status = "LOBBY" /\ rows \subseteq Rows /\ Starts(req[r])
      /\ status' = "RUNNING" /\ created' = created + 1 /\ End(r)
      /\ UNCHANGED <<accountVars, elapsed, finishing>>
  BY StatusReliedOn DEF StartCommit, At, Starts
<1>2. members' = [i \in RowIds |-> IF i \in rows THEN funded(i) ELSE members[i]]
  BY DEF StartCommit
<1>3. \A i \in Rows : /\ i \in RowIds /\ members[i] \in MemberRows /\ FundsSound(members[i])
                      /\ members[i].spent = 0
  BY <1>1 DEF RInv, RowsSound, MembersSound, Rows, Fresh
<1>4. ASSUME NEW i \in Rows
      PROVE  /\ members'[i] \in MemberRows /\ members'[i].user = members[i].user
             /\ members'[i].name = members[i].name /\ FundsSound(members'[i])
  <2>1. /\ funded(i) \in MemberRows /\ funded(i).user = members[i].user
        /\ funded(i).name = members[i].name /\ funded(i).balance = StartBalance
        /\ funded(i).spent = 0
    BY <1>3, RoomsAssumption DEF MemberRows
  <2>2. FundsSound(funded(i))
    BY <2>1, RoomsAssumption DEF FundsSound
  <2> HIDE DEF funded
  <2> QED
    BY <1>2, <1>3, <2>1, <2>2
<1>5. \A i \in RowIds : i \notin Rows => members'[i] = None
  BY <1>1, <1>2 DEF Rows
<1>6. Rows' = Rows
  BY <1>3, <1>4, <1>5, NoneIsNoMember DEF Rows
<1>7. members' \in [RowIds -> MemberRows \cup {None}]
  <2>1. \A i \in RowIds : members'[i] \in MemberRows \cup {None}
    BY <1>4, <1>5
  <2>2. members' = [i \in RowIds |-> members'[i]]
    BY <1>2
  <2> QED
    BY <2>1, <2>2
<1>8. MembersAreDistinct'
  BY <1>4, <1>6 DEF RInv, RowsSound, MembersSound, MembersAreDistinct
<1>9. status' # None /\ ~Fresh'
  BY <1>1, NoneIsNoMember DEF Statuses, Fresh
<1>10. MembersSound'
  BY <1>4, <1>6, <1>7, <1>8, <1>9 DEF MembersSound, FundsSound
<1>11. RowsSound'
  <2>1. FinishingSound'
    BY <1>1 DEF RInv, RowsSound, FinishingSound
  <2>2. StartIsWhole'
    BY <1>1, <1>9 DEF RInv, RowsSound, StartIsWhole, Fresh
  <2> QED
    BY <1>1, <1>10, <2>1, <2>2 DEF RInv, RowsSound, AccountsSound, accountVars, Statuses
<1>12. \A s \in Requests : s # r => ~Starts(req[s])
  BY <1>1 DEF RInv, ReqsSound, ReqsApart, Apart
<1> QED
  BY <1>1, <1>6, <1>9, <1>11, <1>12, StatusReliedOn, RoomCommit
LEMMA ElapseOK == ASSUME RInv, Elapse PROVE RInv'
<1>1. UNCHANGED <<accountVars, req, status, members, created, finishing>> /\ elapsed' = TRUE
  BY DEF Elapse
<1>2. MembersSound' /\ Rows' = Rows
  BY <1>1 DEF RInv, RowsSound, MembersSound, MembersAreDistinct, Rows, FundsSound, Fresh
<1>3. RowsSound'
  BY <1>1, <1>2 DEF RInv, RowsSound, AccountsSound, accountVars, FinishingSound, StartIsWhole
<1> QED
  BY <1>1, <1>2, <1>3, StatusReliedOn, RoomAlone

\* The net worths are computed for the rows there are, and written to those left.
LEMMA FinishingOK == ASSUME RInv, ComputeNetWorth \/ FinishAborts PROVE RInv'
<1>1. UNCHANGED <<accountVars, req, status, elapsed, members, created>>
  BY DEF ComputeNetWorth, FinishAborts
<1>2. MembersSound' /\ Rows' = Rows
  BY <1>1 DEF RInv, RowsSound, MembersSound, MembersAreDistinct, Rows, FundsSound, Fresh
<1>3. FinishingSound'
  <2>1. CASE ComputeNetWorth
    <3>1. \A i \in Rows : members[i].balance \in 0 .. StartBalance /\ i \in RowIds
      BY DEF RInv, RowsSound, MembersSound, Rows, MemberRows
    <3> QED
      BY <2>1, <3>1 DEF ComputeNetWorth, FinishingSound
  <2>2. CASE FinishAborts
    BY <2>2 DEF FinishAborts, FinishingSound
  <2> QED
    BY <2>1, <2>2
<1>4. RowsSound'
  BY <1>1, <1>2, <1>3 DEF RInv, RowsSound, AccountsSound, accountVars, StartIsWhole
<1> QED
  BY <1>1, <1>2, <1>4, StatusReliedOn, RoomAlone

LEMMA FinishGameOK == ASSUME RInv, FinishGame PROVE RInv'
<1> DEFINE done(i) == [members[i] EXCEPT !.worth = finishing[i]]
<1>1. /\ status = "RUNNING" /\ status' = "FINISHED" /\ finishing' = None
      /\ \A i \in DOMAIN finishing : finishing[i] \in 0 .. StartBalance
      /\ UNCHANGED <<accountVars, req, elapsed, created>>
  BY DEF FinishGame, RInv, RowsSound, FinishingSound
<1>2. members' = [i \in RowIds |-> IF i \in Rows \cap DOMAIN finishing THEN done(i) ELSE members[i]]
  BY DEF FinishGame
<1>3. \A i \in Rows : i \in RowIds /\ members[i] \in MemberRows /\ FundsSound(members[i])
  BY DEF RInv, RowsSound, MembersSound, Rows
<1>4. ASSUME NEW i \in Rows
      PROVE  /\ members'[i] \in MemberRows /\ members'[i].user = members[i].user
             /\ members'[i].name = members[i].name /\ FundsSound(members'[i])
  <2>1. CASE i \in DOMAIN finishing
    <3>1. /\ done(i) \in MemberRows /\ done(i).user = members[i].user
          /\ done(i).name = members[i].name /\ done(i).balance = members[i].balance
          /\ done(i).spent = members[i].spent
      BY <1>1, <1>3, <2>1 DEF MemberRows
    <3> HIDE DEF done
    <3> QED
      BY <1>2, <1>3, <2>1, <3>1 DEF FundsSound
  <2>2. CASE i \notin DOMAIN finishing
    BY <1>2, <1>3, <2>2
  <2> QED
    BY <2>1, <2>2
<1>5. \A i \in RowIds : i \notin Rows => members'[i] = None
  BY <1>2 DEF Rows
<1>6. Rows' = Rows
  BY <1>3, <1>4, <1>5, NoneIsNoMember DEF Rows
<1>7. members' \in [RowIds -> MemberRows \cup {None}]
  <2>1. \A i \in RowIds : members'[i] \in MemberRows \cup {None}
    BY <1>4, <1>5
  <2>2. members' = [i \in RowIds |-> members'[i]]
    BY <1>2
  <2> QED
    BY <2>1, <2>2
<1>8. MembersAreDistinct'
  BY <1>4, <1>6 DEF RInv, RowsSound, MembersSound, MembersAreDistinct
<1>9. status' # None /\ ~Fresh' /\ status # None /\ status # "LOBBY"
  BY <1>1, NoneIsNoMember DEF Statuses, Fresh
<1>10. MembersSound'
  BY <1>4, <1>6, <1>7, <1>8, <1>9 DEF MembersSound, FundsSound
<1>11. RowsSound'
  <2>1. FinishingSound'
    BY <1>1 DEF FinishingSound
  <2>2. StartIsWhole'
    BY <1>1, <1>9 DEF RInv, RowsSound, StartIsWhole, Fresh
  <2> QED
    BY <1>1, <1>10, <2>1, <2>2 DEF RInv, RowsSound, AccountsSound, accountVars, Statuses
<1>12. \A s \in Requests : ~Starts(req[s])
  BY <1>9, StatusReliedOn
<1> QED
  BY <1>1, <1>6, <1>9, <1>11, <1>12, StatusReliedOn, RoomAlone

-----------------------------------------------------------------------------
LEMMA RoomsInitOK == Init => RInv
<1> SUFFICES ASSUME Init PROVE RInv
  OBVIOUS
<1>1. Rows = {}
  BY DEF Init, Rows
<1>2. MembersSound
  BY <1>1 DEF Init, MembersSound, MembersAreDistinct
<1>3. RowsSound
  BY <1>2 DEF Init, AccountsInit, RowsSound, AccountsSound, FinishingSound, StartIsWhole
<1>4. ReqsSound
  <2>1. Idle \in ReqRecords /\ \A r \in Requests : req[r] = Idle
    BY IdleSound DEF Init, AccountsInit, ReqSound
  <2> QED
    BY <2>1, IdleSound DEF Init, AccountsInit, ReqsSound, ReqsApart, Apart
<1> QED
  BY <1>3, <1>4 DEF RInv

LEMMA RoomsStepOK == RInv /\ [Next]_vars => RInv'
<1> SUFFICES ASSUME RInv, [Next]_vars PROVE RInv'
  OBVIOUS
<1>1. CASE AccountsStep /\ UNCHANGED roomVars
  BY <1>1, RegisterOK, LoginOK, CreateSessionOK, SetPasswordOK, DeleteSessionsOK, EndSessionOK,
     ForgotPasswordOK, ExpireResetOK, ConsumeTokenOK
  DEF AccountsStep
<1>2. CASE \E r \in Requests : Abort(r) /\ UNCHANGED roomVars
  BY <1>2, AbortOK
<1>3. CASE RoomStep
  BY <1>3, AuthenticateOK, CreateGameOK, JoinReadOK, JoinCommitOK, ReadRowOK, LeaveCommitOK,
     SetReadyOK, SetNetworkOK, StartRoomOK, StartMembersOK, StartCommitOK, PlayOK, ElapseOK,
     FinishingOK, FinishGameOK
  DEF RoomStep
<1>4. CASE UNCHANGED vars
  <2>1. UNCHANGED <<accountVars, req, roomVars>> /\ UNCHANGED resets
    BY <1>4 DEF vars, accountVars
  <2>2. AccountsSound'
    BY <2>1 DEF RInv, RowsSound, AccountsSound, accountVars
  <2> QED
    BY <2>1, <2>2, TokensUsed, RowStep
<1> QED
  BY <1>1, <1>2, <1>3, <1>4 DEF Next

\* The invariant that the theorems below are read from.
THEOREM RoomsInductive == Spec => []RInv
<1> QED
  BY RoomsInitOK, RoomsStepOK, PTL DEF Spec

\* Every user, session, token, room and member row, and every request, has its type.
THEOREM RoomsTypesCorrect == Spec => []RoomsTypeOK
<1> QED
  BY RoomsInductive, RInvImplies, PTL

\* join_game and set_network: no user is a member twice, no network name is taken twice.
THEOREM MembersStayDistinct == Spec => []MembersAreDistinct
<1> QED
  BY RoomsInductive, RInvImplies, PTL

\* start_game: overlapping and failing starts create the stations of a game once.
THEOREM StartsAreWhole == Spec => []StartIsWhole
<1> QED
  BY RoomsInductive, RInvImplies, PTL

\* start_game gives the starting balance before anything is spent, and never again.
THEOREM SpendingStays == Spec => []SpendingIsKept
<1> QED
  BY RoomsInductive, RInvImplies, PTL

\* consume_reset_token: two requests never reset a password with one token.
THEOREM TokensWorkOnce == Spec => []OneResetPerToken
<1> QED
  BY RoomsInductive, RInvImplies, PTL
=============================================================================
