------------------------------ MODULE Accounts ------------------------------
(***************************************************************************)
(* Users, their login sessions and password resets                         *)
(* (services/auth_service.py, core/session.py, core/password_reset.py).    *)
(*                                                                         *)
(* An action is a transaction or the reads before one; a request is what   *)
(* it remembers between them, and may be aborted there.  An expired        *)
(* session and an expired or used reset token are never accepted again, so *)
(* they are removed, and their ids may be used once more.  The limits on   *)
(* the rate of attempts are left out.                                      *)
(***************************************************************************)
EXTENDS Naturals, FiniteSets

CONSTANTS
    Users,      \* emails
    Requests,   \* requests under way: bounds how many at once
    SessionIds, \* bounds how many sessions are valid at once
    ResetIds,   \* bounds how many reset tokens are valid at once
    Passwords,
    None

ASSUME AccountsAssumption == None \notin Users \cup SessionIds \cup ResetIds \cup Passwords

VARIABLES
    password,  \* of the users rows, None before the registration
    sessions,  \* sessions rows: whose
    resets,    \* password_reset_tokens rows: whose
    req        \* what each request remembers

accountVars == <<password, sessions, resets>>

Idle == [pc |-> "idle", user |-> None, word |-> None, row |-> None, rows |-> {}]

Registered(u) == password[u] # None

AccountsInit ==
    /\ password = [u \in Users |-> None]
    /\ sessions = [k \in SessionIds |-> None]
    /\ resets = [t \in ResetIds |-> None]
    /\ req = [r \in Requests |-> Idle]

At(r, pc) == req[r].pc = pc

Goto(r, pc) == req' = [req EXCEPT ![r].pc = pc]

End(r) == req' = [req EXCEPT ![r] = Idle]

Abort(r) == ~At(r, "idle") /\ End(r) /\ UNCHANGED accountVars

-----------------------------------------------------------------------------
(* register_user, login_user, create_session, logout_user.                 *)

\* The commit of the users row; a second row with the email fails.
Register(r, u) ==
    /\ At(r, "idle")
    /\ ~Registered(u)
    /\ \E p \in Passwords : password' = [password EXCEPT ![u] = p]
    /\ req' = [req EXCEPT ![r].pc = "session", ![r].user = u]
    /\ UNCHANGED <<sessions, resets>>

Login(r, u) ==
    /\ At(r, "idle")
    /\ Registered(u)
    /\ req' = [req EXCEPT ![r].pc = "session", ![r].user = u]
    /\ UNCHANGED accountVars

CreateSession(r) ==
    /\ At(r, "session")
    /\ \E k \in SessionIds :
           /\ sessions[k] = None
           /\ sessions' = [sessions EXCEPT ![k] = req[r].user]
    /\ End(r)
    /\ UNCHANGED <<password, resets>>

\* Logging out, or expiring.
EndSession(k) ==
    /\ sessions[k] # None
    /\ sessions' = [sessions EXCEPT ![k] = None]
    /\ UNCHANGED <<password, resets, req>>

-----------------------------------------------------------------------------
(* request_password_reset, reset_password.                                 *)

ForgotPassword(u, t) ==
    /\ Registered(u)
    /\ resets[t] = None
    /\ \A r \in Requests : req[r].word # t
    /\ resets' = [resets EXCEPT ![t] = u]
    /\ UNCHANGED <<password, sessions, req>>

ExpireReset(t) ==
    /\ resets[t] # None
    /\ resets' = [resets EXCEPT ![t] = None]
    /\ UNCHANGED <<password, sessions, req>>

\* Fault: the token is only read here, as in a SELECT before the UPDATE.
ReadToken(t) == resets

UseToken(t) == [resets EXCEPT ![t] = None]

ConsumeToken(r, t) ==
    /\ At(r, "idle")
    /\ resets[t] # None
    /\ resets' = UseToken(t)
    /\ req' = [req EXCEPT ![r].pc = "password", ![r].user = resets[t], ![r].word = t]
    /\ UNCHANGED <<password, sessions>>

SetPassword(r) ==
    /\ At(r, "password")
    /\ \E p \in Passwords : password' = [password EXCEPT ![req[r].user] = p]
    /\ Goto(r, "sessions")
    /\ UNCHANGED <<sessions, resets>>

DeleteSessions(r) ==
    /\ At(r, "sessions")
    /\ sessions' = [k \in SessionIds |-> IF sessions[k] = req[r].user THEN None ELSE sessions[k]]
    /\ End(r)
    /\ UNCHANGED <<password, resets>>

AccountsStep ==
    \/ \E r \in Requests, u \in Users : Register(r, u) \/ Login(r, u)
    \/ \E r \in Requests : CreateSession(r) \/ SetPassword(r) \/ DeleteSessions(r)
    \/ \E k \in SessionIds : EndSession(k)
    \/ \E u \in Users, t \in ResetIds : ForgotPassword(u, t)
    \/ \E t \in ResetIds : ExpireReset(t)
    \/ \E r \in Requests, t \in ResetIds : ConsumeToken(r, t)

-----------------------------------------------------------------------------
Resetting(r) == At(r, "password") \/ At(r, "sessions")

\* consume_reset_token: "two concurrent reset attempts with the same token can't both
\* succeed", whatever the requests do between their transactions.
OneResetPerToken ==
    \A r, s \in Requests : r # s /\ Resetting(r) /\ Resetting(s) => req[r].word # req[s].word
=============================================================================
