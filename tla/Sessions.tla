------------------------------ MODULE Sessions ------------------------------
(***************************************************************************)
(* Users, seller accounts and login sessions (src/backend/internal/auth)   *)
(* and the guards every request passes.  A user owns at most one seller    *)
(* account, which the model names by the user's e-mail address; passwords, *)
(* token hashes and cookies are left out: a token is a model value that is *)
(* never issued twice.                                                     *)
(***************************************************************************)
EXTENDS Naturals

CONSTANTS Emails,       \* the users there may be
          AdminEmails,  \* the configured administrators
          Registered,   \* users that exist at the start: e-mail -> row
          Tokens,       \* session tokens
          SessionTTL,   \* how long a session lasts
          MaxTime       \* bound: the clock stops here

ASSUME SessionConstants ==
    /\ AdminEmails \subseteq Emails
    /\ SessionTTL \in Nat \ {0} /\ MaxTime \in Nat
    /\ \A e \in DOMAIN Registered :
          Registered[e] \in [status : {"active", "disabled"}, account : BOOLEAN]

VARIABLES user,      \* users and seller_accounts, joined
          session,   \* sessions
          now,       \* the clock
          loggedOut  \* ghost: the tokens whose holder has logged out

sessionVars == <<user, session, now, loggedOut>>

-----------------------------------------------------------------------------
(* Rows and statements. *)

NoUser == [status |-> "none", account |-> FALSE]
NoSession == [stored |-> FALSE, user |-> "nobody", expires |-> 0, revoked |-> FALSE]

createUser(e) == [user EXCEPT ![e].status = "active"]
createSellerAccount(users, e) == [users EXCEPT ![e].account = TRUE]
createSession(t, e) ==
    [session EXCEPT ![t] = [stored |-> TRUE, user |-> e, expires |-> now + SessionTTL, revoked |-> FALSE]]

\* Mutant: a revoked session is still found.
getSessionByTokenHash(t) == session[t].stored /\ session[t].expires > now

getActiveSessionByTokenHash(t) ==
    session[t].stored /\ ~session[t].revoked /\ session[t].expires > now

revokeSessionByTokenHash(t) == [session EXCEPT ![t].revoked = TRUE]

deleteExpiredSessions ==
    [t \in Tokens |-> IF session[t].stored /\ session[t].expires < now
                      THEN [session[t] EXCEPT !.stored = FALSE] ELSE session[t]]

getUserByEmail(e) == user[e].status # "none"
getUserByID(t) == user[session[t].user]
getSellerAccountByUserID(e) == user[e].account

-----------------------------------------------------------------------------
(* Who a request comes from, and what it may reach. *)

IsAdminUser(e) == e \in AdminEmails
Holder(t) == session[t].user

GetCurrentUser(t) == getActiveSessionByTokenHash(t) /\ getUserByID(t).status = "active"

Middleware(t) == GetCurrentUser(t)
RequireSellerAccount(t) == Middleware(t) /\ getSellerAccountByUserID(Holder(t))
AdminMiddleware(t) == Middleware(t) /\ IsAdminUser(Holder(t))

-----------------------------------------------------------------------------
SessionInit ==
    /\ user = [e \in Emails |-> IF e \in DOMAIN Registered THEN Registered[e] ELSE NoUser]
    /\ session = [t \in Tokens |-> NoSession]
    /\ now = 0
    /\ loggedOut = {}

Fresh(t) == session[t] = NoSession

(* One transaction: the user, the seller account and the first session. *)
Register(e, t) ==
    /\ user[e].status = "none" /\ Fresh(t)
    /\ user' = createSellerAccount(createUser(e), e)
    /\ session' = createSession(t, e)
    /\ UNCHANGED <<now, loggedOut>>

Login(e, t) ==
    /\ getUserByEmail(e) /\ user[e].status = "active" /\ Fresh(t)
    /\ getSellerAccountByUserID(e) \/ IsAdminUser(e)
    /\ session' = createSession(t, e)
    /\ UNCHANGED <<user, now, loggedOut>>

Logout(t) ==
    /\ Middleware(t)
    /\ session' = revokeSessionByTokenHash(t)
    /\ loggedOut' = loggedOut \cup {t}
    /\ UNCHANGED <<user, now>>

DeleteExpiredSessions ==
    /\ session' = deleteExpiredSessions
    /\ UNCHANGED <<user, now, loggedOut>>

Tick ==
    /\ now < MaxTime
    /\ now' = now + 1
    /\ UNCHANGED <<user, session, loggedOut>>

SessionNext ==
    \/ \E e \in Emails, t \in Tokens : Register(e, t) \/ Login(e, t)
    \/ \E t \in Tokens : Logout(t)
    \/ DeleteExpiredSessions
    \/ Tick

SessionSpec == SessionInit /\ [][SessionNext]_sessionVars

-----------------------------------------------------------------------------
(* A session that has ended stays ended, whatever the cleanup does and
   whoever logs in again; nobody is served after logging out; and until then
   only the end of its lifetime takes a session away: the cleanup never does. *)
SessionEndIsFinal ==
    [][\A t \in Tokens :
         /\ t \in loggedOut => ~GetCurrentUser(t)'
         /\ ~Fresh(t) /\ ~GetCurrentUser(t) => ~GetCurrentUser(t)'
         /\ GetCurrentUser(t) /\ ~GetCurrentUser(t)' =>
               t \in loggedOut' \/ now' >= session[t].expires]_sessionVars
=============================================================================
