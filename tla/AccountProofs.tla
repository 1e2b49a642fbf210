---------------------------- MODULE AccountProofs ----------------------------
(***************************************************************************)
(* For any users, secrets, rows and requests: the sessions of a seller,    *)
(* the Ozon credentials of his account, what the support staff do to it,   *)
(* whose rows the answers about it are made of, and that a client who      *)
(* pages through a listing misses none of them.                            *)
(***************************************************************************)
EXTENDS AccountData, OzonConnection, Admin, FiniteSetTheorems, SequenceTheorems, WellFoundedInduction, TLAPS

-----------------------------------------------------------------------------
(* Sessions. *)

User == [status : {"none", "active", "disabled"}, account : BOOLEAN]
Session == [stored : BOOLEAN, user : Emails \cup {"nobody"}, expires : Nat, revoked : BOOLEAN]

SessionTypes ==
    /\ now \in Nat
    /\ user \in [Emails -> User]
    /\ session \in [Tokens -> Session]
    /\ loggedOut \subseteq Tokens

(* A session that was ever opened belongs to a user who exists. *)
Used(t) ==
    /\ session[t].expires # 0
    /\ session[t].user \in Emails
    /\ user[session[t].user].status # "none"

SessionInv ==
    /\ SessionTypes
    /\ \A t \in Tokens : Fresh(t) \/ Used(t)
    /\ \A t \in loggedOut : session[t].expires # 0 /\ session[t].revoked

(* SessionEndIsFinal for one token. *)
EndIsFinal(t) ==
    /\ t \in loggedOut => ~GetCurrentUser(t)'
    /\ ~Fresh(t) /\ ~GetCurrentUser(t) => ~GetCurrentUser(t)'
    /\ GetCurrentUser(t) /\ ~GetCurrentUser(t)' => t \in loggedOut' \/ now' >= session[t].expires

\* The row that Register and Login insert.
LEMMA OpenedSession ==
  ASSUME SessionTypes, NEW e \in Emails, NEW t \in Tokens, session' = createSession(t, e)
  PROVE  /\ session' \in [Tokens -> Session]
         /\ session'[t].stored /\ session'[t].user = e /\ session'[t].expires # 0 /\ session'[t].expires \in Nat
         /\ \A q \in Tokens \ {t} : session'[q] = session[q]
<1> DEFINE row == [stored |-> TRUE, user |-> e, expires |-> now + SessionTTL, revoked |-> FALSE]
<1>1. now + SessionTTL \in Nat /\ now + SessionTTL # 0
  BY SessionConstants DEF SessionTypes
<1>2. row \in Session /\ row.stored /\ row.user = e /\ row.expires # 0 /\ row.expires \in Nat
  BY <1>1 DEF Session
<1>3. session' = [session EXCEPT ![t] = row]
  BY DEF createSession
<1>4. QED
  BY <1>2, <1>3 DEF SessionTypes

\* What a request finds depends on its own session and on its user only.
LEMMA SameAnswer ==
  ASSUME NEW t \in Tokens, session'[t] = session[t], now' = now,
         user'[session[t].user].status = user[session[t].user].status
  PROVE  GetCurrentUser(t)' <=> GetCurrentUser(t)
  BY DEF GetCurrentUser, getActiveSessionByTokenHash, getUserByID

LEMMA FreshOpensNothing ==
  ASSUME NEW t \in Tokens, Fresh(t)
  PROVE  ~GetCurrentUser(t) /\ session[t].expires = 0 /\ ~session[t].stored
  BY DEF Fresh, NoSession, GetCurrentUser, getActiveSessionByTokenHash

LEMMA OpenInv ==
  ASSUME SessionInv, NEW e \in Emails, NEW t \in Tokens, Fresh(t), session' = createSession(t, e),
         now' = now, loggedOut' = loggedOut, user' \in [Emails -> User], user'[e].status # "none",
         \A d \in Emails : user[d].status # "none" => user'[d].status = user[d].status
  PROVE  SessionInv' /\ \A q \in Tokens : EndIsFinal(q)
<1>1. /\ session' \in [Tokens -> Session]
      /\ session'[t].stored /\ session'[t].user = e /\ session'[t].expires # 0
      /\ \A q \in Tokens \ {t} : session'[q] = session[q]
  BY OpenedSession DEF SessionInv
<1>2. SessionTypes'
  BY <1>1 DEF SessionInv, SessionTypes
<1>3. t \notin loggedOut /\ ~GetCurrentUser(t)
  BY FreshOpensNothing DEF SessionInv
<1>4. \A q \in loggedOut : session'[q].expires # 0 /\ session'[q].revoked
  BY <1>1, <1>3 DEF SessionInv, SessionTypes
<1>5. ASSUME NEW q \in Tokens
      PROVE  (Fresh(q) \/ Used(q))'
  <2>1. CASE q = t
    BY <1>1, <2>1 DEF Used
  <2>2. CASE q # t /\ Fresh(q)
    BY <1>1, <2>2 DEF Fresh
  <2>3. CASE q # t /\ Used(q)
    BY <1>1, <2>3 DEF Used
  <2>4. QED
    BY <2>1, <2>2, <2>3 DEF SessionInv
<1>6. ASSUME NEW q \in Tokens, q # t, ~Fresh(q)
      PROVE  GetCurrentUser(q)' <=> GetCurrentUser(q)
  <2>1. Used(q) /\ session'[q] = session[q]
    BY <1>1, <1>6 DEF SessionInv
  <2>2. user'[session[q].user].status = user[session[q].user].status
    BY <2>1 DEF Used
  <2>3. QED
    BY <2>1, <2>2, SameAnswer
<1>7. ASSUME NEW q \in loggedOut
      PROVE  ~GetCurrentUser(q)'
  BY <1>4, <1>7 DEF GetCurrentUser, getActiveSessionByTokenHash
<1>8. \A q \in Tokens : EndIsFinal(q)
  BY <1>3, <1>6, <1>7, FreshOpensNothing DEF EndIsFinal
<1>9. QED
  BY <1>2, <1>4, <1>5, <1>8 DEF SessionInv

LEMMA RegisterInv ==
  ASSUME SessionInv, NEW e \in Emails, NEW t \in Tokens, Register(e, t)
  PROVE  SessionInv' /\ \A q \in Tokens : EndIsFinal(q)
<1>1. /\ Fresh(t) /\ session' = createSession(t, e) /\ now' = now /\ loggedOut' = loggedOut
      /\ user[e].status = "none" /\ user' = createSellerAccount(createUser(e), e)
  BY DEF Register
<1> DEFINE row == [[user[e] EXCEPT !.status = "active"] EXCEPT !.account = TRUE]
<1>2. user \in [Emails -> User]
  BY DEF SessionInv, SessionTypes
<1>3. row \in User /\ row.status = "active"
  BY <1>2 DEF User
<1>4. user' = [user EXCEPT ![e] = row]
  BY <1>1, <1>2 DEF createSellerAccount, createUser
<1>5. /\ user' \in [Emails -> User] /\ user'[e].status # "none"
      /\ \A d \in Emails : user[d].status # "none" => user'[d].status = user[d].status
  BY <1>1, <1>2, <1>3, <1>4
<1>6. QED
  BY <1>1, <1>5, OpenInv

LEMMA LoginInv ==
  ASSUME SessionInv, NEW e \in Emails, NEW t \in Tokens, Login(e, t)
  PROVE  SessionInv' /\ \A q \in Tokens : EndIsFinal(q)
<1>1. /\ Fresh(t) /\ session' = createSession(t, e) /\ now' = now /\ loggedOut' = loggedOut
      /\ user[e].status # "none" /\ user' = user
  BY DEF Login, getUserByEmail
<1>2. user \in [Emails -> User]
  BY DEF SessionInv, SessionTypes
<1>3. QED
  BY <1>1, <1>2, OpenInv

LEMMA LogoutInv ==
  ASSUME SessionInv, NEW t \in Tokens, Logout(t)
  PROVE  SessionInv' /\ \A q \in Tokens : EndIsFinal(q)
<1> DEFINE row == [session[t] EXCEPT !.revoked = TRUE]
<1>1. /\ GetCurrentUser(t) /\ session' = [session EXCEPT ![t] = row]
      /\ loggedOut' = loggedOut \cup {t} /\ user' = user /\ now' = now
  BY DEF Logout, Middleware, revokeSessionByTokenHash
<1>2. SessionTypes /\ session[t] \in Session
  BY DEF SessionInv, SessionTypes
<1>3. /\ row \in Session /\ row.revoked /\ row.expires = session[t].expires /\ row.user = session[t].user
  BY <1>2 DEF Session
<1>4. /\ session' \in [Tokens -> Session] /\ session'[t] = row
      /\ \A q \in Tokens \ {t} : session'[q] = session[q]
  BY <1>1, <1>2, <1>3 DEF SessionTypes
<1>5. ~Fresh(t) /\ Used(t)
  BY <1>1, FreshOpensNothing DEF SessionInv
<1>6. SessionTypes'
  BY <1>1, <1>2, <1>4 DEF SessionTypes
<1>7. \A q \in loggedOut' : session'[q].expires # 0 /\ session'[q].revoked
  BY <1>1, <1>3, <1>4, <1>5 DEF SessionInv, SessionTypes, Used
<1>8. ASSUME NEW q \in Tokens
      PROVE  (Fresh(q) \/ Used(q))'
  <2>1. CASE q = t
    BY <1>1, <1>3, <1>4, <1>5, <2>1 DEF Used
  <2>2. CASE q # t /\ Fresh(q)
    BY <1>4, <2>2 DEF Fresh
  <2>3. CASE q # t /\ Used(q)
    BY <1>1, <1>4, <2>3 DEF Used
  <2>4. QED
    BY <2>1, <2>2, <2>3 DEF SessionInv
<1>9. ASSUME NEW q \in loggedOut'
      PROVE  ~GetCurrentUser(q)'
  BY <1>7, <1>9 DEF GetCurrentUser, getActiveSessionByTokenHash
<1>10. ASSUME NEW q \in Tokens, q # t
       PROVE  GetCurrentUser(q)' <=> GetCurrentUser(q)
  BY <1>1, <1>4, <1>10, SameAnswer
<1>11. \A q \in Tokens : EndIsFinal(q)
  BY <1>1, <1>9, <1>10 DEF EndIsFinal
<1>12. QED
  BY <1>6, <1>7, <1>8, <1>11 DEF SessionInv

LEMMA DeleteInv ==
  ASSUME SessionInv, DeleteExpiredSessions
  PROVE  SessionInv' /\ \A q \in Tokens : EndIsFinal(q)
<1>1. user' = user /\ now' = now /\ loggedOut' = loggedOut /\ SessionTypes
  BY DEF DeleteExpiredSessions, SessionInv
<1>2. ASSUME NEW t \in Tokens
      PROVE  /\ session'[t] \in Session
             /\ session'[t].user = session[t].user /\ session'[t].expires = session[t].expires
             /\ session'[t].revoked = session[t].revoked
             /\ ~session'[t].stored \/ session'[t] = session[t]
             /\ session'[t] = session[t] \/ session[t].expires < now
             /\ Fresh(t) => session'[t] = session[t]
  <2>1. session'[t] = IF session[t].stored /\ session[t].expires < now
                      THEN [session[t] EXCEPT !.stored = FALSE] ELSE session[t]
    BY DEF DeleteExpiredSessions, deleteExpiredSessions
  <2>2. session[t] \in Session
    BY <1>1 DEF SessionTypes
  <2>3. CASE session[t].stored /\ session[t].expires < now
    BY <2>1, <2>2, <2>3, FreshOpensNothing DEF Session
  <2>4. CASE ~(session[t].stored /\ session[t].expires < now)
    BY <2>1, <2>2, <2>4 DEF Session
  <2>5. QED
    BY <2>3, <2>4
<1>3. session' \in [Tokens -> Session]
  BY <1>2 DEF DeleteExpiredSessions, deleteExpiredSessions
<1>4. SessionTypes'
  BY <1>1, <1>3 DEF SessionTypes
<1>5. ASSUME NEW t \in Tokens
      PROVE  (Fresh(t) \/ Used(t))'
  <2>1. CASE Fresh(t)
    BY <1>2, <2>1 DEF Fresh
  <2>2. CASE Used(t)
    BY <1>1, <1>2, <2>2 DEF Used
  <2>3. QED
    BY <2>1, <2>2 DEF SessionInv
<1>6. \A t \in loggedOut' : session'[t].expires # 0 /\ session'[t].revoked
  BY <1>1, <1>2 DEF SessionInv, SessionTypes
<1>7. ASSUME NEW t \in Tokens
      PROVE  GetCurrentUser(t)' <=> GetCurrentUser(t)
  <2>1. session[t].expires \in Nat /\ now \in Nat
    BY <1>1 DEF SessionTypes, Session
  <2>2. CASE session'[t] = session[t]
    BY <1>1, <2>2, SameAnswer
  <2>3. CASE session[t].expires < now /\ ~session'[t].stored
    BY <2>1, <2>3 DEF GetCurrentUser, getActiveSessionByTokenHash
  <2>4. QED
    BY <1>2, <2>2, <2>3
<1>8. ASSUME NEW t \in loggedOut
      PROVE  ~GetCurrentUser(t)'
  BY <1>1, <1>6, <1>8 DEF GetCurrentUser, getActiveSessionByTokenHash
<1>9. \A t \in Tokens : EndIsFinal(t)
  BY <1>7, <1>8 DEF EndIsFinal
<1>10. QED
  BY <1>4, <1>5, <1>6, <1>9 DEF SessionInv

LEMMA TickInv ==
  ASSUME SessionInv, Tick
  PROVE  SessionInv' /\ \A q \in Tokens : EndIsFinal(q)
<1>1. user' = user /\ session' = session /\ loggedOut' = loggedOut /\ now' = now + 1 /\ SessionTypes
  BY DEF Tick, SessionInv
<1>2. SessionInv'
  BY <1>1 DEF SessionInv, SessionTypes, Used, Fresh
<1>3. ASSUME NEW t \in Tokens
      PROVE  EndIsFinal(t)
  <2>1. session[t].expires \in Nat /\ now \in Nat
    BY <1>1 DEF SessionTypes, Session
  <2>2. GetCurrentUser(t)' => GetCurrentUser(t)
    BY <1>1, <2>1 DEF GetCurrentUser, getActiveSessionByTokenHash, getUserByID
  <2>3. GetCurrentUser(t) /\ ~GetCurrentUser(t)' => now' >= session[t].expires
    BY <1>1, <2>1 DEF GetCurrentUser, getActiveSessionByTokenHash, getUserByID
  <2>4. t \in loggedOut => ~GetCurrentUser(t)
    BY DEF SessionInv, GetCurrentUser, getActiveSessionByTokenHash
  <2>5. QED
    BY <2>2, <2>3, <2>4 DEF EndIsFinal
<1>4. QED
  BY <1>2, <1>3

LEMMA SessionStep ==
  ASSUME SessionInv, [SessionNext]_sessionVars
  PROVE  SessionInv' /\ (SessionNext => \A t \in Tokens : EndIsFinal(t))
<1>1. CASE SessionNext
  BY <1>1, RegisterInv, LoginInv, LogoutInv, DeleteInv, TickInv DEF SessionNext
<1>2. CASE UNCHANGED sessionVars
  <2>1. SessionInv'
    BY <1>2 DEF sessionVars, SessionInv, SessionTypes, Used, Fresh
  <2>2. QED
    BY <1>1, <2>1
<1>3. QED
  BY <1>1, <1>2

LEMMA OpeningSessions == SessionInit => SessionInv
<1> SUFFICES ASSUME SessionInit PROVE SessionInv
  OBVIOUS
<1>1. user \in [Emails -> User]
  <2>1. NoUser \in User
    BY DEF NoUser, User
  <2>2. \A e \in Emails : e \in DOMAIN Registered => Registered[e] \in User
    BY SessionConstants DEF User
  <2>3. QED
    BY <2>1, <2>2 DEF SessionInit
<1>2. NoSession \in Session
  BY DEF NoSession, Session
<1>3. QED
  BY <1>1, <1>2 DEF SessionInit, SessionInv, SessionTypes, Fresh

\* Sessions belong to users who exist, and a session its holder left is revoked.
THEOREM SessionInvHolds == SessionSpec => []SessionInv
<1>1. QED
  BY OpeningSessions, SessionStep, PTL DEF SessionSpec

\* A session that has ended stays ended and nobody is served after logging out,
\* whatever DeleteExpiredSessions removes and whoever logs in again.
THEOREM EndedSessionsStayEnded == SessionSpec => SessionEndIsFinal
<1>1. ASSUME SessionInv, [SessionNext]_sessionVars
      PROVE  [\A t \in Tokens : EndIsFinal(t)]_sessionVars
  BY <1>1, SessionStep
<1>2. SessionSpec => [][\A t \in Tokens : EndIsFinal(t)]_sessionVars
  BY <1>1, SessionInvHolds, PTL DEF SessionSpec
<1>3. QED
  BY <1>2 DEF SessionEndIsFinal, EndIsFinal

-----------------------------------------------------------------------------
(* The Ozon connection. *)

SecretOrNone == Secrets \cup {NoSecret}
Row == [exists : BOOLEAN, secret : SecretOrNone, status : {"none", "draft", "valid", "invalid"},
        result : Results \cup {"none"}, overtaken : BOOLEAN,
        token : SecretOrNone, tokenStatus : {"none", "not_configured", "unknown", "valid", "invalid"},
        tokenResult : Results \cup {"none"}, tokenOvertaken : BOOLEAN]
Check == [stage : {"idle", "first", "second", "verdict", "over"}, kind : {"none", "credentials", "token"},
          secret : SecretOrNone, attempt : Nat, result : Results \cup {"none"}, overtaken : BOOLEAN]

UnderWay(c) == c.stage \in {"first", "second", "verdict"}

(* What Ozon has shown of a secret when its check ends with a verdict. *)
CredentialsVerdict(secret, result) ==
    /\ result = "valid" => "seller_info" \in Allowed[secret]
    /\ result = "invalid_credentials" => ~({"seller_info", "roles"} \subseteq Allowed[secret])
TokenVerdict(secret, result) ==
    /\ result = "valid" => "campaigns" \in Allowed[secret]
    /\ result = "invalid_credentials" => "campaigns" \notin Allowed[secret]

(* The two halves of a row: VerdictIsAboutTheStoredSecret for a row that exists. *)
CredentialsAreHonest(l) ==
    /\ l.secret \in Secrets
    /\ l.status = "draft" <=> l.result = "none"
    /\ l.result # "none" => l.status = StatusOf(l.result)
    /\ ~l.overtaken => CredentialsVerdict(l.secret, l.result)
TokenIsHonest(l) ==
    /\ l.tokenStatus \in {"not_configured", "unknown"} <=> l.tokenResult = "none"
    /\ l.tokenResult # "none" => l.tokenStatus = StatusOf(l.tokenResult)
    /\ ~l.tokenOvertaken => /\ l.token = NoSecret => l.tokenStatus = "not_configured"
                            /\ TokenVerdict(l.token, l.tokenResult)

(* A check under way knows what it checks, unless it was overtaken. *)
CheckIsHonest(c, l) == UnderWay(c) =>
    /\ l.exists
    /\ c.kind \in {"credentials", "token"}
    /\ c.kind = "credentials" /\ ~c.overtaken => c.secret = l.secret
    /\ c.kind = "token" /\ ~c.overtaken => c.secret = l.token /\ c.secret # NoSecret
    /\ c.stage = "second" => c.kind = "credentials" /\ "seller_info" \in Allowed[c.secret]
    /\ c.stage = "verdict" =>
         /\ c.result \in Results
         /\ c.kind = "credentials" => CredentialsVerdict(c.secret, c.result)
         /\ c.kind = "token" => TokenVerdict(c.secret, c.result)

ConnectionInv ==
    /\ link \in Row
    /\ check \in [Checks -> Check]
    /\ link.exists => CredentialsAreHonest(link) /\ TokenIsHonest(link)
    /\ \A k \in Checks : CheckIsHonest(check[k], link)

\* A step on one check leaves the others as they were.
LEMMA OneCheckMoves ==
  ASSUME ConnectionInv, NEW k \in Checks, NEW c \in Check, CheckIsHonest(c, link),
         check' = [check EXCEPT ![k] = c], link' = link
  PROVE  ConnectionInv'
<1>1. check' \in [Checks -> Check]
  BY DEF ConnectionInv
<1>2. ASSUME NEW q \in Checks
      PROVE  CheckIsHonest(check'[q], link')
  BY <1>2 DEF ConnectionInv
<1>3. link' \in Row /\ (link'.exists => CredentialsAreHonest(link') /\ TokenIsHonest(link'))
  BY DEF ConnectionInv
<1>4. QED
  BY <1>1, <1>2, <1>3 DEF ConnectionInv

LEMMA CreateInv ==
  ASSUME ConnectionInv, NEW c \in Secrets, Create(c)
  PROVE  ConnectionInv'
<1>1. ~link.exists /\ link' = CreateOzonConnection(c) /\ check' = check
  BY DEF Create
<1>2. /\ link' \in Row /\ link'.secret = c /\ link'.status = "draft" /\ link'.result = "none"
      /\ link'.token = NoSecret /\ link'.tokenStatus = "not_configured" /\ link'.tokenResult = "none"
  BY <1>1 DEF CreateOzonConnection, NoLink, Row, SecretOrNone
<1>3. CredentialsAreHonest(link') /\ TokenIsHonest(link')
  BY <1>2 DEF CredentialsAreHonest, TokenIsHonest, CredentialsVerdict, TokenVerdict
<1>4. ASSUME NEW k \in Checks
      PROVE  CheckIsHonest(check'[k], link')
  BY <1>1 DEF ConnectionInv, CheckIsHonest
<1>5. QED
  BY <1>1, <1>2, <1>3, <1>4 DEF ConnectionInv

\* A secret is replaced: the checks that have read it are overtaken.
LEMMA OvertakeChecks ==
  ASSUME ConnectionInv, link.exists, NEW kind \in {"credentials", "token"}, Overtake(kind),
         NEW l \in Row, l.exists,
         kind = "token" => l.secret = link.secret, kind = "credentials" => l.token = link.token
  PROVE  /\ check' \in [Checks -> Check]
         /\ \A k \in Checks : CheckIsHonest(check'[k], l)
<1>1. ASSUME NEW k \in Checks
      PROVE  check'[k] \in Check /\ CheckIsHonest(check'[k], l)
  <2>1. check[k] \in Check /\ CheckIsHonest(check[k], link)
    BY DEF ConnectionInv
  <2>2. CASE check[k].kind = kind /\ UnderWay(check[k])
    <3>1. check'[k] = [check[k] EXCEPT !.overtaken = TRUE]
      BY <2>2 DEF Overtake, UnderWay
    <3>2. /\ check'[k] \in Check /\ check'[k].overtaken /\ check'[k].stage = check[k].stage
          /\ check'[k].kind = check[k].kind /\ check'[k].secret = check[k].secret
          /\ check'[k].result = check[k].result
      BY <2>1, <3>1 DEF Check
    <3>3. QED
      BY <2>1, <2>2, <3>2 DEF CheckIsHonest, UnderWay
  <2>3. CASE ~(check[k].kind = kind /\ UnderWay(check[k]))
    <3>1. check'[k] = check[k]
      BY <2>3 DEF Overtake, UnderWay
    <3>2. QED
      BY <2>1, <2>3, <3>1 DEF CheckIsHonest
  <2>4. QED
    BY <2>2, <2>3
<1>2. check' = [k \in Checks |-> check'[k]]
  BY DEF Overtake
<1>3. QED
  BY <1>1, <1>2

LEMMA UpdateInv ==
  ASSUME ConnectionInv, NEW c \in Secrets, Update(c)
  PROVE  ConnectionInv'
<1>1. link.exists /\ link' = UpdateOzonConnectionCredentials(c) /\ Overtake("credentials") /\ link \in Row
  BY DEF Update, ConnectionInv
<1>2. /\ link' \in Row /\ link'.exists /\ link'.secret = c /\ link'.status = "draft" /\ link'.result = "none"
      /\ link'.token = link.token /\ link'.tokenStatus = link.tokenStatus
      /\ link'.tokenResult = link.tokenResult /\ link'.tokenOvertaken = link.tokenOvertaken
  BY <1>1 DEF UpdateOzonConnectionCredentials, Row, SecretOrNone
<1>3. CredentialsAreHonest(link')
  BY <1>2 DEF CredentialsAreHonest, CredentialsVerdict
<1>4. TokenIsHonest(link')
  BY <1>1, <1>2 DEF ConnectionInv, TokenIsHonest
<1>5. QED
  BY <1>1, <1>2, <1>3, <1>4, OvertakeChecks DEF ConnectionInv

\* The two statements that replace the token leave the credentials alone.
LEMMA TokenStatement ==
  ASSUME ConnectionInv, link.exists, Overtake("token"), NEW t \in SecretOrNone,
         link' = [link EXCEPT !.token = t, !.tokenStatus = IF t = NoSecret THEN "not_configured" ELSE "unknown",
                              !.tokenResult = "none", !.tokenOvertaken = FALSE]
  PROVE  ConnectionInv'
<1>1. /\ link' \in Row /\ link'.exists /\ link'.token = t /\ link'.tokenResult = "none"
      /\ link'.tokenStatus = IF t = NoSecret THEN "not_configured" ELSE "unknown"
      /\ link'.secret = link.secret /\ link'.status = link.status /\ link'.result = link.result
      /\ link'.overtaken = link.overtaken
  BY DEF ConnectionInv, Row
<1>2. CredentialsAreHonest(link')
  BY <1>1 DEF ConnectionInv, CredentialsAreHonest
<1>3. TokenIsHonest(link')
  BY <1>1 DEF TokenIsHonest, TokenVerdict
<1>4. QED
  BY <1>1, <1>2, <1>3, OvertakeChecks DEF ConnectionInv

LEMMA SetTokenInv ==
  ASSUME ConnectionInv, NEW t \in Secrets, SetToken(t)
  PROVE  ConnectionInv'
<1>1. t \in SecretOrNone /\ t # NoSecret
  BY ConnectionConstants DEF SecretOrNone
<1>2. QED
  BY <1>1, TokenStatement DEF SetToken, UpdateOzonPerformanceBearerToken

LEMMA ClearTokenInv ==
  ASSUME ConnectionInv, ClearToken
  PROVE  ConnectionInv'
<1>1. NoSecret \in SecretOrNone
  BY DEF SecretOrNone
<1>2. QED
  BY <1>1, TokenStatement DEF ClearToken, ClearOzonPerformanceBearerToken

LEMMA BeginCheckInv ==
  ASSUME ConnectionInv, NEW k \in Checks, BeginCheck(k) \/ BeginTokenCheck(k)
  PROVE  ConnectionInv'
<1> DEFINE Began(kind, s) == [IdleCheck EXCEPT !.stage = "first", !.kind = kind, !.secret = s]
           ended == [IdleCheck EXCEPT !.stage = "over", !.kind = "token"]
<1>1. link \in Row /\ link.exists
  BY DEF ConnectionInv, BeginCheck, BeginTokenCheck
<1>2. CASE BeginCheck(k)
  <2>1. Began("credentials", link.secret) \in Check /\ CheckIsHonest(Began("credentials", link.secret), link)
    BY <1>1 DEF IdleCheck, Check, Row, CheckIsHonest, UnderWay
  <2>2. QED
    BY <1>2, <2>1, OneCheckMoves DEF BeginCheck
<1>3. CASE BeginTokenCheck(k) /\ link.token = NoSecret
  <2>1. ended \in Check /\ CheckIsHonest(ended, link)
    BY DEF IdleCheck, Check, CheckIsHonest, UnderWay, SecretOrNone
  <2>2. QED
    BY <1>3, <2>1, OneCheckMoves DEF BeginTokenCheck
<1>4. CASE BeginTokenCheck(k) /\ link.token # NoSecret
  <2>1. Began("token", link.token) \in Check /\ CheckIsHonest(Began("token", link.token), link)
    BY <1>1, <1>4 DEF IdleCheck, Check, Row, CheckIsHonest, UnderWay
  <2>2. QED
    BY <1>4, <2>1, OneCheckMoves DEF BeginTokenCheck
<1>5. QED
  BY <1>2, <1>3, <1>4

LEMMA CallAgainInv ==
  ASSUME ConnectionInv, NEW k \in Checks, NEW answer, CallAgain(k, answer)
  PROVE  ConnectionInv'
<1> DEFINE c == [check[k] EXCEPT !.attempt = @ + 1]
<1>1. check[k] \in Check /\ CheckIsHonest(check[k], link)
  BY DEF ConnectionInv
<1>2. /\ c \in Check /\ c.stage = check[k].stage /\ c.kind = check[k].kind /\ c.secret = check[k].secret
      /\ c.result = check[k].result /\ c.overtaken = check[k].overtaken
  BY <1>1 DEF Check
<1>3. CheckIsHonest(c, link)
  BY <1>1, <1>2 DEF CheckIsHonest, UnderWay
<1>4. QED
  BY <1>2, <1>3, OneCheckMoves DEF CallAgain

\* What Ozon answers tells which secret it was asked with.
LEMMA AnswerTellsOfTheSecret ==
  ASSUME NEW k \in Checks, CheckIsHonest(check[k], link), check[k].stage \in {"first", "second"},
         NEW answer \in Answers(k)
  PROVE  /\ ResultOf(answer) \in Results
         /\ answer \in {"valid", "invalid_credentials"} => ResultOf(answer) = answer
         /\ ResultOf(answer) = "valid" <=> answer = "valid"
         /\ ResultOf(answer) = "invalid_credentials" <=> answer = "invalid_credentials"
         /\ answer = "valid" => Endpoint(k) \in Allowed[check[k].secret]
         /\ answer = "invalid_credentials" => Endpoint(k) \notin Allowed[check[k].secret]
         /\ check[k].kind = "token" => Endpoint(k) = "campaigns"
         /\ check[k].kind = "credentials" => Endpoint(k) \in {"seller_info", "roles"}
         /\ check[k].kind = "credentials" /\ check[k].stage = "first" => Endpoint(k) = "seller_info"
<1>1. Endpoint(k) = IF check[k].kind = "token" THEN "campaigns"
                    ELSE IF check[k].stage = "first" THEN "seller_info" ELSE "roles"
  BY DEF Endpoint, CheckIsHonest, UnderWay
<1>2. QED
  BY <1>1 DEF Answers, ResultOf, Results

LEMMA CallReturnsInv ==
  ASSUME ConnectionInv, NEW k \in Checks, NEW answer, CallReturns(k, answer)
  PROVE  ConnectionInv'
<1> DEFINE passed == [check[k] EXCEPT !.stage = "second", !.attempt = 1]
           Judged(r) == [check[k] EXCEPT !.stage = "verdict", !.result = r]
<1>1. /\ check[k] \in Check /\ CheckIsHonest(check[k], link) /\ UnderWay(check[k])
      /\ check[k].stage \in {"first", "second"} /\ answer \in Answers(k) /\ link' = link
  BY DEF ConnectionInv, CallReturns, UnderWay
<1>2. ASSUME NEW r \in Results,
             check[k].kind = "credentials" => CredentialsVerdict(check[k].secret, r),
             check[k].kind = "token" => TokenVerdict(check[k].secret, r)
      PROVE  Judged(r) \in Check /\ CheckIsHonest(Judged(r), link)
  <2>1. /\ Judged(r) \in Check /\ Judged(r).stage = "verdict" /\ Judged(r).result = r
        /\ Judged(r).kind = check[k].kind /\ Judged(r).secret = check[k].secret
        /\ Judged(r).overtaken = check[k].overtaken
    BY <1>1 DEF Check
  <2>2. QED
    BY <1>1, <1>2, <2>1 DEF CheckIsHonest
<1>3. CASE check[k].stage = "first" /\ check[k].kind = "credentials" /\ answer = "valid"
  <2>1. check' = [check EXCEPT ![k] = passed]
    BY <1>3 DEF CallReturns
  <2>2. /\ passed \in Check /\ passed.stage = "second" /\ passed.kind = "credentials"
        /\ passed.secret = check[k].secret /\ passed.overtaken = check[k].overtaken
    BY <1>1, <1>3 DEF Check
  <2>3. CheckIsHonest(passed, link)
    BY <1>1, <1>3, <2>2, AnswerTellsOfTheSecret DEF CheckIsHonest
  <2>4. QED
    BY <1>1, <2>1, <2>2, <2>3, OneCheckMoves
<1>4. CASE check[k].stage = "second" /\ answer # "invalid_credentials"
  <2>1. check' = [check EXCEPT ![k] = Judged("valid")]
    BY <1>4 DEF CallReturns
  <2>2. Judged("valid") \in Check /\ CheckIsHonest(Judged("valid"), link)
    BY <1>1, <1>2, <1>4 DEF Results, CheckIsHonest, CredentialsVerdict
  <2>3. QED
    BY <1>1, <2>1, <2>2, OneCheckMoves
<1>5. CASE /\ ~(check[k].stage = "first" /\ check[k].kind = "credentials" /\ answer = "valid")
           /\ ~(check[k].stage = "second" /\ answer # "invalid_credentials")
  <2>1. check' = [check EXCEPT ![k] = Judged(ResultOf(answer))]
    BY <1>5 DEF CallReturns
  <2>2. ResultOf(answer) \in Results
    BY <1>1, AnswerTellsOfTheSecret
  <2>3. check[k].kind = "credentials" => CredentialsVerdict(check[k].secret, ResultOf(answer))
    BY <1>1, <1>5, AnswerTellsOfTheSecret DEF CredentialsVerdict
  <2>4. check[k].kind = "token" => TokenVerdict(check[k].secret, ResultOf(answer))
    BY <1>1, AnswerTellsOfTheSecret DEF TokenVerdict
  <2>5. QED
    BY <1>1, <1>2, <2>1, <2>2, <2>3, <2>4, OneCheckMoves
<1>6. QED
  BY <1>3, <1>4, <1>5

LEMMA EndedCheck ==
  ASSUME NEW l
  PROVE  [IdleCheck EXCEPT !.stage = "over"] \in Check /\ CheckIsHonest([IdleCheck EXCEPT !.stage = "over"], l)
  BY DEF IdleCheck, Check, CheckIsHonest, UnderWay, SecretOrNone

LEMMA StoreVerdictInv ==
  ASSUME ConnectionInv, NEW k \in Checks, StoreVerdict(k)
  PROVE  ConnectionInv'
<1> DEFINE c == check[k]
<1>1. /\ link \in Row /\ c \in Check /\ CheckIsHonest(c, link) /\ UnderWay(c) /\ c.stage = "verdict"
      /\ check' = [check EXCEPT ![k] = [IdleCheck EXCEPT !.stage = "over"]]
  BY DEF ConnectionInv, StoreVerdict, UnderWay
<1>2. /\ link.exists /\ c.result \in Results /\ c.result # "none" /\ c.kind \in {"credentials", "token"}
      /\ StatusOf(c.result) \in {"valid", "invalid"} /\ CredentialsAreHonest(link) /\ TokenIsHonest(link)
  BY <1>1 DEF CheckIsHonest, Results, StatusOf, ConnectionInv
<1>3. /\ link' \in Row /\ link'.exists /\ link'.secret = link.secret /\ link'.token = link.token
      /\ CredentialsAreHonest(link') /\ TokenIsHonest(link')
  <2>1. CASE c.kind = "credentials"
    <3>1. link' = [link EXCEPT !.status = StatusOf(c.result), !.result = c.result, !.overtaken = c.overtaken]
      BY <2>1 DEF StoreVerdict, UpdateOzonConnectionCheckResult
    <3>2. /\ link' \in Row /\ link'.exists /\ link'.secret = link.secret
          /\ link'.status = StatusOf(c.result) /\ link'.result = c.result /\ link'.overtaken = c.overtaken
          /\ link'.token = link.token /\ link'.tokenStatus = link.tokenStatus
          /\ link'.tokenResult = link.tokenResult /\ link'.tokenOvertaken = link.tokenOvertaken
      BY <1>1, <1>2, <3>1 DEF Row, Check
    <3>3. CredentialsAreHonest(link')
      BY <1>1, <1>2, <2>1, <3>2 DEF CredentialsAreHonest, CheckIsHonest
    <3>4. TokenIsHonest(link')
      BY <1>2, <3>2 DEF TokenIsHonest
    <3>5. QED
      BY <3>2, <3>3, <3>4
  <2>2. CASE c.kind = "token"
    <3>1. link' = [link EXCEPT !.tokenStatus = StatusOf(c.result), !.tokenResult = c.result,
                               !.tokenOvertaken = c.overtaken]
      BY <2>2 DEF StoreVerdict, UpdateOzonPerformanceCheckResult
    <3>2. /\ link' \in Row /\ link'.exists /\ link'.token = link.token
          /\ link'.tokenStatus = StatusOf(c.result) /\ link'.tokenResult = c.result
          /\ link'.tokenOvertaken = c.overtaken
          /\ link'.secret = link.secret /\ link'.status = link.status
          /\ link'.result = link.result /\ link'.overtaken = link.overtaken
      BY <1>1, <1>2, <3>1 DEF Row, Check
    <3>3. TokenIsHonest(link')
      BY <1>1, <1>2, <2>2, <3>2 DEF TokenIsHonest, CheckIsHonest
    <3>4. CredentialsAreHonest(link')
      BY <1>2, <3>2 DEF CredentialsAreHonest
    <3>5. QED
      BY <3>2, <3>3, <3>4
  <2>3. QED
    BY <1>2, <2>1, <2>2
<1>4. check' \in [Checks -> Check]
  BY <1>1, EndedCheck DEF ConnectionInv
<1>5. ASSUME NEW q \in Checks
      PROVE  CheckIsHonest(check'[q], link')
  <2>1. CASE q = k
    BY <1>1, <2>1, EndedCheck DEF ConnectionInv
  <2>2. CASE q # k
    <3>1. check'[q] = check[q] /\ CheckIsHonest(check[q], link)
      BY <1>1, <2>2 DEF ConnectionInv
    <3>2. QED
      BY <1>3, <3>1 DEF CheckIsHonest
  <2>3. QED
    BY <2>1, <2>2
<1>6. QED
  BY <1>3, <1>4, <1>5 DEF ConnectionInv

LEMMA CheckIsLostInv ==
  ASSUME ConnectionInv, NEW k \in Checks, CheckIsLost(k)
  PROVE  ConnectionInv'
  BY EndedCheck, OneCheckMoves DEF CheckIsLost

\* What a check under way knows, and what the row says, is about the same secret.
THEOREM ConnectionInvHolds == ConnectionSpec => []ConnectionInv
<1>1. ASSUME ConnectionInit
      PROVE  ConnectionInv
  <2>1. link \in Row /\ ~link.exists
    BY <1>1 DEF ConnectionInit, NoLink, Row, SecretOrNone
  <2>2. IdleCheck \in Check /\ ~UnderWay(IdleCheck)
    BY DEF IdleCheck, Check, UnderWay, SecretOrNone
  <2>3. QED
    BY <1>1, <2>1, <2>2 DEF ConnectionInit, ConnectionInv, CheckIsHonest
<1>2. ASSUME ConnectionInv, [ConnectionNext]_connectionVars
      PROVE  ConnectionInv'
  <2>1. CASE UNCHANGED connectionVars
    BY <1>2, <2>1 DEF connectionVars, ConnectionInv
  <2>2. CASE ConnectionNext
    BY <1>2, <2>2, CreateInv, UpdateInv, SetTokenInv, ClearTokenInv, BeginCheckInv, CallAgainInv,
       CallReturnsInv, StoreVerdictInv, CheckIsLostInv DEF ConnectionNext
  <2>3. QED
    BY <1>2, <2>1, <2>2
<1>3. QED
  BY <1>1, <1>2, PTL DEF ConnectionSpec

\* A seller sees a verdict on another secret than the stored one only when a
\* check of CheckConnection was overtaken by an update.
THEOREM VerdictsAreHonest == ConnectionSpec => []VerdictIsAboutTheStoredSecret
<1>1. ASSUME ConnectionInv, link.exists
      PROVE  VerdictIsAboutTheStoredSecret
  <2>1. link \in Row /\ CredentialsAreHonest(link) /\ TokenIsHonest(link)
    BY <1>1 DEF ConnectionInv
  <2>2. link.status = "valid" => link.result = "valid"
    BY <2>1 DEF CredentialsAreHonest, StatusOf
  <2>3. link.tokenStatus = "valid" => link.tokenResult = "valid"
    BY <2>1 DEF TokenIsHonest, StatusOf
  <2>4. QED
    BY <2>1, <2>2, <2>3 DEF VerdictIsAboutTheStoredSecret, CredentialsAreHonest, TokenIsHonest,
       CredentialsVerdict, TokenVerdict
<1>2. ConnectionInv => VerdictIsAboutTheStoredSecret
  BY <1>1 DEF VerdictIsAboutTheStoredSecret
<1>3. QED
  BY <1>2, ConnectionInvHolds, PTL

-----------------------------------------------------------------------------
(* The support actions and their audit log. *)

Stages == {"idle", "opening", "acting", "closing", "failing", "rereading", "over"}
RequestRow == [kind : Changes \cup Views \cup {"none"},
        input : {"none", "valid", "invalid", "unsupported", "zero date", "unread"},
        stage : Stages, log : {"none", "running", "completed", "failed"},
        effect : {"none", "part", "done"}, told : {"nothing", "ok", "error"}, lost : BOOLEAN]

(* What a request has done, stage by stage. *)
RowIsHonest(r) ==
    /\ r.stage \in {"idle", "opening"} => r.log = "none"
    /\ r.stage \in {"idle", "opening", "acting"} => r.effect = "none"
    /\ r.stage \in {"acting", "closing"} => r.log = "running"
    /\ r.stage = "closing" => r.effect = "done"
    /\ r.stage = "failing" => r.log \in {"running", "completed"}
    /\ r.stage = "rereading" => r.log = "completed"
    /\ r.stage \in {"opening", "acting", "closing", "failing", "rereading"} =>
          r.kind # "none" /\ r.told # "ok"
    /\ r.stage = "idle" => r.told = "nothing"
    /\ r.effect # "none" => r.log # "none"
    /\ r.log = "completed" => r.effect = "done"
    /\ r.told = "ok" => r.log = "completed"
    /\ r.stage = "over" /\ r.log = "running" => r.lost

AdminInv ==
    /\ op \in [AdminOps -> RequestRow]
    /\ \A o \in AdminOps : RowIsHonest(op[o])

\* Whatever an action does, it reports success only of the whole effect.
LEMMA SuccessIsWhole ==
  ASSUME NEW kind \in Changes \cup Views, NEW input, NEW d \in Acting(kind, input)
  PROVE  /\ d.effect \in {"none", "part", "done"} /\ d.ok \in BOOLEAN
         /\ d.ok => d.effect = "done"
<1> DEFINE AllOutcomes == SeveralWrites
<1>1. Acting(kind, input) \subseteq AllOutcomes
  BY DEF Acting, RerunSync, ResetCursor, RerunMetrics, RerunAlerts, RerunRecommendations,
         UpsertBillingState, Fetch, Succeeds, OneWrite, SeveralWrites, RefusesInside, Changes, Views
<1>2. \A x \in AllOutcomes : x = Did("done", TRUE) \/ x = Did("none", FALSE)
                               \/ x = Did("done", FALSE) \/ x = Did("part", FALSE)
  BY DEF SeveralWrites, OneWrite, Succeeds
<1>3. d = Did("done", TRUE) \/ d = Did("none", FALSE) \/ d = Did("done", FALSE) \/ d = Did("part", FALSE)
  BY <1>1, <1>2
<1>4. CASE d = Did("done", TRUE)
  BY <1>4 DEF Did
<1>5. CASE d = Did("none", FALSE)
  BY <1>5 DEF Did
<1>6. CASE d = Did("done", FALSE)
  BY <1>6 DEF Did
<1>7. CASE d = Did("part", FALSE)
  BY <1>7 DEF Did
<1>8. QED
  BY <1>3, <1>4, <1>5, <1>6, <1>7

\* A step that changes the row of one request keeps the rows of the others.
LEMMA OneRowChanges ==
  ASSUME AdminInv, NEW o \in AdminOps, NEW r \in RequestRow, RowIsHonest(r), Becomes(o, r)
  PROVE  AdminInv'
<1>1. op' = [op EXCEPT ![o] = r]
  BY DEF Becomes
<1>2. op' \in [AdminOps -> RequestRow]
  BY <1>1 DEF AdminInv
<1>3. ASSUME NEW q \in AdminOps
      PROVE  RowIsHonest(op'[q])
  BY <1>1, <1>3 DEF AdminInv
<1>4. (\A q \in AdminOps : RowIsHonest(op[q]))' <=> \A q \in AdminOps : RowIsHonest(op'[q])
  BY DEF RowIsHonest
<1>5. QED
  BY <1>2, <1>3, <1>4 DEF AdminInv

LEMMA SubmitInv ==
  ASSUME AdminInv, NEW o \in AdminOps, Submit(o)
  PROVE  AdminInv'
<1>1. PICK kind \in Changes \cup Views,
           input \in {"valid", "invalid", "unsupported", "zero date", "unread"} :
        LET r == [op[o] EXCEPT !.kind = kind, !.input = input, !.stage = "opening"] IN
        Becomes(o, r) \/ Becomes(o, Over(r, "error"))
  BY DEF Submit
<1> DEFINE r == [op[o] EXCEPT !.kind = kind, !.input = input, !.stage = "opening"]
<1>2. /\ op[o] \in RequestRow /\ RowIsHonest(op[o]) /\ op[o].stage = "idle"
  BY DEF AdminInv, Submit, AtStage
<1>3. kind # "none"
  BY DEF Changes, Views
<1>4. r \in RequestRow /\ RowIsHonest(r) /\ r.log = "none"
  BY <1>2, <1>3 DEF RequestRow, RowIsHonest, Stages
<1>5. Over(r, "error") \in RequestRow /\ RowIsHonest(Over(r, "error"))
  BY <1>4 DEF RequestRow, RowIsHonest, Stages, Over
<1>6. QED
  BY <1>1, <1>4, <1>5, OneRowChanges

LEMMA OpenLogInv ==
  ASSUME AdminInv, NEW o \in AdminOps, OpenLog(o)
  PROVE  AdminInv'
<1> DEFINE r == CreateAdminActionLog(o)
<1>1. op[o] \in RequestRow /\ RowIsHonest(op[o]) /\ op[o].stage = "opening"
  BY DEF AdminInv, OpenLog, AtStage
<1>2. r \in RequestRow /\ RowIsHonest(r) /\ r.stage = "acting"
  BY <1>1 DEF RequestRow, RowIsHonest, CreateAdminActionLog, Stages
<1>3. Over(op[o], "error") \in RequestRow /\ RowIsHonest(Over(op[o], "error"))
  BY <1>1 DEF RequestRow, RowIsHonest, Stages, Over
<1>4. Lost(Over(r, "error")) \in RequestRow /\ RowIsHonest(Lost(Over(r, "error")))
  BY <1>2 DEF RequestRow, RowIsHonest, Stages, Over, Lost
<1>5. Becomes(o, r) \/ Becomes(o, Over(op[o], "error")) \/ Becomes(o, Lost(Over(r, "error")))
  BY DEF OpenLog
<1>6. QED
  BY <1>2, <1>3, <1>4, <1>5, OneRowChanges

LEMMA ActInv ==
  ASSUME AdminInv, NEW o \in AdminOps, Act(o)
  PROVE  AdminInv'
<1>1. op[o] \in RequestRow /\ RowIsHonest(op[o]) /\ op[o].stage = "acting"
  BY DEF AdminInv, Act, AtStage
<1>2. op[o].kind \in Changes \cup Views
  BY <1>1 DEF RequestRow, RowIsHonest
<1>3. PICK d \in Acting(op[o].kind, op[o].input) :
        Becomes(o, [op[o] EXCEPT !.effect = d.effect, !.stage = IF d.ok THEN "closing" ELSE "failing"])
  BY DEF Act
<1> DEFINE r == [op[o] EXCEPT !.effect = d.effect, !.stage = IF d.ok THEN "closing" ELSE "failing"]
<1>4. /\ d.effect \in {"none", "part", "done"} /\ d.ok \in BOOLEAN
      /\ d.ok => d.effect = "done"
  BY <1>2, SuccessIsWhole
<1>5. r \in RequestRow /\ RowIsHonest(r)
  BY <1>1, <1>4 DEF RequestRow, RowIsHonest, Stages
<1>6. QED
  BY <1>3, <1>5, OneRowChanges

LEMMA FailLogInv ==
  ASSUME AdminInv, NEW o \in AdminOps, FailLog(o)
  PROVE  AdminInv'
<1>1. op[o] \in RequestRow /\ RowIsHonest(op[o]) /\ op[o].stage = "failing"
  BY DEF AdminInv, FailLog, AtStage
<1> DEFINE closed == Over(FailAdminActionLog(op[o]), "error")
           lost == Lost(Over(op[o], "error"))
<1>2. closed \in RequestRow /\ RowIsHonest(closed)
  BY <1>1 DEF RequestRow, RowIsHonest, Stages, Over, FailAdminActionLog
<1>3. lost \in RequestRow /\ RowIsHonest(lost)
  BY <1>1 DEF RequestRow, RowIsHonest, Stages, Over, Lost
<1>4. Becomes(o, closed) \/ Becomes(o, lost)
  BY DEF FailLog
<1>5. QED
  BY <1>2, <1>3, <1>4, OneRowChanges

LEMMA CompleteLogInv ==
  ASSUME AdminInv, NEW o \in AdminOps, CompleteLog(o)
  PROVE  AdminInv'
<1>1. op[o] \in RequestRow /\ RowIsHonest(op[o]) /\ op[o].stage = "closing" /\ op[o].effect = "done"
      /\ op[o].log = "running" /\ op[o].kind # "none"
  BY DEF AdminInv, CompleteLog, AtStage, RowIsHonest
<1> DEFINE closed == CompleteAdminActionLog(op[o])
           shown(r) == [r EXCEPT !.stage = "failing"]
           reread == [closed EXCEPT !.stage = "rereading"]
<1>2. closed \in RequestRow /\ closed.effect = "done" /\ closed.kind = op[o].kind /\ closed.log = "completed"
      /\ closed.stage = "closing" /\ closed.told = op[o].told
  BY <1>1 DEF RequestRow, CompleteAdminActionLog
<1>3. Over(closed, "ok") \in RequestRow /\ RowIsHonest(Over(closed, "ok"))
  BY <1>1, <1>2 DEF RequestRow, RowIsHonest, Stages, Over
<1>4. reread \in RequestRow /\ RowIsHonest(reread)
  BY <1>1, <1>2 DEF RequestRow, RowIsHonest, Stages
<1>5. ASSUME NEW r \in {closed, op[o]}
      PROVE  /\ shown(r) \in RequestRow /\ RowIsHonest(shown(r))
             /\ Lost(Over(r, "error")) \in RequestRow /\ RowIsHonest(Lost(Over(r, "error")))
  <2>1. r \in RequestRow /\ r.effect = "done" /\ r.kind # "none" /\ r.log \in {"running", "completed"}
        /\ r.told # "ok"
    BY <1>1, <1>2, <1>5 DEF RowIsHonest
  <2>2. shown(r) \in RequestRow /\ RowIsHonest(shown(r))
    BY <2>1 DEF RequestRow, RowIsHonest, Stages
  <2>3. Lost(Over(r, "error")) \in RequestRow /\ RowIsHonest(Lost(Over(r, "error")))
    BY <2>1 DEF RequestRow, RowIsHonest, Stages, Lost, Over
  <2>4. QED
    BY <2>2, <2>3
<1>6. \/ Becomes(o, Over(closed, "ok")) \/ Becomes(o, reread)
      \/ \E r \in {closed, op[o]} : Becomes(o, shown(r)) \/ Becomes(o, Lost(Over(r, "error")))
  BY DEF CompleteLog
<1>7. QED
  BY <1>3, <1>4, <1>5, <1>6, OneRowChanges

LEMMA ReadBackInv ==
  ASSUME AdminInv, NEW o \in AdminOps, ReadBack(o)
  PROVE  AdminInv'
<1>1. op[o] \in RequestRow /\ RowIsHonest(op[o]) /\ op[o].log = "completed"
  BY DEF AdminInv, ReadBack, AtStage, RowIsHonest
<1>2. PICK told \in {"ok", "error"} : Becomes(o, Over(op[o], told))
  BY DEF ReadBack
<1>3. Over(op[o], told) \in RequestRow /\ RowIsHonest(Over(op[o], told))
  BY <1>1 DEF RequestRow, RowIsHonest, Over, Stages
<1>4. QED
  BY <1>2, <1>3, OneRowChanges

LEMMA AdminDiesInv ==
  ASSUME AdminInv, NEW o \in AdminOps, AdminDies(o)
  PROVE  AdminInv'
<1>1. op[o] \in RequestRow /\ RowIsHonest(op[o]) /\ op[o].stage # "idle"
  BY DEF AdminInv, AdminDies, AtStage
<1> DEFINE r == Lost(Over(op[o], "nothing"))
<1>2. r \in RequestRow
  <2>1. "over" \in Stages /\ "nothing" \in {"nothing", "ok", "error"}
    BY DEF Stages
  <2> QED BY <1>1, <2>1 DEF RequestRow, Over, Lost
<1>3. /\ r.stage = "over" /\ r.told = "nothing" /\ r.lost
      /\ r.kind = op[o].kind /\ r.log = op[o].log /\ r.effect = op[o].effect /\ r.input = op[o].input
  BY <1>1 DEF RequestRow, Over, Lost
<1>4. RowIsHonest(r)
  BY <1>1, <1>3 DEF RowIsHonest
<1>5. QED
  BY <1>2, <1>4, OneRowChanges DEF AdminDies

\* In every state a request can be in, its row tells what it has done.
THEOREM AdminInvHolds == AdminSpec => []AdminInv
<1>1. ASSUME AdminInit
      PROVE  AdminInv
  <2>1. NewOp \in RequestRow /\ RowIsHonest(NewOp)
    BY DEF NewOp, RequestRow, RowIsHonest, Stages
  <2>2. QED
    BY <1>1, <2>1 DEF AdminInit, AdminInv
<1>2. ASSUME AdminInv, [AdminNext]_op
      PROVE  AdminInv'
  <2>1. CASE UNCHANGED op
    BY <1>2, <2>1 DEF AdminInv, RowIsHonest
  <2>2. CASE AdminNext
    BY <1>2, <2>2, SubmitInv, OpenLogInv, ActInv, FailLogInv, CompleteLogInv, ReadBackInv, AdminDiesInv
       DEF AdminNext
  <2>3. QED
    BY <1>2, <2>1, <2>2
<1>3. QED
  BY <1>1, <1>2, PTL DEF AdminSpec

\* The audit trail never says more than what happened, for any number of
\* concurrent requests: CompleteAdminActionLog and FailAdminActionLog close a row
\* only after the whole effect, or its failure, is known.
THEOREM AuditIsHonest == AdminSpec => []AuditTellsTheOutcome
<1>1. AdminInv => AuditTellsTheOutcome
  BY DEF AdminInv, RowIsHonest, AuditTellsTheOutcome
<1>2. QED
  BY <1>1, AdminInvHolds, PTL

-----------------------------------------------------------------------------
(* Account data.  ORDER BY: in a finite set with a total order every rank is
   taken. *)

TotalOn(S, R) ==
    /\ \A x \in S : <<x, x>> \notin R
    /\ \A x, y \in S : x # y => <<x, y>> \in R \/ <<y, x>> \in R
    /\ \A x, y, z \in S : <<x, y>> \in R /\ <<y, z>> \in R => <<x, z>> \in R
Ranked(S, R) == \A i \in 1 .. Cardinality(S) : \E r \in S : Cardinality({s \in S : <<s, r>> \in R}) = i - 1

LEMMA TotalOrdersHaveALast ==
  ASSUME NEW S, IsFiniteSet(S), S # {}, NEW R, TotalOn(S, R)
  PROVE  \E x \in S : \A y \in S \ {x} : <<y, x>> \in R
<1> DEFINE HasLast(T) == \E x \in T : \A y \in T \ {x} : <<y, x>> \in R
           Bad == {T \in FiniteSubsetsOf(S) : T # {} /\ ~HasLast(T)}
<1> SUFFICES ASSUME ~HasLast(S) PROVE FALSE
  OBVIOUS
<1>1. S \in Bad
  BY DEF FiniteSubsetsOf
<1>2. PICK X \in Bad : \A Y \in Bad : <<Y, X>> \notin StrictSubsetOrdering(S)
  <2>1. Bad \subseteq FiniteSubsetsOf(S) /\ Bad # {}
    BY <1>1
  <2> HIDE DEF Bad
  <2> QED BY <2>1, FS_StrictSubsetOrderingWellFounded, WFMin
<1>3. X \subseteq S /\ IsFiniteSet(X) /\ X # {} /\ ~HasLast(X)
  BY <1>2 DEF FiniteSubsetsOf
<1>4. PICK x \in X : TRUE
  BY <1>3
<1> DEFINE Y == X \ {x}
<1>5. Y # {}
  BY <1>3, <1>4
<1>6. HasLast(Y)
  <2>1. IsFiniteSet(Y) /\ Y \subseteq S
    BY <1>3, FS_Subset
  <2>2. <<Y, X>> \in StrictSubsetOrdering(S)
    BY <1>3, <1>4 DEF StrictSubsetOrdering
  <2>3. Y \notin Bad
    BY <1>2, <2>2
  <2> QED BY <1>5, <2>1, <2>3 DEF FiniteSubsetsOf
<1>7. PICK m \in Y : \A y \in Y \ {m} : <<y, m>> \in R
  BY <1>6
<1>8. m \in X /\ x # m /\ \A y \in X : y \in Y \/ y = x
  BY <1>7
<1>9. CASE <<x, m>> \in R
  <2>1. \A y \in X \ {m} : <<y, m>> \in R
    BY <1>7, <1>8, <1>9
  <2> QED BY <1>3, <1>8, <2>1
<1>10. CASE <<m, x>> \in R
  <2>1. ASSUME NEW y \in X \ {x} PROVE <<y, x>> \in R
    <3>1. CASE y = m
      BY <1>10, <3>1
    <3>2. CASE y # m
      <4>1. <<y, m>> \in R
        BY <1>7, <1>8, <3>2
      <4> QED BY <1>3, <1>4, <1>8, <1>10, <4>1 DEF TotalOn
    <3> QED BY <3>1, <3>2
  <2> QED BY <1>3, <1>4, <2>1
<1> QED BY <1>3, <1>4, <1>8, <1>9, <1>10 DEF TotalOn

LEMMA EveryRankIsTaken ==
  ASSUME NEW S, IsFiniteSet(S), NEW R, TotalOn(S, R)
  PROVE  Ranked(S, R)
<1> DEFINE Bad == {T \in FiniteSubsetsOf(S) : ~Ranked(T, R)}
<1> SUFFICES ASSUME ~Ranked(S, R) PROVE FALSE
  OBVIOUS
<1>1. S \in Bad
  BY DEF FiniteSubsetsOf
<1>2. PICK X \in Bad : \A Y \in Bad : <<Y, X>> \notin StrictSubsetOrdering(S)
  <2>1. Bad \subseteq FiniteSubsetsOf(S) /\ Bad # {}
    BY <1>1
  <2> HIDE DEF Bad
  <2> QED BY <2>1, FS_StrictSubsetOrderingWellFounded, WFMin
<1>3. X \subseteq S /\ IsFiniteSet(X) /\ ~Ranked(X, R)
  BY <1>2 DEF FiniteSubsetsOf
<1>4. X # {}
  <2>1. ASSUME X = {} PROVE Ranked(X, R)
    BY <2>1, FS_EmptySet DEF Ranked
  <2> QED BY <1>3, <2>1
<1>5. TotalOn(X, R)
  BY <1>3 DEF TotalOn
<1>6. PICK m \in X : \A y \in X \ {m} : <<y, m>> \in R
  BY <1>3, <1>4, <1>5, TotalOrdersHaveALast
<1> DEFINE Y == X \ {m}
<1>7. /\ IsFiniteSet(Y) /\ Y \subseteq S
      /\ Cardinality(Y) = Cardinality(X) - 1 /\ Cardinality(X) \in Nat /\ Cardinality(Y) \in Nat
  BY <1>3, FS_Subset, FS_RemoveElement, FS_CardinalityType
<1>8. Ranked(Y, R)
  <2>1. <<Y, X>> \in StrictSubsetOrdering(S)
    BY <1>3, <1>6 DEF StrictSubsetOrdering
  <2>2. Y \notin Bad
    BY <1>2, <2>1
  <2> QED BY <1>7, <2>2 DEF FiniteSubsetsOf
<1>9. {s \in X : <<s, m>> \in R} = Y
  BY <1>5, <1>6 DEF TotalOn
<1>10. \A r \in Y : {s \in X : <<s, r>> \in R} = {s \in Y : <<s, r>> \in R}
  <2> SUFFICES ASSUME NEW r \in Y PROVE <<m, r>> \notin R
    OBVIOUS
  <2>1. <<r, m>> \in R
    BY <1>6
  <2> QED BY <1>5, <1>6, <2>1 DEF TotalOn
<1>11. ASSUME NEW i \in 1 .. Cardinality(X)
       PROVE  \E r \in X : Cardinality({s \in X : <<s, r>> \in R}) = i - 1
  <2>1. CASE i = Cardinality(X)
    BY <1>6, <1>7, <1>9, <2>1
  <2>2. CASE i # Cardinality(X)
    <3>1. i \in 1 .. Cardinality(Y)
      BY <1>7, <2>2
    <3>2. PICK r \in Y : Cardinality({s \in Y : <<s, r>> \in R}) = i - 1
      BY <1>8, <3>1 DEF Ranked
    <3> QED BY <1>10, <3>2
  <2> QED BY <2>1, <2>2
<1> QED BY <1>3, <1>11 DEF Ranked

(* A list of the members of a set, and the pages of such a list. *)
LEMMA PagesHoldListed ==
  ASSUME NEW S, NEW list \in Seq(S), NEW p, p.limit \in Nat, p.offset \in Nat
  PROVE  Items(Paged(list, p)) \subseteq S
<1> DEFINE m == p.offset + 1
           n == IF p.offset + p.limit < Len(list) THEN p.offset + p.limit ELSE Len(list)
<1>0. Len(list) \in Nat /\ DOMAIN list = 1 .. Len(list) /\ \A i \in 1 .. Len(list) : list[i] \in S
  OBVIOUS
<1>1. m \in Nat /\ m >= 1 /\ n \in Nat /\ n <= Len(list)
  BY <1>0
<1>2. Paged(list, p) = SubSeq(list, m, n)
  BY DEF Paged
<1> HIDE DEF m, n
<1>3. DOMAIN SubSeq(list, m, n) = 1 .. (1 + n - m)
  BY <1>0, <1>1
<1>4. \A i \in 1 .. (1 + n - m) : SubSeq(list, m, n)[i] = list[i + m - 1]
  BY <1>0, <1>1
<1>5. \A i \in 1 .. (1 + n - m) : i + m - 1 \in 1 .. Len(list)
  BY <1>0, <1>1
<1> QED BY <1>0, <1>2, <1>3, <1>4, <1>5 DEF Items

(* Rows of one table: their primary keys make every order total. *)
OfOneTable(S) == S \subseteq rows /\ \A r, s \in S : r.in = s.in

LEMMA KeysTellApart ==
  ASSUME AreRows(rows), NEW S, OfOneTable(S)
  PROVE  /\ IsFiniteSet(S) /\ Cardinality(S) \in Nat
         /\ \A r \in S : {r.id, r.at, r.updated} \subseteq Nat
         /\ \A r, s \in S : r # s => r.id # s.id
<1>1. IsFiniteSet(S) /\ Cardinality(S) \in Nat
  BY FS_Subset, FS_CardinalityType DEF AreRows, OfOneTable
<1>2. \A r \in S : IsDataRow(r)
  BY DEF AreRows, OfOneTable
<1>3. \A r, s \in S : r # s => r.id # s.id
  BY DEF AreRows, OfOneTable
<1> QED BY <1>1, <1>2, <1>3 DEF IsDataRow

(* The orders of the listings, and the list of a set by such an order. *)
NewestFirst(S) == {p \in S \X S : Newer(p[1], p[2])}
OldestFirst(S) == {p \in S \X S : Older(p[1], p[2])}
LastUpdatedFirst(S) == {p \in S \X S : UpdatedLater(p[1], p[2])}
LastComputedFirst(S) == {p \in S \X S : ComputedLater(p[1], p[2])}
LastTalkedFirst(S) == {p \in S \X S : TalkedLater(p[1], p[2])}

Rank(S, R, r) == Cardinality({s \in S : <<s, r>> \in R})
IsRanking(list, S, R) ==
    /\ list \in Seq(S) /\ Len(list) = Cardinality(S)
    /\ \A i \in 1 .. Cardinality(S) : Rank(S, R, list[i]) = i - 1

LEMMA NewestIsAList ==
  ASSUME AreRows(rows), NEW S, OfOneTable(S)
  PROVE  TotalOn(S, NewestFirst(S)) /\ IsRanking(Newest(S), S, NewestFirst(S))
<1> DEFINE R == NewestFirst(S)
           Nth(i) == CHOOSE r \in S : Cardinality({s \in S : Newer(s, r)}) = i - 1
           size == Cardinality(S)
<1>1. \A r, s \in S : <<s, r>> \in R <=> Newer(s, r)
  BY DEF NewestFirst
<1>2. Newest(S) = [i \in 1 .. size |-> Nth(i)]
  BY DEF Newest, Ordered
<1>3. size \in Nat
  BY KeysTellApart
<1> HIDE DEF R
<1>4. TotalOn(S, R)
  <2>1. \A r \in S : r.id \in Nat /\ r.at \in Nat
    BY KeysTellApart
  <2> QED BY <1>1, <2>1, KeysTellApart DEF TotalOn, Newer
<1>5. Ranked(S, R)
  BY <1>4, EveryRankIsTaken, KeysTellApart
<1>6. \A r \in S : {s \in S : <<s, r>> \in R} = {s \in S : Newer(s, r)}
  BY <1>1
<1>7. \A i \in 1 .. size : \E r \in S : Cardinality({s \in S : Newer(s, r)}) = i - 1
  BY <1>5, <1>6 DEF Ranked
<1>8. \A i \in 1 .. size : Nth(i) \in S /\ Cardinality({s \in S : Newer(s, Nth(i))}) = i - 1
  BY <1>7
<1> HIDE DEF Nth
<1>9. \A i \in 1 .. size : Nth(i) \in S /\ Rank(S, R, Nth(i)) = i - 1
  BY <1>6, <1>8 DEF Rank
<1> HIDE DEF size
<1>10. Newest(S) \in Seq(S) /\ Len(Newest(S)) = size /\ \A i \in 1 .. size : Newest(S)[i] = Nth(i)
  BY <1>2, <1>3, <1>9
<1>11. IsRanking(Newest(S), S, R)
  BY <1>9, <1>10 DEF IsRanking, size
<1> QED BY <1>4, <1>11 DEF R

LEMMA OldestIsAList ==
  ASSUME AreRows(rows), NEW S, OfOneTable(S)
  PROVE  TotalOn(S, OldestFirst(S)) /\ IsRanking(Oldest(S), S, OldestFirst(S))
<1> DEFINE R == OldestFirst(S)
           Nth(i) == CHOOSE r \in S : Cardinality({s \in S : Older(s, r)}) = i - 1
           size == Cardinality(S)
<1>1. \A r, s \in S : <<s, r>> \in R <=> Older(s, r)
  BY DEF OldestFirst
<1>2. Oldest(S) = [i \in 1 .. size |-> Nth(i)]
  BY DEF Oldest, Ordered
<1>3. size \in Nat
  BY KeysTellApart
<1> HIDE DEF R
<1>4. TotalOn(S, R)
  <2>1. \A r \in S : r.id \in Nat /\ r.at \in Nat
    BY KeysTellApart
  <2> QED BY <1>1, <2>1, KeysTellApart DEF TotalOn, Older, Newer
<1>5. Ranked(S, R)
  BY <1>4, EveryRankIsTaken, KeysTellApart
<1>6. \A r \in S : {s \in S : <<s, r>> \in R} = {s \in S : Older(s, r)}
  BY <1>1
<1>7. \A i \in 1 .. size : \E r \in S : Cardinality({s \in S : Older(s, r)}) = i - 1
  BY <1>5, <1>6 DEF Ranked
<1>8. \A i \in 1 .. size : Nth(i) \in S /\ Cardinality({s \in S : Older(s, Nth(i))}) = i - 1
  BY <1>7
<1> HIDE DEF Nth
<1>9. \A i \in 1 .. size : Nth(i) \in S /\ Rank(S, R, Nth(i)) = i - 1
  BY <1>6, <1>8 DEF Rank
<1> HIDE DEF size
<1>10. Oldest(S) \in Seq(S) /\ Len(Oldest(S)) = size /\ \A i \in 1 .. size : Oldest(S)[i] = Nth(i)
  BY <1>2, <1>3, <1>9
<1>11. IsRanking(Oldest(S), S, R)
  BY <1>9, <1>10 DEF IsRanking, size
<1> QED BY <1>4, <1>11 DEF R

LEMMA LastUpdatedIsAList ==
  ASSUME AreRows(rows), NEW S, OfOneTable(S)
  PROVE  TotalOn(S, LastUpdatedFirst(S)) /\ IsRanking(Ordered(S, UpdatedLater), S, LastUpdatedFirst(S))
<1> DEFINE R == LastUpdatedFirst(S)
           Nth(i) == CHOOSE r \in S : Cardinality({s \in S : UpdatedLater(s, r)}) = i - 1
           size == Cardinality(S)
<1>1. \A r, s \in S : <<s, r>> \in R <=> UpdatedLater(s, r)
  BY DEF LastUpdatedFirst
<1>2. Ordered(S, UpdatedLater) = [i \in 1 .. size |-> Nth(i)]
  BY DEF Ordered
<1>3. size \in Nat
  BY KeysTellApart
<1> HIDE DEF R
<1>4. TotalOn(S, R)
  <2>1. \A r \in S : r.id \in Nat /\ r.updated \in Nat
    BY KeysTellApart
  <2> QED BY <1>1, <2>1, KeysTellApart DEF TotalOn, UpdatedLater
<1>5. Ranked(S, R)
  BY <1>4, EveryRankIsTaken, KeysTellApart
<1>6. \A r \in S : {s \in S : <<s, r>> \in R} = {s \in S : UpdatedLater(s, r)}
  BY <1>1
<1>7. \A i \in 1 .. size : \E r \in S : Cardinality({s \in S : UpdatedLater(s, r)}) = i - 1
  BY <1>5, <1>6 DEF Ranked
<1>8. \A i \in 1 .. size : Nth(i) \in S /\ Cardinality({s \in S : UpdatedLater(s, Nth(i))}) = i - 1
  BY <1>7
<1> HIDE DEF Nth
<1>9. \A i \in 1 .. size : Nth(i) \in S /\ Rank(S, R, Nth(i)) = i - 1
  BY <1>6, <1>8 DEF Rank
<1> HIDE DEF size
<1>10. /\ Ordered(S, UpdatedLater) \in Seq(S) /\ Len(Ordered(S, UpdatedLater)) = size
       /\ \A i \in 1 .. size : Ordered(S, UpdatedLater)[i] = Nth(i)
  BY <1>2, <1>3, <1>9
<1>11. IsRanking(Ordered(S, UpdatedLater), S, R)
  BY <1>9, <1>10 DEF IsRanking, size
<1> QED BY <1>4, <1>11 DEF R

LEMMA LastComputedIsAList ==
  ASSUME AreRows(rows), NEW S, OfOneTable(S)
  PROVE  TotalOn(S, LastComputedFirst(S)) /\ IsRanking(Ordered(S, ComputedLater), S, LastComputedFirst(S))
<1> DEFINE R == LastComputedFirst(S)
           Nth(i) == CHOOSE r \in S : Cardinality({s \in S : ComputedLater(s, r)}) = i - 1
           size == Cardinality(S)
<1>1. \A r, s \in S : <<s, r>> \in R <=> ComputedLater(s, r)
  BY DEF LastComputedFirst
<1>2. Ordered(S, ComputedLater) = [i \in 1 .. size |-> Nth(i)]
  BY DEF Ordered
<1>3. size \in Nat
  BY KeysTellApart
<1> HIDE DEF R
<1>4. TotalOn(S, R)
  <2>1. \A r \in S : r.id \in Nat /\ r.at \in Nat
    BY KeysTellApart
  <2> QED BY <1>1, <2>1, KeysTellApart DEF TotalOn, ComputedLater
<1>5. Ranked(S, R)
  BY <1>4, EveryRankIsTaken, KeysTellApart
<1>6. \A r \in S : {s \in S : <<s, r>> \in R} = {s \in S : ComputedLater(s, r)}
  BY <1>1
<1>7. \A i \in 1 .. size : \E r \in S : Cardinality({s \in S : ComputedLater(s, r)}) = i - 1
  BY <1>5, <1>6 DEF Ranked
<1>8. \A i \in 1 .. size : Nth(i) \in S /\ Cardinality({s \in S : ComputedLater(s, Nth(i))}) = i - 1
  BY <1>7
<1> HIDE DEF Nth
<1>9. \A i \in 1 .. size : Nth(i) \in S /\ Rank(S, R, Nth(i)) = i - 1
  BY <1>6, <1>8 DEF Rank
<1> HIDE DEF size
<1>10. /\ Ordered(S, ComputedLater) \in Seq(S) /\ Len(Ordered(S, ComputedLater)) = size
       /\ \A i \in 1 .. size : Ordered(S, ComputedLater)[i] = Nth(i)
  BY <1>2, <1>3, <1>9
<1>11. IsRanking(Ordered(S, ComputedLater), S, R)
  BY <1>9, <1>10 DEF IsRanking, size
<1> QED BY <1>4, <1>11 DEF R

LEMMA LastTalkedIsAList ==
  ASSUME AreRows(rows), NEW S, OfOneTable(S), \A r \in S : r.in = "chat_sessions"
  PROVE  TotalOn(S, LastTalkedFirst(S)) /\ IsRanking(Ordered(S, TalkedLater), S, LastTalkedFirst(S))
<1> DEFINE R == LastTalkedFirst(S)
           Nth(i) == CHOOSE r \in S : Cardinality({s \in S : TalkedLater(s, r)}) = i - 1
           size == Cardinality(S)
<1>1. \A r, s \in S : <<s, r>> \in R <=> TalkedLater(s, r)
  BY DEF LastTalkedFirst
<1>2. Ordered(S, TalkedLater) = [i \in 1 .. size |-> Nth(i)]
  BY DEF Ordered
<1>3. size \in Nat
  BY KeysTellApart
<1> HIDE DEF R
<1>4. TotalOn(S, R)
  <2>1. \A r \in S : r.id \in Nat /\ r.at \in Nat /\ r.updated \in Nat /\ r.kind \in {"talked", "silent"}
    BY KeysTellApart DEF AreRows, OfOneTable, IsDataRow
  <2> QED BY <1>1, <2>1, KeysTellApart DEF TotalOn, TalkedLater, UpdatedLater
<1>5. Ranked(S, R)
  BY <1>4, EveryRankIsTaken, KeysTellApart
<1>6. \A r \in S : {s \in S : <<s, r>> \in R} = {s \in S : TalkedLater(s, r)}
  BY <1>1
<1>7. \A i \in 1 .. size : \E r \in S : Cardinality({s \in S : TalkedLater(s, r)}) = i - 1
  BY <1>5, <1>6 DEF Ranked
<1>8. \A i \in 1 .. size : Nth(i) \in S /\ Cardinality({s \in S : TalkedLater(s, Nth(i))}) = i - 1
  BY <1>7
<1> HIDE DEF Nth
<1>9. \A i \in 1 .. size : Nth(i) \in S /\ Rank(S, R, Nth(i)) = i - 1
  BY <1>6, <1>8 DEF Rank
<1> HIDE DEF size
<1>10. /\ Ordered(S, TalkedLater) \in Seq(S) /\ Len(Ordered(S, TalkedLater)) = size
       /\ \A i \in 1 .. size : Ordered(S, TalkedLater)[i] = Nth(i)
  BY <1>2, <1>3, <1>9
<1>11. IsRanking(Ordered(S, TalkedLater), S, R)
  BY <1>9, <1>10 DEF IsRanking, size
<1> QED BY <1>4, <1>11 DEF R

IsPage(p) == p.limit \in Nat /\ p.offset \in Nat
Belong(S, a) == \A r \in S : r.account = a

(* Whatever is read of an account's rows of one table belongs to it. *)
LEMMA ListsOfAnAccount ==
  ASSUME AreRows(rows), NEW table, NEW a, NEW S \in SUBSET Own(table, a), NEW p, IsPage(p)
  PROVE  /\ Belong(S, a)
         /\ Belong(Items(Newest(S)), a)
         /\ Belong(Items(Paged(Newest(S), p)), a)
         /\ Belong(Items(Paged(Oldest(S), p)), a)
         /\ Belong(Items(Paged(Ordered(S, UpdatedLater), p)), a)
         /\ Belong(Items(Paged(Ordered(S, ComputedLater), p)), a)
         /\ table = "chat_sessions" => Belong(Items(Paged(Ordered(S, TalkedLater), p)), a)
<1>1. OfOneTable(S) /\ \A r \in S : r.account = a /\ r.in = table
  BY DEF OfOneTable, Own
<1>2. Newest(S) \in Seq(S) /\ Oldest(S) \in Seq(S)
  BY <1>1, NewestIsAList, OldestIsAList DEF IsRanking
<1>3. Ordered(S, UpdatedLater) \in Seq(S) /\ Ordered(S, ComputedLater) \in Seq(S)
  BY <1>1, LastUpdatedIsAList, LastComputedIsAList DEF IsRanking
<1>4. table = "chat_sessions" => Ordered(S, TalkedLater) \in Seq(S)
  BY <1>1, LastTalkedIsAList DEF IsRanking
<1>5. \A list \in Seq(S) : Belong(Items(Paged(list, p)), a)
  BY <1>1, PagesHoldListed DEF IsPage, Belong
<1>6. Items(Newest(S)) \subseteq S
  BY <1>2 DEF Items
<1> QED BY <1>1, <1>2, <1>3, <1>4, <1>5, <1>6 DEF Belong

LEMMA FirstPageIsAPage ==
  ASSUME NEW n \in Nat
  PROVE  IsPage(FirstPage(n))
BY DEF IsPage, FirstPage

(* The listings of admin_read.sql.go that compare the account themselves. *)
LEMMA AdminStatementsKeepToTheAccount ==
  ASSUME AreRows(rows), NEW a, NEW f, NEW p, IsPage(p), NEW id
  PROVE  /\ Belong(Items(adminListSyncJobs(a, f, p)), a)
         /\ Belong(Items(adminListImportJobs(a, f, p)), a)
         /\ Belong(Items(adminListImportErrors(a, f, p)), a)
         /\ Belong(Items(adminListSyncCursors(a, f, p)), a)
         /\ Belong(Items(adminListRecommendationRuns(a, f, p)), a)
         /\ Belong(Items(adminListChatTracesBySeller(a, f, p)), a)
         /\ Belong(Items(adminListChatSessionsBySeller(a, f, p)), a)
         /\ Belong(Items(adminListChatMessagesBySession(a, id, p)), a)
         /\ Belong(Items(adminListRecommendationFeedbackBySeller(a, f, p)), a)
         /\ Belong(Items(listRecommendationRunDiagnosticsByRun(a, id, p)), a)
         /\ Belong(Items(listAlertRunsBySellerAccountID(a, p)), a)
<1>1. Belong(Items(adminListSyncJobs(a, f, p)), a)
  BY ListsOfAnAccount DEF adminListSyncJobs
<1>2. Belong(Items(adminListImportJobs(a, f, p)), a)
  BY ListsOfAnAccount DEF adminListImportJobs
<1>3. Belong(Items(adminListImportErrors(a, f, p)), a)
  BY ListsOfAnAccount DEF adminListImportErrors
<1>4. Belong(Items(adminListSyncCursors(a, f, p)), a)
  BY ListsOfAnAccount DEF adminListSyncCursors
<1>5. Belong(Items(adminListRecommendationRuns(a, f, p)), a)
  BY ListsOfAnAccount DEF adminListRecommendationRuns
<1>6. Belong(Items(adminListChatTracesBySeller(a, f, p)), a)
  BY ListsOfAnAccount DEF adminListChatTracesBySeller
<1>7. Belong(Items(adminListChatSessionsBySeller(a, f, p)), a)
  BY ListsOfAnAccount DEF adminListChatSessionsBySeller
<1>8. Belong(Items(adminListChatMessagesBySession(a, id, p)), a)
  BY ListsOfAnAccount DEF adminListChatMessagesBySession
<1>9. Belong(Items(adminListRecommendationFeedbackBySeller(a, f, p)), a)
  BY ListsOfAnAccount DEF adminListRecommendationFeedbackBySeller
<1>10. Belong(Items(listRecommendationRunDiagnosticsByRun(a, id, p)), a)
  BY ListsOfAnAccount DEF listRecommendationRunDiagnosticsByRun
<1>11. Belong(Items(listAlertRunsBySellerAccountID(a, p)), a)
  BY ListsOfAnAccount DEF listAlertRunsBySellerAccountID
<1> QED BY <1>1, <1>2, <1>3, <1>4, <1>5, <1>6, <1>7, <1>8, <1>9, <1>10, <1>11

(* The pages a seller or the chat asks for. *)
LEMMA SellerStatementsKeepToTheAccount ==
  ASSUME AreRows(rows), NEW a, NEW f, NEW p, IsPage(p), NEW id
  PROVE  /\ Belong(Items(listOpenAlertsBySellerAccountID(a, p)), a)
         /\ Belong(Items(listAlertsFiltered(a, f, p)), a)
         /\ Belong(Items(listAlertsByGroup(a, id, p)), a)
         /\ Belong(Items(listAlertsByEntitySKU(a, id, p)), a)
         /\ Belong(Items(listAlertsByEntityID(a, id, p)), a)
         /\ Belong(Items(listRecommendationsFiltered(a, f, p)), a)
         /\ Belong(Items(listOpenRecommendationsBySellerAccountID(a, p)), a)
         /\ Belong(Items(listChatSessionsBySellerAccountID(a, p)), a)
         /\ Belong(Items(listChatMessagesBySessionID(a, id, p)), a)
         /\ Belong(Items(listSKUEffectiveConstraintsPageBySellerAccountID(a, p)), a)
<1>1. Belong(Items(listOpenAlertsBySellerAccountID(a, p)), a)
  BY ListsOfAnAccount DEF listOpenAlertsBySellerAccountID, Open
<1>2. Belong(Items(listAlertsFiltered(a, f, p)), a)
  BY ListsOfAnAccount DEF listAlertsFiltered
<1>3. Belong(Items(listAlertsByGroup(a, id, p)), a)
  BY ListsOfAnAccount DEF listAlertsByGroup
<1>4. Belong(Items(listAlertsByEntitySKU(a, id, p)), a)
  BY ListsOfAnAccount DEF listAlertsByEntitySKU
<1>5. Belong(Items(listAlertsByEntityID(a, id, p)), a)
  BY ListsOfAnAccount DEF listAlertsByEntityID
<1>6. Belong(Items(listRecommendationsFiltered(a, f, p)), a)
  BY ListsOfAnAccount DEF listRecommendationsFiltered
<1>7. Belong(Items(listOpenRecommendationsBySellerAccountID(a, p)), a)
  BY ListsOfAnAccount DEF listOpenRecommendationsBySellerAccountID, Open
<1>8. Belong(Items(listChatSessionsBySellerAccountID(a, p)), a)
  BY ListsOfAnAccount DEF listChatSessionsBySellerAccountID
<1>9. Belong(Items(listChatMessagesBySessionID(a, id, p)), a)
  BY ListsOfAnAccount DEF listChatMessagesBySessionID
<1>10. Belong(Items(listSKUEffectiveConstraintsPageBySellerAccountID(a, p)), a)
  BY ListsOfAnAccount DEF listSKUEffectiveConstraintsPageBySellerAccountID
<1> QED BY <1>1, <1>2, <1>3, <1>4, <1>5, <1>6, <1>7, <1>8, <1>9, <1>10

(* The statements that read one row. *)
LEMMA LatestKeepToTheAccount ==
  ASSUME AreRows(rows), NEW a, NEW f, NEW p, IsPage(p), NEW id
  PROVE  /\ Belong(Items(getLatestAlertRunBySellerAccountID(a)), a)
         /\ Belong(Items(getLatestRecommendationRunBySellerAccountID(a)), a)
         /\ Belong(Items(getLatestSyncJobBySellerAccountID(a)), a)
         /\ Belong(Items(getLatestCompletedSyncJobBySellerAccountID(a)), a)
         /\ Belong(Items(getSKUEffectiveConstraintBySellerAndSKU(a, id)), a)
<1>1. Belong(Items(getLatestAlertRunBySellerAccountID(a)), a)
  BY FirstPageIsAPage, ListsOfAnAccount DEF getLatestAlertRunBySellerAccountID, Latest
<1>2. Belong(Items(getLatestRecommendationRunBySellerAccountID(a)), a)
  BY FirstPageIsAPage, ListsOfAnAccount DEF getLatestRecommendationRunBySellerAccountID, Latest
<1>3. Belong(Items(getLatestSyncJobBySellerAccountID(a)), a)
  BY FirstPageIsAPage, ListsOfAnAccount DEF getLatestSyncJobBySellerAccountID, Latest
<1>4. Belong(Items(getLatestCompletedSyncJobBySellerAccountID(a)), a)
  BY FirstPageIsAPage, ListsOfAnAccount DEF getLatestCompletedSyncJobBySellerAccountID
<1>5. Belong(Items(getSKUEffectiveConstraintBySellerAndSKU(a, id)), a)
  BY FirstPageIsAPage, ListsOfAnAccount DEF getSKUEffectiveConstraintBySellerAndSKU, Latest
<1> QED BY <1>1, <1>2, <1>3, <1>4, <1>5

(* The feedback list filters by an account it may be given, ... *)
LEMMA FeedbackKeepsToTheAccount ==
  ASSUME AreRows(rows), NEW a, a # Anything, NEW f, NEW p, IsPage(p)
  PROVE  Belong(Items(adminListChatFeedback(a, f, p)), a)
<1> DEFINE Joined(r) == /\ \E m \in Own("chat_messages", r.account) : m.id = r.to
                        /\ \E s \in Own("chat_sessions", r.account) : s.id = r.of
           S == {r \in rows : r.in = "chat_feedback" /\ Is(a, r.account) /\ Is(f.kind, r.kind) /\ Joined(r)}
<1>1. S \in SUBSET Own("chat_feedback", a)
  BY DEF Own, Is
<1>2. adminListChatFeedback(a, f, p) = Paged(Newest(S), p)
  BY DEF adminListChatFeedback
<1> HIDE DEF S
<1> QED BY <1>1, <1>2, ListsOfAnAccount

(* ... and the alerts of a recommendation are those the account's links name. *)
LEMMA LinkedAlertsAreTheLinks ==
  ASSUME AreRows(rows), NEW a, NEW id
  PROVE  Items(listAlertsByRecommendationID(a, id)) \subseteq Linked(a, id)
<1> DEFINE S == Linked(a, id)
<1>1. OfOneTable(S)
  BY DEF OfOneTable, Linked
<1>2. listAlertsByRecommendationID(a, id) = Newest(S)
  BY DEF listAlertsByRecommendationID, Linked
<1> HIDE DEF S
<1>3. Newest(S) \in Seq(S)
  BY <1>1, NewestIsAList DEF IsRanking
<1>4. Items(Newest(S)) \subseteq S
  BY <1>3 DEF Items
<1> QED BY <1>2, <1>4 DEF S

(* The repository of the admin pages reads these rows by these statements, ... *)
LEMMA AdminReadsTheseRows ==
  ASSUME NEW a, NEW f, NEW p, NEW id
  PROVE  /\ Admin!Service!Repo!adminListSyncJobs(a, f, p) = adminListSyncJobs(a, f, p)
         /\ Admin!Service!Repo!adminListImportJobs(a, f, p) = adminListImportJobs(a, f, p)
         /\ Admin!Service!Repo!adminListImportErrors(a, f, p) = adminListImportErrors(a, f, p)
         /\ Admin!Service!Repo!adminListSyncCursors(a, f, p) = adminListSyncCursors(a, f, p)
         /\ Admin!Service!Repo!adminListRecommendationRuns(a, f, p) = adminListRecommendationRuns(a, f, p)
         /\ Admin!Service!Repo!adminListChatTracesBySeller(a, f, p) = adminListChatTracesBySeller(a, f, p)
         /\ Admin!Service!Repo!adminListChatSessionsBySeller(a, f, p) = adminListChatSessionsBySeller(a, f, p)
         /\ Admin!Service!Repo!adminListChatMessagesBySession(a, id, p) =
              adminListChatMessagesBySession(a, id, p)
         /\ Admin!Service!Repo!adminListChatFeedback(a, f, p) = adminListChatFeedback(a, f, p)
         /\ Admin!Service!Repo!adminListRecommendationFeedbackBySeller(a, f, p) =
              adminListRecommendationFeedbackBySeller(a, f, p)
         /\ Admin!Service!Repo!listRecommendationRunDiagnosticsByRun(a, id, p) =
              listRecommendationRunDiagnosticsByRun(a, id, p)
         /\ Admin!Service!Repo!listAlertRunsBySellerAccountID(a, p) = listAlertRunsBySellerAccountID(a, p)
         /\ Admin!Service!Repo!listAlertsByRecommendationID(a, id) = listAlertsByRecommendationID(a, id)
         /\ Admin!Service!Repo!adminListClientConnections(a) = adminListClientConnections(a)
         /\ Admin!Service!Repo!adminListClients(f, p) = adminListClients(f, p)
         /\ Admin!Service!Repo!listSellerBillingStates(f, p) = listSellerBillingStates(f, p)
<1>1. \A S : Admin!Service!Repo!Newest(S) = Newest(S)
  BY DEF Admin!Service!Repo!Newest, Newest, Admin!Service!Repo!Ordered, Ordered,
      Admin!Service!Repo!Cardinality, Cardinality, Admin!Service!Repo!Newer, Newer
<1>2. \A S : Admin!Service!Repo!Oldest(S) = Oldest(S)
  BY DEF Admin!Service!Repo!Oldest, Oldest, Admin!Service!Repo!Ordered, Ordered,
      Admin!Service!Repo!Cardinality, Cardinality, Admin!Service!Repo!Older, Older, Admin!Service!Repo!Newer,
      Newer
<1>3. \A list, q : Admin!Service!Repo!Paged(list, q) = Paged(list, q)
  BY DEF Admin!Service!Repo!Paged, Paged
<1>4. \A t, b : Admin!Service!Repo!Own(t, b) = Own(t, b)
  BY DEF Admin!Service!Repo!Own, Own
<1>5. \A u, v : Admin!Service!Repo!Is(u, v) = Is(u, v)
  BY DEF Admin!Service!Repo!Is, Is, Admin!Service!Repo!Anything, Anything
<1>6. \A u, v : Admin!Service!Repo!IsRow(u, v) = IsRow(u, v)
  BY DEF Admin!Service!Repo!IsRow, IsRow
<1>7. Admin!Service!Repo!adminListSyncJobs(a, f, p) = adminListSyncJobs(a, f, p)
  BY <1>1, <1>3, <1>4, <1>5
  DEF Admin!Service!Repo!adminListSyncJobs, adminListSyncJobs
<1>8. Admin!Service!Repo!adminListImportJobs(a, f, p) = adminListImportJobs(a, f, p)
  BY <1>1, <1>3, <1>4, <1>5
  DEF Admin!Service!Repo!adminListImportJobs, adminListImportJobs
<1>9. Admin!Service!Repo!adminListImportErrors(a, f, p) = adminListImportErrors(a, f, p)
  BY <1>1, <1>3, <1>4, <1>5
  DEF Admin!Service!Repo!adminListImportErrors, adminListImportErrors
<1>10. Admin!Service!Repo!adminListSyncCursors(a, f, p) = adminListSyncCursors(a, f, p)
  BY <1>1, <1>3, <1>4, <1>5
  DEF Admin!Service!Repo!adminListSyncCursors, adminListSyncCursors
<1>11. Admin!Service!Repo!adminListRecommendationRuns(a, f, p) = adminListRecommendationRuns(a, f, p)
  BY <1>1, <1>3, <1>4, <1>5
  DEF Admin!Service!Repo!adminListRecommendationRuns, adminListRecommendationRuns
<1>12. Admin!Service!Repo!adminListChatTracesBySeller(a, f, p) = adminListChatTracesBySeller(a, f, p)
  BY <1>1, <1>3, <1>4, <1>5, <1>6
  DEF Admin!Service!Repo!adminListChatTracesBySeller, adminListChatTracesBySeller
<1>13. Admin!Service!Repo!adminListChatSessionsBySeller(a, f, p) = adminListChatSessionsBySeller(a, f, p)
  BY DEF Admin!Service!Repo!adminListChatSessionsBySeller, adminListChatSessionsBySeller,
      Admin!Service!Repo!Paged, Paged, Admin!Service!Repo!Ordered, Ordered,
      Admin!Service!Repo!Cardinality, Cardinality, Admin!Service!Repo!Own, Own,
      Admin!Service!Repo!Is, Is, Admin!Service!Repo!Anything, Anything,
      Admin!Service!Repo!TalkedLater, TalkedLater, Admin!Service!Repo!UpdatedLater,
      UpdatedLater
<1>14. Admin!Service!Repo!adminListChatMessagesBySession(a, id, p) = adminListChatMessagesBySession(a, id, p)
  BY <1>2, <1>3, <1>4
  DEF Admin!Service!Repo!adminListChatMessagesBySession, adminListChatMessagesBySession
<1>15. Admin!Service!Repo!adminListChatFeedback(a, f, p) = adminListChatFeedback(a, f, p)
  BY <1>1, <1>3, <1>4, <1>5
  DEF Admin!Service!Repo!adminListChatFeedback, adminListChatFeedback
<1>16. Admin!Service!Repo!adminListRecommendationFeedbackBySeller(a, f, p) =
      adminListRecommendationFeedbackBySeller(a, f, p)
  BY <1>1, <1>3, <1>4, <1>5
  DEF Admin!Service!Repo!adminListRecommendationFeedbackBySeller,
      adminListRecommendationFeedbackBySeller
<1>17. Admin!Service!Repo!listRecommendationRunDiagnosticsByRun(a, id, p) =
      listRecommendationRunDiagnosticsByRun(a, id, p)
  BY <1>1, <1>3, <1>4
  DEF Admin!Service!Repo!listRecommendationRunDiagnosticsByRun,
      listRecommendationRunDiagnosticsByRun
<1>18. Admin!Service!Repo!listAlertRunsBySellerAccountID(a, p) = listAlertRunsBySellerAccountID(a, p)
  BY <1>1, <1>3, <1>4
  DEF Admin!Service!Repo!listAlertRunsBySellerAccountID, listAlertRunsBySellerAccountID
<1>19. Admin!Service!Repo!listAlertsByRecommendationID(a, id) = listAlertsByRecommendationID(a, id)
  BY <1>1, <1>4
  DEF Admin!Service!Repo!listAlertsByRecommendationID, listAlertsByRecommendationID
<1>20. Admin!Service!Repo!adminListClientConnections(a) = adminListClientConnections(a)
  BY <1>1, <1>4
  DEF Admin!Service!Repo!adminListClientConnections, adminListClientConnections
<1>21. Admin!Service!Repo!adminListClients(f, p) = adminListClients(f, p)
  BY <1>1, <1>3, <1>4, <1>5
  DEF Admin!Service!Repo!adminListClients, adminListClients, Admin!Service!Repo!Anything, Anything
<1>22. Admin!Service!Repo!listSellerBillingStates(f, p) = listSellerBillingStates(f, p)
  BY <1>1, <1>3, <1>5
  DEF Admin!Service!Repo!listSellerBillingStates, listSellerBillingStates
<1> QED BY <1>7, <1>8, <1>9, <1>10, <1>11, <1>12, <1>13, <1>14, <1>15, <1>16, <1>17, <1>18, <1>19, <1>20,
      <1>21, <1>22

(* ... the seller's and the chat's repositories do, ... *)
LEMMA SellerReadsTheseRows ==
  ASSUME NEW a, NEW f, NEW p, NEW id
  PROVE  /\ Seller!Reads!listOpenAlertsBySellerAccountID(a, p) = listOpenAlertsBySellerAccountID(a, p)
         /\ Seller!Reads!listAlertsFiltered(a, f, p) = listAlertsFiltered(a, f, p)
         /\ Seller!Reads!listAlertsByGroup(a, id, p) = listAlertsByGroup(a, id, p)
         /\ Seller!Reads!listAlertsByEntitySKU(a, id, p) = listAlertsByEntitySKU(a, id, p)
         /\ Seller!Reads!listAlertsByEntityID(a, id, p) = listAlertsByEntityID(a, id, p)
         /\ Seller!Reads!listRecommendationsFiltered(a, f, p) = listRecommendationsFiltered(a, f, p)
         /\ Seller!Reads!listOpenRecommendationsBySellerAccountID(a, p) =
              listOpenRecommendationsBySellerAccountID(a, p)
         /\ Seller!Reads!listChatSessionsBySellerAccountID(a, p) = listChatSessionsBySellerAccountID(a, p)
         /\ Seller!Reads!listChatMessagesBySessionID(a, id, p) = listChatMessagesBySessionID(a, id, p)
         /\ Seller!Reads!listSKUEffectiveConstraintsPageBySellerAccountID(a, p) =
              listSKUEffectiveConstraintsPageBySellerAccountID(a, p)
         /\ Seller!Reads!getLatestAlertRunBySellerAccountID(a) = getLatestAlertRunBySellerAccountID(a)
         /\ Seller!Reads!getLatestRecommendationRunBySellerAccountID(a) =
              getLatestRecommendationRunBySellerAccountID(a)
         /\ Seller!Reads!getLatestSyncJobBySellerAccountID(a) = getLatestSyncJobBySellerAccountID(a)
         /\ Seller!Reads!getLatestCompletedSyncJobBySellerAccountID(a) =
              getLatestCompletedSyncJobBySellerAccountID(a)
         /\ Seller!Reads!getSKUEffectiveConstraintBySellerAndSKU(a, id) =
              getSKUEffectiveConstraintBySellerAndSKU(a, id)
         /\ Seller!Reads!listAlertsByRecommendationID(a, id) = listAlertsByRecommendationID(a, id)
<1>1. \A S : Seller!Reads!Newest(S) = Newest(S)
  BY DEF Seller!Reads!Newest, Newest, Seller!Reads!Ordered, Ordered, Seller!Reads!Cardinality, Cardinality,
      Seller!Reads!Newer, Newer
<1>2. \A S : Seller!Reads!Oldest(S) = Oldest(S)
  BY DEF Seller!Reads!Oldest, Oldest, Seller!Reads!Ordered, Ordered, Seller!Reads!Cardinality, Cardinality,
      Seller!Reads!Older, Older, Seller!Reads!Newer, Newer
<1>3. \A list, q : Seller!Reads!Paged(list, q) = Paged(list, q)
  BY DEF Seller!Reads!Paged, Paged
<1>4. \A t, b : Seller!Reads!Own(t, b) = Own(t, b)
  BY DEF Seller!Reads!Own, Own
<1>5. \A u, v : Seller!Reads!Is(u, v) = Is(u, v)
  BY DEF Seller!Reads!Is, Is, Seller!Reads!Anything, Anything
<1>6. \A S : Seller!Reads!Open(S) = Open(S)
  BY DEF Seller!Reads!Open, Open
<1>7. \A S : Seller!Reads!Latest(S) = Latest(S)
  BY <1>1, <1>3 DEF Seller!Reads!Latest, Latest, Seller!Reads!FirstPage, FirstPage
<1>8. Seller!Reads!listOpenAlertsBySellerAccountID(a, p) = listOpenAlertsBySellerAccountID(a, p)
  BY <1>1, <1>3, <1>4, <1>6
  DEF Seller!Reads!listOpenAlertsBySellerAccountID, listOpenAlertsBySellerAccountID
<1>9. Seller!Reads!listAlertsFiltered(a, f, p) = listAlertsFiltered(a, f, p)
  BY <1>1, <1>3, <1>4, <1>5
  DEF Seller!Reads!listAlertsFiltered, listAlertsFiltered
<1>10. Seller!Reads!listAlertsByGroup(a, id, p) = listAlertsByGroup(a, id, p)
  BY <1>1, <1>3, <1>4
  DEF Seller!Reads!listAlertsByGroup, listAlertsByGroup
<1>11. Seller!Reads!listAlertsByEntitySKU(a, id, p) = listAlertsByEntitySKU(a, id, p)
  BY <1>1, <1>3, <1>4
  DEF Seller!Reads!listAlertsByEntitySKU, listAlertsByEntitySKU
<1>12. Seller!Reads!listAlertsByEntityID(a, id, p) = listAlertsByEntityID(a, id, p)
  BY <1>1, <1>3, <1>4
  DEF Seller!Reads!listAlertsByEntityID, listAlertsByEntityID
<1>13. Seller!Reads!listRecommendationsFiltered(a, f, p) = listRecommendationsFiltered(a, f, p)
  BY <1>1, <1>3, <1>4, <1>5
  DEF Seller!Reads!listRecommendationsFiltered, listRecommendationsFiltered
<1>14. Seller!Reads!listOpenRecommendationsBySellerAccountID(a, p) =
      listOpenRecommendationsBySellerAccountID(a, p)
  BY <1>1, <1>3, <1>4, <1>6
  DEF Seller!Reads!listOpenRecommendationsBySellerAccountID,
      listOpenRecommendationsBySellerAccountID
<1>15. Seller!Reads!listChatSessionsBySellerAccountID(a, p) = listChatSessionsBySellerAccountID(a, p)
  BY <1>1, <1>3, <1>4
  DEF Seller!Reads!listChatSessionsBySellerAccountID, listChatSessionsBySellerAccountID
<1>16. Seller!Reads!listChatMessagesBySessionID(a, id, p) = listChatMessagesBySessionID(a, id, p)
  BY <1>2, <1>3, <1>4
  DEF Seller!Reads!listChatMessagesBySessionID, listChatMessagesBySessionID
<1>17. Seller!Reads!listSKUEffectiveConstraintsPageBySellerAccountID(a, p) =
      listSKUEffectiveConstraintsPageBySellerAccountID(a, p)
  BY DEF Seller!Reads!listSKUEffectiveConstraintsPageBySellerAccountID,
      listSKUEffectiveConstraintsPageBySellerAccountID, Seller!Reads!Paged, Paged,
      Seller!Reads!Ordered, Ordered, Seller!Reads!Cardinality, Cardinality, Seller!Reads!Own,
      Own, Seller!Reads!ComputedLater, ComputedLater
<1>18. Seller!Reads!getLatestAlertRunBySellerAccountID(a) = getLatestAlertRunBySellerAccountID(a)
  BY <1>4, <1>7
  DEF Seller!Reads!getLatestAlertRunBySellerAccountID, getLatestAlertRunBySellerAccountID
<1>19. Seller!Reads!getLatestRecommendationRunBySellerAccountID(a) =
      getLatestRecommendationRunBySellerAccountID(a)
  BY <1>4, <1>7
  DEF Seller!Reads!getLatestRecommendationRunBySellerAccountID,
      getLatestRecommendationRunBySellerAccountID
<1>20. Seller!Reads!getLatestSyncJobBySellerAccountID(a) = getLatestSyncJobBySellerAccountID(a)
  BY <1>4, <1>7
  DEF Seller!Reads!getLatestSyncJobBySellerAccountID, getLatestSyncJobBySellerAccountID
<1>21. Seller!Reads!getLatestCompletedSyncJobBySellerAccountID(a) =
      getLatestCompletedSyncJobBySellerAccountID(a)
  BY DEF Seller!Reads!getLatestCompletedSyncJobBySellerAccountID,
      getLatestCompletedSyncJobBySellerAccountID, Seller!Reads!Paged, Paged,
      Seller!Reads!Ordered, Ordered, Seller!Reads!Cardinality, Cardinality, Seller!Reads!Own,
      Own, Seller!Reads!UpdatedLater, UpdatedLater, Seller!Reads!FirstPage, FirstPage
<1>22. Seller!Reads!getSKUEffectiveConstraintBySellerAndSKU(a, id) =
      getSKUEffectiveConstraintBySellerAndSKU(a, id)
  BY <1>4, <1>7
  DEF Seller!Reads!getSKUEffectiveConstraintBySellerAndSKU,
      getSKUEffectiveConstraintBySellerAndSKU
<1>23. Seller!Reads!listAlertsByRecommendationID(a, id) = listAlertsByRecommendationID(a, id)
  BY <1>1, <1>4
  DEF Seller!Reads!listAlertsByRecommendationID, listAlertsByRecommendationID
<1> QED BY <1>8, <1>9, <1>10, <1>11, <1>12, <1>13, <1>14, <1>15, <1>16, <1>17, <1>18, <1>19, <1>20, <1>21,
      <1>22, <1>23

(* ... and one handler has a statement of its own. *)
LEMMA SellerHandlerReadsTheseRows ==
  ASSUME NEW a, NEW f, NEW p, NEW id
  PROVE  Seller!getSKUEffectiveConstraintBySellerAndSKU(a, id) =
           getSKUEffectiveConstraintBySellerAndSKU(a, id)
<1>1. \A S : Seller!Newest(S) = Newest(S)
  BY DEF Seller!Newest, Newest, Seller!Ordered, Ordered, Seller!Cardinality, Cardinality, Seller!Newer, Newer
<1>2. \A list, q : Seller!Paged(list, q) = Paged(list, q)
  BY DEF Seller!Paged, Paged
<1>3. \A t, b : Seller!Own(t, b) = Own(t, b)
  BY DEF Seller!Own, Own
<1>4. \A S : Seller!Latest(S) = Latest(S)
  BY <1>1, <1>2 DEF Seller!Latest, Latest, Seller!FirstPage, FirstPage
<1>5. Seller!getSKUEffectiveConstraintBySellerAndSKU(a, id) = getSKUEffectiveConstraintBySellerAndSKU(a, id)
  BY <1>3, <1>4
  DEF Seller!getSKUEffectiveConstraintBySellerAndSKU, getSKUEffectiveConstraintBySellerAndSKU
<1> QED BY <1>5

Owned(answer, a) == answer.limit \in Nat /\ (a # Anything => Belong(Items(answer.items), a))

(* A query that is served is one with a page, and keeps all else it asks. *)
Served(q) == [q EXCEPT !.limit = Admin!ParseAdminPagination(q).limit]

LEMMA ServedQueries ==
  ASSUME NEW q, IsQuery(q)
  PROVE  /\ Served(q).account = q.account /\ Served(q).of = q.of
         /\ Served(q).limit \in Nat /\ Served(q).offset \in Nat
         /\ IsPage(Admin!Service!Repo!NormalizePage(Served(q)))
         /\ Admin!ParseAdminPagination(q).valid \in BOOLEAN
<1>1. PICK route, account, status, kind, of, id, limit, offset :
        /\ q = [route |-> route, account |-> account, status |-> status, kind |-> kind, of |-> of,
                id |-> id, limit |-> limit, offset |-> offset]
        /\ limit \subseteq Nat /\ offset \in Nat
  BY DEF IsQuery
<1>2. Admin!ParseAdminPagination(q).limit \in Nat /\ Admin!ParseAdminPagination(q).valid \in BOOLEAN
  BY <1>1, PageLimits DEF Admin!ParseAdminPagination
<1> DEFINE lim == Admin!ParseAdminPagination(q).limit
<1> HIDE DEF lim
<1>3. [q EXCEPT !.limit = lim]
        = [route |-> route, account |-> account, status |-> status, kind |-> kind, of |-> of,
           id |-> id, limit |-> lim, offset |-> offset]
  BY <1>1
<1>4. /\ Served(q).account = q.account /\ Served(q).of = q.of
      /\ Served(q).limit = lim /\ Served(q).offset = offset
  BY <1>1, <1>3 DEF Served, lim
<1>5. lim \in Nat /\ offset \in Nat
  BY <1>1, <1>2 DEF lim
<1>6. IsPage(Admin!Service!Repo!NormalizePage(Served(q)))
  BY <1>4, <1>5, PageLimits DEF IsPage, Admin!Service!Repo!NormalizePage, Admin!Service!Repo!Clamp
<1> QED BY <1>2, <1>4, <1>5, <1>6

(* A page of the query and the reply around the rows it holds. *)
PageOf(q) == Admin!Service!Repo!NormalizePage(Served(q))
Reply(q, items) ==
    IF Admin!ParseAdminPagination(q).valid
    THEN [items |-> items, limit |-> PageOf(q).limit, offset |-> PageOf(q).offset]
    ELSE Admin!Refused
(* The list of import errors is not filtered by the query's status. *)
AnyStatus(q) == [q EXCEPT !.status = Anything]

LEMMA AdminListingsReadTheseRows ==
  ASSUME NEW q, IsQuery(q)
  PROVE  /\ Admin!ListSyncJobs(q) = Reply(q, adminListSyncJobs(q.account, Served(q), PageOf(q)))
         /\ Admin!ListImportJobs(q) = Reply(q, adminListImportJobs(q.account, Served(q), PageOf(q)))
         /\ Admin!ListSyncCursors(q) = Reply(q, adminListSyncCursors(q.account, Served(q), PageOf(q)))
         /\ Admin!ListRecommendationRuns(q) =
              Reply(q, adminListRecommendationRuns(q.account, Served(q), PageOf(q)))
         /\ Admin!ListChatTraces(q) =
              Reply(q, adminListChatTracesBySeller(q.account, Served(q), PageOf(q)))
         /\ Admin!ListChatSessions(q) =
              Reply(q, adminListChatSessionsBySeller(q.account, Served(q), PageOf(q)))
         /\ Admin!ListChatFeedbackByClient(q) =
              Reply(q, adminListChatFeedback(q.account, Served(q), PageOf(q)))
         /\ Admin!ListAllChatFeedback(q) =
              Reply(q, adminListChatFeedback(q.account, Served(q), PageOf(q)))
         /\ Admin!ListRecommendationFeedbackByClient(q) =
              Reply(q, adminListRecommendationFeedbackBySeller(q.account, Served(q), PageOf(q)))
         /\ Admin!ListChatMessages(q) =
               IF adminGetChatSessionByID(q.account, q.of) # {}
               THEN Reply(q, adminListChatMessagesBySession(q.account, q.of, PageOf(q))) ELSE Admin!Refused
         /\ Admin!ListImportErrors(q) =
              Reply(AnyStatus(q), adminListImportErrors(q.account, Served(AnyStatus(q)), PageOf(AnyStatus(q))))
<1> DEFINE a == q.account
           f == Served(q)
           p == PageOf(q)
           all == AnyStatus(q)
<1>1. f.account = a /\ f.of = q.of
  BY ServedQueries
<1>2. Admin!ListSyncJobs(q) = Reply(q, adminListSyncJobs(a, f, p))
  BY <1>1, AdminReadsTheseRows
  DEF Admin!ListSyncJobs, Admin!Serve, Served, Reply, PageOf, Admin!Service!ListSyncJobs, Admin!Service!ListOf,
      Admin!Service!Result, Admin!Service!Repo!ListSyncJobs
<1>3. Admin!ListImportJobs(q) = Reply(q, adminListImportJobs(a, f, p))
  BY <1>1, AdminReadsTheseRows
  DEF Admin!ListImportJobs, Admin!Serve, Served, Reply, PageOf, Admin!Service!ListImportJobs,
      Admin!Service!ListOf,
      Admin!Service!Result, Admin!Service!Repo!ListImportJobs
<1>4. Admin!ListSyncCursors(q) = Reply(q, adminListSyncCursors(a, f, p))
  BY <1>1, AdminReadsTheseRows
  DEF Admin!ListSyncCursors, Admin!Serve, Served, Reply, PageOf, Admin!Service!ListSyncCursors,
      Admin!Service!ListOf,
      Admin!Service!Result, Admin!Service!Repo!ListSyncCursors
<1>5. Admin!ListRecommendationRuns(q) = Reply(q, adminListRecommendationRuns(a, f, p))
  BY <1>1, AdminReadsTheseRows
  DEF Admin!ListRecommendationRuns, Admin!Serve, Served, Reply, PageOf,
      Admin!Service!GetAIRecommendationLogs, Admin!Service!ListOf,
      Admin!Service!Result, Admin!Service!Repo!ListRecommendationRuns
<1>6. Admin!ListChatTraces(q) = Reply(q, adminListChatTracesBySeller(a, f, p))
  BY <1>1, AdminReadsTheseRows
  DEF Admin!ListChatTraces, Admin!Serve, Served, Reply, PageOf, Admin!Service!GetAIChatLogs,
      Admin!Service!ListOf,
      Admin!Service!Result, Admin!Service!Repo!ListChatTraces
<1>7. Admin!ListChatSessions(q) = Reply(q, adminListChatSessionsBySeller(a, f, p))
  BY <1>1, AdminReadsTheseRows
  DEF Admin!ListChatSessions, Admin!Serve, Served, Reply, PageOf, Admin!Service!ListChatSessions,
      Admin!Service!ListOf,
      Admin!Service!Result, Admin!Service!Repo!ListChatSessions
<1>8. Admin!ListChatFeedbackByClient(q) = Reply(q, adminListChatFeedback(a, f, p))
  BY <1>1, AdminReadsTheseRows
  DEF Admin!ListChatFeedbackByClient, Admin!Serve, Served, Reply, PageOf, Admin!Service!ListChatFeedback,
      Admin!Service!ListOf,
      Admin!Service!Result, Admin!Service!Repo!ListChatFeedback
<1>9. Admin!ListAllChatFeedback(q) = Reply(q, adminListChatFeedback(a, f, p))
  BY <1>1, AdminReadsTheseRows
  DEF Admin!ListAllChatFeedback, Admin!Serve, Served, Reply, PageOf, Admin!Service!ListChatFeedback,
      Admin!Service!ListOf,
      Admin!Service!Result, Admin!Service!Repo!ListChatFeedback
<1>10. Admin!ListRecommendationFeedbackByClient(q) = Reply(q, adminListRecommendationFeedbackBySeller(a, f, p))
  BY <1>1, AdminReadsTheseRows
  DEF Admin!ListRecommendationFeedbackByClient, Admin!Serve, Served, Reply, PageOf,
      Admin!Service!ListRecommendationFeedback, Admin!Service!ListOf,
      Admin!Service!Result, Admin!Service!Repo!ListRecommendationFeedback
<1>11. Admin!ListChatMessages(q) =
         IF adminGetChatSessionByID(a, q.of) # {}
         THEN Reply(q, adminListChatMessagesBySession(a, q.of, p)) ELSE Admin!Refused
  <2>1. Admin!Service!HasChatSession(q) <=> adminGetChatSessionByID(a, q.of) # {}
    BY DEF Admin!Service!HasChatSession, Admin!Service!Repo!GetChatSession,
        Admin!Service!Repo!adminGetChatSessionByID, Admin!Service!Repo!Own, adminGetChatSessionByID, Own
  <2>2. Admin!Serve(q, Admin!Service!ListChatMessages) =
        Reply(q, adminListChatMessagesBySession(a, q.of, p))
    BY <1>1, AdminReadsTheseRows
    DEF Admin!Serve, Served, Reply, PageOf, Admin!Service!ListChatMessages, Admin!Service!ListOf,
        Admin!Service!Result, Admin!Service!Repo!ListChatMessages
  <2> QED BY <2>1, <2>2 DEF Admin!ListChatMessages
<1>12. Admin!ListImportErrors(q) = Reply(all, adminListImportErrors(a, Served(all), PageOf(all)))
  <2>1. IsQuery(all) /\ all.account = a
    BY DEF IsQuery, AnyStatus
  <2>2. all = [q EXCEPT !.status = Admin!Anything]
    BY DEF Admin!Anything, Anything, AnyStatus
  <2> HIDE DEF all
  <2>3. Served(all).account = a
    BY <2>1, ServedQueries
  <2> QED
    BY <2>2, <2>3, AdminReadsTheseRows
    DEF Admin!ListImportErrors, Admin!Serve, Served, Reply, PageOf, Admin!Service!ListImportErrors,
        Admin!Service!ListOf, Admin!Service!Result, Admin!Service!Repo!ListImportErrors
<1> QED BY <1>2, <1>3, <1>4, <1>5, <1>6, <1>7, <1>8, <1>9, <1>10, <1>11, <1>12

LEMMA AdminListingsKeepToTheAccount ==
  ASSUME AreRows(rows), NEW q, IsQuery(q)
  PROVE  /\ Owned(Admin!ListSyncJobs(q), q.account)
         /\ Owned(Admin!ListImportJobs(q), q.account)
         /\ Owned(Admin!ListSyncCursors(q), q.account)
         /\ Owned(Admin!ListRecommendationRuns(q), q.account)
         /\ Owned(Admin!ListChatTraces(q), q.account)
         /\ Owned(Admin!ListChatSessions(q), q.account)
         /\ Owned(Admin!ListChatMessages(q), q.account)
         /\ Owned(Admin!ListChatFeedbackByClient(q), q.account)
         /\ Owned(Admin!ListAllChatFeedback(q), q.account)
         /\ Owned(Admin!ListRecommendationFeedbackByClient(q), q.account)
         /\ Owned(Admin!ListImportErrors(q), q.account)
         /\ q.account = Anything =>
              Owned(Admin!ListClients(q), q.account) /\ Owned(Admin!ListBillingStates(q), q.account)
<1> DEFINE f == Served(q)
           page == PageOf(q)
<1>1. f.account = q.account /\ f.of = q.of /\ IsPage(page)
  BY ServedQueries DEF PageOf
<1>2. \A g, items :
        IsPage(PageOf(g)) /\ (q.account # Anything => Belong(Items(items), q.account))
          => Owned(Reply(g, items), q.account)
  BY DEF Reply, Owned, IsPage, Belong, Items, Admin!Refused
<1>3. Owned(Admin!ListSyncJobs(q), q.account)
  <2>1. q.account # Anything => Belong(Items(adminListSyncJobs(q.account, f, page)), q.account)
    BY <1>1, AdminStatementsKeepToTheAccount
  <2> QED BY <1>1, <1>2, <2>1, AdminListingsReadTheseRows
<1>4. Owned(Admin!ListImportJobs(q), q.account)
  <2>1. q.account # Anything => Belong(Items(adminListImportJobs(q.account, f, page)), q.account)
    BY <1>1, AdminStatementsKeepToTheAccount
  <2> QED BY <1>1, <1>2, <2>1, AdminListingsReadTheseRows
<1>5. Owned(Admin!ListSyncCursors(q), q.account)
  <2>1. q.account # Anything => Belong(Items(adminListSyncCursors(q.account, f, page)), q.account)
    BY <1>1, AdminStatementsKeepToTheAccount
  <2> QED BY <1>1, <1>2, <2>1, AdminListingsReadTheseRows
<1>6. Owned(Admin!ListRecommendationRuns(q), q.account)
  <2>1. q.account # Anything => Belong(Items(adminListRecommendationRuns(q.account, f, page)), q.account)
    BY <1>1, AdminStatementsKeepToTheAccount
  <2> QED BY <1>1, <1>2, <2>1, AdminListingsReadTheseRows
<1>7. Owned(Admin!ListChatTraces(q), q.account)
  <2>1. q.account # Anything => Belong(Items(adminListChatTracesBySeller(q.account, f, page)), q.account)
    BY <1>1, AdminStatementsKeepToTheAccount
  <2> QED BY <1>1, <1>2, <2>1, AdminListingsReadTheseRows
<1>8. Owned(Admin!ListChatSessions(q), q.account)
  <2>1. q.account # Anything => Belong(Items(adminListChatSessionsBySeller(q.account, f, page)), q.account)
    BY <1>1, AdminStatementsKeepToTheAccount
  <2> QED BY <1>1, <1>2, <2>1, AdminListingsReadTheseRows
<1>9. Owned(Admin!ListChatFeedbackByClient(q), q.account)
  <2>1. q.account # Anything => Belong(Items(adminListChatFeedback(q.account, f, page)), q.account)
    BY <1>1, FeedbackKeepsToTheAccount
  <2> QED BY <1>1, <1>2, <2>1, AdminListingsReadTheseRows
<1>10. Owned(Admin!ListAllChatFeedback(q), q.account)
  <2>1. q.account # Anything => Belong(Items(adminListChatFeedback(q.account, f, page)), q.account)
    BY <1>1, FeedbackKeepsToTheAccount
  <2> QED BY <1>1, <1>2, <2>1, AdminListingsReadTheseRows
<1>11. Owned(Admin!ListRecommendationFeedbackByClient(q), q.account)
  <2>1. q.account # Anything =>
          Belong(Items(adminListRecommendationFeedbackBySeller(q.account, f, page)), q.account)
    BY <1>1, AdminStatementsKeepToTheAccount
  <2> QED BY <1>1, <1>2, <2>1, AdminListingsReadTheseRows
<1>12. Owned(Admin!ListChatMessages(q), q.account)
  <2>1. Belong(Items(adminListChatMessagesBySession(q.account, q.of, page)), q.account)
    BY <1>1, AdminStatementsKeepToTheAccount
  <2>2. Owned(Admin!Refused, q.account)
    BY DEF Owned, Belong, Items, Admin!Refused
  <2> QED BY <1>1, <1>2, <2>1, <2>2, AdminListingsReadTheseRows
<1>13. Owned(Admin!ListImportErrors(q), q.account)
  <2> DEFINE all == AnyStatus(q)
  <2>1. IsQuery(all)
    BY DEF IsQuery, AnyStatus
  <2>2. Admin!ListImportErrors(q) = Reply(all, adminListImportErrors(q.account, Served(all), PageOf(all)))
    BY AdminListingsReadTheseRows
  <2> HIDE DEF all
  <2>3. IsPage(PageOf(all))
    BY <2>1, ServedQueries DEF PageOf
  <2>4. Belong(Items(adminListImportErrors(q.account, Served(all), PageOf(all))), q.account)
    BY <2>3, AdminStatementsKeepToTheAccount
  <2> QED BY <1>2, <2>2, <2>3, <2>4
<1>14. ASSUME q.account = Anything
       PROVE  Admin!ListClients(q).limit \in Nat /\ Admin!ListBillingStates(q).limit \in Nat
  <2>1. f.limit \in Nat /\ f.offset \in Nat
    BY ServedQueries
  <2>2. Admin!ListBillingStates(q).limit \in {f.limit, 0}
    BY DEF Admin!ListBillingStates, Admin!Serve, Served, Admin!Refused
  <2>3. Admin!ListClients(q).limit \in
          {Admin!Service!Repo!NormalizePage([f EXCEPT !.limit = page.limit]).limit, 0}
    BY DEF PageOf, Admin!ListClients, Admin!Serve, Served, Admin!Service!ListClients,
           Admin!Service!Repo!ListClients,
           Admin!Refused
  <2>4. Admin!Service!Repo!NormalizePage([f EXCEPT !.limit = page.limit]).limit \in Nat
    <3>1. \A g : g.limit \in Nat => Admin!Service!Repo!NormalizePage(g).limit \in Nat
      BY PageLimits DEF Admin!Service!Repo!NormalizePage, Admin!Service!Repo!Clamp
    <3>2. [f EXCEPT !.limit = page.limit].limit \in Nat
      BY <1>1, ServedQueries DEF IsPage, Served, IsQuery
    <3> QED BY <3>1, <3>2
  <2> QED BY <2>1, <2>2, <2>3, <2>4
<1> QED BY <1>3, <1>4, <1>5, <1>6, <1>7, <1>8, <1>9, <1>10, <1>11, <1>12, <1>13, <1>14 DEF Owned

(* The limits a seller's page may have, and the page that is read for one. *)
FilterLimit(q) == Seller!Clamp(Seller!Given(q, DefaultLimit), MaxLimit)
SessionsLimit(q) == Seller!ParseChatPagination(q, SmallLimit, ChatMax)
MessagesLimit(q) == Seller!ParseChatPagination(q, DefaultLimit, MaxLimit)
Asked(q, n) == [q EXCEPT !.limit = n]
PageWith(q, n) == [limit |-> n, offset |-> q.offset]
SellerReply(q, valid, n, items) ==
    IF valid THEN [items |-> items, limit |-> n, offset |-> q.offset] ELSE Seller!Refused

LEMMA SellerQueries ==
  ASSUME NEW q, IsQuery(q), NEW n \in 1 .. MaxLimit
  PROVE  /\ Asked(q, n).limit = n /\ Asked(q, n).of = q.of
         /\ Asked(q, n).status = q.status /\ Asked(q, n).kind = q.kind
         /\ Seller!Reads!Normalized(Asked(q, n)) = PageWith(q, n) /\ IsPage(PageWith(q, n))
<1>1. PICK route, account, status, kind, of, id, limit, offset :
        /\ q = [route |-> route, account |-> account, status |-> status, kind |-> kind, of |-> of,
                id |-> id, limit |-> limit, offset |-> offset]
        /\ offset \in Nat
  BY DEF IsQuery
<1>2. Asked(q, n)
        = [route |-> route, account |-> account, status |-> status, kind |-> kind, of |-> of,
           id |-> id, limit |-> n, offset |-> offset]
  BY <1>1 DEF Asked
<1>3. MaxLimit \in Nat /\ n \in Nat /\ n # 0 /\ ~(n > MaxLimit)
  BY PageLimits
<1>4. \A g : g.limit = n => Seller!Reads!Normalized(g) = [limit |-> n, offset |-> g.offset]
  BY <1>3 DEF Seller!Reads!Normalized, Seller!Reads!NormalizeLimit, Seller!Reads!Clamp
<1>5. IsPage(PageWith(q, n))
  BY <1>1, <1>3 DEF IsPage, PageWith
<1> QED BY <1>1, <1>2, <1>4, <1>5 DEF PageWith

LEMMA SellerLimits ==
  ASSUME NEW q, IsQuery(q)
  PROVE  /\ FilterLimit(q) \in 0 .. MaxLimit /\ (0 \notin q.limit => FilterLimit(q) # 0)
         /\ SessionsLimit(q) \in 1 .. MaxLimit /\ MessagesLimit(q) \in 1 .. MaxLimit
         /\ Seller!ParsePaginationParams(q) \in 1 .. MaxLimit
<1>1. q.limit \subseteq Nat
  BY DEF IsQuery
<1>2. {SmallLimit, DefaultLimit, ChatMax, MaxLimit} \subseteq Nat \ {0}
      /\ SmallLimit <= DefaultLimit /\ DefaultLimit <= ChatMax /\ ChatMax <= MaxLimit
  BY PageLimits
<1>3. /\ Seller!Given(q, DefaultLimit) \in Nat /\ Seller!Given(q, SmallLimit) \in Nat
      /\ 0 \notin q.limit => Seller!Given(q, DefaultLimit) # 0 /\ Seller!Given(q, SmallLimit) # 0
      /\ q.limit \subseteq 1 .. ChatMax => Seller!Given(q, SmallLimit) \in 1 .. ChatMax
                                            \/ Seller!Given(q, SmallLimit) = SmallLimit
  BY <1>1, <1>2 DEF Seller!Given
<1> QED BY <1>2, <1>3 DEF FilterLimit, SessionsLimit, MessagesLimit, Seller!Clamp,
        Seller!ParseChatPagination, Seller!ParsePaginationParams

LEMMA SellerListingsReadTheseRows ==
  ASSUME NEW a, NEW q, IsQuery(q)
  PROVE  /\ Seller!GetAlerts(a, q) =
              SellerReply(q, Seller!ParseAlertsFilter(q).valid, FilterLimit(q),
                          listAlertsFiltered(a, Asked(q, FilterLimit(q)), PageWith(q, FilterLimit(q))))
         /\ Seller!ListRecommendations(a, q) =
              SellerReply(q, 0 \notin q.limit, FilterLimit(q),
                          listRecommendationsFiltered(a, Asked(q, FilterLimit(q)), PageWith(q, FilterLimit(q))))
         /\ Seller!ListSessions(a, q) =
              SellerReply(q, TRUE, SessionsLimit(q),
                          listChatSessionsBySellerAccountID(a, PageWith(q, SessionsLimit(q))))
         /\ Seller!ListSessionMessages(a, q) =
              SellerReply(q, getChatSessionByID(a, q.of) # {}, MessagesLimit(q),
                          listChatMessagesBySessionID(a, q.of, PageWith(q, MessagesLimit(q))))
         /\ Seller!ListEffectiveConstraints(a, q) =
              SellerReply(q, TRUE, Seller!ParsePaginationParams(q),
                          listSKUEffectiveConstraintsPageBySellerAccountID(
                            a, PageWith(q, Seller!ParsePaginationParams(q))))
<1>1. \A n \in 1 .. MaxLimit :
        Asked(q, n).limit = n /\ Asked(q, n).of = q.of /\ Seller!Reads!Normalized(Asked(q, n)) = PageWith(q, n)
  BY SellerQueries
<1>2. Seller!GetAlerts(a, q) =
        SellerReply(q, Seller!ParseAlertsFilter(q).valid, FilterLimit(q),
                    listAlertsFiltered(a, Asked(q, FilterLimit(q)), PageWith(q, FilterLimit(q))))
  <2> DEFINE n == FilterLimit(q)
             page == Seller!ParseAlertsFilter(q)
  <2>1. page.limit = n /\ (page.valid => n \in 1 .. MaxLimit)
    <3>1. page.valid => 0 \notin q.limit
      BY DEF Seller!ParseAlertsFilter
    <3>2. page.limit = n
      BY DEF Seller!ParseAlertsFilter, FilterLimit
    <3> QED BY <3>1, <3>2, SellerLimits, PageLimits
  <2>2. Seller!GetAlerts(a, q) =
          SellerReply(q, page.valid, n,
                      listAlertsFiltered(a, Asked(q, n), Seller!Reads!Normalized(Asked(q, n))))
    BY <2>1, SellerReadsTheseRows
    DEF Seller!GetAlerts, Seller!Serve, Seller!Reads!ListAlertsFiltered, SellerReply, Asked
  <2> HIDE DEF n, page
  <2>3. CASE page.valid
    BY <1>1, <2>1, <2>2, <2>3 DEF n, page
  <2>4. CASE ~page.valid
    BY <2>2, <2>4 DEF SellerReply, n, page
  <2> QED BY <2>3, <2>4
<1>3. Seller!ListRecommendations(a, q) =
        SellerReply(q, 0 \notin q.limit, FilterLimit(q),
                    listRecommendationsFiltered(a, Asked(q, FilterLimit(q)), PageWith(q, FilterLimit(q))))
  <2> DEFINE n == FilterLimit(q)
             page == Seller!ParseRecommendationsFilter(q)
  <2>1. page.limit = n /\ (page.valid <=> 0 \notin q.limit) /\ (0 \notin q.limit => n \in 1 .. MaxLimit)
    <3>1. page.limit = n /\ (page.valid <=> 0 \notin q.limit)
      BY DEF Seller!ParseRecommendationsFilter, FilterLimit
    <3>2. 0 \notin q.limit => n \in 1 .. MaxLimit
      BY SellerLimits, PageLimits
    <3> QED BY <3>1, <3>2
  <2>2. CASE 0 \notin q.limit
    <3>1. n \in 1 .. MaxLimit /\ MaxLimit \in Nat
      BY <2>1, <2>2, PageLimits
    <3> HIDE DEF n
    <3>2. [Asked(q, n) EXCEPT !.limit = IF @ = 0 THEN DefaultLimit ELSE Seller!Reads!Clamp(@, MaxLimit)]
            = Asked(q, n)
      <4> DEFINE g == Asked(q, n)
      <4>1. g = [g EXCEPT !.limit = n] /\ g.limit = n
        BY DEF IsQuery, Asked
      <4>2. (IF n = 0 THEN DefaultLimit ELSE Seller!Reads!Clamp(n, MaxLimit)) = n
        BY <3>1 DEF Seller!Reads!Clamp
      <4> HIDE DEF g
      <4>3. [g EXCEPT !.limit = IF @ = 0 THEN DefaultLimit ELSE Seller!Reads!Clamp(@, MaxLimit)]
              = [g EXCEPT !.limit = n]
        BY <4>1, <4>2
      <4> QED BY <4>1, <4>3 DEF g
    <3>3. Seller!ListRecommendations(a, q) =
            SellerReply(q, TRUE, n,
                        listRecommendationsFiltered(a, Asked(q, n), Seller!Reads!Normalized(Asked(q, n))))
      <4>1. Seller!Reads!ListRecommendations(a, Asked(q, n)) =
              listRecommendationsFiltered(a, Asked(q, n), Seller!Reads!Normalized(Asked(q, n)))
        BY <3>2, SellerReadsTheseRows
        DEF Seller!Reads!ListRecommendations, Seller!Reads!ListRecommendationsFiltered
      <4> HIDE DEF page
      <4> QED BY <2>1, <2>2, <4>1 DEF Seller!ListRecommendations, Seller!Serve, SellerReply, Asked, page
    <3> QED BY <1>1, <2>2, <3>1, <3>3 DEF n
  <2>3. CASE ~(0 \notin q.limit)
    BY <2>1, <2>3 DEF Seller!ListRecommendations, Seller!Serve, SellerReply
  <2> QED BY <2>2, <2>3
<1>4. Seller!ListSessions(a, q) =
        SellerReply(q, TRUE, SessionsLimit(q),
                    listChatSessionsBySellerAccountID(a, PageWith(q, SessionsLimit(q))))
  <2> DEFINE n == SessionsLimit(q)
  <2>1. Seller!ListSessions(a, q) =
          SellerReply(q, TRUE, n, listChatSessionsBySellerAccountID(a, Seller!Reads!Normalized(Asked(q, n))))
    BY SellerReadsTheseRows
    DEF Seller!ListSessions, Seller!Serve, Seller!Reads!ListSessions, SellerReply, Asked, SessionsLimit
  <2> QED BY <1>1, <2>1, SellerLimits
<1>5. Seller!ListSessionMessages(a, q) =
        SellerReply(q, getChatSessionByID(a, q.of) # {}, MessagesLimit(q),
                    listChatMessagesBySessionID(a, q.of, PageWith(q, MessagesLimit(q))))
  <2> DEFINE n == MessagesLimit(q)
  <2>1. Seller!Reads!GetSession(a, q.of) = getChatSessionByID(a, q.of)
    BY DEF Seller!Reads!GetSession, Seller!Reads!getChatSessionByID, getChatSessionByID, Seller!Reads!Own, Own
  <2>2. Seller!ListSessionMessages(a, q) =
          SellerReply(q, getChatSessionByID(a, q.of) # {}, n,
                      listChatMessagesBySessionID(a, Asked(q, n).of, Seller!Reads!Normalized(Asked(q, n))))
    BY <2>1, SellerReadsTheseRows
    DEF Seller!ListSessionMessages, Seller!Serve, Seller!Reads!ListMessages, SellerReply, Asked, MessagesLimit
  <2> QED BY <1>1, <2>2, SellerLimits
<1>6. Seller!ListEffectiveConstraints(a, q) =
        SellerReply(q, TRUE, Seller!ParsePaginationParams(q),
                    listSKUEffectiveConstraintsPageBySellerAccountID(
                            a, PageWith(q, Seller!ParsePaginationParams(q))))
  <2> DEFINE n == Seller!ParsePaginationParams(q)
  <2>1. Seller!Reads!Normalized(Asked(q, n)) = PageWith(q, n)
    BY <1>1, SellerLimits
  <2> HIDE DEF n
  <2>2. Seller!Reads!ListEffectiveConstraintsPage(a, Asked(q, n)).items =
          listSKUEffectiveConstraintsPageBySellerAccountID(a, PageWith(q, n))
        /\ Seller!Reads!ListEffectiveConstraintsPage(a, Asked(q, n)).limit = n
        /\ Seller!Reads!ListEffectiveConstraintsPage(a, Asked(q, n)).offset = q.offset
    BY <2>1, SellerReadsTheseRows DEF Seller!Reads!ListEffectiveConstraintsPage, PageWith
  <2> QED BY <2>2 DEF Seller!ListEffectiveConstraints, SellerReply, Asked, n
<1> QED BY <1>2, <1>3, <1>4, <1>5, <1>6

LEMMA SellerListingsKeepToTheAccount ==
  ASSUME AreRows(rows), NEW a, NEW q, IsQuery(q)
  PROVE  /\ Owned(Seller!GetAlerts(a, q), a)
         /\ Owned(Seller!ListRecommendations(a, q), a)
         /\ Owned(Seller!ListSessions(a, q), a)
         /\ Owned(Seller!ListSessionMessages(a, q), a)
         /\ Owned(Seller!ListEffectiveConstraints(a, q), a)
<1>1. \A n \in Nat : IsPage(PageWith(q, n))
  BY DEF IsPage, PageWith, IsQuery
<1>2. \A n \in Nat : \A valid, items : Belong(Items(items), a) => Owned(SellerReply(q, valid, n, items), a)
  BY DEF SellerReply, Owned, Belong, Items, Seller!Refused
<1>3. {FilterLimit(q), SessionsLimit(q), MessagesLimit(q), Seller!ParsePaginationParams(q)} \subseteq Nat
  BY SellerLimits, PageLimits
<1>4. \A n \in Nat : \A f, id :
        /\ Belong(Items(listAlertsFiltered(a, f, PageWith(q, n))), a)
        /\ Belong(Items(listRecommendationsFiltered(a, f, PageWith(q, n))), a)
        /\ Belong(Items(listChatSessionsBySellerAccountID(a, PageWith(q, n))), a)
        /\ Belong(Items(listChatMessagesBySessionID(a, id, PageWith(q, n))), a)
        /\ Belong(Items(listSKUEffectiveConstraintsPageBySellerAccountID(a, PageWith(q, n))), a)
  BY <1>1, SellerStatementsKeepToTheAccount
<1>5. Owned(Seller!GetAlerts(a, q), a)
  <2> DEFINE n == FilterLimit(q)
             list == listAlertsFiltered(a, Asked(q, n), PageWith(q, n))
  <2>1. Seller!GetAlerts(a, q) = SellerReply(q, Seller!ParseAlertsFilter(q).valid, n, list)
    BY SellerListingsReadTheseRows
  <2>2. n \in Nat /\ Belong(Items(list), a)
    BY <1>3, <1>4
  <2> HIDE DEF n, list
  <2> QED BY <1>2, <2>1, <2>2
<1>6. Owned(Seller!ListRecommendations(a, q), a)
  <2> DEFINE n == FilterLimit(q)
             list == listRecommendationsFiltered(a, Asked(q, n), PageWith(q, n))
  <2>1. Seller!ListRecommendations(a, q) = SellerReply(q, 0 \notin q.limit, n, list)
    BY SellerListingsReadTheseRows
  <2>2. n \in Nat /\ Belong(Items(list), a)
    BY <1>3, <1>4
  <2> HIDE DEF n, list
  <2> QED BY <1>2, <2>1, <2>2
<1>7. Owned(Seller!ListSessions(a, q), a)
  <2> DEFINE n == SessionsLimit(q)
             list == listChatSessionsBySellerAccountID(a, PageWith(q, n))
  <2>1. Seller!ListSessions(a, q) = SellerReply(q, TRUE, n, list)
    BY SellerListingsReadTheseRows
  <2>2. n \in Nat /\ Belong(Items(list), a)
    BY <1>3, <1>4
  <2> HIDE DEF n, list
  <2> QED BY <1>2, <2>1, <2>2
<1>8. Owned(Seller!ListSessionMessages(a, q), a)
  <2> DEFINE n == MessagesLimit(q)
             list == listChatMessagesBySessionID(a, q.of, PageWith(q, n))
  <2>1. Seller!ListSessionMessages(a, q) = SellerReply(q, getChatSessionByID(a, q.of) # {}, n, list)
    BY SellerListingsReadTheseRows
  <2>2. n \in Nat /\ Belong(Items(list), a)
    BY <1>3, <1>4
  <2> HIDE DEF n, list
  <2> QED BY <1>2, <2>1, <2>2
<1>9. Owned(Seller!ListEffectiveConstraints(a, q), a)
  <2> DEFINE n == Seller!ParsePaginationParams(q)
             list == listSKUEffectiveConstraintsPageBySellerAccountID(a, PageWith(q, n))
  <2>1. Seller!ListEffectiveConstraints(a, q) = SellerReply(q, TRUE, n, list)
    BY SellerListingsReadTheseRows
  <2>2. n \in Nat /\ Belong(Items(list), a)
    BY <1>3, <1>4
  <2> HIDE DEF n, list
  <2> QED BY <1>2, <2>1, <2>2
<1> QED BY <1>5, <1>6, <1>7, <1>8, <1>9

(* A page or a detail of an account, as the modules of the handlers see it. *)
LEMMA ItemsAndPagesAreThese ==
  ASSUME NEW list, NEW n
  PROVE  /\ Admin!Service!Items(list) = Items(list) /\ Admin!Service!Repo!Items(list) = Items(list)
         /\ Seller!Items(list) = Items(list) /\ Seller!Reads!Items(list) = Items(list)
         /\ Admin!Service!FirstPage(n) = FirstPage(n) /\ Admin!Service!Repo!FirstPage(n) = FirstPage(n)
         /\ Seller!Reads!FirstPage(n) = FirstPage(n)
BY DEF Admin!Service!Items, Admin!Service!Repo!Items, Seller!Items, Seller!Reads!Items, Items,
       Admin!Service!FirstPage, Admin!Service!Repo!FirstPage, Seller!Reads!FirstPage, FirstPage

LEMMA LimitsGivePages ==
  /\ IsPage(FirstPage(1)) /\ IsPage(FirstPage(SmallLimit)) /\ IsPage(FirstPage(DefaultLimit))
  /\ IsPage(FirstPage(MaxLimit))
BY PageLimits, FirstPageIsAPage

LEMMA AdminDetailsKeepToTheAccount ==
  ASSUME AreRows(rows), NEW q
  PROVE  /\ Belong(Admin!GetClientDetail(q), q.account)
         /\ Belong(Admin!GetBillingStateByClient(q), q.account)
         /\ Belong(Admin!GetRecommendationRunDetail(q), q.account)
         /\ Belong(Admin!GetRecommendationRawAI(q) \ Linked(q.account, q.id), q.account)
         /\ Belong(Admin!GetChatTraceDetail(q), q.account)
<1> DEFINE a == q.account
           all == [status |-> Anything, kind |-> Anything, of |-> 0]
<1> USE ItemsAndPagesAreThese, LimitsGivePages, AdminReadsTheseRows
<1>1. Belong(Admin!Service!Repo!GetBillingState(a), a)
  BY DEF Admin!Service!Repo!GetBillingState, Admin!Service!Repo!getSellerBillingState, Admin!Service!Repo!Own,
      Belong
<1>2. Belong(Admin!GetClientDetail(q), a)
  <2>1. Belong(Admin!Service!Repo!GetClientOverview(a), a)
    BY DEF Admin!Service!Repo!GetClientOverview, Admin!Service!Repo!adminGetClientOverview,
        Admin!Service!Repo!Own, Belong
  <2>2. Belong(Items(adminListClientConnections(a)), a)
    BY ListsOfAnAccount DEF adminListClientConnections
  <2>3. /\ Belong(Items(adminListSyncJobs(a, all, FirstPage(1))), a)
        /\ Belong(Items(adminListImportJobs(a, all, FirstPage(SmallLimit))), a)
        /\ Belong(Items(listAlertRunsBySellerAccountID(a, FirstPage(1))), a)
        /\ Belong(Items(adminListRecommendationRuns(a, all, FirstPage(1))), a)
        /\ Belong(Items(adminListChatTracesBySeller(a, all, FirstPage(1))), a)
    BY AdminStatementsKeepToTheAccount
  <2>4. Belong(Admin!Service!GetOperationalStatus(a), a)
    BY <2>3
    DEF Admin!Service!GetOperationalStatus, Admin!Service!Glance, Admin!Service!Anything, Anything,
        Admin!Service!Repo!ListSyncJobs, Admin!Service!Repo!ListImportJobs, Admin!Service!Repo!ListAlertRuns,
        Admin!Service!Repo!ListRecommendationRuns, Admin!Service!Repo!ListChatTraces, Belong
  <2> QED
    BY <1>1, <2>1, <2>2, <2>4
    DEF Admin!GetClientDetail, Admin!Service!GetClientDetail, Admin!Service!Repo!GetClientConnections, Belong
<1>3. Belong(Admin!GetBillingStateByClient(q), a)
  BY <1>1 DEF Admin!GetBillingStateByClient, Admin!Service!GetBillingState
<1>4. Belong(Admin!GetRecommendationRunDetail(q), a)
  <2>1. \A id : Belong(Items(listRecommendationRunDiagnosticsByRun(a, id, FirstPage(MaxLimit))), a)
    BY AdminStatementsKeepToTheAccount
  <2> QED
    BY <2>1
    DEF Admin!GetRecommendationRunDetail, Admin!Service!GetRecommendationRunDetail,
        Admin!Service!Repo!GetRecommendationRunDetail, Admin!Service!Repo!adminGetRecommendationRunByID,
        Admin!Service!Repo!Own, Belong
<1>5. Belong(Admin!GetRecommendationRawAI(q) \ Linked(a, q.id), a)
  <2>1. Items(listAlertsByRecommendationID(a, q.id)) \subseteq Linked(a, q.id)
    BY LinkedAlertsAreTheLinks
  <2> QED
    BY <2>1
    DEF Admin!GetRecommendationRawAI, Admin!Service!GetRecommendationRawAI,
        Admin!Service!Repo!GetRecommendationRawAI, Admin!Service!Repo!getRecommendationByID,
        Admin!Service!Repo!Own, Belong
<1>6. Belong(Admin!GetChatTraceDetail(q), a)
  <2>1. \A id : Belong(Items(adminListChatMessagesBySession(a, id, FirstPage(MaxLimit))), a)
    BY AdminStatementsKeepToTheAccount
  <2> QED
    BY <2>1
    DEF Admin!GetChatTraceDetail, Admin!Service!GetChatTraceDetail, Admin!Service!Repo!GetChatTraceDetail,
        Admin!Service!Repo!getChatTraceByID, Admin!Service!Repo!Own, Belong
<1> QED BY <1>2, <1>3, <1>4, <1>5, <1>6

LEMMA SellerDetailsKeepToTheAccount ==
  ASSUME AreRows(rows), NEW a, NEW q, IsQuery(q)
  PROVE  /\ Belong(Seller!GetAlertSummary(a), a)
         /\ Belong(Seller!GetRecommendationSummary(a), a)
         /\ Belong(Seller!GetRecommendationByID(a, q) \ Linked(a, q.id), a)
         /\ Belong(Seller!GetChatSession(a, q), a)
         /\ Belong(Seller!GetEffectiveConstraint(a, q), a)
         /\ Belong(Seller!GetConnection(a), a)
         /\ Belong(Seller!GetSyncStatus(a), a)
         /\ Belong(Seller!RunTool(a, q) \ Linked(a, q.id), a)
<1> USE ItemsAndPagesAreThese, LimitsGivePages, SellerReadsTheseRows
<1>1. \A table : Belong(Seller!Reads!Own(table, a), a) /\ Belong(Seller!Own(table, a), a)
  BY DEF Seller!Reads!Own, Seller!Own, Belong
<1>2. /\ Belong(Items(getLatestAlertRunBySellerAccountID(a)), a)
      /\ Belong(Items(getLatestRecommendationRunBySellerAccountID(a)), a)
      /\ Belong(Items(getLatestSyncJobBySellerAccountID(a)), a)
      /\ Belong(Items(getLatestCompletedSyncJobBySellerAccountID(a)), a)
  BY LatestKeepToTheAccount
<1>3. \A id : Belong(Items(getSKUEffectiveConstraintBySellerAndSKU(a, id)), a)
  BY LatestKeepToTheAccount
<1>4. Items(listAlertsByRecommendationID(a, q.id)) \subseteq Linked(a, q.id)
  BY LinkedAlertsAreTheLinks
<1>5. Belong(Seller!GetAlertSummary(a), a)
  BY <1>1, <1>2
  DEF Seller!GetAlertSummary, Seller!Reads!AlertSummary, Seller!Reads!CountOpenAlerts,
      Seller!Reads!CountOpenAlertsBySeverity, Seller!Reads!CountOpenAlertsByGroup, Seller!Reads!GetLatestRun,
      Seller!Reads!countOpenAlertsBySellerAccountID, Seller!Reads!countOpenAlertsBySeverity,
      Seller!Reads!countOpenAlertsByGroup, Seller!Reads!Open, Belong
<1>6. Belong(Seller!GetRecommendationSummary(a), a)
  BY <1>1, <1>2
  DEF Seller!GetRecommendationSummary, Seller!Reads!RecommendationSummary,
      Seller!Reads!CountOpenRecommendations, Seller!Reads!CountOpenRecommendationsByPriority,
      Seller!Reads!CountOpenRecommendationsByConfidence, Seller!Reads!GetLatestRecommendationRun,
      Seller!Reads!countOpenRecommendationsBySellerAccountID, Seller!Reads!countOpenRecommendationsByPriority,
      Seller!Reads!countOpenRecommendationsByConfidence, Seller!Reads!Open, Belong
<1>7. Belong(Seller!GetRecommendationByID(a, q) \ Linked(a, q.id), a)
  BY <1>1, <1>4
  DEF Seller!GetRecommendationByID, Seller!Reads!GetRecommendationDetailByID,
      Seller!Reads!GetRecommendationByID,
      Seller!Reads!getRecommendationByID, Seller!Reads!ListAlertsByRecommendationID, Belong
<1>8. Belong(Seller!GetChatSession(a, q), a)
  BY <1>1 DEF Seller!GetChatSession, Seller!Reads!GetSession, Seller!Reads!getChatSessionByID, Belong
<1>9. Belong(Seller!GetEffectiveConstraint(a, q), a)
  BY <1>3, SellerHandlerReadsTheseRows DEF Seller!GetEffectiveConstraint
<1>10. Belong(Seller!GetConnection(a), a)
  BY <1>1 DEF Seller!GetConnection, Seller!getOzonConnectionBySellerAccountID
<1>11. Belong(Seller!GetSyncStatus(a), a)
  BY <1>1, <1>2
  DEF Seller!GetSyncStatus, Seller!Reads!GetStatus, Seller!Reads!getOzonConnectionBySellerAccountID,
      Seller!Reads!listLatestImportJobsBySellerAccountID, Belong
<1>12. Belong(Seller!RunTool(a, q) \ Linked(a, q.id), a)
  <2> DEFINE n == Seller!Given(q, 0)
             f == [q EXCEPT !.limit = n]
             page == Seller!Reads!ToolPage(n)
  <2>1. n \in Nat /\ f.limit = n
    <3>1. n \in Nat
      BY DEF Seller!Given, IsQuery
    <3> HIDE DEF n
    <3> QED BY <3>1 DEF IsQuery
  <2>2. IsPage(page)
    BY <2>1, PageLimits, FirstPageIsAPage
    DEF Seller!Reads!ToolPage, Seller!Reads!NormalizeLimit, Seller!Reads!Clamp
  <2> HIDE DEF n, f
  <2>3. \A id : /\ Belong(Items(listOpenRecommendationsBySellerAccountID(a, page)), a)
                /\ Belong(Items(listOpenAlertsBySellerAccountID(a, page)), a)
                /\ Belong(Items(listAlertsByGroup(a, id, page)), a)
    BY <2>2, SellerStatementsKeepToTheAccount
  <2>4. \A id : /\ Belong(Items(listAlertsByEntitySKU(a, id, FirstPage(SmallLimit))), a)
                /\ Belong(Items(listAlertsByEntityID(a, id, FirstPage(SmallLimit))), a)
                /\ Belong(Items(listOpenRecommendationsBySellerAccountID(a, FirstPage(DefaultLimit))), a)
    BY SellerStatementsKeepToTheAccount
  <2>5. Belong(Seller!Reads!ToolOpenRecommendations(a, f), a) /\ Belong(Seller!Reads!ToolOpenAlerts(a, f), a)
    BY <2>1, <2>3 DEF Seller!Reads!ToolOpenRecommendations, Seller!Reads!ToolOpenAlerts, Belong
  <2>6. Belong(Seller!Reads!ToolAlertsByGroup(a, q.kind, f.limit), a)
    BY <2>1, <2>3 DEF Seller!Reads!ToolAlertsByGroup, Seller!Reads!Open, Belong
  <2>7. Belong(Seller!Reads!ToolRecommendationDetail(a, q.id) \ Linked(a, q.id), a)
    BY <1>1, <1>4 DEF Seller!Reads!ToolRecommendationDetail, Seller!Reads!getRecommendationByID, Belong
  <2>8. Belong(Seller!Reads!ToolSKUContext(a, q.id), a)
    BY <1>1, <1>3, <2>4
    DEF Seller!Reads!ToolSKUContext, Seller!Reads!listProductsBySellerAccountID, Seller!Reads!Open, Belong
  <2>9. Belong(Seller!Reads!ToolCampaignContext(a, q.id), a)
    BY <1>1, <2>4 DEF Seller!Reads!ToolCampaignContext, Seller!Reads!Open, Belong
  <2> QED BY <2>5, <2>6, <2>7, <2>8, <2>9 DEF Seller!RunTool, f, n, Belong
<1> QED BY <1>5, <1>6, <1>7, <1>8, <1>9, <1>10, <1>11, <1>12

(* Whatever the route, an answer is made of rows of the account it is about. *)
LEMMA AnswersAreOwned ==
  ASSUME AreRows(rows), NEW t, NEW q, IsQuery(q), IsListing(q)
  PROVE  Owned(Answer(t, q), Subject(t, q))
<1>1. q.route \in AdminListings \cup SellerListings
  BY DEF IsListing
<1>2. CASE q.route \in AdminListings
  <2>1. q.route \in {"clients", "billing"} => q.account = Anything
    BY DEF IsQuery
  <2>2. Owned(AdminList(q), q.account)
    BY <1>2, <2>1, AdminListingsKeepToTheAccount DEF AdminList, AdminListings
  <2> QED BY <1>2, <2>2 DEF Answer, Subject, ForAdmin
<1>3. CASE q.route \in SellerListings
  <2>1. Owned(SellerList(Holder(t), q), Holder(t))
    BY <1>3, SellerListingsKeepToTheAccount DEF SellerList, SellerListings
  <2>2. ~ForAdmin(q)
    BY <1>3 DEF ForAdmin, AdminListings, SellerListings, AdminDetails
  <2> QED BY <2>1, <2>2 DEF Answer, Subject
<1> QED BY <1>1, <1>2, <1>3

LEMMA DetailsAreOwned ==
  ASSUME AreRows(rows), NEW t, NEW q, IsQuery(q), ~IsListing(q)
  PROVE  Belong(Detail(t, q) \ ShownByLink(t, q), Subject(t, q))
<1>1. q.route \in AdminDetails \cup SellerDetails
  BY DEF IsListing, IsQuery
<1>2. CASE q.route \in AdminDetails
  <2>1. Subject(t, q) = q.account /\ Detail(t, q) = AdminDetail(q)
    BY <1>2 DEF Detail, Subject, ForAdmin
  <2>2. CASE q.route = "raw-recommendation"
    BY <2>1, <2>2, AdminDetailsKeepToTheAccount DEF AdminDetail, ShownByLink
  <2>3. CASE q.route # "raw-recommendation"
    <3>1. Belong(AdminDetail(q), q.account)
      BY <1>2, <2>3, AdminDetailsKeepToTheAccount DEF AdminDetail, AdminDetails
    <3> QED BY <2>1, <3>1 DEF Belong
  <2> QED BY <2>2, <2>3
<1>3. CASE q.route \in SellerDetails
  <2>1. ~ForAdmin(q)
    BY <1>3 DEF ForAdmin, AdminListings, SellerDetails, AdminDetails
  <2>2. Subject(t, q) = Holder(t) /\ Detail(t, q) = SellerDetail(Holder(t), q)
    BY <2>1 DEF Detail, Subject
  <2>3. CASE q.route \in {"recommendation", "chat-tool"}
    BY <2>2, <2>3, SellerDetailsKeepToTheAccount DEF SellerDetail, ShownByLink
  <2>4. CASE q.route \notin {"recommendation", "chat-tool"}
    <3>1. Belong(SellerDetail(Holder(t), q), Holder(t))
      BY <1>3, <2>4, SellerDetailsKeepToTheAccount DEF SellerDetail, SellerDetails
    <3> QED BY <2>2, <3>1 DEF Belong
  <2> QED BY <2>3, <2>4
<1> QED BY <1>1, <1>2, <1>3

-----------------------------------------------------------------------------
(* Every write leaves the keys as they must be. *)

LEMMA NewKeysAreFresh ==
  ASSUME AreRows(rows)
  PROVE  NextId \in Nat /\ \A r \in rows : r.id # NextId
<1> DEFINE Keys == {r.id : r \in rows}
           S == {0} \cup Keys
           R == {p \in S \X S : p[1] < p[2]}
<1>1. \A r \in rows : r.id \in Nat
  BY DEF AreRows, IsDataRow
<1>2. IsFiniteSet(rows)
  BY DEF AreRows
<1>3. IsFiniteSet(Keys)
  <2> DEFINE key == [r \in rows |-> r.id]
  <2>1. key \in [rows -> Keys] /\ \A k \in Keys : \E r \in rows : key[r] = k
    OBVIOUS
  <2>2. key \in Surjection(rows, Keys)
    BY <2>1 DEF Surjection
  <2> QED BY <1>2, <2>2, FS_Surjection
<1>4. IsFiniteSet(S) /\ S # {} /\ S \subseteq Nat
  BY <1>1, <1>3, FS_AddElement
<1>5. \A x, y \in S : <<x, y>> \in R <=> x < y
  OBVIOUS
<1> HIDE DEF S, R
<1>6. TotalOn(S, R)
  BY <1>4, <1>5 DEF TotalOn
<1>7. PICK m \in S : \A y \in S \ {m} : <<y, m>> \in R
  BY <1>4, <1>6, TotalOrdersHaveALast
<1>8. m \in S /\ \A y \in S : m >= y
  <2>1. \A y \in S : y = m \/ y < m
    BY <1>5, <1>7
  <2>2. m \in Nat /\ \A y \in S : y \in Nat
    BY <1>4, <1>7
  <2> QED BY <2>1, <2>2
<1>9. Max(S) \in S /\ \A y \in S : Max(S) >= y
  BY <1>8 DEF Max
<1>10. NextId = 1 + Max(S)
  BY DEF NextId, S
<1>11. \A r \in rows : r.id \in S
  BY DEF S
<1>12. Max(S) \in Nat /\ \A r \in rows : r.id \in Nat /\ Max(S) >= r.id
  BY <1>4, <1>9, <1>11
<1> QED BY <1>10, <1>12

(* What a write leaves is rows again, and it moves none down: a row it adds has
   a new key, one it rewrites the time of the write. *)
Rewrites(x, y, time) ==
    /\ y.id = x.id /\ y.in = x.in /\ x.in # "chat_messages"
    /\ y.updated = time /\ y.at \in {x.at, time}
    /\ x.in = "chat_sessions" => y.kind \in {x.kind, "talked"}
Adds(y, time) == y.at = time /\ y.updated = time /\ \A x \in rows : x.in = y.in => x.id # y.id
Written(next, time) ==
    /\ AreRows(next)
    /\ \A y \in next \ rows : Adds(y, time) \/ \E x \in rows : Rewrites(x, y, time)

LEMMA PutKeepsRows ==
  ASSUME AreRows(rows), NEW table, NEW a, NEW of, NEW to, NEW status, NEW kind, NEW at \in Nat,
         table = "chat_sessions" => kind \in {"talked", "silent"}
  PROVE  Written(Put(NewRow(table, a, of, to, status, kind, at)), at)
<1> DEFINE row == NewRow(table, a, of, to, status, kind, at)
<1>1. NextId \in Nat /\ \A r \in rows : r.id # NextId
  BY NewKeysAreFresh
<1>2. /\ row = [id |-> row.id, in |-> row.in, account |-> row.account, of |-> row.of, to |-> row.to,
                status |-> row.status, kind |-> row.kind, at |-> row.at, updated |-> row.updated]
      /\ row.id = NextId /\ row.in = table /\ row.account = a /\ row.to = to /\ row.kind = kind
      /\ row.at = at /\ row.updated = at
  BY DEF NewRow
<1> HIDE DEF row
<1>3. IsDataRow(row)
  BY <1>1, <1>2 DEF IsDataRow
<1>4. IsFiniteSet(rows \cup {row})
  BY FS_AddElement DEF AreRows
<1>5. \A r \in rows \cup {row} : IsDataRow(r)
  BY <1>3 DEF AreRows
<1>6. \A r, s \in rows \cup {row} : r.in = s.in /\ r.id = s.id => r = s
  BY <1>1, <1>2 DEF AreRows
<1>7. Adds(row, at)
  BY <1>1, <1>2 DEF Adds
<1>8. AreRows(rows \cup {row})
  BY <1>4, <1>5, <1>6 DEF AreRows
<1> QED BY <1>7, <1>8 DEF Written, Put, row

LEMMA ReplaceKeepsRows ==
  ASSUME AreRows(rows), NEW old \in rows, NEW new, IsDataRow(new), NEW time, Rewrites(old, new, time)
  PROVE  Written(Replace(old, new), time)
<1> DEFINE next == (rows \ {old}) \cup {new}
<1>0. new.id = old.id /\ new.in = old.in
  BY DEF Rewrites
<1>1. IsFiniteSet(next)
  BY FS_RemoveElement, FS_AddElement DEF AreRows
<1>2. \A r \in next : IsDataRow(r)
  BY DEF AreRows
<1>3. \A r, s \in next : r.in = s.in /\ r.id = s.id => r = s
  BY <1>0 DEF AreRows
<1> QED BY <1>1, <1>2, <1>3 DEF AreRows, Written, Replace

(* The statements that only set times, a status or the kind of a session. *)
LEMMA ChangesKeepRows ==
  ASSUME AreRows(rows), NEW r \in rows, r.in # "chat_messages", NEW time \in Nat, NEW status
  PROVE  /\ Written(SeenAgain(r, time), time)
         /\ Written(archiveChatSession(r, time), time)
         /\ Written(touchChatSession(r, time), time)
         /\ Written(SetStatus(r, status, time), time)
<1>1. PICK id, in, account, of, to, status0, kind0, at0, updated0 :
        /\ r = [id |-> id, in |-> in, account |-> account, of |-> of, to |-> to,
                status |-> status0, kind |-> kind0, at |-> at0, updated |-> updated0]
        /\ {id, at0, updated0} \subseteq Nat
        /\ in = "chat_sessions" => kind0 \in {"talked", "silent"}
  BY DEF AreRows, IsDataRow
<1> DEFINE Changed(at, updated, st, kind) ==
             [id |-> id, in |-> in, account |-> account, of |-> of, to |-> to,
              status |-> st, kind |-> kind, at |-> at, updated |-> updated]
<1>2. \A at \in {at0, time} : \A st, kind :
        (in = "chat_sessions" => kind \in {kind0, "talked"}) =>
            Written(Replace(r, Changed(at, time, st, kind)), time)
  <2> SUFFICES ASSUME NEW at \in {at0, time}, NEW st, NEW kind,
                      in = "chat_sessions" => kind \in {kind0, "talked"}
               PROVE  Written(Replace(r, Changed(at, time, st, kind)), time)
    OBVIOUS
  <2> DEFINE new == Changed(at, time, st, kind)
  <2>1. IsDataRow(new)
    BY <1>1 DEF IsDataRow
  <2>2. Rewrites(r, new, time)
    BY <1>1 DEF Rewrites
  <2> HIDE DEF new
  <2>3. Written(Replace(r, new), time)
    BY <2>1, <2>2, ReplaceKeepsRows
  <2> QED BY <2>3 DEF new
<1>3. r = Changed(at0, updated0, status0, kind0)
  BY <1>1
<1>4. [r EXCEPT !.at = time, !.updated = time] = Changed(time, time, status0, kind0)
  <2> DEFINE seen1 == [r EXCEPT !.at = time]
  <2>1. seen1 = Changed(time, updated0, status0, kind0)
    BY <1>3
  <2> HIDE DEF seen1
  <2>2. [seen1 EXCEPT !.updated = time] = Changed(time, time, status0, kind0)
    BY <2>1
  <2> QED BY <2>2 DEF seen1
<1>5. [r EXCEPT !.at = time, !.updated = time, !.kind = "talked"] = Changed(time, time, status0, "talked")
  <2> DEFINE seen2 == [r EXCEPT !.at = time, !.updated = time]
  <2>1. seen2 = Changed(time, time, status0, kind0)
    BY <1>4
  <2> HIDE DEF seen2
  <2>2. [seen2 EXCEPT !.kind = "talked"] = Changed(time, time, status0, "talked")
    BY <2>1
  <2> QED BY <2>2 DEF seen2
<1>6. \A st : [r EXCEPT !.status = st, !.updated = time] = Changed(at0, time, st, kind0)
  <2> TAKE st
  <2> DEFINE set == [r EXCEPT !.status = st]
  <2>1. set = Changed(at0, updated0, st, kind0)
    BY <1>3
  <2> HIDE DEF set
  <2>2. [set EXCEPT !.updated = time] = Changed(at0, time, st, kind0)
    BY <2>1
  <2> QED BY <2>2 DEF set
<1>7. Written(SeenAgain(r, time), time)
  <2>1. Written(Replace(r, Changed(time, time, status0, kind0)), time)
    BY <1>1, <1>2
  <2> HIDE DEF Changed
  <2> QED BY <1>4, <2>1 DEF SeenAgain
<1>8. Written(touchChatSession(r, time), time)
  <2>1. Written(Replace(r, Changed(time, time, status0, "talked")), time)
    BY <1>1, <1>2
  <2> HIDE DEF Changed
  <2> QED BY <1>5, <2>1 DEF touchChatSession
<1>9. Written(archiveChatSession(r, time), time)
  <2>1. Written(Replace(r, Changed(at0, time, "archived", kind0)), time)
    BY <1>1, <1>2
  <2> HIDE DEF Changed
  <2> QED BY <1>6, <2>1 DEF archiveChatSession
<1>10. Written(SetStatus(r, status, time), time)
  <2>1. Written(Replace(r, Changed(at0, time, status, kind0)), time)
    BY <1>1, <1>2
  <2> HIDE DEF Changed
  <2> QED BY <1>6, <2>1 DEF SetStatus
<1> QED BY <1>7, <1>8, <1>9, <1>10

LEMMA RewrittenRowsKeepRows ==
  ASSUME AreRows(rows), NEW old \in rows, NEW of, NEW to, NEW status, NEW kind, NEW at \in Nat,
         old.in \notin {"chat_sessions", "chat_messages"}
  PROVE  Written(Replace(old, [NewRow(old.in, old.account, of, to, status, kind, at) EXCEPT !.id = old.id]), at)
<1> DEFINE new == [NewRow(old.in, old.account, of, to, status, kind, at) EXCEPT !.id = old.id]
<1>1. new = [id |-> old.id, in |-> old.in, account |-> old.account, of |-> of, to |-> to,
             status |-> status, kind |-> kind, at |-> at, updated |-> at]
  BY DEF NewRow
<1>2. old.id \in Nat
  BY DEF AreRows, IsDataRow
<1> HIDE DEF new
<1>3. IsDataRow(new)
  BY <1>1, <1>2 DEF IsDataRow
<1>4. Rewrites(old, new, at)
  BY <1>1 DEF Rewrites
<1>5. Written(Replace(old, new), at)
  BY <1>3, <1>4, ReplaceKeepsRows
<1> QED BY <1>5 DEF new

LEMMA UpsertsKeepRows ==
  ASSUME AreRows(rows), NEW a, NEW status, NEW m, NEW time \in Nat
  PROVE  /\ Written(upsertSyncCursor(a, status, time), time)
         /\ Written(upsertSellerBillingState(a, status, time), time)
         /\ Written(createChatFeedback(m, status, time), time)
         /\ Written(createRecommendationFeedback(m, status, time), time)
<1>1. Written(upsertSyncCursor(a, status, time), time)
  <2> DEFINE Same(r) == r.in = "sync_cursors" /\ r.account = a /\ r.kind = status
             row == NewRow("sync_cursors", a, 0, 0, "stored", status, time)
             old == CHOOSE r \in rows : Same(r)
  <2>1. CASE \E r \in rows : Same(r)
    <3>1. old \in rows /\ old.in = "sync_cursors" /\ old.account = a
      BY <2>1
    <3>2. upsertSyncCursor(a, status, time) = Replace(old, [row EXCEPT !.id = old.id])
      BY <2>1 DEF upsertSyncCursor, Upsert
    <3> HIDE DEF old
    <3>3. Written(Replace(old,
            [NewRow(old.in, old.account, 0, 0, "stored", status, time) EXCEPT !.id = old.id]), time)
      BY <3>1, RewrittenRowsKeepRows
    <3> QED BY <3>1, <3>2, <3>3
  <2>2. CASE ~\E r \in rows : Same(r)
    <3>1. upsertSyncCursor(a, status, time) = Put(row)
      BY <2>2 DEF upsertSyncCursor, Upsert
    <3>2. Written(Put(row), time)
      BY PutKeepsRows
    <3> QED BY <3>1, <3>2
  <2> QED BY <2>1, <2>2
<1>2. Written(upsertSellerBillingState(a, status, time), time)
  <2> DEFINE Same(r) == r.in = "seller_billing_state" /\ r.account = a
             row == NewRow("seller_billing_state", a, 0, 0, status, "plan", time)
             old == CHOOSE r \in rows : Same(r)
  <2>1. CASE \E r \in rows : Same(r)
    <3>1. old \in rows /\ old.in = "seller_billing_state" /\ old.account = a
      BY <2>1
    <3>2. upsertSellerBillingState(a, status, time) = Replace(old, [row EXCEPT !.id = old.id])
      BY <2>1 DEF upsertSellerBillingState, Upsert
    <3> HIDE DEF old
    <3>3. Written(Replace(old,
            [NewRow(old.in, old.account, 0, 0, status, "plan", time) EXCEPT !.id = old.id]), time)
      BY <3>1, RewrittenRowsKeepRows
    <3> QED BY <3>1, <3>2, <3>3
  <2>2. CASE ~\E r \in rows : Same(r)
    <3>1. upsertSellerBillingState(a, status, time) = Put(row)
      BY <2>2 DEF upsertSellerBillingState, Upsert
    <3>2. Written(Put(row), time)
      BY PutKeepsRows
    <3> QED BY <3>1, <3>2
  <2> QED BY <2>1, <2>2
<1>3. Written(createChatFeedback(m, status, time), time)
  <2> DEFINE Same(r) == r.in = "chat_feedback" /\ r.account = m.account /\ r.to = m.id
             row == NewRow("chat_feedback", m.account, m.of, m.id, "stored", status, time)
             old == CHOOSE r \in rows : Same(r)
  <2>1. CASE \E r \in rows : Same(r)
    <3>1. old \in rows /\ old.in = "chat_feedback" /\ old.account = m.account
      BY <2>1
    <3>2. createChatFeedback(m, status, time) = Replace(old, [row EXCEPT !.id = old.id])
      BY <2>1 DEF createChatFeedback, Upsert
    <3> HIDE DEF old
    <3>3. Written(Replace(old,
            [NewRow(old.in, old.account, m.of, m.id, "stored", status, time) EXCEPT !.id = old.id]), time)
      BY <3>1, RewrittenRowsKeepRows
    <3> QED BY <3>1, <3>2, <3>3
  <2>2. CASE ~\E r \in rows : Same(r)
    <3>1. createChatFeedback(m, status, time) = Put(row)
      BY <2>2 DEF createChatFeedback, Upsert
    <3>2. Written(Put(row), time)
      BY PutKeepsRows
    <3> QED BY <3>1, <3>2
  <2> QED BY <2>1, <2>2
<1>4. Written(createRecommendationFeedback(m, status, time), time)
  <2> DEFINE Same(r) == r.in = "recommendation_feedback" /\ r.account = m.account /\ r.of = m.id
             row == NewRow("recommendation_feedback", m.account, m.id, 0, "stored", status, time)
             old == CHOOSE r \in rows : Same(r)
  <2>1. CASE \E r \in rows : Same(r)
    <3>1. old \in rows /\ old.in = "recommendation_feedback" /\ old.account = m.account
      BY <2>1
    <3>2. createRecommendationFeedback(m, status, time) = Replace(old, [row EXCEPT !.id = old.id])
      BY <2>1 DEF createRecommendationFeedback, Upsert
    <3> HIDE DEF old
    <3>3. Written(Replace(old,
            [NewRow(old.in, old.account, m.id, 0, "stored", status, time) EXCEPT !.id = old.id]), time)
      BY <3>1, RewrittenRowsKeepRows
    <3> QED BY <3>1, <3>2, <3>3
  <2>2. CASE ~\E r \in rows : Same(r)
    <3>1. createRecommendationFeedback(m, status, time) = Put(row)
      BY <2>2 DEF createRecommendationFeedback, Upsert
    <3>2. Written(Put(row), time)
      BY PutKeepsRows
    <3> QED BY <3>1, <3>2
  <2> QED BY <2>1, <2>2
<1> QED BY <1>1, <1>2, <1>3, <1>4

LEMMA CreationsKeepRows ==
  ASSUME AreRows(rows), NEW at \in Nat, CreateARow(at)
  PROVE  Written(rows', at)
<1>1. \A table \in {"sync_jobs", "alert_runs", "recommendation_runs", "import_jobs",
                    "recommendation_run_diagnostics",
                    "chat_messages", "chat_traces"} :
        \A a, of, to, status, kind : Written(Put(NewRow(table, a, of, to, status, kind, at)), at)
  BY PutKeepsRows
<1>2. \A a : Written(Put(NewRow("chat_sessions", a, 0, 0, "active", "silent", at)), at)
  BY PutKeepsRows
<1>3. \A a : /\ Written(createSyncJob(a, at), at) /\ Written(createAlertRun(a, at), at)
             /\ Written(createRecommendationRun(a, at), at) /\ Written(createChatSession(a, at), at)
  BY <1>1, <1>2 DEF createSyncJob, createAlertRun, createRecommendationRun, createChatSession
<1>4. \A r, domain : /\ Written(createImportJob(r, domain, at), at) /\ Written(createChatMessage(r, at), at)
                     /\ Written(createRecommendationRunDiagnostic(r, at), at)
                     /\ Written(createChatTrace(r, at), at)
  BY <1>1 DEF createImportJob, createRecommendationRunDiagnostic, createChatMessage, createChatTrace
<1> QED BY <1>3, <1>4 DEF CreateARow

LEMMA RewritesKeepRows ==
  ASSUME AreRows(rows), NEW at \in Nat, UpsertARow(at)
  PROVE  Written(rows', at)
<1>1. \A a, m, v : /\ Written(upsertSyncCursor(a, v, at), at) /\ Written(upsertSellerBillingState(a, v, at), at)
                   /\ Written(createChatFeedback(m, v, at), at)
                   /\ Written(createRecommendationFeedback(m, v, at), at)
  BY UpsertsKeepRows
<1>2. ASSUME NEW rec \in In("recommendations"), NEW alert \in In("alerts")
      PROVE  Written(linkRecommendationAlert(rec, alert, at), at)
  <2>1. Written(Put(NewRow("recommendation_alert_links", rec.account, rec.id, alert.id, "stored", "link", at)),
        at)
    BY PutKeepsRows
  <2>2. Written(rows, at)
    BY DEF Written
  <2> QED BY <2>1, <2>2 DEF linkRecommendationAlert
<1> QED BY <1>1, <1>2 DEF UpsertARow

LEMMA WritesKeepRows ==
  ASSUME AreRows(rows), writes \in Nat, Write
  PROVE  Written(rows', 2 + writes) /\ writes' = 1 + writes /\ writes' \in Nat
<1> DEFINE at == 2 + writes
<1>1. at \in Nat /\ writes' = 1 + writes /\ writes' \in Nat
  BY DEF Write
<1>2. CASE CreateARow(at)
  BY <1>1, <1>2, CreationsKeepRows
<1>3. CASE UpsertARow(at)
  BY <1>1, <1>3, RewritesKeepRows
<1>4. CASE ChangeARow(at)
  <2>1. \A r \in rows : \A status : r.in # "chat_messages" =>
          /\ Written(SeenAgain(r, at), at) /\ Written(archiveChatSession(r, at), at)
          /\ Written(touchChatSession(r, at), at) /\ Written(SetStatus(r, status, at), at)
    BY <1>1, ChangesKeepRows
  <2> QED BY <1>1, <1>4, <2>1 DEF ChangeARow, In, Open
<1> QED BY <1>1, <1>2, <1>3, <1>4 DEF Write

-----------------------------------------------------------------------------
(* The walk keeps a query that is one, whatever page it has come to. *)
LEMMA NextPagesAreQueries ==
  ASSUME NEW q, IsQuery(q), IsListing(q), NEW n \in Nat
  PROVE  IsQuery([q EXCEPT !.offset = @ + n]) /\ IsListing([q EXCEPT !.offset = @ + n])
<1>1. PICK route, account, status, kind, of, id, limit, offset :
        /\ q = [route |-> route, account |-> account, status |-> status, kind |-> kind, of |-> of,
                id |-> id, limit |-> limit, offset |-> offset]
        /\ limit \subseteq Nat /\ offset \in Nat
        /\ route \in {"clients", "billing"} => account = Anything
        /\ route \in AdminListings \cup SellerListings
  BY DEF IsQuery, IsListing
<1> DEFINE next == [q EXCEPT !.offset = @ + n]
<1>2. next = [route |-> route, account |-> account, status |-> status, kind |-> kind, of |-> of,
              id |-> id, limit |-> limit, offset |-> offset + n]
  BY <1>1
<1>3. offset + n \in Nat
  BY <1>1
<1> HIDE DEF next
<1>4. IsQuery(next) /\ IsListing(next)
  BY <1>1, <1>2, <1>3 DEF IsQuery, IsListing
<1> QED BY <1>4 DEF next

LEMMA AnswersShownAreOwned ==
  ASSUME NEW t, NEW q, NEW shown,
         Subject(t, q) # Anything => Belong(shown \ ShownByLink(t, q), Subject(t, q)),
         seen' = Seen(t, q, shown)
  PROVE  AnswersStayInTheAccount'
<1>1. seen'.subject = Subject(t, q) /\ seen'.owners = {r.account : r \in shown \ ShownByLink(t, q)}
  BY DEF Seen
<1> QED BY <1>1 DEF AnswersStayInTheAccount, Belong

LEMMA ReadPageKeepsInv ==
  ASSUME DataInv, ReadPage
  PROVE  DataInv'
<1> DEFINE q == walk.query
           answer == Answer(walk.token, q)
           next == [q EXCEPT !.offset = @ + answer.limit]
<1>1. IsWalk(walk) /\ AreRows(rows) /\ writes \in Nat /\ walk.stage = "walking"
  BY DEF DataInv, IsWalk, ReadPage
<1>2. IsQuery(q) /\ IsListing(q)
  BY <1>1 DEF IsWalk
<1>3. Owned(answer, Subject(walk.token, q))
  BY <1>1, <1>2, AnswersAreOwned
<1>4. AnswersStayInTheAccount'
  <2>1. Subject(walk.token, q) # Anything =>
          Belong(Items(answer.items) \ ShownByLink(walk.token, q), Subject(walk.token, q))
    BY <1>3 DEF Owned, Belong
  <2>2. seen' = Seen(walk.token, q, Items(answer.items))
    BY DEF ReadPage
  <2> HIDE DEF q, answer
  <2> QED BY <2>1, <2>2, AnswersShownAreOwned
<1>5. IsQuery(next) /\ IsListing(next)
  <2>1. answer.limit \in Nat
    BY <1>3 DEF Owned
  <2> HIDE DEF q, answer
  <2> QED BY <1>2, <2>1, NextPagesAreQueries
<1>6. PICK stage, query, got : 
        /\ walk' = [stage |-> stage, token |-> walk.token, query |-> query, got |-> got,
                    start |-> walk.start, left |-> walk.left]
        /\ stage = "walking" => query = next
  <2>1. walk = [stage |-> walk.stage, token |-> walk.token, query |-> q, got |-> walk.got,
                start |-> walk.start, left |-> walk.left]
    BY <1>1 DEF IsWalk
  <2>2. \/ \E stage \in {"refused", "over"} : walk' = [walk EXCEPT !.stage = stage]
        \/ walk' = [walk EXCEPT !.got = @ \cup Items(answer.items), !.query.offset = @ + answer.limit]
    BY DEF ReadPage
  <2> HIDE DEF q, answer
  <2>3. [walk EXCEPT !.got = @ \cup Items(answer.items), !.query.offset = @ + answer.limit]
          = [stage |-> walk.stage, token |-> walk.token, query |-> next,
              got |-> walk.got \cup Items(answer.items),
             start |-> walk.start, left |-> walk.left]
    <3> DEFINE met == walk.got \cup Items(answer.items)
    <3> HIDE DEF met
    <3> DEFINE fed == [walk EXCEPT !.got = met]
    <3>1. fed = [stage |-> walk.stage, token |-> walk.token, query |-> q, got |-> met,
                 start |-> walk.start, left |-> walk.left]
      BY <2>1
    <3> HIDE DEF fed
    <3>2. fed.query = q
      BY <3>1
    <3>3. [fed EXCEPT !.query.offset = @ + answer.limit] = [fed EXCEPT !.query = next]
      BY <3>2 DEF next
    <3>4. [fed EXCEPT !.query = next]
            = [stage |-> walk.stage, token |-> walk.token, query |-> next, got |-> met,
               start |-> walk.start, left |-> walk.left]
      BY <3>1
    <3>5. [fed EXCEPT !.query.offset = @ + answer.limit]
            = [stage |-> walk.stage, token |-> walk.token, query |-> next, got |-> met,
               start |-> walk.start, left |-> walk.left]
      BY <3>3, <3>4
    <3> QED BY <3>5 DEF fed, met
  <2>4. \A stage : [walk EXCEPT !.stage = stage]
          = [stage |-> stage, token |-> walk.token, query |-> q, got |-> walk.got,
             start |-> walk.start, left |-> walk.left]
    BY <2>1
  <2> HIDE DEF next
  <2> QED BY <2>2, <2>3, <2>4
<1>7. IsWalk(walk')
  <2> HIDE DEF next
  <2> QED BY <1>5, <1>6 DEF IsWalk
<1>8. AreRows(rows') /\ writes' \in Nat
  BY <1>1 DEF ReadPage
<1> QED BY <1>4, <1>7, <1>8 DEF DataInv, IsWalk

LEMMA BeginWalkKeepsInv ==
  ASSUME DataInv, NEW t \in Tokens, NEW q \in Queries, BeginWalk(t, q)
  PROVE  DataInv'
<1>1. IsQuery(q) /\ IsListing(q)
  BY DataConstants DEF BeginWalk
<1>2. walk' = [stage |-> "walking", token |-> t, query |-> q, got |-> {}, start |-> Listed(t, q),
      left |-> FALSE]
  BY DEF BeginWalk, NoWalk
<1>3. IsWalk(walk')
  BY <1>1, <1>2 DEF IsWalk
<1> QED BY <1>3 DEF DataInv, BeginWalk, AnswersStayInTheAccount

LEMMA WriteKeepsInv ==
  ASSUME DataInv, Write
  PROVE  DataInv'
<1>1. AreRows(rows') /\ writes' \in Nat
  BY WritesKeepRows DEF DataInv, Written
<1>2. IsWalk(walk')
  <2>1. CASE walk.stage = "idle"
    BY <2>1 DEF Write, DataInv
  <2>2. CASE walk.stage = "walking"
    <3>1. PICK start, left : walk' = [walk EXCEPT !.start = start, !.left = left]
      BY <2>2 DEF Write
    <3>2. walk = [stage |-> walk.stage, token |-> walk.token, query |-> walk.query, got |-> walk.got,
                  start |-> walk.start, left |-> walk.left]
      BY DEF DataInv, IsWalk
    <3> DEFINE fewer == [walk EXCEPT !.start = start]
    <3>3. fewer = [stage |-> walk.stage, token |-> walk.token, query |-> walk.query, got |-> walk.got,
                   start |-> start, left |-> walk.left]
      BY <3>2
    <3> HIDE DEF fewer
    <3>4. [fewer EXCEPT !.left = left]
            = [stage |-> walk.stage, token |-> walk.token, query |-> walk.query, got |-> walk.got,
               start |-> start, left |-> left]
      BY <3>3
    <3>5. walk' = [stage |-> walk.stage, token |-> walk.token, query |-> walk.query, got |-> walk.got,
                   start |-> start, left |-> left]
      BY <3>1, <3>4 DEF fewer
    <3> QED BY <3>5 DEF DataInv, IsWalk
  <2> QED BY <2>1, <2>2 DEF Write
<1>3. AnswersStayInTheAccount'
  BY DEF Write, DataInv, AnswersStayInTheAccount
<1> QED BY <1>1, <1>2, <1>3 DEF DataInv

LEMMA DataInvHolds == DataSpec => []DataInv
<1>1. SessionInit /\ DataInit => DataInv
  <2> SUFFICES ASSUME DataInit PROVE DataInv
    OBVIOUS
  <2>1. IsWalk(walk)
    BY DEF DataInit, NoWalk, IsWalk
  <2> QED BY <2>1, DataConstants DEF DataInit, DataInv, AnswersStayInTheAccount, NothingSeen
<1>2. DataInv /\ [DataNext]_accountVars => DataInv'
  <2> SUFFICES ASSUME DataInv, [DataNext]_accountVars PROVE DataInv'
    OBVIOUS
  <2>1. ASSUME NEW t \in Tokens, NEW q \in Queries, ReadDetail(t, q) PROVE DataInv'
    <3>1. IsQuery(q) /\ ~IsListing(q) /\ AreRows(rows)
      BY <2>1, DataConstants DEF ReadDetail, DataInv
    <3>2. Belong(Detail(t, q) \ ShownByLink(t, q), Subject(t, q))
      BY <3>1, DetailsAreOwned
    <3>3. AnswersStayInTheAccount'
      BY <2>1, <3>2, AnswersShownAreOwned DEF ReadDetail
    <3> QED BY <2>1, <3>3 DEF DataInv, ReadDetail
  <2>2. ASSUME NEW t \in Tokens, NEW q \in Queries, BeginWalk(t, q) PROVE DataInv'
    BY <2>2, BeginWalkKeepsInv
  <2>3. CASE ReadPage
    BY <2>3, ReadPageKeepsInv
  <2>4. CASE WalkIsRefused
    <3>1. walk' = [walk EXCEPT !.stage = "refused"]
      BY <2>4 DEF WalkIsRefused
    <3>2. walk = [stage |-> walk.stage, token |-> walk.token, query |-> walk.query, got |-> walk.got,
                  start |-> walk.start, left |-> walk.left]
      BY DEF DataInv, IsWalk
    <3>3. walk' = [stage |-> "refused", token |-> walk.token, query |-> walk.query, got |-> walk.got,
                   start |-> walk.start, left |-> walk.left]
      BY <3>1, <3>2
    <3>4. IsWalk(walk')
      BY <3>3 DEF IsWalk
    <3> QED BY <2>4, <3>4 DEF DataInv, WalkIsRefused, AnswersStayInTheAccount
  <2>5. CASE Write
    BY <2>5, WriteKeepsInv
  <2>6. CASE UNCHANGED dataVars
    BY <2>6 DEF DataInv, dataVars, AnswersStayInTheAccount
  <2> QED BY <2>1, <2>2, <2>3, <2>4, <2>5, <2>6 DEF DataNext, accountVars
<1> QED BY <1>1, <1>2, PTL DEF DataSpec

(* Every row a listing, a detail page or a chat tool answers with belongs to
   the account the request is about, whatever was written before; only the
   alerts that a link of the account names for the recommendation asked for
   may be another's. *)
THEOREM AnswersAreTheAccounts == DataSpec => []AnswersStayInTheAccount
<1>1. DataInv => AnswersStayInTheAccount
  BY DEF DataInv
<1> QED BY <1>1, DataInvHolds, PTL

-----------------------------------------------------------------------------
(* Walks.  A row's rank is the number of rows before it in its listing: the
   rank tells two rows apart, ... *)
LEMMA RanksTellApart ==
  ASSUME NEW S, IsFiniteSet(S), NEW R, TotalOn(S, R), NEW x \in S
  PROVE  /\ Rank(S, R, x) \in Nat /\ Cardinality(S) \in Nat /\ Rank(S, R, x) < Cardinality(S)
         /\ \A y \in S : <<x, y>> \in R => Rank(S, R, x) < Rank(S, R, y)
<1> DEFINE Before(y) == {s \in S : <<s, y>> \in R}
<1>1. \A T \in SUBSET S : IsFiniteSet(T) /\ Cardinality(T) \in Nat
  BY FS_Subset, FS_CardinalityType
<1>2. x \notin Before(x)
  BY DEF TotalOn
<1> HIDE DEF Before
<1>3. ASSUME NEW T \in SUBSET S, Before(x) \subseteq T, x \in T
      PROVE  Cardinality(Before(x)) < Cardinality(T)
  <2>1. Before(x) \in SUBSET S
    BY <1>3
  <2>2. IsFiniteSet(Before(x) \cup {x}) /\ Cardinality(Before(x) \cup {x}) = Cardinality(Before(x)) + 1
    BY <1>1, <1>2, <2>1, FS_AddElement
  <2>3. Cardinality(Before(x) \cup {x}) <= Cardinality(T)
    BY <1>1, <1>3, FS_Subset
  <2>4. Cardinality(Before(x)) \in Nat /\ Cardinality(T) \in Nat
    BY <1>1, <2>1
  <2> QED BY <2>2, <2>3, <2>4
<1>4. Before(x) \subseteq S
  BY DEF Before
<1>5. \A y \in S : <<x, y>> \in R => Before(x) \subseteq Before(y) /\ x \in Before(y) /\ Before(y) \subseteq S
  BY DEF Before, TotalOn
<1>6. \A y : Rank(S, R, y) = Cardinality(Before(y))
  BY DEF Rank, Before
<1> QED BY <1>1, <1>3, <1>4, <1>5, <1>6

(* ... so that a page holds the rows of the ranks it is cut at, ... *)
LEMMA PagesAreCutByRank ==
  ASSUME NEW S, IsFiniteSet(S), NEW R, TotalOn(S, R), NEW list, IsRanking(list, S, R),
         NEW m \in Nat \ {0}, NEW n \in Nat
  PROVE  LET page == Paged(list, [limit |-> m, offset |-> n])
         IN /\ Items(page) = {r \in S : n <= Rank(S, R, r) /\ Rank(S, R, r) < n + m}
            /\ page = <<>> => Cardinality(S) <= n
<1> DEFINE size == Cardinality(S)
           last == IF n + m < size THEN n + m ELSE size
           page == Paged(list, [limit |-> m, offset |-> n])
<1>1. size \in Nat
  BY FS_CardinalityType
<1>2. list \in Seq(S) /\ Len(list) = size /\ \A i \in 1 .. size : list[i] \in S /\ Rank(S, R, list[i]) = i - 1
  BY <1>1 DEF IsRanking
<1>3. page = SubSeq(list, n + 1, last)
  BY <1>2 DEF Paged
<1>4. last \in Nat /\ last <= size /\ last <= n + m /\ (last = size \/ last = n + m)
  BY <1>1
<1> HIDE DEF page, last
<1>5. DOMAIN page = 1 .. (last - n) /\ \A i \in 1 .. (last - n) : page[i] = list[i + n] /\ i + n \in 1 .. size
  <2> HIDE DEF size
  <2>1. DOMAIN SubSeq(list, n + 1, last) = 1 .. (last - n)
    BY <1>1, <1>2, <1>4
  <2>2. \A i \in 1 .. (last - n) : SubSeq(list, n + 1, last)[i] = list[i + (n + 1) - 1]
    BY <1>1, <1>2, <1>4
  <2> QED BY <1>1, <1>3, <1>4, <2>1, <2>2
<1>6. ASSUME NEW r \in S
      PROVE  Rank(S, R, r) + 1 \in 1 .. size /\ list[Rank(S, R, r) + 1] = r /\ Rank(S, R, r) \in Nat
  <2> DEFINE k == Rank(S, R, r)
  <2>1. k \in Nat /\ k < size
    BY RanksTellApart
  <2>2. k + 1 \in 1 .. size /\ list[k + 1] \in S /\ Rank(S, R, list[k + 1]) = k
    <3> HIDE DEF k, size
    <3>1. k + 1 \in 1 .. size /\ (k + 1) - 1 = k
      BY <1>1, <2>1
    <3> QED BY <1>2, <3>1
  <2>3. list[k + 1] = r
    <3> DEFINE s == list[k + 1]
    <3>1. s \in S /\ Rank(S, R, s) = Rank(S, R, r)
      BY <2>2
    <3> HIDE DEF s
    <3>2. <<s, r>> \notin R /\ <<r, s>> \notin R
      BY <3>1, RanksTellApart
    <3> QED BY <3>1, <3>2 DEF TotalOn, s
  <2> QED BY <2>1, <2>2, <2>3
<1>7. ASSUME NEW r \in Items(page)
      PROVE  r \in S /\ n <= Rank(S, R, r) /\ Rank(S, R, r) < n + m
  <2>1. PICK i \in 1 .. (last - n) : r = list[i + n] /\ i + n \in 1 .. size
    BY <1>5 DEF Items
  <2>2. r \in S /\ Rank(S, R, r) = i + n - 1
    BY <1>2, <2>1
  <2> QED BY <1>4, <2>1, <2>2
<1>8. ASSUME NEW r \in S, n <= Rank(S, R, r), Rank(S, R, r) < n + m
      PROVE  r \in Items(page)
  <2> DEFINE i == Rank(S, R, r) + 1 - n
  <2>1. i \in 1 .. (last - n) /\ i + n = Rank(S, R, r) + 1
    <3> HIDE DEF size
    <3> QED BY <1>1, <1>4, <1>6, <1>8
  <2> HIDE DEF i
  <2>2. page[i] = r /\ i \in DOMAIN page
    BY <1>5, <1>6, <2>1
  <2> QED BY <2>2 DEF Items
<1>9. ASSUME page = <<>>
      PROVE  size <= n
  <2>1. DOMAIN page = {}
    BY <1>9
  <2>2. ~(1 <= last - n)
    <3>1. 1 \notin 1 .. (last - n)
      BY <1>5, <2>1
    <3> QED BY <1>4, <3>1
  <2> HIDE DEF size
  <2> QED BY <1>1, <1>4, <2>2
<1>10. Items(page) = {r \in S : n <= Rank(S, R, r) /\ Rank(S, R, r) < n + m}
  BY <1>7, <1>8
<1> QED BY <1>9, <1>10 DEF page

(* ... and that of a row does not fall as long as the rows before it are found
   again, by their keys, before it. *)
LEMMA RowsBeforeStayBefore ==
  ASSUME NEW S, IsFiniteSet(S), NEW R, TotalOn(S, R), NEW list, IsRanking(list, S, R),
         \A x, y \in S : x.id = y.id => x = y,
         NEW T, IsFiniteSet(T), NEW Q, NEW r \in S, NEW n \in Nat, n <= Rank(S, R, r),
         \A x \in S : Rank(S, R, x) < n /\ <<x, r>> \in R => \E y \in T : y.id = x.id /\ <<y, r>> \in Q
  PROVE  n <= Rank(T, Q, r)
<1> DEFINE After == {y \in T : <<y, r>> \in Q}
           Again(i) == CHOOSE y \in T : y.id = list[i].id /\ <<y, r>> \in Q
           again == [i \in 1 .. n |-> Again(i)]
<1>1. Cardinality(S) \in Nat /\ Rank(S, R, r) \in Nat /\ Rank(S, R, r) < Cardinality(S)
  BY RanksTellApart
<1>2. \A i \in 1 .. n : i \in 1 .. Cardinality(S) /\ list[i] \in S /\ Rank(S, R, list[i]) = i - 1
  BY <1>1 DEF IsRanking
<1>3. ASSUME NEW i \in 1 .. n
      PROVE  \E y \in T : y.id = list[i].id /\ <<y, r>> \in Q
  <2> DEFINE x == list[i]
  <2>1. x \in S /\ Rank(S, R, x) = i - 1
    BY <1>2
  <2> HIDE DEF x
  <2>2. Rank(S, R, x) < n /\ Rank(S, R, x) < Rank(S, R, r)
    BY <1>1, <2>1
  <2>3. x # r /\ <<r, x>> \notin R
    BY <1>1, <2>1, <2>2, RanksTellApart
  <2>4. <<x, r>> \in R
    BY <2>1, <2>3 DEF TotalOn
  <2> QED BY <2>1, <2>2, <2>4 DEF x
<1>4. \A i \in 1 .. n : Again(i) \in After /\ Again(i).id = list[i].id
  BY <1>3
<1>5. ASSUME NEW i \in 1 .. n, NEW j \in 1 .. n, Again(i) = Again(j)
      PROVE  i = j
  <2> HIDE DEF Again
  <2>1. list[i] = list[j]
    <3>1. list[i].id = list[j].id /\ list[i] \in S /\ list[j] \in S
      BY <1>2, <1>4, <1>5
    <3> DEFINE x == list[i]
               y == list[j]
    <3>2. x.id = y.id /\ x \in S /\ y \in S
      BY <3>1
    <3> HIDE DEF x, y
    <3>3. x = y
      BY <3>2
    <3> QED BY <3>3 DEF x, y
  <2>2. i - 1 = j - 1
    BY <1>2, <2>1
  <2> QED BY <2>2
<1> HIDE DEF Again
<1>6. again \in Injection(1 .. n, After)
  BY <1>4, <1>5 DEF Injection, IsInjective
<1>7. IsFiniteSet(After)
  BY FS_Subset
<1>8. IsFiniteSet(1 .. n) /\ Cardinality(1 .. n) = n
  BY FS_Interval
<1> HIDE DEF again, After
<1>9. Cardinality(1 .. n) <= Cardinality(After)
  BY <1>6, <1>7, FS_Injection
<1> QED BY <1>8, <1>9 DEF Rank, After

(* The table a route lists and the order it lists it in. *)
TableOf(route) ==
    CASE route = "clients" -> "seller_accounts"
      [] route = "sync-jobs" -> "sync_jobs"
      [] route \in {"import-jobs", "import-errors"} -> "import_jobs"
      [] route = "sync-cursors" -> "sync_cursors"
      [] route = "recommendation-runs" -> "recommendation_runs"
      [] route = "chat-traces" -> "chat_traces"
      [] route \in {"admin-sessions", "sessions"} -> "chat_sessions"
      [] route \in {"admin-messages", "messages"} -> "chat_messages"
      [] route \in {"client-chat-feedback", "all-chat-feedback"} -> "chat_feedback"
      [] route = "recommendation-feedback" -> "recommendation_feedback"
      [] route = "billing" -> "seller_billing_state"
      [] route = "alerts" -> "alerts"
      [] route = "recommendations" -> "recommendations"
      [] route = "effective-constraints" -> "sku_effective_constraints"

OrderOf(route, S) ==
    CASE route \in {"admin-messages", "messages"} -> OldestFirst(S)
      [] route = "admin-sessions" -> LastTalkedFirst(S)
      [] route = "effective-constraints" -> LastComputedFirst(S)
      [] OTHER -> NewestFirst(S)

ListOf(route, S) ==
    CASE route \in {"admin-messages", "messages"} -> Oldest(S)
      [] route = "admin-sessions" -> Ordered(S, TalkedLater)
      [] route = "effective-constraints" -> Ordered(S, ComputedLater)
      [] OTHER -> Newest(S)

LEMMA ListingsAreRanked ==
  ASSUME AreRows(rows), NEW route, NEW S \in SUBSET In(TableOf(route))
  PROVE  /\ IsFiniteSet(S) /\ \A x, y \in S : x.id = y.id => x = y
         /\ TotalOn(S, OrderOf(route, S)) /\ IsRanking(ListOf(route, S), S, OrderOf(route, S))
<1>1. OfOneTable(S) /\ \A r \in S : r.in = TableOf(route)
  BY DEF OfOneTable, In
<1>2. IsFiniteSet(S) /\ \A x, y \in S : x.id = y.id => x = y
  BY <1>1, KeysTellApart
<1>3. CASE route \in {"admin-messages", "messages"}
  BY <1>1, <1>2, <1>3, OldestIsAList DEF OrderOf, ListOf
<1>4. CASE route = "admin-sessions"
  <2>1. \A r \in S : r.in = "chat_sessions"
    BY <1>1, <1>4 DEF TableOf
  <2> QED BY <1>1, <1>2, <1>4, <2>1, LastTalkedIsAList DEF OrderOf, ListOf
<1>5. CASE route = "effective-constraints"
  BY <1>1, <1>2, <1>5, LastComputedIsAList DEF OrderOf, ListOf
<1>6. CASE route \notin {"admin-messages", "messages", "admin-sessions", "effective-constraints"}
  BY <1>1, <1>2, <1>6, NewestIsAList DEF OrderOf, ListOf
<1> QED BY <1>3, <1>4, <1>5, <1>6

(* A row that is written again with the latest time is still before those it
   was before; messages, which are listed from the oldest, are never. *)
LEMMA RewrittenRowsStayBefore ==
  ASSUME NEW route, NEW S, NEW T, NEW x \in S, NEW y \in T, NEW r \in S \cap T, NEW time \in Nat,
         IsDataRow(x), IsDataRow(y), IsDataRow(r), x.in = TableOf(route), r.in = TableOf(route),
         r.at < time, r.updated < time, y = x \/ Rewrites(x, y, time), <<x, r>> \in OrderOf(route, S)
  PROVE  <<y, r>> \in OrderOf(route, T)
<1>1. CASE y = x
  BY <1>1 DEF OrderOf, NewestFirst, OldestFirst, LastTalkedFirst, LastComputedFirst
<1>2. CASE Rewrites(x, y, time)
  <2>1. {x.id, x.at, x.updated, r.id, r.at, r.updated} \subseteq Nat
    BY DEF IsDataRow
  <2>2. y.id = x.id /\ y.updated = time /\ y.at \in {x.at, time} /\ x.in # "chat_messages"
    BY <1>2 DEF Rewrites
  <2>3. CASE route = "admin-sessions"
    <3>1. /\ x.kind \in {"talked", "silent"} /\ r.kind \in {"talked", "silent"}
          /\ y.kind \in {x.kind, "talked"}
      BY <1>2, <2>3 DEF Rewrites, TableOf, IsDataRow
    <3>2. TalkedLater(x, r)
      BY <2>3 DEF OrderOf, LastTalkedFirst
    <3>3. TalkedLater(y, r)
      BY <2>1, <2>2, <3>1, <3>2 DEF TalkedLater, UpdatedLater
    <3> QED BY <2>3, <3>3 DEF OrderOf, LastTalkedFirst
  <2>4. CASE route = "effective-constraints"
    <3>1. ComputedLater(x, r)
      BY <2>4 DEF OrderOf, LastComputedFirst
    <3>2. ComputedLater(y, r)
      BY <2>1, <2>2, <3>1 DEF ComputedLater
    <3> QED BY <2>4, <3>2 DEF OrderOf, LastComputedFirst
  <2>5. CASE route \in {"admin-messages", "messages"}
    BY <2>2, <2>5 DEF TableOf
  <2>6. CASE route \notin {"admin-messages", "messages", "admin-sessions", "effective-constraints"}
    <3>1. Newer(x, r)
      BY <2>6 DEF OrderOf, NewestFirst
    <3>2. Newer(y, r)
      BY <2>1, <2>2, <3>1 DEF Newer
    <3> QED BY <2>6, <3>2 DEF OrderOf, NewestFirst
  <2> QED BY <2>3, <2>4, <2>5, <2>6
<1> QED BY <1>1, <1>2

(* What a listing selects, whether it is served, and by which page: a request
   for the rows from n on is answered with that much of the ranking. *)
At(q, n) == [q EXCEPT !.offset = n]

Selected(a, q) ==
    CASE q.route = "clients" ->
           {r \in rows : /\ r.in = "seller_accounts" /\ Is(q.status, r.status)
                         /\ q.kind # Anything => \E c \in Own("ozon_connections", r.account) : c.status = q.kind}
      [] q.route = "sync-jobs" -> {r \in Own("sync_jobs", a) : Is(q.status, r.status)}
      [] q.route = "import-jobs" -> {r \in Own("import_jobs", a) : Is(q.status, r.status) /\ Is(q.kind, r.kind)}
      [] q.route = "import-errors" -> {r \in Own("import_jobs", a) : r.status = "failed" /\ Is(q.kind, r.kind)}
      [] q.route = "sync-cursors" -> {r \in Own("sync_cursors", a) : Is(q.kind, r.kind)}
      [] q.route = "recommendation-runs" ->
           {r \in Own("recommendation_runs", a) : Is(q.status, r.status) /\ Is(q.kind, r.kind)}
      [] q.route = "chat-traces" ->
           {r \in Own("chat_traces", a) : Is(q.status, r.status) /\ Is(q.kind, r.kind) /\ IsRow(q.of, r.of)}
      [] q.route = "admin-sessions" -> {r \in Own("chat_sessions", a) : Is(q.status, r.status)}
      [] q.route \in {"admin-messages", "messages"} -> {r \in Own("chat_messages", a) : r.of = q.of}
      [] q.route \in {"client-chat-feedback", "all-chat-feedback"} ->
           {r \in rows : /\ r.in = "chat_feedback" /\ Is(a, r.account) /\ Is(q.kind, r.kind)
                         /\ \E m \in Own("chat_messages", r.account) : m.id = r.to
                         /\ \E s \in Own("chat_sessions", r.account) : s.id = r.of}
      [] q.route = "recommendation-feedback" ->
           {r \in Own("recommendation_feedback", a) :
              /\ Is(q.kind, r.kind)
              /\ \E rec \in Own("recommendations", a) : rec.id = r.of /\ Is(q.status, rec.status)}
      [] q.route = "billing" -> {r \in rows : r.in = "seller_billing_state" /\ Is(q.status, r.status)}
      [] q.route = "alerts" -> {r \in Own("alerts", a) : Is(q.status, r.status) /\ Is(q.kind, r.kind)}
      [] q.route = "recommendations" ->
           {r \in Own("recommendations", a) : Is(q.status, r.status) /\ Is(q.kind, r.kind)}
      [] q.route = "sessions" -> Own("chat_sessions", a)
      [] q.route = "effective-constraints" -> Own("sku_effective_constraints", a)

Granted(a, q) ==
    CASE q.route = "admin-messages" -> adminGetChatSessionByID(a, q.of) # {} /\ 0 \notin q.limit
      [] q.route = "messages" -> getChatSessionByID(a, q.of) # {}
      [] q.route = "alerts" -> Seller!ParseAlertsFilter(q).valid
      [] q.route \in {"sessions", "effective-constraints"} -> TRUE
      [] OTHER -> 0 \notin q.limit

ServedLimit(q) ==
    CASE q.route = "sessions" -> SessionsLimit(q)
      [] q.route = "messages" -> MessagesLimit(q)
      [] q.route = "effective-constraints" -> Seller!ParsePaginationParams(q)
      [] q.route \in {"alerts", "recommendations"} -> FilterLimit(q)
      [] OTHER -> PageOf(q).limit

PageFrom(a, q, n) ==
    IF Granted(a, q)
    THEN [items |-> Paged(ListOf(q.route, Selected(a, q)), [limit |-> ServedLimit(q), offset |-> n]),
          limit |-> ServedLimit(q), offset |-> n]
    ELSE Admin!Refused

SelectionsAreOfTheTable ==
    \A a, q : IsListing(q) => \A r \in Selected(a, q) : r \in rows /\ r.in = TableOf(q.route)

LEMMA SelectionsAreOfOneTable == SelectionsAreOfTheTable
BY DEF SelectionsAreOfTheTable, Selected, TableOf, Own, IsListing, AdminListings, SellerListings

LEMMA SelectionsAreOfOneTableNext == SelectionsAreOfTheTable'
BY SelectionsAreOfOneTable, PTL

LEMMA SelectedRows ==
  ASSUME NEW a, NEW q, IsListing(q)
  PROVE  Selected(a, q) \in SUBSET In(TableOf(q.route))
BY SelectionsAreOfOneTable DEF SelectionsAreOfTheTable, In

LEMMA QueriesFromAnyRow ==
  ASSUME NEW q, IsQuery(q), NEW n \in Nat
  PROVE  LET g == At(q, n)
         IN /\ IsQuery(g) /\ g.route = q.route /\ g.account = q.account /\ g.status = q.status
            /\ g.kind = q.kind /\ g.of = q.of /\ g.limit = q.limit /\ g.offset = n
            /\ Served(g).status = q.status /\ Served(g).kind = q.kind /\ Served(g).of = q.of
            /\ Served(g).account = q.account
            /\ PageOf(g) = [limit |-> PageOf(q).limit, offset |-> n]
            /\ Admin!ParseAdminPagination(g).valid <=> 0 \notin q.limit
<1>1. PICK route, account, status, kind, of, id, limit, offset :
        /\ q = [route |-> route, account |-> account, status |-> status, kind |-> kind, of |-> of,
                id |-> id, limit |-> limit, offset |-> offset]
        /\ limit \subseteq Nat /\ offset \in Nat
        /\ route \in {"clients", "billing"} => account = Anything
        /\ route \in AdminListings \cup SellerListings \cup AdminDetails \cup SellerDetails
  BY DEF IsQuery
<1> DEFINE g == At(q, n)
           lim == Admin!ParseAdminPagination(q).limit
<1>2. g = [route |-> route, account |-> account, status |-> status, kind |-> kind, of |-> of,
           id |-> id, limit |-> limit, offset |-> n]
  BY <1>1 DEF At
<1> HIDE DEF g
<1>3. IsQuery(g)
  BY <1>1, <1>2 DEF IsQuery
<1>4. /\ Admin!ParseAdminPagination(g).limit = lim
      /\ Admin!ParseAdminPagination(g).valid <=> 0 \notin q.limit
  BY <1>1, <1>2 DEF Admin!ParseAdminPagination
<1> HIDE DEF lim
<1>5. Served(g) = [route |-> route, account |-> account, status |-> status, kind |-> kind, of |-> of,
                   id |-> id, limit |-> lim, offset |-> n]
  BY <1>2, <1>4 DEF Served
<1>6. Served(q) = [route |-> route, account |-> account, status |-> status, kind |-> kind, of |-> of,
                   id |-> id, limit |-> lim, offset |-> offset]
  BY <1>1 DEF Served, lim
<1>7. PageOf(g) = [limit |-> PageOf(q).limit, offset |-> n]
  BY <1>5, <1>6 DEF PageOf, Admin!Service!Repo!NormalizePage
<1> QED BY <1>1, <1>2, <1>3, <1>4, <1>5, <1>7 DEF g

LEMMA ServedLimits ==
  ASSUME NEW a, NEW q, IsQuery(q), IsListing(q)
  PROVE  ServedLimit(q) \in Nat /\ (Granted(a, q) => ServedLimit(q) # 0)
<1>1. PageOf(q).limit \in Nat /\ PageOf(q).limit # 0
  <2>1. Served(q).limit \in Nat
    BY ServedQueries
  <2> QED BY <2>1, PageLimits DEF PageOf, Admin!Service!Repo!NormalizePage, Admin!Service!Repo!Clamp
<1>2. Seller!ParseAlertsFilter(q).valid => 0 \notin q.limit
  BY DEF Seller!ParseAlertsFilter
<1>3. /\ {FilterLimit(q), SessionsLimit(q), MessagesLimit(q), Seller!ParsePaginationParams(q)} \subseteq Nat
      /\ 0 \notin q.limit => FilterLimit(q) # 0
      /\ SessionsLimit(q) # 0 /\ MessagesLimit(q) # 0 /\ Seller!ParsePaginationParams(q) # 0
  BY SellerLimits, PageLimits
<1> QED BY <1>1, <1>2, <1>3 DEF ServedLimit, Granted

LEMMA AnyStatusIsAQuery ==
  ASSUME NEW q, IsQuery(q)
  PROVE  LET g == AnyStatus(q)
         IN /\ IsQuery(g) /\ g.kind = q.kind /\ Served(g).kind = q.kind /\ PageOf(g) = PageOf(q)
            /\ Admin!ParseAdminPagination(g).valid <=> 0 \notin q.limit
<1>1. PICK route, account, status, kind, of, id, limit, offset :
        /\ q = [route |-> route, account |-> account, status |-> status, kind |-> kind, of |-> of,
                id |-> id, limit |-> limit, offset |-> offset]
        /\ limit \subseteq Nat /\ offset \in Nat
        /\ route \in {"clients", "billing"} => account = Anything
        /\ route \in AdminListings \cup SellerListings \cup AdminDetails \cup SellerDetails
  BY DEF IsQuery
<1> DEFINE g == AnyStatus(q)
           lim == Admin!ParseAdminPagination(q).limit
<1>2. g = [route |-> route, account |-> account, status |-> Anything, kind |-> kind, of |-> of,
           id |-> id, limit |-> limit, offset |-> offset]
  BY <1>1 DEF AnyStatus
<1> HIDE DEF g
<1>3. IsQuery(g)
  BY <1>1, <1>2 DEF IsQuery
<1>4. Admin!ParseAdminPagination(g).limit = lim /\ (Admin!ParseAdminPagination(g).valid <=> 0 \notin q.limit)
  BY <1>1, <1>2 DEF Admin!ParseAdminPagination
<1> HIDE DEF lim
<1>5. Served(g) = [route |-> route, account |-> account, status |-> Anything, kind |-> kind, of |-> of,
                   id |-> id, limit |-> lim, offset |-> offset]
  BY <1>2, <1>4 DEF Served
<1>6. Served(q) = [route |-> route, account |-> account, status |-> status, kind |-> kind, of |-> of,
                   id |-> id, limit |-> lim, offset |-> offset]
  BY <1>1 DEF Served, lim
<1>7. PageOf(g) = PageOf(q)
  BY <1>5, <1>6 DEF PageOf, Admin!Service!Repo!NormalizePage
<1> QED BY <1>1, <1>2, <1>3, <1>4, <1>5, <1>7 DEF g

LEMMA AdminPages ==
  ASSUME NEW q, IsQuery(q), q.route \in AdminListings, ~Oversized(q), NEW n \in Nat
  PROVE  AdminList(At(q, n)) = PageFrom(q.account, q, n)
<1> DEFINE g == At(q, n)
           a == q.account
           f == Served(g)
           m == PageOf(q).limit
           p == [limit |-> m, offset |-> n]
           valid == 0 \notin q.limit
<1>1. /\ IsQuery(g) /\ g.route = q.route /\ g.account = a /\ g.of = q.of /\ g.limit = q.limit /\ PageOf(g) = p
      /\ f.status = q.status /\ f.kind = q.kind /\ f.of = q.of /\ f.account = a
      /\ Admin!ParseAdminPagination(g).valid <=> valid
  BY QueriesFromAnyRow
<1>2. ServedLimit(q) = m
  BY DEF ServedLimit, AdminListings
<1> HIDE DEF g, f, m
<1>3. \A items : Reply(g, items) = IF valid THEN [items |-> items, limit |-> m, offset |-> n] ELSE Admin!Refused
  BY <1>1 DEF Reply
<1>4. CASE q.route = "sync-jobs"
  <2>1. AdminList(g) = Reply(g, adminListSyncJobs(a, f, p))
    BY <1>1, <1>4, AdminListingsReadTheseRows DEF AdminList, f
  <2>2. adminListSyncJobs(a, f, p) = Paged(ListOf(q.route, Selected(a, q)), p)
    BY <1>1, <1>4 DEF adminListSyncJobs, ListOf, Selected
  <2> QED BY <1>2, <1>3, <1>4, <2>1, <2>2 DEF PageFrom, Granted, g
<1>5. CASE q.route = "import-jobs"
  <2>1. AdminList(g) = Reply(g, adminListImportJobs(a, f, p))
    BY <1>1, <1>5, AdminListingsReadTheseRows DEF AdminList, f
  <2>2. adminListImportJobs(a, f, p) = Paged(ListOf(q.route, Selected(a, q)), p)
    BY <1>1, <1>5 DEF adminListImportJobs, ListOf, Selected
  <2> QED BY <1>2, <1>3, <1>5, <2>1, <2>2 DEF PageFrom, Granted, g
<1>6. CASE q.route = "sync-cursors"
  <2>1. AdminList(g) = Reply(g, adminListSyncCursors(a, f, p))
    BY <1>1, <1>6, AdminListingsReadTheseRows DEF AdminList, f
  <2>2. adminListSyncCursors(a, f, p) = Paged(ListOf(q.route, Selected(a, q)), p)
    BY <1>1, <1>6 DEF adminListSyncCursors, ListOf, Selected
  <2> QED BY <1>2, <1>3, <1>6, <2>1, <2>2 DEF PageFrom, Granted, g
<1>7. CASE q.route = "recommendation-runs"
  <2>1. AdminList(g) = Reply(g, adminListRecommendationRuns(a, f, p))
    BY <1>1, <1>7, AdminListingsReadTheseRows DEF AdminList, f
  <2>2. adminListRecommendationRuns(a, f, p) = Paged(ListOf(q.route, Selected(a, q)), p)
    BY <1>1, <1>7 DEF adminListRecommendationRuns, ListOf, Selected
  <2> QED BY <1>2, <1>3, <1>7, <2>1, <2>2 DEF PageFrom, Granted, g
<1>8. CASE q.route = "chat-traces"
  <2>1. AdminList(g) = Reply(g, adminListChatTracesBySeller(a, f, p))
    BY <1>1, <1>8, AdminListingsReadTheseRows DEF AdminList, f
  <2>2. adminListChatTracesBySeller(a, f, p) = Paged(ListOf(q.route, Selected(a, q)), p)
    BY <1>1, <1>8 DEF adminListChatTracesBySeller, ListOf, Selected
  <2> QED BY <1>2, <1>3, <1>8, <2>1, <2>2 DEF PageFrom, Granted, g
<1>9. CASE q.route = "admin-sessions"
  <2>1. AdminList(g) = Reply(g, adminListChatSessionsBySeller(a, f, p))
    BY <1>1, <1>9, AdminListingsReadTheseRows DEF AdminList, f
  <2>2. adminListChatSessionsBySeller(a, f, p) = Paged(ListOf(q.route, Selected(a, q)), p)
    BY <1>1, <1>9 DEF adminListChatSessionsBySeller, ListOf, Selected
  <2> QED BY <1>2, <1>3, <1>9, <2>1, <2>2 DEF PageFrom, Granted, g
<1>10. CASE q.route = "client-chat-feedback"
  <2>1. AdminList(g) = Reply(g, adminListChatFeedback(a, f, p))
    BY <1>1, <1>10, AdminListingsReadTheseRows DEF AdminList, f
  <2>2. adminListChatFeedback(a, f, p) = Paged(ListOf(q.route, Selected(a, q)), p)
    BY <1>1, <1>10 DEF adminListChatFeedback, ListOf, Selected
  <2> QED BY <1>2, <1>3, <1>10, <2>1, <2>2 DEF PageFrom, Granted, g
<1>11. CASE q.route = "all-chat-feedback"
  <2>1. AdminList(g) = Reply(g, adminListChatFeedback(a, f, p))
    BY <1>1, <1>11, AdminListingsReadTheseRows DEF AdminList, f
  <2>2. adminListChatFeedback(a, f, p) = Paged(ListOf(q.route, Selected(a, q)), p)
    BY <1>1, <1>11 DEF adminListChatFeedback, ListOf, Selected
  <2> QED BY <1>2, <1>3, <1>11, <2>1, <2>2 DEF PageFrom, Granted, g
<1>12. CASE q.route = "recommendation-feedback"
  <2>1. AdminList(g) = Reply(g, adminListRecommendationFeedbackBySeller(a, f, p))
    BY <1>1, <1>12, AdminListingsReadTheseRows DEF AdminList, f
  <2>2. adminListRecommendationFeedbackBySeller(a, f, p) = Paged(ListOf(q.route, Selected(a, q)), p)
    BY <1>1, <1>12 DEF adminListRecommendationFeedbackBySeller, ListOf, Selected
  <2> QED BY <1>2, <1>3, <1>12, <2>1, <2>2 DEF PageFrom, Granted, g
<1>13. CASE q.route = "admin-messages"
  <2>1. AdminList(g) = IF adminGetChatSessionByID(a, q.of) # {}
                       THEN Reply(g, adminListChatMessagesBySession(a, q.of, p)) ELSE Admin!Refused
    BY <1>1, <1>13, AdminListingsReadTheseRows DEF AdminList, f
  <2>2. adminListChatMessagesBySession(a, q.of, p) = Paged(ListOf(q.route, Selected(a, q)), p)
    BY <1>13 DEF adminListChatMessagesBySession, ListOf, Selected
  <2> QED BY <1>2, <1>3, <1>13, <2>1, <2>2 DEF PageFrom, Granted, g
<1>14. CASE q.route = "import-errors"
  <2> DEFINE all == AnyStatus(g)
  <2>1. AdminList(g) = Reply(all, adminListImportErrors(a, Served(all), PageOf(all)))
    BY <1>1, <1>14, AdminListingsReadTheseRows DEF AdminList
  <2>2. Served(all).kind = q.kind /\ PageOf(all) = p /\ (Admin!ParseAdminPagination(all).valid <=> valid)
    BY <1>1, AnyStatusIsAQuery, QueriesFromAnyRow DEF g
  <2> HIDE DEF all
  <2>3. adminListImportErrors(a, Served(all), p) = Paged(ListOf(q.route, Selected(a, q)), p)
    BY <1>14, <2>2 DEF adminListImportErrors, ListOf, Selected
  <2> QED BY <1>2, <1>14, <2>1, <2>2, <2>3 DEF PageFrom, Granted, Reply, g
<1> DEFINE again == [f EXCEPT !.limit = m]
<1>15. /\ again.status = q.status /\ again.kind = q.kind /\ Admin!Service!Repo!NormalizePage(again) = p
       /\ f.offset = n /\ f.limit = Served(q).limit
  <2>1. again.status = q.status /\ again.kind = q.kind /\ again.limit = m /\ again.offset = n
    BY <1>1 DEF f, Served, IsQuery, At, g
  <2>2. m \in Nat /\ m # 0 /\ m <= MaxLimit
    <3>1. Served(q).limit \in Nat
      BY ServedQueries
    <3> QED BY <3>1, PageLimits DEF m, PageOf, Admin!Service!Repo!NormalizePage, Admin!Service!Repo!Clamp
  <2>3. f.offset = n /\ f.limit = Served(q).limit
    BY <1>1 DEF f, Served, IsQuery, At, g, Admin!ParseAdminPagination
  <2> HIDE DEF again
  <2> QED BY <2>1, <2>2, <2>3, PageLimits DEF Admin!Service!Repo!NormalizePage, Admin!Service!Repo!Clamp
<1>16. CASE q.route = "clients"
  <2>1. AdminList(g) = IF valid THEN Admin!Service!ListClients(f) ELSE Admin!Refused
    BY <1>1, <1>16 DEF AdminList, Admin!ListClients, Admin!Serve, Served, f
  <2>2. Admin!Service!ListClients(f) = Admin!Service!Repo!ListClients(again)
    BY <1>1 DEF Admin!Service!ListClients, PageOf, f
  <2> HIDE DEF again
  <2>3. Admin!Service!Repo!ListClients(again) = [items |-> adminListClients(again, p), limit |-> m, offset |-> n]
    BY <1>15, AdminReadsTheseRows DEF Admin!Service!Repo!ListClients
  <2>4. adminListClients(again, p) = Paged(ListOf(q.route, Selected(a, q)), p)
    BY <1>15, <1>16 DEF adminListClients, ListOf, Selected
  <2> QED BY <1>2, <1>16, <2>1, <2>2, <2>3, <2>4 DEF PageFrom, Granted, g
<1>17. CASE q.route = "billing"
  <2>1. AdminList(g) = IF valid
                       THEN [items |-> Admin!Service!ListBillingStates(f), limit |-> f.limit, offset |-> f.offset]
                       ELSE Admin!Refused
    BY <1>1, <1>17 DEF AdminList, Admin!ListBillingStates, Admin!Serve, Served, f
  <2>2. Admin!Service!ListBillingStates(f) = Admin!Service!Repo!ListBillingStates(again)
    BY <1>1 DEF Admin!Service!ListBillingStates, PageOf, f
  <2>3. valid => f.limit = m
    <3>1. q.limit \subseteq Nat /\ \A i \in q.limit : ~(i > MaxLimit)
      BY <1>17 DEF IsQuery, Oversized
    <3>2. Served(q).limit = Admin!ParseAdminPagination(q).limit
      BY DEF Served, IsQuery
    <3>3. valid => /\ Admin!ParseAdminPagination(q).limit \in Nat \ {0}
                   /\ ~(Admin!ParseAdminPagination(q).limit > MaxLimit)
      BY <3>1, PageLimits DEF Admin!ParseAdminPagination
    <3> QED BY <1>15, <3>2, <3>3 DEF m, PageOf, Admin!Service!Repo!NormalizePage, Admin!Service!Repo!Clamp
  <2> HIDE DEF again
  <2>4. Admin!Service!Repo!ListBillingStates(again) = listSellerBillingStates(again, p)
    BY <1>15, AdminReadsTheseRows DEF Admin!Service!Repo!ListBillingStates
  <2>5. listSellerBillingStates(again, p) = Paged(ListOf(q.route, Selected(a, q)), p)
    BY <1>15, <1>17 DEF listSellerBillingStates, ListOf, Selected
  <2> QED BY <1>2, <1>15, <1>17, <2>1, <2>2, <2>3, <2>4, <2>5 DEF PageFrom, Granted, g
<1> QED BY <1>4, <1>5, <1>6, <1>7, <1>8, <1>9, <1>10, <1>11, <1>12, <1>13, <1>14, <1>16, <1>17 DEF AdminListings, g

LEMMA SellerPages ==
  ASSUME NEW a, NEW q, IsQuery(q), q.route \in SellerListings, NEW n \in Nat
  PROVE  SellerList(a, At(q, n)) = PageFrom(a, q, n)
<1> DEFINE g == At(q, n)
           k == ServedLimit(q)
           p == [limit |-> k, offset |-> n]
<1>1. IsQuery(g) /\ g.route = q.route /\ g.of = q.of /\ g.limit = q.limit /\ g.offset = n
      /\ g.status = q.status /\ g.kind = q.kind
  BY QueriesFromAnyRow
<1>2. /\ FilterLimit(g) = FilterLimit(q) /\ SessionsLimit(g) = SessionsLimit(q)
      /\ MessagesLimit(g) = MessagesLimit(q)
      /\ Seller!ParsePaginationParams(g) = Seller!ParsePaginationParams(q)
      /\ Seller!ParseAlertsFilter(g).valid = Seller!ParseAlertsFilter(q).valid
  <2> HIDE DEF g
  <2> QED
    BY <1>1 DEF FilterLimit, SessionsLimit, MessagesLimit, Seller!Given, Seller!ParseChatPagination,
       Seller!ParsePaginationParams, Seller!ParseAlertsFilter
<1>3. Seller!Refused = Admin!Refused
  BY DEF Seller!Refused, Admin!Refused
<1>0. PageFrom(a, q, n) =
        IF Granted(a, q) THEN [items |-> Paged(ListOf(q.route, Selected(a, q)), p), limit |-> k, offset |-> n]
        ELSE Admin!Refused
  BY DEF PageFrom
<1> SUFFICES SellerList(a, g) = PageFrom(a, q, n)
  OBVIOUS
<1> HIDE DEF g, k
<1>4. \A i : PageWith(g, i) = [limit |-> i, offset |-> n]
  BY <1>1 DEF PageWith
<1>5. \A valid, i, items :
        SellerReply(g, valid, i, items) =
          IF valid THEN [items |-> items, limit |-> i, offset |-> n] ELSE Admin!Refused
  BY <1>1, <1>3 DEF SellerReply
<1>6. CASE q.route \in {"alerts", "recommendations"}
  <2>1. k = FilterLimit(q)
    BY <1>6 DEF ServedLimit, k
  <2>2. Granted(a, q) => Asked(g, k).status = q.status /\ Asked(g, k).kind = q.kind
    <3>1. Granted(a, q) => k \in 1 .. MaxLimit
      <4>1. Granted(a, q) => 0 \notin q.limit
        BY <1>6 DEF Granted, Seller!ParseAlertsFilter
      <4> QED BY <2>1, <4>1, SellerLimits, PageLimits
    <3> QED BY <1>1, <3>1, SellerQueries
  <2>3. CASE q.route = "alerts"
    <3>1. SellerList(a, g) = SellerReply(g, Seller!ParseAlertsFilter(q).valid, k,
                                         listAlertsFiltered(a, Asked(g, k), p))
      BY <1>1, <1>2, <1>4, <2>1, <2>3, SellerListingsReadTheseRows DEF SellerList
    <3>2. Granted(a, q) => listAlertsFiltered(a, Asked(g, k), p) = Paged(ListOf(q.route, Selected(a, q)), p)
      <4>1. Selected(a, q) = {r \in Own("alerts", a) : Is(q.status, r.status) /\ Is(q.kind, r.kind)}
        BY <2>3 DEF Selected
      <4> QED BY <2>2, <2>3, <4>1 DEF listAlertsFiltered, ListOf
    <3>3. Granted(a, q) <=> Seller!ParseAlertsFilter(q).valid
      BY <2>3 DEF Granted
    <3> QED BY <1>0, <1>5, <3>1, <3>2, <3>3
  <2>4. CASE q.route = "recommendations"
    <3>1. SellerList(a, g) = SellerReply(g, 0 \notin q.limit, k, listRecommendationsFiltered(a, Asked(g, k), p))
      BY <1>1, <1>2, <1>4, <2>1, <2>4, SellerListingsReadTheseRows DEF SellerList
    <3>2. Granted(a, q) =>
            listRecommendationsFiltered(a, Asked(g, k), p) = Paged(ListOf(q.route, Selected(a, q)), p)
      <4>1. Selected(a, q) = {r \in Own("recommendations", a) : Is(q.status, r.status) /\ Is(q.kind, r.kind)}
        BY <2>4 DEF Selected
      <4> QED BY <2>2, <2>4, <4>1 DEF listRecommendationsFiltered, ListOf
    <3>3. Granted(a, q) <=> 0 \notin q.limit
      BY <2>4 DEF Granted
    <3> DEFINE answered == listRecommendationsFiltered(a, Asked(g, k), p)
               listed == Paged(ListOf(q.route, Selected(a, q)), p)
    <3>4. SellerList(a, g) =
            IF Granted(a, q) THEN [items |-> answered, limit |-> k, offset |-> n] ELSE Admin!Refused
      BY <1>5, <3>1, <3>3, Zenon
    <3>5. PageFrom(a, q, n) =
            IF Granted(a, q) THEN [items |-> listed, limit |-> k, offset |-> n] ELSE Admin!Refused
      BY <1>0
    <3>6. Granted(a, q) => answered = listed
      BY <3>2
    <3> HIDE DEF answered, listed
    <3> QED BY <3>4, <3>5, <3>6
  <2> QED BY <1>6, <2>3, <2>4
<1>7. CASE q.route = "sessions"
  <2>1. k = SessionsLimit(q)
    BY <1>7 DEF ServedLimit, k
  <2>2. SellerList(a, g) = SellerReply(g, TRUE, k, listChatSessionsBySellerAccountID(a, PageWith(g, k)))
    BY <1>1, <1>2, <1>7, <2>1, SellerListingsReadTheseRows DEF SellerList
  <2>3. listChatSessionsBySellerAccountID(a, PageWith(g, k)) = Paged(ListOf(q.route, Selected(a, q)), p)
    BY <1>4, <1>7 DEF listChatSessionsBySellerAccountID, ListOf, Selected
  <2> QED BY <1>0, <1>5, <1>7, <2>2, <2>3 DEF Granted
<1>8. CASE q.route = "messages"
  <2>1. k = MessagesLimit(q)
    BY <1>8 DEF ServedLimit, k
  <2>2. SellerList(a, g) = SellerReply(g, getChatSessionByID(a, q.of) # {}, k,
                                       listChatMessagesBySessionID(a, q.of, PageWith(g, k)))
    BY <1>1, <1>2, <1>8, <2>1, SellerListingsReadTheseRows DEF SellerList
  <2>3. listChatMessagesBySessionID(a, q.of, PageWith(g, k)) = Paged(ListOf(q.route, Selected(a, q)), p)
    BY <1>4, <1>8 DEF listChatMessagesBySessionID, ListOf, Selected
  <2> QED BY <1>0, <1>5, <1>8, <2>2, <2>3 DEF Granted
<1>9. CASE q.route = "effective-constraints"
  <2>1. k = Seller!ParsePaginationParams(q)
    BY <1>9 DEF ServedLimit, k
  <2>2. SellerList(a, g) =
          SellerReply(g, TRUE, k, listSKUEffectiveConstraintsPageBySellerAccountID(a, PageWith(g, k)))
    BY <1>1, <1>2, <1>9, <2>1, SellerListingsReadTheseRows DEF SellerList
  <2>3. listSKUEffectiveConstraintsPageBySellerAccountID(a, PageWith(g, k)) =
          Paged(ListOf(q.route, Selected(a, q)), p)
    BY <1>4, <1>9 DEF listSKUEffectiveConstraintsPageBySellerAccountID, ListOf, Selected
  <2> QED BY <1>0, <1>5, <1>9, <2>2, <2>3 DEF Granted
<1> QED BY <1>6, <1>7, <1>8, <1>9 DEF SellerListings

(* Hence what a request for the rows from n on is answered with: those of the
   ranks n and after, as many as the limit allows. *)
RankOf(a, q, r) == Rank(Selected(a, q), OrderOf(q.route, Selected(a, q)), r)
Between(a, q, first, last) ==
    IF Granted(a, q) THEN {r \in Selected(a, q) : first <= RankOf(a, q, r) /\ RankOf(a, q, r) < last} ELSE {}

AnsweredByRank(a, q, n, answer) ==
    /\ Items(answer.items) = Between(a, q, n, n + ServedLimit(q))
    /\ answer.limit = IF Granted(a, q) THEN ServedLimit(q) ELSE 0
    /\ Granted(a, q) /\ answer.items = <<>> => Cardinality(Selected(a, q)) <= n

AnswersByRank ==
    \A t, q : IsQuery(q) /\ IsListing(q) /\ ~Oversized(q) =>
      \A n \in Nat : AnsweredByRank(Subject(t, q), q, n, Answer(t, At(q, n)))

LEMMA ListingsAnswerByRank ==
  ASSUME AreRows(rows), NEW t, NEW q, IsQuery(q), IsListing(q), ~Oversized(q), NEW n \in Nat
  PROVE  AnsweredByRank(Subject(t, q), q, n, Answer(t, At(q, n)))
<1> DEFINE a == Subject(t, q)
           S == Selected(a, q)
           m == ServedLimit(q)
           list == ListOf(q.route, S)
<1>1. Answer(t, At(q, n)) = PageFrom(a, q, n)
  <2>1. At(q, n).route = q.route
    BY QueriesFromAnyRow
  <2>2. CASE q.route \in AdminListings
    BY <2>1, <2>2, AdminPages DEF Answer, Subject, ForAdmin
  <2>3. CASE q.route \in SellerListings
    <3>1. ~ForAdmin(q) /\ ~ForAdmin(At(q, n))
      BY <2>1, <2>3 DEF ForAdmin, AdminListings, SellerListings, AdminDetails
    <3> QED BY <2>3, <3>1, SellerPages DEF Answer, Subject
  <2> QED BY <2>2, <2>3 DEF IsListing
<1> HIDE DEF a
<1>2. CASE Granted(a, q)
  <2>1. m \in Nat \ {0}
    BY <1>2, ServedLimits
  <2>2. /\ IsFiniteSet(S) /\ TotalOn(S, OrderOf(q.route, S)) /\ IsRanking(list, S, OrderOf(q.route, S))
    BY SelectedRows, ListingsAreRanked
  <2> DEFINE page == Paged(list, [limit |-> m, offset |-> n])
  <2>3. PageFrom(a, q, n) = [items |-> page, limit |-> m, offset |-> n]
    BY <1>2 DEF PageFrom
  <2> HIDE DEF S, m, list
  <2>4. /\ Items(page) =
             {r \in S : n <= Rank(S, OrderOf(q.route, S), r) /\ Rank(S, OrderOf(q.route, S), r) < n + m}
        /\ page = <<>> => Cardinality(S) <= n
    BY <2>1, <2>2, PagesAreCutByRank
  <2> HIDE DEF page
  <2> QED BY <1>1, <1>2, <2>3, <2>4 DEF AnsweredByRank, Between, RankOf, S, m, a
<1>3. CASE ~Granted(a, q)
  <2>1. PageFrom(a, q, n) = Admin!Refused /\ Items(Admin!Refused.items) = {} /\ Admin!Refused.limit = 0
    BY <1>3 DEF PageFrom, Admin!Refused, Items
  <2> QED BY <1>1, <1>3, <2>1 DEF AnsweredByRank, Between, a
<1> QED BY <1>2, <1>3

LEMMA AllAnswersAreByRank == DataInv => AnswersByRank
BY ListingsAnswerByRank DEF AnswersByRank, DataInv

LEMMA AllAnswersAreByRankNext == DataInv' => AnswersByRank'
BY AllAnswersAreByRank, PTL

(* The rows of several pages, and what a walk has to do with them. *)
LEMMA RowsOfPages ==
  ASSUME AnswersByRank, AreRows(rows), NEW t, NEW q, IsQuery(q), IsListing(q), ~Oversized(q),
         NEW first \in Nat, NEW last \in Nat, first <= last
  PROVE  UNION {Items(Answer(t, At(q, n)).items) : n \in first .. last}
           = Between(Subject(t, q), q, first, last + ServedLimit(q))
<1> DEFINE a == Subject(t, q)
           S == Selected(a, q)
           m == ServedLimit(q)
           all == UNION {Items(Answer(t, At(q, n)).items) : n \in first .. last}
<1>1. \A n \in Nat : Items(Answer(t, At(q, n)).items) = Between(a, q, n, n + m)
  BY DEF AnswersByRank, AnsweredByRank
<1> HIDE DEF a
<1>2. \A r : r \in all <=> \E n \in first .. last : r \in Between(a, q, n, n + m)
  BY <1>1
<1> HIDE DEF all
<1>3. m \in Nat /\ (Granted(a, q) => m # 0)
  BY ServedLimits
<1>4. \A r \in S : RankOf(a, q, r) \in Nat
  BY SelectedRows, ListingsAreRanked, RanksTellApart DEF RankOf
<1> HIDE DEF S, m
<1>5. ASSUME NEW r, NEW n \in first .. last, r \in Between(a, q, n, n + m)
      PROVE  r \in Between(a, q, first, last + m)
  <2>1. Granted(a, q) /\ r \in S /\ n <= RankOf(a, q, r) /\ RankOf(a, q, r) < n + m
    BY <1>5 DEF Between, S
  <2>2. first <= RankOf(a, q, r) /\ RankOf(a, q, r) < last + m
    BY <1>3, <1>4, <2>1
  <2> QED BY <2>1, <2>2 DEF Between, S
<1>6. ASSUME NEW r \in Between(a, q, first, last + m)
      PROVE  \E n \in first .. last : r \in Between(a, q, n, n + m)
  <2> DEFINE k == RankOf(a, q, r)
  <2>1. Granted(a, q) /\ r \in S /\ first <= k /\ k < last + m
    BY <1>6 DEF Between, S
  <2>2. k \in Nat
    BY <1>4, <2>1
  <2> HIDE DEF k
  <2>3. \E n \in first .. last : n <= k /\ k < n + m
    <3>1. CASE k <= last
      <4>1. k \in first .. last /\ k <= k /\ k < k + m
        BY <1>3, <2>1, <2>2, <3>1
      <4> QED BY <4>1
    <3>2. CASE ~(k <= last)
      <4>1. last \in first .. last /\ last <= k /\ k < last + m
        BY <2>1, <2>2, <3>2
      <4> QED BY <4>1
    <3> QED BY <3>1, <3>2
  <2> QED BY <2>1, <2>3 DEF Between, S, k
<1> QED BY <1>2, <1>5, <1>6 DEF all, a, m

WindowsByRank ==
    \A t, q, a, m : IsQuery(q) /\ IsListing(q) /\ ~Oversized(q) /\ Subject(t, q) = a /\ ServedLimit(q) = m =>
      /\ Listed(t, q) = Between(a, q, 0, MaxListed + m)
      /\ Coming(t, q) = Between(a, q, q.offset, q.offset + MaxListed + m)
      /\ \A r \in ListedFrom(q.offset, t, q) : q.offset <= RankOf(a, q, r)
      /\ \A r \in Selected(a, q) : RankOf(a, q, r) \in Nat

LEMMA AllWindowsAreByRank == DataInv => WindowsByRank
<1> SUFFICES ASSUME DataInv, NEW t, NEW q, IsQuery(q), IsListing(q), ~Oversized(q),
                    NEW a, a = Subject(t, q), NEW m, m = ServedLimit(q)
    PROVE  /\ Listed(t, q) = Between(a, q, 0, MaxListed + m)
           /\ Coming(t, q) = Between(a, q, q.offset, q.offset + MaxListed + m)
           /\ \A r \in ListedFrom(q.offset, t, q) : q.offset <= RankOf(a, q, r)
           /\ \A r \in Selected(a, q) : RankOf(a, q, r) \in Nat
  BY DEF WindowsByRank
<1>1. AnswersByRank /\ AreRows(rows)
  BY AllAnswersAreByRank DEF DataInv
<1>2. MaxListed \in Nat /\ q.offset \in Nat
  BY DataConstants DEF IsQuery
<1>3. Listed(t, q) = UNION {Items(Answer(t, At(q, n)).items) : n \in 0 .. MaxListed}
  BY DEF Listed, ListedFrom, At
<1>4. ListedFrom(q.offset, t, q) = UNION {Items(Answer(t, At(q, n)).items) : n \in q.offset .. MaxListed}
  BY DEF ListedFrom, At
<1>5. Coming(t, q) = UNION {Items(Answer(t, At(q, n)).items) : n \in q.offset .. q.offset + MaxListed}
  BY DEF Coming, At
<1>6. 0 \in Nat /\ 0 <= MaxListed /\ q.offset + MaxListed \in Nat /\ q.offset <= q.offset + MaxListed
  BY <1>2
<1>7. Listed(t, q) = Between(a, q, 0, MaxListed + m)
  BY <1>1, <1>2, <1>3, <1>6, RowsOfPages
<1>8. Coming(t, q) = Between(a, q, q.offset, q.offset + MaxListed + m)
  BY <1>1, <1>2, <1>5, <1>6, RowsOfPages
<1>9. ASSUME NEW r \in ListedFrom(q.offset, t, q)
      PROVE  q.offset <= RankOf(a, q, r)
  <2>1. q.offset <= MaxListed
    <3>1. q.offset .. MaxListed # {}
      BY <1>4, <1>9
    <3> QED BY <1>2, <3>1
  <2>2. r \in Between(a, q, q.offset, MaxListed + m)
    BY <1>1, <1>2, <1>4, <1>9, <2>1, RowsOfPages
  <2> QED BY <2>2 DEF Between
<1>10. \A r \in Selected(a, q) : RankOf(a, q, r) \in Nat
  BY <1>1, SelectedRows, ListingsAreRanked, RanksTellApart DEF RankOf
<1> QED BY <1>7, <1>8, <1>9, <1>10

LEMMA AllWindowsAreByRankNext == DataInv' => WindowsByRank'
BY AllWindowsAreByRank, PTL

LEMMA SameListing ==
  ASSUME NEW q, IsQuery(q), IsListing(q), NEW n \in Nat
  PROVE  LET g == At(q, n)
         IN /\ IsQuery(g) /\ IsListing(g) /\ g.offset = n /\ (Oversized(g) <=> Oversized(q))
            /\ ServedLimit(g) = ServedLimit(q) /\ \A t : Subject(t, g) = Subject(t, q)
            /\ \A a, i, j : Between(a, g, i, j) = Between(a, q, i, j)
            /\ \A a : Selected(a, g) = Selected(a, q) /\ (Granted(a, g) <=> Granted(a, q))
<1> DEFINE g == At(q, n)
<1>1. /\ IsQuery(g) /\ g.route = q.route /\ g.account = q.account /\ g.status = q.status
      /\ g.kind = q.kind /\ g.of = q.of /\ g.limit = q.limit /\ g.offset = n
      /\ PageOf(g) = [limit |-> PageOf(q).limit, offset |-> n]
  BY QueriesFromAnyRow
<1> HIDE DEF g
<1>2. \A a : Selected(a, g) = Selected(a, q)
  BY <1>1 DEF Selected
<1>3. Seller!ParseAlertsFilter(g).valid = Seller!ParseAlertsFilter(q).valid
  BY <1>1 DEF Seller!ParseAlertsFilter
<1>4. \A a : Granted(a, g) <=> Granted(a, q)
  BY <1>1, <1>3 DEF Granted
<1>5. PageOf(g).limit = PageOf(q).limit
  BY <1>1
<1>6. /\ FilterLimit(g) = FilterLimit(q) /\ SessionsLimit(g) = SessionsLimit(q)
      /\ MessagesLimit(g) = MessagesLimit(q)
      /\ Seller!ParsePaginationParams(g) = Seller!ParsePaginationParams(q)
  BY <1>1 DEF FilterLimit, SessionsLimit, MessagesLimit, Seller!Given, Seller!ParseChatPagination,
     Seller!ParsePaginationParams
<1>7. ServedLimit(g) = ServedLimit(q)
  BY <1>1, <1>5, <1>6 DEF ServedLimit
<1>8. \A a, i, j : Between(a, g, i, j) = Between(a, q, i, j)
  BY <1>1, <1>2, <1>4 DEF Between, RankOf
<1>9. IsListing(g) /\ (Oversized(g) <=> Oversized(q)) /\ \A t : Subject(t, g) = Subject(t, q)
  BY <1>1 DEF IsListing, Oversized, Subject, ForAdmin
<1> QED BY <1>1, <1>2, <1>4, <1>7, <1>8, <1>9 DEF g

LEMMA LimitsStay ==
  ASSUME NEW q
  PROVE  /\ ServedLimit(q)' = ServedLimit(q) /\ Seller!ParseAlertsFilter(q)' = Seller!ParseAlertsFilter(q)
         /\ IsQuery(q)' = IsQuery(q) /\ IsListing(q)' = IsListing(q) /\ Oversized(q)' = Oversized(q)
         /\ ForAdmin(q)' = ForAdmin(q)
BY DEF ServedLimit, Seller!ParseAlertsFilter, IsQuery, IsListing, Oversized, ForAdmin, FilterLimit, SessionsLimit,
   MessagesLimit, PageOf, Served

LEMMA SameRowsSameListing ==
  ASSUME rows' = rows, NEW a, NEW q
  PROVE  /\ Selected(a, q)' = Selected(a, q) /\ Granted(a, q)' = Granted(a, q)
         /\ \A i, j : Between(a, q, i, j)' = Between(a, q, i, j)
<1>1. Selected(a, q)' = Selected(a, q)
  BY DEF Selected, Own
<1>2. Granted(a, q)' = Granted(a, q)
  BY LimitsStay DEF Granted, adminGetChatSessionByID, getChatSessionByID, Own
<1> QED BY <1>1, <1>2 DEF Between, RankOf

(* A write leaves a row that is still listed at the rank it had or behind it
   when every row it has come past is found again. *)
LEMMA RanksDoNotFall ==
  ASSUME AreRows(rows), NEW time \in Nat, Written(rows', time), \A x \in rows : x.at < time /\ x.updated < time,
         NEW a, NEW q, IsListing(q), NEW n \in Nat, NEW r \in Selected(a, q), r \in Selected(a, q)',
         n <= RankOf(a, q, r),
         \A x \in Selected(a, q) :
           RankOf(a, q, x) < n /\ RankOf(a, q, x) < RankOf(a, q, r) => \E y \in Selected(a, q)' : y.id = x.id
  PROVE  n <= RankOf(a, q, r)'
<1> DEFINE S == Selected(a, q)
           T == Selected(a, q)'
           R == OrderOf(q.route, S)
           Q == OrderOf(q.route, T)
<1>1. /\ IsFiniteSet(S) /\ TotalOn(S, R) /\ IsRanking(ListOf(q.route, S), S, R)
      /\ \A x, y \in S : x.id = y.id => x = y
  <2>1. S \in SUBSET In(TableOf(q.route))
    BY SelectedRows
  <2> HIDE DEF S
  <2> QED BY <2>1, ListingsAreRanked
<1>2. \A x \in S : x \in rows /\ x.in = TableOf(q.route)
  BY SelectionsAreOfOneTable DEF SelectionsAreOfTheTable
<1>3. \A y \in T : y \in rows' /\ y.in = TableOf(q.route)
  BY SelectionsAreOfOneTableNext DEF SelectionsAreOfTheTable
<1>4. IsFiniteSet(T)
  <2>1. T \subseteq rows' /\ IsFiniteSet(rows')
    BY <1>3 DEF Written, AreRows
  <2> QED BY <2>1, FS_Subset
<1>5. RankOf(a, q, r)' = Rank(T, Q, r) /\ \A x : RankOf(a, q, x) = Rank(S, R, x)
  BY DEF RankOf
<1>6. r \in S /\ r \in T /\ n <= Rank(S, R, r)
  BY <1>5
<1>7. \A x \in S : Rank(S, R, x) < n /\ Rank(S, R, x) < Rank(S, R, r) => \E y \in T : y.id = x.id
  BY <1>5
<1> HIDE DEF S, T, R, Q
<1>8. ASSUME NEW x \in S, Rank(S, R, x) < n, <<x, r>> \in R
      PROVE  \E y \in T : y.id = x.id /\ <<y, r>> \in Q
  <2>1. Rank(S, R, x) < Rank(S, R, r)
    BY <1>1, <1>6, <1>8, RanksTellApart
  <2>2. PICK y \in T : y.id = x.id
    BY <1>7, <1>8, <2>1
  <2>3. x \in rows /\ x.in = TableOf(q.route) /\ y \in rows' /\ y.in = TableOf(q.route)
    BY <1>2, <1>3
  <2>4. y = x \/ Rewrites(x, y, time)
    <3>1. CASE y \in rows
      BY <2>2, <2>3, <3>1 DEF AreRows
    <3>2. CASE y \notin rows
      <4>1. ~Adds(y, time)
        BY <2>2, <2>3 DEF Adds
      <4>2. PICK z \in rows : Rewrites(z, y, time)
        BY <2>3, <3>2, <4>1 DEF Written
      <4>3. z = x
        BY <2>2, <2>3, <4>2 DEF AreRows, Rewrites
      <4> QED BY <4>2, <4>3
    <3> QED BY <3>1, <3>2
  <2>5. IsDataRow(x) /\ IsDataRow(y) /\ IsDataRow(r) /\ r.in = TableOf(q.route) /\ r.at < time /\ r.updated < time
    BY <1>2, <1>6, <2>3 DEF AreRows, Written
  <2>6. r \in S \cap T /\ <<x, r>> \in OrderOf(q.route, S)
    BY <1>6, <1>8 DEF R
  <2>7. <<y, r>> \in OrderOf(q.route, T)
    BY <2>3, <2>4, <2>5, <2>6, RewrittenRowsStayBefore
  <2> QED BY <2>2, <2>7 DEF Q
<1> DEFINE list == ListOf(q.route, S)
<1> HIDE DEF list
<1>9. n <= Rank(T, Q, r)
  BY <1>1, <1>4, <1>6, <1>8, RowsBeforeStayBefore DEF list
<1> QED BY <1>5, <1>9

(* The invariant of a walk, in terms of ranks. *)
Walking(t, q, a, m) ==
    /\ walk.stage = "walking" /\ walk.token = t /\ walk.query = q
    /\ Subject(t, q) = a /\ ServedLimit(q) = m
WalkKept ==
    /\ \A r \in rows : r.at <= 1 + writes /\ r.updated <= 1 + writes
    /\ \A t : walk.stage = "walking" /\ walk.token = t => t \in Tokens /\ ~Fresh(t)
    /\ \A t, q, a, m : Walking(t, q, a, m) /\ ~walk.left /\ ~Oversized(q) =>
         /\ walk.start \subseteq Between(a, q, 0, MaxListed + m)
         /\ walk.start \ walk.got \subseteq Between(a, q, q.offset, q.offset + MaxListed + m)
    /\ WalkMissesNothing

LEMMA WalkInvIsByRank == DataInv => (WalkInv <=> WalkKept)
<1> SUFFICES ASSUME DataInv PROVE WalkInv <=> WalkKept
  OBVIOUS
<1>1. WindowsByRank
  BY AllWindowsAreByRank
<1>2. walk.stage = "walking" => IsQuery(walk.query) /\ IsListing(walk.query)
  BY DEF DataInv, IsWalk
<1>3. \A t, q, a, m : Walking(t, q, a, m) /\ ~Oversized(q) =>
        /\ Listed(walk.token, walk.query) = Between(a, q, 0, MaxListed + m)
        /\ Coming(walk.token, walk.query) = Between(a, q, q.offset, q.offset + MaxListed + m)
  BY <1>1, <1>2 DEF WindowsByRank, Walking
<1>4. walk.stage = "walking" =>
        Walking(walk.token, walk.query, Subject(walk.token, walk.query), ServedLimit(walk.query))
  BY DEF Walking
<1>5. \A t, q, a, m : Walking(t, q, a, m) => walk.stage = "walking" /\ q = walk.query
  BY DEF Walking
<1> QED BY <1>3, <1>4, <1>5 DEF WalkInv, WalkKept

LEMMA WalkInvIsByRankNext == DataInv' => (WalkInv' <=> WalkKept')
BY WalkInvIsByRank, PTL

LEMMA StampsStayBehind ==
  ASSUME WalkKept, DataInv, Write
  PROVE  \A r \in rows' : r.at <= 1 + writes' /\ r.updated <= 1 + writes'
<1>1. Written(rows', 2 + writes) /\ writes' = 1 + writes /\ writes \in Nat
  BY WritesKeepRows DEF DataInv
<1>2. \A x \in rows : x.at \in Nat /\ x.updated \in Nat /\ x.at <= 1 + writes /\ x.updated <= 1 + writes
  BY DEF WalkKept, DataInv, AreRows, IsDataRow
<1>3. \A y \in rows' : y \in rows \/ (y.at = 2 + writes /\ y.updated = 2 + writes)
                       \/ \E x \in rows : y.updated = 2 + writes /\ y.at \in {x.at, 2 + writes}
  BY <1>1 DEF Written, Adds, Rewrites
<1> QED BY <1>1, <1>2, <1>3

LEMMA WriteKeepsWalk ==
  ASSUME DataInv, WalkKept, Write, UNCHANGED sessionVars
  PROVE  WalkKept'
<1>1. \A r \in rows' : r.at <= 1 + writes' /\ r.updated <= 1 + writes'
  BY StampsStayBehind
<1>2. DataInv'
  BY WriteKeepsInv
<1>3. CASE walk.stage = "idle"
  <2>1. walk' = walk
    BY <1>3 DEF Write
  <2> QED BY <1>1, <1>3, <2>1 DEF WalkKept, WalkMissesNothing, Walking
<1>4. CASE walk.stage = "walking"
  <2>1. PICK t, q :
          /\ t = walk.token /\ q = walk.query
          /\ walk' = [walk EXCEPT !.start = @ \cap Listed(t, q)',
                                  !.left = @ \/ \E r \in Passed(t, q) : \A s \in Listed(t, q)' : s.id # r.id]
    BY <1>4 DEF Write
  <2> DEFINE listed == Listed(t, q)'
             gone == walk.left \/ \E r \in Passed(t, q) : \A s \in listed : s.id # r.id
  <2>2. IsQuery(q) /\ IsListing(q)
    BY <1>4, <2>1 DEF DataInv, IsWalk
  <2>3. /\ walk'.stage = "walking" /\ walk'.token = t /\ walk'.query = q /\ walk'.got = walk.got
        /\ walk'.start = walk.start \cap listed
        /\ walk'.left = gone
    <3>1. walk = [stage |-> walk.stage, token |-> walk.token, query |-> walk.query, got |-> walk.got,
                  start |-> walk.start, left |-> walk.left]
      BY DEF DataInv, IsWalk
    <3>2. walk' = [walk EXCEPT !.start = @ \cap listed, !.left = gone]
      BY <2>1
    <3> HIDE DEF listed, gone
    <3> DEFINE fewer == [walk EXCEPT !.start = @ \cap listed]
    <3>3. fewer = [stage |-> walk.stage, token |-> walk.token, query |-> walk.query, got |-> walk.got,
                   start |-> walk.start \cap listed, left |-> walk.left]
      BY <3>1
    <3> HIDE DEF fewer
    <3>4. [fewer EXCEPT !.left = gone]
            = [stage |-> walk.stage, token |-> walk.token, query |-> walk.query, got |-> walk.got,
               start |-> walk.start \cap listed, left |-> gone]
      BY <3>3
    <3>5. walk' = [fewer EXCEPT !.left = gone]
      BY <3>2 DEF fewer
    <3> QED BY <1>4, <2>1, <3>4, <3>5
  <2> HIDE DEF listed, gone
  <2>4. t \in Tokens /\ ~Fresh(t)'
    BY <1>4, <2>1, <2>3 DEF WalkKept, Fresh, sessionVars
  <2>5. PICK a, m : a = Subject(t, q) /\ m = ServedLimit(q)
    OBVIOUS
  <2> DEFINE o == q.offset
  <2>6. /\ Subject(t, q)' = a /\ ServedLimit(q)' = m /\ (Oversized(q)' <=> Oversized(q))
        /\ IsQuery(q)' /\ IsListing(q)'
    BY <2>2, <2>5, LimitsStay DEF Subject, Holder, sessionVars
  <2>7. ASSUME ~gone, ~Oversized(q)
        PROVE  /\ walk'.start \subseteq Between(a, q, 0, MaxListed + m)'
               /\ walk'.start \ walk'.got \subseteq Between(a, q, o, o + MaxListed + m)'
    <3>1. /\ Listed(t, q) = Between(a, q, 0, MaxListed + m)
          /\ \A r \in ListedFrom(o, t, q) : o <= RankOf(a, q, r)
          /\ \A r \in Selected(a, q) : RankOf(a, q, r) \in Nat
      BY <2>2, <2>5, <2>7, AllWindowsAreByRank DEF WindowsByRank
    <3>2. /\ listed = Between(a, q, 0, MaxListed + m)'
          /\ \A r \in Selected(a, q)' : RankOf(a, q, r)' \in Nat
      BY <1>2, <2>6, <2>7, AllWindowsAreByRankNext DEF WindowsByRank, listed
    <3>3. /\ walk.start \subseteq Between(a, q, 0, MaxListed + m)
          /\ walk.start \ walk.got \subseteq Between(a, q, o, o + MaxListed + m)
      BY <1>4, <2>1, <2>5, <2>7 DEF WalkKept, Walking, gone
    <3>4. \A x \in Passed(t, q) : \E s \in listed : s.id = x.id
      BY <2>7 DEF gone
    <3>5. o \in Nat /\ MaxListed \in Nat /\ m \in Nat
      BY <2>2, <2>5, DataConstants, ServedLimits DEF IsQuery
    <3>6. ASSUME NEW r \in walk.start \ walk.got, r \in listed
          PROVE  r \in Between(a, q, o, o + MaxListed + m)'
      <4>1. r \in Selected(a, q) /\ Granted(a, q) /\ o <= RankOf(a, q, r) /\ RankOf(a, q, r) < MaxListed + m
        BY <3>3, <3>6 DEF Between
      <4>2. r \in Selected(a, q)' /\ Granted(a, q)' /\ RankOf(a, q, r)' < MaxListed + m
        BY <3>2, <3>6 DEF Between
      <4>3. ASSUME NEW x \in Selected(a, q), RankOf(a, q, x) < o, RankOf(a, q, x) < RankOf(a, q, r)
            PROVE  \E y \in Selected(a, q)' : y.id = x.id
        <5>1. RankOf(a, q, x) \in Nat /\ RankOf(a, q, x) < MaxListed + m
          BY <3>1, <3>5, <4>1, <4>3
        <5>2. x \in Listed(t, q)
          BY <3>1, <4>1, <5>1 DEF Between
        <5>3. x \notin ListedFrom(o, t, q)
          BY <3>1, <3>5, <4>3, <5>1
        <5>4. PICK s \in listed : s.id = x.id
          BY <3>4, <5>2, <5>3 DEF Passed
        <5>5. s \in Selected(a, q)'
          BY <3>2, <5>4 DEF Between
        <5> QED BY <5>4, <5>5
      <4>4. Written(rows', 2 + writes) /\ 2 + writes \in Nat /\ AreRows(rows)
        BY WritesKeepRows DEF DataInv
      <4>5. \A x \in rows : x.at < 2 + writes /\ x.updated < 2 + writes
        <5>1. \A x \in rows : x.at \in Nat /\ x.updated \in Nat /\ x.at <= 1 + writes /\ x.updated <= 1 + writes
          BY DEF WalkKept, DataInv, AreRows, IsDataRow
        <5>2. writes \in Nat
          BY DEF DataInv
        <5> QED BY <5>1, <5>2
      <4>6. o <= RankOf(a, q, r)'
        BY <2>2, <3>5, <4>1, <4>2, <4>3, <4>4, <4>5, RanksDoNotFall
      <4>7. RankOf(a, q, r)' < o + MaxListed + m
        BY <3>2, <3>5, <4>2
      <4> QED BY <4>2, <4>6, <4>7 DEF Between
    <3>7. listed \subseteq Between(a, q, 0, MaxListed + m)'
      BY <3>2
    <3> QED BY <2>3, <3>6, <3>7
  <2>8. ASSUME NEW tk, NEW qr, NEW b, NEW n, Walking(tk, qr, b, n)'
        PROVE  tk = t /\ qr = q /\ b = a /\ n = m
    BY <2>3, <2>6, <2>8 DEF Walking
  <2>9. (walk'.left <=> gone) /\ \A tk : walk'.token = tk => tk = t
    BY <2>3
  <2>10. \A tk, qr, b, n : Walking(tk, qr, b, n)' /\ ~walk'.left /\ ~Oversized(qr)' =>
           /\ walk'.start \subseteq Between(b, qr, 0, MaxListed + n)'
           /\ walk'.start \ walk'.got \subseteq Between(b, qr, qr.offset, qr.offset + MaxListed + n)'
    BY <2>6, <2>7, <2>8, <2>9
  <2> QED BY <1>1, <2>3, <2>4, <2>9, <2>10 DEF WalkKept, WalkMissesNothing
<1> QED BY <1>3, <1>4 DEF Write

(* A page that is read takes the walk past the rows it holds and no other. *)
LEMMA ReadPageKeepsWalk ==
  ASSUME DataInv, WalkKept, ReadPage, UNCHANGED sessionVars
  PROVE  WalkKept'
<1>1. PICK t, q, a, m : Walking(t, q, a, m)
  BY DEF ReadPage, Walking
<1>2. t = walk.token /\ q = walk.query /\ a = Subject(t, q) /\ m = ServedLimit(q) /\ walk.stage = "walking"
  BY <1>1 DEF Walking
<1>3. IsQuery(q) /\ IsListing(q) /\ AreRows(rows) /\ rows' = rows /\ writes' = writes /\ session' = session
  BY <1>2 DEF DataInv, IsWalk, ReadPage, sessionVars
<1> DEFINE answer == Answer(t, q)
           o == q.offset
           next == At(q, o + answer.limit)
<1>4. \/ walk' = [walk EXCEPT !.stage = "refused"]
      \/ answer.limit # 0 /\ answer.items = <<>> /\ walk' = [walk EXCEPT !.stage = "over"]
      \/ /\ answer.limit # 0
         /\ walk' = [walk EXCEPT !.got = @ \cup Items(answer.items), !.query.offset = @ + answer.limit]
  BY <1>2 DEF ReadPage
<1>5. walk = [stage |-> walk.stage, token |-> t, query |-> q, got |-> walk.got, start |-> walk.start,
              left |-> walk.left]
  BY <1>2 DEF DataInv, IsWalk
<1>6. (\A r \in rows : r.at <= 1 + writes /\ r.updated <= 1 + writes)' /\ t \in Tokens /\ ~Fresh(t)'
  BY <1>2, <1>3 DEF WalkKept, Fresh
<1>7. o \in Nat /\ m \in Nat /\ MaxListed \in Nat
  BY <1>2, <1>3, DataConstants, ServedLimits DEF IsQuery
<1>8. At(q, o) = q
  BY <1>3 DEF At, IsQuery
<1>9. ~Oversized(q) => AnsweredByRank(a, q, o, answer)
  <2>1. ~Oversized(q) => AnsweredByRank(Subject(t, q), q, o, Answer(t, At(q, o)))
    BY <1>3, <1>7, ListingsAnswerByRank
  <2> QED BY <1>2, <1>8, <2>1
<1>10. ~walk.left /\ ~Oversized(q) =>
         /\ walk.start \subseteq Between(a, q, 0, MaxListed + m)
         /\ walk.start \ walk.got \subseteq Between(a, q, o, o + MaxListed + m)
  BY <1>1 DEF WalkKept
<1>11. \A r \in Selected(a, q) : RankOf(a, q, r) \in Nat /\ RankOf(a, q, r) < Cardinality(Selected(a, q))
                                /\ Cardinality(Selected(a, q)) \in Nat
  <2> DEFINE S == Selected(a, q)
             R == OrderOf(q.route, S)
  <2>1. IsFiniteSet(S) /\ TotalOn(S, R)
    BY <1>3, SelectedRows, ListingsAreRanked
  <2>2. \A r : RankOf(a, q, r) = Rank(S, R, r)
    BY DEF RankOf
  <2> HIDE DEF S, R
  <2>3. \A r \in S : Rank(S, R, r) \in Nat /\ Cardinality(S) \in Nat /\ Rank(S, R, r) < Cardinality(S)
    BY <2>1, RanksTellApart
  <2> QED BY <2>2, <2>3 DEF S
<1> HIDE DEF answer, next
<1>12. CASE walk' = [walk EXCEPT !.stage = "refused"]
  <2>1. walk'.stage = "refused"
    BY <1>5, <1>12
  <2> QED BY <1>6, <2>1 DEF WalkKept, Walking, WalkMissesNothing
<1>13. CASE answer.limit # 0 /\ answer.items = <<>> /\ walk' = [walk EXCEPT !.stage = "over"]
  <2>1. walk' = [stage |-> "over", token |-> t, query |-> q, got |-> walk.got, start |-> walk.start,
                 left |-> walk.left]
    BY <1>5, <1>13
  <2>2. ~walk.left /\ ~Oversized(q) => walk.start \subseteq walk.got
    <3> SUFFICES ASSUME ~walk.left, ~Oversized(q) PROVE walk.start \ walk.got = {}
      OBVIOUS
    <3>1. Cardinality(Selected(a, q)) <= o
      BY <1>9, <1>13 DEF AnsweredByRank
    <3>2. \A r \in walk.start \ walk.got : r \in Selected(a, q) /\ o <= RankOf(a, q, r)
      BY <1>10 DEF Between
    <3> QED BY <1>7, <1>11, <3>1, <3>2
  <2>3. WalkMissesNothing'
    BY <2>1, <2>2, LimitsStay DEF WalkMissesNothing
  <2> QED BY <1>6, <2>1, <2>3 DEF WalkKept, Walking
<1>14. CASE answer.limit # 0
            /\ walk' = [walk EXCEPT !.got = @ \cup Items(answer.items), !.query.offset = @ + answer.limit]
  <2>1. walk'.stage = "walking" /\ walk'.token = t /\ walk'.query = next
        /\ walk'.got = walk.got \cup Items(answer.items) /\ walk'.start = walk.start /\ walk'.left = walk.left
    <3> DEFINE met == walk.got \cup Items(answer.items)
               fed == [walk EXCEPT !.got = met]
    <3>1. walk' = [fed EXCEPT !.query.offset = @ + answer.limit]
      BY <1>14
    <3> HIDE DEF met
    <3>2. fed = [stage |-> walk.stage, token |-> t, query |-> q, got |-> met, start |-> walk.start,
                 left |-> walk.left]
      BY <1>5
    <3> HIDE DEF fed
    <3>3. walk' = [fed EXCEPT !.query = next]
      BY <3>1, <3>2 DEF next, At
    <3> QED BY <1>2, <3>2, <3>3 DEF met
  <2>2. CASE walk.left \/ Oversized(q)
    <3>1. PICK g : g = next
      OBVIOUS
    <3>2. \A tk, qr, b, n : Walking(tk, qr, b, n)' => tk = t /\ qr = g
      BY <2>1, <3>1 DEF Walking
    <3>3. g.route = q.route /\ g.limit = q.limit
      BY <1>3, <3>1 DEF next, At, IsQuery
    <3>4. Oversized(g)' <=> Oversized(q)
      BY <3>3, LimitsStay DEF Oversized
    <3>5. \A tk, qr, b, n : ~(Walking(tk, qr, b, n)' /\ ~walk'.left /\ ~Oversized(qr)')
      <4> SUFFICES ASSUME NEW tk, NEW qr, NEW b, NEW n, Walking(tk, qr, b, n)', ~walk'.left PROVE Oversized(qr)'
        OBVIOUS
      <4>1. qr = g
        BY <3>2
      <4> QED BY <2>1, <2>2, <3>4, <4>1
    <3>6. \A tk : walk'.token = tk => tk = t
      BY <2>1
    <3> QED BY <1>6, <2>1, <3>5, <3>6 DEF WalkKept, WalkMissesNothing
  <2>3. CASE ~walk.left /\ ~Oversized(q)
    <3>1. answer.limit = m /\ Items(answer.items) = Between(a, q, o, o + m)
      BY <1>2, <1>9, <1>14, <2>3 DEF AnsweredByRank
    <3>2. o + m \in Nat /\ next = At(q, o + m)
      BY <1>7, <3>1 DEF next
    <3>3. /\ next.offset = o + m /\ ServedLimit(next) = m /\ Subject(t, next) = a
          /\ \A b, i, j : Between(b, next, i, j) = Between(b, q, i, j)
      BY <1>2, <1>3, <3>2, SameListing
    <3>4. PICK g : g = next
      OBVIOUS
    <3>5. /\ ServedLimit(g)' = m /\ Subject(t, g)' = a
          /\ \A i, j : Between(a, g, i, j)' = Between(a, q, i, j)
      BY <1>3, <3>3, <3>4, LimitsStay, SameRowsSameListing DEF Subject, Holder
    <3>6. \A tk, qr, b, n : Walking(tk, qr, b, n)' => tk = t /\ qr = g /\ b = a /\ n = m
      BY <2>1, <3>4, <3>5 DEF Walking
    <3>7. walk.start \subseteq Between(a, g, 0, MaxListed + m)'
      BY <1>10, <2>3, <3>5
    <3>8. ASSUME NEW r \in walk.start \ (walk.got \cup Items(answer.items))
          PROVE  r \in Between(a, g, g.offset, g.offset + MaxListed + m)'
      <4>1. Granted(a, q) /\ r \in Selected(a, q) /\ o <= RankOf(a, q, r) /\ RankOf(a, q, r) < o + MaxListed + m
        BY <1>10, <2>3, <3>8 DEF Between
      <4>2. ~(RankOf(a, q, r) < o + m)
        BY <3>1, <3>8, <4>1 DEF Between
      <4>3. o + m <= RankOf(a, q, r) /\ RankOf(a, q, r) < (o + m) + MaxListed + m
        BY <1>7, <1>11, <2>3, <4>1, <4>2
      <4>4. r \in Between(a, q, o + m, (o + m) + MaxListed + m)
        BY <4>1, <4>3 DEF Between
      <4> QED BY <3>3, <3>4, <3>5, <4>4
    <3>9. \A tk, qr, b, n : Walking(tk, qr, b, n)' =>
            /\ walk'.start \subseteq Between(b, qr, 0, MaxListed + n)'
            /\ walk'.start \ walk'.got \subseteq Between(b, qr, qr.offset, qr.offset + MaxListed + n)'
      BY <2>1, <3>6, <3>7, <3>8
    <3> QED BY <1>6, <2>1, <3>9 DEF WalkKept, WalkMissesNothing
  <2> QED BY <2>2, <2>3
<1> QED BY <1>4, <1>12, <1>13, <1>14

LEMMA BeginWalkKeepsWalk ==
  ASSUME DataInv, WalkKept, NEW t \in Tokens, NEW q \in Queries, BeginWalk(t, q), UNCHANGED sessionVars
  PROVE  WalkKept'
<1>1. IsQuery(q) /\ IsListing(q) /\ q.offset = 0 /\ MaxListed \in Nat
  BY DataConstants DEF BeginWalk
<1>2. walk' = [stage |-> "walking", token |-> t, query |-> q, got |-> {}, start |-> Listed(t, q), left |-> FALSE]
  BY DEF BeginWalk, NoWalk
<1>3. rows' = rows /\ writes' = writes /\ session' = session
  BY DEF BeginWalk, sessionVars
<1>4. ~Fresh(t)
  <2>1. GetCurrentUser(t)
    BY DEF BeginWalk, MayAsk, AdminMiddleware, RequireSellerAccount, Middleware
  <2> QED BY <2>1 DEF GetCurrentUser, getActiveSessionByTokenHash, Fresh, NoSession
<1>5. PICK a, m : a = Subject(t, q) /\ m = ServedLimit(q)
  OBVIOUS
<1>6. /\ Subject(t, q)' = a /\ ServedLimit(q)' = m /\ (Oversized(q)' <=> Oversized(q))
      /\ \A i, j : Between(a, q, i, j)' = Between(a, q, i, j)
  BY <1>3, <1>5, LimitsStay, SameRowsSameListing DEF Subject, Holder
<1>7. ~Oversized(q) => Listed(t, q) = Between(a, q, 0, MaxListed + m)
  BY <1>1, <1>5, AllWindowsAreByRank DEF WindowsByRank
<1>8. m \in Nat
  BY <1>1, <1>5, ServedLimits
<1>9. \A tk, qr, b, n : Walking(tk, qr, b, n)' => tk = t /\ qr = q /\ b = a /\ n = m
  BY <1>2, <1>6 DEF Walking
<1>10. 0 + MaxListed + m = MaxListed + m
  BY <1>1, <1>8
<1>11. \A tk, qr, b, n : Walking(tk, qr, b, n)' /\ ~Oversized(qr)' =>
         /\ walk'.start \subseteq Between(b, qr, 0, MaxListed + n)'
         /\ walk'.start \ walk'.got \subseteq Between(b, qr, qr.offset, qr.offset + MaxListed + n)'
  BY <1>1, <1>2, <1>6, <1>7, <1>9, <1>10
<1>12. (\A r \in rows : r.at <= 1 + writes /\ r.updated <= 1 + writes)' /\ ~Fresh(t)'
  BY <1>3, <1>4 DEF WalkKept, Fresh
<1> QED BY <1>2, <1>11, <1>12 DEF WalkKept, WalkMissesNothing

(* A session that was opened keeps its holder and is never opened again. *)
LEMMA HoldersStay ==
  ASSUME SessionInv, SessionNext, NEW t \in Tokens, ~Fresh(t)
  PROVE  ~Fresh(t)' /\ Holder(t)' = Holder(t)
<1>1. session[t] \in Session /\ session[t].expires # 0 /\ session \in [Tokens -> Session]
  BY DEF SessionInv, SessionTypes, Used
<1>2. session'[t].expires # 0 /\ session'[t].user = session[t].user
  <2>1. ASSUME NEW e \in Emails, NEW s \in Tokens, Register(e, s) \/ Login(e, s)
        PROVE  session'[t] = session[t]
    BY <1>1, <2>1 DEF Register, Login, createSession
  <2>2. ASSUME NEW s \in Tokens, Logout(s)
        PROVE  session'[t].expires = session[t].expires /\ session'[t].user = session[t].user
    BY <1>1, <2>2 DEF Logout, revokeSessionByTokenHash, Session
  <2>3. ASSUME DeleteExpiredSessions
        PROVE  session'[t].expires = session[t].expires /\ session'[t].user = session[t].user
    BY <1>1, <2>3 DEF DeleteExpiredSessions, deleteExpiredSessions, Session
  <2>4. Tick => session' = session
    BY DEF Tick
  <2> QED BY <1>1, <2>1, <2>2, <2>3, <2>4 DEF SessionNext
<1> QED BY <1>2 DEF Fresh, NoSession, Holder

LEMMA OthersKeepWalk ==
  ASSUME DataInv, WalkKept, SessionInv, UNCHANGED <<rows, writes>>,
         walk' = walk \/ walk' = [walk EXCEPT !.stage = "refused"], SessionNext \/ UNCHANGED sessionVars
  PROVE  WalkKept'
<1>1. \A t \in Tokens : ~Fresh(t) => ~Fresh(t)' /\ Holder(t)' = Holder(t)
  BY HoldersStay DEF Fresh, Holder, sessionVars
<1>2. (\A r \in rows : r.at <= 1 + writes /\ r.updated <= 1 + writes)'
  BY DEF WalkKept
<1>3. CASE walk' = [walk EXCEPT !.stage = "refused"]
  <2>1. walk'.stage = "refused"
    BY <1>3 DEF DataInv, IsWalk
  <2> QED BY <1>2, <2>1 DEF WalkKept, Walking, WalkMissesNothing
<1>4. CASE walk' = walk
  <2>1. \A t : walk.stage = "walking" /\ walk.token = t => t \in Tokens /\ ~Fresh(t)' /\ Holder(t)' = Holder(t)
    BY <1>1 DEF WalkKept
  <2>2. \A t, q, a, m : Walking(t, q, a, m)' => Walking(t, q, a, m)
    BY <1>4, <2>1, LimitsStay DEF Walking, Subject
  <2>3. \A a, q, i, j : Between(a, q, i, j)' = Between(a, q, i, j)
    BY SameRowsSameListing
  <2>4. \A q : Oversized(q)' <=> Oversized(q)
    BY LimitsStay
  <2>5. WalkMissesNothing'
    BY <1>4 DEF WalkKept, WalkMissesNothing, Oversized
  <2> QED BY <1>2, <1>4, <2>1, <2>2, <2>3, <2>4, <2>5 DEF WalkKept
<1> QED BY <1>3, <1>4

LEMMA WalkInvHolds == DataSpec => [](SessionInv /\ DataInv /\ WalkInv)
<1>1. SessionInit /\ DataInit => WalkInv
  <2> SUFFICES ASSUME DataInit PROVE WalkInv
    OBVIOUS
  <2>1. walk.stage = "idle" /\ rows = Fixture /\ writes = 0
    BY DEF DataInit, NoWalk
  <2>2. \A r \in rows : r.at <= 1 + writes /\ r.updated <= 1 + writes
    BY <2>1, DataConstants
  <2> QED BY <2>1, <2>2 DEF WalkInv, WalkMissesNothing
<1>2. SessionInv /\ DataInv /\ DataInv' /\ WalkInv /\ [DataNext]_accountVars => WalkInv'
  <2> SUFFICES ASSUME SessionInv, DataInv, DataInv', WalkInv, [DataNext]_accountVars PROVE WalkKept'
    BY WalkInvIsByRankNext
  <2>1. WalkKept
    BY WalkInvIsByRank
  <2>2. ASSUME NEW t \in Tokens, NEW q \in Queries, BeginWalk(t, q), UNCHANGED sessionVars PROVE WalkKept'
    BY <2>1, <2>2, BeginWalkKeepsWalk
  <2>3. ASSUME NEW t \in Tokens, NEW q \in Queries, ReadDetail(t, q), UNCHANGED sessionVars PROVE WalkKept'
    BY <2>1, <2>3, OthersKeepWalk DEF ReadDetail
  <2>4. CASE ReadPage /\ UNCHANGED sessionVars
    BY <2>1, <2>4, ReadPageKeepsWalk
  <2>5. CASE WalkIsRefused /\ UNCHANGED sessionVars
    BY <2>1, <2>5, OthersKeepWalk DEF WalkIsRefused
  <2>6. CASE Write /\ UNCHANGED sessionVars
    BY <2>1, <2>6, WriteKeepsWalk
  <2>7. CASE (SessionNext \/ UNCHANGED sessionVars) /\ UNCHANGED dataVars
    BY <2>1, <2>7, OthersKeepWalk DEF dataVars
  <2> QED BY <2>2, <2>3, <2>4, <2>5, <2>6, <2>7 DEF DataNext, accountVars
<1>3. SessionInit => SessionInv
  BY OpeningSessions
<1>4. SessionInv /\ [DataNext]_accountVars => SessionInv'
  BY SessionStep DEF DataNext, accountVars
<1> QED BY <1>1, <1>2, <1>3, <1>4, DataInvHolds, PTL DEF DataSpec

(* A client that walks a listing from its first page to an empty one has every
   row that was listed all the time, unless a row it has come past has left. *)
THEOREM WalksMissNothing == DataSpec => []WalkMissesNothing
<1>1. WalkInv => WalkMissesNothing
  BY DEF WalkInv
<1> QED BY <1>1, WalkInvHolds, PTL
=============================================================================
