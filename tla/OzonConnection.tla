--------------------------- MODULE OzonConnection ---------------------------
(***************************************************************************)
(* The Ozon connection of one seller account                               *)
(* (src/backend/internal/integrations/ozon): its credentials, its          *)
(* performance token and the checks of both.  A check reads the secret,    *)
(* calls Ozon with retries and writes its verdict to the row whatever has  *)
(* become of the secret meanwhile; secrets are replaced and cleared at any *)
(* time, and checks overlap.                                               *)
(*                                                                         *)
(* Ozon's opinion of a secret does not change; its network and its         *)
(* availability do.  Encryption is opaque: a secret is a model value.      *)
(***************************************************************************)
EXTENDS Naturals

CONSTANTS Secrets,   \* credential pairs and performance tokens
          Allowed,     \* the requests Ozon serves for each secret
          Checks,      \* checks, each made once
          NoSecret     \* NULL

ASSUME ConnectionConstants == NoSecret \notin Secrets

VARIABLES link,    \* the row of ozon_connections, and two ghosts
          check    \* the checks in progress

connectionVars == <<link, check>>

MaxAttempts == 3

(* What a check stores: its result, and the status that goes with it. *)
Results == {"valid", "invalid_credentials", "network_error", "provider_error"}
StatusOf(result) == IF result = "valid" THEN "valid" ELSE "invalid"

-----------------------------------------------------------------------------
(* The statements.  The ghosts "overtaken" say that the stored verdict was
   reached while its secret was being replaced. *)

NoLink == [exists |-> FALSE, secret |-> NoSecret, status |-> "none", result |-> "none", overtaken |-> FALSE,
           token |-> NoSecret, tokenStatus |-> "none", tokenResult |-> "none", tokenOvertaken |-> FALSE]

CreateOzonConnection(c) ==
    [NoLink EXCEPT !.exists = TRUE, !.secret = c, !.status = "draft", !.tokenStatus = "not_configured"]

\* Mutant: new credentials keep the verdict on the old ones.
UpdateOzonConnectionKeepsVerdict(c) == [link EXCEPT !.secret = c]

UpdateOzonConnectionCredentials(c) ==
    [link EXCEPT !.secret = c, !.status = "draft", !.result = "none", !.overtaken = FALSE]

UpdateOzonPerformanceBearerToken(t) ==
    [link EXCEPT !.token = t, !.tokenStatus = "unknown", !.tokenResult = "none", !.tokenOvertaken = FALSE]

ClearOzonPerformanceBearerToken ==
    [link EXCEPT !.token = NoSecret, !.tokenStatus = "not_configured", !.tokenResult = "none",
                 !.tokenOvertaken = FALSE]

UpdateOzonConnectionCheckResult(k, result) ==
    [link EXCEPT !.status = StatusOf(result), !.result = result, !.overtaken = check[k].overtaken]

UpdateOzonPerformanceCheckResult(k, result) ==
    [link EXCEPT !.tokenStatus = StatusOf(result), !.tokenResult = result,
                 !.tokenOvertaken = check[k].overtaken]

(* A secret of the given kind is replaced: the checks that have read it are overtaken. *)
Overtake(kind) ==
    check' = [k \in Checks |->
                IF check[k].kind = kind /\ check[k].stage \in {"first", "second", "verdict"}
                THEN [check[k] EXCEPT !.overtaken = TRUE] ELSE check[k]]

-----------------------------------------------------------------------------
IdleCheck == [stage |-> "idle", kind |-> "none", secret |-> NoSecret, attempt |-> 1,
              result |-> "none", overtaken |-> FALSE]

ConnectionInit == link = NoLink /\ check = [k \in Checks |-> IdleCheck]

(* Create and, when the request brings a token, a second statement: see SetToken. *)
Create(c) ==
    /\ ~link.exists
    /\ link' = CreateOzonConnection(c)
    /\ UNCHANGED check

Update(c) ==
    /\ link.exists
    /\ link' = UpdateOzonConnectionCredentials(c)
    /\ Overtake("credentials")

(* PutPerformanceToken, and the second statement of Create: it may fail and
   leave a connection without a token. *)
SetToken(t) ==
    /\ link.exists
    /\ link' = UpdateOzonPerformanceBearerToken(t)
    /\ Overtake("token")

ClearToken ==
    /\ link.exists
    /\ link' = ClearOzonPerformanceBearerToken
    /\ Overtake("token")

(* CheckConnection reads the row; without a row there is nothing to check. *)
BeginCheck(k) ==
    /\ check[k].stage = "idle" /\ link.exists
    /\ check' = [check EXCEPT ![k] = [IdleCheck EXCEPT !.stage = "first", !.kind = "credentials",
                                        !.secret = link.secret]]
    /\ UNCHANGED link

(* CheckPerformanceConnection: a missing token ends the check, unwritten. *)
BeginTokenCheck(k) ==
    /\ check[k].stage = "idle" /\ link.exists
    /\ check' = [check EXCEPT ![k] =
                    IF link.token = NoSecret THEN [IdleCheck EXCEPT !.stage = "over", !.kind = "token"]
                    ELSE [IdleCheck EXCEPT !.stage = "first", !.kind = "token", !.secret = link.token]]
    /\ UNCHANGED link

(* The request a check is at: seller info and then roles, or the campaigns. *)
Endpoint(k) ==
    CASE check[k].kind = "token" -> "campaigns"
      [] check[k].kind = "credentials" /\ check[k].stage = "first" -> "seller_info"
      [] check[k].kind = "credentials" /\ check[k].stage = "second" -> "roles"

(* doRequestOnce: 401 and 403 are wrong credentials; the rest that is not a
   success is the network, a rejection, or an error worth another attempt. *)
Answers(k) ==
    {IF Endpoint(k) \in Allowed[check[k].secret] THEN "valid" ELSE "invalid_credentials",
     "network_error", "rejected", "overloaded"}

ShouldRetry(answer) == answer \in {"network_error", "overloaded"}

ResultOf(answer) == IF answer \in {"rejected", "overloaded"} THEN "provider_error" ELSE answer

(* withRetry: another attempt at the same request. *)
CallAgain(k, answer) ==
    /\ check[k].stage \in {"first", "second"}
    /\ answer \in Answers(k)
    /\ ShouldRetry(answer) /\ check[k].attempt < MaxAttempts
    /\ check' = [check EXCEPT ![k].attempt = @ + 1]
    /\ UNCHANGED link

(* The answer that counts.  Credentials that pass the first request are tried
   on a second one, of which only a refusal of the credentials matters. *)
CallReturns(k, answer) ==
    /\ check[k].stage \in {"first", "second"}
    /\ answer \in Answers(k)
    /\ ~ShouldRetry(answer) \/ check[k].attempt = MaxAttempts
    /\ check' = [check EXCEPT ![k] =
         CASE check[k].stage = "first" /\ check[k].kind = "credentials" /\ answer = "valid" ->
                [check[k] EXCEPT !.stage = "second", !.attempt = 1]
           [] check[k].stage = "second" /\ answer # "invalid_credentials" ->
                [check[k] EXCEPT !.stage = "verdict", !.result = "valid"]
           [] OTHER -> [check[k] EXCEPT !.stage = "verdict", !.result = ResultOf(answer)]]
    /\ UNCHANGED link

StoreVerdict(k) ==
    /\ check[k].stage = "verdict"
    /\ link' = IF check[k].kind = "credentials" THEN UpdateOzonConnectionCheckResult(k, check[k].result)
               ELSE UpdateOzonPerformanceCheckResult(k, check[k].result)
    /\ check' = [check EXCEPT ![k] = [IdleCheck EXCEPT !.stage = "over"]]

(* The update of the row fails, or the client goes away during the calls. *)
CheckIsLost(k) ==
    /\ check[k].stage \in {"first", "second", "verdict"}
    /\ check' = [check EXCEPT ![k] = [IdleCheck EXCEPT !.stage = "over"]]
    /\ UNCHANGED link

ConnectionNext ==
    \/ \E s \in Secrets : Create(s) \/ Update(s) \/ SetToken(s)
    \/ ClearToken
    \/ \E k \in Checks :
         \/ BeginCheck(k) \/ BeginTokenCheck(k) \/ StoreVerdict(k) \/ CheckIsLost(k)
         \/ /\ check[k].stage \in {"first", "second"}
            /\ \E a \in Answers(k) : CallAgain(k, a) \/ CallReturns(k, a)

ConnectionSpec == ConnectionInit /\ [][ConnectionNext]_connectionVars

-----------------------------------------------------------------------------
(* The verdict a seller sees is one Ozon gave on the secret that is stored now:
   "valid" only for a secret Ozon serves, "invalid_credentials" only for one it
   refuses, none for a secret that was never checked.  The one exception is a
   check that was under way when its secret was replaced; a verdict on a token
   that was cleared is such an exception. *)
VerdictIsAboutTheStoredSecret ==
    link.exists =>
        /\ ~link.overtaken =>
              /\ link.status = "valid" => "seller_info" \in Allowed[link.secret]
              /\ link.result = "invalid_credentials" =>
                    ~({"seller_info", "roles"} \subseteq Allowed[link.secret])
        /\ ~link.tokenOvertaken =>
              /\ link.token = NoSecret => link.tokenStatus = "not_configured"
              /\ link.tokenStatus = "valid" => "campaigns" \in Allowed[link.token]
              /\ link.tokenResult = "invalid_credentials" => "campaigns" \notin Allowed[link.token]
        /\ link.status = "draft" <=> link.result = "none"
        /\ link.tokenStatus \in {"not_configured", "unknown"} <=> link.tokenResult = "none"
=============================================================================
