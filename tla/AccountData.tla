---------------------------- MODULE AccountData ----------------------------
(***************************************************************************)
(* The HTTP surface that shows an account's data: who may ask              *)
(* (Sessions), which handler answers (AdminHandler, SellerHandler), and a  *)
(* client that walks a listing page by page while the system goes on       *)
(* writing.  One request is one step: its statements each filter by the    *)
(* account on their own, and none depends on what another one read.        *)
(***************************************************************************)
EXTENDS Sessions, AccountRows

CONSTANTS Queries,    \* what clients ask for: [route, account, status, kind, of, id, limit];
                      \* the account is Anything where the path names none
          MaxWrites,  \* bound: rows written during one walk
          MaxListed   \* bound: no listing is longer

VARIABLES walk,    \* the client that pages through a listing: "start" keeps the rows that
                   \* were listed from the beginning, "left" tells that one it has come past has gone
          seen,    \* the account last asked about, and the owners of the rows it was answered with,
                   \* the alerts it was shown for a link of its own left out
          writes   \* how many rows have been written

Admin == INSTANCE AdminHandler
Seller == INSTANCE SellerHandler

dataVars == <<rows, walk, seen, writes>>
accountVars == <<sessionVars, dataVars>>

-----------------------------------------------------------------------------
(* The routes (src/backend/internal/httpserver/server.go). *)

AdminListings ==
    {"clients", "sync-jobs", "import-jobs", "import-errors", "sync-cursors", "recommendation-runs",
     "chat-traces", "admin-sessions", "admin-messages", "client-chat-feedback", "all-chat-feedback",
     "recommendation-feedback", "billing"}
SellerListings == {"alerts", "recommendations", "sessions", "messages", "effective-constraints"}
AdminDetails == {"client", "client-billing", "recommendation-run", "raw-recommendation", "chat-trace"}
SellerDetails ==
    {"alert-summary", "recommendation-summary", "recommendation", "session", "effective-constraint",
     "connection", "sync-status", "chat-tool"}

AdminList(q) ==
    CASE q.route = "clients" -> Admin!ListClients(q)
      [] q.route = "sync-jobs" -> Admin!ListSyncJobs(q)
      [] q.route = "import-jobs" -> Admin!ListImportJobs(q)
      [] q.route = "import-errors" -> Admin!ListImportErrors(q)
      [] q.route = "sync-cursors" -> Admin!ListSyncCursors(q)
      [] q.route = "recommendation-runs" -> Admin!ListRecommendationRuns(q)
      [] q.route = "chat-traces" -> Admin!ListChatTraces(q)
      [] q.route = "admin-sessions" -> Admin!ListChatSessions(q)
      [] q.route = "admin-messages" -> Admin!ListChatMessages(q)
      [] q.route = "client-chat-feedback" -> Admin!ListChatFeedbackByClient(q)
      [] q.route = "all-chat-feedback" -> Admin!ListAllChatFeedback(q)
      [] q.route = "recommendation-feedback" -> Admin!ListRecommendationFeedbackByClient(q)
      [] q.route = "billing" -> Admin!ListBillingStates(q)

AdminDetail(q) ==
    CASE q.route = "client" -> Admin!GetClientDetail(q)
      [] q.route = "client-billing" -> Admin!GetBillingStateByClient(q)
      [] q.route = "recommendation-run" -> Admin!GetRecommendationRunDetail(q)
      [] q.route = "raw-recommendation" -> Admin!GetRecommendationRawAI(q)
      [] q.route = "chat-trace" -> Admin!GetChatTraceDetail(q)

SellerList(a, q) ==
    CASE q.route = "alerts" -> Seller!GetAlerts(a, q)
      [] q.route = "recommendations" -> Seller!ListRecommendations(a, q)
      [] q.route = "sessions" -> Seller!ListSessions(a, q)
      [] q.route = "messages" -> Seller!ListSessionMessages(a, q)
      [] q.route = "effective-constraints" -> Seller!ListEffectiveConstraints(a, q)

SellerDetail(a, q) ==
    CASE q.route = "alert-summary" -> Seller!GetAlertSummary(a)
      [] q.route = "recommendation-summary" -> Seller!GetRecommendationSummary(a)
      [] q.route = "recommendation" -> Seller!GetRecommendationByID(a, q)
      [] q.route = "session" -> Seller!GetChatSession(a, q)
      [] q.route = "effective-constraint" -> Seller!GetEffectiveConstraint(a, q)
      [] q.route = "connection" -> Seller!GetConnection(a)
      [] q.route = "sync-status" -> Seller!GetSyncStatus(a)
      [] q.route = "chat-tool" -> Seller!RunTool(a, q)

ForAdmin(q) == q.route \in AdminListings \cup AdminDetails
IsListing(q) == q.route \in AdminListings \cup SellerListings
MayAsk(t, q) == IF ForAdmin(q) THEN AdminMiddleware(t) ELSE RequireSellerAccount(t)

(* The account an answer is about: the path's for an administrator, the
   session's own for a seller. *)
Subject(t, q) == IF ForAdmin(q) THEN q.account ELSE Holder(t)

Answer(t, q) == IF ForAdmin(q) THEN AdminList(q) ELSE SellerList(Holder(t), q)
Detail(t, q) == IF ForAdmin(q) THEN AdminDetail(q) ELSE SellerDetail(Holder(t), q)

(* The alerts that links of an account name for a recommendation.  A link has
   the account of its recommendation; its alert is any account's. *)
Linked(a, id) ==
    {s \in rows : /\ s.in = "alerts"
                  /\ \E l \in Own("recommendation_alert_links", a) : l.of = id /\ l.to = s.id}
ShownByLink(t, q) ==
    IF q.route \in {"raw-recommendation", "recommendation", "chat-tool"} THEN Linked(Subject(t, q), q.id) ELSE {}

Seen(t, q, shown) ==
    [subject |-> Subject(t, q), owners |-> {r.account : r \in shown \ ShownByLink(t, q)}]

(* The rows the listing holds at this moment from an offset on, all of them,
   and those before the offset of the next request: the client has come past
   them, whether it received them or they were put in front meanwhile. *)
ListedFrom(first, t, q) == UNION {Items(Answer(t, [q EXCEPT !.offset = n]).items) : n \in first..MaxListed}
Listed(t, q) == ListedFrom(0, t, q)
Passed(t, q) == Listed(t, q) \ ListedFrom(q.offset, t, q)

-----------------------------------------------------------------------------
NoWalk == [stage |-> "idle", token |-> "none", query |-> "none", got |-> {}, start |-> {}, left |-> FALSE]
NothingSeen == [subject |-> Anything, owners |-> {}]

DataInit ==
    /\ rows = Fixture
    /\ walk = NoWalk
    /\ seen = NothingSeen
    /\ writes = 0

(* One request for a detail page; it changes no row, so it is looked at while
   nobody walks. *)
ReadDetail(t, q) ==
    /\ walk.stage = "idle" /\ ~IsListing(q) /\ MayAsk(t, q)
    /\ seen' = Seen(t, q, Detail(t, q))
    /\ UNCHANGED <<rows, walk, writes>>

BeginWalk(t, q) ==
    /\ walk.stage = "idle" /\ writes = 0 /\ IsListing(q) /\ MayAsk(t, q)
    /\ walk' = [NoWalk EXCEPT !.stage = "walking", !.token = t, !.query = q, !.start = Listed(t, q)]
    /\ UNCHANGED <<rows, seen, writes>>

(* The next page; the client stops at an empty one.  Every request passes
   the guards again. *)
ReadPage ==
    LET q == walk.query
        answer == Answer(walk.token, q)
    IN /\ walk.stage = "walking" /\ MayAsk(walk.token, q)
       /\ walk' = IF answer.limit = 0 THEN [walk EXCEPT !.stage = "refused"]
                  ELSE IF answer.items = <<>> THEN [walk EXCEPT !.stage = "over"]
                  ELSE [walk EXCEPT !.got = @ \cup Items(answer.items),
                                    !.query.offset = @ + answer.limit]
       /\ seen' = Seen(walk.token, q, Items(answer.items))
       /\ UNCHANGED <<rows, writes>>

(* 401 or 403: the session ended during the walk. *)
WalkIsRefused ==
    /\ walk.stage = "walking" /\ ~MayAsk(walk.token, walk.query)
    /\ walk' = [walk EXCEPT !.stage = "refused"]
    /\ UNCHANGED <<rows, seen, writes>>

-----------------------------------------------------------------------------
(* What the system writes: during a walk what the listing reads, otherwise
   what only the detail pages show. *)

Accounts == {e \in Emails : user[e].account}
In(table) == {r \in rows : r.in = table}

CreateARow(at) ==
    \/ \E a \in Accounts :
         \/ rows' = createSyncJob(a, at)
         \/ rows' = createAlertRun(a, at)
         \/ rows' = createRecommendationRun(a, at)
         \/ rows' = createChatSession(a, at)
    \/ \E r \in In("sync_jobs"), domain \in {"products", "orders"} : rows' = createImportJob(r, domain, at)
    \/ \E r \in In("recommendation_runs") : rows' = createRecommendationRunDiagnostic(r, at)
    \/ \E r \in In("chat_sessions") : rows' = createChatMessage(r, at)
    \/ \E r \in In("chat_messages") : rows' = createChatTrace(r, at)

UpsertARow(at) ==
    \/ \E a \in Accounts, domain \in {"products", "orders"} : rows' = upsertSyncCursor(a, domain, at)
    \/ \E a \in Accounts, status \in {"active", "trial"} : rows' = upsertSellerBillingState(a, status, at)
    \/ \E r \in In("chat_messages"), rating \in {"positive", "negative"} : rows' = createChatFeedback(r, rating, at)
    \/ \E r \in In("recommendations"), rating \in {"positive", "negative"} :
         rows' = createRecommendationFeedback(r, rating, at)
    \* To any account's alert: when the model may name one, Recommendations tells.
    \/ \E r \in In("recommendations"), s \in In("alerts") : rows' = linkRecommendationAlert(r, s, at)

ChangeARow(at) ==
    \/ \E r \in Open(In("alerts") \cup In("recommendations")) : rows' = SeenAgain(r, at)
    \/ \E r \in In("chat_sessions") : rows' = touchChatSession(r, at) \/ rows' = archiveChatSession(r, at)
    \/ \E r \in In("alerts"), status \in {"dismissed", "resolved"} : rows' = SetStatus(r, status, at)
    \/ \E r \in In("recommendations"), status \in {"accepted", "dismissed", "resolved"} : rows' = SetStatus(r, status, at)
    \/ \E r \in In("sync_jobs") \cup In("import_jobs"), status \in {"completed", "failed"} :
         rows' = SetStatus(r, status, at)

(* The tables a listing reads: no other write can be told apart by it. *)
TablesOf(route) ==
    CASE route \in {"sync-jobs"} -> {"sync_jobs"}
      [] route \in {"import-jobs", "import-errors"} -> {"import_jobs"}
      [] route = "sync-cursors" -> {"sync_cursors"}
      [] route = "recommendation-runs" -> {"recommendation_runs"}
      [] route = "chat-traces" -> {"chat_traces"}
      [] route \in {"admin-sessions", "sessions"} -> {"chat_sessions"}
      [] route \in {"admin-messages", "messages"} -> {"chat_messages"}
      [] route \in {"client-chat-feedback", "all-chat-feedback"} -> {"chat_feedback"}
      [] route = "recommendation-feedback" -> {"recommendation_feedback", "recommendations"}
      [] route = "billing" -> {"seller_billing_state"}
      [] route = "alerts" -> {"alerts"}
      [] route = "recommendations" -> {"recommendations"}
      [] OTHER -> {}

DetailTables == {"alert_runs", "recommendation_run_diagnostics", "recommendation_alert_links"}

Relevant(r) ==
    IF walk.stage = "idle" THEN r.in \in DetailTables
    ELSE r.in \in TablesOf(walk.query.route) /\ Subject(walk.token, walk.query) \in {Anything, r.account}

Write ==
    /\ walk.stage \in {"idle", "walking"} /\ writes < MaxWrites
    /\ writes' = writes + 1
    /\ CreateARow(2 + writes) \/ UpsertARow(2 + writes) \/ ChangeARow(2 + writes)
    /\ \A r \in rows' \ rows : Relevant(r)
    /\ walk.stage = "idle" => UNCHANGED walk
    /\ walk.stage = "walking" => \E t \in {walk.token}, q \in {walk.query} :
         LET listed == Listed(t, q)' IN
         walk' = [walk EXCEPT !.start = @ \cap listed,
                              !.left = @ \/ \E r \in Passed(t, q) : \A s \in listed : s.id # r.id]
    /\ UNCHANGED seen

DataNext ==
    \/ /\ UNCHANGED sessionVars
       /\ \/ \E t \in Tokens, q \in Queries : ReadDetail(t, q) \/ BeginWalk(t, q)
          \/ ReadPage
          \/ WalkIsRefused
          \/ Write
    \/ SessionNext /\ UNCHANGED dataVars

DataSpec == SessionInit /\ DataInit /\ [][DataNext]_accountVars

-----------------------------------------------------------------------------
(* Every row an answer is made of belongs to the account the request is
   about: the seller's own, or the one an administrator names.  One kind of
   row is left out (ShownByLink), and of it this says nothing: the alerts on a
   recommendation's page are those the links of the account name for it, and
   they are joined by id alone (recommendations.sql.go:564-571). *)
AnswersStayInTheAccount == seen.subject # Anything => seen.owners \subseteq {seen.subject}

(* A client that pages by the offset it is told has, at the end, every row
   that was listed unchanged all the time, unless a row before its offset has
   left the listing, which moves the others up; that row need not be one it
   has received.  The billing list above the largest page is left out: it
   echoes the limit it was asked for and serves less. *)
Oversized(q) == q.route = "billing" /\ \E n \in q.limit : n > MaxLimit
WalkMissesNothing ==
    walk.stage = "over" /\ ~walk.left /\ ~Oversized(walk.query) => walk.start \subseteq walk.got

-----------------------------------------------------------------------------
(* The inductive invariant behind the first one: primary keys are unique, so
   that every order is total and a page is a list of rows, and the query of a
   walk stays one. *)
IsDataRow(r) ==
    /\ r = [id |-> r.id, in |-> r.in, account |-> r.account, of |-> r.of, to |-> r.to,
            status |-> r.status, kind |-> r.kind, at |-> r.at, updated |-> r.updated]
    /\ {r.id, r.at, r.updated} \subseteq Nat
    /\ r.in = "chat_sessions" => r.kind \in {"talked", "silent"}

(* Primary keys. *)
AreRows(rs) ==
    /\ IsFiniteSet(rs)
    /\ \A r \in rs : IsDataRow(r)
    /\ \A r, s \in rs : r.in = s.in /\ r.id = s.id => r = s

(* Paths that name no account: the clients and the billing states of all. *)
IsQuery(q) ==
    /\ q = [route |-> q.route, account |-> q.account, status |-> q.status, kind |-> q.kind, of |-> q.of,
            id |-> q.id, limit |-> q.limit, offset |-> q.offset]
    /\ q.route \in AdminListings \cup SellerListings \cup AdminDetails \cup SellerDetails
    /\ q.limit \subseteq Nat /\ q.offset \in Nat
    /\ q.route \in {"clients", "billing"} => q.account = Anything

(* The clock of the writes goes on from 2, and a walk begins at the top. *)
ASSUME DataConstants ==
    /\ AreRows(Fixture) /\ \A r \in Fixture : r.at <= 1 /\ r.updated <= 1
    /\ \A q \in Queries : IsQuery(q) /\ q.offset = 0
    /\ MaxListed \in Nat

IsWalk(w) ==
    /\ w = [stage |-> w.stage, token |-> w.token, query |-> w.query, got |-> w.got, start |-> w.start,
            left |-> w.left]
    /\ w.stage = "walking" => IsQuery(w.query) /\ IsListing(w.query)

DataInv ==
    /\ AreRows(rows)
    /\ IsWalk(walk)
    /\ writes \in Nat
    /\ AnswersStayInTheAccount

(* Behind the second one: while the client walks, every row that was there
   all the time is received or lies at its offset or behind.  A write moves a
   row up only if it gives it a later time than any other has, and a session
   that serves a request keeps its holder. *)
Coming(t, q) ==
    UNION {Items(Answer(t, [q EXCEPT !.offset = n]).items) : n \in q.offset .. q.offset + MaxListed}

WalkInv ==
    /\ \A r \in rows : r.at <= 1 + writes /\ r.updated <= 1 + writes
    /\ walk.stage = "walking" => walk.token \in Tokens /\ ~Fresh(walk.token)
    /\ walk.stage = "walking" /\ ~walk.left /\ ~Oversized(walk.query) =>
          /\ walk.start \subseteq Listed(walk.token, walk.query)
          /\ walk.start \ walk.got \subseteq Coming(walk.token, walk.query)
    /\ WalkMissesNothing
=============================================================================
