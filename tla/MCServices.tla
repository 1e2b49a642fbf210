----------------------------- MODULE MCServices -----------------------------
(***************************************************************************)
(* The request-driven parts of the server, checked in one run.  They keep  *)
(* disjoint tables, so each is explored with the others at rest: "focus"   *)
(* is the part that moves.                                                 *)
(***************************************************************************)
EXTENDS MCPricing, Chat, OzonConnection, AccountData, Admin, AlertRules

CONSTANTS c1, c2, q1, q2, good, noRoles, bad, s1, s2, adm, t1, t2

VARIABLE focus
Parts == {"pricing", "chat", "ozon", "sessions", "data", "admin", "metrics", "rules"}

-----------------------------------------------------------------------------
(* Chat: two sessions, two questions that may overlap. *)
Call(tool, args, limit) == [tool |-> tool, args |-> args, limit |-> limit, days |-> 0]
Plan(intent, calls) ==
    [intent |-> intent, calls |-> calls, confidence |-> 90, reason |-> intent = "unsupported"]
MCPlans ==
    {Plan("priorities", << Call("get_open_alerts", {"limit"}, 50) >>),
     Plan("explain_recommendation", << Call("get_recommendation_detail", {"recommendation_id"}, 0),
                                       Call("get_open_recommendations", {"limit"}, 1) >>),
     Plan("unsupported", << >>),
     Plan("sales", << Call("get_recommendation_detail", {}, 0) >>)}
Reply(confidence, cites, limits) ==
    [confidence |-> confidence, cites |-> cites, limits |-> limits, wellFormed |-> TRUE]
MCReplies == {Reply(3, {}, FALSE), Reply(3, {1}, TRUE), Reply(1, {}, TRUE)}

(* Bounds: the second question is asked after the first and runs one tool, which
   returns one row at most; sessions are opened in turn. *)
ChatBound ==
    /\ chat[c1] = "none" => chat'[c2] = "none"
    /\ ask'[q2].stage = "tools" => ask'[q2].plan.intent = "priorities"
    /\ ask[q2].stage = "tools" /\ ask'[q2].stage = "answer" =>
         ~ask'[q2].context.truncated /\ \A i \in DOMAIN ask'[q2].results : ask'[q2].results[i].rows \subseteq {1}
    /\ feedback' # feedback => feedback = {} /\ \A q \in Questions : ~UnderWay(q)
    /\ ask[q1].stage = "idle" => ask'[q2].stage = "idle"

(* Of two interchangeable actors the first one starts first; a token is either
   served or not. *)
OzonBound == (check[1].stage = "idle" => check'[2].stage = "idle") /\ link'.token # noRoles
AdminBound == op[1].stage = "idle" => op'[2].stage = "idle"

(* Ozon: credentials with every right, with some, and wrong ones. *)
MCSecrets == {good, noRoles, bad}
MCAllowed == good :> {"seller_info", "roles", "campaigns"} @@ noRoles :> {"seller_info"} @@ bad :> {}

(* Sessions: a new e-mail, a disabled user and an administrator without an account. *)
MCRegistered == adm :> [status |-> "active", account |-> FALSE] @@ s2 :> [status |-> "disabled", account |-> TRUE]

-----------------------------------------------------------------------------
(* Data: two accounts with one or more rows in every table. *)
DataRow(id, table, a, of, to, status, kind, at) ==
    [id |-> id, in |-> table, account |-> a, of |-> of, to |-> to, status |-> status, kind |-> kind,
     at |-> at, updated |-> at]
Account(a, n) ==
    {DataRow(n + 1, "seller_accounts", a, 0, 0, "active", "shop", 0),
     DataRow(n + 2, "sync_jobs", a, 0, 0, "completed", "initial_sync", 0),
     DataRow(n + 3, "sync_jobs", a, 0, 0, "failed", "initial_sync", 1),
     DataRow(n + 4, "import_jobs", a, n + 2, 0, "completed", "products", 0),
     DataRow(n + 5, "import_jobs", a, n + 3, 0, "failed", "orders", 1),
     DataRow(n + 6, "sync_cursors", a, 0, 0, "stored", "products", 0),
     DataRow(n + 7, "sync_cursors", a, 0, 0, "stored", "orders", 1),
     DataRow(n + 8, "alert_runs", a, 0, 0, "completed", "manual", 0),
     DataRow(n + 9, "alerts", a, 0, n + 20, "open", "sales", 0),
     DataRow(n + 10, "alerts", a, 0, n + 20, "open", "stock", 1),
     DataRow(n + 30, "alerts", a, 0, n + 21, "open", "advertising", 1),
     DataRow(n + 11, "recommendation_runs", a, 0, 0, "completed", "manual", 0),
     DataRow(n + 12, "recommendation_run_diagnostics", a, n + 11, 0, "stored", "diagnostic", 0),
     DataRow(n + 13, "recommendations", a, 0, n + 20, "open", "high", 0),
     DataRow(n + 14, "recommendations", a, 0, n + 21, "accepted", "low", 1),
     DataRow(n + 15, "recommendation_alert_links", a, n + 13, n + 9, "stored", "link", 0),
     DataRow(n + 16, "recommendation_feedback", a, n + 13, 0, "stored", "positive", 0),
     DataRow(n + 17, "recommendation_feedback", a, n + 14, 0, "stored", "negative", 1),
     DataRow(n + 18, "seller_billing_state", a, 0, 0, "active", "plan", n % 2),
     DataRow(n + 19, "ozon_connections", a, 0, 0, "connected", "ozon", 0),
     DataRow(n + 20, "products", a, 0, 0, "stored", "product", 0),
     DataRow(n + 21, "ad_campaigns", a, 0, 0, "running", "campaign", 0),
     DataRow(n + 22, "ad_campaign_skus", a, n + 21, n + 20, "stored", "link", 0),
     DataRow(n + 23, "chat_sessions", a, 0, 0, "active", "talked", 1),
     DataRow(n + 24, "chat_sessions", a, 0, 0, "active", "silent", 1),
     DataRow(n + 25, "chat_messages", a, n + 23, 0, "stored", "user", 0),
     DataRow(n + 26, "chat_messages", a, n + 23, 0, "stored", "assistant", 1),
     DataRow(n + 27, "chat_traces", a, n + 23, n + 26, "completed", "sales", 0),
     DataRow(n + 28, "chat_feedback", a, n + 23, n + 26, "stored", "positive", 1),
     DataRow(n + 29, "sku_effective_constraints", a, 0, n + 20, "stored", "constraint", 0)}
MCFixture == Account(s1, 0) \cup Account(s2, 30)

Query(route, a, status, kind, of, id, limit) ==
    [route |-> route, account |-> a, status |-> status, kind |-> kind, of |-> of, id |-> id,
     limit |-> limit, offset |-> 0]
Limits == {{}, {0}, {1}, {3}}
MCQueries ==
    {Query(route, s1, Anything, Anything, 0, 0, limit) : route \in (AdminListings \cup SellerListings)
        \ {"messages", "admin-messages", "sync-cursors", "import-jobs", "clients", "billing"}, limit \in Limits}
    \cup {Query(route, Anything, Anything, Anything, 0, 0, limit) : route \in {"clients", "billing", "all-chat-feedback"}, limit \in Limits}
    \cup {Query(route, s1, Anything, Anything, 23, 0, {1}) : route \in {"messages", "admin-messages", "chat-traces"}}
    \cup {Query(route, s1, Anything, Anything, 23, 0, {}) : route \in {"messages", "admin-messages", "chat-traces"}}
    \cup {Query("sync-cursors", s1, Anything, kind, 0, 0, {1}) : kind \in {Anything, "products"}}
    \cup {Query("import-jobs", s1, status, "orders", 0, 0, {1}) : status \in {Anything, "failed"}}
    \cup {Query("alerts", s1, "open", kind, 0, 0, {1}) : kind \in {Anything, "sales", "gossip"}}
    \cup {Query("recommendations", s1, "open", kind, 0, 0, {1}) : kind \in {Anything, "high"}}
    \cup {Query("clients", Anything, Anything, "failed", 0, 0, {1})}
    \cup {Query("recommendation-feedback", s1, "open", Anything, 0, 0, {1})}
    \cup {Query(route, s1, Anything, Anything, 0, id, {}) : route \in AdminDetails \cup
            {"alert-summary", "recommendation-summary", "sync-status", "connection"}, id \in {11, 41}}
    \cup {Query(route, s1, Anything, Anything, 0, id, {}) : route \in
            {"raw-recommendation", "recommendation"}, id \in {13, 43}}
    \cup {Query(route, s1, Anything, Anything, 0, id, {}) : route \in {"chat-trace", "session"}, id \in {23, 27, 53, 57}}
    \cup {Query(route, s1, Anything, "sales", 0, id, {}) : route \in {"chat-tool", "effective-constraint"}, id \in {13, 20, 21, 51}}

(* While data is looked at, a seller or an administrator is logged in.  A second row is
   written only after the first page of a walk by one row. *)
DataUsers == [e \in Emails |-> [status |-> "active", account |-> e # adm]]
DataBound ==
    /\ now' = now /\ user' = user
    /\ session # session' => session'[t1].user \in {s1, adm} /\ session'[t2] = session[t2]
                               /\ walk.got = {} /\ writes = 0
    /\ walk.stage = "idle" => seen = NothingSeen
MayWrite == writes = 1 => walk.stage = "walking" /\ walk.query.limit = {1} /\ walk.query.offset = 1

-----------------------------------------------------------------------------
(* Metrics: one day is yesterday and one today; product 3 is never sold. *)
MCSaleAmounts == {2, -1}
MCFirstStock == (<<1, 1>> :> 1) @@ (<<1, 2>> :> 0) @@ (<<3, 1>> :> 4)

(* Bounds: the second operation refunds product 1, the order is returned on day 2, one
   warehouse is counted again, rebuilds start in turn and reach the last day. *)
MetricsBound ==
    /\ \A s \in SaleIds : sale'[s] # sale[s] =>
         /\ sale'[s].amount = IF s = 2 THEN -1 ELSE 2
         /\ sale'[s].product # 2 => sale'[s].day # 0
         /\ s = 2 => sale'[s].day # 0 /\ sale'[s].product = 1
    /\ \A o \in OrderIds : order'[o] # order[o] => order'[o] = [day |-> 2, status |-> "returned"]
    /\ \A k \in DOMAIN stockRows : stockRows'[k] # stockRows[k] => k = <<1, 1>> /\ stockRows'[k] = 0
    /\ \A r \in Rebuilds :
         /\ rebuild[r].stage = "idle" /\ rebuild'[r].stage # "idle" =>
              rebuild'[r].to = 2 /\ \A q \in Rebuilds : q < r => rebuild[q].stage # "idle"
         /\ rebuild[r].stage # "over" /\ rebuild'[r].stage = "over" => r = 1 \/ rebuild[r].stage = "deleted"

(* Rules: a product that sells, a campaign and a price, each near its thresholds. *)
Typical ==
    [about |-> "stock", stock |-> 12, demand |-> 0, importance |-> 5, sold |-> TRUE, revenue |-> 2000, orders |-> 2,
     soldBefore |-> TRUE, before |-> 2000, ordersBefore |-> 2, others |-> 0, spend |-> 0, adRevenue |-> 0, adOrders |-> 0,
     spendBefore |-> 500, adRevenueBefore |-> 0, adOrdersBefore |-> 0, adDays |-> 14, clicks |-> 100,
     impressions |-> 10000, price |-> 110, min |-> 100, max |-> 110, cost |-> 0]
MCSituations ==
    {[Typical EXCEPT !.revenue = r, !.orders = o, !.spend = s] : r \in {0, 10000}, o \in {0, 5}, s \in {0, 500}}
    \cup {[Typical EXCEPT !.importance = i] : i \in {0, 4}}
    \cup {[Typical EXCEPT !.about = "sales", !.before = b, !.revenue = 3000, !.others = o] :
             b \in {0, 500, 1000, 3000}, o \in {-2000, 0, 1000}}
    \cup {[Typical EXCEPT !.about = "sales", !.soldBefore = FALSE, !.before = 0, !.ordersBefore = 0]}
    \cup {[Typical EXCEPT !.about = "ads", !.adRevenue = r, !.adOrders = o, !.adOrdersBefore = b] :
             r \in {0, 1000, 4000}, o \in {0, 2}, b \in 0 .. 1}
    \cup {[Typical EXCEPT !.about = "ads", !.adRevenue = 4000, !.adRevenueBefore = 8000, !.adOrders = 2,
                          !.adOrdersBefore = 2, !.adDays = d, !.clicks = c] : d \in {2, 14}, c \in {0, 49, 100, 200}}
    \cup {[Typical EXCEPT !.about = "price", !.min = m, !.cost = c, !.revenue = r] :
             m \in {0, 100}, c \in {0, 95}, r \in {0, 10000}}

-----------------------------------------------------------------------------
(* What is not in focus rests where it costs least. *)
Init ==
    /\ focus \in Parts
    /\ PricingInit /\ (focus # "pricing" => rules = << >>)
    /\ ChatInit /\ ConnectionInit /\ AdminInit /\ MetricsInit
    /\ IF focus = "rules" THEN RulesInit ELSE facts = [Typical EXCEPT !.about = "nothing"]
    /\ IF focus = "data"
       THEN DataInit /\ user = DataUsers /\ session = [t \in Tokens |-> NoSession] /\ now = 0 /\ loggedOut = {}
       ELSE SessionInit /\ rows = {} /\ walk = NoWalk /\ seen = NothingSeen /\ writes = 0

serviceVars == <<focus, pricingVars, chatVars, connectionVars, accountVars, op, metricVars, facts>>

PricingMoves ==
    /\ focus = "pricing" /\ PricingNext /\ AtMostTwoOverlap
    /\ UNCHANGED <<chatVars, connectionVars, accountVars, op, metricVars, facts>>
ChatMoves ==
    /\ focus = "chat" /\ ChatNext /\ ChatBound
    /\ UNCHANGED <<pricingVars, connectionVars, accountVars, op, metricVars, facts>>
OzonMoves ==
    /\ focus = "ozon" /\ ConnectionNext /\ OzonBound
    /\ UNCHANGED <<pricingVars, chatVars, accountVars, op, metricVars, facts>>
SessionsMove ==
    /\ focus = "sessions" /\ SessionNext
    /\ UNCHANGED <<pricingVars, chatVars, connectionVars, dataVars, op, metricVars, facts>>
DataMoves ==
    /\ focus = "data" /\ (IF MayWrite THEN TRUE ELSE writes' = writes)
    /\ DataNext /\ DataBound
    /\ UNCHANGED <<pricingVars, chatVars, connectionVars, op, metricVars, facts>>
AdminMoves ==
    /\ focus = "admin" /\ AdminNext /\ AdminBound
    /\ UNCHANGED <<pricingVars, chatVars, connectionVars, accountVars, metricVars, facts>>
MetricsMove ==
    /\ focus = "metrics" /\ MetricsNext /\ MetricsBound
    /\ UNCHANGED <<pricingVars, chatVars, connectionVars, accountVars, op, facts>>
RulesMove ==
    /\ focus = "rules" /\ RulesNext
    /\ UNCHANGED <<pricingVars, chatVars, connectionVars, accountVars, op, metricVars>>

Next ==
    /\ UNCHANGED focus
    /\ \/ PricingMoves \/ ChatMoves \/ OzonMoves \/ SessionsMove
       \/ DataMoves \/ AdminMoves \/ MetricsMove \/ RulesMove

ServicesSpec == Init /\ [][Next]_serviceVars
=============================================================================
