---------------------------- MODULE AccountRows ----------------------------
(***************************************************************************)
(* The rows an account's listings and detail pages are made of, and the    *)
(* statements that read and write them (src/backend/internal/dbgen).  A    *)
(* row keeps what a statement can tell apart: its table, its account, the  *)
(* row it belongs to ("of"), the row it points to ("to"), its status, one  *)
(* more column listings filter by ("kind": a domain, a run type, a group,  *)
(* a rating...), the column it is ordered by ("at") and, where an order    *)
(* falls back on it, updated_at ("updated").  Everything else is payload.  *)
(***************************************************************************)
EXTENDS Naturals, Sequences, FiniteSets, FiniteSetsExt

CONSTANTS Fixture,       \* the rows there are at the start
          SmallLimit,    \* the page of chat sessions and effective constraints: 20
          DefaultLimit,  \* the page when no limit is given: 50
          ChatMax,       \* the largest page of chat sessions: 100
          MaxLimit       \* the largest page there is: 200

ASSUME PageLimits ==
    /\ {SmallLimit, DefaultLimit, ChatMax, MaxLimit} \subseteq Nat \ {0}
    /\ SmallLimit <= DefaultLimit /\ DefaultLimit <= ChatMax /\ ChatMax <= MaxLimit

VARIABLE rows

Own(table, a) == {r \in rows : r.in = table /\ r.account = a}

(* A filter that is left out (NULL) matches every value. *)
Anything == "any"
Is(filter, value) == filter \in {Anything, value}
IsRow(filter, id) == filter \in {0, id}

(* Row orders: ORDER BY at DESC, id DESC and its reverse. *)
Newer(r, s) == r.at > s.at \/ (r.at = s.at /\ r.id > s.id)
Older(r, s) == Newer(s, r)
UpdatedLater(r, s) == r.updated > s.updated \/ (r.updated = s.updated /\ r.id > s.id)
ComputedLater(r, s) == r.at > s.at \/ (r.at = s.at /\ r.id < s.id)
(* last_message_at DESC NULLS LAST, updated_at DESC, id DESC. *)
TalkedLater(r, s) ==
    IF r.kind # s.kind THEN r.kind = "talked"
    ELSE IF r.kind = "talked" /\ r.at # s.at THEN r.at > s.at
    ELSE UpdatedLater(r, s)

Ordered(S, Before(_, _)) ==
    [i \in 1..Cardinality(S) |-> CHOOSE r \in S : Cardinality({s \in S : Before(s, r)}) = i - 1]
Newest(S) == Ordered(S, Newer)
Oldest(S) == Ordered(S, Older)

(* LIMIT and OFFSET. *)
Paged(list, p) ==
    LET last == IF p.offset + p.limit < Len(list) THEN p.offset + p.limit ELSE Len(list)
    IN SubSeq(list, p.offset + 1, last)
FirstPage(limit) == [limit |-> limit, offset |-> 0]
Latest(S) == Paged(Newest(S), FirstPage(1))
Clamp(limit, most) == IF limit > most THEN most ELSE limit
Items(list) == {list[i] : i \in DOMAIN list}

-----------------------------------------------------------------------------
(* admin_read.sql.go: p is the page, f the filter. *)

adminListSyncJobs(a, f, p) ==
    Paged(Newest({r \in Own("sync_jobs", a) : Is(f.status, r.status)}), p)

adminListImportJobs(a, f, p) ==
    Paged(Newest({r \in Own("import_jobs", a) : Is(f.status, r.status) /\ Is(f.kind, r.kind)}), p)

(* An import_job has an error_message exactly while it is failed. *)
adminListImportErrors(a, f, p) ==
    Paged(Newest({r \in Own("import_jobs", a) : r.status = "failed" /\ Is(f.kind, r.kind)}), p)

adminListSyncCursors(a, f, p) ==
    Paged(Newest({r \in Own("sync_cursors", a) : Is(f.kind, r.kind)}), p)

adminListRecommendationRuns(a, f, p) ==
    Paged(Newest({r \in Own("recommendation_runs", a) : Is(f.status, r.status) /\ Is(f.kind, r.kind)}), p)

adminListChatTracesBySeller(a, f, p) ==
    Paged(Newest({r \in Own("chat_traces", a) :
                    Is(f.status, r.status) /\ Is(f.kind, r.kind) /\ IsRow(f.of, r.of)}), p)

adminListChatSessionsBySeller(a, f, p) ==
    Paged(Ordered({r \in Own("chat_sessions", a) : Is(f.status, r.status)}, TalkedLater), p)

adminListChatMessagesBySession(a, of, p) ==
    Paged(Oldest({r \in Own("chat_messages", a) : r.of = of}), p)

(* Joined with the message and the session of the same account; without an
   account the feedback of every account. *)
adminListChatFeedback(a, f, p) ==
    LET Joined(r) == /\ \E m \in Own("chat_messages", r.account) : m.id = r.to
                     /\ \E s \in Own("chat_sessions", r.account) : s.id = r.of
    IN Paged(Newest({r \in rows : /\ r.in = "chat_feedback"
                                  /\ Is(a, r.account) /\ Is(f.kind, r.kind) /\ Joined(r)}), p)

adminListRecommendationFeedbackBySeller(a, f, p) ==
    Paged(Newest({r \in Own("recommendation_feedback", a) :
                    /\ Is(f.kind, r.kind)
                    /\ \E rec \in Own("recommendations", a) : rec.id = r.of /\ Is(f.status, rec.status)}), p)

adminGetRecommendationProxyFeedbackCounts(a) ==
    {r \in Own("recommendations", a) : r.status \in {"accepted", "dismissed", "resolved"}}

(* LEFT JOIN ozon_connections: a connection status excludes the unconnected. *)
adminListClients(f, p) ==
    Paged(Newest({r \in rows : /\ r.in = "seller_accounts" /\ Is(f.status, r.status)
                               /\ f.kind # Anything =>
                                    \E c \in Own("ozon_connections", r.account) : c.status = f.kind}), p)

adminGetClientOverview(a) == Own("seller_accounts", a)
adminListClientConnections(a) == Newest(Own("ozon_connections", a))
adminGetChatSessionByID(a, id) == {r \in Own("chat_sessions", a) : r.id = id}
adminGetRecommendationRunByID(a, id) == {r \in Own("recommendation_runs", a) : r.id = id}

(* admin_support.sql.go *)
adminPeekRecommendationForAudit(a, id) == {r \in Own("recommendations", a) : r.id = id}
adminPeekRecommendationRunForAudit(a, id) == {r \in Own("recommendation_runs", a) : r.id = id}
adminPeekChatTraceForAudit(a, id) == {r \in Own("chat_traces", a) : r.id = id}

listRecommendationRunDiagnosticsByRun(a, of, p) ==
    Paged(Newest({r \in Own("recommendation_run_diagnostics", a) : r.of = of}), p)

getSellerBillingState(a) == Own("seller_billing_state", a)
listSellerBillingStates(f, p) ==
    Paged(Newest({r \in rows : r.in = "seller_billing_state" /\ Is(f.status, r.status)}), p)

-----------------------------------------------------------------------------
(* alerts.sql.go *)

Open(S) == {r \in S : r.status = "open"}

listAlertRunsBySellerAccountID(a, p) == Paged(Newest(Own("alert_runs", a)), p)
getLatestAlertRunBySellerAccountID(a) == Latest(Own("alert_runs", a))
listOpenAlertsBySellerAccountID(a, p) == Paged(Newest(Open(Own("alerts", a))), p)
listAlertsFiltered(a, f, p) ==
    Paged(Newest({r \in Own("alerts", a) : Is(f.status, r.status) /\ Is(f.kind, r.kind)}), p)
listAlertsByGroup(a, group, p) == Paged(Newest({r \in Own("alerts", a) : r.kind = group}), p)
listAlertsByEntitySKU(a, sku, p) == Paged(Newest({r \in Own("alerts", a) : r.to = sku}), p)
listAlertsByEntityID(a, entity, p) == Paged(Newest({r \in Own("alerts", a) : r.to = entity}), p)

(* Of a counting statement, the rows it counts. *)
countOpenAlertsBySellerAccountID(a) == Open(Own("alerts", a))
countOpenAlertsBySeverity(a) == Open(Own("alerts", a))
countOpenAlertsByGroup(a) == Open(Own("alerts", a))

(* recommendations.sql.go *)
listRecommendationsFiltered(a, f, p) ==
    Paged(Newest({r \in Own("recommendations", a) : Is(f.status, r.status) /\ Is(f.kind, r.kind)}), p)
listOpenRecommendationsBySellerAccountID(a, p) == Paged(Newest(Open(Own("recommendations", a))), p)

\* Mutant: the recommendation is looked up by its id alone.
getRecommendationByIDAlone(a, id) == {r \in rows : r.in = "recommendations" /\ r.id = id}

getRecommendationByID(a, id) == {r \in Own("recommendations", a) : r.id = id}
getLatestRecommendationRunBySellerAccountID(a) == Latest(Own("recommendation_runs", a))

(* The account is compared on the link, the alert found by its id alone. *)
listAlertsByRecommendationID(a, id) ==
    Newest({r \in rows : /\ r.in = "alerts"
                         /\ \E l \in Own("recommendation_alert_links", a) : l.of = id /\ l.to = r.id})

countOpenRecommendationsBySellerAccountID(a) == Open(Own("recommendations", a))
countOpenRecommendationsByPriority(a) == Open(Own("recommendations", a))
countOpenRecommendationsByConfidence(a) == Open(Own("recommendations", a))

(* chat.sql.go; a session's "at" is COALESCE(last_message_at, created_at). *)
listChatSessionsBySellerAccountID(a, p) == Paged(Newest(Own("chat_sessions", a)), p)
getChatSessionByID(a, id) == {r \in Own("chat_sessions", a) : r.id = id}
getChatMessageByID(a, id) == {r \in Own("chat_messages", a) : r.id = id}
getChatTraceByID(a, id) == {r \in Own("chat_traces", a) : r.id = id}
listChatMessagesBySessionID(a, of, p) == Paged(Oldest({r \in Own("chat_messages", a) : r.of = of}), p)
listChatFeedbackBySellerAccountID(a, p) == Paged(Newest(Own("chat_feedback", a)), p)

(* sync_jobs.sql.go, import_jobs.sql.go, ozon_connections.sql.go, products.sql.go *)
getLatestSyncJobBySellerAccountID(a) == Latest(Own("sync_jobs", a))
(* Of the completed ones, the one that finished last: finished_at is "updated". *)
getLatestCompletedSyncJobBySellerAccountID(a) ==
    Paged(Ordered({r \in Own("sync_jobs", a) : r.status = "completed"}, UpdatedLater), FirstPage(1))
listLatestImportJobsBySellerAccountID(a) ==
    {r \in Own("import_jobs", a) : \A s \in Own("import_jobs", a) : s.kind = r.kind => s = r \/ Newer(r, s)}
getOzonConnectionBySellerAccountID(a) == Own("ozon_connections", a)
listProductsBySellerAccountID(a) == Own("products", a)

(* pricing_constraints.sql.go: computed_at DESC, ozon_product_id ASC. *)
listSKUEffectiveConstraintsPageBySellerAccountID(a, p) ==
    Paged(Ordered(Own("sku_effective_constraints", a), ComputedLater), p)
countSKUEffectiveConstraintsBySellerAccountID(a) == Own("sku_effective_constraints", a)
getSKUEffectiveConstraintBySellerAndSKU(a, sku) ==
    Latest({r \in Own("sku_effective_constraints", a) : r.to = sku})

-----------------------------------------------------------------------------
(* The writes: a new row, a row written again, a change of status.  Ids come
   from a sequence and are never given twice. *)

NextId == 1 + Max({0} \cup {r.id : r \in rows})
NewRow(table, a, of, to, status, kind, at) ==
    [id |-> NextId, in |-> table, account |-> a, of |-> of, to |-> to,
     status |-> status, kind |-> kind, at |-> at, updated |-> at]
Put(row) == rows \cup {row}
Replace(old, new) == (rows \ {old}) \cup {new}
(* ON CONFLICT DO UPDATE of the row that has the key. *)
Upsert(row, Same(_)) ==
    IF \E r \in rows : Same(r)
    THEN LET old == CHOOSE r \in rows : Same(r) IN Replace(old, [row EXCEPT !.id = old.id])
    ELSE Put(row)

createSyncJob(a, time) == Put(NewRow("sync_jobs", a, 0, 0, "pending", "initial_sync", time))
createImportJob(sync, domain, time) ==
    Put(NewRow("import_jobs", sync.account, sync.id, 0, "pending", domain, time))
createAlertRun(a, time) == Put(NewRow("alert_runs", a, 0, 0, "running", "manual", time))
createRecommendationRun(a, time) == Put(NewRow("recommendation_runs", a, 0, 0, "running", "manual", time))
createRecommendationRunDiagnostic(run, time) ==
    Put(NewRow("recommendation_run_diagnostics", run.account, run.id, 0, "stored", "diagnostic", time))
createChatSession(a, time) == Put(NewRow("chat_sessions", a, 0, 0, "active", "silent", time))
createChatMessage(s, time) == Put(NewRow("chat_messages", s.account, s.id, 0, "stored", "user", time))
createChatTrace(m, time) == Put(NewRow("chat_traces", m.account, m.of, m.id, "running", "none", time))

upsertSyncCursor(a, domain, time) ==
    Upsert(NewRow("sync_cursors", a, 0, 0, "stored", domain, time),
           LAMBDA r : r.in = "sync_cursors" /\ r.account = a /\ r.kind = domain)

createChatFeedback(m, rating, time) ==
    Upsert(NewRow("chat_feedback", m.account, m.of, m.id, "stored", rating, time),
           LAMBDA r : r.in = "chat_feedback" /\ r.account = m.account /\ r.to = m.id)

createRecommendationFeedback(rec, rating, time) ==
    Upsert(NewRow("recommendation_feedback", rec.account, rec.id, 0, "stored", rating, time),
           LAMBDA r : r.in = "recommendation_feedback" /\ r.account = rec.account /\ r.of = rec.id)

upsertSellerBillingState(a, status, time) ==
    Upsert(NewRow("seller_billing_state", a, 0, 0, status, "plan", time),
           LAMBDA r : r.in = "seller_billing_state" /\ r.account = a)

(* ON CONFLICT DO NOTHING. *)
linkRecommendationAlert(rec, alert, time) ==
    IF \E r \in rows : r.in = "recommendation_alert_links" /\ r.of = rec.id /\ r.to = alert.id
    THEN rows
    ELSE Put(NewRow("recommendation_alert_links", rec.account, rec.id, alert.id, "stored", "link", time))

(* An alert or a recommendation that is found again gets last_seen_at. *)
SeenAgain(r, time) == Replace(r, [r EXCEPT !.at = time, !.updated = time])
touchChatSession(s, time) == Replace(s, [s EXCEPT !.at = time, !.updated = time, !.kind = "talked"])
archiveChatSession(s, time) == Replace(s, [s EXCEPT !.status = "archived", !.updated = time])
SetStatus(r, status, time) == Replace(r, [r EXCEPT !.status = status, !.updated = time])
=============================================================================
