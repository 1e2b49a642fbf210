--------------------------- MODULE SellerHandler ---------------------------
(***************************************************************************)
(* The seller's reading handlers (src/backend/internal/httpserver/         *)
(* handlers): the account is the one of the session, never one the query   *)
(* names.  q.limit is the set of the limits a query gives, at most one.    *)
(***************************************************************************)
EXTENDS AccountRows

Reads == INSTANCE SellerReads

Refused == [items |-> <<>>, limit |-> 0, offset |-> 0]
Given(q, default) == IF q.limit = {} THEN default ELSE CHOOSE n \in q.limit : TRUE

AlertStatuses == {Anything, "open", "resolved", "dismissed"}
AlertGroups == {Anything, "sales", "stock", "advertising", "price_economics"}

\* Mutant: a limit above the largest page is echoed as it was asked for.
ParseFilterUncapped(q) == [valid |-> 0 \notin q.limit, limit |-> Given(q, DefaultLimit)]

(* Of alerts: a status and a group that exist. *)
ParseAlertsFilter(q) ==
    [valid |-> 0 \notin q.limit /\ q.status \in AlertStatuses /\ q.kind \in AlertGroups,
     limit |-> Clamp(Given(q, DefaultLimit), MaxLimit)]
ParseRecommendationsFilter(q) ==
    [valid |-> 0 \notin q.limit, limit |-> Clamp(Given(q, DefaultLimit), MaxLimit)]
(* A limit that is no positive number is ignored. *)
ParseChatPagination(q, default, most) == IF 0 \in q.limit THEN default ELSE Clamp(Given(q, default), most)
(* And so is one above 100. *)
ParsePaginationParams(q) ==
    IF q.limit \subseteq 1..ChatMax THEN Given(q, SmallLimit) ELSE SmallLimit

Serve(a, q, page, List(_, _)) ==
    IF page.valid
    THEN [items |-> List(a, [q EXCEPT !.limit = page.limit]), limit |-> page.limit, offset |-> q.offset]
    ELSE Refused

GetAlerts(a, q) == Serve(a, q, ParseAlertsFilter(q), Reads!ListAlertsFiltered)
ListRecommendations(a, q) == Serve(a, q, ParseRecommendationsFilter(q), Reads!ListRecommendations)
ListSessions(a, q) ==
    Serve(a, q, [valid |-> TRUE, limit |-> ParseChatPagination(q, SmallLimit, ChatMax)], Reads!ListSessions)
ListSessionMessages(a, q) ==
    Serve(a, q, [valid |-> Reads!GetSession(a, q.of) # {},
                 limit |-> ParseChatPagination(q, DefaultLimit, MaxLimit)], Reads!ListMessages)
ListEffectiveConstraints(a, q) ==
    LET page == Reads!ListEffectiveConstraintsPage(a, [q EXCEPT !.limit = ParsePaginationParams(q)])
    IN [items |-> page.items, limit |-> page.limit, offset |-> page.offset]

GetAlertSummary(a) == Reads!AlertSummary(a)
GetRecommendationSummary(a) == Reads!RecommendationSummary(a)
GetRecommendationByID(a, q) == Reads!GetRecommendationDetailByID(a, q.id)
GetChatSession(a, q) == Reads!GetSession(a, q.id)
GetEffectiveConstraint(a, q) == Items(getSKUEffectiveConstraintBySellerAndSKU(a, q.id))
GetConnection(a) == getOzonConnectionBySellerAccountID(a)
GetSyncStatus(a) == Reads!GetStatus(a)
(* The tools the chat may run for the account that asks. *)
RunTool(a, q) ==
    LET f == [q EXCEPT !.limit = Given(q, 0)]
    IN Reads!ToolOpenRecommendations(a, f) \cup Reads!ToolOpenAlerts(a, f)
       \cup Reads!ToolRecommendationDetail(a, q.id) \cup Reads!ToolAlertsByGroup(a, q.kind, f.limit)
       \cup Reads!ToolSKUContext(a, q.id) \cup Reads!ToolCampaignContext(a, q.id)
=============================================================================
