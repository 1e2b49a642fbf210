---------------------------- MODULE SellerReads ----------------------------
(***************************************************************************)
(* What the repositories and services of the seller's pages and of the     *)
(* chat's tools read: internal/alerts, internal/recommendations,           *)
(* internal/chat, internal/ingestion and internal/pricingconstraints.      *)
(***************************************************************************)
EXTENDS AccountRows

(* The repositories' normalizeLimit: 20 when none is given, at most 200. *)
NormalizeLimit(limit) == IF limit = 0 THEN SmallLimit ELSE Clamp(limit, MaxLimit)
Normalized(f) == [limit |-> NormalizeLimit(f.limit), offset |-> f.offset]

-----------------------------------------------------------------------------
(* internal/alerts *)
ListAlertsFiltered(a, f) == listAlertsFiltered(a, f, Normalized(f))
CountOpenAlerts(a) == countOpenAlertsBySellerAccountID(a)
CountOpenAlertsBySeverity(a) == countOpenAlertsBySeverity(a)
CountOpenAlertsByGroup(a) == countOpenAlertsByGroup(a)
GetLatestRun(a) == getLatestAlertRunBySellerAccountID(a)

AlertSummary(a) ==
    CountOpenAlerts(a) \cup CountOpenAlertsBySeverity(a) \cup CountOpenAlertsByGroup(a)
    \cup Items(GetLatestRun(a))

(* internal/recommendations *)
ListRecommendationsFiltered(a, f) == listRecommendationsFiltered(a, f, Normalized(f))
ListRecommendations(a, f) ==
    ListRecommendationsFiltered(a, [f EXCEPT !.limit = IF @ = 0 THEN DefaultLimit ELSE Clamp(@, MaxLimit)])
GetRecommendationByID(a, id) == getRecommendationByID(a, id)
ListAlertsByRecommendationID(a, id) == listAlertsByRecommendationID(a, id)
CountOpenRecommendations(a) == countOpenRecommendationsBySellerAccountID(a)
CountOpenRecommendationsByPriority(a) == countOpenRecommendationsByPriority(a)
CountOpenRecommendationsByConfidence(a) == countOpenRecommendationsByConfidence(a)
GetLatestRecommendationRun(a) == getLatestRecommendationRunBySellerAccountID(a)

GetRecommendationDetailByID(a, id) ==
    LET rec == GetRecommendationByID(a, id)
    IN rec \cup UNION {Items(ListAlertsByRecommendationID(a, r.id)) : r \in rec}

RecommendationSummary(a) ==
    CountOpenRecommendations(a) \cup CountOpenRecommendationsByPriority(a)
    \cup CountOpenRecommendationsByConfidence(a) \cup Items(GetLatestRecommendationRun(a))

(* internal/chat *)
ListSessions(a, f) == listChatSessionsBySellerAccountID(a, Normalized(f))
GetSession(a, id) == getChatSessionByID(a, id)
GetMessage(a, id) == getChatMessageByID(a, id)
ListMessages(a, f) == listChatMessagesBySessionID(a, f.of, Normalized(f))

(* internal/pricingconstraints *)
ListEffectiveConstraintsPage(a, f) ==
    LET page == Normalized(f)
    IN [items |-> listSKUEffectiveConstraintsPageBySellerAccountID(a, page),
        total |-> Cardinality(countSKUEffectiveConstraintsBySellerAccountID(a)),
        limit |-> page.limit, offset |-> page.offset]

(* internal/ingestion: nothing without a connection. *)
GetStatus(a) ==
    IF getOzonConnectionBySellerAccountID(a) = {} THEN {}
    ELSE getOzonConnectionBySellerAccountID(a)
         \cup Items(getLatestSyncJobBySellerAccountID(a))
         \cup Items(getLatestCompletedSyncJobBySellerAccountID(a))
         \cup listLatestImportJobsBySellerAccountID(a)

-----------------------------------------------------------------------------
(* The chat's tools (tool_data_repository_sqlc.go).  They filter what they
   have read a page of, so fewer rows than match may be left. *)
ToolPage(limit) == FirstPage(NormalizeLimit(limit))

ToolOpenRecommendations(a, f) ==
    {r \in Items(listOpenRecommendationsBySellerAccountID(a, ToolPage(f.limit))) : Is(f.kind, r.kind)}
ToolRecommendationDetail(a, id) ==
    LET rec == getRecommendationByID(a, id)
    IN rec \cup UNION {Items(listAlertsByRecommendationID(a, r.id)) : r \in rec}
ToolOpenAlerts(a, f) ==
    {r \in Items(listOpenAlertsBySellerAccountID(a, ToolPage(f.limit))) : Is(f.kind, r.kind)}
ToolAlertsByGroup(a, group, limit) ==
    Open(Items(listAlertsByGroup(a, group, ToolPage(limit))))

(* A product, its constraint, and the open alerts and recommendations that
   name it. *)
ToolSKUContext(a, id) ==
    LET target == {p \in listProductsBySellerAccountID(a) : p.id = id}
    IN IF target = {} THEN {}
       ELSE target \cup Items(getSKUEffectiveConstraintBySellerAndSKU(a, id))
            \cup Open(Items(listAlertsByEntitySKU(a, id, FirstPage(SmallLimit))))
            \cup {r \in Items(listOpenRecommendationsBySellerAccountID(a, FirstPage(DefaultLimit))) : r.to = id}

(* A campaign, its linked SKUs, and the open alerts and recommendations that
   name it. *)
ToolCampaignContext(a, id) ==
    LET target == {c \in Own("ad_campaigns", a) : c.id = id}
    IN IF target = {} THEN {}
       ELSE target \cup {l \in Own("ad_campaign_skus", a) : l.of = id}
            \cup Open(Items(listAlertsByEntityID(a, id, FirstPage(SmallLimit))))
            \cup {r \in Items(listOpenRecommendationsBySellerAccountID(a, FirstPage(DefaultLimit))) : r.to = id}
=============================================================================
