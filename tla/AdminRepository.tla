-------------------------- MODULE AdminRepository --------------------------
(***************************************************************************)
(* src/backend/internal/admin/repository_sqlc.go: the reads of the admin   *)
(* pages.  f is the filter, p the page the service has normalised; the     *)
(* statements are those of AccountRows.                                    *)
(***************************************************************************)
EXTENDS AccountRows

(* NormalizePage(limit, offset, 50, 200); an offset is never negative here. *)
NormalizePage(f) ==
    [limit |-> IF f.limit = 0 THEN DefaultLimit ELSE Clamp(f.limit, MaxLimit), offset |-> f.offset]

ListClients(f) ==
    LET page == NormalizePage(f)
    IN [items |-> adminListClients(f, page), limit |-> page.limit, offset |-> page.offset]
GetClientOverview(a) == adminGetClientOverview(a)
GetClientConnections(a) == adminListClientConnections(a)

ListSyncJobs(a, f, p) == adminListSyncJobs(a, f, p)
ListImportJobs(a, f, p) == adminListImportJobs(a, f, p)
ListImportErrors(a, f, p) == adminListImportErrors(a, f, p)
ListSyncCursors(a, f, p) == adminListSyncCursors(a, f, p)
ListAlertRuns(a, p) == listAlertRunsBySellerAccountID(a, p)
ListRecommendationRuns(a, f, p) == adminListRecommendationRuns(a, f, p)
ListChatTraces(a, f, p) == adminListChatTracesBySeller(a, f, p)
ListChatSessions(a, f, p) == adminListChatSessionsBySeller(a, f, p)
GetChatSession(a, id) == adminGetChatSessionByID(a, id)
ListChatMessages(a, of, p) == adminListChatMessagesBySession(a, of, p)
ListChatFeedback(f, p) == adminListChatFeedback(f.account, f, p)
ListRecommendationFeedback(a, f, p) == adminListRecommendationFeedbackBySeller(a, f, p)
GetRecommendationProxyFeedbackCounts(a) == adminGetRecommendationProxyFeedbackCounts(a)
GetBillingState(a) == getSellerBillingState(a)
ListBillingStates(f) == listSellerBillingStates(f, NormalizePage(f))

PeekRecommendationForAudit(a, id) == adminPeekRecommendationForAudit(a, id)
PeekRecommendationRunForAudit(a, id) == adminPeekRecommendationRunForAudit(a, id)
PeekChatTraceForAudit(a, id) == adminPeekChatTraceForAudit(a, id)

(* The details: the row asked for and the rows shown with it. *)
GetChatTraceDetail(a, id) ==
    LET trace == getChatTraceByID(a, id)
    IN trace \cup UNION {Items(adminListChatMessagesBySession(a, t.of, FirstPage(MaxLimit))) : t \in trace}

GetRecommendationRunDetail(a, id) ==
    LET run == adminGetRecommendationRunByID(a, id)
    IN run \cup UNION {Items(listRecommendationRunDiagnosticsByRun(a, r.id, FirstPage(MaxLimit))) : r \in run}

GetRecommendationRawAI(a, id) ==
    LET rec == getRecommendationByID(a, id)
    IN rec \cup UNION {Items(listAlertsByRecommendationID(a, r.id)) : r \in rec}
=============================================================================
