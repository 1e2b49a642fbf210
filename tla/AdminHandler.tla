---------------------------- MODULE AdminHandler ----------------------------
(***************************************************************************)
(* The reading handlers of src/backend/internal/httpserver/handlers/       *)
(* admin.go.  A request q names the account in its path and carries the    *)
(* query's filters and limit; q.limit is the set of the limits it gives,   *)
(* at most one, so {} is a query without one.  An answer is the page that  *)
(* is echoed and its items, or Refused.                                    *)
(***************************************************************************)
EXTENDS AccountRows

Service == INSTANCE AdminService

Refused == [items |-> <<>>, limit |-> 0, offset |-> 0]

ParseAdminPagination(q) ==
    [valid |-> 0 \notin q.limit,
     limit |-> IF q.limit = {} THEN DefaultLimit ELSE CHOOSE n \in q.limit : TRUE]

Serve(q, List(_)) ==
    LET page == ParseAdminPagination(q)
    IN IF page.valid THEN List([q EXCEPT !.limit = page.limit]) ELSE Refused

ListClients(q) == Serve(q, Service!ListClients)
ListSyncJobs(q) == Serve(q, Service!ListSyncJobs)
ListImportJobs(q) == Serve(q, Service!ListImportJobs)
(* The query's status is not passed on. *)
ListImportErrors(q) == Serve([q EXCEPT !.status = Anything], Service!ListImportErrors)
ListSyncCursors(q) == Serve(q, Service!ListSyncCursors)
ListRecommendationRuns(q) == Serve(q, Service!GetAIRecommendationLogs)
ListChatTraces(q) == Serve(q, Service!GetAIChatLogs)
ListChatSessions(q) == Serve(q, Service!ListChatSessions)
ListChatMessages(q) ==
    IF Service!HasChatSession(q) THEN Serve(q, Service!ListChatMessages) ELSE Refused
ListChatFeedbackByClient(q) == Serve(q, Service!ListChatFeedback)
(* The account may be given in the query or left out. *)
ListAllChatFeedback(q) == Serve(q, Service!ListChatFeedback)
ListRecommendationFeedbackByClient(q) == Serve(q, Service!ListRecommendationFeedback)

(* The page echoed is the one asked for, not the one that was served. *)
ListBillingStates(q) ==
    Serve(q, LAMBDA f : [items |-> Service!ListBillingStates(f), limit |-> f.limit, offset |-> f.offset])

GetClientDetail(q) == Service!GetClientDetail(q.account)
GetBillingStateByClient(q) == Service!GetBillingState(q.account)
GetRecommendationRunDetail(q) == Service!GetRecommendationRunDetail(q.account, q.id)
GetRecommendationRawAI(q) == Service!GetRecommendationRawAI(q.account, q.id)
GetChatTraceDetail(q) == Service!GetChatTraceDetail(q.account, q.id)
=============================================================================
