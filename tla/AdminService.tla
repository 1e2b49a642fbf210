---------------------------- MODULE AdminService ----------------------------
(***************************************************************************)
(* The reads of src/backend/internal/admin: service.go, ai_logs.go and     *)
(* billing.go.  A list result carries the page that was served, which is   *)
(* what the client moves on by.  f is the handler's filter: the account,   *)
(* status, kind and parent row it asks for, and the page (limit 0 when it  *)
(* gives none).  A detail is the set of the rows it shows.                 *)
(***************************************************************************)
EXTENDS AccountRows

Repo == INSTANCE AdminRepository

Glance == FirstPage(SmallLimit)

Result(items, page) == [items |-> items, limit |-> page.limit, offset |-> page.offset]
ListOf(f, Read(_, _, _)) ==
    LET page == Repo!NormalizePage(f) IN Result(Read(f.account, f, page), page)

ListClients(f) == Repo!ListClients([f EXCEPT !.limit = Repo!NormalizePage(f).limit])

ListSyncJobs(f) == ListOf(f, Repo!ListSyncJobs)
ListImportJobs(f) == ListOf(f, Repo!ListImportJobs)
ListImportErrors(f) == ListOf(f, Repo!ListImportErrors)
ListSyncCursors(f) == ListOf(f, Repo!ListSyncCursors)
GetAIRecommendationLogs(f) == ListOf(f, Repo!ListRecommendationRuns)
GetAIChatLogs(f) == ListOf(f, Repo!ListChatTraces)
ListChatSessions(f) == ListOf(f, Repo!ListChatSessions)
ListChatFeedback(f) == ListOf(f, LAMBDA a, g, p : Repo!ListChatFeedback(g, p))
ListRecommendationFeedback(f) == ListOf(f, Repo!ListRecommendationFeedback)

(* pgx.ErrNoRows when the session is not the account's. *)
HasChatSession(f) == Repo!GetChatSession(f.account, f.of) # {}
ListChatMessages(f) == ListOf(f, LAMBDA a, g, p : Repo!ListChatMessages(a, g.of, p))

(* The rows, without the page they were read with. *)
ListBillingStates(f) == Repo!ListBillingStates([f EXCEPT !.limit = Repo!NormalizePage(f).limit])
GetBillingState(a) == Repo!GetBillingState(a)

(* Ten import jobs, and of everything else the newest. *)
GetOperationalStatus(a) ==
    LET all == [status |-> Anything, kind |-> Anything, of |-> 0]
    IN Items(Repo!ListSyncJobs(a, all, FirstPage(1))) \cup Items(Repo!ListImportJobs(a, all, Glance))
       \cup Items(Repo!ListAlertRuns(a, FirstPage(1)))
       \cup Items(Repo!ListRecommendationRuns(a, all, FirstPage(1)))
       \cup Items(Repo!ListChatTraces(a, all, FirstPage(1)))

GetClientDetail(a) ==
    Repo!GetClientOverview(a) \cup Items(Repo!GetClientConnections(a))
    \cup GetOperationalStatus(a) \cup Repo!GetBillingState(a)

(* What the audited views fetch once their audit row is open (Admin). *)
GetRecommendationRunDetail(a, id) ==
    IF Repo!PeekRecommendationRunForAudit(a, id) = {} THEN {} ELSE Repo!GetRecommendationRunDetail(a, id)
GetRecommendationRawAI(a, id) ==
    IF Repo!PeekRecommendationForAudit(a, id) = {} THEN {} ELSE Repo!GetRecommendationRawAI(a, id)
GetChatTraceDetail(a, id) ==
    IF Repo!PeekChatTraceForAudit(a, id) = {} THEN {} ELSE Repo!GetChatTraceDetail(a, id)
=============================================================================
