-------------------------------- MODULE Chat --------------------------------
(***************************************************************************)
(* The assistant chat of one seller account (src/backend/internal/chat).   *)
(* A question passes nine statements and calls, none of them in a          *)
(* transaction: resolve the session, store the question, open a trace, let *)
(* the model plan tool calls, run them, let the model answer, validate,    *)
(* store the answer, close the trace.  Several questions are under way at  *)
(* once, sessions are archived meanwhile, every call may fail and the      *)
(* process may die.                                                        *)
(*                                                                         *)
(* The model's plans and answers are inputs.  Texts are left out: the      *)
(* wording checks of the two validators, and the remarks a successful tool *)
(* adds, can only refuse more or lower the confidence further.  Of a       *)
(* tool's rows the ids of alerts and recommendations are kept.             *)
(***************************************************************************)
EXTENDS Naturals, Sequences, FiniteSets, SequencesExt

CONSTANTS Chats,        \* chat sessions
          Questions,    \* requests to Ask, each made once
          Plans,        \* what the planner may return
          Replies,      \* what the answering model may return
          EntityIds,    \* ids of alerts and recommendations
          MaxItemsPerSection  \* the length lists are cut to (AI_CHAT_MAX_CONTEXT_ITEMS): 20

ASSUME ChatConstants ==
    /\ EntityIds \subseteq Nat \ {0}
    /\ MaxItemsPerSection \in Nat \ {0}
    /\ \A r \in Replies : r.confidence \in 1 .. 3      \* low, medium, high

VARIABLES chat,      \* chat_sessions: status of each session
          message,   \* chat_messages
          trace,     \* chat_traces: status of the trace of each question
          ask,       \* the handlers in progress
          feedback   \* chat_feedback: the messages that have a rating

chatVars == <<chat, message, trace, ask, feedback>>

-----------------------------------------------------------------------------
(* The registry: the arguments a tool allows, those it needs one of, the
   rows it may return, the intents it serves and, for the fact context, how
   its answer is filed: "rows" (the items of a list), "map" (one object) or
   "object" (appended to a list of objects). *)

ToolDef(args, needs, max, files, refs, intents) ==
    [args |-> args, needs |-> needs, max |-> max, files |-> files, refs |-> refs, intents |-> intents]

DashboardSummary == ToolDef({"as_of_date"}, {}, 1, "map", FALSE,
    {"priorities", "general_overview", "sales", "recommendations", "alerts", "unknown"})
OpenRecommendations == ToolDef({"limit", "priority_levels", "horizon"}, {}, 10, "rows", TRUE,
    {"priorities", "recommendations", "explain_recommendation", "general_overview", "pricing",
     "advertising", "stock", "unknown"})
RecommendationDetail == ToolDef({"recommendation_id"}, {"recommendation_id"}, 1, "object", TRUE,
    {"explain_recommendation", "recommendations"})
OpenAlerts == ToolDef({"limit", "severities", "groups"}, {}, 20, "rows", TRUE,
    {"alerts", "priorities", "unsafe_ads", "ad_loss", "stock", "pricing", "sales", "advertising",
     "general_overview", "unknown"})
AlertsByGroup == ToolDef({"group", "limit"}, {"group"}, 20, "rows", TRUE,
    {"sales", "stock", "advertising", "pricing", "alerts", "unsafe_ads", "ad_loss", "priorities"})
CriticalSKUs == ToolDef({"limit", "as_of_date"}, {}, 20, "rows", FALSE,
    {"priorities", "stock", "sales", "general_overview"})
StockRisks == ToolDef({"limit", "as_of_date", "category_hint"}, {}, 20, "rows", FALSE,
    {"stock", "unsafe_ads", "priorities", "general_overview", "advertising"})
AdvertisingAnalytics == ToolDef({"limit", "date_from", "date_to", "campaign_id"}, {}, 20, "map", FALSE,
    {"advertising", "ad_loss", "unsafe_ads", "priorities", "general_overview"})
PriceEconomicsRisks == ToolDef({"limit"}, {}, 20, "rows", TRUE,
    {"pricing", "priorities", "general_overview", "recommendations"})
SKUMetrics == ToolDef({"limit", "date_from", "date_to", "category_hint", "sku", "offer_id", "sort_by"},
    {}, 50, "rows", FALSE, {"sales", "abc_analysis", "stock", "pricing", "general_overview"})
SKUContext == ToolDef({"sku", "offer_id"}, {"sku", "offer_id"}, 1, "object", TRUE,
    {"explain_recommendation", "sales", "stock", "pricing", "advertising", "recommendations"})
CampaignContext == ToolDef({"campaign_id"}, {"campaign_id"}, 1, "object", TRUE,
    {"advertising", "ad_loss", "unsafe_ads"})
ABCAnalysis == ToolDef({"category_hint", "date_from", "date_to", "metric", "limit"}, {}, 200, "map", FALSE,
    {"abc_analysis"})

Registry ==
    [get_dashboard_summary |-> DashboardSummary, get_open_recommendations |-> OpenRecommendations,
     get_recommendation_detail |-> RecommendationDetail, get_open_alerts |-> OpenAlerts,
     get_alerts_by_group |-> AlertsByGroup, get_critical_skus |-> CriticalSKUs,
     get_stock_risks |-> StockRisks, get_advertising_analytics |-> AdvertisingAnalytics,
     get_price_economics_risks |-> PriceEconomicsRisks, get_sku_metrics |-> SKUMetrics,
     get_sku_context |-> SKUContext, get_campaign_context |-> CampaignContext,
     run_abc_analysis |-> ABCAnalysis]

Intents == UNION {Registry[t].intents : t \in DOMAIN Registry}
MaxToolsPerPlan == 5
MaxToolDateRangeDays == 90

-----------------------------------------------------------------------------
(* ToolPlanValidator.Validate: a call names its tool, the arguments given,
   the limit asked for (0: none) and the days its period spans. *)

CallIsValid(call, intent) ==
    /\ call.tool \in DOMAIN Registry
    /\ intent \in Registry[call.tool].intents
    /\ call.args \subseteq Registry[call.tool].args
    /\ Registry[call.tool].needs # {} => call.args \cap Registry[call.tool].needs # {}
    /\ "limit" \in call.args => call.limit >= 1
    /\ call.days <= MaxToolDateRangeDays

PlanIsValid(plan) ==
    /\ plan.confidence <= 100
    /\ IF plan.intent = "unsupported" THEN plan.calls = << >> /\ plan.reason
       ELSE /\ plan.intent \in Intents
            /\ Len(plan.calls) \in 1 .. MaxToolsPerPlan
            /\ \A i, j \in DOMAIN plan.calls : plan.calls[i].tool = plan.calls[j].tool => i = j
            /\ \A i \in DOMAIN plan.calls : CallIsValid(plan.calls[i], plan.intent)

Clamped(call) ==
    IF call.limit > Registry[call.tool].max THEN [call EXCEPT !.limit = Registry[call.tool].max] ELSE call

ValidatedPlan(plan) == [plan EXCEPT !.calls = [i \in DOMAIN @ |-> Clamped(@[i])]]

-----------------------------------------------------------------------------
(* Tool results and the fact context. *)

(* What one call may return: an error, or rows (at most as many as the call
   asks for); a single object that is not found is an empty answer. *)
FailedCall == [ok |-> FALSE, rows |-> {}]
Outcomes(call) ==
    {FailedCall} \cup
    {[ok |-> TRUE, rows |-> rows] : rows \in
        {r \in SUBSET EntityIds : call.limit > 0 => Cardinality(r) <= call.limit}}

(* ExecutePlan goes on after a failed call: every call has its result. *)
ExecutePlan(plan) ==
    {results \in [DOMAIN plan.calls -> UNION {Outcomes(plan.calls[i]) : i \in DOMAIN plan.calls}] :
        \A i \in DOMAIN plan.calls : results[i] \in Outcomes(plan.calls[i])}

(* sanitizeContextValue cuts every list to MaxItemsPerSection items and says so
   nowhere.  Of a list of rows as many are left; of an object's or a map's rows,
   which lie in several lists, no fewer. *)
Left(call, rows) ==
    {left \in SUBSET rows :
        IF Cardinality(rows) <= MaxItemsPerSection THEN left = rows
        ELSE IF Registry[call.tool].files = "rows" THEN Cardinality(left) = MaxItemsPerSection
        ELSE Cardinality(left) >= MaxItemsPerSection}

(* Of the results, what is left of the rows of each. *)
Sanitized(plan, results) ==
    {left \in [DOMAIN results -> SUBSET EntityIds] :
        \A i \in DOMAIN results : left[i] \in Left(plan.calls[i], results[i].rows)}

(* routeToolResult: an object counts as a fact even when it is empty. *)
FilesAFact(call, ok, left) ==
    CASE Registry[call.tool].files = "rows" -> left # {}
      [] Registry[call.tool].files = "map" -> ok
      [] Registry[call.tool].files = "object" -> TRUE

References(call, left) == IF Registry[call.tool].refs THEN left ELSE {}

(* ContextAssembler.Assemble, from the sanitized rows; a context of too many
   bytes is cut again, but never to nothing, and this time it is told. *)
Assemble(plan, results, left, tooLarge) ==
    LET called == DOMAIN plan.calls
        facts == \E i \in called : FilesAFact(plan.calls[i], results[i].ok, left[i])
        failed == \E i \in called : ~results[i].ok
    IN [intent |-> plan.intent,
        facts |-> facts,
        ids |-> UNION {References(plan.calls[i], left[i]) : i \in called},
        failed |-> failed,
        truncated |-> tooLarge,
        limitations |-> (IF failed THEN {"failed"} ELSE {})
                          \cup (IF ~facts THEN {"no factual data"} ELSE {})
                          \cup (IF tooLarge THEN {"truncated"} ELSE {})]

(* Ask adds the planner's reason to the limitations of an unsupported question. *)
WithReason(plan, context) ==
    IF plan.intent = "unsupported" THEN [context EXCEPT !.limitations = @ \cup {"unsupported"}] ELSE context

-----------------------------------------------------------------------------
(* AnswerValidator.Validate.  Confidence is 1 (low), 2 (medium) or 3 (high);
   "limits" says that the answer has limitations and a supporting fact that
   cites them, "cites" the ids in its fields, its facts and its text. *)

ReplyIsValid(reply, context) ==
    /\ reply.wellFormed
    /\ reply.cites \subseteq context.ids
    /\ ~context.facts => /\ context.intent = "unsupported" \/ reply.confidence = 1
                         /\ reply.limits
    /\ context.intent = "unsupported" => reply.limits

Downgraded(level) == IF level > 1 THEN level - 1 ELSE level

CriticalLimitations == {"no factual data", "truncated", "failed"}

Lowered(level, cause) == IF cause THEN Downgraded(level) ELSE level

\* Mutant: critical limitations are left to the counters that follow.
FinalConfidenceByCounters(reply, context) ==
    LET reflected == Lowered(reply.confidence, context.limitations # {} /\ ~reply.limits)
    IN IF "no factual data" \in context.limitations THEN 1
       ELSE Lowered(Lowered(reflected, context.truncated), context.failed)

FinalConfidence(reply, context) ==
    LET reflected == Lowered(reply.confidence, context.limitations # {} /\ ~reply.limits)
        critical == Lowered(reflected, context.limitations \cap CriticalLimitations # {})
    IN IF "no factual data" \in context.limitations THEN 1
       ELSE Lowered(Lowered(critical, context.truncated), context.failed)

-----------------------------------------------------------------------------
(* Rows. *)

QuestionMessage(q) == [chat |-> ask[q].chat, of |-> q, role |-> "user", cites |-> {}, confidence |-> 0]
AnswerMessage(q, reply, context) ==
    [chat |-> ask[q].chat, of |-> q, role |-> "assistant",
     cites |-> reply.cites, confidence |-> FinalConfidence(reply, context)]

CreateMessage(m) == message' = message \cup {m}
CreateTrace(q) == trace' = [trace EXCEPT ![q] = "running"]
CompleteTrace(q) == trace' = [trace EXCEPT ![q] = "completed"]
FailTrace(q) == trace' = [trace EXCEPT ![q] = "failed"]

(* "late": ghost, the session was already archived when the question came. *)
NewAsk == [stage |-> "idle", chat |-> "none", plan |-> "none", results |-> << >>,
           context |-> "none", reply |-> "none", lost |-> FALSE, late |-> FALSE]

UnderWay(q) == ask[q].stage \notin {"idle", "over"}

ChatInit ==
    /\ chat = [s \in Chats |-> "none"]
    /\ message = {}
    /\ trace = [q \in Questions |-> "none"]
    /\ ask = [q \in Questions |-> NewAsk]
    /\ feedback = {}

Goes(q, stage) == ask' = [ask EXCEPT ![q].stage = stage]

-----------------------------------------------------------------------------
CreateChat(s) == chat[s] = "none" /\ chat' = [chat EXCEPT ![s] = "active"]

\* Mutant: the status of the session is not looked at.
ResolveAnySession(q, s) ==
    /\ ask[q].stage = "idle"
    /\ ask' = [ask EXCEPT ![q].stage = "question", ![q].chat = s, ![q].late = (chat[s] = "archived")]
    /\ (CreateChat(s) \/ (chat[s] # "none" /\ UNCHANGED chat))
    /\ UNCHANGED <<message, trace, feedback>>

(* resolveSession: a question without a session opens one; a session that is
   named must exist and be active at this moment. *)
ResolveSession(q, s) ==
    /\ ask[q].stage = "idle"
    /\ ask' = [ask EXCEPT ![q].stage = "question", ![q].chat = s, ![q].late = (chat[s] = "archived")]
    /\ (CreateChat(s) \/ (chat[s] = "active" /\ UNCHANGED chat))
    /\ UNCHANGED <<message, trace, feedback>>

RefuseQuestion(q, s) ==
    /\ ask[q].stage = "idle" /\ chat[s] # "active"
    /\ ask' = [ask EXCEPT ![q].stage = "over", ![q].late = (chat[s] = "archived")]
    /\ UNCHANGED <<chat, message, trace, feedback>>

StoreQuestion(q) ==
    /\ ask[q].stage = "question"
    /\ CreateMessage(QuestionMessage(q))
    /\ Goes(q, "trace")
    /\ UNCHANGED <<chat, trace, feedback>>

OpenTrace(q) ==
    /\ ask[q].stage = "trace"
    /\ CreateTrace(q)
    /\ Goes(q, "plan")
    /\ UNCHANGED <<chat, message, feedback>>

(* The planner answers and the plan is valid; its calls are run next. *)
PlanTools(q, plan) ==
    /\ ask[q].stage = "plan" /\ PlanIsValid(plan)
    /\ ask' = [ask EXCEPT ![q].stage = "tools", ![q].plan = ValidatedPlan(plan)]
    /\ UNCHANGED <<chat, message, trace, feedback>>

RunTools(q, results, left, tooLarge) ==
    /\ ask[q].stage = "tools"
    /\ results \in ExecutePlan(ask[q].plan) /\ left \in Sanitized(ask[q].plan, results)
    /\ ask' = [ask EXCEPT ![q].stage = "answer", ![q].results = results,
                  ![q].context = WithReason(ask[q].plan, Assemble(ask[q].plan, results, left, tooLarge))]
    /\ UNCHANGED <<chat, message, trace, feedback>>

GenerateAnswer(q, reply) ==
    /\ ask[q].stage = "answer" /\ ReplyIsValid(reply, ask[q].context)
    /\ ask' = [ask EXCEPT ![q].stage = "store", ![q].reply = reply]
    /\ UNCHANGED <<chat, message, trace, feedback>>

StoreAnswer(q) ==
    /\ ask[q].stage = "store"
    /\ CreateMessage(AnswerMessage(q, ask[q].reply, ask[q].context))
    /\ Goes(q, "complete")
    /\ UNCHANGED <<chat, trace, feedback>>

CloseTrace(q) ==
    /\ ask[q].stage = "complete"
    /\ CompleteTrace(q)
    /\ Goes(q, "over")
    /\ UNCHANGED <<chat, message, feedback>>

\* Mutant: the failure path also covers the last statement.
AskFailsAtAnyStage(q) ==
    /\ ask[q].stage \in {"plan", "tools", "answer", "store", "complete"}
    /\ FailTrace(q)
    /\ Goes(q, "over")
    /\ UNCHANGED <<chat, message, feedback>>

(* An error up to the storing of the answer (a call of the model, an invalid
   plan or answer, the insert) marks the trace failed. *)
AskFails(q) ==
    /\ ask[q].stage \in {"plan", "tools", "answer", "store"}
    /\ FailTrace(q)
    /\ Goes(q, "over")
    /\ UNCHANGED <<chat, message, feedback>>

(* An error before the trace exists or in closing it, an update of the trace
   that fails too, or the end of the process: nothing more is written. *)
AskIsLost(q) ==
    /\ UnderWay(q)
    /\ ask' = [ask EXCEPT ![q].stage = "over", ![q].lost = TRUE]
    /\ UNCHANGED <<chat, message, trace, feedback>>

ArchiveSession(s) ==
    /\ chat[s] # "none"
    /\ chat' = [chat EXCEPT ![s] = "archived"]
    /\ UNCHANGED <<message, trace, ask, feedback>>

(* The maintenance update archives sessions nobody touched for a while. *)
ArchiveStaleActiveChatSessions ==
    /\ \E stale \in SUBSET {s \in Chats : chat[s] = "active"} :
          /\ stale # {}
          /\ chat' = [s \in Chats |-> IF s \in stale THEN "archived" ELSE chat[s]]
    /\ UNCHANGED <<message, trace, ask, feedback>>

(* Answers may be rated, whatever became of their session or their trace. *)
AddFeedback(m) ==
    /\ m.role = "assistant"
    /\ feedback' = feedback \cup {m}
    /\ UNCHANGED <<chat, message, trace, ask>>

AskNext(q) ==
    \/ \E s \in Chats : ResolveSession(q, s) \/ RefuseQuestion(q, s)
    \/ StoreQuestion(q) \/ OpenTrace(q)
    \/ \E p \in Plans : PlanTools(q, p)
    \/ /\ ask[q].stage = "tools"
       /\ \E r \in ExecutePlan(ask[q].plan), tooLarge \in BOOLEAN :
             \E left \in Sanitized(ask[q].plan, r) : RunTools(q, r, left, tooLarge)
    \/ \E r \in Replies : GenerateAnswer(q, r)
    \/ StoreAnswer(q) \/ CloseTrace(q) \/ AskFails(q) \/ AskIsLost(q)

ChatNext ==
    \/ \E q \in Questions : AskNext(q)
    \/ \E s \in Chats : ArchiveSession(s)
    \/ ArchiveStaleActiveChatSessions
    \/ \E m \in message : AddFeedback(m)

ChatSpec == ChatInit /\ [][ChatNext]_chatVars

-----------------------------------------------------------------------------
(* The history of a chat and its traces agree: a completed trace has its
   question and its answer, in one session; a failed one has no answer; a
   trace that stays running has lost its closing write, and only then may an
   answer be stored without a completed trace. *)
TraceTellsTheOutcome ==
    \A q \in Questions :
        LET Of(role) == {m \in message : m.of = q /\ m.role = role}
        IN /\ trace[q] = "completed" =>
                 \E u \in Of("user"), a \in Of("assistant") : u.chat = a.chat
           /\ trace[q] = "failed" => Of("user") # {} /\ Of("assistant") = {}
           /\ trace[q] = "running" /\ ~UnderWay(q) => ask[q].lost
           /\ Of("assistant") # {} /\ ~UnderWay(q) /\ ~ask[q].lost => trace[q] = "completed"
           /\ Cardinality(Of("user")) <= 1 /\ Cardinality(Of("assistant")) <= 1

(* A stored answer cites only what its own question's tools returned, and more
   than low confidence means that no tool failed, that the context was not cut
   to its size in bytes and that something was put into it: no reply of the
   model gets around the validator by claiming high confidence.  It does not
   mean that the model saw all the rows: lists cut to MaxItemsPerSection leave
   no trace the validator could see. *)
ConfidenceIsEarned ==
    \A m \in message : m.role = "assistant" =>
        LET plan == ask[m.of].plan
            results == ask[m.of].results
        IN /\ m.cites \subseteq UNION {results[i].rows : i \in DOMAIN results}
           /\ m.confidence > 1 =>
                 /\ \A i \in DOMAIN results : results[i].ok
                 /\ ~ask[m.of].context.truncated
                 /\ \E i \in DOMAIN results :
                       results[i].rows # {} \/ Registry[plan.calls[i].tool].files # "rows"

(* Archiving is final and closes a session to new questions: it changes no
   message, and what is still added comes from questions that found the
   session active, although nothing looks at its status again. *)
ArchiveIsFinal ==
    [][ /\ \A s \in Chats : chat[s] = "archived" => chat'[s] = "archived"
        /\ message \subseteq message'
        /\ \A m \in message' \ message : ~ask[m.of].late ]_chatVars

-----------------------------------------------------------------------------
(* The inductive invariant behind them. *)
Asked(q) == \E m \in message : m.of = q /\ m.role = "user"
Answered(q) == \E m \in message : m.of = q /\ m.role = "assistant"

AskStages == {"idle", "question", "trace", "plan", "tools", "answer", "store", "complete", "over"}
ChatTypes ==
    /\ DOMAIN chat = Chats
    /\ trace \in [Questions -> {"none", "running", "completed", "failed"}]
    /\ ask = [q \in Questions |->
                [stage |-> ask[q].stage, chat |-> ask[q].chat, plan |-> ask[q].plan,
                 results |-> ask[q].results, context |-> ask[q].context, reply |-> ask[q].reply,
                 lost |-> ask[q].lost, late |-> ask[q].late]]
    /\ \A q \in Questions :
          ask[q].stage \in AskStages /\ ask[q].lost \in BOOLEAN /\ ask[q].late \in BOOLEAN

(* What the answering model is told of the tools' results. *)
ContextTells(a) ==
    /\ a.context.failed \in BOOLEAN /\ a.context.truncated \in BOOLEAN
    /\ a.context.ids \subseteq UNION {a.results[i].rows : i \in DOMAIN a.results}
    /\ \A i \in DOMAIN a.results : ~a.results[i].ok =>
          a.context.failed /\ "failed" \in a.context.limitations
    /\ a.context.truncated => "truncated" \in a.context.limitations
    /\ "no factual data" \in a.context.limitations
         \/ \E i \in DOMAIN a.results :
               a.results[i].rows # {} \/ Registry[a.plan.calls[i].tool].files # "rows"

ReplyIsGrounded(a) ==
    ContextTells(a) /\ a.reply.confidence \in 1 .. 3 /\ a.reply.cites \subseteq a.context.ids

(* The rows of a question, stage by stage. *)
RowsFollowStage(q) ==
    /\ UnderWay(q) => ~ask[q].late
    /\ ask[q].stage \in {"idle", "question"} => ~Asked(q)
    /\ ask[q].stage \in {"trace", "plan", "tools", "answer", "store", "complete"} => Asked(q)
    /\ ask[q].stage \notin {"complete", "over"} => ~Answered(q)
    /\ ask[q].stage = "complete" => Answered(q)
    /\ ask[q].stage \in {"idle", "question", "trace"} => trace[q] = "none"
    /\ ask[q].stage \in {"plan", "tools", "answer", "store", "complete"} => trace[q] = "running"
    /\ ask[q].stage = "over" =>
          /\ trace[q] = "completed" => Asked(q) /\ Answered(q)
          /\ trace[q] = "failed" => Asked(q) /\ ~Answered(q)
          /\ trace[q] = "running" => ask[q].lost
          /\ Answered(q) /\ ~ask[q].lost => trace[q] = "completed"
    /\ ask[q].stage \in {"answer", "store"} => ContextTells(ask[q])
    /\ ask[q].stage = "store" \/ Answered(q) => ReplyIsGrounded(ask[q])

AnswerOf(q) == AnswerMessage(q, ask[q].reply, ask[q].context)
MessagesAreTheirQuestions ==
    \A m \in message :
        /\ m.of \in Questions
        /\ \/ m = QuestionMessage(m.of)
           \/ m = AnswerOf(m.of)

ChatInv ==
    /\ ChatTypes
    /\ \A q \in Questions : RowsFollowStage(q)
    /\ MessagesAreTheirQuestions
=============================================================================
