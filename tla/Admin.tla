------------------------------- MODULE Admin -------------------------------
(***************************************************************************)
(* What an administrator does to an account and which raw AI payloads he   *)
(* looks at (src/backend/internal/admin): each request opens a row of      *)
(* admin_action_logs, acts, and closes the row.  Every statement commits   *)
(* on its own; any of them can fail, or be applied without the answer      *)
(* arriving, and the process can stop between any two.                     *)
(***************************************************************************)
EXTENDS Naturals

CONSTANT AdminOps   \* bound: the requests of one behaviour

VARIABLE op

Views == {"recommendation_run", "recommendation", "chat_trace"}
NewOp == [kind |-> "none", input |-> "none", stage |-> "idle", log |-> "none",
          effect |-> "none", told |-> "nothing", lost |-> FALSE]

-----------------------------------------------------------------------------
(* What each handler lets through of the inputs: "unread" stands for a body,
   a path or a date it cannot read. *)
HandleRerunSync == {"valid", "unsupported"}
HandleResetCursor == {"valid"}
HandleRerunMetrics == {"valid", "invalid"}          \* a date range out of order or too long
HandleRerunAlerts == {"valid", "zero date"}         \* 0001-01-01 can be read
HandleRerunRecommendations == {"valid", "zero date"}
HandleUpdateBillingState == {"valid", "invalid"}    \* an unknown status, a negative amount
HandleRunDetail == {"valid"}
HandleRawRecommendation == {"valid"}
HandleTraceDetail == {"valid"}

LetThrough(kind) ==
    CASE kind = "rerun_sync" -> HandleRerunSync
      [] kind = "reset_cursor" -> HandleResetCursor
      [] kind = "rerun_metrics" -> HandleRerunMetrics
      [] kind = "rerun_alerts" -> HandleRerunAlerts
      [] kind = "rerun_recommendations" -> HandleRerunRecommendations
      [] kind = "update_billing_state" -> HandleUpdateBillingState
      [] kind = "recommendation_run" -> HandleRunDetail
      [] kind = "recommendation" -> HandleRawRecommendation
      [] kind = "chat_trace" -> HandleTraceDetail

Changes == {"rerun_sync", "reset_cursor", "rerun_metrics", "rerun_alerts",
            "rerun_recommendations", "update_billing_state"}

(* Refused by the service before it writes anything. *)
ResolveRerunMetricsDateRange(input) == input # "invalid"
ValidateBillingUpdateInput(input) == input # "invalid"
MayBeLogged(kind, input) ==
    /\ input \in LetThrough(kind)
    /\ kind = "rerun_metrics" => ResolveRerunMetricsDateRange(input)
    /\ kind = "update_billing_state" => ValidateBillingUpdateInput(input)

-----------------------------------------------------------------------------
(* What the action itself can leave behind, and whether it reports success:
   several writes can stop half way, and the last one can be applied without
   the answer arriving. *)
Did(effect, ok) == [effect |-> effect, ok |-> ok]
Succeeds == {Did("done", TRUE)}
OneWrite == Succeeds \cup {Did("none", FALSE), Did("done", FALSE)}
SeveralWrites == OneWrite \cup {Did("part", FALSE)}
RefusesInside == {Did("none", FALSE)}

RerunSync(input) ==                \* a job and its task
    IF input = "valid" THEN SeveralWrites ELSE RefusesInside
ResetCursor(input) == OneWrite
RerunMetrics(input) == SeveralWrites                \* the account's rows, then the products'
RerunAlerts(input) == IF input = "valid" THEN SeveralWrites ELSE RefusesInside
RerunRecommendations(input) == IF input = "valid" THEN SeveralWrites ELSE RefusesInside
UpsertBillingState(input) == OneWrite
Fetch(input) == Succeeds \cup {Did("none", FALSE)}

Acting(kind, input) ==
    CASE kind = "rerun_sync" -> RerunSync(input)
      [] kind = "reset_cursor" -> ResetCursor(input)
      [] kind = "rerun_metrics" -> RerunMetrics(input)
      [] kind = "rerun_alerts" -> RerunAlerts(input)
      [] kind = "rerun_recommendations" -> RerunRecommendations(input)
      [] kind = "update_billing_state" -> UpsertBillingState(input)
      [] kind \in Views -> Fetch(input)

CreateAdminActionLog(o) == [op[o] EXCEPT !.log = "running", !.stage = "acting"]
CompleteAdminActionLog(r) == [r EXCEPT !.log = "completed"]
FailAdminActionLog(r) == [r EXCEPT !.log = "failed"]

Over(r, told) == [r EXCEPT !.stage = "over", !.told = told]
Lost(r) == [r EXCEPT !.lost = TRUE]

-----------------------------------------------------------------------------
AdminInit == op = [o \in AdminOps |-> NewOp]

AtStage(o, stage) == op[o].stage = stage
Becomes(o, r) == op' = [op EXCEPT ![o] = r]

(* For a view the row it is about is looked up before anything is logged. *)
Submit(o) ==
    /\ AtStage(o, "idle")
    /\ \E kind \in Changes \cup Views,
          input \in {"valid", "invalid", "unsupported", "zero date", "unread"} :
         LET r == [op[o] EXCEPT !.kind = kind, !.input = input, !.stage = "opening"] IN
         \/ MayBeLogged(kind, input) /\ Becomes(o, r)
         \/ (kind \in Views \/ ~MayBeLogged(kind, input)) /\ Becomes(o, Over(r, "error"))

OpenLog(o) ==
    /\ AtStage(o, "opening")
    /\ \/ Becomes(o, CreateAdminActionLog(o))
       \/ Becomes(o, Over(op[o], "error"))
       \/ Becomes(o, Lost(Over(CreateAdminActionLog(o), "error")))   \* applied, not acknowledged

Act(o) ==
    /\ AtStage(o, "acting")
    /\ \E d \in Acting(op[o].kind, op[o].input) :
         Becomes(o, [op[o] EXCEPT !.effect = d.effect,
                                  !.stage = IF d.ok THEN "closing" ELSE "failing"])

FailLog(o) ==
    /\ AtStage(o, "failing")
    /\ \/ Becomes(o, Over(FailAdminActionLog(op[o]), "error"))
       \/ Becomes(o, Lost(Over(op[o], "error")))

\* Mutant: a view shows what it fetched before its row is closed.
CompleteLogAfterShowing(o) ==
    /\ AtStage(o, "closing")
    /\ \E r \in {CompleteAdminActionLog(op[o]), op[o]} : Becomes(o, Over(r, "ok"))

(* A change that was made stays made when its row cannot be closed; a view
   whose row cannot be closed shows nothing, and the row is marked failed if
   that write is applied. *)
CompleteLog(o) ==
    /\ AtStage(o, "closing")
    /\ LET closed == CompleteAdminActionLog(op[o])
           Unacknowledged(r) == IF op[o].kind \in Views THEN [r EXCEPT !.stage = "failing"]
                                ELSE Lost(Over(r, "error"))
       IN \/ Becomes(o, IF op[o].kind = "update_billing_state"
                          THEN [closed EXCEPT !.stage = "rereading"] ELSE Over(closed, "ok"))
          \/ \E r \in {closed, op[o]} : Becomes(o, Unacknowledged(r))

(* UpdateBillingState answers with the row as it is read again. *)
ReadBack(o) ==
    /\ AtStage(o, "rereading")
    /\ \E told \in {"ok", "error"} : Becomes(o, Over(op[o], told))

AdminDies(o) ==
    /\ ~AtStage(o, "idle") /\ ~AtStage(o, "over")
    /\ Becomes(o, Lost(Over(op[o], "nothing")))

AdminNext == \E o \in AdminOps :
    \/ Submit(o) \/ OpenLog(o) \/ Act(o) \/ FailLog(o) \/ CompleteLog(o) \/ ReadBack(o)
    \/ AdminDies(o)

AdminSpec == AdminInit /\ [][AdminNext]_op

-----------------------------------------------------------------------------
(* The audit trail never says more than what happened: nothing is changed and
   no payload is read without a row; a row is completed only when the whole
   effect is there; who is answered with success, or shown a payload, has a
   completed row; a row is closed one way or the other when the request ends,
   unless one of its own writes was lost or the process stopped. *)
AuditTellsTheOutcome ==
    \A o \in AdminOps :
      /\ op[o].effect # "none" => op[o].log # "none"
      /\ op[o].log = "completed" => op[o].effect = "done"
      /\ op[o].told = "ok" => op[o].log = "completed"
      /\ op[o].stage = "over" /\ op[o].log = "running" => op[o].lost
=============================================================================
