--------------------------- MODULE Recommendations ---------------------------
(***************************************************************************)
(* Generation of recommendations from the open alerts of one account       *)
(* (src/backend/internal/recommendations), composed with the alert engine: *)
(* both work on the alert table.  A generation reads the open alerts and,  *)
(* by later statements, their counts; it asks a language model, validates  *)
(* its answer against that context, and stores the valid items one by one: *)
(* upsert, delete the old alert links, insert the new ones.  No statement  *)
(* shares a transaction with another one, and each can fail.               *)
(*                                                                         *)
(* An item of the model's answer is its fingerprint, which hashes its type,*)
(* entity, title and the ids of the alerts it cites: Cites is a function   *)
(* of the item, and an answer may hold one item several times.  The checks *)
(* of the validator that do not involve alerts look at the other fields and*)
(* are abstracted: any occurrence of an item may pass or fail them.        *)
(***************************************************************************)
EXTENDS Alerts, Sequences, SequencesExt

CONSTANTS Items,        \* items the language model can return
          AlertIds,     \* alert ids an item may cite, made up ones included
          Cites,        \* the supporting_alert_ids of an item
          OtherAlerts,  \* ids of alerts of other accounts
          MaxRecommendations,  \* of an answer, further ones are cut off
          Generations   \* rows of recommendation_runs

(* The rules of an account name its products and campaigns: finitely many.  An id
   that is neither an alert of the account nor one of another exists nowhere. *)
ASSUME RecommendationConstants ==
    /\ IsFiniteSet(Fingerprints)
    /\ Fingerprints \subseteq AlertIds
    /\ OtherAlerts \subseteq AlertIds \ Fingerprints
    /\ Cites \in [Items -> SUBSET AlertIds]
    /\ MaxRecommendations \in Nat \ {0}
    /\ Generations \subseteq Nat \ {0}

VARIABLES rec,        \* the recommendations table with its links
          generation  \* the recommendation_runs row and the request that executes it

recVars == <<rec, generation>>

RecStatus == {"none", "open", "accepted", "dismissed", "resolved"}
Writers == Generations \cup {0}
RecRow == [status : RecStatus, body : Writers, payload : Writers, links : SUBSET AlertIds]
NoRec == [status |-> "none", body |-> 0, payload |-> 0, links |-> {}]
Stages == {"idle", "alerts", "counts", "model", "save", "diagnose", "complete", "ended"}
NoItem == {}

Generation ==
    [status : {"none", "running", "completed", "failed"}, stage : Stages,
     top : SUBSET Fingerprints, openTotal : Nat,      \* the context
     valid : Seq(Items), upserted : Nat,              \* the save loop over the valid items
     current : SUBSET Items, cleared : BOOLEAN,       \* the item being linked, at most one,
     left : SUBSET AlertIds,                          \* and the ids it still has to link
     diagnostic : {"none", "failed", "completed"},    \* recommendation_run_diagnostics
     count : Nat, lost : BOOLEAN, refused : BOOLEAN]  \* ghosts: last write lost, link refused

NewGeneration ==
    [status |-> "none", stage |-> "idle", top |-> {}, openTotal |-> 0, valid |-> <<>>,
     upserted |-> 0, current |-> NoItem, cleared |-> FALSE, left |-> {}, diagnostic |-> "none",
     count |-> 0, lost |-> FALSE, refused |-> FALSE]

OpenAlerts == {f \in Fingerprints : alert[f].status = "open"}
Existing == {f \in Fingerprints : Exists(f)}
Saved(g) == {g.valid[k] : k \in 1 .. g.upserted}
Generating(r) == generation[r].stage \notin {"idle", "ended"}

-----------------------------------------------------------------------------
\* Mutant: only a dismissed row is protected.
UpsertedRecOverAccepted(row, r) ==
    IF row.status = "dismissed" THEN [row EXCEPT !.payload = r]
    ELSE [row EXCEPT !.status = "open", !.body = r, !.payload = r]

\* Mutant: a stored row gets a status the CHECK of the table does not know.
UpsertedRecAsUpdated(row, r) ==
    [row EXCEPT !.status = IF @ = "none" THEN "open" ELSE "updated", !.body = r, !.payload = r]

(* INSERT ... ON CONFLICT (seller_account_id, fingerprint) DO UPDATE: an
   accepted or dismissed row keeps its body and status, its payload and model
   columns are always replaced. *)
UpsertedRec(row, r) ==
    IF row.status \in {"accepted", "dismissed"}
    THEN [row EXCEPT !.payload = r]
    ELSE [row EXCEPT !.status = "open", !.body = r, !.payload = r]

ClearedLinks(row) == [row EXCEPT !.links = {}]
LinkedAlert(row, a) == [row EXCEPT !.links = @ \cup {a}]
AcceptedRec(row) == [row EXCEPT !.status = "accepted"]
DismissedRec(row) == [row EXCEPT !.status = "dismissed"]
ResolvedRec(row) == [row EXCEPT !.status = "resolved"]

\* Mutant: the cited ids are not looked up in the context.
AcceptsUnchecked(i, top) == top # {} => Cites[i] # {}

(* Validate: cited alerts are checked only against a context that has some. *)
Accepts(i, top) == top # {} => Cites[i] # {} /\ Cites[i] \subseteq top

(* countOpenAlertsInContext *)
OpenInContext(g) == IF g.openTotal > Cardinality(g.top) THEN g.openTotal ELSE Cardinality(g.top)

(* evaluateRunOutcome, of the numbers of valid and rejected items. *)
OutcomeFails(g, valid, rejected) ==
    \/ OpenInContext(g) > 0 /\ valid + rejected = 0
    \/ rejected > 0 /\ valid = 0

(* evaluateAfterSave *)
SaveOutcomeFails(g) == OpenInContext(g) > 0 /\ g.upserted = 0

\* Mutant: the run is marked failed before its diagnostic is stored.
FailAndWrapStatusFirst(g) ==
    {[g EXCEPT !.stage = "ended", !.diagnostic = "failed", !.status = "failed"],
     [g EXCEPT !.stage = "ended", !.status = "failed"],
     [g EXCEPT !.stage = "ended", !.lost = TRUE]}

(* failAndWrap: the diagnostic first; when it cannot be stored the run is not
   marked failed, and marking it may fail as well. *)
FailAndWrap(g) ==
    {[g EXCEPT !.stage = "ended", !.diagnostic = "failed", !.status = "failed"],
     [g EXCEPT !.stage = "ended", !.diagnostic = "failed", !.lost = TRUE],
     [g EXCEPT !.stage = "ended", !.lost = TRUE]}

Becomes(r, g) == generation' = [generation EXCEPT ![r] = g]

-----------------------------------------------------------------------------
RecInit ==
    /\ rec = [i \in Items |-> NoRec]
    /\ generation = [r \in Generations |-> NewGeneration]

(* GenerateForAccountWithType, up to CreateRun. *)
StartGeneration(r) ==
    /\ generation[r].stage = "idle"
    /\ \A q \in Generations : q < r => generation[q].stage # "idle"
    /\ Becomes(r, [generation[r] EXCEPT !.status = "running", !.stage = "alerts"])
    /\ UNCHANGED rec

(* BuildForAccount lists the open alerts; the limit of the list and the context
   budget drop alerts but never all of them ... *)
ReadOpenAlerts(r) ==
    /\ generation[r].stage = "alerts"
    /\ \E top \in SUBSET OpenAlerts :
         /\ top = {} <=> OpenAlerts = {}
         /\ Becomes(r, [generation[r] EXCEPT !.stage = "counts", !.top = top])
    /\ UNCHANGED rec

(* ... and counts them by a later statement. *)
ReadAlertCounts(r) ==
    /\ generation[r].stage = "counts"
    /\ Becomes(r, [generation[r] EXCEPT !.stage = "model", !.openTotal = Cardinality(OpenAlerts)])
    /\ UNCHANGED rec

(* The model answers, Validate and evaluateRunOutcome judge the answer: the valid
   items keep their order and their repetitions. *)
JudgeAnswer(r) ==
    /\ generation[r].stage = "model"
    /\ \E valid \in BoundedSeq(Items, MaxRecommendations) :
         \E rejected \in 0 .. MaxRecommendations - Len(valid) :
           /\ \A k \in DOMAIN valid : Accepts(valid[k], generation[r].top)
           /\ IF OutcomeFails(generation[r], Len(valid), rejected)
              THEN \E h \in FailAndWrap(generation[r]) : Becomes(r, h)
              ELSE Becomes(r, [generation[r] EXCEPT !.stage = "save", !.valid = valid])
    /\ UNCHANGED rec

(* UpsertRecommendation of the next valid item. *)
SaveItem(r, i) ==
    /\ generation[r].stage = "save"
    /\ generation[r].current = NoItem
    /\ generation[r].upserted < Len(generation[r].valid)
    /\ i = generation[r].valid[generation[r].upserted + 1]
    /\ rec' = [rec EXCEPT ![i] = UpsertedRec(@, r)]
    /\ Becomes(r, [generation[r] EXCEPT !.upserted = @ + 1, !.current = {i}, !.cleared = FALSE])

(* DeleteRecommendationAlertLinks *)
ClearLinks(r, i) ==
    /\ generation[r].stage = "save"
    /\ generation[r].current = {i}
    /\ ~generation[r].cleared
    /\ rec' = [rec EXCEPT ![i] = ClearedLinks(@)]
    /\ Becomes(r, [generation[r] EXCEPT !.cleared = TRUE, !.left = Cites[i]])

(* LinkRecommendationAlert of the next id the item cites, ON CONFLICT DO NOTHING:
   the foreign key refuses an alert that is not there, whosever alert it is. *)
LinkAlert(r, i, a) ==
    /\ generation[r].stage = "save"
    /\ generation[r].current = {i}
    /\ generation[r].cleared
    /\ a \in generation[r].left
    /\ IF a \in Existing \cup OtherAlerts
       THEN /\ rec' = [rec EXCEPT ![i] = LinkedAlert(@, a)]
            /\ Becomes(r, [generation[r] EXCEPT !.left = @ \ {a}])
       ELSE /\ \E h \in FailAndWrap([generation[r] EXCEPT !.refused = TRUE]) : Becomes(r, h)
            /\ UNCHANGED rec

\* Mutant: the first linked alert ends the loop.
ItemLinkedOnce(r, i) ==
    /\ generation[r].stage = "save"
    /\ generation[r].current = {i}
    /\ generation[r].cleared
    /\ generation[r].left # Cites[i]
    /\ Becomes(r, [generation[r] EXCEPT !.current = NoItem, !.cleared = FALSE, !.left = {}])
    /\ UNCHANGED rec

(* The loop over the item's ids ends: each was inserted once, and one that another
   generation deleted meanwhile is not inserted again. *)
ItemLinked(r, i) ==
    /\ generation[r].stage = "save"
    /\ generation[r].current = {i}
    /\ generation[r].cleared
    /\ generation[r].left = {}
    /\ Becomes(r, [generation[r] EXCEPT !.current = NoItem, !.cleared = FALSE])
    /\ UNCHANGED rec

\* Mutant: the outcome is judged while items remain to be stored.
AfterSaveEarly(r) ==
    /\ generation[r].stage = "save"
    /\ generation[r].current = NoItem
    /\ Becomes(r, [generation[r] EXCEPT !.stage = "diagnose"])
    /\ UNCHANGED rec

(* evaluateAfterSave, when every valid item is stored. *)
AfterSave(r) ==
    /\ generation[r].stage = "save"
    /\ generation[r].current = NoItem
    /\ generation[r].upserted = Len(generation[r].valid)
    /\ IF SaveOutcomeFails(generation[r])
       THEN \E h \in FailAndWrap(generation[r]) : Becomes(r, h)
       ELSE Becomes(r, [generation[r] EXCEPT !.stage = "diagnose"])
    /\ UNCHANGED rec

(* The diagnostic of a successful run; its error ends the request at once. *)
StoreDiagnostic(r) ==
    /\ generation[r].stage = "diagnose"
    /\ \/ Becomes(r, [generation[r] EXCEPT !.stage = "complete", !.diagnostic = "completed"])
       \/ Becomes(r, [generation[r] EXCEPT !.stage = "ended", !.lost = TRUE])
    /\ UNCHANGED rec

(* CompleteRun, whose error is only returned. *)
CompleteGeneration(r) ==
    /\ generation[r].stage = "complete"
    /\ \/ Becomes(r, [generation[r] EXCEPT !.stage = "ended", !.status = "completed",
                                           !.count = generation[r].upserted])
       \/ Becomes(r, [generation[r] EXCEPT !.stage = "ended", !.lost = TRUE])
    /\ UNCHANGED rec

(* A read, the model call or a statement of the save loop fails. *)
GenerationFails(r) ==
    /\ generation[r].stage \in {"alerts", "counts", "model", "save"}
    /\ \E h \in FailAndWrap(generation[r]) : Becomes(r, h)
    /\ UNCHANGED rec

(* The process that serves the request dies. *)
GenerationDies(r) ==
    /\ Generating(r)
    /\ Becomes(r, [generation[r] EXCEPT !.stage = "ended", !.lost = TRUE])
    /\ UNCHANGED rec

(* The user's actions: unconditional updates of an existing row. *)
Decide(i) ==
    /\ rec[i].status # "none"
    /\ \E decided \in {AcceptedRec(rec[i]), DismissedRec(rec[i]), ResolvedRec(rec[i])} :
         rec' = [rec EXCEPT ![i] = decided]
    /\ UNCHANGED generation

RecNext ==
    \/ \E r \in Generations :
         \/ StartGeneration(r) \/ ReadOpenAlerts(r) \/ ReadAlertCounts(r) \/ JudgeAnswer(r)
         \/ \E i \in Items : SaveItem(r, i) \/ ClearLinks(r, i) \/ ItemLinked(r, i)
         \/ \E i \in Items, a \in AlertIds : LinkAlert(r, i, a)
         \/ AfterSave(r) \/ StoreDiagnostic(r) \/ CompleteGeneration(r)
         \/ GenerationFails(r) \/ GenerationDies(r)
    \/ \E i \in Items : Decide(i)

(* Both on one alert table. *)
InsightsNext ==
    \/ AlertNext /\ UNCHANGED recVars
    \/ RecNext /\ UNCHANGED alertVars

InsightsSpec == AlertInit /\ RecInit /\ [][InsightsNext]_<<alertVars, recVars>>

-----------------------------------------------------------------------------
RecTypeOK ==
    /\ rec \in [Items -> RecRow]
    /\ generation \in [Generations -> Generation]

(* The links of a stored recommendation are those of its fingerprint, unless a
   generation is between its upsert and its last link, or was broken off there:
   replacing the links is not atomic, and what readers miss is what that
   generation still has to insert, however many save one recommendation at once.
   Every link leads to an alert; to another account's only by a generation that
   had no alerts in its context. *)
LinksTornOnlyMidSave ==
    \A i \in Items :
        /\ rec[i].links \subseteq Cites[i] \cap (Existing \cup OtherAlerts)
        /\ ~(rec[i].links \subseteq Existing) =>
              \E r \in Generations : generation[r].top = {} /\ i \in Saved(generation[r])
        /\ rec[i].status # "none" =>
              \/ rec[i].links = Cites[i]
              \/ \E r \in Generations :
                    /\ generation[r].current = {i}
                    /\ generation[r].cleared => Cites[i] \ generation[r].left \subseteq rec[i].links

(* A link is refused by the foreign key only for an answer judged against a
   context without alerts, the one case in which the validator does not check
   the cited ids; otherwise every stored item cites alerts that were open when
   the context was read. *)
RefusedOnlyWithoutContext ==
    \A r \in Generations :
        /\ generation[r].refused => generation[r].top = {}
        /\ generation[r].top # {} =>
              \A i \in Saved(generation[r]) : Cites[i] # {} /\ Cites[i] \subseteq generation[r].top

(* docs/stage-8-ai-output-validation.md:10,13,33: the validator cuts off items that
   cite alerts that do not exist before anything is stored. *)
StoredItemsCiteAlerts ==
    \A i \in Items : rec[i].status # "none" => Cites[i] \subseteq Existing \cup OtherAlerts

(* A generation reported completed has its diagnostic, has stored and linked every
   valid item of the answer, reports their number - an item the answer repeats
   counts each time, although it is one recommendation - and has something to say
   when the account had open alerts in either of the two reads of the context. *)
CompletedGenerationIsWhole ==
    \A r \in Generations : generation[r].status = "completed" =>
        /\ generation[r].diagnostic = "completed"
        /\ generation[r].count = Len(generation[r].valid) /\ generation[r].current = NoItem
        /\ \A k \in DOMAIN generation[r].valid : rec[generation[r].valid[k]].status # "none"
        /\ generation[r].top # {} \/ generation[r].openTotal > 0 => generation[r].count > 0

(* A generation that nobody executes is still "running" only if a write of its
   last stage was lost, and a failed one has said why: failAndWrap stores the
   diagnostic before the status. *)
StuckGenerationLostItsLastWrite ==
    \A r \in Generations :
        /\ generation[r].status = "running" => Generating(r) \/ generation[r].lost
        /\ generation[r].status = "failed" => generation[r].diagnostic = "failed"

(* Accepting or dismissing a recommendation is not undone by a later generation,
   which does not change the text the user decided on either. *)
GenerationsKeepDecisions ==
    [][\A i \in Items :
         rec[i].status \in {"accepted", "dismissed"} =>
            /\ rec'[i].body = rec[i].body
            /\ rec'[i].status # "open"
            /\ generation' # generation => rec'[i].status = rec[i].status]_<<rec, generation>>

-----------------------------------------------------------------------------
(* The inductive invariant behind them. *)
(* What the stage of a generation tells of its row and its diagnostic ... *)
RowFollowsStage(g) ==
    /\ g.status = "none" <=> g.stage = "idle"
    /\ g.stage \notin {"idle", "ended"} => g.status = "running"
    /\ g.stage = "ended" /\ g.status = "running" => g.lost
    /\ g.status = "failed" => g.diagnostic = "failed"
    /\ g.stage = "complete" \/ g.status = "completed" => g.diagnostic = "completed"

(* ... and of its items: judged against its context, saved one after another, and
   all of them saved and linked before its diagnostic says so. *)
ItemsFollowStage(g) ==
    /\ g.stage \in {"idle", "alerts", "counts", "model"} =>
          g.valid = <<>> /\ ~g.refused
    /\ g.stage \in {"idle", "alerts"} => g.top = {}
    /\ g.upserted <= Len(g.valid)
    /\ g.current \subseteq Saved(g) /\ \A i \in g.current : g.cleared => g.left \subseteq Cites[i]
    /\ g.top # {} => \A k \in DOMAIN g.valid : Cites[g.valid[k]] # {} /\ Cites[g.valid[k]] \subseteq g.top
    /\ g.refused => g.top = {}
    /\ g.stage \in {"diagnose", "complete"} \/ g.status = "completed" =>
          /\ g.upserted = Len(g.valid) /\ g.current = NoItem
          /\ g.top # {} \/ g.openTotal > 0 => g.upserted > 0
    /\ g.status = "completed" => g.count = g.upserted

(* The items a generation saved have their rows, which nobody deletes. *)
SavedItemsExist == \A r \in Generations : \A i \in Saved(generation[r]) : rec[i].status # "none"

RecInv ==
    /\ RecTypeOK
    /\ \A r \in Generations :
          /\ RowFollowsStage(generation[r]) /\ ItemsFollowStage(generation[r])
          /\ generation[r].top \subseteq Existing
    /\ SavedItemsExist
    /\ LinksTornOnlyMidSave
=============================================================================
