------------------------------- MODULE Alerts -------------------------------
(***************************************************************************)
(* The alert store and the alert engine of one seller account              *)
(* (src/backend/internal/alerts).  A run of the engine evaluates four rule *)
(* groups in a fixed order and stores every rule result by an upsert keyed *)
(* by its fingerprint; nothing wraps a run in a transaction, several runs  *)
(* may overlap (a post-sync task and a manual request), the user dismisses *)
(* and resolves alerts meanwhile, and any statement may fail.              *)
(*                                                                         *)
(* The metrics a run reads are a version number: Rebuild stands for the    *)
(* post-sync recalculation that replaces them, and Fires gives the rule    *)
(* results of each version.  The reads of one rule group are one step.     *)
(***************************************************************************)
EXTENDS Naturals, FiniteSets, Functions, FiniteSetsExt

CONSTANTS Fingerprints,   \* the fingerprints the rules can produce
          GroupOf,        \* the rule group of a fingerprint, 1 .. 4
          Fires,          \* Fires[v]: the fingerprints that fire on version v
          Emits,          \* how many results of one evaluation share a fingerprint
          AlertRuns,      \* the rows of alert_runs, numbered by their serial ids
          MaxData         \* bound: the metrics are rebuilt at most MaxData times

ASSUME AlertConstants ==
    /\ MaxData \in Nat
    /\ IsFiniteSet(Fingerprints)
    /\ GroupOf \in [Fingerprints -> 1 .. 4]
    /\ Fires \in [0 .. MaxData -> SUBSET Fingerprints]
    /\ Emits \in [Fingerprints -> Nat \ {0}]
    /\ AlertRuns \subseteq Nat

VARIABLES alert,      \* the alerts table: fingerprint -> row
          alertRun,   \* the alert_runs table: status and stored counts
          engine,     \* the goroutine that executes each run
          data,       \* version of the daily metrics
          decision    \* ghost: the body the user saw when he dismissed the alert

alertVars == <<alert, alertRun, engine, data, decision>>

Groups == 1 .. 4      \* sales, stock, advertising, price_economics: the order of the run
Finished == 6         \* the engine has returned (or its process died)

Versions == 0 .. MaxData
AlertStatus == {"none", "open", "resolved", "dismissed"}
AlertRow == [status : AlertStatus, body : Versions, evidence : Versions, closedAt : BOOLEAN]
NoAlert == [status |-> "none", body |-> 0, evidence |-> 0, closedAt |-> FALSE]
Exists(f) == alert[f].status # "none"

RunRow == [status : {"none", "running", "completed", "failed"}, counts : [Groups -> Nat]]
Engine == [stage : 0 .. Finished, loaded : BOOLEAN, read : [Groups -> Versions],
           done : [Fingerprints -> Nat], lost : BOOLEAN, overlapped : BOOLEAN]
IdleEngine == [stage |-> 0, loaded |-> FALSE, read |-> [g \in Groups |-> 0],
               done |-> [f \in Fingerprints |-> 0], lost |-> FALSE, overlapped |-> FALSE]

(* How an engine goes on: "together" tells that another one is active. *)
Starts(e, together) == [e EXCEPT !.stage = 1, !.overlapped = together]
Beside(e, together) == IF together THEN [e EXCEPT !.overlapped = TRUE] ELSE e
Loads(e, v) == [e EXCEPT !.loaded = TRUE, !.read = [@ EXCEPT ![e.stage] = v]]
Stores(e, f) == [e EXCEPT !.done = [e.done EXCEPT ![f] = e.done[f] + 1]]
Advances(e) == [e EXCEPT !.stage = @ + 1, !.loaded = FALSE]
Ends(e, lost) == [e EXCEPT !.stage = Finished, !.loaded = FALSE, !.lost = lost]
Goes(r, e) == engine' = [engine EXCEPT ![r] = e]

Active(r) == engine[r].stage \in 1 .. Finished - 1

(* Rule results with fingerprint f that the evaluation of its group returned. *)
Due(r, f) == IF f \in Fires[engine[r].read[GroupOf[f]]] THEN Emits[f] ELSE 0

(* UpsertedAlerts of a group: results, not distinct alerts. *)
UpsertedAlerts(done, g) == SumFunctionOnSet(done, {f \in Fingerprints : GroupOf[f] = g})
CountsOf(done) == [g \in Groups |-> UpsertedAlerts(done, g)]

-----------------------------------------------------------------------------
(* The statements of the store. *)

FreshAlert(v) == [status |-> "open", body |-> v, evidence |-> v, closedAt |-> FALSE]

\* Mutant: ON CONFLICT overwrites a dismissed alert like any other.
UpsertedAlertAnyStatus(row, v) == FreshAlert(v)

\* Mutant: a closed alert is reopened without its new title and message.
UpsertedAlertKeepsBody(row, v) ==
    CASE row.status = "dismissed" -> [row EXCEPT !.evidence = v]
      [] row.status = "resolved" -> [row EXCEPT !.status = "open", !.evidence = v, !.closedAt = FALSE]
      [] OTHER -> FreshAlert(v)

\* Mutant: a dismissed alert is left alone altogether.
UpsertedAlertIgnoresDismissed(row, v) == IF row.status = "dismissed" THEN row ELSE FreshAlert(v)

(* INSERT ... ON CONFLICT (seller_account_id, fingerprint) DO UPDATE. *)
UpsertedAlert(row, v) ==
    IF row.status = "dismissed" THEN [row EXCEPT !.evidence = v] ELSE FreshAlert(v)

UpsertAlert(f, v) == alert' = [alert EXCEPT ![f] = UpsertedAlert(@, v)]

ResolvedAlert(row) == [row EXCEPT !.status = "resolved", !.closedAt = TRUE]
DismissedAlert(row) == [row EXCEPT !.status = "dismissed", !.closedAt = TRUE]

CreatedRun(row) == [row EXCEPT !.status = "running"]
CompletedRun(row, counts) == [status |-> "completed", counts |-> counts]
FailedRun(row) == [row EXCEPT !.status = "failed"]

-----------------------------------------------------------------------------
AlertInit ==
    /\ alert = [f \in Fingerprints |-> NoAlert]
    /\ alertRun = [r \in AlertRuns |-> [status |-> "none", counts |-> [g \in Groups |-> 0]]]
    /\ engine = [r \in AlertRuns |-> IdleEngine]
    /\ data = 0
    /\ decision = [f \in Fingerprints |-> 0]

(* The post-sync recalculation replaces the metrics the rules read. *)
Rebuild ==
    /\ data < MaxData
    /\ data' = data + 1
    /\ UNCHANGED <<alert, alertRun, engine, decision>>

(* CreateRun; the ghost overlapped marks runs that were active together. *)
StartRun(r) ==
    /\ alertRun[r].status = "none"
    /\ \A q \in AlertRuns : q < r => alertRun[q].status # "none"
    /\ alertRun' = [alertRun EXCEPT ![r] = CreatedRun(@)]
    /\ engine' = [q \in AlertRuns |->
                    IF q = r THEN Starts(engine[q], \E p \in AlertRuns : Active(p))
                    ELSE Beside(engine[q], Active(q))]
    /\ UNCHANGED <<alert, data, decision>>

(* Run<Group>Alerts reads its metrics and evaluates its rules. *)
Evaluate(r) ==
    /\ engine[r].stage \in Groups
    /\ ~engine[r].loaded
    /\ Goes(r, Loads(engine[r], data))
    /\ UNCHANGED <<alert, alertRun, data, decision>>

(* One iteration of the upsert loop of the group. *)
StoreResult(r, f) ==
    /\ engine[r].loaded
    /\ GroupOf[f] = engine[r].stage
    /\ engine[r].done[f] < Due(r, f)
    /\ UpsertAlert(f, engine[r].read[GroupOf[f]])
    /\ Goes(r, Stores(engine[r], f))
    /\ UNCHANGED <<alertRun, data, decision>>

\* Mutant: a failed upsert ends the loop of its group instead of the run.
NextGroupAfterError(r) ==
    /\ engine[r].loaded
    /\ Goes(r, Advances(engine[r]))
    /\ UNCHANGED <<alert, alertRun, data, decision>>

\* Mutant: the loop over the groups does not stop after the last one.
NextGroupPastTheEnd(r) ==
    /\ engine[r].stage > 0
    /\ Goes(r, Advances(engine[r]))
    /\ UNCHANGED <<alert, alertRun, data, decision>>

(* The group's loop ends and the next group, or the completion, is reached. *)
NextGroup(r) ==
    /\ engine[r].loaded
    /\ \A f \in Fingerprints : GroupOf[f] = engine[r].stage => engine[r].done[f] = Due(r, f)
    /\ Goes(r, Advances(engine[r]))
    /\ UNCHANGED <<alert, alertRun, data, decision>>

\* Mutant: the error of a group is returned without FailRun.
GroupFailsSilently(r) ==
    /\ engine[r].stage \in Groups
    /\ Goes(r, Ends(engine[r], FALSE))
    /\ UNCHANGED <<alert, alertRun, data, decision>>

(* A read or an upsert of a group fails: failRunAndWrap marks the run failed,
   unless that update fails too, which is only reported to the caller. *)
GroupFails(r) ==
    /\ engine[r].stage \in Groups
    /\ \E marked \in BOOLEAN :
         /\ alertRun' = IF marked THEN [alertRun EXCEPT ![r] = FailedRun(@)] ELSE alertRun
         /\ Goes(r, Ends(engine[r], ~marked))
    /\ UNCHANGED <<alert, data, decision>>

(* CompleteRun with the counts of the four groups; its error is returned as is. *)
CompleteRun(r) ==
    /\ engine[r].stage = 5
    /\ \E stored \in BOOLEAN :
         /\ alertRun' = IF stored
                        THEN [alertRun EXCEPT ![r] = CompletedRun(@, CountsOf(engine[r].done))]
                        ELSE alertRun
         /\ Goes(r, Ends(engine[r], ~stored))
    /\ UNCHANGED <<alert, data, decision>>

(* The process that executes the run dies: nothing writes to the run again. *)
EngineDies(r) ==
    /\ Active(r)
    /\ Goes(r, Ends(engine[r], TRUE))
    /\ UNCHANGED <<alert, alertRun, data, decision>>

(* The user's actions: neither looks at the alert's status. *)
DismissAlert(f) ==
    /\ Exists(f)
    /\ alert' = [alert EXCEPT ![f] = DismissedAlert(@)]
    /\ decision' = [decision EXCEPT ![f] = alert[f].body]
    /\ UNCHANGED <<alertRun, engine, data>>

ResolveAlert(f) ==
    /\ Exists(f)
    /\ alert' = [alert EXCEPT ![f] = ResolvedAlert(@)]
    /\ UNCHANGED <<alertRun, engine, data, decision>>

AlertNext ==
    \/ Rebuild
    \/ \E r \in AlertRuns :
         \/ StartRun(r) \/ Evaluate(r) \/ NextGroup(r)
         \/ GroupFails(r) \/ CompleteRun(r) \/ EngineDies(r)
         \/ \E f \in Fingerprints : StoreResult(r, f)
    \/ \E f \in Fingerprints : DismissAlert(f) \/ ResolveAlert(f)

AlertSpec == AlertInit /\ [][AlertNext]_alertVars

-----------------------------------------------------------------------------
AlertTypeOK ==
    /\ alert \in [Fingerprints -> AlertRow]
    /\ alertRun \in [AlertRuns -> RunRow]
    /\ engine \in [AlertRuns -> Engine]
    /\ data \in Versions
    /\ decision \in [Fingerprints -> Versions]

(* A run reported completed has stored every result of the evaluation of each
   of its four groups, and its row counts exactly those results: no group
   that failed half way, and no result skipped, is ever counted. *)
CompletedRunStoredAll ==
    \A r \in AlertRuns : alertRun[r].status = "completed" =>
        /\ \A f \in Fingerprints : engine[r].done[f] = Due(r, f)
        /\ \A f \in Fingerprints : Due(r, f) > 0 => Exists(f)
        /\ alertRun[r].counts = CountsOf([f \in Fingerprints |-> Due(r, f)])

(* A run that no engine executes any more is still "running" only when its
   last write was lost: its failing or completing update failed or its process
   died.  Nothing else in the code leaves a run unfinished. *)
StuckRunLostItsLastWrite ==
    \A r \in AlertRuns :
        alertRun[r].status = "running" => Active(r) \/ engine[r].lost

(* What an open alert shows and the evidence stored with it come from one
   evaluation, even after a dismissal during which only the evidence was
   refreshed; a dismissed alert still shows what the user dismissed. *)
OpenAlertIsCoherent ==
    \A f \in Fingerprints :
        /\ alert[f].status = "open" => alert[f].body = alert[f].evidence /\ ~alert[f].closedAt
        /\ alert[f].status = "dismissed" => alert[f].body = decision[f] /\ alert[f].closedAt

(* A later, non-overlapping run never loses to older evidence: an alert that a
   completed run stored carries evidence at least as new as what that run
   read, unless another run was active at the same time. *)
EvidenceNotOlderThanRun ==
    \A r \in AlertRuns, f \in Fingerprints :
        alertRun[r].status = "completed" /\ ~engine[r].overlapped /\ engine[r].done[f] > 0
            => alert[f].evidence >= engine[r].read[GroupOf[f]]

(* No run takes a dismissal back: an alert leaves "dismissed" only when the
   user resolves it, and no run resolves or dismisses an alert. *)
RunsKeepDecisions ==
    [][\A f \in Fingerprints :
         /\ alert[f].status = "dismissed" => alert'[f].status \in {"dismissed", "resolved"}
         /\ engine' # engine => alert'[f].status \in {alert[f].status, "open"}]_alertVars

-----------------------------------------------------------------------------
(* The inductive invariant behind them. *)

(* Where an engine is, and what its run's row says of it. *)
RunFollowsEngine(r) ==
    /\ engine[r].loaded => engine[r].stage \in Groups
    /\ alertRun[r].status = "none" <=> engine[r].stage = 0
    /\ Active(r) => alertRun[r].status = "running"
    /\ alertRun[r].status = "running" => Active(r) \/ engine[r].lost
    /\ alertRun[r].status = "completed" =>
          /\ \A f \in Fingerprints : engine[r].done[f] = Due(r, f)
          /\ alertRun[r].counts = CountsOf(engine[r].done)

(* What an engine has stored: all of the groups before its own, none of those after. *)
ResultsInOrder(r) ==
    /\ \A g \in Groups : engine[r].read[g] <= data
    /\ \A f \in Fingerprints :
         /\ engine[r].done[f] > 0 => Exists(f)
         /\ engine[r].stage \in 1 .. 5 /\ GroupOf[f] < engine[r].stage => engine[r].done[f] = Due(r, f)
         /\ GroupOf[f] > engine[r].stage => engine[r].done[f] = 0
         /\ GroupOf[f] = engine[r].stage /\ ~engine[r].loaded => engine[r].done[f] = 0
         /\ GroupOf[f] = engine[r].stage => engine[r].done[f] <= Due(r, f)

(* Two engines that run together are both marked, and what an engine has loaded
   is not older than what an unmarked run that has ended had read. *)
OverlapsAreMarked ==
    \A q, r \in AlertRuns : q # r /\ Active(q) =>
        /\ Active(r) => engine[r].overlapped
        /\ engine[r].stage = Finished /\ ~engine[r].overlapped /\ engine[q].loaded =>
              engine[r].read[engine[q].stage] <= engine[q].read[engine[q].stage]

EvidenceIsAsNew ==
    \A r \in AlertRuns, f \in Fingerprints :
        engine[r].done[f] > 0 /\ ~engine[r].overlapped =>
            engine[r].read[GroupOf[f]] <= alert[f].evidence

AlertInv ==
    /\ AlertTypeOK
    /\ \A r \in AlertRuns : RunFollowsEngine(r) /\ ResultsInOrder(r)
    /\ OverlapsAreMarked
    /\ EvidenceIsAsNew
    /\ OpenAlertIsCoherent
=============================================================================
