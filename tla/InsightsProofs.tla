--------------------------- MODULE InsightsProofs ---------------------------
(***************************************************************************)
(* For any alert rules, any number of overlapping alert runs and any       *)
(* decisions of the user: what the alert engine stores, counts and leaves  *)
(* behind.  And for any answers of the language model and any number of    *)
(* generations that run together with the engine: what a generation        *)
(* stores, links and reports.                                              *)
(***************************************************************************)
EXTENDS Recommendations, FiniteSetTheorems, Sums, TLAPS

-----------------------------------------------------------------------------
(* The alert engine. *)

\* What the statements do to a row of the alerts table.
LEMMA UpsertedRow ==
  ASSUME NEW row \in AlertRow, NEW v \in Versions
  PROVE  /\ UpsertedAlert(row, v) \in AlertRow
         /\ UpsertedAlert(row, v).evidence = v
         /\ UpsertedAlert(row, v).status \in {"open", "dismissed"}
         /\ UpsertedAlert(row, v).status = "dismissed" =>
              /\ row.status = "dismissed" /\ UpsertedAlert(row, v).body = row.body
              /\ UpsertedAlert(row, v).closedAt = row.closedAt
         /\ UpsertedAlert(row, v).status = "open" =>
              UpsertedAlert(row, v).body = v /\ ~UpsertedAlert(row, v).closedAt
         /\ row.status = "dismissed" => UpsertedAlert(row, v).status = "dismissed"
  BY DEF UpsertedAlert, FreshAlert, AlertRow, AlertStatus

LEMMA ClosedRow ==
  ASSUME NEW row \in AlertRow
  PROVE  /\ ResolvedAlert(row) \in AlertRow /\ DismissedAlert(row) \in AlertRow
         /\ ResolvedAlert(row).status = "resolved" /\ DismissedAlert(row).status = "dismissed"
         /\ ResolvedAlert(row).evidence = row.evidence /\ DismissedAlert(row).evidence = row.evidence
         /\ DismissedAlert(row).body = row.body /\ DismissedAlert(row).closedAt
  BY DEF ResolvedAlert, DismissedAlert, AlertRow, AlertStatus

LEMMA DataTypes ==
  ASSUME AlertTypeOK, NEW r \in AlertRuns
  PROVE  /\ engine[r] \in Engine
         /\ engine[r].stage \in 0 .. 6
         /\ engine[r].read \in [Groups -> Versions]
         /\ engine[r].done \in [Fingerprints -> Nat]
         /\ data \in Nat /\ MaxData \in Nat
         /\ \A f \in Fingerprints : GroupOf[f] \in Groups /\ Due(r, f) \in Nat
  BY AlertConstants DEF AlertTypeOK, Engine, Finished, Versions, Due, Groups

\* The counts of a run are natural numbers.
LEMMA CountsAreNatural ==
  ASSUME NEW done \in [Fingerprints -> Nat]
  PROVE  CountsOf(done) \in [Groups -> Nat]
<1> SUFFICES ASSUME NEW g \in Groups PROVE UpsertedAlerts(done, g) \in Nat
  BY DEF CountsOf
<1> DEFINE S == {f \in Fingerprints : GroupOf[f] = g}
<1>1. IsFiniteSet(S) /\ \A f \in S : done[f] \in Nat
  BY AlertConstants, FS_Subset
<1> QED BY <1>1, SumIsNatural DEF UpsertedAlerts

\* What the statements do to a row of alert_runs.
LEMMA RunRows ==
  ASSUME NEW row \in RunRow, NEW counts \in [Groups -> Nat]
  PROVE  /\ CreatedRun(row) \in RunRow /\ CreatedRun(row).status = "running"
         /\ FailedRun(row) \in RunRow /\ FailedRun(row).status = "failed"
         /\ CompletedRun(row, counts) \in RunRow /\ CompletedRun(row, counts).status = "completed"
         /\ CompletedRun(row, counts).counts = counts
  BY DEF CreatedRun, FailedRun, CompletedRun, RunRow

\* What a step makes of its engine.
LEMMA StartsEngine ==
  ASSUME NEW e \in Engine, NEW b \in BOOLEAN
  PROVE  /\ Starts(e, b) \in Engine
         /\ Starts(e, b).stage = 1 /\ (Starts(e, b).overlapped <=> b)
         /\ (Starts(e, b).loaded <=> e.loaded) /\ Starts(e, b).read = e.read
         /\ Starts(e, b).done = e.done /\ (Starts(e, b).lost <=> e.lost)
<1>1. 1 \in 0 .. Finished
  BY DEF Finished
<1>2. QED
  BY <1>1 DEF Starts, Engine

LEMMA BesideEngine ==
  ASSUME NEW e \in Engine, NEW b \in BOOLEAN
  PROVE  /\ Beside(e, b) \in Engine
         /\ Beside(e, b).overlapped <=> e.overlapped \/ b
         /\ Beside(e, b).stage = e.stage /\ (Beside(e, b).loaded <=> e.loaded)
         /\ Beside(e, b).read = e.read /\ Beside(e, b).done = e.done /\ (Beside(e, b).lost <=> e.lost)
  BY DEF Beside, Engine

LEMMA StoresEngine ==
  ASSUME NEW e \in Engine, NEW f \in Fingerprints
  PROVE  /\ Stores(e, f) \in Engine
         /\ Stores(e, f).done = [e.done EXCEPT ![f] = e.done[f] + 1]
         /\ Stores(e, f).stage = e.stage /\ (Stores(e, f).loaded <=> e.loaded)
         /\ Stores(e, f).read = e.read /\ (Stores(e, f).overlapped <=> e.overlapped)
         /\ (Stores(e, f).lost <=> e.lost)
<1>1. [e.done EXCEPT ![f] = e.done[f] + 1] \in [Fingerprints -> Nat]
  BY DEF Engine
<1>2. QED
  BY <1>1 DEF Stores, Engine

LEMMA AdvancesEngine ==
  ASSUME NEW e \in Engine, e.stage \in 0 .. 5
  PROVE  /\ Advances(e) \in Engine
         /\ Advances(e).stage = e.stage + 1 /\ ~Advances(e).loaded
         /\ Advances(e).read = e.read /\ Advances(e).done = e.done
         /\ (Advances(e).overlapped <=> e.overlapped) /\ (Advances(e).lost <=> e.lost)
<1>1. e.stage + 1 \in 0 .. Finished
  BY DEF Finished
<1>2. QED
  BY <1>1 DEF Advances, Engine

LEMMA LoadsEngine ==
  ASSUME NEW e \in Engine, NEW v \in Versions, e.stage \in Groups
  PROVE  /\ Loads(e, v) \in Engine
         /\ Loads(e, v).loaded /\ Loads(e, v).read = [e.read EXCEPT ![e.stage] = v]
         /\ Loads(e, v).stage = e.stage /\ Loads(e, v).done = e.done
         /\ (Loads(e, v).overlapped <=> e.overlapped) /\ (Loads(e, v).lost <=> e.lost)
<1>1. [e.read EXCEPT ![e.stage] = v] \in [Groups -> Versions]
  BY DEF Engine
<1>2. QED
  BY <1>1 DEF Loads, Engine

LEMMA EndsEngine ==
  ASSUME NEW e \in Engine, NEW b \in BOOLEAN
  PROVE  /\ Ends(e, b) \in Engine
         /\ Ends(e, b).stage = Finished /\ ~Ends(e, b).loaded /\ (Ends(e, b).lost <=> b)
         /\ Ends(e, b).read = e.read /\ Ends(e, b).done = e.done
         /\ (Ends(e, b).overlapped <=> e.overlapped)
<1>1. Finished \in 0 .. Finished
  BY DEF Finished
<1>2. QED
  BY <1>1 DEF Ends, Engine

\* Nothing is stored yet.
LEMMA InitAlertInv == AlertInit => AlertInv
<1> SUFFICES ASSUME AlertInit PROVE AlertInv
  OBVIOUS
<1> USE AlertConstants DEF AlertInit
<1>1. AlertTypeOK
  BY DEF AlertTypeOK, RunRow, AlertRow, AlertStatus, NoAlert, Engine, IdleEngine, Versions, Groups, Finished
<1>2. \A r \in AlertRuns : RunFollowsEngine(r)
  BY DEF RunFollowsEngine, Active, IdleEngine, Finished
<1>3. \A r \in AlertRuns : ResultsInOrder(r)
  BY DEF ResultsInOrder, IdleEngine, Groups, Due
<1>4. OverlapsAreMarked /\ EvidenceIsAsNew
  BY DEF OverlapsAreMarked, EvidenceIsAsNew, IdleEngine, Active, Finished
<1>5. OpenAlertIsCoherent
  BY DEF OpenAlertIsCoherent, NoAlert
<1> QED BY <1>1, <1>2, <1>3, <1>4, <1>5 DEF AlertInv

-----------------------------------------------------------------------------
(* The steps that leave the engines alone. *)

LEMMA RebuildInv ==
  ASSUME AlertInv, Rebuild
  PROVE  AlertInv'
<1> USE AlertConstants DEF Rebuild, AlertInv
<1>1. AlertTypeOK'
  BY DEF AlertTypeOK, Versions
<1>2. \A r \in AlertRuns : RunFollowsEngine(r)' /\ ResultsInOrder(r)'
  <2> TAKE r \in AlertRuns
  <2>1. RunFollowsEngine(r)'
    BY DEF RunFollowsEngine, Active, Due
  <2>2. \A g \in Groups : engine[r].read[g] <= data'
    <3>1. /\ data \in Nat /\ data' = data + 1 /\ engine[r].read \in [Groups -> Versions]
          /\ \A g \in Groups : engine[r].read[g] <= data
      BY DataTypes DEF ResultsInOrder
    <3> QED BY <3>1 DEF Versions
  <2>3. \A f \in Fingerprints : Due(r, f)' = Due(r, f) /\ (Exists(f)' <=> Exists(f))
    BY DEF Due, Exists
  <2> QED BY <2>1, <2>2, <2>3 DEF ResultsInOrder
<1>3. OverlapsAreMarked' /\ EvidenceIsAsNew' /\ OpenAlertIsCoherent'
  BY DEF OverlapsAreMarked, Active, EvidenceIsAsNew, OpenAlertIsCoherent
<1> QED BY <1>1, <1>2, <1>3

LEMMA UserInv ==
  ASSUME AlertInv, NEW f \in Fingerprints, DismissAlert(f) \/ ResolveAlert(f)
  PROVE  AlertInv'
<1> USE DEF AlertInv
<1>0. alert[f] \in AlertRow /\ UNCHANGED <<alertRun, engine, data>>
  BY DEF AlertTypeOK, DismissAlert, ResolveAlert
<1> DEFINE row == alert'[f]
<1>a. /\ row \in AlertRow /\ row.evidence = alert[f].evidence /\ row.status \in {"resolved", "dismissed"}
      /\ row.status = "dismissed" => decision'[f] = row.body /\ row.closedAt
      /\ \A g \in Fingerprints : g # f => alert'[g] = alert[g] /\ decision'[g] = decision[g]
      /\ alert' = [g \in Fingerprints |-> alert'[g]] /\ decision' \in [Fingerprints -> Versions]
  <2>1. CASE DismissAlert(f)
    <3>1. alert[f].body \in Versions
      BY <1>0 DEF AlertRow
    <3> QED BY <1>0, <2>1, <3>1, ClosedRow DEF AlertTypeOK, DismissAlert
  <2>2. CASE ResolveAlert(f)
    BY <1>0, <2>2, ClosedRow DEF AlertTypeOK, ResolveAlert
  <2> QED BY <2>1, <2>2
<1> HIDE DEF row
<1>1. AlertTypeOK'
  <2>1. alert' \in [Fingerprints -> AlertRow]
    BY <1>a DEF AlertTypeOK, row
  <2> QED BY <1>0, <1>a, <2>1 DEF AlertTypeOK
<1>2. \A g \in Fingerprints : (Exists(g) => Exists(g)') /\ alert'[g].evidence = alert[g].evidence
  BY <1>0, <1>a DEF Exists, row
<1>3. \A r \in AlertRuns : RunFollowsEngine(r)'
  BY <1>0 DEF RunFollowsEngine, Active, Due
<1>4. \A r \in AlertRuns : ResultsInOrder(r)'
  BY <1>0, <1>2 DEF ResultsInOrder, Due
<1>5. OverlapsAreMarked' /\ EvidenceIsAsNew'
  BY <1>0, <1>2 DEF OverlapsAreMarked, Active, EvidenceIsAsNew
<1>6. OpenAlertIsCoherent'
  BY <1>a DEF OpenAlertIsCoherent, row
<1> QED BY <1>1, <1>3, <1>4, <1>5, <1>6

-----------------------------------------------------------------------------
(* The steps of one engine.  The others' parts of the invariant are kept. *)

LEMMA OthersKeep ==
  ASSUME AlertInv, NEW r \in AlertRuns, NEW q \in AlertRuns, q # r,
         alertRun'[q] = alertRun[q], engine'[q].stage = engine[q].stage,
         engine'[q].loaded <=> engine[q].loaded, engine'[q].read = engine[q].read,
         engine'[q].done = engine[q].done, engine'[q].lost <=> engine[q].lost,
         data' = data, \A f \in Fingerprints : Exists(f) => Exists(f)'
  PROVE  RunFollowsEngine(q)' /\ ResultsInOrder(q)'
<1>1. RunFollowsEngine(q)'
  BY DEF AlertInv, RunFollowsEngine, Active, Due, UpsertedAlerts
<1>2. ResultsInOrder(q)'
  BY DEF AlertInv, ResultsInOrder, Due
<1> QED BY <1>1, <1>2


LEMMA StartRunInv ==
  ASSUME AlertInv, NEW r \in AlertRuns, StartRun(r)
  PROVE  AlertInv'
<1> DEFINE together == \E p \in AlertRuns : Active(p)
<1>0. /\ AlertTypeOK /\ RunFollowsEngine(r) /\ ResultsInOrder(r)
      /\ engine[r].stage = 0 /\ ~engine[r].loaded
      /\ \A f \in Fingerprints : engine[r].done[f] = 0
  <2>1. AlertTypeOK /\ RunFollowsEngine(r) /\ ResultsInOrder(r)
    BY DEF AlertInv
  <2>2. engine[r].stage = 0 /\ ~engine[r].loaded
    BY <2>1 DEF StartRun, RunFollowsEngine, Groups
  <2>3. \A f \in Fingerprints : GroupOf[f] > 0
    BY AlertConstants
  <2> QED BY <2>1, <2>2, <2>3 DEF ResultsInOrder
<1>1. together \in BOOLEAN /\ \A q \in AlertRuns : engine[q] \in Engine /\ Active(q) \in BOOLEAN
  BY <1>0 DEF AlertTypeOK, Active
<1>2. /\ engine' = [q \in AlertRuns |-> IF q = r THEN Starts(engine[q], together)
                                        ELSE Beside(engine[q], Active(q))]
      /\ alertRun' = [alertRun EXCEPT ![r] = CreatedRun(@)]
      /\ alert' = alert /\ data' = data /\ decision' = decision
  BY DEF StartRun
<1> HIDE DEF together
<1>3. engine'[r] = Starts(engine[r], together)
  BY <1>2
<1>4. /\ engine'[r] \in Engine /\ engine'[r].stage = 1 /\ ~engine'[r].loaded
      /\ engine'[r].read = engine[r].read /\ engine'[r].done = engine[r].done
      /\ engine'[r].overlapped <=> together
  BY <1>0, <1>1, <1>3, StartsEngine
<1>5. ASSUME NEW q \in AlertRuns, q # r
      PROVE  /\ engine'[q] \in Engine
             /\ engine'[q].overlapped <=> engine[q].overlapped \/ Active(q)
             /\ engine'[q].stage = engine[q].stage /\ (engine'[q].loaded <=> engine[q].loaded)
             /\ engine'[q].read = engine[q].read /\ engine'[q].done = engine[q].done
             /\ (engine'[q].lost <=> engine[q].lost)
  <2>1. engine'[q] = Beside(engine[q], Active(q))
    BY <1>2, <1>5
  <2> QED BY <1>1, <2>1, BesideEngine
<1>6. /\ alertRun' \in [AlertRuns -> RunRow]
      /\ alertRun'[r].status = "running"
      /\ \A q \in AlertRuns : q # r => alertRun'[q] = alertRun[q]
  <2>1. alertRun[r] \in RunRow /\ [h \in Groups |-> 0] \in [Groups -> Nat]
    BY <1>0 DEF AlertTypeOK
  <2>2. CreatedRun(alertRun[r]) \in RunRow /\ CreatedRun(alertRun[r]).status = "running"
    BY <2>1, RunRows
  <2> QED BY <1>0, <1>2, <2>2 DEF AlertTypeOK
<1>7. AlertTypeOK'
  <2>1. engine' \in [AlertRuns -> Engine]
    <3>1. \A q \in AlertRuns : engine'[q] \in Engine
      BY <1>4, <1>5
    <3> QED BY <1>2, <3>1
  <2> QED BY <1>0, <1>2, <1>6, <2>1 DEF AlertTypeOK
<1>8. RunFollowsEngine(r)'
  BY <1>4, <1>6 DEF RunFollowsEngine, Active, Finished
<1>9. ResultsInOrder(r)'
  <2>1. \A f \in Fingerprints : Due(r, f)' = Due(r, f) /\ Due(r, f) \in Nat
    BY <1>0, <1>4, DataTypes DEF Due
  <2>2. \A f \in Fingerprints : GroupOf[f] \in 1 .. 4
    BY AlertConstants
  <2> QED BY <1>0, <1>2, <1>4, <2>1, <2>2 DEF ResultsInOrder
<1>10. ASSUME NEW q \in AlertRuns, q # r
       PROVE  RunFollowsEngine(q)' /\ ResultsInOrder(q)'
  BY <1>2, <1>5, <1>6, <1>10, OthersKeep DEF Exists
<1>11. OverlapsAreMarked'
  <2> SUFFICES ASSUME NEW p \in AlertRuns, NEW q \in AlertRuns, p # q, Active(p)'
               PROVE  /\ Active(q)' => engine'[q].overlapped
                      /\ engine'[q].stage = Finished /\ ~engine'[q].overlapped /\ engine'[p].loaded =>
                           engine'[q].read[engine'[p].stage] <= engine'[p].read[engine'[p].stage]
    BY DEF OverlapsAreMarked
  <2>1. CASE p = r
    BY <2>1, <1>4, <1>5 DEF Active
  <2>2. CASE p # r /\ q = r
    <3>1. Active(p)
      BY <2>2, <1>5 DEF Active
    <3> QED BY <2>2, <3>1, <1>4 DEF together, Finished
  <2>3. CASE p # r /\ q # r
    <3>1. Active(p) /\ (Active(q)' <=> Active(q))
      BY <2>3, <1>5 DEF Active
    <3> QED BY <2>3, <3>1, <1>5 DEF AlertInv, OverlapsAreMarked
  <2> QED BY <2>1, <2>2, <2>3
<1>12. EvidenceIsAsNew'
  <2> SUFFICES ASSUME NEW q \in AlertRuns, NEW f \in Fingerprints,
                      engine'[q].done[f] > 0, ~engine'[q].overlapped
               PROVE  engine'[q].read[GroupOf[f]] <= alert'[f].evidence
    BY DEF EvidenceIsAsNew
  <2>1. CASE q = r
    BY <2>1, <1>0, <1>4
  <2>2. CASE q # r
    BY <2>2, <1>2, <1>5 DEF AlertInv, EvidenceIsAsNew
  <2> QED BY <2>1, <2>2
<1>13. OpenAlertIsCoherent'
  BY <1>2 DEF AlertInv, OpenAlertIsCoherent
<1> QED BY <1>7, <1>8, <1>9, <1>10, <1>11, <1>12, <1>13 DEF AlertInv

\* A step of run r that makes e of its engine: what holds of the others stays.
LEMMA EngineStep ==
  ASSUME AlertInv, NEW r \in AlertRuns, NEW e \in Engine, Goes(r, e), data' = data,
         decision' = decision, alert' \in [Fingerprints -> AlertRow],
         alertRun' \in [AlertRuns -> RunRow],
         \A q \in AlertRuns : q # r => alertRun'[q] = alertRun[q],
         \A f \in Fingerprints : Exists(f) => Exists(f)'
  PROVE  /\ AlertTypeOK' /\ engine'[r] = e
         /\ \A q \in AlertRuns : q # r =>
              engine'[q] = engine[q] /\ RunFollowsEngine(q)' /\ ResultsInOrder(q)'
<1>1. /\ engine'[r] = e /\ engine' \in [AlertRuns -> Engine]
      /\ \A q \in AlertRuns : q # r => engine'[q] = engine[q]
  BY DEF AlertInv, AlertTypeOK, Goes
<1>2. AlertTypeOK'
  BY <1>1 DEF AlertInv, AlertTypeOK, Versions
<1>3. ASSUME NEW q \in AlertRuns, q # r
      PROVE  RunFollowsEngine(q)' /\ ResultsInOrder(q)'
  BY <1>1, <1>3, OthersKeep
<1> QED BY <1>1, <1>2, <1>3

\* A step of an active engine that reads nothing keeps what overlaps tell.
LEMMA OverlapStep ==
  ASSUME AlertInv, NEW r \in AlertRuns, NEW e \in Engine, Goes(r, e), Active(r),
         e.overlapped <=> engine[r].overlapped, e.read = engine[r].read,
         e.loaded => engine[r].loaded /\ e.stage = engine[r].stage
  PROVE  OverlapsAreMarked'
<1>1. /\ engine'[r] = e
      /\ \A q \in AlertRuns : q # r => engine'[q] = engine[q]
  BY DEF AlertInv, AlertTypeOK, Goes
<1> SUFFICES ASSUME NEW p \in AlertRuns, NEW q \in AlertRuns, p # q, Active(p)'
             PROVE  /\ Active(q)' => engine'[q].overlapped
                    /\ engine'[q].stage = Finished /\ ~engine'[q].overlapped /\ engine'[p].loaded =>
                         engine'[q].read[engine'[p].stage] <= engine'[p].read[engine'[p].stage]
  BY DEF OverlapsAreMarked
<1>2. CASE p = r
  BY <1>1, <1>2 DEF AlertInv, OverlapsAreMarked, Active
<1>3. CASE q = r
  <2>1. Active(p) /\ engine[r].overlapped
    BY <1>1, <1>3 DEF AlertInv, OverlapsAreMarked, Active
  <2> QED BY <1>1, <1>3, <2>1
<1>4. CASE p # r /\ q # r
  BY <1>1, <1>4 DEF AlertInv, OverlapsAreMarked, Active
<1> QED BY <1>2, <1>3, <1>4

LEMMA EvaluateInv ==
  ASSUME AlertInv, NEW r \in AlertRuns, Evaluate(r)
  PROVE  AlertInv'
<1> DEFINE g == engine[r].stage
           e == Loads(engine[r], data)
<1>0. /\ AlertTypeOK /\ RunFollowsEngine(r) /\ ResultsInOrder(r)
      /\ g \in Groups /\ ~engine[r].loaded /\ Active(r) /\ Goes(r, e)
      /\ alert' = alert /\ alertRun' = alertRun /\ data' = data /\ decision' = decision
  BY DEF AlertInv, Evaluate, Groups, Active, Finished
<1>1. /\ e \in Engine /\ e.loaded /\ e.read = [engine[r].read EXCEPT ![g] = data]
      /\ e.stage = g /\ e.done = engine[r].done
      /\ (e.overlapped <=> engine[r].overlapped) /\ (e.lost <=> engine[r].lost)
  BY <1>0, LoadsEngine DEF AlertTypeOK
<1> HIDE DEF e
<1>2. /\ AlertTypeOK' /\ engine'[r] = e
      /\ \A q \in AlertRuns : q # r =>
           engine'[q] = engine[q] /\ RunFollowsEngine(q)' /\ ResultsInOrder(q)'
  BY <1>0, <1>1, EngineStep DEF AlertTypeOK, Exists
<1>3. /\ e.read[g] = data /\ \A h \in Groups : h # g => e.read[h] = engine[r].read[h]
      /\ data \in Nat /\ \A h \in Groups : engine[r].read[h] \in Nat /\ engine[r].read[h] <= data
  BY <1>0, <1>1, DataTypes DEF ResultsInOrder, Versions
<1>4. \A f \in Fingerprints : GroupOf[f] # g => Due(r, f)' = Due(r, f)
  BY <1>0, <1>2, <1>3, DataTypes DEF Due
<1>5. \A f \in Fingerprints : GroupOf[f] \in Nat /\ Due(r, f)' \in Nat
  BY <1>2, AlertConstants DEF Due
<1>6. RunFollowsEngine(r)'
  BY <1>0, <1>1, <1>2 DEF RunFollowsEngine, Active
<1>7. ResultsInOrder(r)'
  <2>1. \A h \in Groups : engine'[r].read[h] <= data'
    BY <1>0, <1>2, <1>3
  <2>2. g \in Nat
    BY <1>0 DEF Groups
  <2> QED BY <1>0, <1>1, <1>2, <1>4, <1>5, <2>1, <2>2 DEF ResultsInOrder, Exists
<1>8. OverlapsAreMarked'
  <2> SUFFICES ASSUME NEW p \in AlertRuns, NEW q \in AlertRuns, p # q, Active(p)'
               PROVE  /\ Active(q)' => engine'[q].overlapped
                      /\ engine'[q].stage = Finished /\ ~engine'[q].overlapped /\ engine'[p].loaded =>
                           engine'[q].read[engine'[p].stage] <= engine'[p].read[engine'[p].stage]
    BY DEF OverlapsAreMarked
  <2>1. CASE p = r
    <3>1. engine'[q].read[g] <= data
      BY <1>0, <1>2, <2>1 DEF AlertInv, ResultsInOrder
    <3>2. Active(q)' => engine'[q].overlapped
      BY <1>0, <1>2, <2>1 DEF AlertInv, OverlapsAreMarked, Active
    <3> QED BY <1>1, <1>2, <1>3, <2>1, <3>1, <3>2
  <2>2. CASE p # r
    BY <1>0, <1>1, <1>2, <2>2 DEF AlertInv, OverlapsAreMarked, Active, Groups, Finished
  <2> QED BY <2>1, <2>2
<1>9. EvidenceIsAsNew'
  <2> SUFFICES ASSUME NEW q \in AlertRuns, NEW f \in Fingerprints,
                      engine'[q].done[f] > 0, ~engine'[q].overlapped
               PROVE  engine'[q].read[GroupOf[f]] <= alert'[f].evidence
    BY DEF EvidenceIsAsNew
  <2>1. CASE q = r
    <3>1. GroupOf[f] # g /\ GroupOf[f] \in Groups
      BY <1>0, <1>1, <1>2, <2>1, DataTypes DEF ResultsInOrder
    <3> QED BY <1>0, <1>1, <1>2, <1>3, <2>1, <3>1 DEF AlertInv, EvidenceIsAsNew
  <2>2. CASE q # r
    BY <1>0, <1>2, <2>2 DEF AlertInv, EvidenceIsAsNew
  <2> QED BY <2>1, <2>2
<1>10. OpenAlertIsCoherent'
  BY <1>0 DEF AlertInv, OpenAlertIsCoherent
<1>11. \A q \in AlertRuns : RunFollowsEngine(q)' /\ ResultsInOrder(q)'
  BY <1>2, <1>6, <1>7
<1> QED BY <1>2, <1>8, <1>9, <1>10, <1>11 DEF AlertInv

LEMMA StoreResultInv ==
  ASSUME AlertInv, NEW r \in AlertRuns, NEW f \in Fingerprints, StoreResult(r, f)
  PROVE  AlertInv'
<1> DEFINE g == engine[r].stage
           e == Stores(engine[r], f)
           row == alert'[f]
<1>0. /\ AlertTypeOK /\ RunFollowsEngine(r) /\ ResultsInOrder(r)
      /\ GroupOf[f] = g /\ g \in Groups /\ engine[r].loaded /\ Active(r) /\ Goes(r, e)
      /\ engine[r].done[f] < Due(r, f)
      /\ UpsertAlert(f, engine[r].read[g])
      /\ alertRun' = alertRun /\ data' = data /\ decision' = decision
  BY DEF AlertInv, StoreResult, RunFollowsEngine, Groups, Active, Finished
<1>1. /\ e \in Engine /\ e.done = [engine[r].done EXCEPT ![f] = engine[r].done[f] + 1]
      /\ e.stage = g /\ e.loaded /\ e.read = engine[r].read
      /\ (e.overlapped <=> engine[r].overlapped) /\ (e.lost <=> engine[r].lost)
  BY <1>0, StoresEngine DEF AlertTypeOK
<1>2. /\ engine[r].read[g] \in Versions /\ alert[f] \in AlertRow
      /\ row = UpsertedAlert(alert[f], engine[r].read[g])
      /\ \A h \in Fingerprints : h # f => alert'[h] = alert[h]
      /\ alert' = [h \in Fingerprints |-> alert'[h]]
  BY <1>0, DataTypes DEF AlertTypeOK, UpsertAlert
<1>3. /\ row \in AlertRow /\ row.evidence = engine[r].read[g]
      /\ row.status \in {"open", "dismissed"}
      /\ row.status = "dismissed" =>
           alert[f].status = "dismissed" /\ row.body = alert[f].body /\ row.closedAt = alert[f].closedAt
      /\ row.status = "open" => row.body = row.evidence /\ ~row.closedAt
  BY <1>2, UpsertedRow
<1> HIDE DEF e, row
<1>4. /\ Exists(f)' /\ \A h \in Fingerprints : Exists(h) => Exists(h)'
  BY <1>2, <1>3 DEF Exists, row
<1>5. alert' \in [Fingerprints -> AlertRow]
  BY <1>0, <1>2, <1>3 DEF AlertTypeOK, row
<1>6. /\ AlertTypeOK' /\ engine'[r] = e
      /\ \A q \in AlertRuns : q # r =>
           engine'[q] = engine[q] /\ RunFollowsEngine(q)' /\ ResultsInOrder(q)'
  BY <1>0, <1>1, <1>4, <1>5, EngineStep DEF AlertTypeOK
<1>7. /\ e.done[f] = engine[r].done[f] + 1 /\ engine[r].done[f] \in Nat
      /\ \A h \in Fingerprints : h # f => e.done[h] = engine[r].done[h]
      /\ \A h \in Fingerprints : Due(r, h)' = Due(r, h) /\ Due(r, h) \in Nat
  BY <1>0, <1>1, <1>6, DataTypes DEF Due
<1>8. RunFollowsEngine(r)'
  BY <1>0, <1>1, <1>6 DEF RunFollowsEngine, Active, Groups, Finished
<1>9. ResultsInOrder(r)'
  <2>1. \A h \in Groups : engine'[r].read[h] <= data'
    BY <1>0, <1>1, <1>6 DEF ResultsInOrder
  <2>2. g \in Nat /\ \A h \in Fingerprints : GroupOf[h] \in Nat
    <3>1. \A h \in Fingerprints : GroupOf[h] \in 1 .. 4
      BY AlertConstants
    <3> QED BY <1>0, <3>1 DEF Groups
  <2>3. ASSUME NEW h \in Fingerprints, h # f
        PROVE  /\ engine'[r].done[h] > 0 => Exists(h)'
               /\ engine'[r].stage \in 1 .. 5 /\ GroupOf[h] < engine'[r].stage =>
                    engine'[r].done[h] = Due(r, h)'
               /\ GroupOf[h] > engine'[r].stage => engine'[r].done[h] = 0
               /\ GroupOf[h] = engine'[r].stage /\ ~engine'[r].loaded => engine'[r].done[h] = 0
               /\ GroupOf[h] = engine'[r].stage => engine'[r].done[h] <= Due(r, h)'
    <3>1. /\ engine'[r].done[h] = engine[r].done[h] /\ Due(r, h)' = Due(r, h)
          /\ engine'[r].stage = engine[r].stage /\ engine'[r].loaded /\ engine[r].loaded
          /\ Exists(h) => Exists(h)'
      BY <1>0, <1>1, <1>4, <1>6, <1>7, <2>3
    <3>2. ResultsInOrder(r)
      BY <1>0
    <3> QED BY <3>1, <3>2 DEF ResultsInOrder
  <2>4. /\ engine'[r].done[f] > 0 => Exists(f)'
        /\ engine'[r].done[f] <= Due(r, f)'
        /\ GroupOf[f] = engine'[r].stage /\ engine'[r].loaded
    BY <1>0, <1>1, <1>4, <1>6, <1>7
  <2> QED BY <2>1, <2>2, <2>3, <2>4 DEF ResultsInOrder
<1>10. OverlapsAreMarked'
  BY <1>0, <1>1, OverlapStep
<1>11. EvidenceIsAsNew'
  <2> SUFFICES ASSUME NEW q \in AlertRuns, NEW h \in Fingerprints,
                      engine'[q].done[h] > 0, ~engine'[q].overlapped
               PROVE  engine'[q].read[GroupOf[h]] <= alert'[h].evidence
    BY DEF EvidenceIsAsNew
  <2>1. CASE h # f
    <3>1. alert'[h] = alert[h]
      BY <1>2, <2>1
    <3>2. /\ engine'[q].done[h] = engine[q].done[h]
          /\ engine'[q].read = engine[q].read
          /\ engine'[q].overlapped <=> engine[q].overlapped
      <4>1. CASE q = r
        BY <1>1, <1>6, <1>7, <2>1, <4>1
      <4>2. CASE q # r
        BY <1>6, <4>2
      <4> QED BY <4>1, <4>2
    <3> QED BY <3>1, <3>2 DEF AlertInv, EvidenceIsAsNew
  <2>2. CASE h = f /\ q = r
    <3>1. alert'[f].evidence = engine[r].read[g] /\ engine[r].read[g] \in Nat
      BY <1>2, <1>3 DEF row, Versions
    <3> QED BY <1>0, <1>1, <1>6, <2>2, <3>1
  <2>3. CASE h = f /\ q # r
    <3>1. engine[q].done[f] > 0 /\ ~engine[q].overlapped /\ ~Active(q)
      BY <1>0, <1>6, <2>3 DEF AlertInv, OverlapsAreMarked
    <3>2. engine[q].stage # 0
      <4>1. GroupOf[f] > 0
        BY AlertConstants
      <4> QED BY <3>1, <4>1 DEF AlertInv, ResultsInOrder
    <3>3. engine[q].stage = Finished
      BY <3>1, <3>2, DataTypes DEF AlertInv, Active, Finished
    <3>4. engine[q].read[g] <= engine[r].read[g]
      BY <1>0, <2>3, <3>1, <3>3 DEF AlertInv, OverlapsAreMarked
    <3> QED BY <1>0, <1>3, <1>6, <2>3, <3>4 DEF row
  <2> QED BY <2>1, <2>2, <2>3
<1>12. OpenAlertIsCoherent'
  <2>1. /\ alert'[f].status = "open" => alert'[f].body = alert'[f].evidence /\ ~alert'[f].closedAt
        /\ alert'[f].status = "dismissed" => alert'[f].body = decision'[f] /\ alert'[f].closedAt
    BY <1>0, <1>3 DEF AlertInv, OpenAlertIsCoherent, row
  <2> QED BY <1>0, <1>2, <2>1 DEF AlertInv, OpenAlertIsCoherent
<1>13. \A q \in AlertRuns : RunFollowsEngine(q)' /\ ResultsInOrder(q)'
  BY <1>6, <1>8, <1>9
<1> QED BY <1>6, <1>10, <1>11, <1>12, <1>13 DEF AlertInv

LEMMA NextGroupInv ==
  ASSUME AlertInv, NEW r \in AlertRuns, NextGroup(r)
  PROVE  AlertInv'
<1> DEFINE g == engine[r].stage
           e == Advances(engine[r])
<1>0. /\ AlertTypeOK /\ RunFollowsEngine(r) /\ ResultsInOrder(r)
      /\ g \in Groups /\ engine[r].loaded /\ Active(r) /\ Goes(r, e)
      /\ \A f \in Fingerprints : GroupOf[f] = g => engine[r].done[f] = Due(r, f)
      /\ alert' = alert /\ alertRun' = alertRun /\ data' = data /\ decision' = decision
  BY DEF AlertInv, NextGroup, RunFollowsEngine, Groups, Active, Finished
<1>1. /\ e \in Engine /\ e.done = engine[r].done /\ e.stage = g + 1 /\ ~e.loaded
      /\ e.read = engine[r].read
      /\ (e.overlapped <=> engine[r].overlapped) /\ (e.lost <=> engine[r].lost)
  BY <1>0, AdvancesEngine DEF AlertTypeOK, Groups
<1> HIDE DEF e
<1>2. /\ AlertTypeOK' /\ engine'[r] = e
      /\ \A q \in AlertRuns : q # r =>
           engine'[q] = engine[q] /\ RunFollowsEngine(q)' /\ ResultsInOrder(q)'
  BY <1>0, <1>1, EngineStep DEF AlertTypeOK, Exists
<1>3. /\ \A f \in Fingerprints : Due(r, f)' = Due(r, f) /\ Due(r, f) \in Nat
      /\ \A f \in Fingerprints : GroupOf[f] \in Nat
  BY <1>0, <1>1, <1>2, DataTypes DEF Due, Groups
<1>4. RunFollowsEngine(r)'
  BY <1>0, <1>1, <1>2, <1>3 DEF RunFollowsEngine, Active, Groups, Finished
<1>5. ResultsInOrder(r)'
  <2>1. /\ \A h \in Groups : engine'[r].read[h] <= data'
        /\ engine'[r].stage = g + 1 /\ engine'[r].done = engine[r].done
    BY <1>0, <1>1, <1>2 DEF ResultsInOrder
  <2>2. ASSUME NEW f \in Fingerprints
        PROVE  /\ engine'[r].done[f] > 0 => Exists(f)'
               /\ GroupOf[f] < g + 1 => engine'[r].done[f] = Due(r, f)'
               /\ GroupOf[f] >= g + 1 => engine'[r].done[f] = 0
    <3>1. CASE GroupOf[f] < g
      BY <1>0, <1>3, <2>1, <3>1 DEF ResultsInOrder, Groups, Exists
    <3>2. CASE GroupOf[f] = g
      BY <1>0, <1>3, <2>1, <3>2 DEF ResultsInOrder, Groups, Exists
    <3>3. CASE GroupOf[f] > g
      BY <1>0, <1>3, <2>1, <3>3 DEF ResultsInOrder, Groups, Exists
    <3> QED BY <1>0, <1>3, <3>1, <3>2, <3>3 DEF Groups
  <2>3. g \in Nat
    BY <1>0 DEF Groups
  <2> QED BY <1>3, <2>1, <2>2, <2>3 DEF ResultsInOrder
<1>6. OverlapsAreMarked'
  BY <1>0, <1>1, OverlapStep
<1>7. EvidenceIsAsNew'
  BY <1>0, <1>1, <1>2 DEF AlertInv, EvidenceIsAsNew
<1>8. OpenAlertIsCoherent'
  BY <1>0 DEF AlertInv, OpenAlertIsCoherent
<1>9. \A q \in AlertRuns : RunFollowsEngine(q)' /\ ResultsInOrder(q)'
  BY <1>2, <1>4, <1>5
<1> QED BY <1>2, <1>6, <1>7, <1>8, <1>9 DEF AlertInv

\* The engine ends: what it has stored stays, and its row is closed or lost.
LEMMA EndsInv ==
  ASSUME AlertInv, NEW r \in AlertRuns, NEW lost \in BOOLEAN,
         Active(r), Goes(r, Ends(engine[r], lost)),
         alert' = alert, data' = data, decision' = decision,
         alertRun' \in [AlertRuns -> RunRow],
         \A q \in AlertRuns : q # r => alertRun'[q] = alertRun[q],
         \/ lost /\ alertRun'[r] = alertRun[r]
         \/ ~lost /\ alertRun'[r].status = "failed"
         \/ /\ ~lost /\ alertRun'[r].status = "completed" /\ engine[r].stage = 5
            /\ alertRun'[r].counts = CountsOf(engine[r].done)
  PROVE  AlertInv'
<1> DEFINE e == Ends(engine[r], lost)
<1>0. /\ AlertTypeOK /\ RunFollowsEngine(r) /\ ResultsInOrder(r)
      /\ alertRun[r].status = "running" /\ engine[r].stage \in 1 .. 5
  BY DEF AlertInv, RunFollowsEngine, Active, Finished
<1>1. /\ e \in Engine /\ e.done = engine[r].done /\ e.stage = Finished /\ ~e.loaded
      /\ e.read = engine[r].read
      /\ (e.overlapped <=> engine[r].overlapped) /\ (e.lost <=> lost)
  BY <1>0, EndsEngine DEF AlertTypeOK
<1> HIDE DEF e
<1>a. Goes(r, e)
  BY DEF e
<1>2. /\ AlertTypeOK' /\ engine'[r] = e
      /\ \A q \in AlertRuns : q # r =>
           engine'[q] = engine[q] /\ RunFollowsEngine(q)' /\ ResultsInOrder(q)'
  BY <1>0, <1>1, <1>a, EngineStep DEF AlertTypeOK, Exists
<1>3. /\ \A f \in Fingerprints : Due(r, f)' = Due(r, f) /\ Due(r, f) \in Nat
      /\ \A f \in Fingerprints : GroupOf[f] \in 1 .. 4
  BY <1>0, <1>1, <1>2, DataTypes DEF Due, Groups
<1>4. RunFollowsEngine(r)'
  <2>1. ~engine'[r].loaded /\ engine'[r].stage = Finished /\ ~Active(r)' /\ (engine'[r].lost <=> lost)
        /\ engine'[r].done = engine[r].done
    BY <1>1, <1>2 DEF Active, Finished
  <2>2. CASE lost /\ alertRun'[r] = alertRun[r]
    BY <1>0, <2>1, <2>2 DEF RunFollowsEngine, Finished
  <2>3. CASE ~lost /\ alertRun'[r].status = "failed"
    BY <2>1, <2>3 DEF RunFollowsEngine, Finished
  <2>4. CASE /\ ~lost /\ alertRun'[r].status = "completed" /\ engine[r].stage = 5
             /\ alertRun'[r].counts = CountsOf(engine[r].done)
    <3>1. \A f \in Fingerprints : engine[r].done[f] = Due(r, f)
      BY <1>0, <1>3, <2>4 DEF ResultsInOrder
    <3>2. alertRun'[r].counts = CountsOf(engine'[r].done)
      BY <2>1, <2>4
    <3> QED BY <1>3, <2>1, <2>4, <3>1, <3>2 DEF RunFollowsEngine, Finished
  <2> QED BY <2>2, <2>3, <2>4
<1>5. ResultsInOrder(r)'
  <2>1. /\ \A h \in Groups : engine'[r].read[h] <= data'
        /\ engine'[r].stage = 6 /\ engine'[r].done = engine[r].done
    BY <1>0, <1>1, <1>2 DEF ResultsInOrder, Finished
  <2> QED BY <1>0, <1>3, <2>1 DEF ResultsInOrder, Exists
<1>6. OverlapsAreMarked'
  BY <1>0, <1>1, <1>a, OverlapStep
<1>7. EvidenceIsAsNew'
  BY <1>0, <1>1, <1>2 DEF AlertInv, EvidenceIsAsNew
<1>8. OpenAlertIsCoherent'
  BY <1>0 DEF AlertInv, OpenAlertIsCoherent
<1>9. \A q \in AlertRuns : RunFollowsEngine(q)' /\ ResultsInOrder(q)'
  BY <1>2, <1>4, <1>5
<1> QED BY <1>2, <1>6, <1>7, <1>8, <1>9 DEF AlertInv

LEMMA RunEndsInv ==
  ASSUME AlertInv, NEW r \in AlertRuns, GroupFails(r) \/ CompleteRun(r) \/ EngineDies(r)
  PROVE  AlertInv'
<1>0. AlertTypeOK /\ Active(r)
  <2>1. AlertTypeOK
    BY DEF AlertInv
  <2>2. CASE GroupFails(r)
    BY <2>1, <2>2 DEF GroupFails, Active, Groups, Finished
  <2>3. CASE CompleteRun(r)
    BY <2>1, <2>3 DEF CompleteRun, Active, Finished
  <2> QED BY <2>1, <2>2, <2>3 DEF EngineDies
<1>1. CASE GroupFails(r)
  <2>1. PICK marked \in BOOLEAN :
          /\ alertRun' = IF marked THEN [alertRun EXCEPT ![r] = FailedRun(@)] ELSE alertRun
          /\ Goes(r, Ends(engine[r], ~marked))
    BY <1>1 DEF GroupFails
  <2>2. /\ alertRun' \in [AlertRuns -> RunRow]
        /\ \A q \in AlertRuns : q # r => alertRun'[q] = alertRun[q]
        /\ marked => alertRun'[r].status = "failed"
        /\ ~marked => alertRun'[r] = alertRun[r]
    <3>1. alertRun[r] \in RunRow /\ [h \in Groups |-> 0] \in [Groups -> Nat]
      BY <1>0 DEF AlertTypeOK
    <3>2. FailedRun(alertRun[r]) \in RunRow /\ FailedRun(alertRun[r]).status = "failed"
      BY <3>1, RunRows
    <3> QED BY <1>0, <2>1, <3>2 DEF AlertTypeOK
  <2> QED BY <1>0, <1>1, <2>1, <2>2, EndsInv DEF GroupFails
<1>2. CASE CompleteRun(r)
  <2>1. PICK stored \in BOOLEAN :
          /\ alertRun' = IF stored
                         THEN [alertRun EXCEPT ![r] = CompletedRun(@, CountsOf(engine[r].done))]
                         ELSE alertRun
          /\ Goes(r, Ends(engine[r], ~stored))
    BY <1>2 DEF CompleteRun
  <2>2. /\ alertRun' \in [AlertRuns -> RunRow]
        /\ \A q \in AlertRuns : q # r => alertRun'[q] = alertRun[q]
        /\ stored => alertRun'[r].status = "completed"
                     /\ alertRun'[r].counts = CountsOf(engine[r].done)
        /\ ~stored => alertRun'[r] = alertRun[r]
    <3> DEFINE counts == CountsOf(engine[r].done)
    <3>1. alertRun[r] \in RunRow /\ counts \in [Groups -> Nat]
      BY <1>0, DataTypes, CountsAreNatural DEF AlertTypeOK
    <3> HIDE DEF counts
    <3>2. /\ CompletedRun(alertRun[r], counts) \in RunRow
          /\ CompletedRun(alertRun[r], counts).status = "completed"
          /\ CompletedRun(alertRun[r], counts).counts = counts
      BY <3>1, RunRows
    <3>3. stored => alertRun' = [alertRun EXCEPT ![r] = CompletedRun(alertRun[r], counts)]
      BY <2>1 DEF counts
    <3>4. /\ alertRun' \in [AlertRuns -> RunRow]
          /\ \A q \in AlertRuns : q # r => alertRun'[q] = alertRun[q]
          /\ stored => alertRun'[r].status = "completed" /\ alertRun'[r].counts = counts
          /\ ~stored => alertRun'[r] = alertRun[r]
      BY <1>0, <2>1, <3>2, <3>3 DEF AlertTypeOK
    <3> QED BY <3>4 DEF counts
  <2> QED BY <1>0, <1>2, <2>1, <2>2, EndsInv DEF CompleteRun
<1>3. CASE EngineDies(r)
  BY <1>0, <1>3, EndsInv DEF EngineDies, AlertTypeOK
<1> QED BY <1>1, <1>2, <1>3

LEMMA NextAlertInv == AlertInv /\ [AlertNext]_alertVars => AlertInv'
<1> SUFFICES ASSUME AlertInv, [AlertNext]_alertVars PROVE AlertInv'
  OBVIOUS
<1>1. CASE Rebuild
  BY <1>1, RebuildInv
<1>2. CASE \E r \in AlertRuns : StartRun(r)
  BY <1>2, StartRunInv
<1>3. CASE \E r \in AlertRuns : Evaluate(r)
  BY <1>3, EvaluateInv
<1>4. CASE \E r \in AlertRuns : NextGroup(r)
  BY <1>4, NextGroupInv
<1>5. CASE \E r \in AlertRuns : GroupFails(r) \/ CompleteRun(r) \/ EngineDies(r)
  BY <1>5, RunEndsInv
<1>6. CASE \E r \in AlertRuns : \E f \in Fingerprints : StoreResult(r, f)
  BY <1>6, StoreResultInv
<1>7. CASE \E f \in Fingerprints : DismissAlert(f) \/ ResolveAlert(f)
  BY <1>7, UserInv
<1>8. CASE UNCHANGED alertVars
  BY <1>8 DEF alertVars, AlertInv, AlertTypeOK, RunFollowsEngine, ResultsInOrder, OverlapsAreMarked,
              EvidenceIsAsNew, OpenAlertIsCoherent, Active, Exists, Due
<1> QED BY <1>1, <1>2, <1>3, <1>4, <1>5, <1>6, <1>7, <1>8 DEF AlertNext

-----------------------------------------------------------------------------
(* The properties the runs check. *)

\* The inductive invariant holds, for any number of overlapping runs.
THEOREM AlertInvHolds == AlertSpec => []AlertInv
  BY InitAlertInv, NextAlertInv, PTL DEF AlertSpec

\* Every alert, run, engine and decision has its type, the sums a run stores included.
THEOREM AlertsAreTyped == AlertSpec => []AlertTypeOK
<1>1. AlertInv => AlertTypeOK
  BY DEF AlertInv
<1> QED BY <1>1, AlertInvHolds, PTL

\* A completed run has stored and counted every result of its four groups.
THEOREM CompletedRunsStoreAll == AlertSpec => []CompletedRunStoredAll
<1>1. AlertInv => CompletedRunStoredAll
  <2> SUFFICES ASSUME AlertInv, NEW r \in AlertRuns, alertRun[r].status = "completed"
               PROVE  /\ \A f \in Fingerprints : engine[r].done[f] = Due(r, f)
                      /\ \A f \in Fingerprints : Due(r, f) > 0 => Exists(f)
                      /\ alertRun[r].counts = CountsOf([f \in Fingerprints |-> Due(r, f)])
    BY DEF CompletedRunStoredAll
  <2>1. AlertTypeOK /\ RunFollowsEngine(r) /\ ResultsInOrder(r)
    BY DEF AlertInv
  <2>2. \A f \in Fingerprints : engine[r].done[f] = Due(r, f)
    BY <2>1 DEF RunFollowsEngine
  <2>3. engine[r].done = [f \in Fingerprints |-> Due(r, f)]
    BY <2>1, <2>2, DataTypes
  <2> QED BY <2>1, <2>2, <2>3 DEF RunFollowsEngine, ResultsInOrder
<1> QED BY <1>1, AlertInvHolds, PTL

\* A run is left "running" only by a lost last write or a dead process.
THEOREM StuckRunsLostTheirLastWrite == AlertSpec => []StuckRunLostItsLastWrite
<1>1. AlertInv => StuckRunLostItsLastWrite
  BY DEF AlertInv, RunFollowsEngine, StuckRunLostItsLastWrite
<1> QED BY <1>1, AlertInvHolds, PTL

\* An open alert and its evidence are of one evaluation, a dismissed one is kept.
THEOREM AlertsAreCoherent == AlertSpec => []OpenAlertIsCoherent
<1>1. AlertInv => OpenAlertIsCoherent
  BY DEF AlertInv
<1> QED BY <1>1, AlertInvHolds, PTL

\* A run that overlapped no other never loses to older evidence.
THEOREM EvidenceIsFresh == AlertSpec => []EvidenceNotOlderThanRun
<1>1. AlertInv => EvidenceNotOlderThanRun
  <2> SUFFICES ASSUME AlertInv, NEW r \in AlertRuns, NEW f \in Fingerprints,
                      ~engine[r].overlapped, engine[r].done[f] > 0
               PROVE  alert[f].evidence >= engine[r].read[GroupOf[f]]
    BY DEF EvidenceNotOlderThanRun
  <2>1. AlertTypeOK /\ alert[f] \in AlertRow /\ engine[r].read[GroupOf[f]] <= alert[f].evidence
    BY DEF AlertInv, EvidenceIsAsNew, AlertTypeOK
  <2>2. engine[r].read[GroupOf[f]] \in Nat /\ alert[f].evidence \in Nat
    BY <2>1, DataTypes DEF AlertRow, Versions
  <2> QED BY <2>1, <2>2
<1> QED BY <1>1, AlertInvHolds, PTL

\* No run resolves or dismisses an alert, or takes a dismissal back.
THEOREM DecisionsAreKept == AlertSpec => RunsKeepDecisions
<1>1. ASSUME AlertInv, [AlertNext]_alertVars
      PROVE  [\A f \in Fingerprints :
                /\ alert[f].status = "dismissed" => alert'[f].status \in {"dismissed", "resolved"}
                /\ engine' # engine => alert'[f].status \in {alert[f].status, "open"}]_alertVars
  <2>1. CASE UNCHANGED <<alert, engine>> \/ alert' = alert
    BY <2>1
  <2>2. CASE \E r \in AlertRuns : \E f \in Fingerprints : StoreResult(r, f)
    <3> PICK r \in AlertRuns, f \in Fingerprints : StoreResult(r, f)
      BY <2>2
    <3>1. /\ AlertTypeOK /\ alert[f] \in AlertRow /\ engine[r].read[GroupOf[f]] \in Versions
          /\ alert'[f] = UpsertedAlert(alert[f], engine[r].read[GroupOf[f]])
          /\ \A h \in Fingerprints : h # f => alert'[h] = alert[h]
      <4>1. AlertTypeOK /\ alert[f] \in AlertRow
        BY <1>1 DEF AlertInv, AlertTypeOK
      <4>2. engine[r].read[GroupOf[f]] \in Versions
        BY <4>1, DataTypes
      <4> QED BY <4>1, <4>2 DEF AlertTypeOK, StoreResult, UpsertAlert
    <3> QED BY <3>1, UpsertedRow
  <2>3. CASE \E f \in Fingerprints : DismissAlert(f) \/ ResolveAlert(f)
    <3> PICK f \in Fingerprints : DismissAlert(f) \/ ResolveAlert(f)
      BY <2>3
    <3>1. /\ engine' = engine /\ alert[f] \in AlertRow
          /\ alert'[f].status \in {"dismissed", "resolved"}
          /\ \A h \in Fingerprints : h # f => alert'[h] = alert[h]
      <4>1. AlertTypeOK /\ alert[f] \in AlertRow
        BY <1>1 DEF AlertInv, AlertTypeOK
      <4> QED BY <4>1, ClosedRow DEF AlertTypeOK, DismissAlert, ResolveAlert
    <3> QED BY <3>1
  <2> QED BY <1>1, <2>1, <2>2, <2>3
          DEF AlertNext, Rebuild, StartRun, Evaluate, NextGroup, GroupFails, CompleteRun, EngineDies, alertVars
<1> QED BY <1>1, AlertInvHolds, PTL DEF AlertSpec, RunsKeepDecisions

-----------------------------------------------------------------------------
(* Generations. *)


\* What a step may make of a generation, whatever it does to the tables.
GenerationOK(g) == g \in Generation /\ RowFollowsStage(g) /\ ItemsFollowStage(g)

\* The step leaves the save loop where it is.
SameItems(g, h) ==
    /\ h.current = g.current /\ h.left = g.left /\ (h.cleared <=> g.cleared)
    /\ Saved(h) = Saved(g)

-----------------------------------------------------------------------------
(* The alert engine never takes an alert away. *)

LEMMA AlertsStay ==
  ASSUME AlertInv, [AlertNext]_alertVars
  PROVE  \A f \in Fingerprints : Exists(f) => Exists(f)'
<1>1. CASE alert' = alert
  BY <1>1 DEF Exists
<1>2. AlertTypeOK
  BY DEF AlertInv
<1>3. CASE \E r \in AlertRuns : \E f \in Fingerprints : StoreResult(r, f)
  <2> PICK r \in AlertRuns, f \in Fingerprints : StoreResult(r, f)
    BY <1>3
  <2>1. alert[f] \in AlertRow /\ engine[r].read[GroupOf[f]] \in Versions
    BY <1>2, DataTypes DEF AlertTypeOK
  <2>2. /\ alert'[f] = UpsertedAlert(alert[f], engine[r].read[GroupOf[f]])
        /\ \A h \in Fingerprints : h # f => alert'[h] = alert[h]
    BY <1>2 DEF AlertTypeOK, StoreResult, UpsertAlert
  <2>3. alert'[f].status \in {"open", "dismissed"}
    BY <2>1, <2>2, UpsertedRow
  <2> QED BY <2>2, <2>3 DEF Exists
<1>4. CASE \E f \in Fingerprints : DismissAlert(f) \/ ResolveAlert(f)
  <2> PICK f \in Fingerprints : DismissAlert(f) \/ ResolveAlert(f)
    BY <1>4
  <2>1. /\ alert[f] \in AlertRow
        /\ alert'[f] = DismissedAlert(alert[f]) \/ alert'[f] = ResolvedAlert(alert[f])
        /\ \A h \in Fingerprints : h # f => alert'[h] = alert[h]
    BY <1>2 DEF AlertTypeOK, DismissAlert, ResolveAlert
  <2>2. alert'[f].status \in {"resolved", "dismissed"}
    BY <2>1, ClosedRow
  <2> QED BY <2>1, <2>2 DEF Exists
<1> QED
  BY <1>1, <1>3, <1>4
     DEF AlertNext, Rebuild, StartRun, Evaluate, NextGroup, GroupFails, CompleteRun, EngineDies, alertVars

-----------------------------------------------------------------------------
(* The steps of a generation, on its record alone. *)

LEMMA NewGenerationOK == GenerationOK(NewGeneration) /\ Saved(NewGeneration) = {}
<1>1. NewGeneration \in Generation
  BY DEF NewGeneration, Generation, Stages, NoItem
<1>2. RowFollowsStage(NewGeneration)
  BY DEF NewGeneration, RowFollowsStage
<1>3. Saved(NewGeneration) = {} /\ Len(NewGeneration.valid) = 0
  BY DEF NewGeneration, Saved
<1>4. ItemsFollowStage(NewGeneration)
  BY <1>3 DEF NewGeneration, ItemsFollowStage, NoItem
<1> QED BY <1>1, <1>2, <1>3, <1>4 DEF GenerationOK

\* Before the answer nothing is saved.
LEMMA NothingYet ==
  ASSUME NEW g, GenerationOK(g), g.stage \in {"idle", "alerts", "counts", "model"}
  PROVE  g.valid = <<>> /\ g.upserted = 0 /\ Saved(g) = {} /\ g.current = {} /\ ~g.refused
<1>1. g.valid = <<>> /\ g.upserted <= Len(g.valid) /\ g.upserted \in Nat /\ ~g.refused
  BY DEF GenerationOK, ItemsFollowStage, Generation
<1>2. g.upserted = 0
  BY <1>1
<1>3. Saved(g) = {}
  BY <1>2 DEF Saved
<1>4. g.current = {}
  BY <1>3 DEF GenerationOK, ItemsFollowStage
<1> QED BY <1>1, <1>2, <1>3, <1>4

\* CreateRun.
LEMMA StartsOK ==
  ASSUME NEW g, GenerationOK(g), g.stage = "idle"
  PROVE  LET h == [g EXCEPT !.status = "running", !.stage = "alerts"]
         IN  GenerationOK(h) /\ h.top = {} /\ SameItems(g, h)
<1> DEFINE h == [g EXCEPT !.status = "running", !.stage = "alerts"]
<1>1. g \in Generation
  BY DEF GenerationOK
<1>2. /\ h.stage = "alerts" /\ h.status = "running" /\ h.top = g.top /\ h.openTotal = g.openTotal
      /\ h.valid = g.valid /\ h.upserted = g.upserted /\ h.current = g.current /\ h.left = g.left
      /\ h.diagnostic = g.diagnostic /\ h.count = g.count /\ (h.cleared <=> g.cleared) /\ (h.lost <=> g.lost)
      /\ (h.refused <=> g.refused)
  BY <1>1 DEF Generation
<1>3. "alerts" \in Stages
  BY DEF Stages
<1>4. h \in Generation
  BY <1>1, <1>3 DEF Generation
<1>5. SameItems(g, h)
  BY <1>2 DEF SameItems, Saved
<1>6. g.top = {} /\ g.status = "none"
  BY DEF GenerationOK, ItemsFollowStage, RowFollowsStage
<1>8. RowFollowsStage(h)
  BY <1>2 DEF GenerationOK, RowFollowsStage
<1>9. ItemsFollowStage(h)
  BY <1>2, <1>5 DEF GenerationOK, ItemsFollowStage, SameItems
<1> QED BY <1>2, <1>6, <1>4, <1>5, <1>8, <1>9 DEF GenerationOK

\* BuildForAccount reads the open alerts.
LEMMA ReadsOK ==
  ASSUME NEW g, GenerationOK(g), g.stage = "alerts", NEW top \in SUBSET Fingerprints
  PROVE  LET h == [g EXCEPT !.stage = "counts", !.top = top]
         IN  GenerationOK(h) /\ h.top = top /\ SameItems(g, h)
<1> DEFINE h == [g EXCEPT !.stage = "counts", !.top = top]
<1>1. g \in Generation
  BY DEF GenerationOK
<1>2. /\ h.stage = "counts" /\ h.status = g.status /\ h.top = top /\ h.openTotal = g.openTotal
      /\ h.valid = g.valid /\ h.upserted = g.upserted /\ h.current = g.current /\ h.left = g.left
      /\ h.diagnostic = g.diagnostic /\ h.count = g.count /\ (h.cleared <=> g.cleared) /\ (h.lost <=> g.lost)
      /\ (h.refused <=> g.refused)
  BY <1>1 DEF Generation
<1>3. "counts" \in Stages
  BY DEF Stages
<1>4. h \in Generation
  BY <1>1, <1>3 DEF Generation
<1>5. SameItems(g, h)
  BY <1>2 DEF SameItems, Saved
<1>6. g.valid = <<>> /\ g.upserted = 0 /\ g.current = {} /\ ~g.refused /\ g.status = "running"
  BY NothingYet DEF GenerationOK, RowFollowsStage
<1>8. RowFollowsStage(h)
  BY <1>2 DEF GenerationOK, RowFollowsStage
<1>9. ItemsFollowStage(h)
  BY <1>2, <1>5, <1>6 DEF GenerationOK, ItemsFollowStage, SameItems
<1> QED BY <1>2, <1>4, <1>5, <1>8, <1>9 DEF GenerationOK

\* Then their counts.
LEMMA CountsOK ==
  ASSUME NEW g, GenerationOK(g), g.stage = "counts", NEW n \in Nat
  PROVE  LET h == [g EXCEPT !.stage = "model", !.openTotal = n]
         IN  GenerationOK(h) /\ h.top = g.top /\ SameItems(g, h)
<1> DEFINE h == [g EXCEPT !.stage = "model", !.openTotal = n]
<1>1. g \in Generation
  BY DEF GenerationOK
<1>2. /\ h.stage = "model" /\ h.status = g.status /\ h.top = g.top /\ h.openTotal = n
      /\ h.valid = g.valid /\ h.upserted = g.upserted /\ h.current = g.current /\ h.left = g.left
      /\ h.diagnostic = g.diagnostic /\ h.count = g.count /\ (h.cleared <=> g.cleared) /\ (h.lost <=> g.lost)
      /\ (h.refused <=> g.refused)
  BY <1>1 DEF Generation
<1>3. "model" \in Stages
  BY DEF Stages
<1>4. h \in Generation
  BY <1>1, <1>3 DEF Generation
<1>5. SameItems(g, h)
  BY <1>2 DEF SameItems, Saved
<1>6. g.valid = <<>> /\ g.upserted = 0 /\ g.current = {} /\ ~g.refused /\ g.status = "running"
  BY NothingYet DEF GenerationOK, RowFollowsStage
<1>8. RowFollowsStage(h)
  BY <1>2 DEF GenerationOK, RowFollowsStage
<1>9. ItemsFollowStage(h)
  BY <1>2, <1>5, <1>6 DEF GenerationOK, ItemsFollowStage, SameItems
<1> QED BY <1>2, <1>4, <1>5, <1>8, <1>9 DEF GenerationOK

\* The valid items of the answer are to be saved.
LEMMA JudgesOK ==
  ASSUME NEW g, GenerationOK(g), g.stage = "model",
         NEW valid \in Seq(Items), \A k \in DOMAIN valid : Accepts(valid[k], g.top)
  PROVE  LET h == [g EXCEPT !.stage = "save", !.valid = valid]
         IN  GenerationOK(h) /\ h.top = g.top /\ SameItems(g, h)
<1> DEFINE h == [g EXCEPT !.stage = "save", !.valid = valid]
<1>1. g \in Generation
  BY DEF GenerationOK
<1>2. /\ h.stage = "save" /\ h.status = g.status /\ h.top = g.top /\ h.openTotal = g.openTotal
      /\ h.valid = valid /\ h.upserted = g.upserted /\ h.current = g.current /\ h.left = g.left
      /\ h.diagnostic = g.diagnostic /\ h.count = g.count /\ (h.cleared <=> g.cleared) /\ (h.lost <=> g.lost)
      /\ (h.refused <=> g.refused)
  BY <1>1 DEF Generation
<1>3. "save" \in Stages
  BY DEF Stages
<1>4. h \in Generation
  BY <1>1, <1>3 DEF Generation
<1>6. g.valid = <<>> /\ g.upserted = 0 /\ g.current = {} /\ ~g.refused /\ g.status = "running"
  BY NothingYet DEF GenerationOK, RowFollowsStage
<1>7. SameItems(g, h)
  BY <1>2, <1>6 DEF SameItems, Saved
<1>10. 0 <= Len(valid) /\ h.current = {}
  BY <1>2, <1>6
<1>8. RowFollowsStage(h)
  BY <1>2 DEF GenerationOK, RowFollowsStage
<1>9. ItemsFollowStage(h)
  BY <1>2, <1>6, <1>7, <1>10 DEF GenerationOK, ItemsFollowStage, SameItems, Accepts
<1> QED BY <1>2, <1>4, <1>7, <1>8, <1>9 DEF GenerationOK

\* The next item is upserted and becomes the one to link.
LEMMA SavesOK ==
  ASSUME NEW g, GenerationOK(g), g.stage = "save", NEW i \in Items,
         g.upserted < Len(g.valid), i = g.valid[g.upserted + 1]
  PROVE  LET h == [g EXCEPT !.upserted = g.upserted + 1, !.current = {i}, !.cleared = FALSE]
         IN  GenerationOK(h) /\ h.top = g.top /\ h.current = {i}
             /\ Saved(h) = Saved(g) \cup {i} /\ ~h.cleared
<1> DEFINE h == [g EXCEPT !.upserted = g.upserted + 1, !.current = {i}, !.cleared = FALSE]
<1>1. g \in Generation
  BY DEF GenerationOK
<1>2. /\ h.stage = g.stage /\ h.status = g.status /\ h.top = g.top /\ h.openTotal = g.openTotal
      /\ h.valid = g.valid /\ h.upserted = g.upserted + 1 /\ h.current = {i} /\ h.left = g.left
      /\ h.diagnostic = g.diagnostic /\ h.count = g.count /\ (h.cleared <=> FALSE) /\ (h.lost <=> g.lost)
      /\ (h.refused <=> g.refused)
  BY <1>1 DEF Generation
<1>3. i \in Items /\ g.upserted + 1 \in Nat
  BY <1>1 DEF Generation
<1>4. h \in Generation
  BY <1>1, <1>3 DEF Generation
<1>5. Saved(h) = Saved(g) \cup {i}
  <2>1. g.upserted \in Nat /\ 1 .. g.upserted + 1 = (1 .. g.upserted) \cup {g.upserted + 1}
    BY <1>1 DEF Generation
  <2> QED BY <1>2, <2>1 DEF Saved
<1>6. g.upserted + 1 <= Len(g.valid)
  BY <1>1 DEF Generation
<1>8. RowFollowsStage(h)
  BY <1>2 DEF GenerationOK, RowFollowsStage
<1>9. ItemsFollowStage(h)
  BY <1>2, <1>5, <1>6 DEF GenerationOK, ItemsFollowStage
<1> QED BY <1>2, <1>4, <1>5, <1>8, <1>9 DEF GenerationOK

\* Its old links are deleted.
LEMMA ClearsOK ==
  ASSUME NEW g, GenerationOK(g), g.stage = "save", NEW ids \in SUBSET AlertIds,
         \A i \in g.current : ids \subseteq Cites[i]
  PROVE  LET h == [g EXCEPT !.cleared = TRUE, !.left = ids]
         IN  GenerationOK(h) /\ h.top = g.top /\ h.current = g.current /\ Saved(h) = Saved(g)
             /\ h.left = ids
<1> DEFINE h == [g EXCEPT !.cleared = TRUE, !.left = ids]
<1>1. g \in Generation
  BY DEF GenerationOK
<1>2. /\ h.stage = g.stage /\ h.status = g.status /\ h.top = g.top /\ h.openTotal = g.openTotal
      /\ h.valid = g.valid /\ h.upserted = g.upserted /\ h.current = g.current /\ h.left = ids
      /\ h.diagnostic = g.diagnostic /\ h.count = g.count /\ (h.cleared <=> TRUE) /\ (h.lost <=> g.lost)
      /\ (h.refused <=> g.refused)
  BY <1>1 DEF Generation
<1>3. TRUE \in BOOLEAN
  OBVIOUS
<1>4. h \in Generation
  BY <1>1, <1>3 DEF Generation
<1>5. Saved(h) = Saved(g)
  BY <1>2 DEF Saved
<1>8. RowFollowsStage(h)
  BY <1>2 DEF GenerationOK, RowFollowsStage
<1>9. ItemsFollowStage(h)
  BY <1>2, <1>5 DEF GenerationOK, ItemsFollowStage
<1> QED BY <1>2, <1>4, <1>5, <1>8, <1>9 DEF GenerationOK

\* One alert is linked.
LEMMA LinksOneOK ==
  ASSUME NEW g, GenerationOK(g), g.stage = "save", NEW ids \in SUBSET AlertIds, ids \subseteq g.left
  PROVE  LET h == [g EXCEPT !.left = ids]
         IN  GenerationOK(h) /\ h.top = g.top /\ h.current = g.current /\ Saved(h) = Saved(g)
             /\ h.left = ids /\ (h.cleared <=> g.cleared)
<1> DEFINE h == [g EXCEPT !.left = ids]
<1>1. g \in Generation
  BY DEF GenerationOK
<1>2. /\ h.stage = g.stage /\ h.status = g.status /\ h.top = g.top /\ h.openTotal = g.openTotal
      /\ h.valid = g.valid /\ h.upserted = g.upserted /\ h.current = g.current /\ h.left = ids
      /\ h.diagnostic = g.diagnostic /\ h.count = g.count /\ (h.cleared <=> g.cleared) /\ (h.lost <=> g.lost)
      /\ (h.refused <=> g.refused)
  BY <1>1 DEF Generation
<1>3. ids \in SUBSET AlertIds
  OBVIOUS
<1>4. h \in Generation
  BY <1>1, <1>3 DEF Generation
<1>5. Saved(h) = Saved(g)
  BY <1>2 DEF Saved
<1>8. RowFollowsStage(h)
  BY <1>2 DEF GenerationOK, RowFollowsStage
<1>9. ItemsFollowStage(h)
  BY <1>2, <1>5 DEF GenerationOK, ItemsFollowStage
<1> QED BY <1>2, <1>4, <1>5, <1>8, <1>9 DEF GenerationOK

\* The last alert of the item is linked.
LEMMA LinkedOK ==
  ASSUME NEW g, GenerationOK(g), g.stage = "save"
  PROVE  LET h == [g EXCEPT !.current = NoItem, !.cleared = FALSE]
         IN  GenerationOK(h) /\ h.top = g.top /\ h.current = {} /\ Saved(h) = Saved(g)
<1> DEFINE h == [g EXCEPT !.current = NoItem, !.cleared = FALSE]
<1>1. g \in Generation
  BY DEF GenerationOK
<1>2. /\ h.stage = g.stage /\ h.status = g.status /\ h.top = g.top /\ h.openTotal = g.openTotal
      /\ h.valid = g.valid /\ h.upserted = g.upserted /\ h.current = NoItem /\ h.left = g.left
      /\ h.diagnostic = g.diagnostic /\ h.count = g.count /\ (h.cleared <=> FALSE) /\ (h.lost <=> g.lost)
      /\ (h.refused <=> g.refused)
  BY <1>1 DEF Generation
<1>3. NoItem \in SUBSET Items
  BY DEF NoItem
<1>4. h \in Generation
  BY <1>1, <1>3 DEF Generation
<1>5. Saved(h) = Saved(g)
  BY <1>2 DEF Saved
<1>8. RowFollowsStage(h)
  BY <1>2 DEF GenerationOK, RowFollowsStage
<1>9. ItemsFollowStage(h)
  BY <1>2, <1>5 DEF GenerationOK, ItemsFollowStage, NoItem
<1> QED BY <1>2, <1>4, <1>5, <1>8, <1>9 DEF GenerationOK, NoItem

\* A link is refused.
LEMMA RefusedOK ==
  ASSUME NEW g, GenerationOK(g), g.stage = "save", g.top = {}
  PROVE  LET h == [g EXCEPT !.refused = TRUE]
         IN  GenerationOK(h) /\ h.top = g.top /\ SameItems(g, h) /\ h.stage = "save"
<1> DEFINE h == [g EXCEPT !.refused = TRUE]
<1>1. g \in Generation
  BY DEF GenerationOK
<1>2. /\ h.stage = g.stage /\ h.status = g.status /\ h.top = g.top /\ h.openTotal = g.openTotal
      /\ h.valid = g.valid /\ h.upserted = g.upserted /\ h.current = g.current /\ h.left = g.left
      /\ h.diagnostic = g.diagnostic /\ h.count = g.count /\ (h.cleared <=> g.cleared) /\ (h.lost <=> g.lost)
      /\ (h.refused <=> TRUE)
  BY <1>1 DEF Generation
<1>3. TRUE \in BOOLEAN
  OBVIOUS
<1>4. h \in Generation
  BY <1>1, <1>3 DEF Generation
<1>5. SameItems(g, h)
  BY <1>2 DEF SameItems, Saved
<1>8. RowFollowsStage(h)
  BY <1>2 DEF GenerationOK, RowFollowsStage
<1>9. ItemsFollowStage(h)
  BY <1>2, <1>5 DEF GenerationOK, ItemsFollowStage, SameItems
<1> QED BY <1>2, <1>4, <1>5, <1>8, <1>9 DEF GenerationOK

\* A set that is not empty counts for something.
LEMMA CountsSomething ==
  ASSUME NEW S, NEW T, S \subseteq T, IsFiniteSet(T)
  PROVE  /\ IsFiniteSet(S) /\ Cardinality(S) \in Nat
         /\ S # {} => Cardinality(S) > 0
<1>1. IsFiniteSet(S) /\ Cardinality(S) \in Nat
  BY FS_Subset, FS_CardinalityType
<1> QED BY <1>1, FS_EmptySet

\* evaluateAfterSave lets a generation pass that saved something, or had nothing to say.
LEMMA PassesOK ==
  ASSUME NEW g, GenerationOK(g), g.stage = "save", g.upserted = Len(g.valid),
         g.current = NoItem, ~SaveOutcomeFails(g)
  PROVE  LET h == [g EXCEPT !.stage = "diagnose"]
         IN  GenerationOK(h) /\ h.top = g.top /\ SameItems(g, h)
<1> DEFINE h == [g EXCEPT !.stage = "diagnose"]
<1>1. g \in Generation
  BY DEF GenerationOK
<1>2. /\ h.stage = "diagnose" /\ h.status = g.status /\ h.top = g.top /\ h.openTotal = g.openTotal
      /\ h.valid = g.valid /\ h.upserted = g.upserted /\ h.current = g.current /\ h.left = g.left
      /\ h.diagnostic = g.diagnostic /\ h.count = g.count /\ (h.cleared <=> g.cleared) /\ (h.lost <=> g.lost)
      /\ (h.refused <=> g.refused)
  BY <1>1 DEF Generation
<1>3. "diagnose" \in Stages
  BY DEF Stages
<1>4. h \in Generation
  BY <1>1, <1>3 DEF Generation
<1>5. SameItems(g, h)
  BY <1>2 DEF SameItems, Saved
<1>6. g.top # {} \/ g.openTotal > 0 => g.upserted > 0
  <2>1. /\ Cardinality(g.top) \in Nat /\ (g.top # {} => Cardinality(g.top) > 0)
        /\ g.openTotal \in Nat /\ g.upserted \in Nat
    BY <1>1, CountsSomething, RecommendationConstants DEF Generation
  <2>2. g.top # {} \/ g.openTotal > 0 => OpenInContext(g) > 0
    BY <2>1 DEF OpenInContext
  <2> QED BY <2>1, <2>2 DEF SaveOutcomeFails
<1>7. g.status = "running"
  BY DEF GenerationOK, RowFollowsStage
<1>8. RowFollowsStage(h)
  BY <1>2 DEF GenerationOK, RowFollowsStage
<1>9. ItemsFollowStage(h)
  BY <1>2, <1>5, <1>6, <1>7 DEF GenerationOK, ItemsFollowStage, SameItems
<1> QED BY <1>2, <1>4, <1>5, <1>8, <1>9 DEF GenerationOK

\* The diagnostic of a successful generation is stored.
LEMMA DiagnosesOK ==
  ASSUME NEW g, GenerationOK(g), g.stage = "diagnose"
  PROVE  LET h == [g EXCEPT !.stage = "complete", !.diagnostic = "completed"]
         IN  GenerationOK(h) /\ h.top = g.top /\ SameItems(g, h)
<1> DEFINE h == [g EXCEPT !.stage = "complete", !.diagnostic = "completed"]
<1>1. g \in Generation
  BY DEF GenerationOK
<1>2. /\ h.stage = "complete" /\ h.status = g.status /\ h.top = g.top /\ h.openTotal = g.openTotal
      /\ h.valid = g.valid /\ h.upserted = g.upserted /\ h.current = g.current /\ h.left = g.left
      /\ h.diagnostic = "completed" /\ h.count = g.count /\ (h.cleared <=> g.cleared) /\ (h.lost <=> g.lost)
      /\ (h.refused <=> g.refused)
  BY <1>1 DEF Generation
<1>3. "complete" \in Stages
  BY DEF Stages
<1>4. h \in Generation
  BY <1>1, <1>3 DEF Generation
<1>5. SameItems(g, h)
  BY <1>2 DEF SameItems, Saved
<1>6. g.status = "running"
  BY DEF GenerationOK, RowFollowsStage
<1>8. RowFollowsStage(h)
  BY <1>2, <1>6 DEF GenerationOK, RowFollowsStage
<1>9. ItemsFollowStage(h)
  BY <1>2, <1>5, <1>6 DEF GenerationOK, ItemsFollowStage, SameItems
<1> QED BY <1>2, <1>4, <1>5, <1>8, <1>9 DEF GenerationOK

\* CompleteRun is the last write.
LEMMA CompletesOK ==
  ASSUME NEW g, GenerationOK(g), g.stage = "complete"
  PROVE  LET h == [g EXCEPT !.stage = "ended", !.status = "completed", !.count = g.upserted]
         IN  GenerationOK(h) /\ h.top = g.top /\ SameItems(g, h)
<1> DEFINE h == [g EXCEPT !.stage = "ended", !.status = "completed", !.count = g.upserted]
<1>1. g \in Generation
  BY DEF GenerationOK
<1>2. /\ h.stage = "ended" /\ h.status = "completed" /\ h.top = g.top /\ h.openTotal = g.openTotal
      /\ h.valid = g.valid /\ h.upserted = g.upserted /\ h.current = g.current /\ h.left = g.left
      /\ h.diagnostic = g.diagnostic /\ h.count = g.upserted /\ (h.cleared <=> g.cleared) /\ (h.lost <=> g.lost)
      /\ (h.refused <=> g.refused)
  BY <1>1 DEF Generation
<1>3. "ended" \in Stages /\ g.upserted \in Nat
  BY <1>1 DEF Stages, Generation
<1>4. h \in Generation
  BY <1>1, <1>3 DEF Generation
<1>5. SameItems(g, h)
  BY <1>2 DEF SameItems, Saved
<1>8. RowFollowsStage(h)
  BY <1>2 DEF GenerationOK, RowFollowsStage
<1>9. ItemsFollowStage(h)
  BY <1>2, <1>5 DEF GenerationOK, ItemsFollowStage, SameItems
<1> QED BY <1>2, <1>4, <1>5, <1>8, <1>9 DEF GenerationOK

\* A write is lost, or the process dies.
LEMMA LosesOK ==
  ASSUME NEW g, GenerationOK(g), g.stage \notin {"idle", "ended"}
  PROVE  LET h == [g EXCEPT !.stage = "ended", !.lost = TRUE]
         IN  GenerationOK(h) /\ h.top = g.top /\ SameItems(g, h)
<1> DEFINE h == [g EXCEPT !.stage = "ended", !.lost = TRUE]
<1>1. g \in Generation
  BY DEF GenerationOK
<1>2. /\ h.stage = "ended" /\ h.status = g.status /\ h.top = g.top /\ h.openTotal = g.openTotal
      /\ h.valid = g.valid /\ h.upserted = g.upserted /\ h.current = g.current /\ h.left = g.left
      /\ h.diagnostic = g.diagnostic /\ h.count = g.count /\ (h.cleared <=> g.cleared) /\ (h.lost <=> TRUE)
      /\ (h.refused <=> g.refused)
  BY <1>1 DEF Generation
<1>3. "ended" \in Stages
  BY DEF Stages
<1>4. h \in Generation
  BY <1>1, <1>3 DEF Generation
<1>5. SameItems(g, h)
  BY <1>2 DEF SameItems, Saved
<1>6. g.status = "running"
  BY DEF GenerationOK, RowFollowsStage
<1>8. RowFollowsStage(h)
  BY <1>2, <1>6 DEF GenerationOK, RowFollowsStage
<1>9. ItemsFollowStage(h)
  BY <1>2, <1>5, <1>6 DEF GenerationOK, ItemsFollowStage, SameItems
<1> QED BY <1>2, <1>4, <1>5, <1>8, <1>9 DEF GenerationOK

\* failAndWrap, whichever of its two writes is stored.
LEMMA FailsOK ==
  ASSUME NEW g, GenerationOK(g), g.stage \in {"alerts", "counts", "model", "save"},
         NEW h \in FailAndWrap(g)
  PROVE  GenerationOK(h) /\ h.top = g.top /\ SameItems(g, h)
<1>1. g \in Generation /\ g.status = "running"
  BY DEF GenerationOK, RowFollowsStage
<1>2. CASE h = [g EXCEPT !.stage = "ended", !.diagnostic = "failed", !.status = "failed"]
  <2>1. /\ h.stage = "ended" /\ h.status = "failed" /\ h.top = g.top /\ h.openTotal = g.openTotal
        /\ h.valid = g.valid /\ h.upserted = g.upserted /\ h.current = g.current /\ h.left = g.left
        /\ h.diagnostic = "failed" /\ h.count = g.count /\ (h.cleared <=> g.cleared) /\ (h.lost <=> g.lost)
        /\ (h.refused <=> g.refused)
    BY <1>1, <1>2 DEF Generation
  <2>2. "ended" \in Stages
    BY DEF Stages
  <2>3. h \in Generation
    BY <1>1, <1>2, <2>2 DEF Generation
  <2>4. SameItems(g, h)
    BY <2>1 DEF SameItems, Saved
  <2>5. RowFollowsStage(h)
    BY <1>1, <2>1 DEF RowFollowsStage
  <2>6. ItemsFollowStage(h)
    BY <1>1, <2>1, <2>4 DEF GenerationOK, ItemsFollowStage, SameItems
  <2> QED BY <2>1, <2>3, <2>4, <2>5, <2>6 DEF GenerationOK
<1>3. CASE h = [g EXCEPT !.stage = "ended", !.diagnostic = "failed", !.lost = TRUE]
  <2>1. /\ h.stage = "ended" /\ h.status = g.status /\ h.top = g.top /\ h.openTotal = g.openTotal
        /\ h.valid = g.valid /\ h.upserted = g.upserted /\ h.current = g.current /\ h.left = g.left
        /\ h.diagnostic = "failed" /\ h.count = g.count /\ (h.cleared <=> g.cleared) /\ (h.lost <=> TRUE)
        /\ (h.refused <=> g.refused)
    BY <1>1, <1>3 DEF Generation
  <2>2. "ended" \in Stages
    BY DEF Stages
  <2>3. h \in Generation
    BY <1>1, <1>3, <2>2 DEF Generation
  <2>4. SameItems(g, h)
    BY <2>1 DEF SameItems, Saved
  <2>5. RowFollowsStage(h)
    BY <1>1, <2>1 DEF RowFollowsStage
  <2>6. ItemsFollowStage(h)
    BY <1>1, <2>1, <2>4 DEF GenerationOK, ItemsFollowStage, SameItems
  <2> QED BY <2>1, <2>3, <2>4, <2>5, <2>6 DEF GenerationOK
<1>4. CASE h = [g EXCEPT !.stage = "ended", !.lost = TRUE]
  BY <1>4, LosesOK
<1> QED BY <1>2, <1>3, <1>4 DEF FailAndWrap

-----------------------------------------------------------------------------
(* The steps on the tables. *)

LEMMA RowAndItems ==
  ASSUME RecInv, NEW r \in Generations
  PROVE  /\ GenerationOK(generation[r]) /\ generation[r] \in Generation
         /\ generation[r].top \subseteq Existing /\ Existing \subseteq Fingerprints
  BY DEF RecInv, RecTypeOK, GenerationOK, Existing

\* The items a generation saved were judged against its context.
LEMMA SavedItems ==
  ASSUME NEW g, GenerationOK(g), NEW i \in Saved(g)
  PROVE  i \in Items /\ (g.top # {} => Cites[i] # {} /\ Cites[i] \subseteq g.top)
  BY DEF GenerationOK, ItemsFollowStage, Saved, Generation

\* The item being linked is one of them.
LEMMA CurrentIsSaved ==
  ASSUME NEW g, GenerationOK(g), NEW i, g.current = {i}
  PROVE  i \in Saved(g)
  BY DEF GenerationOK, ItemsFollowStage

\* One generation goes on, the others are left alone.
LEMMA GenerationGoesOn ==
  ASSUME RecInv, NEW r \in Generations, NEW h, Becomes(r, h), GenerationOK(h),
         h.top \subseteq Existing, alert' = alert, rec' \in [Items -> RecRow],
         SavedItemsExist', LinksTornOnlyMidSave'
  PROVE  RecInv'
<1>1. generation' \in [Generations -> Generation]
  BY DEF RecInv, RecTypeOK, GenerationOK, Becomes
<1>2. generation'[r] = h /\ \A q \in Generations : q # r => generation'[q] = generation[q]
  BY DEF RecInv, RecTypeOK, Becomes
<1>3. Existing' = Existing
  BY DEF Existing, Exists
<1>4. ASSUME NEW q \in Generations
      PROVE  /\ RowFollowsStage(generation'[q]) /\ ItemsFollowStage(generation'[q])
             /\ generation'[q].top \subseteq Existing'
  <2>1. CASE q = r
    BY <1>2, <1>3, <2>1 DEF GenerationOK
  <2>2. CASE q # r
    BY <1>2, <1>3, <2>2 DEF RecInv
  <2> QED BY <2>1, <2>2
<1> QED BY <1>1, <1>4 DEF RecInv, RecTypeOK

\* What the links of one item may be.
ItemsLinks(i, row, gs, existing) ==
    /\ row.links \subseteq Cites[i] \cap (existing \cup OtherAlerts)
    /\ ~(row.links \subseteq existing) => \E r \in Generations : gs[r].top = {} /\ i \in Saved(gs[r])
    /\ row.status # "none" =>
          \/ row.links = Cites[i]
          \/ \E r \in Generations :
                /\ gs[r].current = {i}
                /\ gs[r].cleared => Cites[i] \ gs[r].left \subseteq row.links

LEMMA LinksOfItems ==
  LinksTornOnlyMidSave <=> \A i \in Items : ItemsLinks(i, rec[i], generation, Existing)
  BY DEF LinksTornOnlyMidSave, ItemsLinks

LEMMA LinksOfItemsAfter ==
  LinksTornOnlyMidSave' <=> \A i \in Items : ItemsLinks(i, rec'[i], generation', Existing')
  BY DEF LinksTornOnlyMidSave, ItemsLinks, Saved

\* A step that leaves an item's row and every generation's loop over it keeps its links.
LEMMA OtherItemsKeepTheirLinks ==
  ASSUME NEW gs, NEW ks, NEW i \in Items, NEW row, NEW existing, NEW existing2,
         existing \subseteq existing2, existing2 \cap OtherAlerts = {},
         ItemsLinks(i, row, gs, existing),
         \A q \in Generations : i \in Saved(gs[q]) =>
            /\ ks[q].top = gs[q].top /\ i \in Saved(ks[q]),
         \A q \in Generations : gs[q].current = {i} =>
            ks[q].current = {i} /\ (ks[q].cleared <=> gs[q].cleared) /\ ks[q].left = gs[q].left
  PROVE  ItemsLinks(i, row, ks, existing2)
<1>1. row.links \subseteq Cites[i] \cap (existing2 \cup OtherAlerts)
  BY DEF ItemsLinks
<1>2. ASSUME ~(row.links \subseteq existing2)
      PROVE  \E r \in Generations : ks[r].top = {} /\ i \in Saved(ks[r])
  <2>1. PICK r \in Generations : gs[r].top = {} /\ i \in Saved(gs[r])
    BY <1>2 DEF ItemsLinks
  <2> QED BY <2>1
<1>3. ASSUME row.status # "none", row.links # Cites[i]
      PROVE  \E r \in Generations : /\ ks[r].current = {i}
                                    /\ ks[r].cleared => Cites[i] \ ks[r].left \subseteq row.links
  <2>1. PICK r \in Generations : /\ gs[r].current = {i}
                                 /\ gs[r].cleared => Cites[i] \ gs[r].left \subseteq row.links
    BY <1>3 DEF ItemsLinks
  <2> QED BY <2>1
<1> QED BY <1>1, <1>2, <1>3 DEF ItemsLinks

LEMMA OwnAndOtherAlerts == Existing \cap OtherAlerts = {} /\ Existing \subseteq AlertIds
  BY RecommendationConstants DEF Existing

\* The steps on the run's row alone.
LEMMA OnlyTheRowGoesOn ==
  ASSUME RecInv, NEW r \in Generations, NEW h, Becomes(r, h), GenerationOK(h),
         h.top \subseteq Existing, SameItems(generation[r], h),
         h.top = generation[r].top \/ Saved(generation[r]) = {},
         alert' = alert, rec' = rec
  PROVE  RecInv'
<1>1. generation'[r] = h /\ \A q \in Generations : q # r => generation'[q] = generation[q]
  BY DEF RecInv, RecTypeOK, Becomes
<1>2. Existing' = Existing
  BY DEF Existing, Exists
<1>3. SavedItemsExist'
  <2>1. \A q \in Generations : Saved(generation'[q]) = Saved(generation[q])
    BY <1>1 DEF SameItems
  <2>2. \A q \in Generations : \A i \in Saved(generation'[q]) : rec'[i].status # "none"
    BY <2>1 DEF RecInv, SavedItemsExist
  <2> QED BY <2>2 DEF SavedItemsExist, Saved
<1>4. ASSUME NEW i \in Items
      PROVE  ItemsLinks(i, rec'[i], generation', Existing')
  <2>1. ItemsLinks(i, rec'[i], generation, Existing)
    BY LinksOfItems DEF RecInv
  <2>2. \A q \in Generations : i \in Saved(generation[q]) =>
           generation'[q].top = generation[q].top /\ i \in Saved(generation'[q])
    BY <1>1 DEF SameItems
  <2>3. \A q \in Generations : generation[q].current = {i} =>
           /\ generation'[q].current = {i} /\ (generation'[q].cleared <=> generation[q].cleared)
           /\ generation'[q].left = generation[q].left
    BY <1>1 DEF SameItems
  <2> QED BY <1>2, <2>1, <2>2, <2>3, OtherItemsKeepTheirLinks, OwnAndOtherAlerts
<1>5. LinksTornOnlyMidSave'
  BY <1>4, LinksOfItemsAfter
<1> QED BY <1>3, <1>5, GenerationGoesOn DEF RecInv, RecTypeOK

LEMMA InitRecInv == RecInit => RecInv
<1> SUFFICES ASSUME RecInit PROVE RecInv
  OBVIOUS
<1>1. \A r \in Generations : generation[r] = NewGeneration
  BY DEF RecInit
<1>2. NewGeneration.top = {} /\ GenerationOK(NewGeneration) /\ Saved(NewGeneration) = {}
  BY NewGenerationOK DEF NewGeneration
<1>3. NoRec \in RecRow /\ NoRec.links = {} /\ NoRec.status = "none"
  BY DEF NoRec, RecRow, RecStatus, Writers
<1>4. RecTypeOK
  BY <1>2, <1>3 DEF RecInit, RecTypeOK, GenerationOK
<1>5. LinksTornOnlyMidSave
  BY <1>3 DEF RecInit, LinksTornOnlyMidSave
<1>6. SavedItemsExist
  BY <1>1, <1>2 DEF SavedItemsExist
<1> QED BY <1>1, <1>2, <1>4, <1>5, <1>6 DEF RecInv, GenerationOK

LEMMA ReadContextInv ==
  ASSUME RecInv, NEW r \in Generations, alert' = alert,
         StartGeneration(r) \/ ReadOpenAlerts(r) \/ ReadAlertCounts(r)
  PROVE  RecInv'
<1> DEFINE g == generation[r]
<1>1. GenerationOK(g) /\ g.top \subseteq Existing
  BY RowAndItems
<1>2. OpenAlerts \subseteq Existing /\ OpenAlerts \subseteq Fingerprints
  BY DEF OpenAlerts, Existing, Exists
<1>3. CASE StartGeneration(r)
  <2> DEFINE h == [g EXCEPT !.status = "running", !.stage = "alerts"]
  <2>1. g.stage = "idle" /\ Becomes(r, h) /\ rec' = rec
    BY <1>3 DEF StartGeneration
  <2>2. GenerationOK(h) /\ h.top = {} /\ SameItems(g, h) /\ Saved(g) = {}
    BY <1>1, <2>1, StartsOK, NothingYet
  <2> HIDE DEF h
  <2> QED BY <2>1, <2>2, OnlyTheRowGoesOn
<1>4. CASE ReadOpenAlerts(r)
  <2>1. PICK top \in SUBSET OpenAlerts : Becomes(r, [g EXCEPT !.stage = "counts", !.top = top])
    BY <1>4 DEF ReadOpenAlerts
  <2> DEFINE h == [g EXCEPT !.stage = "counts", !.top = top]
  <2>2. g.stage = "alerts" /\ Becomes(r, h) /\ rec' = rec
    BY <1>4, <2>1 DEF ReadOpenAlerts
  <2>3. GenerationOK(h) /\ h.top = top /\ SameItems(g, h) /\ Saved(g) = {}
    BY <1>1, <1>2, <2>2, ReadsOK, NothingYet
  <2> HIDE DEF h
  <2> QED BY <1>2, <2>2, <2>3, OnlyTheRowGoesOn
<1>5. CASE ReadAlertCounts(r)
  <2> DEFINE n == Cardinality(OpenAlerts)
             h == [g EXCEPT !.stage = "model", !.openTotal = n]
  <2>1. g.stage = "counts" /\ Becomes(r, h) /\ rec' = rec
    BY <1>5 DEF ReadAlertCounts
  <2>2. n \in Nat
    BY <1>2, CountsSomething, RecommendationConstants
  <2>3. GenerationOK(h) /\ h.top = g.top /\ SameItems(g, h)
    BY <1>1, <2>1, <2>2, CountsOK
  <2> HIDE DEF h
  <2> QED BY <1>1, <2>1, <2>3, OnlyTheRowGoesOn
<1> QED BY <1>3, <1>4, <1>5

LEMMA JudgeAnswerInv ==
  ASSUME RecInv, NEW r \in Generations, alert' = alert, JudgeAnswer(r)
  PROVE  RecInv'
<1> DEFINE g == generation[r]
<1>1. GenerationOK(g) /\ g.top \subseteq Existing
  BY RowAndItems
<1>2. PICK valid \in BoundedSeq(Items, MaxRecommendations) :
        /\ \A k \in DOMAIN valid : Accepts(valid[k], g.top)
        /\ \/ \E h \in FailAndWrap(g) : Becomes(r, h)
           \/ Becomes(r, [g EXCEPT !.stage = "save", !.valid = valid])
  BY DEF JudgeAnswer
<1>3. g.stage = "model" /\ rec' = rec
  BY DEF JudgeAnswer
<1>4. CASE \E h \in FailAndWrap(g) : Becomes(r, h)
  <2> PICK h \in FailAndWrap(g) : Becomes(r, h)
    BY <1>4
  <2>1. GenerationOK(h) /\ h.top = g.top /\ SameItems(g, h)
    BY <1>1, <1>3, FailsOK
  <2> QED BY <1>1, <1>3, <2>1, OnlyTheRowGoesOn
<1>5. CASE Becomes(r, [g EXCEPT !.stage = "save", !.valid = valid])
  <2> DEFINE h == [g EXCEPT !.stage = "save", !.valid = valid]
  <2>1. valid \in Seq(Items)
    <3>1. PICK n \in 0 .. MaxRecommendations : valid \in [1 .. n -> Items]
      BY <1>2 DEF BoundedSeq, SeqOf
    <3>2. n \in Nat
      BY RecommendationConstants
    <3> QED BY <3>1, <3>2
  <2>2. GenerationOK(h) /\ h.top = g.top /\ SameItems(g, h)
    BY <1>1, <1>2, <1>3, <2>1, JudgesOK
  <2>3. Becomes(r, h)
    BY <1>5
  <2> HIDE DEF h
  <2> QED BY <1>1, <1>3, <2>2, <2>3, OnlyTheRowGoesOn
<1> QED BY <1>2, <1>4, <1>5

LEMMA AfterItemsInv ==
  ASSUME RecInv, NEW r \in Generations, alert' = alert,
         \/ AfterSave(r) \/ StoreDiagnostic(r) \/ CompleteGeneration(r)
         \/ GenerationFails(r) \/ GenerationDies(r)
  PROVE  RecInv'
<1> DEFINE g == generation[r]
           Lost == [g EXCEPT !.stage = "ended", !.lost = TRUE]
<1>1. GenerationOK(g) /\ g.top \subseteq Existing
  BY RowAndItems
<1>2. ASSUME NEW h \in FailAndWrap(g), Becomes(r, h), g.stage \in {"alerts", "counts", "model", "save"},
             rec' = rec
      PROVE  RecInv'
  <2>1. GenerationOK(h) /\ h.top = g.top /\ SameItems(g, h)
    BY <1>1, <1>2, FailsOK
  <2> QED BY <1>1, <1>2, <2>1, OnlyTheRowGoesOn
<1>3. ASSUME Becomes(r, Lost), g.stage \notin {"idle", "ended"}, rec' = rec
      PROVE  RecInv'
  <2>1. GenerationOK(Lost) /\ Lost.top = g.top /\ SameItems(g, Lost)
    BY <1>1, <1>3, LosesOK
  <2> HIDE DEF Lost
  <2> QED BY <1>1, <1>3, <2>1, OnlyTheRowGoesOn
<1>4. CASE AfterSave(r)
  <2> DEFINE h == [g EXCEPT !.stage = "diagnose"]
  <2>1. /\ g.stage = "save" /\ g.current = NoItem /\ g.upserted = Len(g.valid) /\ rec' = rec
        /\ \/ \E k \in FailAndWrap(g) : Becomes(r, k)
           \/ ~SaveOutcomeFails(g) /\ Becomes(r, h)
    BY <1>4 DEF AfterSave
  <2>2. CASE ~SaveOutcomeFails(g) /\ Becomes(r, h)
    <3>1. GenerationOK(h) /\ h.top = g.top /\ SameItems(g, h)
      BY <1>1, <2>1, <2>2, PassesOK
    <3>2. Becomes(r, h)
      BY <2>2
    <3> HIDE DEF h
    <3> QED BY <1>1, <2>1, <3>1, <3>2, OnlyTheRowGoesOn
  <2> QED BY <1>2, <2>1, <2>2
<1>5. CASE StoreDiagnostic(r)
  <2> DEFINE h == [g EXCEPT !.stage = "complete", !.diagnostic = "completed"]
  <2>1. g.stage = "diagnose" /\ rec' = rec /\ (Becomes(r, h) \/ Becomes(r, Lost))
    BY <1>5 DEF StoreDiagnostic
  <2>2. GenerationOK(h) /\ h.top = g.top /\ SameItems(g, h)
    BY <1>1, <2>1, DiagnosesOK
  <2>3. Becomes(r, h) => RecInv'
    <3> HIDE DEF h
    <3> QED BY <1>1, <2>1, <2>2, OnlyTheRowGoesOn
  <2> QED BY <1>3, <2>1, <2>3
<1>6. CASE CompleteGeneration(r)
  <2> DEFINE h == [g EXCEPT !.stage = "ended", !.status = "completed", !.count = g.upserted]
  <2>1. g.stage = "complete" /\ rec' = rec /\ (Becomes(r, h) \/ Becomes(r, Lost))
    BY <1>6 DEF CompleteGeneration
  <2>2. GenerationOK(h) /\ h.top = g.top /\ SameItems(g, h)
    BY <1>1, <2>1, CompletesOK
  <2>3. Becomes(r, h) => RecInv'
    <3> HIDE DEF h
    <3> QED BY <1>1, <2>1, <2>2, OnlyTheRowGoesOn
  <2> QED BY <1>3, <2>1, <2>3
<1>7. CASE GenerationFails(r)
  BY <1>2, <1>7 DEF GenerationFails
<1>8. CASE GenerationDies(r)
  BY <1>3, <1>8 DEF GenerationDies, Generating
<1> QED BY <1>4, <1>5, <1>6, <1>7, <1>8

-----------------------------------------------------------------------------
(* The save loop: the steps on the row and the links of one item. *)

LEMMA RecRows ==
  ASSUME NEW row \in RecRow, NEW r \in Generations
  PROVE  /\ UpsertedRec(row, r) \in RecRow /\ UpsertedRec(row, r).links = row.links
         /\ UpsertedRec(row, r).status # "none"
         /\ row.status \in {"accepted", "dismissed"} =>
              UpsertedRec(row, r).status = row.status /\ UpsertedRec(row, r).body = row.body
         /\ ClearedLinks(row) \in RecRow /\ ClearedLinks(row).links = {}
         /\ ClearedLinks(row).status = row.status /\ ClearedLinks(row).body = row.body
<1>1. r \in Writers
  BY DEF Writers
<1>2. /\ UpsertedRec(row, r) \in RecRow /\ UpsertedRec(row, r).links = row.links
      /\ UpsertedRec(row, r).status # "none"
      /\ row.status \in {"accepted", "dismissed"} =>
           UpsertedRec(row, r).status = row.status /\ UpsertedRec(row, r).body = row.body
  BY <1>1 DEF UpsertedRec, RecRow, RecStatus
<1>3. /\ ClearedLinks(row) \in RecRow /\ ClearedLinks(row).links = {}
      /\ ClearedLinks(row).status = row.status /\ ClearedLinks(row).body = row.body
  BY DEF ClearedLinks, RecRow
<1> QED BY <1>2, <1>3

LEMMA LinkedRow ==
  ASSUME NEW row \in RecRow, NEW a \in AlertIds
  PROVE  /\ LinkedAlert(row, a) \in RecRow /\ LinkedAlert(row, a).links = row.links \cup {a}
         /\ LinkedAlert(row, a).status = row.status /\ LinkedAlert(row, a).body = row.body
  BY DEF LinkedAlert, RecRow

LEMMA DecidedRow ==
  ASSUME NEW row \in RecRow, NEW d \in {AcceptedRec(row), DismissedRec(row), ResolvedRec(row)}
  PROVE  /\ d \in RecRow /\ d.links = row.links /\ d.body = row.body
         /\ d.status \in {"accepted", "dismissed", "resolved"}
  BY DEF AcceptedRec, DismissedRec, ResolvedRec, RecRow, RecStatus

\* The other items are linked by other generations, before as after the step.
LEMMA OneItemGoesOn ==
  ASSUME RecInv, NEW r \in Generations, NEW h, NEW i \in Items, NEW row \in RecRow,
         Becomes(r, h), rec' = [rec EXCEPT ![i] = row], alert' = alert,
         GenerationOK(h), h.top = generation[r].top,
         generation[r].current = {} \/ generation[r].current = {i},
         Saved(generation[r]) \subseteq Saved(h), Saved(h) \subseteq Saved(generation[r]) \cup {i},
         row.status # "none", ItemsLinks(i, row, generation', Existing)
  PROVE  RecInv'
<1>1. /\ generation'[r] = h /\ \A q \in Generations : q # r => generation'[q] = generation[q]
      /\ rec'[i] = row /\ \A j \in Items : j # i => rec'[j] = rec[j]
      /\ rec' \in [Items -> RecRow]
  BY DEF RecInv, RecTypeOK, Becomes
<1>2. Existing' = Existing
  BY DEF Existing, Exists
<1>3. SavedItemsExist'
  <2>1. \A q \in Generations : \A j \in Saved(generation'[q]) : j = i \/ j \in Saved(generation[q])
    BY <1>1
  <2>2. \A q \in Generations : \A j \in Saved(generation[q]) : j \in Items
    BY RowAndItems, SavedItems
  <2>3. \A q \in Generations : \A j \in Saved(generation'[q]) : rec'[j].status # "none"
    BY <1>1, <2>1, <2>2 DEF RecInv, SavedItemsExist
  <2> QED BY <2>3 DEF SavedItemsExist, Saved
<1>4. ASSUME NEW j \in Items, j # i
      PROVE  ItemsLinks(j, rec'[j], generation', Existing')
  <2>1. ItemsLinks(j, rec'[j], generation, Existing)
    BY <1>1, <1>4, LinksOfItems DEF RecInv
  <2>2. \A q \in Generations : j \in Saved(generation[q]) =>
           generation'[q].top = generation[q].top /\ j \in Saved(generation'[q])
    BY <1>1
  <2>3. generation[r].current # {j}
    BY <1>4
  <2>4. \A q \in Generations : generation[q].current = {j} =>
           /\ generation'[q].current = {j} /\ (generation'[q].cleared <=> generation[q].cleared)
           /\ generation'[q].left = generation[q].left
    BY <1>1, <2>3
  <2>5. PICK gs, ks, rw : gs = generation /\ ks = generation' /\ rw = rec'[j]
    OBVIOUS
  <2>6. /\ ItemsLinks(j, rw, gs, Existing)
        /\ \A q \in Generations : j \in Saved(gs[q]) => ks[q].top = gs[q].top /\ j \in Saved(ks[q])
        /\ \A q \in Generations : gs[q].current = {j} =>
             ks[q].current = {j} /\ (ks[q].cleared <=> gs[q].cleared) /\ ks[q].left = gs[q].left
    BY <2>1, <2>2, <2>4, <2>5
  <2>7. ItemsLinks(j, rw, ks, Existing)
    BY <2>6, OtherItemsKeepTheirLinks, OwnAndOtherAlerts
  <2> QED BY <1>2, <2>5, <2>7
<1>5. LinksTornOnlyMidSave'
  BY <1>1, <1>2, <1>4, LinksOfItemsAfter
<1>6. h.top \subseteq Existing
  BY RowAndItems
<1> QED BY <1>1, <1>3, <1>5, <1>6, GenerationGoesOn

LEMMA SaveItemInv ==
  ASSUME RecInv, NEW r \in Generations, NEW i \in Items, alert' = alert, SaveItem(r, i)
  PROVE  RecInv'
<1> DEFINE g == generation[r]
           h == [g EXCEPT !.upserted = g.upserted + 1, !.current = {i}, !.cleared = FALSE]
           row == UpsertedRec(rec[i], r)
<1>1. /\ GenerationOK(g) /\ rec[i] \in RecRow
      /\ ItemsLinks(i, rec[i], generation, Existing)
  BY RowAndItems, LinksOfItems DEF RecInv, RecTypeOK
<1>2. /\ g.stage = "save" /\ g.current = {} /\ g.upserted < Len(g.valid)
      /\ i = g.valid[g.upserted + 1]
      /\ rec' = [rec EXCEPT ![i] = row] /\ Becomes(r, h)
  BY DEF SaveItem, NoItem
<1>3. row \in RecRow /\ row.links = rec[i].links /\ row.status # "none"
  BY <1>1, RecRows
<1>4. GenerationOK(h) /\ h.top = g.top /\ h.current = {i} /\ Saved(h) = Saved(g) \cup {i} /\ ~h.cleared
  <2>1. GenerationOK(g) /\ g.stage = "save" /\ g.upserted < Len(g.valid) /\ i = g.valid[g.upserted + 1]
    BY <1>1, <1>2
  <2> HIDE DEF g
  <2> QED BY <2>1, SavesOK
<1>5. generation'[r] = h /\ \A q \in Generations : q # r => generation'[q] = generation[q]
  BY <1>2 DEF RecInv, RecTypeOK, Becomes
<1> HIDE DEF h, row
<1>6. ItemsLinks(i, row, generation', Existing)
  <2>1. row.links \subseteq Cites[i] \cap (Existing \cup OtherAlerts)
    BY <1>1, <1>3 DEF ItemsLinks
  <2>2. ASSUME ~(row.links \subseteq Existing)
        PROVE  \E q \in Generations : generation'[q].top = {} /\ i \in Saved(generation'[q])
    <3>1. PICK q \in Generations : generation[q].top = {} /\ i \in Saved(generation[q])
      BY <1>1, <1>3, <2>2 DEF ItemsLinks
    <3> QED BY <1>4, <1>5, <3>1
  <2> QED BY <1>4, <1>5, <2>1, <2>2 DEF ItemsLinks
<1> QED BY <1>2, <1>3, <1>4, <1>6, OneItemGoesOn

LEMMA ClearLinksInv ==
  ASSUME RecInv, NEW r \in Generations, NEW i \in Items, alert' = alert, ClearLinks(r, i)
  PROVE  RecInv'
<1> DEFINE g == generation[r]
           h == [g EXCEPT !.cleared = TRUE, !.left = Cites[i]]
           row == ClearedLinks(rec[i])
<1>1. GenerationOK(g) /\ rec[i] \in RecRow /\ Cites[i] \in SUBSET AlertIds
  BY RowAndItems, RecommendationConstants DEF RecInv, RecTypeOK
<1>2. /\ g.stage = "save" /\ g.current = {i}
      /\ rec' = [rec EXCEPT ![i] = row] /\ Becomes(r, h)
  BY DEF ClearLinks
<1>3. row \in RecRow /\ row.links = {} /\ row.status # "none"
  <2>1. i \in Saved(g)
    BY <1>1, <1>2, CurrentIsSaved
  <2> QED BY <1>1, <2>1, RecRows DEF RecInv, SavedItemsExist
<1>4. GenerationOK(h) /\ h.top = g.top /\ h.current = {i} /\ Saved(h) = Saved(g) /\ h.left = Cites[i]
  BY <1>1, <1>2, ClearsOK
<1>5. generation'[r] = h /\ \A q \in Generations : q # r => generation'[q] = generation[q]
  BY <1>2 DEF RecInv, RecTypeOK, Becomes
<1> HIDE DEF h, row
<1>6. ItemsLinks(i, row, generation', Existing)
  BY <1>3, <1>4, <1>5 DEF ItemsLinks
<1> QED BY <1>2, <1>3, <1>4, <1>6, OneItemGoesOn

LEMMA LinkAlertInv ==
  ASSUME RecInv, NEW r \in Generations, NEW i \in Items, NEW a \in AlertIds,
         alert' = alert, LinkAlert(r, i, a)
  PROVE  RecInv'
<1> DEFINE g == generation[r]
           row == LinkedAlert(rec[i], a)
           h == [g EXCEPT !.left = g.left \ {a}]
<1>1. /\ GenerationOK(g) /\ g.top \subseteq Existing /\ rec[i] \in RecRow
      /\ g.left \in SUBSET AlertIds /\ ItemsLinks(i, rec[i], generation, Existing)
  BY RowAndItems, LinksOfItems DEF RecInv, RecTypeOK, Generation
<1>2. g.stage = "save" /\ g.current = {i} /\ g.cleared /\ a \in g.left
  BY DEF LinkAlert
<1>3. i \in Saved(g)
  BY <1>1, <1>2, CurrentIsSaved
<1>4. a \in Cites[i]
  BY <1>1, <1>2 DEF GenerationOK, ItemsFollowStage
<1>5. g.top # {} => Cites[i] \subseteq g.top
  BY <1>1, <1>3, SavedItems
<1>6. CASE a \in Existing \cup OtherAlerts
  <2>1. rec' = [rec EXCEPT ![i] = row] /\ Becomes(r, h)
    BY <1>6 DEF LinkAlert
  <2>2. row \in RecRow /\ row.links = rec[i].links \cup {a} /\ row.status # "none"
    BY <1>1, <1>3, LinkedRow DEF RecInv, SavedItemsExist
  <2>3. /\ GenerationOK(h) /\ h.top = g.top /\ h.current = {i} /\ Saved(h) = Saved(g)
        /\ h.left = g.left \ {a} /\ (h.cleared <=> g.cleared)
    BY <1>1, <1>2, LinksOneOK
  <2>4. generation'[r] = h /\ \A q \in Generations : q # r => generation'[q] = generation[q]
    BY <2>1 DEF RecInv, RecTypeOK, Becomes
  <2> HIDE DEF h, row
  <2>5. row.links \subseteq Cites[i] \cap (Existing \cup OtherAlerts)
    BY <1>1, <1>4, <1>6, <2>2 DEF ItemsLinks
  <2>6. ASSUME ~(row.links \subseteq Existing)
        PROVE  \E q \in Generations : generation'[q].top = {} /\ i \in Saved(generation'[q])
    <3>1. CASE a \in Existing
      <4>1. PICK q \in Generations : generation[q].top = {} /\ i \in Saved(generation[q])
        BY <1>1, <2>2, <2>6, <3>1 DEF ItemsLinks
      <4> QED BY <2>3, <2>4, <4>1
    <3>2. CASE a \notin Existing
      BY <1>1, <1>3, <1>4, <1>5, <2>3, <2>4, <3>2
    <3> QED BY <3>1, <3>2
  <2>7. ASSUME row.links # Cites[i]
        PROVE  \E q \in Generations : /\ generation'[q].current = {i}
                                      /\ generation'[q].cleared => Cites[i] \ generation'[q].left \subseteq row.links
    <3>1. rec[i].links # Cites[i] /\ rec[i].status # "none"
      BY <1>3, <1>4, <2>2, <2>7 DEF RecInv, SavedItemsExist
    <3>2. PICK q \in Generations : /\ generation[q].current = {i}
                                   /\ generation[q].cleared => Cites[i] \ generation[q].left \subseteq rec[i].links
      BY <1>1, <3>1 DEF ItemsLinks
    <3>3. CASE q = r
      BY <1>2, <2>2, <2>3, <2>4, <3>2, <3>3
    <3>4. CASE q # r
      BY <2>2, <2>4, <3>2, <3>4
    <3> QED BY <3>3, <3>4
  <2>8. ItemsLinks(i, row, generation', Existing)
    BY <2>5, <2>6, <2>7 DEF ItemsLinks
  <2> QED BY <1>2, <2>1, <2>2, <2>3, <2>8, OneItemGoesOn
<1>7. CASE a \notin Existing \cup OtherAlerts
  <2> DEFINE k == [g EXCEPT !.refused = TRUE]
  <2>1. rec' = rec /\ \E x \in FailAndWrap(k) : Becomes(r, x)
    BY <1>7 DEF LinkAlert
  <2>2. PICK x \in FailAndWrap(k) : Becomes(r, x)
    BY <2>1
  <2>3. g.top = {}
    BY <1>1, <1>4, <1>5, <1>7
  <2>4. GenerationOK(k) /\ k.top = g.top /\ SameItems(g, k) /\ k.stage = "save"
    BY <1>1, <1>2, <2>3, RefusedOK
  <2> HIDE DEF k
  <2>5. GenerationOK(x) /\ x.top = g.top /\ SameItems(k, x)
    BY <2>4, FailsOK
  <2>6. SameItems(g, x)
    BY <2>4, <2>5 DEF SameItems
  <2> QED BY <1>1, <2>1, <2>2, <2>5, <2>6, OnlyTheRowGoesOn
<1> QED BY <1>6, <1>7

LEMMA ItemLinkedInv ==
  ASSUME RecInv, NEW r \in Generations, NEW i \in Items, alert' = alert, ItemLinked(r, i)
  PROVE  RecInv'
<1> DEFINE g == generation[r]
           h == [g EXCEPT !.current = NoItem, !.cleared = FALSE]
<1>1. /\ GenerationOK(g) /\ rec[i] \in RecRow
      /\ ItemsLinks(i, rec[i], generation, Existing)
  BY RowAndItems, LinksOfItems DEF RecInv, RecTypeOK
<1>2. g.stage = "save" /\ g.current = {i} /\ g.left = {} /\ g.cleared /\ Becomes(r, h) /\ rec' = rec
  BY DEF ItemLinked
<1>3. rec' = [rec EXCEPT ![i] = rec[i]]
  BY <1>2 DEF RecInv, RecTypeOK
<1>4. GenerationOK(h) /\ h.top = g.top /\ Saved(h) = Saved(g)
  BY <1>1, <1>2, LinkedOK
<1>5. generation'[r] = h /\ \A q \in Generations : q # r => generation'[q] = generation[q]
  BY <1>2 DEF RecInv, RecTypeOK, Becomes
<1>6. rec[i].status # "none"
  BY <1>1, <1>2, CurrentIsSaved DEF RecInv, SavedItemsExist
<1> HIDE DEF h
<1>7. ItemsLinks(i, rec[i], generation', Existing)
  <2>1. rec[i].links \subseteq Cites[i] \cap (Existing \cup OtherAlerts)
    BY <1>1 DEF ItemsLinks
  <2>2. ASSUME ~(rec[i].links \subseteq Existing)
        PROVE  \E q \in Generations : generation'[q].top = {} /\ i \in Saved(generation'[q])
    <3>1. PICK q \in Generations : generation[q].top = {} /\ i \in Saved(generation[q])
      BY <1>1, <2>2 DEF ItemsLinks
    <3> QED BY <1>4, <1>5, <3>1
  <2>3. ASSUME rec[i].links # Cites[i]
        PROVE  \E q \in Generations : /\ generation'[q].current = {i}
                                      /\ generation'[q].cleared => Cites[i] \ generation'[q].left \subseteq rec[i].links
    <3>1. PICK q \in Generations : /\ generation[q].current = {i}
                                   /\ generation[q].cleared => Cites[i] \ generation[q].left \subseteq rec[i].links
      BY <1>1, <1>6, <2>3 DEF ItemsLinks
    <3>2. q # r
      BY <1>2, <2>1, <2>3, <3>1
    <3> QED BY <1>5, <3>1, <3>2
  <2> QED BY <2>1, <2>2, <2>3 DEF ItemsLinks
<1> QED BY <1>1, <1>2, <1>3, <1>4, <1>6, <1>7, OneItemGoesOn

LEMMA DecideInv ==
  ASSUME RecInv, NEW i \in Items, alert' = alert, Decide(i)
  PROVE  RecInv'
<1>1. PICK d \in {AcceptedRec(rec[i]), DismissedRec(rec[i]), ResolvedRec(rec[i])} :
        rec' = [rec EXCEPT ![i] = d]
  BY DEF Decide
<1>2. generation' = generation /\ rec[i].status # "none" /\ rec[i] \in RecRow
  BY DEF Decide, RecInv, RecTypeOK
<1>3. d \in RecRow /\ d.links = rec[i].links /\ d.status # "none"
  BY <1>1, <1>2, DecidedRow
<1> HIDE DEF AcceptedRec, DismissedRec, ResolvedRec
<1>4. /\ rec' \in [Items -> RecRow] /\ rec'[i] = d
      /\ \A j \in Items : j # i => rec'[j] = rec[j]
  BY <1>1, <1>3 DEF RecInv, RecTypeOK
<1>5. \A j \in Items : rec'[j].links = rec[j].links /\ (rec'[j].status # "none" <=> rec[j].status # "none")
  BY <1>2, <1>3, <1>4
<1>6. (\A f \in Fingerprints : Exists(f)' <=> Exists(f)) /\ Existing' = Existing
  BY DEF Exists, Existing
<1>7. LinksTornOnlyMidSave'
  <2>1. \A j \in Items : ItemsLinks(j, rec[j], generation, Existing)
    BY LinksOfItems DEF RecInv
  <2>2. \A j \in Items : ItemsLinks(j, rec'[j], generation', Existing')
    BY <1>2, <1>5, <1>6, <2>1 DEF ItemsLinks
  <2> QED BY <2>2, LinksOfItemsAfter
<1>8. SavedItemsExist'
  <2>1. \A q \in Generations : \A j \in Saved(generation[q]) : j \in Items
    BY RowAndItems, SavedItems
  <2> QED BY <1>2, <1>5, <2>1 DEF RecInv, SavedItemsExist, Saved
<1> QED BY <1>2, <1>4, <1>6, <1>7, <1>8 DEF RecInv, RecTypeOK

\* A step of the alert engine only adds alerts.
LEMMA AlertStepKeepsRecInv ==
  ASSUME RecInv, UNCHANGED recVars, \A f \in Fingerprints : Exists(f) => Exists(f)'
  PROVE  RecInv'
<1>1. rec' = rec /\ generation' = generation
  BY DEF recVars
<1>2. Existing \subseteq Existing' /\ Existing' \cap OtherAlerts = {}
  BY RecommendationConstants DEF Existing
<1>3. ASSUME NEW i \in Items
      PROVE  ItemsLinks(i, rec'[i], generation', Existing')
  <2>1. ItemsLinks(i, rec'[i], generation, Existing)
    BY <1>1, LinksOfItems DEF RecInv
  <2> QED BY <1>1, <1>2, <2>1, OtherItemsKeepTheirLinks
<1>4. LinksTornOnlyMidSave' /\ SavedItemsExist'
  BY <1>1, <1>3, LinksOfItemsAfter DEF RecInv, SavedItemsExist, Saved
<1> QED BY <1>1, <1>2, <1>4 DEF RecInv, RecTypeOK

LEMMA NextRecInv ==
  AlertInv /\ RecInv /\ [InsightsNext]_<<alertVars, recVars>> => AlertInv' /\ RecInv'
<1> SUFFICES ASSUME AlertInv, RecInv, [InsightsNext]_<<alertVars, recVars>>
             PROVE  AlertInv' /\ RecInv'
  OBVIOUS
<1>1. CASE [AlertNext]_alertVars /\ UNCHANGED recVars
  <2>1. AlertInv' /\ \A f \in Fingerprints : Exists(f) => Exists(f)'
    BY <1>1, NextAlertInv, AlertsStay
  <2> QED BY <1>1, <2>1, AlertStepKeepsRecInv
<1>2. CASE RecNext /\ UNCHANGED alertVars
  <2>1. AlertInv' /\ alert' = alert
    BY <1>2, NextAlertInv DEF alertVars
  <2>2. RecInv'
    <3>1. CASE \E r \in Generations : StartGeneration(r) \/ ReadOpenAlerts(r) \/ ReadAlertCounts(r)
      BY <2>1, <3>1, ReadContextInv
    <3>2. CASE \E r \in Generations : JudgeAnswer(r)
      BY <2>1, <3>2, JudgeAnswerInv
    <3>3. CASE \E r \in Generations : \E i \in Items : SaveItem(r, i)
      BY <2>1, <3>3, SaveItemInv
    <3>4. CASE \E r \in Generations : \E i \in Items : ClearLinks(r, i)
      BY <2>1, <3>4, ClearLinksInv
    <3>5. CASE \E r \in Generations : \E i \in Items : ItemLinked(r, i)
      BY <2>1, <3>5, ItemLinkedInv
    <3>6. CASE \E r \in Generations : \E i \in Items, a \in AlertIds : LinkAlert(r, i, a)
      BY <2>1, <3>6, LinkAlertInv
    <3>7. CASE \E r \in Generations :
                 \/ AfterSave(r) \/ StoreDiagnostic(r) \/ CompleteGeneration(r)
                 \/ GenerationFails(r) \/ GenerationDies(r)
      BY <2>1, <3>7, AfterItemsInv
    <3>8. CASE \E i \in Items : Decide(i)
      BY <2>1, <3>8, DecideInv
    <3> QED BY <1>2, <3>1, <3>2, <3>3, <3>4, <3>5, <3>6, <3>7, <3>8 DEF RecNext
  <2> QED BY <2>1, <2>2
<1> QED BY <1>1, <1>2 DEF InsightsNext

-----------------------------------------------------------------------------
(* The properties the runs check. *)

\* The alert engine and the generator keep each other's invariant.
THEOREM InsightsInvHolds == InsightsSpec => [](AlertInv /\ RecInv)
<1>1. AlertInit /\ RecInit => AlertInv /\ RecInv
  BY InitAlertInv, InitRecInv
<1> QED BY <1>1, NextRecInv, PTL DEF InsightsSpec

\* Every row of the recommendations store is one the tables admit.
THEOREM RecommendationsAreTyped == InsightsSpec => []RecTypeOK
<1>1. RecInv => RecTypeOK
  BY DEF RecInv
<1> QED BY <1>1, InsightsInvHolds, PTL

\* The links of a recommendation are whole unless a generation is, or was, between them.
THEOREM LinksAreWhole == InsightsSpec => []LinksTornOnlyMidSave
<1>1. RecInv => LinksTornOnlyMidSave
  BY DEF RecInv
<1> QED BY <1>1, InsightsInvHolds, PTL

\* The foreign key refuses a link only after a context without alerts.
THEOREM ValidatedLinksAreAccepted == InsightsSpec => []RefusedOnlyWithoutContext
<1>1. RecInv => RefusedOnlyWithoutContext
  BY RowAndItems, SavedItems DEF GenerationOK, ItemsFollowStage, RefusedOnlyWithoutContext
<1> QED BY <1>1, InsightsInvHolds, PTL

\* A completed generation has stored, linked, counted and diagnosed every valid item.
THEOREM CompletedGenerationsAreWhole == InsightsSpec => []CompletedGenerationIsWhole
<1>1. RecInv => CompletedGenerationIsWhole
  <2> SUFFICES ASSUME RecInv, NEW r \in Generations, generation[r].status = "completed"
               PROVE  /\ generation[r].diagnostic = "completed"
                      /\ generation[r].count = Len(generation[r].valid) /\ generation[r].current = NoItem
                      /\ \A k \in DOMAIN generation[r].valid : rec[generation[r].valid[k]].status # "none"
                      /\ generation[r].top # {} \/ generation[r].openTotal > 0 => generation[r].count > 0
    BY DEF CompletedGenerationIsWhole
  <2>1. /\ RowFollowsStage(generation[r]) /\ ItemsFollowStage(generation[r])
        /\ generation[r] \in Generation
    BY DEF RecInv, RecTypeOK
  <2>2. \A k \in DOMAIN generation[r].valid : generation[r].valid[k] \in Saved(generation[r])
    BY <2>1 DEF ItemsFollowStage, Saved, Generation
  <2>3. \A k \in DOMAIN generation[r].valid : rec[generation[r].valid[k]].status # "none"
    BY <2>2 DEF RecInv, SavedItemsExist
  <2> QED BY <2>1, <2>3 DEF RowFollowsStage, ItemsFollowStage
<1> QED BY <1>1, InsightsInvHolds, PTL

\* A generation is left "running" only by a lost write, and a failed one has said why.
THEOREM StuckGenerationsLostTheirLastWrite == InsightsSpec => []StuckGenerationLostItsLastWrite
<1>1. RecInv => StuckGenerationLostItsLastWrite
  BY DEF RecInv, RowFollowsStage, StuckGenerationLostItsLastWrite, Generating
<1> QED BY <1>1, InsightsInvHolds, PTL

\* No generation takes back what the user decided, or rewrites the text he decided on.
THEOREM RecommendationDecisionsAreKept == InsightsSpec => GenerationsKeepDecisions
<1>1. ASSUME RecInv, [InsightsNext]_<<alertVars, recVars>>
      PROVE  [\A i \in Items :
                rec[i].status \in {"accepted", "dismissed"} =>
                   /\ rec'[i].body = rec[i].body
                   /\ rec'[i].status # "open"
                   /\ generation' # generation => rec'[i].status = rec[i].status]_<<rec, generation>>
  <2> DEFINE Keeps(i) == rec[i].status \in {"accepted", "dismissed"} =>
               /\ rec'[i].body = rec[i].body /\ rec'[i].status # "open"
               /\ generation' # generation => rec'[i].status = rec[i].status
  <2> SUFFICES [\A i \in Items : Keeps(i)]_<<rec, generation>>
    OBVIOUS
  <2>0. rec \in [Items -> RecRow]
    BY <1>1 DEF RecInv, RecTypeOK
  <2>1. CASE rec' = rec
    BY <2>1
  <2>2. CASE \E r \in Generations : \E i \in Items : SaveItem(r, i) \/ ClearLinks(r, i)
    <3> PICK r \in Generations, i \in Items : SaveItem(r, i) \/ ClearLinks(r, i)
      BY <2>2
    <3>1. /\ rec'[i] = UpsertedRec(rec[i], r) \/ rec'[i] = ClearedLinks(rec[i])
          /\ \A j \in Items : j # i => rec'[j] = rec[j]
      BY <2>0 DEF SaveItem, ClearLinks
    <3>2. rec[i] \in RecRow
      BY <2>0
    <3>3. Keeps(i)
      BY <3>1, <3>2, RecRows
    <3>4. \A j \in Items : j # i => Keeps(j)
      BY <3>1
    <3> QED BY <3>3, <3>4
  <2>3. CASE \E r \in Generations : \E i \in Items, a \in AlertIds : LinkAlert(r, i, a)
    <3> PICK r \in Generations, i \in Items, a \in AlertIds : LinkAlert(r, i, a)
      BY <2>3
    <3>1. /\ rec'[i] = LinkedAlert(rec[i], a) \/ rec' = rec
          /\ \A j \in Items : j # i => rec'[j] = rec[j]
      BY <2>0 DEF LinkAlert
    <3>2. rec[i] \in RecRow
      BY <2>0
    <3>3. Keeps(i)
      BY <3>1, <3>2, LinkedRow
    <3>4. \A j \in Items : j # i => Keeps(j)
      BY <3>1
    <3> QED BY <3>3, <3>4
  <2>4. CASE \E i \in Items : Decide(i)
    <3> PICK i \in Items : Decide(i)
      BY <2>4
    <3>1. PICK d \in {AcceptedRec(rec[i]), DismissedRec(rec[i]), ResolvedRec(rec[i])} :
            rec' = [rec EXCEPT ![i] = d]
      BY DEF Decide
    <3>2. generation' = generation /\ d.body = rec[i].body /\ d.status \in {"accepted", "dismissed", "resolved"}
      BY <2>0, DecidedRow DEF Decide
    <3>3. rec'[i] = d /\ \A j \in Items : j # i => rec'[j] = rec[j]
      BY <2>0, <3>1
    <3>4. Keeps(i) /\ \A j \in Items : j # i => Keeps(j)
      BY <3>2, <3>3
    <3> QED BY <3>4
  <2>5. CASE UNCHANGED recVars
    BY <2>5 DEF recVars
  <2> HIDE DEF Keeps
  <2> QED
    BY <1>1, <2>1, <2>2, <2>3, <2>4, <2>5
       DEF InsightsNext, RecNext, StartGeneration, ReadOpenAlerts, ReadAlertCounts, JudgeAnswer,
           ItemLinked, AfterSave, StoreDiagnostic, CompleteGeneration, GenerationFails, GenerationDies
<1> QED BY <1>1, InsightsInvHolds, PTL DEF InsightsSpec, GenerationsKeepDecisions

=============================================================================
