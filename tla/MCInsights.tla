----------------------------- MODULE MCInsights -----------------------------
(* The alert engine and the recommendation generator on one alert table. *)
EXTENDS Recommendations

(* A sales alert that fires on every version of the metrics, and an advertising
   alert that two campaigns report for one SKU after the rebuild. *)
MCFingerprints == {1, 2}
MCGroupOf == <<1, 3>>
MCEmits == <<1, 2>>
MCFires == [v \in 0 .. 1 |-> IF v = 0 THEN {1} ELSE {1, 2}]
MCAlertRuns == 1 .. 2

(* An item that cites both alerts, which need not be there yet, and one that cites
   an alert of another account. *)
MCGenerations == 1 .. 2
MCItems == {"two", "other"}
MCOtherAlerts == {98}
MCAlertIds == MCFingerprints \cup MCOtherAlerts
MCCites == [i \in MCItems |-> IF i = "two" THEN {1, 2} ELSE {98}]

(* What a behaviour may start: two alert runs, a run and a generation, or two
   generations over the alerts of an earlier run. *)
VARIABLE scenario
Scenarios == {[runs |-> 2, generations |-> 0], [runs |-> 1, generations |-> 1],
              [runs |-> 0, generations |-> 2]}

vars == <<alertVars, recVars, scenario>>

Init ==
    /\ AlertInit /\ RecInit
    /\ scenario \in Scenarios

EarlierRun ==
    /\ scenario.runs = 0
    /\ \A f \in Fingerprints : ~Exists(f)
    /\ alert' = [f \in Fingerprints |-> FreshAlert(0)]
    /\ UNCHANGED <<alertRun, engine, data, decision>>

(* Bounds: the user decides on one open recommendation, and only where no alert
   run interferes; only the first generation is broken off before it saves, and
   only it gets two valid items, which may be one item twice. *)
InsightsBound ==
    /\ \A i \in Items : generation' = generation /\ rec'[i] # rec[i] =>
                        i = "two" /\ rec[i].status = "open" /\ scenario.runs = 0
    /\ generation'[2].lost /\ ~generation[2].lost => generation[2].stage \in {"save", "complete"}
    /\ Len(generation'[2].valid) <= 1

Next ==
    /\ \/ scenario.runs > 0 /\ AlertNext /\ UNCHANGED recVars
       \/ EarlierRun /\ UNCHANGED recVars
       \/ RecNext /\ UNCHANGED alertVars
    /\ Cardinality({r \in AlertRuns : engine'[r].stage > 0}) <= scenario.runs
    /\ Cardinality({r \in Generations : generation'[r].stage # "idle"}) <= scenario.generations
    /\ InsightsBound
    /\ UNCHANGED scenario

Spec == Init /\ [][Next]_vars
=============================================================================
