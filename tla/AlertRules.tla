----------------------------- MODULE AlertRules -----------------------------
(***************************************************************************)
(* The alert rules (src/backend/internal/alerts/*_rules.go) and the risk   *)
(* signals of the advertising screen, as functions of the facts about one  *)
(* product, its campaign and its price.  A verdict is a pair of ranks,     *)
(* severity and urgency: 0 is no alert, 1 low, 2 medium, 3 high and 4      *)
(* critical or immediate.  Ratios are compared by multiplication.          *)
(* The advertising screen shows two weeks, of which the alerts read the    *)
(* second; what was before is of the first.                                *)
(***************************************************************************)
EXTENDS MetricReads

CONSTANTS Situations,   \* the facts the days start from, each about one of Topics
          Notch,        \* how much money moves in one step
          MaxDemand, MaxSpend     \* bounds

VARIABLE facts

Topics == {"stock", "sales", "ads", "price"}
(* sold and soldBefore: the product has a row of the day, and of the day
   before; only where sales are the topic may it have none of the day.
   adDays: how many daily rows the campaign has in the two weeks, one half of
   them in each; clicks and impressions are of both. *)
Facts == [about : Topics, stock : Int, demand : Nat, importance : Nat,
          sold : BOOLEAN, revenue : Int, orders : Nat, soldBefore : BOOLEAN, before : Int, ordersBefore : Nat,
          others : Int, spend : Int, adRevenue : Int, adOrders : Nat, spendBefore : Int, adRevenueBefore : Int,
          adOrdersBefore : Nat, adDays : Nat, clicks : Nat, impressions : Nat,
          price : Int, min : Int, max : Int, cost : Int]

ASSUME RuleConstants ==
    /\ {Notch, MaxDemand, MaxSpend} \subseteq Nat \ {0}
    /\ Situations \subseteq Facts
    /\ \A f \in Situations : f.about # "sales" => f.sold

Calm == <<0, 0>>
Medium == <<2, 2>>
High == <<3, 3>>
Immediate == <<4, 4>>
Rank(verdicts, i) == Max({v[i] : v \in verdicts})

cover(f) == calcDaysOfCover(f.stock, f.demand)      \* -1: there is none
CoverWithin(f, days) == cover(f) \in 0 .. 100 * days

-----------------------------------------------------------------------------
(* Stock. *)

evaluateStockLowCoverage(f) ==
    IF f.stock > 0 /\ CoverWithin(f, 7) /\ ~ CoverWithin(f, 3) THEN Medium ELSE Calm

\* Mutant: a product with less than a day of cover is only of medium severity.
severityForOOSRiskShort(f) == IF f.stock <= 0 THEN 4 ELSE IF cover(f) \in 0 .. 99 THEN 2 ELSE 3

severityForOOSRisk(f) == IF f.stock <= 0 \/ cover(f) \in 0 .. 99 THEN 4 ELSE 3

urgencyForOOSRisk(f) == IF f.stock <= 0 THEN 4 ELSE 3
evaluateStockOOSRisk(f) ==
    IF f.stock <= 0 \/ CoverWithin(f, 3) THEN <<severityForOOSRisk(f), urgencyForOOSRisk(f)>> ELSE Calm

severityForCriticalSKULowStock(f) == IF f.stock <= 0 \/ CoverWithin(f, 3) THEN 4 ELSE 3
evaluateStockCriticalSKULowStock(f) ==
    IF (f.revenue >= 10000 \/ f.orders >= 5) /\ (f.stock <= 0 \/ CoverWithin(f, 7))
    THEN <<severityForCriticalSKULowStock(f), IF f.stock <= 0 THEN 4 ELSE 3>> ELSE Calm

EvaluateStockRules(f) ==
    {evaluateStockOOSRisk(f), evaluateStockLowCoverage(f), evaluateStockCriticalSKULowStock(f)}

resolveStockSignal(f) == IF f.stock <= 0 THEN 2 ELSE IF f.stock <= 3 \/ CoverWithin(f, 3) THEN 1 ELSE 0

-----------------------------------------------------------------------------
(* Sales: the fall since the day before, of the product and of the account. *)

Fell(current, previous, percent) == previous > 0 /\ 100 * (current - previous) <= -percent * previous

severityForAccountDrop(c, p) == IF Fell(c, p, 60) THEN 4 ELSE IF Fell(c, p, 40) THEN 3 ELSE 2
evaluateSalesRevenueDrop(c, p) ==
    LET severity == severityForAccountDrop(c, p)
    IN IF Fell(c, p, 30) THEN <<severity, Min({severity, 3})>> ELSE Calm
evaluateSalesOrdersDrop(c, p) == evaluateSalesRevenueDrop(c, p)      \* the same thresholds

severityForSKURevenueDrop(f) ==
    IF Fell(f.revenue, f.before, 70) THEN 4 ELSE IF Fell(f.revenue, f.before, 50) THEN 3 ELSE 2
evaluateSKURevenueDrop(f) ==
    LET severity == severityForSKURevenueDrop(f)
    IN IF f.before >= 1000 /\ Fell(f.revenue, f.before, 40) THEN <<severity, Min({severity, 3})>> ELSE Calm

severityForContributionShare(part, whole) ==
    IF 10 * part >= 5 * whole THEN 4 ELSE IF 10 * part >= 3 * whole THEN 3 ELSE 2
evaluateSKUNegativeContribution(f) ==
    LET part == f.before - f.revenue
        whole == part - f.others             \* how much the account lost
        severity == severityForContributionShare(part, whole)
    IN IF whole > 0 /\ part > 0 /\ 5 * part >= whole THEN <<severity, Min({severity, 3})>> ELSE Calm

(* The rest of the account sold AccountRest, changed by f.others, in three
   orders. *)
AccountRest == 5000
AccountDrops(f) ==
    {evaluateSalesRevenueDrop(f.revenue + AccountRest + f.others, f.before + AccountRest),
     evaluateSalesOrdersDrop(f.orders + 3, f.ordersBefore + 3)}
EvaluateSalesRules(f) ==
    AccountDrops(f) \cup IF f.sold /\ f.soldBefore
                         THEN {evaluateSKURevenueDrop(f), evaluateSKUNegativeContribution(f)} ELSE {}

(* The screen compares the product's last two rows; it has none but those of
   the two days. *)
latestRevenue(f) == IF f.sold THEN f.revenue ELSE IF f.soldBefore THEN f.before ELSE 0
resolveSalesTrendSignal(f) ==
    IF ~ f.sold \/ ~ f.soldBefore THEN IF latestRevenue(f) <= 0 THEN 1 ELSE 0
    ELSE IF f.before > 0 /\ (f.revenue <= 0 \/ 10 * f.revenue < 8 * f.before) THEN 2
    ELSE IF f.orders < f.ordersBefore THEN 1 ELSE 0

-----------------------------------------------------------------------------
(* Advertising. *)

severityForAdSpendWithoutResult(f) == IF f.spend >= 10000 THEN 4 ELSE IF f.spend >= 3000 THEN 3 ELSE 2
evaluateAdSpendWithoutResult(f) ==
    LET severity == severityForAdSpendWithoutResult(f)
    IN IF f.spend >= 1000 /\ (f.adOrders = 0 \/ f.adRevenue <= 0) THEN <<severity, Min({severity, 3})>> ELSE Calm

severityForAdROAS(f) ==
    IF 10 * f.adRevenue < 3 * f.spend THEN 4 ELSE IF 4 * f.adRevenue < 3 * f.spend THEN 3 ELSE 2
evaluateAdWeakCampaignEfficiency(f) ==
    LET severity == severityForAdROAS(f)
    IN IF f.adRevenue > 0 /\ f.adRevenue < f.spend THEN <<severity, Min({severity, 3})>> ELSE Calm

evaluateAdBudgetOnLowStockSKU(f) ==
    CASE f.spend <= 0 \/ (f.stock > 0 /\ ~ CoverWithin(f, 7)) -> Calm
      [] f.spend > 0 /\ f.stock <= 0 -> Immediate
      [] f.spend > 0 /\ f.stock > 0 /\ CoverWithin(f, 3) -> High
      [] f.spend > 0 /\ f.stock > 0 /\ CoverWithin(f, 7) /\ ~ CoverWithin(f, 3) -> Medium

EvaluateAdvertisingRules(f) ==
    {evaluateAdSpendWithoutResult(f), evaluateAdWeakCampaignEfficiency(f), evaluateAdBudgetOnLowStockSKU(f)}

(* The second half of the days spent a fifth more and ordered hardly more. *)
hasSpendGrowthWithoutResult(f) ==
    /\ f.adDays >= 4
    /\ f.spendBefore > 0 /\ 5 * (f.spend - f.spendBefore) >= f.spendBefore
    /\ \/ f.adOrdersBefore = 0 /\ f.adOrders = 0
       \/ f.adOrdersBefore > 0 /\ 20 * (f.adOrders - f.adOrdersBefore) < f.adOrdersBefore

spendTotal(f) == f.spend + f.spendBefore
ctrIsLow(f) == f.impressions = 0 \/ 200 * f.clicks < f.impressions
cpcIsHigh(f) == f.clicks > 0 /\ spendTotal(f) > 60 * f.clicks       \* without clicks it counts as 0
campaignEfficiencySignal(f) ==
    IF spendTotal(f) <= 0 THEN 0
    ELSE IF hasSpendGrowthWithoutResult(f) THEN 2
    ELSE IF \/ f.adOrders + f.adOrdersBefore = 0 \/ f.adRevenue + f.adRevenueBefore < spendTotal(f)
            \/ ctrIsLow(f) \/ cpcIsHigh(f)
    THEN 1 ELSE 0

resolveAdWasteSignal(f) ==                      \* a product's share of the spend has its sign
    IF spendTotal(f) <= 0 THEN 0 ELSE Max({resolveSalesTrendSignal(f), campaignEfficiencySignal(f)})

-----------------------------------------------------------------------------
(* Prices.  A bound or a cost of 0 is not known. *)

evaluatePriceBelowMinConstraint(f) ==
    IF f.price > 0 /\ f.min # 0 /\ f.price < f.min
    THEN IF 10 * (f.min - f.price) >= f.min THEN Immediate ELSE High
    ELSE Calm

evaluatePriceAboveMaxConstraint(f) ==
    IF f.max # 0 /\ f.price > f.max
    THEN IF 10 * (f.price - f.max) > f.max THEN High ELSE Medium
    ELSE Calm

severityUrgencyForExpectedMargin(f) ==
    IF f.price < f.cost THEN Immediate ELSE IF 20 * (f.price - f.cost) < f.price THEN High ELSE Medium
evaluateMarginRiskAtCurrentPrice(f) ==
    IF f.price > 0 /\ f.cost # 0 /\ 10 * (f.price - f.cost) < f.price
    THEN severityUrgencyForExpectedMargin(f) ELSE Calm

evaluateMissingPricingConstraintsForKeySKU(f) ==
    IF f.min = 0 /\ f.max = 0 /\ f.cost = 0 /\ (f.revenue >= 10000 \/ f.orders >= 5)
    THEN IF f.revenue >= 30000 \/ f.orders >= 15 THEN High ELSE Medium
    ELSE Calm

EvaluatePriceEconomicsRules(f) ==
    {evaluatePriceBelowMinConstraint(f), evaluateMarginRiskAtCurrentPrice(f),
     evaluatePriceAboveMaxConstraint(f), evaluateMissingPricingConstraintsForKeySKU(f)}

-----------------------------------------------------------------------------
(* From one day to the next one quantity gets worse, or the product stops
   selling and has no row of the day.  A price falls from its upper bound:
   above it a lower price is a better one. *)
Day(about) == facts.about = about
StockSells == Day("stock") /\ facts.stock >= 0 /\ facts' = [facts EXCEPT !.stock = @ - 1]
DemandGrows == Day("stock") /\ facts.demand < MaxDemand /\ facts' = [facts EXCEPT !.demand = @ + 1]
RevenueFalls == Day("sales") /\ facts.sold /\ facts.revenue >= Notch
                /\ facts' = [facts EXCEPT !.revenue = @ - Notch]
OrdersFall == Day("sales") /\ facts.sold /\ facts.orders > 0 /\ facts' = [facts EXCEPT !.orders = @ - 1]
SalesStop == Day("sales") /\ facts.sold /\ facts.revenue >= 0
             /\ facts' = [facts EXCEPT !.sold = FALSE, !.revenue = 0, !.orders = 0]
SpendGrows == Day("ads") /\ facts.spend < MaxSpend /\ facts' = [facts EXCEPT !.spend = @ + Notch]
AdOrdersFall == Day("ads") /\ facts.adOrders > 0 /\ facts' = [facts EXCEPT !.adOrders = @ - 1]
AdRevenueFalls == Day("ads") /\ facts.adRevenue >= Notch /\ facts' = [facts EXCEPT !.adRevenue = @ - Notch]
PriceFalls == Day("price") /\ facts.price \in 2 .. facts.max /\ facts' = [facts EXCEPT !.price = @ - 1]

RulesInit == facts \in Situations
RulesNext == \/ StockSells \/ DemandGrows \/ RevenueFalls \/ OrdersFall \/ SalesStop
             \/ SpendGrows \/ AdOrdersFall \/ AdRevenueFalls \/ PriceFalls
RulesSpec == RulesInit /\ [][RulesNext]_facts

-----------------------------------------------------------------------------
Verdicts(f) == CASE f.about = "stock" -> EvaluateStockRules(f) \cup EvaluateAdvertisingRules(f)
                 [] f.about = "sales" -> EvaluateSalesRules(f)
                 [] f.about = "ads" -> EvaluateAdvertisingRules(f) [] f.about = "price" -> EvaluatePriceEconomicsRules(f)
                 [] OTHER -> {Calm}
StockRanks(f) ==
    [depletionRisk |-> classifyDepletionRisk(f.stock, cover(f)), stockRisk |-> classifyStockRisk(f.stock, cover(f)),
     adStock |-> resolveStockSignal(f), chatProblem |-> criticalProblemScore(f.stock, cover(f), f.revenue),
     criticalSKU |-> calcOutOfStockRisk(f.stock, cover(f)),
     priority |-> classifyReplenishmentPriority(f.stock, cover(f), f.importance)]

(* The alert, the replenishment screen and the chat tool call the same
   products out of stock or nearly so. *)
StockIsToldAlike ==
    Day("stock") =>
      /\ evaluateStockOOSRisk(facts) # Calm <=> classifyDepletionRisk(facts.stock, cover(facts)) >= 3
      /\ classifyDepletionRisk(facts.stock, cover(facts)) = classifyStockRisk(facts.stock, cover(facts))
      /\ Rank(EvaluateStockRules(facts), 2) = 4 <=> resolveStockSignal(facts) = 2

(* The places where the code does get calmer.  A product without a row of the
   day has no alert of its own, and the screen looks at its row of the day
   before.  Without any revenue a campaign no longer counts as inefficient but
   as without result, which weighs less below a spend of 10000 and is no alert
   below 1000.  The critical SKUs give three units less than a larger stock of
   at most a day; to replenish an empty stock has priority only if the product
   matters, one below zero never. *)
StopsSelling == facts.sold /\ ~ facts'.sold
LosesItsRevenue == facts.adRevenue > 0 /\ facts'.adRevenue <= 0 /\ facts.spend < 10000
CalmAtThreeUnits == facts.stock > 3 /\ facts'.stock \in 1 .. 3 /\ cover(facts) \in 0 .. 100
CalmWhenEmpty == facts'.stock < 0 \/ (facts'.stock = 0 /\ facts.importance < 5)

AlertsGetNoCalmer ==
    \A i \in 1 .. 2 :
      /\ \/ Rank(Verdicts(facts'), i) >= Rank(Verdicts(facts), i)
         \/ StopsSelling
         \/ LosesItsRevenue /\ (facts.spend >= 1000 => Rank(Verdicts(facts'), i) >= 2)
      /\ Day("sales") => Rank(AccountDrops(facts'), i) >= Rank(AccountDrops(facts), i)
StockScreensGetNoCalmer ==
    \A screen \in DOMAIN StockRanks(facts) :
      \/ StockRanks(facts')[screen] >= StockRanks(facts)[screen]
      \/ screen = "criticalSKU" /\ CalmAtThreeUnits
      \/ screen = "priority" /\ CalmWhenEmpty
SignalsGetNoCalmer ==
    \/ /\ resolveSalesTrendSignal(facts') >= resolveSalesTrendSignal(facts)
       /\ resolveAdWasteSignal(facts') >= resolveAdWasteSignal(facts)
    \/ StopsSelling

(* When one fact about a product, its campaign or its price gets worse and the
   others stay, neither the worst severity nor the worst urgency of its alerts
   goes down, no rank by its stock does on the screens and in the chat, nor do
   the signals of the advertising screen, except in the places named above;
   and the screens keep telling of the stock what the alerts tell. *)
WorseIsNeverCalmer ==
    /\ []StockIsToldAlike
    /\ [][AlertsGetNoCalmer /\ (Day("stock") => StockScreensGetNoCalmer) /\ SignalsGetNoCalmer]_facts
=============================================================================
