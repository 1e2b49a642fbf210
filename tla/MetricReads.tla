---------------------------- MODULE MetricReads ----------------------------
(***************************************************************************)
(* What the screens and the chat tools make of the daily metrics           *)
(* (src/backend/internal/analytics, internal/chat).  Scores are counted in *)
(* tenths, shares compared by multiplication, money in cents: the rounding *)
(* of internal/analytics (math.Round) leaves a whole number of cents as it *)
(* is, that of internal/chat does not.                                     *)
(***************************************************************************)
EXTENDS Analytics

accountRows == [d \in DOMAIN daily["account"] |-> daily["account"][d].row]
skuDay(d) == LET keys == {k \in DOMAIN daily["sku"] : k[1] = d}
             IN [p \in {k[2] : k \in keys} |-> daily["sku"][<<d, p>>].row]

NoAccountRow == [revenue |-> 0, orders |-> 0, returns |-> 0, cancels |-> 0]
NoSKURow == [revenue |-> 0, orders |-> 0, stock |-> 0, cover |-> -1]
At(rows, k, none) == IF k \in DOMAIN rows THEN rows[k] ELSE none

(* The first items of a list that is ordered by a score, then by product. *)
Top(items, score(_), limit) ==
    {i \in items : Cardinality({j \in items : score(j) > score(i)
                                  \/ (score(j) = score(i) /\ j.product < i.product)}) < limit}

sumRevenueForRange(from, to) ==
    SumFunction([d \in from .. to |-> At(accountRows, d, NoAccountRow).revenue])

getLatestDashboardDate == Max({0} \cup DOMAIN daily["account"] \cup {k[1] : k \in DOMAIN daily["sku"]})
resolveAsOfDate(asked, today) ==      \* day 0 is 1970-01-01, which the dashboard takes for none
    IF asked # 0 THEN asked ELSE IF getLatestDashboardDate > 0 THEN getLatestDashboardDate ELSE today
resolveToolDate(asked) == IF asked # 0 THEN asked ELSE getLatestDashboardDate

sumSKUOrdersForDay(today, other) ==   \* only products that have a row today count for either day
    SumFunction([p \in DOMAIN today |-> At(other, p, NoSKURow).orders])

BuildDashboardMetrics(d) ==
    LET today == skuDay(d)
        yesterday == skuDay(d - 1)
    IN [revenueToday |-> sumRevenueForRange(d, d), revenueYesterday |-> sumRevenueForRange(d - 1, d - 1),
        lastWeek |-> sumRevenueForRange(d - WeekDays + 1, d),
        weekBefore |-> sumRevenueForRange(d - 2 * WeekDays + 1, d - WeekDays),
        ordersToday |-> sumSKUOrdersForDay(today, today), ordersYesterday |-> sumSKUOrdersForDay(today, yesterday),
        returns |-> At(accountRows, d, NoAccountRow).returns,
        skus |-> {[product |-> p, revenue |-> today[p].revenue, stock |-> today[p].stock,
                   delta |-> today[p].revenue - At(yesterday, p, NoSKURow).revenue] : p \in DOMAIN today}]

(* float64(int64(v*100+0.5)) / 100: the conversion cuts towards zero. *)
round2(cents) == IF cents < 0 THEN cents + 1 ELSE cents
numericFloat(cents) == round2(cents)

sumAccountRevenue(from, to) ==
    round2(SumFunction([d \in from .. to |-> numericFloat(At(accountRows, d, NoAccountRow).revenue)]))

GetDashboardSummary(d) ==             \* the chat tool counts the orders, not the sales
    [revenue |-> numericFloat(At(accountRows, d, NoAccountRow).revenue),
     orders |-> At(accountRows, d, NoAccountRow).orders,
     weekDelta |-> round2(sumAccountRevenue(d - WeekDays + 1, d)
                            - sumAccountRevenue(d - 2 * WeekDays + 1, d - WeekDays))]

-----------------------------------------------------------------------------
(* The critical SKUs. *)

calcImportance(revenue, total, delta) ==
    LET share == IF total <= 0 THEN 0 ELSE IF 5 * revenue >= total THEN 10
                 ELSE IF 10 * revenue >= total THEN 7 ELSE IF 20 * revenue >= total THEN 4 ELSE 0
    IN Min({10, share + IF delta > 0 THEN 2 ELSE 0})

calcOutOfStockRisk(stock, cover) ==
    CASE stock <= 0 -> 10
      [] stock \in 1 .. 3 -> 6
      [] stock > 3 -> IF cover \in 0 .. 100 THEN 8 ELSE IF cover \in 101 .. 300 THEN 4 ELSE 0

calcSalesDecline(delta, revenue) ==   \* a drop is measured against what is left
    IF delta >= 0 THEN 0
    ELSE IF (revenue > 0 /\ -2 * delta >= revenue) \/ delta <= -300000 THEN 30
    ELSE IF (revenue > 0 /\ -4 * delta >= revenue) \/ delta <= -120000 THEN 20 ELSE 10

calcOrdersDecline(delta) == IF delta >= 0 THEN 0 ELSE IF delta <= -3 THEN 20 ELSE 10

ListCurrentStocks ==
    {[product |-> p, available |-> listCurrentStock[p], warehouses |-> Cardinality(listStockWarehouseRows(p))] :
        p \in DOMAIN listCurrentStock}

ListCriticalSKUs(d) ==
    LET today == skuDay(d)
        revenue == [p \in DOMAIN today |-> today[p].revenue]
        total == SumFunction(revenue)
        Card(p) ==
            LET before == At(skuDay(d - 1), p, NoSKURow)
                delta == revenue[p] - before.revenue
                stock == At(listCurrentStock, p, today[p].stock)
                importance == calcImportance(revenue[p], total, delta)
            IN [product |-> p, stock |-> stock, importance |-> importance,
                score |-> 5 * calcOutOfStockRisk(stock, today[p].cover) + 3 * importance
                            + calcSalesDecline(delta, revenue[p])
                            + calcOrdersDecline(today[p].orders - before.orders)]
    IN {Card(p) : p \in DOMAIN today}

GetCriticalSKUs(d, limit) == LET score(c) == c.score IN Top(ListCriticalSKUs(d), score, limit)

-----------------------------------------------------------------------------
(* Replenishment: the products that have stock rows. *)

classifyDepletionRisk(stock, cover) ==
    CASE stock <= 0 -> 4
      [] stock > 0 /\ cover \in 0 .. 300 -> 3
      [] stock > 0 /\ cover \notin 0 .. 300 -> IF stock <= 3 \/ cover \in 0 .. 700 THEN 2 ELSE 1

classifyReplenishmentPriority(stock, cover, importance) ==
    IF (stock = 0 \/ cover \in 0 .. 300) /\ importance >= 5 THEN 3
    ELSE IF cover \in 0 .. 700 /\ importance >= 3 THEN 2 ELSE 1

ListReplenishment(d) ==
    LET today == skuDay(d)
        total == SumFunction([p \in DOMAIN today |-> today[p].revenue])
        Item(stock) ==
            LET row == At(today, stock.product, NoSKURow)
                importance == calcImportance(row.revenue, total, 0)
            IN [product |-> stock.product, stock |-> stock.available,
                risk |-> classifyDepletionRisk(stock.available, row.cover),
                priority |-> classifyReplenishmentPriority(stock.available, row.cover, importance)]
    IN {Item(stock) : stock \in ListCurrentStocks}

-----------------------------------------------------------------------------
(* The chat tools over the same rows. *)

criticalProblemScore(stock, cover, revenue) ==
    (IF stock <= 0 THEN 6 ELSE IF stock <= 3 THEN 3 ELSE 0)
      + (IF cover \in 0 .. 300 THEN 2 ELSE 0) + (IF revenue <= 0 THEN 1 ELSE 0)

ToolCriticalSKUs(d, limit) ==
    LET today == skuDay(d)
        score(i) == criticalProblemScore(today[i.product].stock, today[i.product].cover,
                                         numericFloat(today[i.product].revenue))
    IN Top({[product |-> p, stock |-> today[p].stock] : p \in DOMAIN today}, score, limit)

classifyStockRisk(stock, cover) ==
    IF stock <= 0 THEN 4 ELSE IF cover \in 0 .. 300 THEN 3
    ELSE IF stock <= 3 \/ cover \in 0 .. 700 THEN 2 ELSE 1

ToolStockRisks(d, limit) ==
    LET today == skuDay(d)
        risk(i) == i.risk
    IN Top({[product |-> p, stock |-> today[p].stock,
             risk |-> classifyStockRisk(today[p].stock, today[p].cover)] : p \in DOMAIN today}, risk, limit)

ToolSKUMetrics(from, to, limit) ==
    LET sold == {p \in SoldProducts \cup ListedProducts : \E d \in from .. to : p \in DOMAIN skuDay(d)}
        Over(p) == LET sum[d \in from - 1 .. to] ==      \* rounded again with every day
                           IF d < from THEN 0
                           ELSE IF p \notin DOMAIN skuDay(d) THEN sum[d - 1]
                           ELSE round2(sum[d - 1] + numericFloat(skuDay(d)[p].revenue))
                   IN sum[to]
        revenueOf(i) == i.revenue
    IN Top({[product |-> p, revenue |-> Over(p)] : p \in sold}, revenueOf, limit)

-----------------------------------------------------------------------------
(* The rows a settled table has, said from the sources row by row. *)
RecentSales(d, p) == {s \in SaleIds : sale[s].product = p /\ sale[s].day # 0 /\ sale[s].day \in d - DemandDays + 1 .. d}
CoverIsTrue(d, p, row) ==
    row.cover = calcDaysOfCover(row.stock, Cardinality(RecentSales(d, p)))

AccountRowsAreTheSources(span) ==
    \A d \in span :
      /\ d \in DOMAIN accountRows <=> \/ \E s \in SaleIds : sale[s].day = d
                                      \/ \E o \in OrderIds : order[o].day = d
      /\ d \in DOMAIN accountRows => /\ accountRows[d].revenue = Revenue({s \in SaleIds : sale[s].day = d})
                                     /\ accountRows[d].orders = Cardinality(OrdersOf(d))

SKURowsAreTheSources(span) ==
    \A d \in span :
      /\ DOMAIN skuDay(d) = {p \in SoldProducts : SalesOf(d, p) # {}}
                              \cup (IF d = Max(span) THEN ListedProducts ELSE {})
      /\ \A p \in DOMAIN skuDay(d) :
           LET row == skuDay(d)[p] IN
           /\ row.revenue = Revenue({s \in SaleIds : sale[s].day = d /\ sale[s].product = p})
           /\ row.stock = StockOf(listCurrentStock, p)
           \* a rebuild that starts later than the demand window sees only a part of the demand
           /\ (\A s \in RecentSales(d, p) : sale[s].day \in span) => CoverIsTrue(d, p, row)

(* The operations that name no product are in the account's revenue only. *)
Unattributed(d) == {s \in SaleIds : sale[s].day = d /\ sale[s].product = 0}

ScreensAgree(d) ==
    LET dashboard == BuildDashboardMetrics(d)
        shown == ToolStockRisks(d, 1)
    IN /\ GetDashboardSummary(d).revenue =
            dashboard.revenueToday + IF dashboard.revenueToday < 0 THEN 1 ELSE 0
       /\ dashboard.revenueToday = SumFunction([i \in dashboard.skus |-> i.revenue]) + Revenue(Unattributed(d))
       /\ \A c \in ListCriticalSKUs(d) : \E i \in dashboard.skus : i.product = c.product /\ i.stock = c.stock
       /\ \A r \in ListReplenishment(d) : \A i \in dashboard.skus : i.product = r.product => i.stock = r.stock
       /\ \A i \in shown : \A r \in ListReplenishment(d) : r.product \in DOMAIN skuDay(d) => r.risk <= i.risk
       /\ (\E c \in dashboard.skus : c.stock <= 0) =>
            \A i \in ToolCriticalSKUs(d, 1) :
              \/ i.stock <= 0
              \/ /\ i.stock <= 3 /\ skuDay(d)[i.product].revenue <= 0
                 /\ \A c \in dashboard.skus : c.stock <= 0 => c.revenue > 0

(* After a rebuild that nothing got in the way of, the rows of its range are
   the sources': a day or a product that no longer has any has no row, money
   and counts are those of the sources, stock is today's, and the cover counts
   the whole demand if the range holds it.  When both tables are rebuilt over
   a day, the last of the products', every screen tells the same story of it:
   the same stock, and the account's revenue is that of its products and of
   what names no product; only the chat tells a day that lost money a cent too
   high, by its own rounding.  What is out of stock comes first for the chat tool,
   unless all of it earned something that day: then what is nearly out and
   earned nothing may come before it. *)
MetricsMatchSources ==
    /\ settled["account"] # NoSpan => AccountRowsAreTheSources(settled["account"])
    /\ settled["sku"] # NoSpan => SKURowsAreTheSources(settled["sku"])
    /\ \A d \in settled["account"] \cap settled["sku"] : d = Max(settled["sku"]) => ScreensAgree(d)
=============================================================================
