----------------------------- MODULE Analytics -----------------------------
(***************************************************************************)
(* The daily metrics (src/backend/internal/analytics): sales, orders and   *)
(* stocks are folded into one row per day and one per product and day,     *)
(* which every screen, alert and AI context reads.  A rebuild is a READ    *)
(* COMMITTED transaction: each statement sees what is committed when it    *)
(* starts, and everything it wrote appears at once when it commits.        *)
(*                                                                         *)
(* Day 0 stands for no date and product 0 for a sale without a numeric     *)
(* product id; the cover of a stock is counted in hundredths of a day.     *)
(***************************************************************************)
EXTENDS Integers, Sequences, FiniteSets, Functions, FiniteSetsExt, TLC

CONSTANTS LastDay,      \* bound: days are 1 .. LastDay
          SoldProducts, \* what sales name: some of them are not in the catalogue
          ListedProducts, SaleIds, OrderIds, Warehouses,
          SaleAmounts,  \* what an operation brings: a refund is negative
          StockLevels,  \* what a stock report leaves available
          FirstStock,   \* the stock there is at the beginning, by product and warehouse
          Rebuilds,     \* bound: the rebuilds of one behaviour
          MaxEdits,     \* bound: how often an import writes a source row
          DemandDays,   \* 7 in the code: the days whose sales tell the demand
          WeekDays      \* 7 in the code: the days of a week on the dashboard

ASSUME AnalyticsConstants ==
    /\ LastDay \in Nat \ {0} /\ DemandDays \in Nat \ {0} /\ WeekDays \in Nat \ {0}
    /\ SoldProducts \cup ListedProducts \subseteq Nat \ {0}
    /\ IsFiniteSet(SoldProducts \cup ListedProducts)
    /\ IsFiniteSet(Warehouses) /\ IsFiniteSet(SaleIds) /\ IsFiniteSet(OrderIds)
    /\ SaleAmounts \subseteq Int /\ StockLevels \subseteq Nat
    /\ DOMAIN FirstStock \subseteq ListedProducts \X Warehouses
    /\ FirstStock \in [DOMAIN FirstStock -> Nat]

VARIABLES sale, order, stockRows,   \* the sources
          daily,     \* daily["account"] and daily["sku"]: the rows by key
          rebuild,
          settled,   \* the days for which a table was last rebuilt with nothing in its way
          edits

metricVars == <<sale, order, stockRows, daily, rebuild, settled, edits>>

DaysAll == 1 .. LastDay
NoSpan == 1 .. 0

-----------------------------------------------------------------------------
(* The source statements. *)

SalesOf(d, p) == {s \in SaleIds : sale[s].day = d /\ (p = 0 \/ sale[s].product = p)}
Revenue(S) == SumFunction([s \in S |-> sale[s].amount])
OrdersOf(d) == {o \in OrderIds : order[o].day = d}

listDailyAccountMetricSources(from, to) ==
    [d \in {d \in from .. to : SalesOf(d, 0) # {} \/ OrdersOf(d) # {}} |->
       [revenue |-> Revenue(SalesOf(d, 0)), orders |-> Cardinality(OrdersOf(d)),
        returns |-> Cardinality({o \in OrdersOf(d) : order[o].status = "returned"}),
        cancels |-> Cardinality({o \in OrdersOf(d) : order[o].status = "cancelled"})]]

accountBounds == ({sale[s].day : s \in SaleIds} \cup {order[o].day : o \in OrderIds}) \ {0}
skuBounds == {sale[s].day : s \in {s \in SaleIds : sale[s].product # 0}} \ {0}

(* Products that are listed get a row on the last day even without a sale. *)
listDailySKUSources(from, to) ==
    [k \in {k \in (from .. to) \X SoldProducts : SalesOf(k[1], k[2]) # {}} \cup ({to} \X ListedProducts) |->
       [revenue |-> Revenue(SalesOf(k[1], k[2])), orders |-> Cardinality(SalesOf(k[1], k[2]))]]

(* ON CONFLICT ... DO UPDATE: a row that exists under the key is replaced. *)
Upserted(table, written) ==
    [k \in DOMAIN written \cup DOMAIN table |-> IF k \in DOMAIN written THEN written[k] ELSE table[k]]

(* One row per product and warehouse: an upsert replaces it, whatever its age. *)
listStockWarehouseRows(p) == {k \in DOMAIN stockRows : k[1] = p}
listCurrentStock ==
    [p \in {k[1] : k \in DOMAIN stockRows} |-> SumFunctionOnSet(stockRows, listStockWarehouseRows(p))]
StockOf(stock, p) == IF p \in DOMAIN stock THEN stock[p] ELSE 0

calcDaysOfCover(stock, demand) ==
    IF stock <= 0 \/ demand = 0 THEN -1
    ELSE (200 * stock * DemandDays + demand) \div (2 * demand)

Demand(sources, d, p) ==
    SumFunction([i \in 0 .. DemandDays - 1 |->
                   IF <<d - i, p>> \in DOMAIN sources THEN sources[<<d - i, p>>].orders ELSE 0])

skuRows(sources, stock) ==
    [k \in DOMAIN sources |->
       [revenue |-> sources[k].revenue, orders |-> sources[k].orders,
        stock |-> StockOf(stock, k[2]),
        cover |-> calcDaysOfCover(StockOf(stock, k[2]), Demand(sources, k[1], k[2]))]]

-----------------------------------------------------------------------------
Kinds == {"account", "sku"}
IdleRebuild == [kind |-> "account", stage |-> "idle", from |-> 1, to |-> 0, rows |-> << >>,
                doomed |-> << >>, stale |-> FALSE, mixed |-> FALSE]
InTransaction(r) == rebuild[r].stage \in {"sources", "read", "deleted"}

MetricsInit ==
    /\ sale = [s \in SaleIds |-> [day |-> 0, product |-> 0, amount |-> 0]]
    /\ order = [o \in OrderIds |-> [day |-> 0, status |-> "none"]]
    /\ stockRows = FirstStock
    /\ daily = [k \in Kinds |-> << >>]
    /\ rebuild = [r \in Rebuilds |-> IdleRebuild]
    /\ settled = [k \in Kinds |-> NoSpan]
    /\ edits = 0

(* What is in a table's rows from now on is older than the sources. *)
SourcesChange ==
    /\ edits < MaxEdits /\ edits' = edits + 1
    /\ settled' = [k \in Kinds |-> NoSpan]
    /\ rebuild' = [r \in Rebuilds |-> [rebuild[r] EXCEPT !.stale = @ \/ InTransaction(r)]]
    /\ UNCHANGED daily

upsertSale(s, day, product, amount) ==
    /\ SourcesChange
    /\ sale' = [sale EXCEPT ![s] = [day |-> day, product |-> product, amount |-> amount]]
    /\ UNCHANGED <<order, stockRows>>

upsertOrder(o, day, status) ==
    /\ SourcesChange
    /\ order' = [order EXCEPT ![o] = [day |-> day, status |-> status]]
    /\ UNCHANGED <<sale, stockRows>>

upsertStock(p, w, available) ==
    /\ SourcesChange
    /\ stockRows' = Upserted(stockRows, [k \in {<<p, w>>} |-> available])
    /\ UNCHANGED <<sale, order>>

-----------------------------------------------------------------------------
SourcesStay == UNCHANGED <<sale, order, stockRows, edits>>
RebuildGoes(r, changed) == rebuild' = [rebuild EXCEPT ![r] = changed]
Begun(r, kind, from, to) ==
    RebuildGoes(r, [rebuild[r] EXCEPT !.kind = kind, !.stage = "begun", !.from = from, !.to = to])

(* The bounds are read before the transaction; without any there is nothing to do. *)
RebuildAccountForSeller(r) ==
    /\ rebuild[r].stage = "idle" /\ accountBounds # {}
    /\ Begun(r, "account", Min(accountBounds), Max(accountBounds))
    /\ SourcesStay /\ UNCHANGED <<daily, settled>>

RebuildSKUForSeller(r) ==
    /\ rebuild[r].stage = "idle" /\ skuBounds # {}
    /\ Begun(r, "sku", Min(skuBounds), Max(skuBounds))
    /\ SourcesStay /\ UNCHANGED <<daily, settled>>

(* The rebuild an administrator asks for, over given days. *)
RebuildRange(r, kind, from, to) ==
    /\ rebuild[r].stage = "idle" /\ from <= to
    /\ Begun(r, kind, from, to)
    /\ SourcesStay /\ UNCHANGED <<daily, settled>>

ReadAccountSources(r) ==
    /\ rebuild[r].stage = "begun" /\ rebuild[r].kind = "account"
    /\ RebuildGoes(r, [rebuild[r] EXCEPT !.stage = "read",
                 !.rows = listDailyAccountMetricSources(rebuild[r].from, rebuild[r].to)])
    /\ SourcesStay /\ UNCHANGED <<daily, settled>>

ReadSKUSources(r) ==
    /\ rebuild[r].stage = "begun" /\ rebuild[r].kind = "sku"
    /\ RebuildGoes(r, [rebuild[r] EXCEPT !.stage = "sources",
                 !.rows = listDailySKUSources(rebuild[r].from, rebuild[r].to)])
    /\ SourcesStay /\ UNCHANGED <<daily, settled>>

ReadStock(r) ==
    /\ rebuild[r].stage = "sources"
    /\ RebuildGoes(r, [rebuild[r] EXCEPT !.stage = "read", !.rows = skuRows(rebuild[r].rows, listCurrentStock)])
    /\ SourcesStay /\ UNCHANGED <<daily, settled>>

DayOf(kind, k) == IF kind = "account" THEN k ELSE k[1]
InRange(r, table) ==
    Restrict(table, {k \in DOMAIN table : DayOf(rebuild[r].kind, k) \in rebuild[r].from .. rebuild[r].to})

(* A row that another rebuild writes again after this statement started is not deleted. *)
DeleteRange(r) ==
    /\ rebuild[r].stage = "read"
    /\ RebuildGoes(r, [rebuild[r] EXCEPT !.stage = "deleted", !.doomed = InRange(r, daily[rebuild[r].kind])])
    /\ SourcesStay /\ UNCHANGED <<daily, settled>>

Written(r) == [k \in DOMAIN rebuild[r].rows |-> [row |-> rebuild[r].rows[k], by |-> r]]

\* Mutant: the rows of the range are overwritten but never deleted.
KeptAll(r, table) == table

Kept(r, table) ==
    LET doomed == rebuild[r].doomed
    IN Restrict(table, {k \in DOMAIN table : k \notin DOMAIN doomed \/ doomed[k] # table[k]})

(* A table's rows are the sources' only if nothing changed under the rebuild
   and no other rebuild of the table committed after it had deleted. *)
Commit(r) ==
    /\ rebuild[r].stage = "deleted"
    /\ LET mine == rebuild[r]
       IN /\ daily' = [daily EXCEPT ![mine.kind] = Upserted(Kept(r, @), Written(r))]
          /\ settled' = [settled EXCEPT ![mine.kind] =
                           IF mine.stale \/ mine.mixed THEN NoSpan ELSE mine.from .. mine.to]
          /\ rebuild' = [q \in Rebuilds |->
                 IF q = r THEN [IdleRebuild EXCEPT !.stage = "over"]
                 ELSE [rebuild[q] EXCEPT !.mixed = @ \/ (rebuild[q].kind = mine.kind /\ rebuild[q].stage = "deleted")]]
    /\ SourcesStay

RebuildFails(r) ==
    /\ rebuild[r].stage \notin {"idle", "over"}
    /\ RebuildGoes(r, [IdleRebuild EXCEPT !.stage = "over"])
    /\ SourcesStay /\ UNCHANGED <<daily, settled>>

MetricsNext ==
    \/ \E s \in SaleIds, d \in 0 .. LastDay, p \in SoldProducts \cup {0}, a \in SaleAmounts : upsertSale(s, d, p, a)
    \/ \E o \in OrderIds, d \in DaysAll, status \in {"delivered", "returned", "cancelled"} : upsertOrder(o, d, status)
    \/ \E p \in ListedProducts, w \in Warehouses, n \in StockLevels : upsertStock(p, w, n)
    \/ \E r \in Rebuilds :
         \/ RebuildAccountForSeller(r) \/ RebuildSKUForSeller(r)
         \/ \E kind \in Kinds, from, to \in DaysAll : RebuildRange(r, kind, from, to)
         \/ ReadAccountSources(r) \/ ReadSKUSources(r) \/ ReadStock(r)
         \/ DeleteRange(r) \/ Commit(r) \/ RebuildFails(r)

MetricsSpec == MetricsInit /\ [][MetricsNext]_metricVars
=============================================================================
