---------------------------- MODULE MetricsProofs ----------------------------
(***************************************************************************)
(* For any sources, rebuilds and edits: a rebuild that nothing got in the  *)
(* way of leaves the rows of the sources, and the screens that are made of *)
(* them agree.  And for any facts: worse facts never make calmer alerts or *)
(* screens, whatever the numbers.                                          *)
(***************************************************************************)
EXTENDS AlertRules, FiniteSetTheorems, Sums, TLAPS

-----------------------------------------------------------------------------
(* What a rebuild has read is what the sources say now, unless it is marked
   stale, and what its DELETE has found is what its table has in the range,
   unless it is marked mixed.  So a table that is settled on some days has the
   rows of the sources for these days and no other. *)
SourceRows(kind, from, to) ==
    IF kind = "account" THEN listDailyAccountMetricSources(from, to)
    ELSE skuRows(listDailySKUSources(from, to), listCurrentStock)

SourceTypes ==
    /\ sale \in [SaleIds -> [day : 0 .. LastDay, product : SoldProducts \cup {0}, amount : Int]]
    /\ order \in [OrderIds -> [day : 0 .. LastDay, status : {"none", "delivered", "returned", "cancelled"}]]
    /\ DOMAIN stockRows \subseteq ListedProducts \X Warehouses
    /\ stockRows \in [DOMAIN stockRows -> Nat]

IsRebuild(m) ==
    /\ DOMAIN m = {"kind", "stage", "from", "to", "rows", "doomed", "stale", "mixed"}
    /\ m.kind \in Kinds /\ {m.from, m.to} \subseteq 0 .. LastDay /\ m.stale \in BOOLEAN /\ m.mixed \in BOOLEAN
    /\ m.stage \in {"idle", "begun", "sources", "read", "deleted", "over"}

MetricTypes ==
    /\ SourceTypes
    /\ rebuild = [r \in Rebuilds |-> rebuild[r]] /\ \A r \in Rebuilds : IsRebuild(rebuild[r])
    /\ daily = [kind \in Kinds |-> daily[kind]]
    /\ settled = [kind \in Kinds |-> settled[kind]]

InDays(table, kind, from, to) == Restrict(table, {k \in DOMAIN table : DayOf(kind, k) \in from .. to})

RebuildFollows(r) ==
    LET m == rebuild[r] IN
    /\ m.stage \in {"begun", "sources", "read", "deleted"} => 1 <= m.from /\ m.from <= m.to
    /\ m.stage = "sources" => m.kind = "sku" /\ (m.stale \/ m.rows = listDailySKUSources(m.from, m.to))
    /\ m.stage \in {"read", "deleted"} => m.stale \/ m.rows = SourceRows(m.kind, m.from, m.to)
    /\ m.stage = "deleted" => m.mixed \/ m.doomed = InDays(daily[m.kind], m.kind, m.from, m.to)

HasSourceRows(kind, from, to) ==
    LET rows == SourceRows(kind, from, to) IN
    /\ {k \in DOMAIN daily[kind] : DayOf(kind, k) \in from .. to} = DOMAIN rows
    /\ \A k \in DOMAIN rows : daily[kind][k].row = rows[k]

SettledIsTrue(kind) ==
    settled[kind] # NoSpan => \E from, to \in DaysAll : /\ from <= to /\ settled[kind] = from .. to
                                                       /\ HasSourceRows(kind, from, to)

MetricsInv ==
    /\ MetricTypes
    /\ \A r \in Rebuilds : RebuildFollows(r)
    /\ \A kind \in Kinds : SettledIsTrue(kind)

-----------------------------------------------------------------------------
SourcesUnchanged == sale' = sale /\ order' = order /\ stockRows' = stockRows

LEMMA SourcesReadAlike ==
  ASSUME SourcesUnchanged, NEW kind, NEW from, NEW to
  PROVE  /\ listDailySKUSources(from, to)' = listDailySKUSources(from, to)
         /\ listCurrentStock' = listCurrentStock
         /\ SourceRows(kind, from, to)' = SourceRows(kind, from, to)
<1> USE DEF SourcesUnchanged
<1>1. \A d, p : SalesOf(d, p)' = SalesOf(d, p)
  BY DEF SalesOf
<1>2. \A d : OrdersOf(d)' = OrdersOf(d)
  BY DEF OrdersOf
<1>3. \A S : Revenue(S)' = Revenue(S)
  BY DEF Revenue
<1>4. listDailySKUSources(from, to)' = listDailySKUSources(from, to)
  BY <1>1, <1>3 DEF listDailySKUSources
<1>5. listDailyAccountMetricSources(from, to)' = listDailyAccountMetricSources(from, to)
  BY <1>1, <1>2, <1>3 DEF listDailyAccountMetricSources
<1>6. listCurrentStock' = listCurrentStock
  BY DEF listCurrentStock, listStockWarehouseRows
<1>7. SourceRows(kind, from, to)' = SourceRows(kind, from, to)
  BY <1>4, <1>5, <1>6 DEF SourceRows, skuRows, StockOf, Demand
<1> QED
  BY <1>4, <1>6, <1>7

LEMMA SourcesStayAlike ==
  ASSUME SourcesStay
  PROVE  /\ SourceTypes => SourceTypes'
         /\ \A from, to : listDailySKUSources(from, to)' = listDailySKUSources(from, to)
         /\ \A kind, from, to : SourceRows(kind, from, to)' = SourceRows(kind, from, to)
<1>1. SourcesUnchanged
  BY DEF SourcesStay, SourcesUnchanged
<1>2. SourceTypes => SourceTypes'
  BY <1>1 DEF SourcesUnchanged, SourceTypes
<1> QED
  BY <1>1, <1>2, SourcesReadAlike

LEMMA TablesStayTrue ==
  ASSUME SourcesStay, NEW kind, daily'[kind] = daily[kind], settled'[kind] = settled[kind], SettledIsTrue(kind)
  PROVE  SettledIsTrue(kind)'
<1>1. \A from, to : SourceRows(kind, from, to)' = SourceRows(kind, from, to)
  BY SourcesStayAlike
<1>2. \A from, to : HasSourceRows(kind, from, to) => HasSourceRows(kind, from, to)'
  BY <1>1 DEF HasSourceRows
<1> QED
  BY <1>2 DEF SettledIsTrue

(* Nothing but one rebuild moves, and what it becomes is as it should be. *)
LEMMA OneRebuildMoves ==
  ASSUME MetricsInv, NEW r \in Rebuilds, NEW m, SourcesStay, UNCHANGED <<daily, settled>>, RebuildGoes(r, m),
         IsRebuild(m), RebuildFollows(r)'
  PROVE  MetricsInv'
<1> USE DEF MetricsInv
<1>1. rebuild' = [rebuild EXCEPT ![r] = m] /\ rebuild = [q \in Rebuilds |-> rebuild[q]]
  BY DEF RebuildGoes, MetricTypes
<1>2. /\ rebuild' = [q \in Rebuilds |-> rebuild'[q]]
      /\ rebuild'[r] = m /\ \A q \in Rebuilds \ {r} : rebuild'[q] = rebuild[q]
  BY <1>1
<1>3. MetricTypes'
  <2>1. SourceTypes'
    BY SourcesStayAlike DEF MetricTypes
  <2>2. \A q \in Rebuilds : IsRebuild(rebuild'[q])
    BY <1>2 DEF MetricTypes
  <2> QED
    BY <1>2, <2>1, <2>2 DEF MetricTypes, IsRebuild
<1>4. ASSUME NEW q \in Rebuilds \ {r}
      PROVE  RebuildFollows(q)'
  <2>1. RebuildFollows(q) /\ rebuild'[q] = rebuild[q] /\ daily' = daily
    BY <1>2
  <2>2. /\ \A from, to : listDailySKUSources(from, to)' = listDailySKUSources(from, to)
        /\ \A kind, from, to : SourceRows(kind, from, to)' = SourceRows(kind, from, to)
    BY SourcesStayAlike
  <2> QED
    BY <2>1, <2>2 DEF RebuildFollows, InDays, DayOf
<1>5. ASSUME NEW kind \in Kinds
      PROVE  SettledIsTrue(kind)'
  BY <1>5, TablesStayTrue
<1> QED
  BY <1>3, <1>4, <1>5

-----------------------------------------------------------------------------
LEMMA MetricsStart ==
  MetricsInit => MetricsInv
<1> SUFFICES ASSUME MetricsInit PROVE MetricsInv
  OBVIOUS
<1> USE DEF MetricsInit
<1>1. SourceTypes
  BY AnalyticsConstants DEF SourceTypes
<1>2. IsRebuild(IdleRebuild)
  BY AnalyticsConstants DEF IsRebuild, IdleRebuild, Kinds
<1>3. MetricTypes
  BY <1>1, <1>2 DEF MetricTypes
<1>4. \A r \in Rebuilds : RebuildFollows(r)
  BY DEF RebuildFollows, IdleRebuild
<1>5. \A kind \in Kinds : SettledIsTrue(kind)
  BY DEF SettledIsTrue
<1> QED
  BY <1>3, <1>4, <1>5 DEF MetricsInv

LEMMA Marked ==
  ASSUME NEW old, IsRebuild(old), NEW b \in BOOLEAN
  PROVE  /\ \A m : m = [old EXCEPT !.stale = b] =>
                 /\ IsRebuild(m) /\ m.kind = old.kind /\ m.stage = old.stage /\ m.from = old.from /\ m.to = old.to
                 /\ m.rows = old.rows /\ m.doomed = old.doomed /\ m.mixed = old.mixed /\ m.stale = b
         /\ \A m : m = [old EXCEPT !.mixed = b] =>
                 /\ IsRebuild(m) /\ m.kind = old.kind /\ m.stage = old.stage /\ m.from = old.from /\ m.to = old.to
                 /\ m.rows = old.rows /\ m.doomed = old.doomed /\ m.stale = old.stale /\ m.mixed = b
  BY DEF IsRebuild

LEMMA SourcesMakeStale ==
  ASSUME MetricsInv, SourcesChange, SourceTypes'
  PROVE  MetricsInv'
<1> USE DEF MetricsInv
<1>1. /\ rebuild' = [r \in Rebuilds |-> [rebuild[r] EXCEPT !.stale = @ \/ InTransaction(r)]]
      /\ daily' = daily /\ settled' = [k \in Kinds |-> NoSpan]
  BY DEF SourcesChange
<1>2. ASSUME NEW r \in Rebuilds
      PROVE  /\ IsRebuild(rebuild'[r])
             /\ rebuild'[r].kind = rebuild[r].kind /\ rebuild'[r].stage = rebuild[r].stage
             /\ rebuild'[r].from = rebuild[r].from /\ rebuild'[r].to = rebuild[r].to
             /\ rebuild'[r].doomed = rebuild[r].doomed /\ rebuild'[r].mixed = rebuild[r].mixed
             /\ InTransaction(r) => rebuild'[r].stale
  <2>1. rebuild'[r] = [rebuild[r] EXCEPT !.stale = @ \/ InTransaction(r)] /\ IsRebuild(rebuild[r])
    BY <1>1 DEF MetricTypes
  <2>2. (rebuild[r].stale \/ InTransaction(r)) \in BOOLEAN
    BY <2>1 DEF IsRebuild, InTransaction
  <2> DEFINE b == rebuild[r].stale \/ InTransaction(r)
  <2>3. rebuild'[r] = [rebuild[r] EXCEPT !.stale = b]
    BY <2>1, Zenon
  <2>4. b \in BOOLEAN /\ (InTransaction(r) => b)
    BY <2>2
  <2> HIDE DEF b
  <2> QED
    BY <2>1, <2>3, <2>4, Marked
<1>3. MetricTypes'
  BY <1>1, <1>2 DEF MetricTypes
<1>4. ASSUME NEW r \in Rebuilds
      PROVE  RebuildFollows(r)'
  <2>1. rebuild[r].stage \in {"sources", "read", "deleted"} => rebuild'[r].stale
    BY <1>2 DEF InTransaction
  <2>2. RebuildFollows(r) /\ daily' = daily
    BY <1>1
  <2> QED
    BY <1>2, <2>1, <2>2 DEF RebuildFollows, InDays, DayOf
<1>5. ASSUME NEW kind \in Kinds
      PROVE  SettledIsTrue(kind)'
  BY <1>1 DEF SettledIsTrue
<1> QED
  BY <1>3, <1>4, <1>5
-----------------------------------------------------------------------------
LEMMA HasALeastAndAGreatest ==
  ASSUME NEW S \in SUBSET Int, IsFiniteSet(S), S # {}
  PROVE  /\ Min(S) \in S /\ Max(S) \in S
         /\ \A x \in S : Min(S) <= x /\ x <= Max(S)
<1> DEFINE Good == {T \in SUBSET S : T = {} \/ \E m, n \in T : \A x \in T : m <= x /\ x <= n}
<1>1. {} \in Good
  OBVIOUS
<1>2. ASSUME NEW T \in SUBSET S, NEW y \in S \ T, T \in Good
      PROVE  T \cup {y} \in Good
  <2>1. CASE T = {}
    BY <2>1
  <2>2. CASE T # {}
    <3>1. PICK m \in T, n \in T : \A x \in T : m <= x /\ x <= n
      BY <1>2, <2>2
    <3>2. PICK a \in {m, y}, b \in {n, y} : a <= m /\ a <= y /\ n <= b /\ y <= b
      BY <3>1
    <3>3. \A x \in T \cup {y} : a <= x /\ x <= b
      BY <3>1, <3>2
    <3>4. a \in T \cup {y} /\ b \in T \cup {y}
      BY <3>2
    <3>5. T \cup {y} \in SUBSET S
      OBVIOUS
    <3> QED BY <3>3, <3>4, <3>5
  <2> QED BY <2>1, <2>2
<1> HIDE DEF Good
<1>3. S \in Good
  BY <1>1, <1>2, OneByOne
<1>4. PICK m \in S, n \in S : \A x \in S : m <= x /\ x <= n
  BY <1>3 DEF Good
<1>5. Min(S) \in S /\ \A x \in S : Min(S) <= x
  BY <1>4 DEF Min
<1>6. Max(S) \in S /\ \A x \in S : x <= Max(S)
  BY <1>4 DEF Max
<1> QED
  BY <1>5, <1>6

LEMMA BoundsAreDays ==
  ASSUME SourceTypes
  PROVE  /\ accountBounds # {} => /\ 1 <= Min(accountBounds) /\ Min(accountBounds) <= Max(accountBounds)
                                  /\ Max(accountBounds) <= LastDay
                                  /\ {Min(accountBounds), Max(accountBounds)} \subseteq Int
         /\ skuBounds # {} => /\ 1 <= Min(skuBounds) /\ Min(skuBounds) <= Max(skuBounds)
                              /\ Max(skuBounds) <= LastDay
                              /\ {Min(skuBounds), Max(skuBounds)} \subseteq Int
<1>1. \A S \in SUBSET DaysAll : S # {} => /\ 1 <= Min(S) /\ Min(S) <= Max(S) /\ Max(S) <= LastDay
                                          /\ {Min(S), Max(S)} \subseteq Int
  <2> SUFFICES ASSUME NEW S \in SUBSET DaysAll, S # {}
               PROVE  /\ 1 <= Min(S) /\ Min(S) <= Max(S) /\ Max(S) <= LastDay
                      /\ {Min(S), Max(S)} \subseteq Int
    OBVIOUS
  <2>1. S \in SUBSET Int /\ IsFiniteSet(S)
    <3>1. DaysAll \subseteq Int /\ IsFiniteSet(DaysAll)
      <4>1. LastDay \in Nat
        BY AnalyticsConstants
      <4> QED BY <4>1, FS_Interval DEF DaysAll
    <3> QED BY <3>1, FS_Subset
  <2>2. Min(S) \in S /\ Max(S) \in S /\ \A x \in S : Min(S) <= x /\ x <= Max(S)
    BY <2>1, HasALeastAndAGreatest
  <2>3. Min(S) \in DaysAll /\ Max(S) \in DaysAll /\ Min(S) <= Max(S)
    BY <2>2
  <2> QED
    BY <2>3, AnalyticsConstants DEF DaysAll
<1>2. accountBounds \in SUBSET DaysAll
  <2>1. \A s \in SaleIds : sale[s].day \in 0 .. LastDay
    BY DEF SourceTypes
  <2>2. \A o \in OrderIds : order[o].day \in 0 .. LastDay
    BY DEF SourceTypes
  <2> QED BY <2>1, <2>2, AnalyticsConstants DEF accountBounds, DaysAll
<1>3. skuBounds \in SUBSET DaysAll
  <2>1. \A s \in SaleIds : sale[s].day \in 0 .. LastDay
    BY DEF SourceTypes
  <2> QED BY <2>1, AnalyticsConstants DEF skuBounds, DaysAll
<1> QED
  BY <1>1, <1>2, <1>3

LEMMA RebuildBegins ==
  ASSUME MetricsInv, NEW r \in Rebuilds, NEW kind \in Kinds, NEW from \in Int, NEW to \in Int,
         1 <= from, from <= to, to <= LastDay,
         Begun(r, kind, from, to), SourcesStay, UNCHANGED <<daily, settled>>
  PROVE  MetricsInv'
<1> DEFINE m == [rebuild[r] EXCEPT !.kind = kind, !.stage = "begun", !.from = from, !.to = to]
<1>1. IsRebuild(rebuild[r])
  BY DEF MetricsInv, MetricTypes
<1>2. /\ DOMAIN m = DOMAIN rebuild[r] /\ m.stale = rebuild[r].stale /\ m.mixed = rebuild[r].mixed
      /\ m.kind = kind /\ m.stage = "begun" /\ m.from = from /\ m.to = to
  BY <1>1 DEF IsRebuild
<1>3. IsRebuild(m)
  <2>1. {from, to} \subseteq 0 .. LastDay
    BY AnalyticsConstants
  <2> HIDE DEF m
  <2> QED BY <1>1, <1>2, <2>1 DEF IsRebuild
<1>4. RebuildGoes(r, m)
  BY DEF Begun
<1>5. rebuild'[r] = m
  BY <1>4 DEF RebuildGoes, MetricsInv, MetricTypes
<1>6. RebuildFollows(r)'
  <2> HIDE DEF m
  <2> QED BY <1>2, <1>5 DEF RebuildFollows
<1> HIDE DEF m
<1> QED
  BY <1>3, <1>4, <1>6, OneRebuildMoves

LEMMA RebuildsBegin ==
  ASSUME MetricsInv, NEW r \in Rebuilds,
         \/ RebuildAccountForSeller(r) \/ RebuildSKUForSeller(r)
         \/ \E kind \in Kinds, from, to \in DaysAll : RebuildRange(r, kind, from, to)
  PROVE  MetricsInv'
<1>1. SourceTypes
  BY DEF MetricsInv, MetricTypes
<1>2. CASE RebuildAccountForSeller(r)
  <2>1. accountBounds # {}
    BY <1>2 DEF RebuildAccountForSeller
  <2> QED
    BY <1>1, <1>2, <2>1, BoundsAreDays, RebuildBegins DEF RebuildAccountForSeller, Kinds
<1>3. CASE RebuildSKUForSeller(r)
  <2>1. skuBounds # {}
    BY <1>3 DEF RebuildSKUForSeller
  <2> QED
    BY <1>1, <1>3, <2>1, BoundsAreDays, RebuildBegins DEF RebuildSKUForSeller, Kinds
<1>4. ASSUME NEW kind \in Kinds, NEW from \in DaysAll, NEW to \in DaysAll, RebuildRange(r, kind, from, to)
      PROVE  MetricsInv'
  BY <1>4, AnalyticsConstants, RebuildBegins DEF RebuildRange, DaysAll
<1> QED
  BY <1>2, <1>3, <1>4
(* The statements of a rebuild before its commit: its record gets a stage and
   rows, or what is to be deleted. *)
LEMMA RebuildReads ==
  ASSUME MetricsInv, NEW r \in Rebuilds, SourcesStay, UNCHANGED <<daily, settled>>,
         NEW stage \in {"sources", "read"}, NEW rows,
         RebuildGoes(r, [rebuild[r] EXCEPT !.stage = stage, !.rows = rows]),
         rebuild[r].stage \in {"begun", "sources"},
         stage = "sources" => /\ rebuild[r].kind = "sku"
                              /\ rows = listDailySKUSources(rebuild[r].from, rebuild[r].to),
         stage = "read" => \/ rebuild[r].stale
                           \/ rows = SourceRows(rebuild[r].kind, rebuild[r].from, rebuild[r].to)
  PROVE  MetricsInv'
<1> DEFINE old == rebuild[r]
           m == [old EXCEPT !.stage = stage, !.rows = rows]
<1>1. IsRebuild(old) /\ RebuildFollows(r)
  BY DEF MetricsInv, MetricTypes
<1>2. /\ DOMAIN m = DOMAIN old /\ m.stage = stage /\ m.rows = rows
      /\ m.kind = old.kind /\ m.from = old.from /\ m.to = old.to /\ m.stale = old.stale /\ m.mixed = old.mixed
  BY <1>1 DEF IsRebuild
<1>3. rebuild'[r] = m
  BY DEF RebuildGoes, MetricsInv, MetricTypes
<1>4. \A from, to : listDailySKUSources(from, to)' = listDailySKUSources(from, to)
  BY SourcesStayAlike
<1>5. \A kind, from, to : SourceRows(kind, from, to)' = SourceRows(kind, from, to)
  BY SourcesStayAlike
<1>6. RebuildGoes(r, m)
  OBVIOUS
<1>7. 1 <= old.from /\ old.from <= old.to
  BY <1>1 DEF RebuildFollows
<1> HIDE DEF m
<1>8. IsRebuild(m)
  BY <1>1, <1>2 DEF IsRebuild
<1>9. RebuildFollows(r)'
  BY <1>2, <1>3, <1>4, <1>5, <1>7 DEF RebuildFollows
<1> QED
  BY <1>6, <1>8, <1>9, OneRebuildMoves

LEMMA StatementsRead ==
  ASSUME MetricsInv, NEW r \in Rebuilds, ReadAccountSources(r) \/ ReadSKUSources(r) \/ ReadStock(r)
  PROVE  MetricsInv'
<1>1. IsRebuild(rebuild[r]) /\ RebuildFollows(r)
  BY DEF MetricsInv, MetricTypes
<1>2. CASE ReadAccountSources(r)
  <2> DEFINE rows == listDailyAccountMetricSources(rebuild[r].from, rebuild[r].to)
  <2>1. rows = SourceRows(rebuild[r].kind, rebuild[r].from, rebuild[r].to)
    BY <1>2 DEF ReadAccountSources, SourceRows
  <2>2. RebuildGoes(r, [rebuild[r] EXCEPT !.stage = "read", !.rows = rows]) /\ rebuild[r].stage = "begun"
    BY <1>2 DEF ReadAccountSources
  <2>3. SourcesStay /\ UNCHANGED <<daily, settled>>
    BY <1>2 DEF ReadAccountSources
  <2> HIDE DEF rows
  <2> QED
    BY <2>1, <2>2, <2>3, RebuildReads
<1>3. CASE ReadSKUSources(r)
  <2> DEFINE rows == listDailySKUSources(rebuild[r].from, rebuild[r].to)
  <2>1. rebuild[r].kind = "sku" /\ rebuild[r].stage = "begun"
    BY <1>3 DEF ReadSKUSources
  <2>2. RebuildGoes(r, [rebuild[r] EXCEPT !.stage = "sources", !.rows = rows])
    BY <1>3 DEF ReadSKUSources
  <2>3. SourcesStay /\ UNCHANGED <<daily, settled>>
    BY <1>3 DEF ReadSKUSources
  <2> QED
    BY <2>1, <2>2, <2>3, RebuildReads
<1>4. CASE ReadStock(r)
  <2> DEFINE rows == skuRows(rebuild[r].rows, listCurrentStock)
  <2>1. rebuild[r].stage = "sources"
    BY <1>4 DEF ReadStock
  <2>2. RebuildGoes(r, [rebuild[r] EXCEPT !.stage = "read", !.rows = rows])
    BY <1>4 DEF ReadStock
  <2>3. SourcesStay /\ UNCHANGED <<daily, settled>>
    BY <1>4 DEF ReadStock
  <2>4. rebuild[r].stale \/ rows = SourceRows(rebuild[r].kind, rebuild[r].from, rebuild[r].to)
    BY <1>1, <2>1 DEF RebuildFollows, SourceRows
  <2> HIDE DEF rows
  <2> QED
    BY <2>1, <2>2, <2>3, <2>4, RebuildReads
<1> QED
  BY <1>2, <1>3, <1>4

LEMMA RebuildDeletes ==
  ASSUME MetricsInv, NEW r \in Rebuilds, DeleteRange(r)
  PROVE  MetricsInv'
<1> DEFINE old == rebuild[r]
           m == [old EXCEPT !.stage = "deleted", !.doomed = InRange(r, daily[old.kind])]
<1>1. IsRebuild(old) /\ RebuildFollows(r) /\ old.stage = "read" /\ SourcesStay /\ UNCHANGED <<daily, settled>>
  BY DEF MetricsInv, MetricTypes, DeleteRange
<1>2. /\ DOMAIN m = DOMAIN old /\ m.stage = "deleted" /\ m.rows = old.rows
      /\ m.doomed = InDays(daily[m.kind], m.kind, m.from, m.to)
      /\ m.kind = old.kind /\ m.from = old.from /\ m.to = old.to /\ m.stale = old.stale /\ m.mixed = old.mixed
  BY <1>1 DEF IsRebuild, InRange, InDays
<1>3. RebuildGoes(r, m)
  BY DEF DeleteRange
<1>4. rebuild'[r] = m
  BY <1>3 DEF RebuildGoes, MetricsInv, MetricTypes
<1>5. \A kind, from, to : SourceRows(kind, from, to)' = SourceRows(kind, from, to)
  BY <1>1, SourcesStayAlike
<1>6. /\ 1 <= old.from /\ old.from <= old.to
      /\ old.stale \/ old.rows = SourceRows(old.kind, old.from, old.to)
  BY <1>1 DEF RebuildFollows
<1> HIDE DEF m
<1>7. IsRebuild(m)
  BY <1>1, <1>2 DEF IsRebuild
<1>8. RebuildFollows(r)'
  BY <1>1, <1>2, <1>4, <1>5, <1>6 DEF RebuildFollows, InDays, DayOf
<1> QED
  BY <1>1, <1>3, <1>7, <1>8, OneRebuildMoves

LEMMA RebuildEnds ==
  ASSUME MetricsInv, NEW r \in Rebuilds, RebuildFails(r)
  PROVE  MetricsInv'
<1> DEFINE m == [IdleRebuild EXCEPT !.stage = "over"]
<1>1. IsRebuild(m) /\ m.stage = "over"
  BY AnalyticsConstants DEF IsRebuild, IdleRebuild, Kinds
<1>2. RebuildGoes(r, m) /\ SourcesStay /\ UNCHANGED <<daily, settled>>
  BY DEF RebuildFails
<1> HIDE DEF m
<1>3. rebuild'[r] = m
  BY <1>2 DEF RebuildGoes, MetricsInv, MetricTypes
<1>4. RebuildFollows(r)'
  BY <1>1, <1>3 DEF RebuildFollows
<1> QED
  BY <1>1, <1>2, <1>4, OneRebuildMoves

LEMMA SourceRowsAreInRange ==
  ASSUME NEW kind \in Kinds, NEW from \in Int, NEW to \in Int, from <= to
  PROVE  \A k \in DOMAIN SourceRows(kind, from, to) : DayOf(kind, k) \in from .. to
<1>1. \A k \in DOMAIN listDailyAccountMetricSources(from, to) : k \in from .. to
  BY DEF listDailyAccountMetricSources
<1>2. \A k \in DOMAIN listDailySKUSources(from, to) : k[1] \in from .. to
  BY DEF listDailySKUSources
<1>3. DOMAIN skuRows(listDailySKUSources(from, to), listCurrentStock) = DOMAIN listDailySKUSources(from, to)
  BY DEF skuRows
<1> QED
  BY <1>1, <1>2, <1>3 DEF SourceRows, DayOf, Kinds
LEMMA CommitKeepsInv ==
  ASSUME MetricsInv, NEW r \in Rebuilds, Commit(r)
  PROVE  MetricsInv'
<1> DEFINE mine == rebuild[r]
           K == mine.kind
           new == Upserted(Kept(r, daily[K]), Written(r))
           span == IF mine.stale \/ mine.mixed THEN NoSpan ELSE mine.from .. mine.to
<1>1. /\ mine.stage = "deleted" /\ SourcesStay
      /\ daily' = [daily EXCEPT ![K] = new]
      /\ settled' = [settled EXCEPT ![K] = span]
      /\ rebuild' = [q \in Rebuilds |->
            IF q = r THEN [IdleRebuild EXCEPT !.stage = "over"]
            ELSE [rebuild[q] EXCEPT !.mixed = @ \/ (rebuild[q].kind = mine.kind /\ rebuild[q].stage = "deleted")]]
  BY DEF Commit
<1>2. IsRebuild(mine) /\ RebuildFollows(r) /\ K \in Kinds
  BY DEF MetricsInv, MetricTypes, IsRebuild
<1>3. /\ 1 <= mine.from /\ mine.from <= mine.to /\ {mine.from, mine.to} \subseteq DaysAll
      /\ mine.stale \/ mine.rows = SourceRows(K, mine.from, mine.to)
      /\ mine.mixed \/ mine.doomed = InDays(daily[K], K, mine.from, mine.to)
  <2>1. 1 <= mine.from /\ mine.from <= mine.to
    BY <1>1, <1>2 DEF RebuildFollows
  <2>2. {mine.from, mine.to} \subseteq DaysAll
    BY <1>2, <2>1, AnalyticsConstants DEF IsRebuild, DaysAll
  <2> QED
    BY <1>1, <1>2, <2>1, <2>2 DEF RebuildFollows
<1>4. /\ daily' = [kind \in Kinds |-> daily'[kind]] /\ settled' = [kind \in Kinds |-> settled'[kind]]
      /\ daily'[K] = new /\ settled'[K] = span
      /\ \A kind \in Kinds \ {K} : daily'[kind] = daily[kind] /\ settled'[kind] = settled[kind]
  <2> HIDE DEF K, new, span
  <2> QED
    BY <1>1, <1>2 DEF MetricsInv, MetricTypes
<1>5. IsRebuild(rebuild'[r]) /\ rebuild'[r].stage = "over"
  <2>1. rebuild'[r] = [IdleRebuild EXCEPT !.stage = "over"]
    BY <1>1
  <2> QED
    BY <2>1, AnalyticsConstants DEF IsRebuild, IdleRebuild, Kinds
<1>6. ASSUME NEW q \in Rebuilds \ {r}
      PROVE  LET m == rebuild[q]
                 n == rebuild'[q]
             IN /\ IsRebuild(n) /\ n.kind = m.kind /\ n.stage = m.stage /\ n.from = m.from /\ n.to = m.to
                /\ n.rows = m.rows /\ n.doomed = m.doomed /\ n.stale = m.stale
                /\ m.kind = K /\ m.stage = "deleted" => n.mixed
                /\ m.mixed => n.mixed
  <2> DEFINE b == rebuild[q].mixed \/ (rebuild[q].kind = mine.kind /\ rebuild[q].stage = "deleted")
  <2>1. rebuild'[q] = [rebuild[q] EXCEPT !.mixed = b]
    BY <1>1, Zenon
  <2>2. IsRebuild(rebuild[q])
    BY DEF MetricsInv, MetricTypes
  <2>3. /\ b \in BOOLEAN
        /\ rebuild[q].kind = K /\ rebuild[q].stage = "deleted" => b
        /\ rebuild[q].mixed => b
    BY <2>2 DEF IsRebuild
  <2> HIDE DEF b, K
  <2> QED
    BY <2>1, <2>2, <2>3, Marked
<1>7. MetricTypes'
  <2>1. SourceTypes'
    BY <1>1, SourcesStayAlike DEF MetricsInv, MetricTypes
  <2>2. \A q \in Rebuilds : IsRebuild(rebuild'[q])
    BY <1>5, <1>6
  <2>3. rebuild' = [q \in Rebuilds |-> rebuild'[q]]
    BY <1>1
  <2> QED
    BY <1>4, <2>1, <2>2, <2>3 DEF MetricTypes, IsRebuild
<1>8. /\ \A from, to : listDailySKUSources(from, to)' = listDailySKUSources(from, to)
      /\ \A kind, from, to : SourceRows(kind, from, to)' = SourceRows(kind, from, to)
  BY <1>1, SourcesStayAlike
<1>9. ASSUME NEW q \in Rebuilds
      PROVE  RebuildFollows(q)'
  <2>1. CASE q = r
    BY <1>5, <2>1 DEF RebuildFollows
  <2>2. CASE q # r
    <3> DEFINE m == rebuild[q]
               n == rebuild'[q]
    <3>1. /\ n.kind = m.kind /\ n.stage = m.stage /\ n.from = m.from /\ n.to = m.to
          /\ n.rows = m.rows /\ n.doomed = m.doomed /\ n.stale = m.stale
          /\ m.kind = K /\ m.stage = "deleted" => n.mixed
          /\ m.mixed => n.mixed
      BY <1>6, <2>2
    <3>2. RebuildFollows(q) /\ m.kind \in Kinds
      BY DEF MetricsInv, MetricTypes, IsRebuild
    <3>3. n.stage = "deleted" => n.mixed \/ n.doomed = InDays(daily'[n.kind], n.kind, n.from, n.to)
      BY <1>4, <3>1, <3>2 DEF RebuildFollows
    <3> QED
      BY <1>8, <3>1, <3>2, <3>3 DEF RebuildFollows, InDays, DayOf
  <2> QED
    BY <2>1, <2>2
<1>10. ASSUME NEW kind \in Kinds
       PROVE  SettledIsTrue(kind)'
  <2>1. CASE kind # K
    BY <1>1, <1>4, <2>1, TablesStayTrue DEF MetricsInv
  <2>2. CASE kind = K /\ span = NoSpan
    BY <1>4, <2>2 DEF SettledIsTrue
  <2>3. CASE kind = K /\ span # NoSpan
    <3>1. /\ ~ mine.stale /\ ~ mine.mixed /\ span = mine.from .. mine.to
          /\ mine.rows = SourceRows(K, mine.from, mine.to)
          /\ mine.doomed = InDays(daily[K], K, mine.from, mine.to)
      BY <1>3, <2>3
    <3>2. PICK c, f, t, table, rows : /\ c = K /\ f = mine.from /\ t = mine.to
                                      /\ table = daily[K] /\ rows = mine.rows
      OBVIOUS
    <3>3. c \in Kinds /\ f \in DaysAll /\ t \in DaysAll /\ f <= t /\ rows = SourceRows(c, f, t)
      BY <1>2, <1>3, <3>1, <3>2
    <3>4. \A k \in DOMAIN rows : DayOf(c, k) \in f .. t
      BY <3>3, SourceRowsAreInRange DEF DaysAll
    <3> DEFINE kept == Restrict(table, {k \in DOMAIN table : \/ k \notin DOMAIN InDays(table, c, f, t)
                                                           \/ InDays(table, c, f, t)[k] # table[k]})
               after == Upserted(kept, [k \in DOMAIN rows |-> [row |-> rows[k], by |-> r]])
    <3>5. Kept(r, table) = kept
      BY <3>1, <3>2 DEF Kept
    <3>6. Written(r) = [k \in DOMAIN rows |-> [row |-> rows[k], by |-> r]]
      BY <3>2 DEF Written
    <3>7. daily'[c] = after
      BY <1>4, <3>2, <3>5, <3>6
    \* the rows a commit leaves in its range are those it wrote
    <3>8. /\ {k \in DOMAIN after : DayOf(c, k) \in f .. t} = DOMAIN rows
          /\ \A k \in DOMAIN rows : after[k].row = rows[k]
      BY <3>4 DEF InDays, Restrict, Upserted
    <3> HIDE DEF after
    <3>9. SourceRows(c, f, t)' = rows
      BY <1>8, <3>3
    <3>10. HasSourceRows(c, f, t)'
      BY <3>7, <3>8, <3>9 DEF HasSourceRows, DayOf
    <3>11. kind = c /\ settled'[c] = f .. t
      BY <1>4, <2>3, <3>1, <3>2
    <3> QED
      BY <3>3, <3>10, <3>11 DEF SettledIsTrue
  <2> QED
    BY <2>1, <2>2, <2>3
<1> QED
  BY <1>7, <1>9, <1>10 DEF MetricsInv
LEMMA SourcesKeepTypes ==
  ASSUME SourceTypes
  PROVE  /\ \A s \in SaleIds, d \in 0 .. LastDay, p \in SoldProducts \cup {0}, a \in SaleAmounts :
              upsertSale(s, d, p, a) => SourceTypes'
         /\ \A o \in OrderIds, d \in DaysAll, status \in {"delivered", "returned", "cancelled"} :
              upsertOrder(o, d, status) => SourceTypes'
         /\ \A p \in ListedProducts, w \in Warehouses, n \in StockLevels : upsertStock(p, w, n) => SourceTypes'
<1>1. ASSUME NEW s \in SaleIds, NEW d \in 0 .. LastDay, NEW p \in SoldProducts \cup {0}, NEW a \in SaleAmounts,
             upsertSale(s, d, p, a)
      PROVE  SourceTypes'
  <2>1. [day |-> d, product |-> p, amount |-> a] \in [day : 0 .. LastDay, product : SoldProducts \cup {0}, amount : Int]
    BY AnalyticsConstants
  <2> QED
    BY <1>1, <2>1 DEF upsertSale, SourceTypes
<1>2. ASSUME NEW o \in OrderIds, NEW d \in DaysAll, NEW status \in {"delivered", "returned", "cancelled"},
             upsertOrder(o, d, status)
      PROVE  SourceTypes'
  <2>1. [day |-> d, status |-> status]
          \in [day : 0 .. LastDay, status : {"none", "delivered", "returned", "cancelled"}]
    BY AnalyticsConstants DEF DaysAll
  <2> QED
    BY <1>2, <2>1 DEF upsertOrder, SourceTypes
<1>3. ASSUME NEW p \in ListedProducts, NEW w \in Warehouses, NEW n \in StockLevels, upsertStock(p, w, n)
      PROVE  SourceTypes'
  <2>1. sale' = sale /\ order' = order /\ stockRows' = Upserted(stockRows, [k \in {<<p, w>>} |-> n])
    BY <1>3 DEF upsertStock
  <2>2. stockRows' \in [DOMAIN stockRows' -> Nat] /\ DOMAIN stockRows' \subseteq ListedProducts \X Warehouses
    BY <2>1, AnalyticsConstants DEF Upserted, SourceTypes
  <2> QED
    BY <2>1, <2>2 DEF SourceTypes
<1> QED
  BY <1>1, <1>2, <1>3

LEMMA MetricsKeepInv ==
  MetricsInv /\ [MetricsNext]_metricVars => MetricsInv'
<1> SUFFICES ASSUME MetricsInv, [MetricsNext]_metricVars PROVE MetricsInv'
  OBVIOUS
<1>1. SourceTypes
  BY DEF MetricsInv, MetricTypes
<1>2. CASE \E s \in SaleIds, d \in 0 .. LastDay, p \in SoldProducts \cup {0}, a \in SaleAmounts : upsertSale(s, d, p, a)
  BY <1>1, <1>2, SourcesKeepTypes, SourcesMakeStale DEF upsertSale
<1>3. CASE \E o \in OrderIds, d \in DaysAll, status \in {"delivered", "returned", "cancelled"} :
             upsertOrder(o, d, status)
  BY <1>1, <1>3, SourcesKeepTypes, SourcesMakeStale DEF upsertOrder
<1>4. CASE \E p \in ListedProducts, w \in Warehouses, n \in StockLevels : upsertStock(p, w, n)
  BY <1>1, <1>4, SourcesKeepTypes, SourcesMakeStale DEF upsertStock
<1>5. ASSUME NEW r \in Rebuilds,
             \/ RebuildAccountForSeller(r) \/ RebuildSKUForSeller(r)
             \/ \E kind \in Kinds, from, to \in DaysAll : RebuildRange(r, kind, from, to)
             \/ ReadAccountSources(r) \/ ReadSKUSources(r) \/ ReadStock(r)
             \/ DeleteRange(r) \/ Commit(r) \/ RebuildFails(r)
      PROVE  MetricsInv'
  BY <1>5, RebuildsBegin, StatementsRead, RebuildDeletes, CommitKeepsInv, RebuildEnds
<1>6. CASE UNCHANGED metricVars
  <2>1. /\ sale' = sale /\ order' = order /\ stockRows' = stockRows /\ SourcesUnchanged
        /\ daily' = daily /\ rebuild' = rebuild /\ settled' = settled /\ edits' = edits
    BY <1>6 DEF metricVars, SourcesUnchanged
  <2>2. SourcesStay
    BY <2>1 DEF SourcesStay
  <2>3. MetricTypes'
    BY <2>1, <2>2, SourcesStayAlike DEF MetricsInv, MetricTypes, IsRebuild
  <2>4. \A r \in Rebuilds : RebuildFollows(r)'
    BY <2>1, <2>2, SourcesStayAlike DEF MetricsInv, RebuildFollows, InDays, DayOf
  <2>5. \A kind \in Kinds : SettledIsTrue(kind)'
    BY <2>1, <2>2, TablesStayTrue DEF MetricsInv
  <2> QED
    BY <2>3, <2>4, <2>5 DEF MetricsInv
<1> QED
  BY <1>2, <1>3, <1>4, <1>5, <1>6 DEF MetricsNext
-----------------------------------------------------------------------------
(* What the rows of a settled table are. *)

AmountOf == [s \in SaleIds |-> sale[s].amount]

LEMMA RevenueIsASum ==
  ASSUME SourceTypes, NEW S \in SUBSET SaleIds
  PROVE  IsFiniteSet(S) /\ Revenue(S) = SumFunctionOnSet(AmountOf, S) /\ Revenue(S) \in Int
<1> DEFINE a == [s \in S |-> sale[s].amount]
<1>1. IsFiniteSet(S)
  BY AnalyticsConstants, FS_Subset
<1>2. \A s \in S : AmountOf[s] \in Int /\ a[s] = AmountOf[s]
  BY DEF SourceTypes, AmountOf
<1>3. Revenue(S) = SumFunctionOnSet(a, S)
  BY DEF Revenue, SumFunction
<1> HIDE DEF a
<1> QED
  BY <1>1, <1>2, <1>3, SumIsOfValues, SumSplits

LEMMA LastOfSpan ==
  ASSUME NEW from \in Int, NEW to \in Int, from <= to
  PROVE  Max(from .. to) = to
<1>1. to \in from .. to /\ \A x \in from .. to : to >= x
  OBVIOUS
<1>2. \A x \in from .. to : (\A y \in from .. to : x >= y) => x = to
  OBVIOUS
<1> QED
  BY <1>1, <1>2 DEF Max

LEMMA AccountRowsAreRead ==
  ASSUME MetricsInv, settled["account"] # NoSpan
  PROVE  AccountRowsAreTheSources(settled["account"])
<1>1. PICK from \in DaysAll, to \in DaysAll :
         settled["account"] = from .. to /\ HasSourceRows("account", from, to)
  BY DEF MetricsInv, SettledIsTrue, Kinds
<1> DEFINE rows == listDailyAccountMetricSources(from, to)
<1>2. /\ \A d \in from .. to : d \in DOMAIN daily["account"] <=> d \in DOMAIN rows
      /\ \A d \in DOMAIN rows : daily["account"][d].row = rows[d]
  BY <1>1 DEF HasSourceRows, SourceRows, DayOf
<1>3. ASSUME NEW d \in from .. to
      PROVE  /\ SalesOf(d, 0) = {s \in SaleIds : sale[s].day = d}
             /\ d \in DOMAIN rows <=> SalesOf(d, 0) # {} \/ OrdersOf(d) # {}
             /\ d \in DOMAIN rows => rows[d].revenue = Revenue(SalesOf(d, 0)) /\ rows[d].orders = Cardinality(OrdersOf(d))
  BY DEF SalesOf, listDailyAccountMetricSources
<1> HIDE DEF rows
<1>4. ASSUME NEW d \in from .. to
      PROVE  /\ d \in DOMAIN accountRows <=> d \in DOMAIN rows
             /\ d \in DOMAIN rows => accountRows[d] = rows[d]
  BY <1>2 DEF accountRows
<1>5. ASSUME NEW d \in from .. to
      PROVE  /\ d \in DOMAIN accountRows <=> \/ \E s \in SaleIds : sale[s].day = d
                                             \/ \E o \in OrderIds : order[o].day = d
             /\ d \in DOMAIN accountRows => /\ accountRows[d].revenue = Revenue({s \in SaleIds : sale[s].day = d})
                                            /\ accountRows[d].orders = Cardinality(OrdersOf(d))
  <2>1. SalesOf(d, 0) # {} <=> \E s \in SaleIds : sale[s].day = d
    BY <1>3
  <2>2. OrdersOf(d) # {} <=> \E o \in OrderIds : order[o].day = d
    BY DEF OrdersOf
  <2> QED BY <1>3, <1>4, <2>1, <2>2
<1> QED
  BY <1>1, <1>5 DEF AccountRowsAreTheSources

SourceRow(from, to, d, p) ==
    [revenue |-> Revenue(SalesOf(d, p)), orders |-> Cardinality(SalesOf(d, p)),
     stock |-> StockOf(listCurrentStock, p),
     cover |-> calcDaysOfCover(StockOf(listCurrentStock, p), Demand(listDailySKUSources(from, to), d, p))]

LEMMA SKUDayIsRead ==
  ASSUME NEW from \in DaysAll, NEW to \in DaysAll, HasSourceRows("sku", from, to), NEW d \in from .. to
  PROVE  /\ DOMAIN skuDay(d) = {p \in SoldProducts : SalesOf(d, p) # {}} \cup (IF d = to THEN ListedProducts ELSE {})
         /\ \A p \in DOMAIN skuDay(d) : skuDay(d)[p] = SourceRow(from, to, d, p)
<1> DEFINE sources == listDailySKUSources(from, to)
           rows == skuRows(sources, listCurrentStock)
           keys == {k \in DOMAIN daily["sku"] : k[1] = d}
<1>1. DOMAIN sources = {k \in (from .. to) \X SoldProducts : SalesOf(k[1], k[2]) # {}} \cup ({to} \X ListedProducts)
  BY DEF listDailySKUSources
<1>2. \A p : <<d, p>> \in DOMAIN sources <=> \/ (p \in SoldProducts /\ SalesOf(d, p) # {})
                                            \/ (d = to /\ p \in ListedProducts)
  BY <1>1
<1>3. \A k \in DOMAIN sources : k = <<k[1], k[2]>>
  BY <1>1
<1>4. /\ {k \in DOMAIN daily["sku"] : k[1] \in from .. to} = DOMAIN sources
      /\ \A k \in DOMAIN sources : daily["sku"][k].row = rows[k]
  BY DEF HasSourceRows, SourceRows, DayOf, skuRows
<1>5. \A p : <<d, p>> \in DOMAIN sources => rows[<<d, p>>] = SourceRow(from, to, d, p)
  <2> SUFFICES ASSUME NEW p, <<d, p>> \in DOMAIN sources PROVE rows[<<d, p>>] = SourceRow(from, to, d, p)
    OBVIOUS
  <2>1. sources[<<d, p>>] = [revenue |-> Revenue(SalesOf(d, p)), orders |-> Cardinality(SalesOf(d, p))]
    BY <1>1 DEF listDailySKUSources
  <2> HIDE DEF sources
  <2>2. rows[<<d, p>>] = [revenue |-> sources[<<d, p>>].revenue, orders |-> sources[<<d, p>>].orders,
                          stock |-> StockOf(listCurrentStock, p),
                          cover |-> calcDaysOfCover(StockOf(listCurrentStock, p), Demand(sources, d, p))]
    BY DEF skuRows
  <2> QED
    BY <2>1, <2>2 DEF SourceRow, sources
<1> HIDE DEF sources, rows
<1>6. keys = {k \in DOMAIN sources : k[1] = d}
  BY <1>4
<1>7. \A p : p \in {k[2] : k \in keys} <=> <<d, p>> \in DOMAIN sources
  BY <1>3, <1>6
<1>8. DOMAIN skuDay(d) = {k[2] : k \in keys}
  BY DEF skuDay
<1>9. \A p \in DOMAIN skuDay(d) : skuDay(d)[p] = daily["sku"][<<d, p>>].row
  BY DEF skuDay
<1> HIDE DEF keys
<1>10. DOMAIN skuDay(d) = {p \in SoldProducts : SalesOf(d, p) # {}} \cup (IF d = to THEN ListedProducts ELSE {})
  <2>1. \A p : p \in DOMAIN skuDay(d) <=> \/ (p \in SoldProducts /\ SalesOf(d, p) # {})
                                         \/ (d = to /\ p \in ListedProducts)
    BY <1>2, <1>7, <1>8
  <2>2. CASE d = to
    BY <2>1, <2>2
  <2>3. CASE d # to
    BY <2>1, <2>3
  <2> QED BY <2>2, <2>3
<1> QED
  BY <1>4, <1>5, <1>7, <1>8, <1>9, <1>10

(* Sums of counts of disjoint sets. *)
LEMMA DemandIsACount ==
  ASSUME SourceTypes, NEW from \in DaysAll, NEW to \in DaysAll, from <= to, NEW d \in from .. to,
         NEW p \in SoldProducts \cup ListedProducts
  PROVE  LET n == Demand(listDailySKUSources(from, to), d, p)
         IN /\ n \in Nat
            /\ (\A s \in RecentSales(d, p) : sale[s].day \in from .. to) => n = Cardinality(RecentSales(d, p))
<1> DEFINE sources == listDailySKUSources(from, to)
           back == 0 .. DemandDays - 1
           In(T) == {s \in SaleIds : /\ sale[s].product = p /\ sale[s].day \in from .. to
                                     /\ \E i \in T : sale[s].day = d - i}
           a == [i \in back |-> IF <<d - i, p>> \in DOMAIN sources THEN sources[<<d - i, p>>].orders ELSE 0]
           Good == {T \in SUBSET back : SumFunctionOnSet(a, T) = Cardinality(In(T))}
<1>1. /\ p \in Nat /\ p # 0 /\ DemandDays \in Nat \ {0} /\ LastDay \in Nat /\ from \in Int /\ to \in Int /\ d \in Int
      /\ \A s \in SaleIds : sale[s].day \in Int /\ sale[s].product \in SoldProducts \cup {0}
  BY AnalyticsConstants DEF DaysAll, SourceTypes
<1>2. ASSUME NEW T \in SUBSET back
      PROVE  IsFiniteSet(T) /\ IsFiniteSet(In(T)) /\ Cardinality(In(T)) \in Nat
  <2>1. IsFiniteSet(back)
    BY <1>1, FS_Interval
  <2>2. In(T) \subseteq SaleIds
    OBVIOUS
  <2> HIDE DEF back, In
  <2> QED BY <2>1, <2>2, AnalyticsConstants, FS_Subset, FS_CardinalityType
<1>3. ASSUME NEW i \in back
      PROVE  a[i] = Cardinality(In({i})) /\ a[i] \in Nat
  <2>1. <<d - i, p>> \in DOMAIN sources <=> \/ (d - i \in from .. to /\ p \in SoldProducts /\ SalesOf(d - i, p) # {})
                                            \/ (d - i = to /\ p \in ListedProducts)
    BY DEF listDailySKUSources
  <2>2. <<d - i, p>> \in DOMAIN sources => sources[<<d - i, p>>].orders = Cardinality(SalesOf(d - i, p))
    BY DEF listDailySKUSources
  <2>3. d - i \in Int
    BY <1>1
  <2>4. d - i \in from .. to => In({i}) = SalesOf(d - i, p)
    BY <1>1, <2>3 DEF SalesOf
  <2>5. d - i \notin from .. to => In({i}) = {}
    BY <1>1, <2>3
  <2>6. to \in from .. to /\ (p \notin SoldProducts => SalesOf(d - i, p) = {})
    BY <1>1 DEF SalesOf
  <2>7. a[i] = IF <<d - i, p>> \in DOMAIN sources THEN sources[<<d - i, p>>].orders ELSE 0
    OBVIOUS
  <2>8. {i} \in SUBSET back
    OBVIOUS
  <2>9. Cardinality(In({i})) \in Nat
    BY <1>2, <2>8
  <2> HIDE DEF a, In, sources, back
  <2>10. CASE In({i}) = {}
    <3>1. a[i] = 0
      BY <2>1, <2>2, <2>4, <2>5, <2>6, <2>7, <2>10, FS_EmptySet
    <3> QED BY <2>10, <3>1, FS_EmptySet
  <2>11. CASE In({i}) # {}
    BY <2>1, <2>2, <2>4, <2>5, <2>6, <2>7, <2>9, <2>11
  <2> QED BY <2>10, <2>11
<1>4. {} \in Good
  BY SumOfNone, FS_EmptySet
<1>5. ASSUME NEW T \in SUBSET back, NEW i \in back \ T, T \in Good
      PROVE  T \cup {i} \in Good
  <2>1. SumFunctionOnSet(a, T \cup {i}) = a[i] + SumFunctionOnSet(a, T)
    <3> HIDE DEF a, In, back
    <3>1. \A x \in back : a[x] \in Int
      <4> SUFFICES ASSUME NEW x \in back PROVE a[x] \in Int
        OBVIOUS
      <4>1. a[x] \in Nat
        BY <1>3
      <4> QED BY <4>1
    <3>2. IsFiniteSet(T) /\ T \subseteq back /\ i \in back /\ i \notin T
      BY <1>2
    <3> QED BY <3>1, <3>2, SumAdds
  <2>2. In(T \cup {i}) = In(T) \cup In({i}) /\ In(T) \cap In({i}) = {}
    BY <1>1
  <2>3. {i} \in SUBSET back /\ T \cup {i} \in SUBSET back
    OBVIOUS
  <2>4. Cardinality(In(T \cup {i})) = Cardinality(In(T)) + Cardinality(In({i}))
    <3> HIDE DEF In, back
    <3>1. IsFiniteSet(In(T)) /\ IsFiniteSet(In({i}))
      BY <1>2, <2>3
    <3>2. Cardinality(In(T) \cup In({i}))
             = Cardinality(In(T)) + Cardinality(In({i})) - Cardinality(In(T) \cap In({i}))
      BY <3>1, FS_Union
    <3>3. Cardinality(In(T) \cap In({i})) = 0
      BY <2>2, FS_EmptySet
    <3>4. Cardinality(In(T)) \in Nat /\ Cardinality(In({i})) \in Nat
      BY <1>2, <2>3
    <3>5. Cardinality(In(T) \cup In({i})) = Cardinality(In(T)) + Cardinality(In({i}))
      BY <3>2, <3>3, <3>4
    <3>6. Cardinality(In(T \cup {i})) = Cardinality(In(T) \cup In({i}))
      BY <2>2
    <3> QED BY <3>5, <3>6
  <2>5. SumFunctionOnSet(a, T) = Cardinality(In(T))
    BY <1>5
  <2>6. Cardinality(In(T)) \in Nat /\ Cardinality(In({i})) \in Nat
    BY <1>2, <2>3
  <2>7. SumFunctionOnSet(a, T \cup {i}) = Cardinality(In(T \cup {i}))
    <3> HIDE DEF a, In, back, Good
    <3> QED BY <1>3, <2>1, <2>4, <2>5, <2>6
  <2> QED BY <2>3, <2>7
<1> HIDE DEF Good
<1>6. back \in Good
  <2> HIDE DEF back
  <2>1. IsFiniteSet(back)
    BY <1>2
  <2> QED BY <1>4, <1>5, <2>1, OneByOne
<1>7. Demand(sources, d, p) = Cardinality(In(back))
  <2>1. Demand(sources, d, p) = SumFunctionOnSet(a, back)
    BY DEF Demand, SumFunction
  <2> QED BY <1>6, <2>1 DEF Good
<1>8. (\A s \in RecentSales(d, p) : sale[s].day \in from .. to) => In(back) = RecentSales(d, p)
  <2>1. \A s \in SaleIds : (\E i \in back : sale[s].day = d - i) <=> sale[s].day \in d - DemandDays + 1 .. d
    <3> SUFFICES ASSUME NEW s \in SaleIds
                 PROVE  (\E i \in back : sale[s].day = d - i) <=> sale[s].day \in d - DemandDays + 1 .. d
      OBVIOUS
    <3>1. sale[s].day \in d - DemandDays + 1 .. d => d - sale[s].day \in back /\ sale[s].day = d - (d - sale[s].day)
      BY <1>1
    <3>2. \A i \in back : sale[s].day = d - i => sale[s].day \in d - DemandDays + 1 .. d
      BY <1>1
    <3> QED BY <3>1, <3>2
  <2>2. \A s \in SaleIds : sale[s].day \in from .. to => sale[s].day # 0
    BY <1>1 DEF DaysAll
  <2> HIDE DEF back
  <2> QED BY <2>1, <2>2 DEF RecentSales
<1> QED
  BY <1>2, <1>7, <1>8
LEMMA SKURowsAreRead ==
  ASSUME MetricsInv, settled["sku"] # NoSpan
  PROVE  SKURowsAreTheSources(settled["sku"])
<1>1. PICK from \in DaysAll, to \in DaysAll :
         from <= to /\ settled["sku"] = from .. to /\ HasSourceRows("sku", from, to)
  BY DEF MetricsInv, SettledIsTrue, Kinds
<1>2. Max(from .. to) = to /\ SourceTypes
  BY <1>1, LastOfSpan DEF DaysAll, MetricsInv, MetricTypes
<1> DEFINE span == settled["sku"]
           TrueRow(d, p, row) ==
             /\ row.revenue = Revenue({s \in SaleIds : sale[s].day = d /\ sale[s].product = p})
             /\ row.stock = StockOf(listCurrentStock, p)
             /\ (\A s \in RecentSales(d, p) : sale[s].day \in span) => CoverIsTrue(d, p, row)
<1>3. ASSUME NEW d \in span
      PROVE  /\ DOMAIN skuDay(d) = {p \in SoldProducts : SalesOf(d, p) # {}}
                                     \cup (IF d = Max(span) THEN ListedProducts ELSE {})
             /\ \A p \in DOMAIN skuDay(d) : TrueRow(d, p, skuDay(d)[p])
  <2>1. /\ DOMAIN skuDay(d) = {p \in SoldProducts : SalesOf(d, p) # {}} \cup (IF d = to THEN ListedProducts ELSE {})
        /\ \A p \in DOMAIN skuDay(d) : skuDay(d)[p] = SourceRow(from, to, d, p)
    BY <1>1, SKUDayIsRead
  <2>2. ASSUME NEW p \in DOMAIN skuDay(d)
        PROVE  TrueRow(d, p, skuDay(d)[p])
    <3>1. p \in SoldProducts \cup ListedProducts /\ p # 0 /\ d \in from .. to
      BY <1>1, <2>1, AnalyticsConstants
    <3>2. SalesOf(d, p) = {s \in SaleIds : sale[s].day = d /\ sale[s].product = p}
      BY <3>1 DEF SalesOf
    <3>3. (\A s \in RecentSales(d, p) : sale[s].day \in from .. to)
             => Demand(listDailySKUSources(from, to), d, p) = Cardinality(RecentSales(d, p))
      BY <1>1, <1>2, <3>1, DemandIsACount
    <3> DEFINE row == skuDay(d)[p]
    <3>4. /\ row.revenue = Revenue(SalesOf(d, p)) /\ row.stock = StockOf(listCurrentStock, p)
          /\ row.cover = calcDaysOfCover(row.stock, Demand(listDailySKUSources(from, to), d, p))
      <4>1. row = SourceRow(from, to, d, p)
        BY <2>1
      <4> HIDE DEF row
      <4> QED BY <4>1 DEF SourceRow
    <3> HIDE DEF row
    <3>5. (\A s \in RecentSales(d, p) : sale[s].day \in span) => CoverIsTrue(d, p, row)
      BY <1>1, <3>3, <3>4 DEF CoverIsTrue
    <3>6. row.revenue = Revenue({s \in SaleIds : sale[s].day = d /\ sale[s].product = p})
      BY <3>2, <3>4, Zenon
    <3>7. TrueRow(d, p, row)
      BY <3>4, <3>5, <3>6
    <3> QED
      BY <3>7 DEF row
  <2> HIDE DEF TrueRow
  <2> QED
    BY <1>1, <1>2, <2>1, <2>2
<1> QED
  BY <1>3, Zenon DEF SKURowsAreTheSources

-----------------------------------------------------------------------------
(* The screens of a day that both tables are settled on. *)

LEMMA NoneAbove ==
  ASSUME NEW items, IsFiniteSet(items), NEW above \in SUBSET items, Cardinality(above) < 1
  PROVE  above = {}
<1>1. IsFiniteSet(above)
  BY FS_Subset
<1>2. Cardinality(above) \in Nat
  BY <1>1, FS_CardinalityType
<1> QED
  BY <1>1, <1>2, FS_EmptySet

StockNow(p) == StockOf(listCurrentStock, p)

LEMMA StockIsACount ==
  ASSUME SourceTypes
  PROVE  /\ \A p : StockNow(p) \in Nat
         /\ DOMAIN listCurrentStock \subseteq ListedProducts
         /\ \A p \in DOMAIN listCurrentStock : listCurrentStock[p] = StockNow(p)
<1>1. IsFiniteSet(DOMAIN stockRows)
  <2>1. IsFiniteSet(ListedProducts)
    BY AnalyticsConstants, FS_Subset
  <2>2. IsFiniteSet(ListedProducts \X Warehouses)
    BY <2>1, AnalyticsConstants, FS_Product
  <2> QED
    BY <2>2, FS_Subset DEF SourceTypes
<1>2. \A p \in DOMAIN listCurrentStock : listCurrentStock[p] \in Nat
  <2> SUFFICES ASSUME NEW p \in DOMAIN listCurrentStock PROVE listCurrentStock[p] \in Nat
    OBVIOUS
  <2> DEFINE S == listStockWarehouseRows(p)
  <2>1. S \subseteq DOMAIN stockRows
    BY DEF listStockWarehouseRows
  <2>2. IsFiniteSet(S) /\ \A k \in S : stockRows[k] \in Nat
    BY <1>1, <2>1, FS_Subset DEF SourceTypes
  <2>3. listCurrentStock[p] = SumFunctionOnSet(stockRows, S)
    BY DEF listCurrentStock
  <2> HIDE DEF S
  <2> QED
    BY <2>2, <2>3, SumIsNatural
<1>3. DOMAIN listCurrentStock \subseteq ListedProducts
  BY DEF listCurrentStock, SourceTypes
<1> QED
  BY <1>2, <1>3 DEF StockNow, StockOf

(* The rows of the day and their types. *)
SettledDay(d, from, to) ==
    /\ SourceTypes /\ from \in DaysAll /\ to \in DaysAll /\ d \in from .. to
    /\ DOMAIN skuDay(d) \subseteq SoldProducts \cup ListedProducts
    /\ \A p \in SoldProducts : SalesOf(d, p) # {} => p \in DOMAIN skuDay(d)
    /\ \A p \in DOMAIN skuDay(d) : skuDay(d)[p] = SourceRow(from, to, d, p)

LEMMA CoverOf ==
  ASSUME NEW stock \in Nat, NEW n \in Nat
  PROVE  calcDaysOfCover(stock, n) \in Int
<1>1. CASE stock <= 0 \/ n = 0
  BY <1>1 DEF calcDaysOfCover
<1>2. CASE ~(stock <= 0 \/ n = 0)
  <2>1. 200 * stock * DemandDays + n \in Nat /\ 2 * n \in Nat \ {0}
    BY <1>2, AnalyticsConstants
  <2> DEFINE a == 200 * stock * DemandDays + n
             b == 2 * n
  <2>2. a \in Nat /\ b \in Nat \ {0}
    BY <2>1
  <2>3. calcDaysOfCover(stock, n) = a \div b
    BY <1>2 DEF calcDaysOfCover
  <2> HIDE DEF a, b
  <2> QED BY <2>2, <2>3
<1> QED BY <1>1, <1>2

LEMMA RowsAreTyped ==
  ASSUME NEW from, NEW to, from <= to, NEW d, SettledDay(d, from, to), NEW p \in DOMAIN skuDay(d)
  PROVE  LET row == skuDay(d)[p]
         IN /\ row.revenue = Revenue(SalesOf(d, p)) /\ row.revenue \in Int
            /\ row.stock = StockNow(p) /\ row.stock \in Nat /\ row.cover \in Int
<1>1. SourceTypes /\ from \in DaysAll /\ to \in DaysAll /\ d \in from .. to
  BY DEF SettledDay
<1>2. p \in SoldProducts \cup ListedProducts /\ skuDay(d)[p] = SourceRow(from, to, d, p)
  BY DEF SettledDay
<1>3. Demand(listDailySKUSources(from, to), d, p) \in Nat
  BY <1>1, <1>2, DemandIsACount
<1>4. StockNow(p) \in Nat
  BY <1>1, StockIsACount
<1>5. calcDaysOfCover(StockNow(p), Demand(listDailySKUSources(from, to), d, p)) \in Int
  BY <1>3, <1>4, CoverOf
<1>6. Revenue(SalesOf(d, p)) \in Int
  BY <1>1, RevenueIsASum DEF SalesOf
<1> QED
  BY <1>2, <1>4, <1>5, <1>6 DEF SourceRow, StockNow
LEMMA ImageIsFinite ==
  ASSUME NEW P, IsFiniteSet(P), NEW f
  PROVE  IsFiniteSet({f[p] : p \in P})
<1> DEFINE Good == {T \in SUBSET P : IsFiniteSet({f[p] : p \in T})}
<1>1. {} \in Good
  BY FS_EmptySet
<1>2. ASSUME NEW T \in SUBSET P, NEW x \in P \ T, T \in Good
      PROVE  T \cup {x} \in Good
  <2>1. {f[p] : p \in T \cup {x}} = {f[p] : p \in T} \cup {f[x]}
    OBVIOUS
  <2>2. IsFiniteSet({f[p] : p \in T} \cup {f[x]})
    BY <1>2, FS_AddElement
  <2> QED BY <2>1, <2>2
<1> HIDE DEF Good
<1>3. P \in Good
  BY <1>1, <1>2, OneByOne
<1> QED BY <1>3 DEF Good

LEMMA RevenueToday ==
  ASSUME MetricsInv, NEW d \in settled["account"]
  PROVE  /\ sumRevenueForRange(d, d) = Revenue(SalesOf(d, 0))
         /\ At(accountRows, d, NoAccountRow).revenue = Revenue(SalesOf(d, 0))
         /\ Revenue(SalesOf(d, 0)) \in Int
<1>1. settled["account"] # NoSpan /\ AccountRowsAreTheSources(settled["account"]) /\ SourceTypes
  BY AccountRowsAreRead DEF NoSpan, MetricsInv, MetricTypes
<1>2. SalesOf(d, 0) = {s \in SaleIds : sale[s].day = d} /\ d \in Int
  <2>1. PICK from \in DaysAll, to \in DaysAll : settled["account"] = from .. to
    BY <1>1 DEF MetricsInv, SettledIsTrue, Kinds
  <2> QED BY <2>1 DEF SalesOf
<1>3. Revenue(SalesOf(d, 0)) \in Int
  BY <1>1, RevenueIsASum DEF SalesOf
<1>4. At(accountRows, d, NoAccountRow).revenue = Revenue(SalesOf(d, 0))
  <2>1. CASE d \in DOMAIN accountRows
    BY <1>1, <1>2, <2>1 DEF AccountRowsAreTheSources, At
  <2>2. CASE d \notin DOMAIN accountRows
    <3>1. SalesOf(d, 0) = {}
      BY <1>1, <1>2, <2>2 DEF AccountRowsAreTheSources
    <3>2. Revenue({}) = 0
      BY <1>1, RevenueIsASum, SumOfNone
    <3> QED BY <2>2, <3>1, <3>2 DEF At, NoAccountRow
  <2> QED BY <2>1, <2>2
<1> DEFINE a == [x \in d .. d |-> At(accountRows, x, NoAccountRow).revenue]
<1>5. DOMAIN a = {d} /\ a[d] = Revenue(SalesOf(d, 0))
  BY <1>2, <1>4
<1>6. sumRevenueForRange(d, d) = SumFunctionOnSet(a, {d})
  BY <1>5 DEF sumRevenueForRange, SumFunction
<1> HIDE DEF a
<1>7. SumFunctionOnSet(a, {d}) = a[d] + SumFunctionOnSet(a, {d} \ {d})
  <2>1. IsFiniteSet({d}) /\ \A x \in {d} : a[x] \in Int
    BY <1>3, <1>5, FS_Singleton
  <2> QED BY <2>1, SumSplits
<1>8. SumFunctionOnSet(a, {d} \ {d}) = 0
  <2>1. {d} \ {d} = {}
    OBVIOUS
  <2> QED BY <2>1, SumOfNone
<1> QED BY <1>3, <1>4, <1>5, <1>6, <1>7, <1>8

DashboardCard(d, p) ==
    [product |-> p, revenue |-> skuDay(d)[p].revenue, stock |-> skuDay(d)[p].stock,
     delta |-> skuDay(d)[p].revenue - At(skuDay(d - 1), p, NoSKURow).revenue]

LEMMA ProductsAndTheRest ==
  ASSUME NEW from, NEW to, from <= to, NEW d, SettledDay(d, from, to), d # 0
  PROVE  LET cards == {DashboardCard(d, p) : p \in DOMAIN skuDay(d)}
         IN Revenue(SalesOf(d, 0))
              = SumFunctionOnSet([i \in cards |-> i.revenue], cards) + Revenue(Unattributed(d))
<1> DEFINE P == DOMAIN skuDay(d)
           Cards(T) == {DashboardCard(d, p) : p \in T}
           rev == [i \in Cards(P) |-> i.revenue]
           Sold(T) == {s \in SaleIds : sale[s].day = d /\ sale[s].product \in T}
           Good == {T \in SUBSET P : /\ IsFiniteSet(Cards(T))
                                     /\ SumFunctionOnSet(rev, Cards(T)) = SumFunctionOnSet(AmountOf, Sold(T))}
<1>1. SourceTypes /\ P \subseteq SoldProducts \cup ListedProducts /\ IsFiniteSet(P) /\ IsFiniteSet(SaleIds)
  BY AnalyticsConstants, FS_Subset DEF SettledDay
<1>2. \A s \in SaleIds : AmountOf[s] \in Int
  BY <1>1 DEF AmountOf, SourceTypes
<1>3. ASSUME NEW p \in P
      PROVE  /\ p # 0 /\ DashboardCard(d, p) \in Cards(P) /\ DashboardCard(d, p).product = p
             /\ rev[DashboardCard(d, p)] = SumFunctionOnSet(AmountOf, SalesOf(d, p))
             /\ rev[DashboardCard(d, p)] \in Int
             /\ SalesOf(d, p) = Sold({p})
  <2>1. p # 0
    BY <1>1, AnalyticsConstants
  <2>2. SalesOf(d, p) = Sold({p}) /\ SalesOf(d, p) \in SUBSET SaleIds
    BY <2>1 DEF SalesOf
  <2>3. DashboardCard(d, p) \in Cards(P) /\ DashboardCard(d, p).product = p
        /\ DashboardCard(d, p).revenue = skuDay(d)[p].revenue
    BY DEF DashboardCard
  <2>4. rev[DashboardCard(d, p)] = skuDay(d)[p].revenue
    BY <2>3
  <2>5. skuDay(d)[p].revenue = Revenue(SalesOf(d, p))
    BY RowsAreTyped
  <2>6. Revenue(SalesOf(d, p)) = SumFunctionOnSet(AmountOf, SalesOf(d, p)) /\ Revenue(SalesOf(d, p)) \in Int
    BY <1>1, <2>2, RevenueIsASum
  <2> QED BY <2>1, <2>2, <2>3, <2>4, <2>5, <2>6
<1>4. {} \in Good
  <2>1. Cards({}) = {} /\ Sold({}) = {}
    OBVIOUS
  <2> QED BY <2>1, SumOfNone, FS_EmptySet
<1>5. ASSUME NEW T \in SUBSET P, NEW p \in P \ T, T \in Good
      PROVE  T \cup {p} \in Good
  <2>1. /\ IsFiniteSet(Cards(T)) /\ SumFunctionOnSet(rev, Cards(T)) = SumFunctionOnSet(AmountOf, Sold(T))
    BY <1>5
  <2>2. Cards(T \cup {p}) = Cards(T) \cup {DashboardCard(d, p)}
    OBVIOUS
  <2>3. DashboardCard(d, p) \notin Cards(T)
    BY <1>3
  <2>4. \A i \in Cards(T) : rev[i] \in Int
    BY <1>3
  <2>5. Sold(T \cup {p}) = Sold(T) \cup Sold({p}) /\ Sold(T) \cap Sold({p}) = {} /\ Sold(T \cup {p}) \subseteq SaleIds
    OBVIOUS
  <2>6. rev[DashboardCard(d, p)] = SumFunctionOnSet(AmountOf, Sold({p})) /\ rev[DashboardCard(d, p)] \in Int
    BY <1>3
  <2> HIDE DEF Cards, rev, Sold, P
  <2>7. /\ SumFunctionOnSet(rev, Cards(T \cup {p})) = rev[DashboardCard(d, p)] + SumFunctionOnSet(rev, Cards(T))
        /\ IsFiniteSet(Cards(T \cup {p}))
    <3> DEFINE c == DashboardCard(d, p)
               old == Cards(T)
    <3>1. /\ IsFiniteSet(old) /\ c \notin old /\ rev[c] \in Int /\ (\A i \in old : rev[i] \in Int)
          /\ Cards(T \cup {p}) = old \cup {c}
      BY <2>1, <2>2, <2>3, <2>4, <2>6
    <3> HIDE DEF c, old
    <3>2. SumFunctionOnSet(rev, old \cup {c}) = rev[c] + SumFunctionOnSet(rev, old)
      BY <3>1, SumAdds
    <3>3. IsFiniteSet(old \cup {c})
      BY <3>1, FS_AddElement
    <3> QED BY <3>1, <3>2, <3>3 DEF c, old
  <2>8. /\ SumFunctionOnSet(AmountOf, Sold(T \cup {p}))
             = SumFunctionOnSet(AmountOf, Sold(T)) + SumFunctionOnSet(AmountOf, Sold({p}))
        /\ SumFunctionOnSet(AmountOf, Sold(T)) \in Int /\ SumFunctionOnSet(AmountOf, Sold({p})) \in Int
    <3>1. IsFiniteSet(Sold(T \cup {p})) /\ \A s \in Sold(T \cup {p}) : AmountOf[s] \in Int
      BY <1>1, <1>2, <2>5, FS_Subset
    <3> QED BY <2>5, <3>1, SumsAddUp
  <2> QED BY <2>1, <2>6, <2>7, <2>8
<1>6. P \in Good
  <2> HIDE DEF P, Good
  <2> QED BY <1>1, <1>4, <1>5, OneByOne
<1>7. Revenue(SalesOf(d, 0)) = SumFunctionOnSet(AmountOf, Sold(P)) + Revenue(Unattributed(d))
  <2> DEFINE all == SalesOf(d, 0)
             rest == Unattributed(d)
  <2>1. Sold(P) \cup rest = all /\ Sold(P) \cap rest = {} /\ all \in SUBSET SaleIds
    <3>1. \A s \in SaleIds : sale[s].product \in SoldProducts \cup {0}
      BY <1>1 DEF SourceTypes
    <3>2. \A s \in SaleIds : sale[s].day = d /\ sale[s].product # 0 => sale[s].product \in P
      BY <3>1 DEF SettledDay, SalesOf
    <3>3. \A p \in P : p # 0
      BY <1>3
    <3> QED BY <3>2, <3>3 DEF SalesOf, Unattributed
  <2>2. /\ Revenue(all) = SumFunctionOnSet(AmountOf, all) /\ IsFiniteSet(all) /\ \A s \in all : AmountOf[s] \in Int
        /\ Revenue(rest) = SumFunctionOnSet(AmountOf, rest)
    BY <1>1, <1>2, <2>1, RevenueIsASum
  <2> HIDE DEF all, rest, Sold, P
  <2>3. /\ SumFunctionOnSet(AmountOf, all) = SumFunctionOnSet(AmountOf, Sold(P)) + SumFunctionOnSet(AmountOf, rest)
    BY <2>1, <2>2, SumsAddUp
  <2>4. Revenue(all) = SumFunctionOnSet(AmountOf, Sold(P)) + Revenue(rest)
    BY <2>2, <2>3
  <2> QED BY <2>4 DEF all, rest
<1>8. SumFunctionOnSet(rev, Cards(P)) = SumFunctionOnSet(AmountOf, Sold(P))
  BY <1>6
<1>9. Revenue(SalesOf(d, 0)) = SumFunctionOnSet(rev, Cards(P)) + Revenue(Unattributed(d))
  <2> HIDE DEF rev, Cards, Sold, P
  <2> QED BY <1>7, <1>8
<1> QED BY <1>9
LEMMA RisksComeFirst ==
  ASSUME NEW from, NEW to, from <= to, NEW d, SettledDay(d, from, to)
  PROVE  \A i \in ToolStockRisks(d, 1) : \A p \in DOMAIN skuDay(d) :
            classifyStockRisk(skuDay(d)[p].stock, skuDay(d)[p].cover) <= i.risk
<1> DEFINE f == [p \in DOMAIN skuDay(d) |->
                   [product |-> p, stock |-> skuDay(d)[p].stock,
                    risk |-> classifyStockRisk(skuDay(d)[p].stock, skuDay(d)[p].cover)]]
           items == {f[p] : p \in DOMAIN skuDay(d)}
<1>1. IsFiniteSet(DOMAIN skuDay(d))
  BY AnalyticsConstants, FS_Subset DEF SettledDay
<1>2. IsFiniteSet(items)
  <2> HIDE DEF f
  <2> QED BY <1>1, ImageIsFinite
<1>3. \A p \in DOMAIN skuDay(d) : /\ f[p] \in items
                                  /\ f[p].risk = classifyStockRisk(skuDay(d)[p].stock, skuDay(d)[p].cover)
                                  /\ f[p].risk \in Int
  <2> SUFFICES ASSUME NEW p \in DOMAIN skuDay(d)
               PROVE  /\ f[p] \in items
                      /\ f[p].risk = classifyStockRisk(skuDay(d)[p].stock, skuDay(d)[p].cover)
                      /\ f[p].risk \in Int
    OBVIOUS
  <2>1. classifyStockRisk(skuDay(d)[p].stock, skuDay(d)[p].cover) \in Int
    BY DEF classifyStockRisk
  <2>2. f[p] \in items /\ f[p].risk = classifyStockRisk(skuDay(d)[p].stock, skuDay(d)[p].cover)
    OBVIOUS
  <2> QED BY <2>1, <2>2
<1>4. ToolStockRisks(d, 1) =
        {i \in items : Cardinality({j \in items : \/ j.risk > i.risk
                                                  \/ (j.risk = i.risk /\ j.product < i.product)}) < 1}
  <2>1. items = {[product |-> p, stock |-> skuDay(d)[p].stock,
                  risk |-> classifyStockRisk(skuDay(d)[p].stock, skuDay(d)[p].cover)] : p \in DOMAIN skuDay(d)}
    OBVIOUS
  <2> HIDE DEF items, f
  <2> QED BY <2>1 DEF ToolStockRisks, Top
<1>5. ASSUME NEW i \in ToolStockRisks(d, 1), NEW p \in DOMAIN skuDay(d)
      PROVE  f[p].risk <= i.risk
  <2> DEFINE above == {j \in items : j.risk > i.risk \/ (j.risk = i.risk /\ j.product < i.product)}
  <2>1. above = {}
    <3>1. above \in SUBSET items /\ Cardinality(above) < 1
      BY <1>4, <1>5
    <3> HIDE DEF above, items
    <3> QED BY <1>2, <3>1, NoneAbove
  <2>2. ~ (f[p].risk > i.risk)
    BY <1>3, <2>1
  <2>3. i \in items /\ i.risk \in Int
    <3>1. i \in items
      BY <1>4, <1>5
    <3> QED BY <1>3, <3>1
  <2> QED
    BY <1>3, <2>2, <2>3
<1> QED
  BY <1>3, <1>5

(* What the chat tool lists first when something is out of stock. *)
LEMMA OutOfStockComesFirst ==
  ASSUME NEW from, NEW to, from <= to, NEW d, SettledDay(d, from, to),
         NEW o \in DOMAIN skuDay(d), skuDay(d)[o].stock <= 0
  PROVE  \A i \in ToolCriticalSKUs(d, 1) :
           \/ i.stock <= 0
           \/ /\ i.stock <= 3 /\ skuDay(d)[i.product].revenue <= 0
              /\ skuDay(d)[o].revenue > 0
<1> DEFINE today == skuDay(d)
           f == [p \in DOMAIN today |-> [product |-> p, stock |-> today[p].stock]]
           items == {f[p] : p \in DOMAIN today}
           Score(p) == criticalProblemScore(today[p].stock, today[p].cover, numericFloat(today[p].revenue))
<1>1. IsFiniteSet(DOMAIN today)
  BY AnalyticsConstants, FS_Subset DEF SettledDay
<1>2. IsFiniteSet(items)
  <2> HIDE DEF f, today
  <2> QED BY <1>1, ImageIsFinite
<1>3. \A p \in DOMAIN today : f[p] \in items /\ f[p].product = p /\ f[p].stock = today[p].stock
  OBVIOUS
<1>4. ToolCriticalSKUs(d, 1) =
        {i \in items : Cardinality({j \in items : \/ Score(j.product) > Score(i.product)
                                                  \/ /\ Score(j.product) = Score(i.product)
                                                     /\ j.product < i.product}) < 1}
  <2>1. items = {[product |-> p, stock |-> today[p].stock] : p \in DOMAIN today}
    OBVIOUS
  <2> HIDE DEF items, f
  <2> QED BY <2>1 DEF ToolCriticalSKUs, Top
<1>5. \A p \in DOMAIN today : today[p].stock \in Nat /\ today[p].cover \in Int /\ today[p].revenue \in Int
  BY RowsAreTyped
<1> HIDE DEF today
<1>6. ASSUME NEW i \in ToolCriticalSKUs(d, 1)
      PROVE  \/ i.stock <= 0
             \/ i.stock <= 3 /\ today[i.product].revenue <= 0 /\ today[o].revenue > 0
  <2> DEFINE above == {j \in items : \/ Score(j.product) > Score(i.product)
                                     \/ (Score(j.product) = Score(i.product) /\ j.product < i.product)}
  <2>1. above = {}
    <3>1. above \in SUBSET items /\ Cardinality(above) < 1
      BY <1>4, <1>6
    <3> HIDE DEF above, items
    <3> QED BY <1>2, <3>1, NoneAbove
  <2>2. o \in DOMAIN today /\ today[o].stock <= 0
    BY DEF today
  <2>3. ~ (Score(o) > Score(i.product))
    <3> HIDE DEF Score, f
    <3> QED BY <1>3, <2>1, <2>2
  <2>4. PICK p \in DOMAIN today : i = f[p]
    BY <1>4, <1>6
  <2>5. i.product = p /\ i.stock = today[p].stock
    BY <1>3, <2>4
  <2>e. \A x \in DOMAIN today : numericFloat(today[x].revenue) \in Int
                                /\ (numericFloat(today[x].revenue) <= 0 <=> today[x].revenue <= 0)
    BY <1>5 DEF numericFloat, round2
  <2>6. Score(o) >= 6 /\ (today[o].revenue <= 0 => Score(o) >= 7) /\ Score(o) \in Int
    BY <1>5, <2>2, <2>e DEF criticalProblemScore
  <2>7. today[p].stock > 0 => Score(p) <= 6 /\ (Score(p) = 6 => today[p].stock <= 3 /\ today[p].revenue <= 0)
    BY <1>5, <2>e DEF criticalProblemScore
  <2>8. Score(p) \in Int
    BY <1>5, <2>e DEF criticalProblemScore
  <2> HIDE DEF Score, f
  <2> QED
    BY <1>5, <2>2, <2>3, <2>5, <2>6, <2>7, <2>8
<1> QED
  BY <1>6 DEF today
(* The replenishment screen and the chat tool classify alike. *)
LEMMA RisksAgree ==
  ASSUME NEW stock \in Int, NEW days \in Int
  PROVE  classifyDepletionRisk(stock, days) = classifyStockRisk(stock, days)
<1>1. CASE stock <= 0
  BY <1>1 DEF classifyDepletionRisk, classifyStockRisk
<1>2. CASE stock > 0 /\ days \in 0 .. 300
  BY <1>2 DEF classifyDepletionRisk, classifyStockRisk
<1>3. CASE stock > 0 /\ days \notin 0 .. 300
  BY <1>3 DEF classifyDepletionRisk, classifyStockRisk
<1> QED
  BY <1>1, <1>2, <1>3

(* The fields of the critical SKUs and of the replenishment list that other
   screens show too. *)
LEMMA CriticalCards ==
  ASSUME NEW d, NEW c \in ListCriticalSKUs(d)
  PROVE  /\ c.product \in DOMAIN skuDay(d)
         /\ c.stock = At(listCurrentStock, c.product, skuDay(d)[c.product].stock)
<1> DEFINE today == skuDay(d)
           revenue == [p \in DOMAIN today |-> today[p].revenue]
           total == SumFunction(revenue)
           before(p) == At(skuDay(d - 1), p, NoSKURow)
           delta(p) == revenue[p] - before(p).revenue
           stock(p) == At(listCurrentStock, p, today[p].stock)
           importance(p) == calcImportance(revenue[p], total, delta(p))
           score(p) == 5 * calcOutOfStockRisk(stock(p), today[p].cover) + 3 * importance(p)
                         + calcSalesDecline(delta(p), revenue[p])
                         + calcOrdersDecline(today[p].orders - before(p).orders)
<1>1. ListCriticalSKUs(d) =
        {[product |-> p, stock |-> stock(p), importance |-> importance(p), score |-> score(p)] : p \in DOMAIN today}
  BY Zenon DEF ListCriticalSKUs
<1> HIDE DEF importance, score, stock, today
<1>2. PICK p \in DOMAIN today :
         c = [product |-> p, stock |-> stock(p), importance |-> importance(p), score |-> score(p)]
  BY <1>1, Zenon
<1>3. c.product = p /\ c.stock = stock(p)
  BY <1>2
<1> QED BY <1>3 DEF stock, today

LEMMA ReplenishmentItems ==
  ASSUME NEW d, NEW r \in ListReplenishment(d)
  PROVE  /\ r.product \in DOMAIN listCurrentStock /\ r.stock = listCurrentStock[r.product]
         /\ r.risk = classifyDepletionRisk(r.stock, At(skuDay(d), r.product, NoSKURow).cover)
<1> DEFINE today == skuDay(d)
           total == SumFunction([p \in DOMAIN today |-> today[p].revenue])
           row(stock) == At(today, stock.product, NoSKURow)
           importance(stock) == calcImportance(row(stock).revenue, total, 0)
           risk(stock) == classifyDepletionRisk(stock.available, row(stock).cover)
           priority(stock) == classifyReplenishmentPriority(stock.available, row(stock).cover, importance(stock))
<1>1. ListReplenishment(d) =
        {[product |-> stock.product, stock |-> stock.available, risk |-> risk(stock), priority |-> priority(stock)] :
           stock \in ListCurrentStocks}
  BY Zenon DEF ListReplenishment
<1> HIDE DEF risk, priority
<1>2. PICK stock \in ListCurrentStocks :
         r = [product |-> stock.product, stock |-> stock.available, risk |-> risk(stock), priority |-> priority(stock)]
  BY <1>1, Zenon
<1>3. r.product = stock.product /\ r.stock = stock.available /\ r.risk = risk(stock)
  BY <1>2
<1>4. stock.product \in DOMAIN listCurrentStock /\ stock.available = listCurrentStock[stock.product]
  BY DEF ListCurrentStocks
<1> QED BY <1>3, <1>4 DEF risk

LEMMA ScreensOfADayAgree ==
  ASSUME MetricsInv, NEW d \in settled["account"] \cap settled["sku"], d = Max(settled["sku"])
  PROVE  ScreensAgree(d)
<1> DEFINE today == skuDay(d)
           skus == {DashboardCard(d, p) : p \in DOMAIN today}
<1>1. PICK from \in DaysAll, to \in DaysAll :
         from <= to /\ settled["sku"] = from .. to /\ HasSourceRows("sku", from, to)
  BY DEF MetricsInv, SettledIsTrue, Kinds, NoSpan
<1>2. SettledDay(d, from, to) /\ SourceTypes
  <2>1. d \in from .. to /\ SourceTypes
    BY <1>1 DEF MetricsInv, MetricTypes
  <2>2. /\ DOMAIN today = {p \in SoldProducts : SalesOf(d, p) # {}} \cup (IF d = to THEN ListedProducts ELSE {})
        /\ \A p \in DOMAIN today : today[p] = SourceRow(from, to, d, p)
    BY <1>1, <2>1, SKUDayIsRead
  <2>3. /\ DOMAIN today \subseteq SoldProducts \cup ListedProducts
        /\ \A p \in SoldProducts : SalesOf(d, p) # {} => p \in DOMAIN today
    BY <2>2
  <2> QED BY <1>1, <2>1, <2>2, <2>3 DEF SettledDay
<1>3. BuildDashboardMetrics(d).skus = skus /\ BuildDashboardMetrics(d).revenueToday = Revenue(SalesOf(d, 0))
  <2>1. BuildDashboardMetrics(d).revenueToday = sumRevenueForRange(d, d)
    BY DEF BuildDashboardMetrics
  <2>2. BuildDashboardMetrics(d).skus = skus
    BY DEF BuildDashboardMetrics, DashboardCard
  <2> QED BY <2>1, <2>2, RevenueToday
<1>4. \A p \in DOMAIN today : /\ today[p].stock = StockNow(p) /\ today[p].stock \in Nat
                              /\ today[p].cover \in Int /\ today[p].revenue \in Int
  BY <1>1, <1>2, RowsAreTyped
<1>5. \A p \in DOMAIN today : /\ DashboardCard(d, p) \in skus /\ DashboardCard(d, p).product = p
                              /\ DashboardCard(d, p).stock = today[p].stock
                              /\ DashboardCard(d, p).revenue = today[p].revenue
  BY DEF DashboardCard
<1>6. GetDashboardSummary(d).revenue
        = BuildDashboardMetrics(d).revenueToday + IF BuildDashboardMetrics(d).revenueToday < 0 THEN 1 ELSE 0
  <2> DEFINE cents == Revenue(SalesOf(d, 0))
  <2>1. GetDashboardSummary(d).revenue = round2(cents)
    BY RevenueToday DEF GetDashboardSummary, numericFloat
  <2>2. cents \in Int /\ BuildDashboardMetrics(d).revenueToday = cents
    BY <1>3, RevenueToday
  <2> HIDE DEF cents
  <2> QED BY <2>1, <2>2 DEF round2
<1>7. BuildDashboardMetrics(d).revenueToday
        = SumFunction([i \in BuildDashboardMetrics(d).skus |-> i.revenue]) + Revenue(Unattributed(d))
  <2>1. SumFunction([i \in skus |-> i.revenue]) = SumFunctionOnSet([i \in skus |-> i.revenue], skus)
    BY DEF SumFunction
  <2>2. Revenue(SalesOf(d, 0)) = SumFunctionOnSet([i \in skus |-> i.revenue], skus) + Revenue(Unattributed(d))
    <3>1. d # 0
      BY <1>1 DEF DaysAll
    <3> QED BY <1>1, <1>2, <3>1, ProductsAndTheRest
  <2> HIDE DEF skus
  <2> QED BY <1>3, <2>1, <2>2
<1>8. \A c \in ListCriticalSKUs(d) : \E i \in skus : i.product = c.product /\ i.stock = c.stock
  <2>1. \A c \in ListCriticalSKUs(d) : c.product \in DOMAIN today
                                       /\ c.stock = At(listCurrentStock, c.product, today[c.product].stock)
    BY CriticalCards
  <2>2. \A p \in DOMAIN today : At(listCurrentStock, p, today[p].stock) = today[p].stock
    BY <1>2, <1>4, StockIsACount DEF At
  <2> HIDE DEF skus, today
  <2> QED BY <1>5, <2>1, <2>2
<1>9. \A r \in ListReplenishment(d) :
         /\ r.product \in DOMAIN listCurrentStock /\ r.stock = listCurrentStock[r.product]
         /\ r.risk = classifyDepletionRisk(r.stock, At(today, r.product, NoSKURow).cover)
  BY ReplenishmentItems
<1>10. \A r \in ListReplenishment(d) : r.product \in DOMAIN today => r.stock = today[r.product].stock
  BY <1>2, <1>4, <1>9, StockIsACount
<1>11. \A r \in ListReplenishment(d) : \A i \in skus : i.product = r.product => i.stock = r.stock
  BY <1>5, <1>10
<1>12. \A i \in ToolStockRisks(d, 1) : \A r \in ListReplenishment(d) : r.product \in DOMAIN today => r.risk <= i.risk
  <2> SUFFICES ASSUME NEW i \in ToolStockRisks(d, 1), NEW r \in ListReplenishment(d), r.product \in DOMAIN today
               PROVE  r.risk <= i.risk
    OBVIOUS
  <2>1. classifyStockRisk(today[r.product].stock, today[r.product].cover) <= i.risk
    BY <1>1, <1>2, RisksComeFirst
  <2>2. r.risk = classifyDepletionRisk(today[r.product].stock, today[r.product].cover)
    BY <1>9, <1>10 DEF At
  <2>3. r.risk = classifyStockRisk(today[r.product].stock, today[r.product].cover)
    BY <1>4, <2>2, RisksAgree
  <2> QED BY <2>1, <2>3
<1>13. \A o \in DOMAIN today : today[o].stock <= 0 =>
          \A i \in ToolCriticalSKUs(d, 1) :
             i.stock <= 0 \/ (i.stock <= 3 /\ today[i.product].revenue <= 0 /\ today[o].revenue > 0)
  BY <1>1, <1>2, OutOfStockComesFirst
<1>14. (\E c \in skus : c.stock <= 0) =>
          \A i \in ToolCriticalSKUs(d, 1) :
             \/ i.stock <= 0
             \/ /\ i.stock <= 3 /\ today[i.product].revenue <= 0
                /\ \A c \in skus : c.stock <= 0 => c.revenue > 0
  <2> SUFFICES ASSUME NEW c \in skus, c.stock <= 0, NEW i \in ToolCriticalSKUs(d, 1), ~(i.stock <= 0)
               PROVE  /\ i.stock <= 3 /\ today[i.product].revenue <= 0
                      /\ \A b \in skus : b.stock <= 0 => b.revenue > 0
    OBVIOUS
  <2>1. \A b \in skus : b.stock <= 0 =>
           i.stock <= 3 /\ today[i.product].revenue <= 0 /\ b.revenue > 0
    BY <1>5, <1>13
  <2> QED BY <2>1
<1> HIDE DEF skus
<1> QED
  BY <1>3, <1>6, <1>7, <1>8, <1>11, <1>12, <1>14 DEF ScreensAgree

LEMMA MetricsMatch ==
  MetricsInv => MetricsMatchSources
<1> SUFFICES ASSUME MetricsInv PROVE MetricsMatchSources
  OBVIOUS
<1>1. \A d \in settled["account"] \cap settled["sku"] : d = Max(settled["sku"]) => ScreensAgree(d)
  BY ScreensOfADayAgree
<1> QED
  BY <1>1, AccountRowsAreRead, SKURowsAreRead DEF MetricsMatchSources

(* A rebuild that nothing got in the way of leaves the rows of the sources,
   and on its last day every screen tells the same story of them. *)
THEOREM MetricsAreTheSources == MetricsSpec => []MetricsMatchSources
<1>1. MetricsSpec => []MetricsInv
  BY MetricsStart, MetricsKeepInv, PTL DEF MetricsSpec
<1> QED
  BY <1>1, MetricsMatch, PTL

-----------------------------------------------------------------------------
(* Quotients. *)

LEMMA TimesGrows ==
  ASSUME NEW d \in Nat, NEW x \in Nat, NEW y \in Nat, x <= y
  PROVE  d * x <= d * y
  OBVIOUS

LEMMA QuotientOf ==
  ASSUME NEW a \in Nat, NEW d \in Nat \ {0}
  PROVE  a \div d \in Nat /\ d * (a \div d) <= a /\ a < d * ((a \div d) + 1)
  OBVIOUS

LEMMA QuotientIsGreatest ==
  ASSUME NEW a \in Nat, NEW d \in Nat \ {0}, NEW q \in Nat, d * q <= a
  PROVE  q <= a \div d
<1> DEFINE r == a \div d
<1>1. r \in Nat /\ a < d * (r + 1)
  BY QuotientOf
<1> HIDE DEF r
<1>2. CASE q >= r + 1
  <2>1. d * (r + 1) <= d * q
    BY <1>1, <1>2, TimesGrows
  <2>2. d * (r + 1) \in Int /\ d * q \in Int
    BY <1>1
  <2> QED
    BY <1>1, <2>1, <2>2
<1>3. CASE q <= r
  BY <1>3 DEF r
<1> QED
  BY <1>1, <1>2, <1>3

-----------------------------------------------------------------------------
(* The days of cover. *)

(* A stock has cover if there is some of it and some demand for it. *)
LEMMA CoverIsACount ==
  ASSUME NEW f \in Facts
  PROVE  /\ cover(f) \in Int
         /\ cover(f) >= 0 <=> f.stock > 0 /\ f.demand > 0
         /\ cover(f) < 0 => cover(f) = -1
<1> DEFINE gone == 200 * f.stock * DemandDays + f.demand
           per == 2 * f.demand
<1>1. f.stock \in Int /\ f.demand \in Nat /\ DemandDays \in Nat
  BY AnalyticsConstants DEF Facts
<1>2. CASE f.stock > 0 /\ f.demand > 0
  <2>1. f.stock * DemandDays \in Nat
    BY <1>1, <1>2
  <2>2. 200 * f.stock * DemandDays \in Nat
    BY <1>1, <1>2
  <2>3. gone \in Nat /\ per \in Nat \ {0}
    BY <1>1, <1>2, <2>2
  <2>4. cover(f) = gone \div per
    BY <1>1, <1>2 DEF cover, calcDaysOfCover
  <2> HIDE DEF gone, per
  <2>5. gone \div per \in Nat
    BY <2>3, QuotientOf
  <2> QED
    BY <1>2, <2>4, <2>5
<1>3. CASE f.stock <= 0 \/ f.demand = 0
  <2>1. cover(f) = -1
    BY <1>3 DEF cover, calcDaysOfCover
  <2> QED
    BY <1>1, <1>3, <2>1
<1> QED
  BY <1>1, <1>2, <1>3

(* With less stock and more demand there is less cover, or nothing left. *)
LEMMA CoverSinks ==
  ASSUME NEW f \in Facts, NEW g \in Facts,
         g.stock <= f.stock, g.demand >= f.demand, cover(f) >= 0, g.stock > 0
  PROVE  cover(g) \in 0 .. cover(f)
<1> DEFINE goods(h) == 200 * h.stock * DemandDays
           q == cover(g)
<1>1. /\ f.stock \in Nat /\ g.stock \in Nat /\ f.demand \in Nat \ {0} /\ g.demand \in Nat \ {0}
      /\ DemandDays \in Nat /\ cover(f) \in Nat /\ q \in Nat
  BY AnalyticsConstants, CoverIsACount DEF Facts
<1>2. goods(f) \in Nat /\ goods(g) \in Nat /\ goods(g) <= goods(f)
  <2>1. /\ DemandDays * (200 * g.stock) <= DemandDays * (200 * f.stock)
    <3>1. 200 * g.stock \in Nat /\ 200 * f.stock \in Nat /\ 200 * g.stock <= 200 * f.stock
      BY <1>1
    <3> QED
      BY <1>1, <3>1, TimesGrows
  <2>2. goods(f) = DemandDays * (200 * f.stock) /\ goods(g) = DemandDays * (200 * g.stock)
    BY <1>1
  <2>3. DemandDays * (200 * f.stock) \in Nat /\ DemandDays * (200 * g.stock) \in Nat
    BY <1>1
  <2> QED
    BY <2>1, <2>2, <2>3
<1>3. /\ cover(f) = (goods(f) + f.demand) \div (2 * f.demand)
      /\ q = (goods(g) + g.demand) \div (2 * g.demand)
  BY <1>1 DEF cover, calcDaysOfCover
<1> HIDE DEF goods, q
<1>4. (2 * g.demand) * q <= goods(g) + g.demand
  <2>1. goods(g) + g.demand \in Nat /\ 2 * g.demand \in Nat \ {0}
    BY <1>1, <1>2
  <2> QED
    BY <1>3, <2>1, QuotientOf
<1>5. (2 * f.demand) * q <= goods(f) + f.demand
  <2>1. CASE q = 0
    BY <1>1, <1>2, <2>1
  <2>2. CASE q >= 1
    <3> DEFINE k == 2 * q - 1
    <3>1. k \in Nat
      BY <1>1, <2>2
    <3>2. (2 * g.demand) * q = k * g.demand + g.demand /\ (2 * f.demand) * q = k * f.demand + f.demand
      BY <1>1
    <3> HIDE DEF k
    <3>3. k * f.demand <= k * g.demand
      <4>1. f.demand \in Nat /\ g.demand \in Nat /\ f.demand <= g.demand
        BY <1>1
      <4> QED
        BY <3>1, <4>1, TimesGrows
    <3>4. k * f.demand \in Int /\ k * g.demand \in Int
      BY <1>1, <3>1
    <3> QED
      BY <1>1, <1>2, <1>4, <3>2, <3>3, <3>4
  <2> QED
    BY <1>1, <2>1, <2>2
<1>6. q <= cover(f)
  <2>1. goods(f) + f.demand \in Nat /\ 2 * f.demand \in Nat \ {0}
    BY <1>1, <1>2
  <2> QED
    BY <1>1, <1>3, <1>5, <2>1, QuotientIsGreatest
<1> QED
  BY <1>1, <1>6 DEF q

-----------------------------------------------------------------------------
(* Verdicts and their ranks. *)

Grades == 0 .. 4
AreVerdicts(V) == V # {} /\ \A v \in V : v[1] \in Grades /\ v[2] \in Grades

LEMMA GradesHaveAMax ==
  ASSUME NEW S \in SUBSET Grades, S # {}
  PROVE  Max(S) \in S /\ \A x \in S : x <= Max(S)
<1>1. \E x \in S : \A y \in S : x >= y
  <2>1. CASE 4 \in S
    BY <2>1 DEF Grades
  <2>2. CASE 4 \notin S /\ 3 \in S
    BY <2>2 DEF Grades
  <2>3. CASE 4 \notin S /\ 3 \notin S /\ 2 \in S
    BY <2>3 DEF Grades
  <2>4. CASE 4 \notin S /\ 3 \notin S /\ 2 \notin S /\ 1 \in S
    BY <2>4 DEF Grades
  <2>5. CASE 4 \notin S /\ 3 \notin S /\ 2 \notin S /\ 1 \notin S
    <3>1. \A x \in S : x = 0
      BY <2>5 DEF Grades
    <3> QED
      BY <3>1
  <2> QED
    BY <2>1, <2>2, <2>3, <2>4, <2>5
<1> QED
  BY <1>1 DEF Max, Grades

(* If every verdict of one set is answered by one as bad in the other, the
   other set ranks as high. *)
LEMMA WorseRanksHigher ==
  ASSUME NEW V, NEW W, AreVerdicts(V), AreVerdicts(W), NEW i \in 1 .. 2,
         \A v \in V : \E w \in W : v[i] <= w[i]
  PROVE  Rank(V, i) <= Rank(W, i) /\ Rank(V, i) \in Grades /\ Rank(W, i) \in Grades
<1> DEFINE S == {v[i] : v \in V}
           T == {w[i] : w \in W}
<1>1. S \in SUBSET Grades /\ S # {} /\ T \in SUBSET Grades /\ T # {}
  BY DEF AreVerdicts
<1>2. /\ Max(S) \in S /\ Max(T) \in T /\ \A x \in T : x <= Max(T)
  <2> HIDE DEF S, T
  <2> QED
    BY <1>1, GradesHaveAMax
<1>3. PICK w \in W : Max(S) <= w[i]
  BY <1>2
<1>4. w[i] <= Max(T) /\ w[i] \in Grades /\ Max(S) \in Grades /\ Max(T) \in Grades
  BY <1>1, <1>2
<1>5. Max(S) <= Max(T)
  <2> HIDE DEF S, T
  <2> QED
    BY <1>3, <1>4 DEF Grades
<1> QED
  BY <1>4, <1>5 DEF Rank

-----------------------------------------------------------------------------
(* What stays and what gets worse on a day about one topic. *)

Worse(v, w) == /\ v[1] \in Grades /\ v[2] \in Grades /\ w[1] \in Grades /\ w[2] \in Grades
               /\ v[1] <= w[1] /\ v[2] <= w[2]

StockStays(f, g) == g.stock = f.stock /\ g.demand = f.demand
SalesStay(f, g) == /\ g.revenue = f.revenue /\ g.orders = f.orders /\ g.sold = f.sold
                   /\ g.before = f.before /\ g.ordersBefore = f.ordersBefore /\ g.soldBefore = f.soldBefore
PastAdsStay(f, g) == /\ g.spendBefore = f.spendBefore /\ g.adRevenueBefore = f.adRevenueBefore
                     /\ g.adOrdersBefore = f.adOrdersBefore /\ g.adDays = f.adDays
                     /\ g.clicks = f.clicks /\ g.impressions = f.impressions
AdsStay(f, g) == /\ g.spend = f.spend /\ g.adRevenue = f.adRevenue /\ g.adOrders = f.adOrders
                 /\ PastAdsStay(f, g)

Depletes(f, g) == /\ g.stock <= f.stock /\ g.demand >= f.demand /\ g.importance = f.importance
                  /\ SalesStay(f, g) /\ AdsStay(f, g)

Declines(f, g) == /\ g.revenue <= f.revenue /\ g.orders <= f.orders /\ (g.sold => f.sold)
                  /\ g.before = f.before /\ g.ordersBefore = f.ordersBefore /\ g.soldBefore = f.soldBefore
                  /\ g.others = f.others
                  /\ AdsStay(f, g)

Wastes(f, g) == /\ g.spend >= f.spend /\ g.adOrders <= f.adOrders /\ g.adRevenue <= f.adRevenue
                /\ PastAdsStay(f, g)
                /\ StockStays(f, g) /\ SalesStay(f, g)

Cheapens(f, g) == /\ f.price <= f.max /\ g.price > 0 /\ g.price <= f.price
                  /\ g.min = f.min /\ g.max = f.max /\ g.cost = f.cost
                  /\ SalesStay(f, g) /\ AdsStay(f, g)

-----------------------------------------------------------------------------
(* Stock. *)

CoversSink(f, g) ==
  /\ f.stock \in Int /\ g.stock \in Int /\ g.stock <= f.stock
  /\ cover(f) \in Int /\ cover(g) \in Int
  /\ cover(f) >= 0 => f.stock > 0
  /\ cover(g) >= 0 => g.stock > 0
  /\ cover(f) >= 0 /\ g.stock > 0 => cover(g) \in 0 .. cover(f)

LEMMA DepletionLowersCover ==
  ASSUME NEW f \in Facts, NEW g \in Facts, g.stock <= f.stock, g.demand >= f.demand
  PROVE  CoversSink(f, g)
<1>1. f.stock \in Int /\ g.stock \in Int
  BY DEF Facts
<1> QED
  BY <1>1, CoverIsACount, CoverSinks DEF CoversSink

(* What was within some days is within them still, or out of stock. *)
CoversWithin(f, g, days) ==
  CoverWithin(f, days) => f.stock > 0 /\ (g.stock <= 0 \/ CoverWithin(g, days))

LEMMA CoversStayWithin ==
  ASSUME NEW f, NEW g, CoversSink(f, g)
  PROVE  /\ CoversWithin(f, g, 3) /\ CoversWithin(f, g, 7)
         /\ cover(f) \in 0 .. 99 => f.stock > 0 /\ (g.stock <= 0 \/ cover(g) \in 0 .. 99)
<1>1. ASSUME NEW n \in Nat
      PROVE  cover(f) \in 0 .. n => f.stock > 0 /\ (g.stock <= 0 \/ cover(g) \in 0 .. n)
  <2>1. CASE cover(f) >= 0 /\ g.stock > 0
    BY <2>1 DEF CoversSink
  <2>2. CASE cover(f) < 0 \/ g.stock <= 0
    BY <2>2 DEF CoversSink
  <2> QED BY <2>1, <2>2 DEF CoversSink
<1>2. 100 * 3 \in Nat /\ 100 * 7 \in Nat /\ 99 \in Nat
  OBVIOUS
<1> QED BY <1>1, <1>2 DEF CoversWithin, CoverWithin

LEMMA OOSRiskWorsens ==
  ASSUME NEW f, NEW g, CoversSink(f, g)
  PROVE  Worse(evaluateStockOOSRisk(f), evaluateStockOOSRisk(g))
BY DEF CoversSink, evaluateStockOOSRisk, severityForOOSRisk, urgencyForOOSRisk, CoverWithin, Calm, Worse, Grades

LEMMA CriticalSKULowStockWorsens ==
  ASSUME NEW f, NEW g, CoversSink(f, g), SalesStay(f, g)
  PROVE  Worse(evaluateStockCriticalSKULowStock(f), evaluateStockCriticalSKULowStock(g))
<1>1. CoversWithin(f, g, 3) /\ CoversWithin(f, g, 7) /\ f.stock \in Int /\ g.stock \in Int /\ g.stock <= f.stock
  BY CoversStayWithin DEF CoversSink
<1> QED
  BY <1>1 DEF CoversWithin, SalesStay, evaluateStockCriticalSKULowStock, severityForCriticalSKULowStock, Calm,
              Worse, Grades

(* Below three days the alert about low coverage gives way to that about risk. *)
LEMMA LowCoverageWorsens ==
  ASSUME NEW f, NEW g, CoversSink(f, g)
  PROVE  \/ Worse(evaluateStockLowCoverage(f), evaluateStockLowCoverage(g))
         \/ Worse(evaluateStockLowCoverage(f), evaluateStockOOSRisk(g))
<1>1. CASE g.stock <= 0 \/ CoverWithin(g, 3)
  <2>1. evaluateStockOOSRisk(g)[1] \in 3 .. 4 /\ evaluateStockOOSRisk(g)[2] \in 3 .. 4
    BY <1>1 DEF evaluateStockOOSRisk, severityForOOSRisk, urgencyForOOSRisk
  <2>2. evaluateStockLowCoverage(f) = Medium \/ evaluateStockLowCoverage(f) = Calm
    BY DEF evaluateStockLowCoverage
  <2> QED
    BY <2>1, <2>2 DEF Worse, Grades, Medium, Calm
<1>2. CASE g.stock > 0 /\ ~ CoverWithin(g, 3)
  <2>1. f.stock > 0 /\ CoverWithin(f, 7) => CoverWithin(g, 7)
    BY <1>2 DEF CoversSink, CoverWithin
  <2> QED
    BY <1>2, <2>1 DEF evaluateStockLowCoverage, Worse, Grades, Medium, Calm
<1> QED
  BY <1>1, <1>2 DEF CoversSink

LEMMA AdBudgetAlert ==
  ASSUME NEW f, f.spend \in Int, f.stock \in Int, cover(f) \in Int
  PROVE  evaluateAdBudgetOnLowStockSKU(f) =
           IF f.spend <= 0 \/ (f.stock > 0 /\ ~ CoverWithin(f, 7)) THEN Calm
           ELSE IF f.stock <= 0 THEN Immediate
           ELSE IF CoverWithin(f, 3) THEN High ELSE Medium
<1>1. CoverWithin(f, 3) => CoverWithin(f, 7)
  BY DEF CoverWithin
<1>2. CASE f.spend <= 0 \/ (f.stock > 0 /\ ~ CoverWithin(f, 7))
  BY <1>1, <1>2 DEF evaluateAdBudgetOnLowStockSKU
<1>3. CASE f.spend > 0 /\ f.stock <= 0
  BY <1>3 DEF evaluateAdBudgetOnLowStockSKU
<1>4. CASE f.spend > 0 /\ f.stock > 0 /\ CoverWithin(f, 7)
  BY <1>1, <1>4 DEF evaluateAdBudgetOnLowStockSKU
<1> QED
  BY <1>2, <1>3, <1>4

LEMMA AdBudgetWorsens ==
  ASSUME NEW f, NEW g, CoversSink(f, g), f.spend \in Int, g.spend \in Int, g.spend >= f.spend
  PROVE  Worse(evaluateAdBudgetOnLowStockSKU(f), evaluateAdBudgetOnLowStockSKU(g))
<1>1. f.stock \in Int /\ g.stock \in Int /\ cover(f) \in Int /\ cover(g) \in Int
  BY DEF CoversSink
<1>2. CoversWithin(f, g, 3) /\ CoversWithin(f, g, 7)
  BY CoversStayWithin
<1> QED
  BY <1>1, <1>2, AdBudgetAlert DEF CoversSink, CoversWithin, Calm, Immediate, High, Medium, Worse, Grades

-----------------------------------------------------------------------------
(* Advertising and sales. *)

LEMMA Capped ==
  ASSUME NEW a \in Int
  PROVE  Min({a, 3}) = IF a <= 3 THEN a ELSE 3
<1> DEFINE m == IF a <= 3 THEN a ELSE 3
<1>1. m \in {a, 3} /\ \A y \in {a, 3} : m <= y
  OBVIOUS
<1>2. \A x \in {a, 3} : (\A y \in {a, 3} : x <= y) => x = m
  OBVIOUS
<1> HIDE DEF m
<1>3. Min({a, 3}) = m
  BY <1>1, <1>2 DEF Min
<1> QED
  BY <1>3 DEF m

(* A campaign that keeps some revenue stays inefficient; one that loses it
   after a large spend is as bad without result. *)
LEMMA AdWasteWorsens ==
  ASSUME NEW f \in Facts, NEW g \in Facts, g.spend >= f.spend, g.adOrders <= f.adOrders, g.adRevenue <= f.adRevenue
  PROVE  /\ Worse(evaluateAdSpendWithoutResult(f), evaluateAdSpendWithoutResult(g))
         /\ evaluateAdWeakCampaignEfficiency(g)[1] \in Grades /\ evaluateAdWeakCampaignEfficiency(g)[2] \in Grades
         /\ \/ Worse(evaluateAdWeakCampaignEfficiency(f), evaluateAdWeakCampaignEfficiency(g))
            \/ Worse(evaluateAdWeakCampaignEfficiency(f), evaluateAdSpendWithoutResult(g))
            \/ f.adRevenue > 0 /\ g.adRevenue <= 0 /\ f.spend < 10000
         /\ f.spend >= 1000 /\ g.adRevenue <= 0 => /\ evaluateAdSpendWithoutResult(g)[1] \in 2 .. 4
                                                  /\ evaluateAdSpendWithoutResult(g)[2] \in 2 .. 4
<1>1. /\ f.spend \in Int /\ g.spend \in Int /\ f.adOrders \in Nat /\ g.adOrders \in Nat
      /\ f.adRevenue \in Int /\ g.adRevenue \in Int
  BY DEF Facts
<1>2. \A a, b \in 2 .. 4 : a <= b => Min({a, 3}) \in 2 .. 3 /\ Min({b, 3}) \in 2 .. 3 /\ Min({a, 3}) <= Min({b, 3})
  BY Capped
<1>3. /\ severityForAdSpendWithoutResult(f) \in 2 .. 4 /\ severityForAdSpendWithoutResult(g) \in 2 .. 4
      /\ severityForAdSpendWithoutResult(f) <= severityForAdSpendWithoutResult(g)
      /\ f.spend >= 10000 => severityForAdSpendWithoutResult(g) = 4
      /\ severityForAdROAS(f) \in 2 .. 4 /\ severityForAdROAS(g) \in 2 .. 4
      /\ severityForAdROAS(f) <= severityForAdROAS(g)
  BY <1>1 DEF severityForAdSpendWithoutResult, severityForAdROAS
<1>4. Worse(evaluateAdSpendWithoutResult(f), evaluateAdSpendWithoutResult(g))
  BY <1>1, <1>2, <1>3 DEF evaluateAdSpendWithoutResult, Worse, Calm, Grades
<1>5. evaluateAdWeakCampaignEfficiency(g)[1] \in Grades /\ evaluateAdWeakCampaignEfficiency(g)[2] \in Grades
  BY <1>2, <1>3 DEF evaluateAdWeakCampaignEfficiency, Calm, Grades
<1>6. f.spend >= 1000 /\ g.adRevenue <= 0 => /\ evaluateAdSpendWithoutResult(g)[1] \in 2 .. 4
                                             /\ evaluateAdSpendWithoutResult(g)[2] \in 2 .. 4
  BY <1>1, <1>2, <1>3 DEF evaluateAdSpendWithoutResult
<1>7. \/ Worse(evaluateAdWeakCampaignEfficiency(f), evaluateAdWeakCampaignEfficiency(g))
      \/ Worse(evaluateAdWeakCampaignEfficiency(f), evaluateAdSpendWithoutResult(g))
      \/ f.adRevenue > 0 /\ g.adRevenue <= 0 /\ f.spend < 10000
  <2>1. CASE g.adRevenue > 0 \/ f.adRevenue <= 0
    BY <1>1, <1>2, <1>3, <2>1 DEF evaluateAdWeakCampaignEfficiency, Worse, Calm, Grades
  <2>2. CASE f.adRevenue > 0 /\ g.adRevenue <= 0 /\ f.spend >= 10000
    <3>1. Min({4, 3}) = 3
      BY Capped
    <3>2. evaluateAdSpendWithoutResult(g) = <<4, 3>>
      BY <1>1, <1>3, <2>2, <3>1 DEF evaluateAdSpendWithoutResult
    <3>3. evaluateAdWeakCampaignEfficiency(f)[1] \in Grades /\ evaluateAdWeakCampaignEfficiency(f)[2] \in 0 .. 3
      BY <1>2, <1>3 DEF evaluateAdWeakCampaignEfficiency, Calm, Grades
    <3> QED BY <3>2, <3>3 DEF Worse, Grades
  <2> QED BY <1>1, <2>1, <2>2
<1> QED
  BY <1>4, <1>5, <1>6, <1>7

(* Capping keeps the order, so the urgency of a sales alert follows its severity. *)
LEMMA CappedKeepsOrder ==
  ASSUME NEW a \in 2 .. 4, NEW b \in 2 .. 4, a <= b
  PROVE  Min({a, 3}) \in 2 .. 3 /\ Min({b, 3}) \in 2 .. 3 /\ Min({a, 3}) <= Min({b, 3})
  BY Capped

LEMMA FallDeepens ==
  ASSUME NEW c \in Int, NEW d \in Int, d <= c, NEW p \in Int, NEW percent \in {30, 40, 50, 60, 70}, Fell(c, p, percent)
  PROVE  Fell(d, p, percent)
<1>1. CASE percent = 30
  BY <1>1 DEF Fell
<1>2. CASE percent = 40
  BY <1>2 DEF Fell
<1>3. CASE percent = 50
  BY <1>3 DEF Fell
<1>4. CASE percent = 60
  BY <1>4 DEF Fell
<1>5. CASE percent = 70
  BY <1>5 DEF Fell
<1> QED
  BY <1>1, <1>2, <1>3, <1>4, <1>5

LEMMA DropWorsens ==
  ASSUME NEW c \in Int, NEW d \in Int, d <= c, NEW p \in Int
  PROVE  Worse(evaluateSalesRevenueDrop(c, p), evaluateSalesRevenueDrop(d, p))
<1>1. /\ severityForAccountDrop(c, p) \in 2 .. 4 /\ severityForAccountDrop(d, p) \in 2 .. 4
      /\ severityForAccountDrop(c, p) <= severityForAccountDrop(d, p)
  BY FallDeepens DEF severityForAccountDrop
<1>2. Fell(c, p, 30) => Fell(d, p, 30)
  BY FallDeepens
<1> QED
  BY <1>1, <1>2, CappedKeepsOrder DEF evaluateSalesRevenueDrop, Worse, Calm, Grades

LEMMA SKUDropWorsens ==
  ASSUME NEW f \in Facts, NEW g \in Facts, g.revenue <= f.revenue, g.before = f.before
  PROVE  Worse(evaluateSKURevenueDrop(f), evaluateSKURevenueDrop(g))
<1>1. f.revenue \in Int /\ g.revenue \in Int /\ f.before \in Int
  BY DEF Facts
<1>2. /\ severityForSKURevenueDrop(f) \in 2 .. 4 /\ severityForSKURevenueDrop(g) \in 2 .. 4
      /\ severityForSKURevenueDrop(f) <= severityForSKURevenueDrop(g)
  BY <1>1, FallDeepens DEF severityForSKURevenueDrop
<1>3. Fell(f.revenue, f.before, 40) => Fell(g.revenue, g.before, 40)
  BY <1>1, FallDeepens
<1> QED
  BY <1>2, <1>3, CappedKeepsOrder DEF evaluateSKURevenueDrop, Worse, Calm, Grades

LEMMA ContributionWorsens ==
  ASSUME NEW f \in Facts, NEW g \in Facts, g.revenue <= f.revenue, g.before = f.before, g.others = f.others
  PROVE  Worse(evaluateSKUNegativeContribution(f), evaluateSKUNegativeContribution(g))
<1> DEFINE part(h) == h.before - h.revenue
           whole(h) == part(h) - h.others
           severity(h) == severityForContributionShare(part(h), whole(h))
           fires(h) == whole(h) > 0 /\ part(h) > 0 /\ 5 * part(h) >= whole(h)
<1>1. f.revenue \in Int /\ g.revenue \in Int /\ f.before \in Int /\ f.others \in Int
  BY DEF Facts
<1>2. fires(f) => fires(g)
  BY <1>1
<1>3. severity(f) \in 2 .. 4 /\ severity(g) \in 2 .. 4 /\ severity(f) <= severity(g)
  BY <1>1 DEF severityForContributionShare
<1>4. /\ evaluateSKUNegativeContribution(f) = IF fires(f) THEN <<severity(f), Min({severity(f), 3})>> ELSE Calm
      /\ evaluateSKUNegativeContribution(g) = IF fires(g) THEN <<severity(g), Min({severity(g), 3})>> ELSE Calm
  BY DEF evaluateSKUNegativeContribution
<1> HIDE DEF fires, severity
<1> QED
  BY <1>2, <1>3, <1>4, CappedKeepsOrder DEF Worse, Calm, Grades

-----------------------------------------------------------------------------
(* Prices. *)

LEMMA PriceRulesWorsen ==
  ASSUME NEW f \in Facts, NEW g \in Facts, Cheapens(f, g)
  PROVE  /\ Worse(evaluatePriceBelowMinConstraint(f), evaluatePriceBelowMinConstraint(g))
         /\ Worse(evaluateMarginRiskAtCurrentPrice(f), evaluateMarginRiskAtCurrentPrice(g))
         /\ Worse(evaluatePriceAboveMaxConstraint(f), evaluatePriceAboveMaxConstraint(g))
         /\ Worse(evaluateMissingPricingConstraintsForKeySKU(f), evaluateMissingPricingConstraintsForKeySKU(g))
<1>1. f.price \in Int /\ g.price \in Int /\ f.min \in Int /\ f.max \in Int /\ f.cost \in Int
  BY DEF Facts
<1> USE <1>1 DEF Cheapens, SalesStay, Worse, Calm, Medium, High, Immediate, Grades
<1>2. Worse(evaluatePriceBelowMinConstraint(f), evaluatePriceBelowMinConstraint(g))
  BY DEF evaluatePriceBelowMinConstraint
<1>3. Worse(evaluateMarginRiskAtCurrentPrice(f), evaluateMarginRiskAtCurrentPrice(g))
  BY DEF evaluateMarginRiskAtCurrentPrice, severityUrgencyForExpectedMargin
<1>4. Worse(evaluatePriceAboveMaxConstraint(f), evaluatePriceAboveMaxConstraint(g))
  BY DEF evaluatePriceAboveMaxConstraint
<1>5. Worse(evaluateMissingPricingConstraintsForKeySKU(f), evaluateMissingPricingConstraintsForKeySKU(g))
  BY DEF evaluateMissingPricingConstraintsForKeySKU
<1> QED
  BY <1>2, <1>3, <1>4, <1>5

-----------------------------------------------------------------------------
(* The signals of the screens. *)

LEMMA TrendWorsens ==
  ASSUME NEW f \in Facts, NEW g \in Facts,
         g.revenue <= f.revenue, g.orders <= f.orders, g.before = f.before, g.ordersBefore = f.ordersBefore,
         g.sold = f.sold, g.soldBefore = f.soldBefore
  PROVE  /\ resolveSalesTrendSignal(f) \in 0 .. 2 /\ resolveSalesTrendSignal(g) \in 0 .. 2
         /\ resolveSalesTrendSignal(f) <= resolveSalesTrendSignal(g)
<1>1. /\ f.revenue \in Int /\ g.revenue \in Int /\ f.before \in Int
      /\ f.orders \in Nat /\ g.orders \in Nat /\ f.ordersBefore \in Nat
  BY DEF Facts
<1>2. CASE f.sold /\ f.soldBefore
  BY <1>1, <1>2 DEF resolveSalesTrendSignal
<1>3. CASE ~ f.sold \/ ~ f.soldBefore
  BY <1>1, <1>3 DEF resolveSalesTrendSignal, latestRevenue
<1> QED
  BY <1>2, <1>3

LEMMA CampaignWorsens ==
  ASSUME NEW f \in Facts, NEW g \in Facts, g.spend >= f.spend, g.adOrders <= f.adOrders,
         g.adRevenue <= f.adRevenue, PastAdsStay(f, g)
  PROVE  /\ campaignEfficiencySignal(f) \in 0 .. 2 /\ campaignEfficiencySignal(g) \in 0 .. 2
         /\ campaignEfficiencySignal(f) <= campaignEfficiencySignal(g)
<1>1. /\ f.spend \in Int /\ g.spend \in Int /\ f.spendBefore \in Int
      /\ f.adRevenue \in Int /\ g.adRevenue \in Int /\ f.adRevenueBefore \in Int
      /\ f.adOrders \in Nat /\ g.adOrders \in Nat /\ f.adOrdersBefore \in Nat /\ f.clicks \in Nat
  BY DEF Facts
<1> USE DEF PastAdsStay
<1>2. hasSpendGrowthWithoutResult(f) => hasSpendGrowthWithoutResult(g)
  BY <1>1 DEF hasSpendGrowthWithoutResult
<1>3. /\ spendTotal(f) \in Int /\ spendTotal(g) \in Int /\ spendTotal(f) <= spendTotal(g)
      /\ ctrIsLow(f) => ctrIsLow(g)
      /\ cpcIsHigh(f) => cpcIsHigh(g)
  BY <1>1 DEF spendTotal, ctrIsLow, cpcIsHigh
<1> QED
  BY <1>1, <1>2, <1>3 DEF campaignEfficiencySignal

LEMMA GreaterOf ==
  ASSUME NEW a \in 0 .. 2, NEW b \in 0 .. 2
  PROVE  Max({a, b}) = IF a <= b THEN b ELSE a
<1> DEFINE m == IF a <= b THEN b ELSE a
<1>1. m \in {a, b} /\ \A y \in {a, b} : m >= y
  OBVIOUS
<1>2. \A x \in {a, b} : (\A y \in {a, b} : x >= y) => x = m
  OBVIOUS
<1> HIDE DEF m
<1>3. Max({a, b}) = m
  BY <1>1, <1>2 DEF Max
<1> QED
  BY <1>3 DEF m

LEMMA WasteSignalWorsens ==
  ASSUME NEW f \in Facts, NEW g \in Facts,
         g.revenue <= f.revenue, g.orders <= f.orders, g.before = f.before, g.ordersBefore = f.ordersBefore,
         g.sold = f.sold, g.soldBefore = f.soldBefore,
         g.spend >= f.spend, g.adOrders <= f.adOrders, g.adRevenue <= f.adRevenue, PastAdsStay(f, g)
  PROVE  resolveAdWasteSignal(f) <= resolveAdWasteSignal(g)
<1>1. spendTotal(f) \in Int /\ spendTotal(g) \in Int /\ spendTotal(f) <= spendTotal(g)
  BY DEF Facts, spendTotal, PastAdsStay
<1>2. /\ resolveSalesTrendSignal(f) \in 0 .. 2 /\ resolveSalesTrendSignal(g) \in 0 .. 2
      /\ resolveSalesTrendSignal(f) <= resolveSalesTrendSignal(g)
  BY TrendWorsens
<1>3. /\ campaignEfficiencySignal(f) \in 0 .. 2 /\ campaignEfficiencySignal(g) \in 0 .. 2
      /\ campaignEfficiencySignal(f) <= campaignEfficiencySignal(g)
  BY CampaignWorsens
<1> QED
  BY <1>1, <1>2, <1>3, GreaterOf DEF resolveAdWasteSignal

-----------------------------------------------------------------------------
(* The days. *)

FactsAreTyped == facts \in Facts

LEMMA DaysKeepTypes ==
  ASSUME FactsAreTyped, [RulesNext]_facts
  PROVE  FactsAreTyped'
<1>1. CASE StockSells
  BY <1>1 DEF StockSells, Day, FactsAreTyped, Facts
<1>2. CASE DemandGrows
  BY <1>2 DEF DemandGrows, Day, FactsAreTyped, Facts
<1>3. CASE RevenueFalls
  BY <1>3, RuleConstants DEF RevenueFalls, Day, FactsAreTyped, Facts
<1>4. CASE OrdersFall
  BY <1>4 DEF OrdersFall, Day, FactsAreTyped, Facts
<1>5. CASE SpendGrows
  BY <1>5, RuleConstants DEF SpendGrows, Day, FactsAreTyped, Facts
<1>6. CASE AdOrdersFall
  BY <1>6 DEF AdOrdersFall, Day, FactsAreTyped, Facts
<1>7. CASE PriceFalls
  BY <1>7 DEF PriceFalls, Day, FactsAreTyped, Facts
<1>8. CASE SalesStop
  <2>1. facts' = [facts EXCEPT !.sold = FALSE, !.revenue = 0, !.orders = 0]
    BY <1>8 DEF SalesStop
  <2>2. \A f \in Facts : [f EXCEPT !.revenue = 0] \in Facts
    BY DEF Facts
  <2>3. \A f \in Facts : [f EXCEPT !.orders = 0] \in Facts
    BY DEF Facts
  <2>4. \A f \in Facts : [f EXCEPT !.sold = FALSE] \in Facts
    BY DEF Facts
  <2> QED BY <2>1, <2>2, <2>3, <2>4, Zenon DEF FactsAreTyped
<1>9. CASE AdRevenueFalls
  BY <1>9, RuleConstants DEF AdRevenueFalls, Day, FactsAreTyped, Facts
<1>10. CASE UNCHANGED facts
  BY <1>10 DEF FactsAreTyped
<1> QED
  BY <1>1, <1>2, <1>3, <1>4, <1>5, <1>6, <1>7, <1>8, <1>9, <1>10 DEF RulesNext

(* What a day does, by its topic. *)
LEMMA DaysGetWorse ==
  ASSUME FactsAreTyped, RulesNext
  PROVE  /\ facts'.about = facts.about
         /\ \/ facts.about = "stock" /\ Depletes(facts, facts')
            \/ facts.about = "sales" /\ Declines(facts, facts')
            \/ facts.about = "ads" /\ Wastes(facts, facts')
            \/ facts.about = "price" /\ Cheapens(facts, facts')
<1> USE DEF Day, FactsAreTyped, Facts, StockStays, SalesStay, AdsStay, PastAdsStay
<1>0. Notch \in Nat
  BY RuleConstants
<1>1. CASE StockSells
  BY <1>1 DEF StockSells, Depletes
<1>2. CASE DemandGrows
  BY <1>2 DEF DemandGrows, Depletes
<1>3. CASE RevenueFalls
  BY <1>0, <1>3 DEF RevenueFalls, Declines
<1>4. CASE OrdersFall
  BY <1>4 DEF OrdersFall, Declines
<1>5. CASE SpendGrows
  BY <1>0, <1>5 DEF SpendGrows, Wastes
<1>6. CASE AdOrdersFall
  BY <1>6 DEF AdOrdersFall, Wastes
<1>7. CASE PriceFalls
  BY <1>7 DEF PriceFalls, Cheapens
<1>8. CASE SalesStop
  BY <1>8 DEF SalesStop, Declines
<1>9. CASE AdRevenueFalls
  BY <1>0, <1>9 DEF AdRevenueFalls, Wastes
<1> QED
  BY <1>1, <1>2, <1>3, <1>4, <1>5, <1>6, <1>7, <1>8, <1>9 DEF RulesNext

-----------------------------------------------------------------------------
(* All rules together. *)

LEMMA Ranks ==
  ASSUME NEW V, NEW W, V # {}, W # {},
         \A v \in V : \E w \in W : Worse(v, w),
         \A w \in W : w[1] \in Grades /\ w[2] \in Grades
  PROVE  \A i \in 1 .. 2 : Rank(W, i) >= Rank(V, i)
<1>1. AreVerdicts(V) /\ AreVerdicts(W)
  BY DEF AreVerdicts, Worse
<1>2. \A i \in 1 .. 2 : \A v \in V : \E w \in W : v[i] <= w[i]
  BY DEF Worse
<1>3. \A i \in 1 .. 2 : /\ Rank(V, i) <= Rank(W, i) /\ Rank(V, i) \in Grades /\ Rank(W, i) \in Grades
  BY <1>1, <1>2, WorseRanksHigher
<1> QED
  BY <1>3 DEF Grades

LEMMA StockDayWorsens ==
  ASSUME NEW f \in Facts, NEW g \in Facts, Depletes(f, g)
  PROVE  \A i \in 1 .. 2 : /\ Rank(EvaluateStockRules(g) \cup EvaluateAdvertisingRules(g), i)
                                >= Rank(EvaluateStockRules(f) \cup EvaluateAdvertisingRules(f), i)
<1> DEFINE V == EvaluateStockRules(f) \cup EvaluateAdvertisingRules(f)
           W == EvaluateStockRules(g) \cup EvaluateAdvertisingRules(g)
<1>1. /\ f.spend \in Int /\ g.spend \in Int /\ g.spend >= f.spend /\ g.adOrders <= f.adOrders
      /\ g.adRevenue = f.adRevenue /\ f.adOrders \in Nat /\ f.adRevenue \in Int
  BY DEF Depletes, AdsStay, Facts
<1>2. CoversSink(f, g) /\ SalesStay(f, g)
  BY DepletionLowersCover DEF Depletes
<1>3. /\ Worse(evaluateStockOOSRisk(f), evaluateStockOOSRisk(g))
      /\ Worse(evaluateStockCriticalSKULowStock(f), evaluateStockCriticalSKULowStock(g))
      /\ \/ Worse(evaluateStockLowCoverage(f), evaluateStockLowCoverage(g))
         \/ Worse(evaluateStockLowCoverage(f), evaluateStockOOSRisk(g))
  BY <1>2, OOSRiskWorsens, CriticalSKULowStockWorsens, LowCoverageWorsens
<1>4. /\ Worse(evaluateAdBudgetOnLowStockSKU(f), evaluateAdBudgetOnLowStockSKU(g))
      /\ Worse(evaluateAdSpendWithoutResult(f), evaluateAdSpendWithoutResult(g))
      /\ \/ Worse(evaluateAdWeakCampaignEfficiency(f), evaluateAdWeakCampaignEfficiency(g))
         \/ Worse(evaluateAdWeakCampaignEfficiency(f), evaluateAdSpendWithoutResult(g))
      /\ evaluateAdWeakCampaignEfficiency(g)[1] \in Grades /\ evaluateAdWeakCampaignEfficiency(g)[2] \in Grades
  <2>1. g.adRevenue <= f.adRevenue /\ ~(f.adRevenue > 0 /\ g.adRevenue <= 0)
    BY <1>1
  <2> QED BY <1>1, <1>2, <2>1, AdBudgetWorsens, AdWasteWorsens
<1>5. evaluateStockLowCoverage(g) \in {Medium, Calm}
  BY DEF evaluateStockLowCoverage
<1>6. \A v \in V : \E w \in W : Worse(v, w)
  BY <1>3, <1>4 DEF EvaluateStockRules, EvaluateAdvertisingRules
<1>7. \A w \in W : w[1] \in Grades /\ w[2] \in Grades
  BY <1>3, <1>4, <1>5 DEF EvaluateStockRules, EvaluateAdvertisingRules, Worse, Medium, Calm, Grades
<1>8. V # {} /\ W # {}
  BY DEF EvaluateStockRules
<1> HIDE DEF V, W
<1>9. \A i \in 1 .. 2 : Rank(W, i) >= Rank(V, i)
  BY <1>6, <1>7, <1>8, Ranks
<1> QED
  BY <1>9 DEF V, W

LEMMA AtLeastItsVerdict ==
  ASSUME NEW W, NEW w \in W, NEW i \in 1 .. 2, \A v \in W : v[1] \in Grades /\ v[2] \in Grades
  PROVE  Rank(W, i) \in Grades /\ w[i] <= Rank(W, i)
<1> DEFINE T == {v[i] : v \in W}
<1>1. T \in SUBSET Grades /\ w[i] \in T
  OBVIOUS
<1> HIDE DEF T
<1>2. Max(T) \in T /\ \A x \in T : x <= Max(T)
  BY <1>1, GradesHaveAMax
<1> QED
  BY <1>1, <1>2 DEF Rank, T

LEMMA AdsDayWorsens ==
  ASSUME NEW f \in Facts, NEW g \in Facts, Wastes(f, g)
  PROVE  \A i \in 1 .. 2 : \/ Rank(EvaluateAdvertisingRules(g), i) >= Rank(EvaluateAdvertisingRules(f), i)
                          \/ /\ f.adRevenue > 0 /\ g.adRevenue <= 0 /\ f.spend < 10000
                             /\ f.spend >= 1000 => Rank(EvaluateAdvertisingRules(g), i) >= 2
<1> DEFINE stops == f.adRevenue > 0 /\ g.adRevenue <= 0 /\ f.spend < 10000
<1>1. /\ f.spend \in Int /\ g.spend \in Int /\ g.spend >= f.spend /\ g.adOrders <= f.adOrders
      /\ g.adRevenue <= f.adRevenue
  BY DEF Wastes, Facts
<1>2. CoversSink(f, g)
  <2>1. f.stock \in Int /\ f.demand \in Nat /\ g.stock <= f.stock /\ g.demand >= f.demand
    BY DEF Wastes, StockStays, Facts
  <2> QED
    BY <2>1, DepletionLowersCover
<1>3. /\ Worse(evaluateAdBudgetOnLowStockSKU(f), evaluateAdBudgetOnLowStockSKU(g))
      /\ Worse(evaluateAdSpendWithoutResult(f), evaluateAdSpendWithoutResult(g))
      /\ evaluateAdWeakCampaignEfficiency(g)[1] \in Grades /\ evaluateAdWeakCampaignEfficiency(g)[2] \in Grades
  BY <1>1, <1>2, AdBudgetWorsens, AdWasteWorsens
<1>4. \A w \in EvaluateAdvertisingRules(g) : w[1] \in Grades /\ w[2] \in Grades
  BY <1>3 DEF EvaluateAdvertisingRules, Worse
<1>5. CASE ~ stops
  <2>1. \/ Worse(evaluateAdWeakCampaignEfficiency(f), evaluateAdWeakCampaignEfficiency(g))
        \/ Worse(evaluateAdWeakCampaignEfficiency(f), evaluateAdSpendWithoutResult(g))
    BY <1>1, <1>5, AdWasteWorsens
  <2>2. \A v \in EvaluateAdvertisingRules(f) : \E w \in EvaluateAdvertisingRules(g) : Worse(v, w)
    BY <1>3, <2>1 DEF EvaluateAdvertisingRules
  <2>3. EvaluateAdvertisingRules(f) # {} /\ EvaluateAdvertisingRules(g) # {}
    BY DEF EvaluateAdvertisingRules
  <2> QED
    BY <1>4, <2>2, <2>3, Ranks
<1>6. CASE stops
  <2> DEFINE w == evaluateAdSpendWithoutResult(g)
             W == EvaluateAdvertisingRules(g)
  <2>1. f.spend >= 1000 => w[1] \in 2 .. 4 /\ w[2] \in 2 .. 4
    BY <1>1, <1>6, AdWasteWorsens
  <2>2. w \in W
    BY DEF EvaluateAdvertisingRules
  <2> HIDE DEF w, W
  <2>3. \A i \in 1 .. 2 : Rank(W, i) \in Grades /\ w[i] <= Rank(W, i)
    BY <1>4, <2>2, AtLeastItsVerdict DEF W
  <2>4. \A i \in 1 .. 2 : f.spend >= 1000 => Rank(W, i) >= 2
    <3> SUFFICES ASSUME NEW i \in 1 .. 2, f.spend >= 1000 PROVE Rank(W, i) >= 2
      OBVIOUS
    <3>1. w[i] \in 2 .. 4 /\ Rank(W, i) \in Grades /\ w[i] <= Rank(W, i)
      BY <2>1, <2>3
    <3> QED BY <3>1 DEF Grades
  <2> QED BY <1>6, <2>4 DEF W
<1> QED
  BY <1>5, <1>6

LEMMA SalesDayWorsens ==
  ASSUME NEW f \in Facts, NEW g \in Facts, Declines(f, g)
  PROVE  \A i \in 1 .. 2 :
           /\ Rank(AccountDrops(g), i) >= Rank(AccountDrops(f), i)
           /\ g.sold = f.sold => Rank(EvaluateSalesRules(g), i) >= Rank(EvaluateSalesRules(f), i)
<1> DEFINE account(h) == evaluateSalesRevenueDrop(h.revenue + AccountRest + h.others, h.before + AccountRest)
           orders(h) == evaluateSalesOrdersDrop(h.orders + 3, h.ordersBefore + 3)
           own(h) == IF h.sold /\ h.soldBefore
                     THEN {evaluateSKURevenueDrop(h), evaluateSKUNegativeContribution(h)} ELSE {}
<1>1. /\ f.revenue \in Int /\ g.revenue \in Int /\ f.before \in Int /\ f.others \in Int
      /\ f.orders \in Int /\ g.orders \in Int /\ f.ordersBefore \in Int
      /\ g.revenue <= f.revenue /\ g.orders <= f.orders
      /\ g.before = f.before /\ g.ordersBefore = f.ordersBefore /\ g.others = f.others
      /\ g.soldBefore = f.soldBefore
  BY DEF Declines, Facts
<1>2. Worse(account(f), account(g)) /\ Worse(orders(f), orders(g))
  BY <1>1, DropWorsens DEF AccountRest, evaluateSalesOrdersDrop
<1>3. /\ Worse(evaluateSKURevenueDrop(f), evaluateSKURevenueDrop(g))
      /\ Worse(evaluateSKUNegativeContribution(f), evaluateSKUNegativeContribution(g))
  BY <1>1, SKUDropWorsens, ContributionWorsens
<1>4. /\ AccountDrops(f) = {account(f), orders(f)} /\ AccountDrops(g) = {account(g), orders(g)}
      /\ EvaluateSalesRules(f) = AccountDrops(f) \cup own(f) /\ EvaluateSalesRules(g) = AccountDrops(g) \cup own(g)
  BY DEF AccountDrops, EvaluateSalesRules
<1>5. /\ \A w \in own(g) : w[1] \in Grades /\ w[2] \in Grades
      /\ g.sold = f.sold => \A v \in own(f) : \E w \in own(g) : Worse(v, w)
  BY <1>1, <1>3 DEF Worse
<1> HIDE DEF account, orders, own
<1>6. /\ \A v \in AccountDrops(f) : \E w \in AccountDrops(g) : Worse(v, w)
      /\ \A w \in AccountDrops(g) : w[1] \in Grades /\ w[2] \in Grades
      /\ AccountDrops(f) # {} /\ AccountDrops(g) # {}
  BY <1>2, <1>4 DEF Worse
<1>7. \A i \in 1 .. 2 : Rank(AccountDrops(g), i) >= Rank(AccountDrops(f), i)
  BY <1>6, Ranks
<1>8. ASSUME g.sold = f.sold
      PROVE  \A i \in 1 .. 2 : Rank(EvaluateSalesRules(g), i) >= Rank(EvaluateSalesRules(f), i)
  <2>1. \A v \in EvaluateSalesRules(f) : \E w \in EvaluateSalesRules(g) : Worse(v, w)
    BY <1>4, <1>5, <1>6, <1>8
  <2>2. \A w \in EvaluateSalesRules(g) : w[1] \in Grades /\ w[2] \in Grades
    BY <1>4, <1>5, <1>6
  <2>3. EvaluateSalesRules(f) # {} /\ EvaluateSalesRules(g) # {}
    BY <1>4, <1>6
  <2> QED
    BY <2>1, <2>2, <2>3, Ranks
<1> QED
  BY <1>7, <1>8

LEMMA PriceDayWorsens ==
  ASSUME NEW f \in Facts, NEW g \in Facts, Cheapens(f, g)
  PROVE  \A i \in 1 .. 2 : Rank(EvaluatePriceEconomicsRules(g), i) >= Rank(EvaluatePriceEconomicsRules(f), i)
<1>1. \A v \in EvaluatePriceEconomicsRules(f) : \E w \in EvaluatePriceEconomicsRules(g) : Worse(v, w)
  BY PriceRulesWorsen DEF EvaluatePriceEconomicsRules
<1>2. \A w \in EvaluatePriceEconomicsRules(g) : w[1] \in Grades /\ w[2] \in Grades
  BY PriceRulesWorsen DEF EvaluatePriceEconomicsRules, Worse
<1>3. EvaluatePriceEconomicsRules(f) # {} /\ EvaluatePriceEconomicsRules(g) # {}
  BY DEF EvaluatePriceEconomicsRules
<1> QED
  BY <1>1, <1>2, <1>3, Ranks

(* Of the ranks by stock only two may go down, each in its own place. *)
LEMMA ScreensWorsen ==
  ASSUME NEW f \in Facts, NEW g \in Facts, Depletes(f, g)
  PROVE  \A screen \in DOMAIN StockRanks(f) :
           \/ StockRanks(g)[screen] >= StockRanks(f)[screen]
           \/ screen = "criticalSKU" /\ f.stock > 3 /\ g.stock \in 1 .. 3 /\ cover(f) \in 0 .. 100
           \/ screen = "priority" /\ (g.stock < 0 \/ (g.stock = 0 /\ f.importance < 5))
<1>1. CoversSink(f, g) /\ f.revenue \in Int /\ g.revenue = f.revenue
  BY DepletionLowersCover DEF Depletes, SalesStay, Facts
<1>2. /\ CoversWithin(f, g, 3) /\ CoversWithin(f, g, 7)
      /\ f.stock \in Int /\ g.stock \in Int /\ g.stock <= f.stock /\ cover(f) \in Int /\ cover(g) \in Int
  BY <1>1, CoversStayWithin DEF CoversSink
<1>3. /\ classifyDepletionRisk(g.stock, cover(g)) >= classifyDepletionRisk(f.stock, cover(f))
      /\ classifyStockRisk(g.stock, cover(g)) >= classifyStockRisk(f.stock, cover(f))
  <2>1. classifyStockRisk(g.stock, cover(g)) >= classifyStockRisk(f.stock, cover(f))
    BY <1>2 DEF CoversWithin, CoverWithin, classifyStockRisk
  <2> QED
    BY <1>2, <2>1, RisksAgree
<1>4. resolveStockSignal(g) >= resolveStockSignal(f)
  BY <1>1 DEF CoversSink, resolveStockSignal, CoverWithin
<1>5. criticalProblemScore(g.stock, cover(g), g.revenue) >= criticalProblemScore(f.stock, cover(f), f.revenue)
  BY <1>1 DEF CoversSink, criticalProblemScore
<1>6. \/ calcOutOfStockRisk(g.stock, cover(g)) >= calcOutOfStockRisk(f.stock, cover(f))
      \/ f.stock > 3 /\ g.stock \in 1 .. 3 /\ cover(f) \in 0 .. 100
  <2> DEFINE ofRisk(stock, days) == IF stock <= 0 THEN 10 ELSE IF stock <= 3 THEN 6
                                    ELSE IF days \in 0 .. 100 THEN 8 ELSE IF days \in 101 .. 300 THEN 4 ELSE 0
  <2>1. \A stock \in Int : \A days \in Int : calcOutOfStockRisk(stock, days) = ofRisk(stock, days)
    <3> SUFFICES ASSUME NEW stock \in Int, NEW days \in Int
                 PROVE  calcOutOfStockRisk(stock, days) = ofRisk(stock, days)
      OBVIOUS
    <3>1. CASE stock <= 0
      BY <3>1 DEF calcOutOfStockRisk
    <3>2. CASE stock \in 1 .. 3
      BY <3>2 DEF calcOutOfStockRisk
    <3>3. CASE stock > 3
      BY <3>3 DEF calcOutOfStockRisk
    <3> QED BY <3>1, <3>2, <3>3
  <2>2. \/ ofRisk(g.stock, cover(g)) >= ofRisk(f.stock, cover(f))
        \/ f.stock > 3 /\ g.stock \in 1 .. 3 /\ cover(f) \in 0 .. 100
    BY <1>1, <1>2 DEF CoversSink
  <2> HIDE DEF ofRisk
  <2> QED BY <1>2, <2>1, <2>2
<1>7. \/ classifyReplenishmentPriority(g.stock, cover(g), g.importance)
           >= classifyReplenishmentPriority(f.stock, cover(f), f.importance)
      \/ g.stock < 0 \/ (g.stock = 0 /\ f.importance < 5)
  <2>1. f.importance \in Nat /\ g.importance = f.importance
    BY DEF Depletes, Facts
  <2> QED BY <1>1, <1>2, <2>1 DEF CoversSink, CoversWithin, CoverWithin, classifyReplenishmentPriority
<1>8. DOMAIN StockRanks(f) = {"depletionRisk", "stockRisk", "adStock", "chatProblem", "criticalSKU", "priority"}
  BY DEF StockRanks
<1> QED
  BY <1>3, <1>4, <1>5, <1>6, <1>7, <1>8 DEF StockRanks

(* What is out of stock, or nearly so, is so for everyone. *)
LEMMA StockAlike ==
  ASSUME FactsAreTyped
  PROVE  StockIsToldAlike
<1>1. /\ facts \in Facts /\ facts.stock \in Int /\ cover(facts) \in Int
      /\ cover(facts) >= 0 => facts.stock > 0
  BY CoverIsACount DEF FactsAreTyped, Facts
<1>2. evaluateStockOOSRisk(facts) # Calm <=> facts.stock <= 0 \/ CoverWithin(facts, 3)
  BY <1>1 DEF evaluateStockOOSRisk, severityForOOSRisk, urgencyForOOSRisk, Calm
<1>3. classifyDepletionRisk(facts.stock, cover(facts)) = classifyStockRisk(facts.stock, cover(facts))
  BY <1>1, RisksAgree
<1>4. classifyDepletionRisk(facts.stock, cover(facts)) >= 3 <=> facts.stock <= 0 \/ CoverWithin(facts, 3)
  BY <1>1, <1>3 DEF classifyStockRisk, CoverWithin
<1>5. Rank(EvaluateStockRules(facts), 2) = 4 <=> facts.stock <= 0
  <2> DEFINE S == {v[2] : v \in EvaluateStockRules(facts)}
  <2>1. /\ evaluateStockOOSRisk(facts)[2] \in Grades /\ (evaluateStockOOSRisk(facts)[2] = 4 <=> facts.stock <= 0)
        /\ evaluateStockLowCoverage(facts)[2] \in 0 .. 3
        /\ evaluateStockCriticalSKULowStock(facts)[2] \in Grades
        /\ evaluateStockCriticalSKULowStock(facts)[2] = 4 => facts.stock <= 0
    BY <1>1 DEF evaluateStockOOSRisk, urgencyForOOSRisk, evaluateStockLowCoverage,
                evaluateStockCriticalSKULowStock, Calm, Medium, Grades
  <2>2. S \in SUBSET Grades /\ S # {} /\ (4 \in S <=> facts.stock <= 0)
    BY <1>1, <2>1 DEF EvaluateStockRules, Grades
  <2> HIDE DEF S
  <2>3. Max(S) \in S /\ \A x \in S : x <= Max(S)
    BY <2>2, GradesHaveAMax
  <2>4. Max(S) = 4 <=> 4 \in S
    <3>1. Max(S) \in Grades
      BY <2>2, <2>3
    <3>2. CASE 4 \in S
      <4>1. 4 <= Max(S)
        BY <2>3, <3>2
      <4> QED
        BY <3>1, <3>2, <4>1 DEF Grades
    <3>3. CASE 4 \notin S
      BY <2>3, <3>3
    <3> QED
      BY <3>2, <3>3
  <2> QED
    BY <2>2, <2>4 DEF Rank, S
<1>6. resolveStockSignal(facts) = 2 <=> facts.stock <= 0
  BY <1>1 DEF resolveStockSignal
<1> QED
  BY <1>2, <1>3, <1>4, <1>5, <1>6 DEF StockIsToldAlike

LEMMA AlertsWorsen ==
  ASSUME FactsAreTyped, RulesNext
  PROVE  AlertsGetNoCalmer
<1>1. facts \in Facts /\ facts' \in Facts /\ facts'.about = facts.about
  BY DaysKeepTypes, DaysGetWorse DEF FactsAreTyped
<1>2. CASE facts.about = "stock" /\ Depletes(facts, facts')
  <2>1. \A i \in 1 .. 2 : Rank(Verdicts(facts'), i) >= Rank(Verdicts(facts), i)
    BY <1>1, <1>2, StockDayWorsens DEF Verdicts
  <2> QED BY <1>2, <2>1 DEF AlertsGetNoCalmer, Day
<1>3. CASE facts.about = "sales" /\ Declines(facts, facts')
  <2>1. Verdicts(facts) = EvaluateSalesRules(facts) /\ Verdicts(facts') = EvaluateSalesRules(facts')
    BY <1>1, <1>3 DEF Verdicts
  <2>2. \A i \in 1 .. 2 :
           /\ Rank(AccountDrops(facts'), i) >= Rank(AccountDrops(facts), i)
           /\ facts'.sold = facts.sold => Rank(EvaluateSalesRules(facts'), i) >= Rank(EvaluateSalesRules(facts), i)
    BY <1>1, <1>3, SalesDayWorsens
  <2>3. facts'.sold = facts.sold \/ StopsSelling
    BY <1>1, <1>3 DEF Declines, StopsSelling, Facts
  <2> QED BY <1>3, <2>1, <2>2, <2>3 DEF AlertsGetNoCalmer
<1>4. CASE facts.about = "ads" /\ Wastes(facts, facts')
  <2>1. Verdicts(facts) = EvaluateAdvertisingRules(facts) /\ Verdicts(facts') = EvaluateAdvertisingRules(facts')
    BY <1>1, <1>4 DEF Verdicts
  <2>2. \A i \in 1 .. 2 :
           \/ Rank(EvaluateAdvertisingRules(facts'), i) >= Rank(EvaluateAdvertisingRules(facts), i)
           \/ /\ facts.adRevenue > 0 /\ facts'.adRevenue <= 0 /\ facts.spend < 10000
              /\ facts.spend >= 1000 => Rank(EvaluateAdvertisingRules(facts'), i) >= 2
    BY <1>1, <1>4, AdsDayWorsens
  <2> QED BY <1>4, <2>1, <2>2 DEF AlertsGetNoCalmer, LosesItsRevenue, Day
<1>5. CASE facts.about = "price" /\ Cheapens(facts, facts')
  <2>1. \A i \in 1 .. 2 : Rank(Verdicts(facts'), i) >= Rank(Verdicts(facts), i)
    BY <1>1, <1>5, PriceDayWorsens DEF Verdicts
  <2> QED BY <1>5, <2>1 DEF AlertsGetNoCalmer, Day
<1> QED
  BY <1>2, <1>3, <1>4, <1>5, DaysGetWorse

LEMMA ScreensDoNotCalm ==
  ASSUME FactsAreTyped, RulesNext, Day("stock")
  PROVE  StockScreensGetNoCalmer
<1>1. facts \in Facts /\ facts' \in Facts /\ Depletes(facts, facts')
  BY DaysKeepTypes, DaysGetWorse DEF FactsAreTyped, Day
<1>2. \A screen \in DOMAIN StockRanks(facts) :
        \/ StockRanks(facts')[screen] >= StockRanks(facts)[screen]
        \/ screen = "criticalSKU" /\ facts.stock > 3 /\ facts'.stock \in 1 .. 3 /\ cover(facts) \in 0 .. 100
        \/ screen = "priority" /\ (facts'.stock < 0 \/ (facts'.stock = 0 /\ facts.importance < 5))
  BY <1>1, ScreensWorsen
<1> QED
  BY <1>2 DEF StockScreensGetNoCalmer, CalmAtThreeUnits, CalmWhenEmpty

LEMMA SignalsWorsen ==
  ASSUME FactsAreTyped, RulesNext
  PROVE  SignalsGetNoCalmer
<1>1. facts \in Facts /\ facts' \in Facts
  BY DaysKeepTypes DEF FactsAreTyped
<1>2. /\ facts'.revenue <= facts.revenue /\ facts'.orders <= facts.orders /\ (facts'.sold => facts.sold)
      /\ facts'.before = facts.before /\ facts'.ordersBefore = facts.ordersBefore
      /\ facts'.soldBefore = facts.soldBefore
      /\ facts'.spend >= facts.spend /\ facts'.adOrders <= facts.adOrders
      /\ facts'.adRevenue <= facts.adRevenue /\ PastAdsStay(facts, facts')
  BY <1>1, DaysGetWorse DEF Depletes, Declines, Wastes, Cheapens, SalesStay, AdsStay, Facts
<1>3. facts'.sold = facts.sold \/ StopsSelling
  BY <1>1, <1>2 DEF StopsSelling, Facts
<1>4. facts'.sold = facts.sold => resolveSalesTrendSignal(facts') >= resolveSalesTrendSignal(facts)
  BY <1>1, <1>2, TrendWorsens
<1>5. facts'.sold = facts.sold => resolveAdWasteSignal(facts') >= resolveAdWasteSignal(facts)
  BY <1>1, <1>2, WasteSignalWorsens
<1> QED
  BY <1>3, <1>4, <1>5 DEF SignalsGetNoCalmer

(* When one fact about a product, its campaign or its price gets worse and the
   others stay, no alert of *_rules.go gets calmer, nor any of the six ranks
   by stock of the screens and the chat, nor the two signals of the
   advertising screen, except at the total stops and the two thresholds that
   the property names; and alerts and screens tell the same of the stock: for
   any facts, any amounts and any number of days. *)
THEOREM RulesNeverCalm == RulesSpec => WorseIsNeverCalmer
<1>1. RulesInit => FactsAreTyped
  BY RuleConstants DEF RulesInit, FactsAreTyped
<1>2. FactsAreTyped /\ [RulesNext]_facts => FactsAreTyped'
  BY DaysKeepTypes
<1>3. FactsAreTyped => StockIsToldAlike
  BY StockAlike
<1>4. FactsAreTyped /\ [RulesNext]_facts =>
        [AlertsGetNoCalmer /\ (Day("stock") => StockScreensGetNoCalmer) /\ SignalsGetNoCalmer]_facts
  BY AlertsWorsen, ScreensDoNotCalm, SignalsWorsen
<1> QED
  BY <1>1, <1>2, <1>3, <1>4, PTL DEF RulesSpec, WorseIsNeverCalmer
=============================================================================
