--------------------------- MODULE ServicesProofs ---------------------------
(***************************************************************************)
(* The services a seller calls directly.  Pricing, for any catalogue, any  *)
(* request bodies and any number of requests: which rule a product is      *)
(* constrained by, and when a scope may have two active rules.  Chat, for  *)
(* any plans and replies of the language model, and any number of          *)
(* questions and sessions: what a stored answer and a trace may claim.     *)
(***************************************************************************)
EXTENDS PricingRules, Chat, FiniteSetTheorems, SequenceTheorems, WellFoundedInduction, TLAPS

-----------------------------------------------------------------------------
(* The first rule by a total order exists. *)

LEMMA FiniteSetsHaveAFirst ==
  ASSUME NEW S, IsFiniteSet(S), S # {}, NEW R,
         \A x, y \in S : x # y => <<x, y>> \in R \/ <<y, x>> \in R,
         \A x, y, z \in S : <<x, y>> \in R /\ <<y, z>> \in R => <<x, z>> \in R
  PROVE  \E x \in S : \A y \in S \ {x} : <<x, y>> \in R
<1> DEFINE HasFirst(T) == \E x \in T : \A y \in T \ {x} : <<x, y>> \in R
           Bad == {T \in FiniteSubsetsOf(S) : T # {} /\ ~HasFirst(T)}
<1> SUFFICES ASSUME ~HasFirst(S) PROVE FALSE
  OBVIOUS
<1>1. S \in Bad
  BY DEF FiniteSubsetsOf
<1>2. PICK X \in Bad : \A Y \in Bad : <<Y, X>> \notin StrictSubsetOrdering(S)
  <2>1. Bad \subseteq FiniteSubsetsOf(S) /\ Bad # {}
    BY <1>1
  <2> HIDE DEF Bad
  <2> QED BY <2>1, FS_StrictSubsetOrderingWellFounded, WFMin
<1>3. X \subseteq S /\ IsFiniteSet(X) /\ X # {} /\ ~HasFirst(X)
  BY <1>2 DEF FiniteSubsetsOf
<1>4. PICK x \in X : TRUE
  BY <1>3
<1> DEFINE Y == X \ {x}
<1>5. Y # {}
  BY <1>3, <1>4
<1>6. HasFirst(Y)
  <2>1. IsFiniteSet(Y) /\ Y \subseteq S
    BY <1>3, FS_Subset
  <2>2. <<Y, X>> \in StrictSubsetOrdering(S)
    BY <1>3, <1>4 DEF StrictSubsetOrdering
  <2>3. Y \notin Bad
    BY <1>2, <2>2
  <2> QED BY <1>5, <2>1, <2>3 DEF FiniteSubsetsOf
<1>7. PICK m \in Y : \A y \in Y \ {m} : <<m, y>> \in R
  BY <1>6
<1>8. m \in X /\ x # m /\ \A y \in X : y \in Y \/ y = x
  BY <1>7
<1>9. CASE <<m, x>> \in R
  <2>1. \A y \in X \ {m} : <<m, y>> \in R
    BY <1>7, <1>8, <1>9
  <2> QED BY <1>3, <1>8, <2>1
<1>10. CASE <<x, m>> \in R
  <2>1. ASSUME NEW y \in X \ {x} PROVE <<x, y>> \in R
    <3>1. CASE y = m
      BY <1>10, <3>1
    <3>2. CASE y # m
      <4>1. <<m, y>> \in R
        BY <1>7, <1>8, <3>2
      <4> QED BY <1>3, <1>4, <1>8, <1>10, <4>1
    <3> QED BY <3>1, <3>2
  <2> QED BY <1>3, <1>4, <2>1
<1> QED BY <1>3, <1>4, <1>8, <1>9, <1>10

\* A row with its id comes before another, as the statement orders them.
RowBefore(x, y) ==
    \/ x.row.active /\ ~y.row.active
    \/ /\ x.row.active = y.row.active
       /\ x.row.updated > y.row.updated \/ (x.row.updated = y.row.updated /\ x.id > y.id)

LEMMA RowBeforeOrders ==
  ASSUME NEW S, \A x \in S : x.id \in Nat /\ x.row.active \in BOOLEAN /\ x.row.updated \in Nat,
         IsFiniteSet(S), S # {}, \A x, y \in S : x.id = y.id => x = y
  PROVE  \E x \in S : \A y \in S \ {x} : RowBefore(x, y)
<1> DEFINE R == {p \in S \X S : RowBefore(p[1], p[2])}
<1>1. \A x, y \in S : <<x, y>> \in R <=> RowBefore(x, y)
  OBVIOUS
<1>2. \A x, y \in S : x # y => RowBefore(x, y) \/ RowBefore(y, x)
  BY DEF RowBefore
<1>3. ASSUME NEW x \in S, NEW y \in S, NEW z \in S, RowBefore(x, y), RowBefore(y, z)
      PROVE  RowBefore(x, z)
  BY <1>3 DEF RowBefore
<1> HIDE DEF R
<1>4. \A x, y \in S : x # y => <<x, y>> \in R \/ <<y, x>> \in R
  BY <1>1, <1>2
<1>5. \A x, y, z \in S : <<x, y>> \in R /\ <<y, z>> \in R => <<x, z>> \in R
  BY <1>1, <1>3
<1>6. \E x \in S : \A y \in S \ {x} : <<x, y>> \in R
  <2>1. IsFiniteSet(S) /\ S # {}
    OBVIOUS
  <2> QED BY ONLY <1>4, <1>5, <2>1, FiniteSetsHaveAFirst
<1> QED BY <1>1, <1>6

LEMMA RuleIdsAreFinite ==
  ASSUME NEW rs \in Seq(RuleRows), NEW ids, ids \subseteq DOMAIN rs
  PROVE  IsFiniteSet(ids) /\ \A i \in ids : i \in Nat \ {0} /\ rs[i] \in RuleRows
<1>1. DOMAIN rs = 1 .. Len(rs) /\ Len(rs) \in Nat /\ rs \in [1 .. Len(rs) -> RuleRows]
  BY LenProperties
<1>2. IsFiniteSet(DOMAIN rs)
  BY <1>1, FS_Interval
<1>3. IsFiniteSet(ids)
  BY <1>2, FS_Subset
<1>4. \A i \in ids : i \in Nat \ {0} /\ rs[i] \in RuleRows
  BY <1>1
<1> QED BY <1>3, <1>4

LEMMA FirstOfIs ==
  ASSUME NEW rs \in Seq(RuleRows), NEW ids, ids \subseteq DOMAIN rs, ids # {}
  PROVE  FirstOf(rs, ids) \in ids
<1> DEFINE S == {[id |-> i, row |-> rs[i]] : i \in ids}
<1>1. IsFiniteSet(ids) /\ \A i \in ids : i \in Nat \ {0} /\ rs[i] \in RuleRows
  BY RuleIdsAreFinite
<1>r. \A i \in ids : rs[i].active \in BOOLEAN /\ rs[i].updated \in Nat
  BY <1>1 DEF RuleRows
<1>s. S # {} /\ \A x, y \in S : x.id = y.id => x = y
  <2>1. S # {}
    OBVIOUS
  <2>2. ASSUME NEW x \in S, NEW y \in S, x.id = y.id PROVE x = y
    <3>1. PICK i \in ids : x = [id |-> i, row |-> rs[i]]
      OBVIOUS
    <3>2. PICK j \in ids : y = [id |-> j, row |-> rs[j]]
      OBVIOUS
    <3> QED BY <2>2, <3>1, <3>2
  <2> HIDE DEF S
  <2> QED BY <2>1, <2>2
<1>2. \A x \in S : x.id \in Nat /\ x.row.active \in BOOLEAN /\ x.row.updated \in Nat
  BY <1>1, <1>r
<1>3. IsFiniteSet(S)
  <2> DEFINE f == [i \in ids |-> [id |-> i, row |-> rs[i]]]
  <2>1. f \in Surjection(ids, S)
    BY DEF Surjection
  <2> HIDE DEF f, S
  <2> QED BY <1>1, <2>1, FS_Surjection
<1>4. PICK x \in S : \A y \in S \ {x} : RowBefore(x, y)
  <2> HIDE DEF S
  <2> QED BY <1>s, <1>2, <1>3, RowBeforeOrders
<1>5. PICK i \in ids : x = [id |-> i, row |-> rs[i]]
  BY <1>4
<1>6. \A j \in ids \ {i} : Before(rs, i, j)
  <2> SUFFICES ASSUME NEW j \in ids \ {i} PROVE Before(rs, i, j)
    OBVIOUS
  <2>1. RowBefore(x, [id |-> j, row |-> rs[j]])
    BY <1>4, <1>5
  <2> QED BY <1>5, <2>1 DEF RowBefore, Before
<1> QED BY <1>6 DEF FirstOf

\* Of the rows a request has read, the first one is active if any is.
LEMMA FirstFoundIs ==
  ASSUME NEW found \in SUBSET [id : Nat, row : RuleRows], IsFiniteSet(found), found # {},
         \A x, y \in found : x.id = y.id => x = y
  PROVE  /\ FirstFound(found) \in found
         /\ \A y \in found : y.row.active => FirstFound(found).row.active
<1>1. \A x \in found : x.id \in Nat /\ x.row.active \in BOOLEAN /\ x.row.updated \in Nat
  BY DEF RuleRows
<1>2. PICK x \in found : \A y \in found \ {x} : RowBefore(x, y)
  BY <1>1, RowBeforeOrders
<1> DEFINE Pair(a, b) == [i \in {a.id, b.id} |-> IF i = a.id THEN a.row ELSE b.row]
<1>3. ASSUME NEW a \in found, NEW b \in found \ {a}
      PROVE  Before(Pair(a, b), a.id, b.id) <=> RowBefore(a, b)
  <2>1. Pair(a, b)[a.id] = a.row /\ Pair(a, b)[b.id] = b.row
    OBVIOUS
  <2> HIDE DEF Pair
  <2> QED BY <2>1 DEF Before, RowBefore
<1> HIDE DEF Pair
<1>4. FirstFound(found) = CHOOSE a \in found : \A b \in found \ {a} : Before(Pair(a, b), a.id, b.id)
  BY DEF FirstFound, Pair
<1>5. \A b \in found \ {x} : Before(Pair(x, b), x.id, b.id)
  BY <1>2, <1>3
<1>6. /\ FirstFound(found) \in found
      /\ \A b \in found \ {FirstFound(found)} : Before(Pair(FirstFound(found), b), FirstFound(found).id, b.id)
  BY <1>4, <1>5
<1>7. \A b \in found \ {FirstFound(found)} : RowBefore(FirstFound(found), b)
  BY <1>3, <1>6
<1> QED BY <1>6, <1>7 DEF RowBefore

-----------------------------------------------------------------------------
(* The resolver. *)

LEMMA FirstActiveIs ==
  ASSUME rules \in Seq(RuleRows), NEW s
  PROVE  LET w == FirstActive(rules, s)
         IN /\ w # 0 => w \in DOMAIN rules /\ rules[w].active /\ rules[w].scope = s
            /\ \A i \in DOMAIN rules : rules[i].active /\ rules[i].scope = s => w # 0
<1> DEFINE active == {i \in ListByScope(rules, s) : rules[i].active}
<1>1. active \subseteq DOMAIN rules
  BY DEF ListByScope
<1>2. \A i \in active : i # 0 /\ rules[i].active /\ rules[i].scope = s
  BY <1>1, RuleIdsAreFinite DEF ListByScope
<1>3. \A i \in DOMAIN rules : rules[i].active /\ rules[i].scope = s => i \in active
  BY DEF ListByScope
<1>4. FirstActive(rules, s) = IF active = {} THEN 0 ELSE FirstOf(rules, active)
  BY DEF FirstActive
<1> HIDE DEF active
<1>5. active # {} => FirstOf(rules, active) \in active
  BY <1>1, FirstOfIs
<1> QED BY <1>1, <1>2, <1>3, <1>4, <1>5

\* A look-up finds an active rule of the scope, with the kind or without one.
LEMMA LookupFinds ==
  ASSUME rules \in Seq(RuleRows), NEW s
  PROVE  LET w == LookupWinning(rules, s)
         IN /\ w # 0 => /\ w \in DOMAIN rules /\ rules[w].active
                        /\ rules[w].scope = s \/ (s.kind # None /\ rules[w].scope = [s EXCEPT !.kind = None])
            /\ \A i \in DOMAIN rules : rules[i].active /\ rules[i].scope = s => w # 0
            /\ \A i \in DOMAIN rules :
                  rules[i].active /\ s.kind # None /\ rules[i].scope = [s EXCEPT !.kind = None] => w # 0
<1> DEFINE u == FirstActive(rules, s)
           v == FirstActive(rules, [s EXCEPT !.kind = None])
<1>1. /\ u # 0 => u \in DOMAIN rules /\ rules[u].active /\ rules[u].scope = s
      /\ \A i \in DOMAIN rules : rules[i].active /\ rules[i].scope = s => u # 0
  BY FirstActiveIs
<1>2. /\ v # 0 => v \in DOMAIN rules /\ rules[v].active /\ rules[v].scope = [s EXCEPT !.kind = None]
      /\ \A i \in DOMAIN rules : rules[i].active /\ rules[i].scope = [s EXCEPT !.kind = None] => v # 0
  BY FirstActiveIs
<1>3. LookupWinning(rules, s) = IF u # 0 \/ s.kind = None THEN u ELSE v
  BY DEF LookupWinning
<1> HIDE DEF u, v
<1> QED BY <1>1, <1>2, <1>3

\* The five scopes that are asked for, and what a rule found by them is.
TypeAsked(i) == IF i <= 3 THEN "sku_override" ELSE IF i = 4 THEN "category_rule" ELSE "global_default"

LEMMA AskedAre ==
  ASSUME NEW product
  PROVE  /\ AskedScopes(product)[1] = [key |-> product.sku, scope |-> Scope("sku_override", "sku", product.sku, None)]
         /\ AskedScopes(product)[2] = [key |-> product.id, scope |-> Scope("sku_override", "product_id", product.id, None)]
         /\ AskedScopes(product)[3] = [key |-> product.offer,
                                       scope |-> Scope("sku_override", "offer_id", None, product.offer)]
         /\ AskedScopes(product)[4] = [key |-> product.category,
                                       scope |-> Scope("category_rule", "category_id", product.category, None)]
         /\ AskedScopes(product)[5] = [key |-> product.id, scope |-> GlobalScope]
  BY DEF AskedScopes

LEMMA HitsApply ==
  ASSUME rules \in Seq(RuleRows), NEW product, NEW i \in 1 .. 5,
         AskedScopes(product)[i].key # None, LookupWinning(rules, AskedScopes(product)[i].scope) # 0
  PROVE  LET w == LookupWinning(rules, AskedScopes(product)[i].scope)
         IN w \in DOMAIN rules /\ Applies(w, product) /\ Covers(rules[w].scope, product)
              /\ rules[w].scope.type = TypeAsked(i)
<1> DEFINE s == AskedScopes(product)[i].scope
           w == LookupWinning(rules, s)
<1> SUFFICES w \in DOMAIN rules /\ Applies(w, product) /\ Covers(rules[w].scope, product)
               /\ rules[w].scope.type = TypeAsked(i)
  OBVIOUS
<1>1. /\ w \in DOMAIN rules /\ rules[w].active
      /\ rules[w].scope = s \/ (s.kind # None /\ rules[w].scope = [s EXCEPT !.kind = None])
  BY LookupFinds
<1>2. i \in {1, 2, 3, 4, 5}
  OBVIOUS
<1> HIDE DEF w
<1>3. CASE i = 1
  <2>0. AskedScopes(product)[i] = [key |-> product.sku, scope |-> Scope("sku_override", "sku", product.sku, None)]
    BY <1>3, AskedAre
  <2>1. s = [type |-> "sku_override", kind |-> "sku", id |-> product.sku, code |-> None] /\ product.sku # None
    BY <2>0 DEF Scope
  <2> HIDE DEF s
  <2>2. LET t == rules[w].scope
        IN t.type = "sku_override" /\ t.kind \in {"sku", None} /\ t.id = product.sku /\ t.code = None
    BY <1>1, <2>1
  <2> QED BY <1>1, <1>3, <2>1, <2>2, PricingConstants DEF Applies, Covers, TypeAsked
<1>4. CASE i = 2
  <2>0. AskedScopes(product)[i] = [key |-> product.id, scope |-> Scope("sku_override", "product_id", product.id, None)]
    BY <1>4, AskedAre
  <2>1. s = [type |-> "sku_override", kind |-> "product_id", id |-> product.id, code |-> None] /\ product.id # None
    BY <2>0 DEF Scope
  <2> HIDE DEF s
  <2>2. LET t == rules[w].scope
        IN t.type = "sku_override" /\ t.kind \in {"product_id", None} /\ t.id = product.id /\ t.code = None
    BY <1>1, <2>1
  <2> QED BY <1>1, <1>4, <2>1, <2>2, PricingConstants DEF Applies, Covers, TypeAsked
<1>5. CASE i = 3
  <2>0. AskedScopes(product)[i] = [key |-> product.offer, scope |-> Scope("sku_override", "offer_id", None, product.offer)]
    BY <1>5, AskedAre
  <2>1. s = [type |-> "sku_override", kind |-> "offer_id", id |-> None, code |-> product.offer] /\ product.offer # None
    BY <2>0 DEF Scope
  <2> HIDE DEF s
  <2>2. LET t == rules[w].scope
        IN t.type = "sku_override" /\ t.kind \in {"offer_id", None} /\ t.id = None /\ t.code = product.offer
    BY <1>1, <2>1
  <2> QED BY <1>1, <1>5, <2>1, <2>2, PricingConstants DEF Applies, Covers, TypeAsked
<1>6. CASE i = 4
  <2>0. AskedScopes(product)[i] = [key |-> product.category, scope |-> Scope("category_rule", "category_id", product.category, None)]
    BY <1>6, AskedAre
  <2>1. s = [type |-> "category_rule", kind |-> "category_id", id |-> product.category, code |-> None] /\ product.category # None
    BY <2>0 DEF Scope
  <2> HIDE DEF s
  <2>2. LET t == rules[w].scope
        IN t.type = "category_rule" /\ t.kind \in {"category_id", None} /\ t.id = product.category /\ t.code = None
    BY <1>1, <2>1
  <2> QED BY <1>1, <1>6, <2>1, <2>2, PricingConstants DEF Applies, Covers, TypeAsked
<1>7. CASE i = 5
  <2>0. AskedScopes(product)[i] = [key |-> product.id, scope |-> GlobalScope]
    BY <1>7, AskedAre
  <2>1. s = GlobalScope
    BY <2>0
  <2>2. rules[w].scope = GlobalScope
    BY <1>1, <2>1 DEF GlobalScope, Scope
  <2>3. GlobalScope.type = "global_default"
    BY DEF GlobalScope, Scope
  <2> QED BY <1>1, <1>7, <2>2, <2>3 DEF Applies, Covers, TypeAsked
<1> QED BY <1>2, <1>3, <1>4, <1>5, <1>6, <1>7

\* Whatever applies to a product is found by one of the five look-ups.
LEMMA ApplicableRulesAreHit ==
  ASSUME rules \in Seq(RuleRows), NEW product, product.id # None,
         NEW j \in DOMAIN rules, Applies(j, product), IsScope(rules[j].scope)
  PROVE  \E i \in 1 .. 5 : /\ AskedScopes(product)[i].key # None
                           /\ LookupWinning(rules, AskedScopes(product)[i].scope) # 0
                           /\ TypeAsked(i) = rules[j].scope.type
<1> DEFINE t == rules[j].scope
           Hit(i) == /\ AskedScopes(product)[i].key # None
                     /\ LookupWinning(rules, AskedScopes(product)[i].scope) # 0
                     /\ TypeAsked(i) = t.type
<1> SUFFICES \E k \in 1 .. 5 : Hit(k)
  OBVIOUS
<1>1. t = [type |-> t.type, kind |-> t.kind, id |-> t.id, code |-> t.code] /\ rules[j].active
  BY DEF IsScope, Scope, Applies
<1>2. \/ t = GlobalScope
      \/ t.type = "category_rule" /\ t.kind \in {"category_id", None} /\ t.id = product.category /\ t.code = None
      \/ t.type = "sku_override" /\ t.kind \in {"sku", None} /\ t.id # None /\ t.id = product.sku /\ t.code = None
      \/ t.type = "sku_override" /\ t.kind \in {"product_id", None} /\ t.id # None /\ t.id = product.id /\ t.code = None
      \/ t.type = "sku_override" /\ t.kind \in {"offer_id", None} /\ t.id = None /\ t.code # None /\ t.code = product.offer
  BY DEF Applies
<1>3. ASSUME NEW i \in 1 .. 5, NEW s, AskedScopes(product)[i].scope = s, AskedScopes(product)[i].key # None,
             TypeAsked(i) = t.type, t = s \/ (s.kind # None /\ t = [s EXCEPT !.kind = None])
      PROVE  \E k \in 1 .. 5 : Hit(k)
  BY <1>1, <1>3, LookupFinds
<1>t. t.type = "category_rule" => t.id # None
  BY DEF IsScope
<1> HIDE DEF t, Hit
<1>4. CASE t = GlobalScope
  <2>0. AskedScopes(product)[5] = [key |-> product.id, scope |-> GlobalScope]
    BY AskedAre
  <2>1. AskedScopes(product)[5].scope = GlobalScope /\ AskedScopes(product)[5].key # None
    BY <2>0
  <2>2. TypeAsked(5) = t.type
    BY <1>4 DEF TypeAsked, GlobalScope, Scope
  <2> QED BY <1>3, <1>4, <2>1, <2>2
<1>5. CASE t.type = "category_rule" /\ t.kind \in {"category_id", None} /\ t.id = product.category /\ t.code = None
  <2> DEFINE s == Scope("category_rule", "category_id", product.category, None)
  <2>0. AskedScopes(product)[4] = [key |-> product.category, scope |-> s]
    BY AskedAre
  <2> HIDE DEF s
  <2>1. AskedScopes(product)[4].scope = s /\ AskedScopes(product)[4].key # None
    BY <1>t, <1>5, <2>0
  <2>2. TypeAsked(4) = t.type
    BY <1>5 DEF TypeAsked
  <2>3. t = s \/ (s.kind # None /\ t = [s EXCEPT !.kind = None])
    BY <1>1, <1>5, PricingConstants DEF Scope, s
  <2> QED BY <1>3, <2>1, <2>2, <2>3
<1>6. CASE t.type = "sku_override" /\ t.kind \in {"sku", None} /\ t.id # None /\ t.id = product.sku /\ t.code = None
  <2> DEFINE s == Scope("sku_override", "sku", product.sku, None)
  <2>0. AskedScopes(product)[1] = [key |-> product.sku, scope |-> s]
    BY AskedAre
  <2> HIDE DEF s
  <2>1. AskedScopes(product)[1].scope = s /\ AskedScopes(product)[1].key # None
    BY <1>t, <1>6, <2>0
  <2>2. TypeAsked(1) = t.type
    BY <1>6 DEF TypeAsked
  <2>3. t = s \/ (s.kind # None /\ t = [s EXCEPT !.kind = None])
    BY <1>1, <1>6, PricingConstants DEF Scope, s
  <2> QED BY <1>3, <2>1, <2>2, <2>3
<1>7. CASE t.type = "sku_override" /\ t.kind \in {"product_id", None} /\ t.id # None /\ t.id = product.id /\ t.code = None
  <2> DEFINE s == Scope("sku_override", "product_id", product.id, None)
  <2>0. AskedScopes(product)[2] = [key |-> product.id, scope |-> s]
    BY AskedAre
  <2> HIDE DEF s
  <2>1. AskedScopes(product)[2].scope = s /\ AskedScopes(product)[2].key # None
    BY <1>t, <1>7, <2>0
  <2>2. TypeAsked(2) = t.type
    BY <1>7 DEF TypeAsked
  <2>3. t = s \/ (s.kind # None /\ t = [s EXCEPT !.kind = None])
    BY <1>1, <1>7, PricingConstants DEF Scope, s
  <2> QED BY <1>3, <2>1, <2>2, <2>3
<1>8. CASE t.type = "sku_override" /\ t.kind \in {"offer_id", None} /\ t.id = None /\ t.code # None /\ t.code = product.offer
  <2> DEFINE s == Scope("sku_override", "offer_id", None, product.offer)
  <2>0. AskedScopes(product)[3] = [key |-> product.offer, scope |-> s]
    BY AskedAre
  <2> HIDE DEF s
  <2>1. AskedScopes(product)[3].scope = s /\ AskedScopes(product)[3].key # None
    BY <1>t, <1>8, <2>0
  <2>2. TypeAsked(3) = t.type
    BY <1>8 DEF TypeAsked
  <2>3. t = s \/ (s.kind # None /\ t = [s EXCEPT !.kind = None])
    BY <1>1, <1>8, PricingConstants DEF Scope, s
  <2> QED BY <1>3, <2>1, <2>2, <2>3
<1> QED BY <1>2, <1>4, <1>5, <1>6, <1>7, <1>8

\* The rule that wins applies, and none that applies has a higher precedence.
LEMMA ResolveIsRight ==
  ASSUME rules \in Seq(RuleRows), NEW product, product.id # None
  PROVE  /\ Resolve(rules, product) = 0 => \A j \in DOMAIN rules : ~Applies(j, product)
         /\ Resolve(rules, product) # 0 =>
               /\ Resolve(rules, product) \in DOMAIN rules
               /\ Applies(Resolve(rules, product), product)
               /\ Covers(rules[Resolve(rules, product)].scope, product)
               /\ \A j \in DOMAIN rules : Applies(j, product) =>
                     Precedence[rules[Resolve(rules, product)].scope.type] <= Precedence[rules[j].scope.type]
<1> DEFINE w == Resolve(rules, product)
           hits == {i \in 1 .. 5 : /\ AskedScopes(product)[i].key # None
                                   /\ LookupWinning(rules, AskedScopes(product)[i].scope) # 0}
<1>1. w = IF hits = {} THEN 0 ELSE LookupWinning(rules, AskedScopes(product)[Min(hits)].scope)
  BY DEF Resolve
<1>2. hits # {} => Min(hits) \in hits /\ \A i \in hits : Min(hits) <= i
  <2> SUFFICES ASSUME hits # {}
               PROVE  \E x \in hits : \A y \in hits : x <= y
    BY DEF Min
  <2>1. hits \subseteq {1, 2, 3, 4, 5}
    OBVIOUS
  <2> HIDE DEF hits
  <2>2. CASE 1 \in hits
    BY <2>1, <2>2
  <2>3. CASE 1 \notin hits /\ 2 \in hits
    BY <2>1, <2>3
  <2>4. CASE {1, 2} \cap hits = {} /\ 3 \in hits
    BY <2>1, <2>4
  <2>5. CASE {1, 2, 3} \cap hits = {} /\ 4 \in hits
    BY <2>1, <2>5
  <2>6. CASE {1, 2, 3, 4} \cap hits = {}
    <3>1. PICK x \in hits : TRUE
      OBVIOUS
    <3>2. \A y \in hits : y = 5
      BY <2>1, <2>6
    <3> QED BY <3>1, <3>2
  <2> QED BY <2>2, <2>3, <2>4, <2>5, <2>6
<1>3. ASSUME NEW j \in DOMAIN rules, Applies(j, product)
      PROVE  \E i \in hits : TypeAsked(i) = rules[j].scope.type
  <2>1. IsScope(rules[j].scope)
    BY RuleIdsAreFinite DEF RuleRows, Scopes
  <2> QED BY <1>3, <2>1, ApplicableRulesAreHit
<1>4. ASSUME NEW i \in 1 .. 5, NEW k \in 1 .. 5, i <= k
      PROVE  Precedence[TypeAsked(i)] <= Precedence[TypeAsked(k)]
  BY <1>4 DEF Precedence, TypeAsked
<1>5. ASSUME hits # {}
      PROVE  /\ w # 0 /\ w \in DOMAIN rules /\ Applies(w, product) /\ Covers(rules[w].scope, product)
             /\ rules[w].scope.type = TypeAsked(Min(hits))
  <2>1. Min(hits) \in hits /\ w = LookupWinning(rules, AskedScopes(product)[Min(hits)].scope)
    BY <1>1, <1>2, <1>5
  <2> QED BY <2>1, HitsApply
<1>6. hits \subseteq 1 .. 5
  OBVIOUS
<1> HIDE DEF hits, w
<1>7. ASSUME hits # {}, NEW j \in DOMAIN rules, Applies(j, product)
      PROVE  Precedence[rules[w].scope.type] <= Precedence[rules[j].scope.type]
  <2>1. PICK i \in hits : TypeAsked(i) = rules[j].scope.type
    BY <1>3, <1>7
  <2>2. Min(hits) \in 1 .. 5 /\ i \in 1 .. 5 /\ Min(hits) <= i
    BY <1>2, <1>6, <1>7
  <2> QED BY <1>4, <1>5, <1>7, <2>1, <2>2
<1>8. hits = {} => w = 0 /\ \A j \in DOMAIN rules : ~Applies(j, product)
  BY <1>1, <1>3
<1> QED BY <1>5, <1>7, <1>8 DEF w

\* The row that a recomputation stores for a product, by the rules of the moment.
LEMMA ExpectedIsRight ==
  ASSUME rules \in Seq(RuleRows), NEW n \in Products
  PROVE  /\ Expected(rules, n) \in EffectiveRows /\ QuotesARule(rules, Expected(rules, n), n)
         /\ LET applicable == IF Catalogue[n].priced
                              THEN {i \in DOMAIN rules : Applies(i, Catalogue[n])} ELSE {}
            IN IF applicable = {} THEN Expected(rules, n) = NoRow
               ELSE /\ Expected(rules, n).rule \in applicable
                    /\ Expected(rules, n) = Materialized(rules, Expected(rules, n).rule)
                    /\ \A i \in applicable : Precedence[Expected(rules, n).type]
                                               <= Precedence[rules[i].scope.type]
<1> DEFINE p == Catalogue[n]
           w == Resolve(rules, p)
           e == Expected(rules, n)
<1>1. p.id # None
  BY PricingConstants DEF Products
<1>2. /\ w = 0 => \A j \in DOMAIN rules : ~Applies(j, p)
      /\ w # 0 => /\ w \in DOMAIN rules /\ Applies(w, p) /\ Covers(rules[w].scope, p)
                  /\ \A j \in DOMAIN rules : Applies(j, p) =>
                        Precedence[rules[w].scope.type] <= Precedence[rules[j].scope.type]
  BY <1>1, ResolveIsRight
<1>3. NoRow \in EffectiveRows /\ QuotesARule(rules, NoRow, n)
  BY DEF NoRow, EffectiveRows, QuotesARule
<1>4. CASE ~p.priced \/ w = 0
  <2>1. e = NoRow
    BY <1>4 DEF Expected, Materialized
  <2> HIDE DEF w, e
  <2> QED BY <1>2, <1>3, <1>4, <2>1 DEF e
<1>5. CASE p.priced /\ w # 0
  <2>1. e = [rule |-> w, type |-> rules[w].scope.type, terms |-> rules[w].terms] /\ e = Materialized(rules, w)
    BY <1>5 DEF Expected, Materialized
  <2>2. w \in Nat /\ rules[w] \in RuleRows
    BY <1>2, <1>5, RuleIdsAreFinite
  <2>3. rules[w].scope.type \in RuleTypes /\ rules[w].terms \in Nat
    BY <2>2 DEF RuleRows, Scopes, IsScope
  <2> HIDE DEF w
  <2>4. e.rule = w /\ e.type = rules[w].scope.type /\ e \in EffectiveRows
    BY <2>1, <2>2, <2>3 DEF EffectiveRows
  <2>5. QuotesARule(rules, e, n)
    BY <1>2, <1>5, <2>4 DEF QuotesARule
  <2> HIDE DEF e
  <2> QED BY <1>2, <1>5, <2>1, <2>4, <2>5 DEF e
<1> QED BY <1>4, <1>5

-----------------------------------------------------------------------------
(* The statements on the rules. *)

LEMMA NowIsNat ==
  ASSUME NEW rs \in Seq(RuleRows)
  PROVE  Now(rs) \in Nat
<1> DEFINE S == {0} \cup {rs[i].updated : i \in DOMAIN rs}
           R == {p \in S \X S : p[1] >= p[2]}
<1>1. \A i \in DOMAIN rs : rs[i].updated \in Nat
  BY RuleIdsAreFinite DEF RuleRows
<1>2. IsFiniteSet(S) /\ S # {}
  <2> DEFINE T == {rs[i].updated : i \in DOMAIN rs}
             f == [i \in DOMAIN rs |-> rs[i].updated]
  <2>1. f \in Surjection(DOMAIN rs, T)
    BY DEF Surjection
  <2>2. IsFiniteSet(DOMAIN rs)
    BY RuleIdsAreFinite
  <2> HIDE DEF f, T
  <2>3. IsFiniteSet(T)
    BY <2>1, <2>2, FS_Surjection
  <2>4. IsFiniteSet(T \cup {0})
    BY <2>3, FS_AddElement
  <2>5. S = T \cup {0}
    BY DEF T
  <2> QED BY <2>4, <2>5
<1>3. \A x \in S : x \in Nat
  BY <1>1
<1>4. \A x, y \in S : <<x, y>> \in R <=> x >= y
  OBVIOUS
<1> HIDE DEF S, R
<1>5. /\ \A x, y \in S : x # y => <<x, y>> \in R \/ <<y, x>> \in R
      /\ \A x, y, z \in S : <<x, y>> \in R /\ <<y, z>> \in R => <<x, z>> \in R
  BY <1>3, <1>4
<1>6. PICK x \in S : \A y \in S \ {x} : <<x, y>> \in R
  BY <1>2, <1>5, FiniteSetsHaveAFirst
<1>7. ASSUME NEW y \in S PROVE x >= y
  <2>1. CASE y = x
    BY <1>3, <2>1
  <2>2. CASE y # x
    <3>1. <<x, y>> \in R
      BY <1>6, <2>2
    <3> QED BY <1>4, <3>1
  <2> QED BY <2>1, <2>2
<1>8. Max(S) \in S
  BY <1>7 DEF Max
<1>9. Now(rs) = 1 + Max(S)
  BY DEF Now, S
<1> QED BY <1>3, <1>8, <1>9

LEMMA CreatedRule ==
  ASSUME NEW rs \in Seq(RuleRows), NEW s \in Scopes, NEW active \in BOOLEAN, NEW terms \in Nat
  PROVE  /\ CreateRule(rs, s, active, terms) \in Seq(RuleRows)
         /\ DOMAIN CreateRule(rs, s, active, terms) = DOMAIN rs \cup {Len(rs) + 1}
         /\ Len(rs) + 1 \notin DOMAIN rs
         /\ \A i \in DOMAIN rs : CreateRule(rs, s, active, terms)[i] = rs[i]
         /\ CreateRule(rs, s, active, terms)[Len(rs) + 1] = RuleRow(s, active, terms, Now(rs))
<1> DEFINE row == RuleRow(s, active, terms, Now(rs))
<1>1. row \in RuleRows
  BY NowIsNat DEF RuleRow, RuleRows
<1> HIDE DEF row
<1>2. DOMAIN rs = 1 .. Len(rs) /\ Len(rs) \in Nat
  BY LenProperties
<1>3. CreateRule(rs, s, active, terms) = Append(rs, row)
  BY DEF CreateRule, row
<1>4. /\ Append(rs, row) \in Seq(RuleRows) /\ Len(Append(rs, row)) = Len(rs) + 1
      /\ \A i \in 1 .. Len(rs) : Append(rs, row)[i] = rs[i]
      /\ Append(rs, row)[Len(rs) + 1] = row
  BY <1>1, AppendProperties
<1>5. DOMAIN Append(rs, row) = 1 .. Len(rs) + 1
  BY <1>4, LenProperties
<1>6. 1 .. Len(rs) + 1 = (1 .. Len(rs)) \cup {Len(rs) + 1} /\ Len(rs) + 1 \notin 1 .. Len(rs)
  BY <1>2
<1> QED BY <1>2, <1>3, <1>4, <1>5, <1>6 DEF row

LEMMA UpdatedRule ==
  ASSUME NEW rs \in Seq(RuleRows), NEW i \in DOMAIN rs, NEW row \in RuleRows
  PROVE  /\ [rs EXCEPT ![i] = row] \in Seq(RuleRows)
         /\ DOMAIN [rs EXCEPT ![i] = row] = DOMAIN rs
         /\ [rs EXCEPT ![i] = row][i] = row
         /\ \A j \in DOMAIN rs \ {i} : [rs EXCEPT ![i] = row][j] = rs[j]
<1>1. DOMAIN rs = 1 .. Len(rs)
  BY LenProperties
<1> QED BY <1>1, ExceptSeq

LEMMA DeactivatedRule ==
  ASSUME NEW rs \in Seq(RuleRows), NEW i \in DOMAIN rs
  PROVE  /\ DeactivateRule(rs, i) \in Seq(RuleRows)
         /\ DOMAIN DeactivateRule(rs, i) = DOMAIN rs
         /\ \A j \in DOMAIN rs : DeactivateRule(rs, i)[j].scope = rs[j].scope
         /\ \A j \in DOMAIN rs : DeactivateRule(rs, i)[j].active => rs[j].active
<1> DEFINE row == [rs[i] EXCEPT !.active = FALSE, !.updated = Now(rs)]
<1>1. rs[i] \in RuleRows /\ Now(rs) \in Nat
  BY RuleIdsAreFinite, NowIsNat
<1>2. row \in RuleRows /\ row.scope = rs[i].scope /\ ~row.active
  BY <1>1 DEF RuleRows
<1>3. DeactivateRule(rs, i) = [rs EXCEPT ![i] = row]
  BY DEF DeactivateRule
<1> HIDE DEF row
<1> QED BY <1>2, <1>3, UpdatedRule

-----------------------------------------------------------------------------
(* What follows of the invariant. *)

LEMMA PricingInvIsInEffect == PricingInv => LastRequestIsInEffect
<1> SUFFICES ASSUME PricingInv, NEW q \in PricingRequests, Settled(q), NEW n \in Products
             PROVE  LET applicable == IF Catalogue[n].priced
                                      THEN {i \in DOMAIN rules : Applies(i, Catalogue[n])} ELSE {}
                    IN IF applicable = {} THEN effective[n] = NoRow
                       ELSE /\ effective[n].rule \in applicable
                            /\ effective[n] = Materialized(rules, effective[n].rule)
                            /\ \A i \in applicable : Precedence[effective[n].type]
                                                       <= Precedence[rules[i].scope.type]
  BY DEF LastRequestIsInEffect
<1>1. AloneIsInEffect(q) /\ rules \in Seq(RuleRows) /\ request[q].at \in Nat \ {0}
  BY DEF PricingInv, PricingTypes, RequestRows
<1>2. request[q].stage = "done" /\ ~request[q].overlapped
  BY DEF Settled
<1>3. request[q].at \notin Products /\ \A k \in Products : effective[k] = IF k < request[q].at THEN Expected(rules, k) ELSE NoRow
  BY <1>1, <1>2 DEF AloneIsInEffect
<1>n. n < request[q].at
  BY <1>1, <1>3, PricingConstants DEF Products
<1>4. effective[n] = Expected(rules, n)
  BY <1>3, <1>n
<1> QED BY <1>1, <1>4, ExpectedIsRight

LEMMA PricingInvCovers == PricingInv => EffectiveRuleCovers
  BY DEF PricingInv, RowsQuoteRules, QuotesARule, EffectiveRuleCovers

-----------------------------------------------------------------------------
(* One request moves. *)

\* No statement changes the scope of a rule or deletes one.
RulesStay(rs, new) == \A i \in DOMAIN rs : i \in DOMAIN new /\ new[i].scope = rs[i].scope

LEMMA QuotesStay ==
  ASSUME NEW rs, NEW new, RulesStay(rs, new), NEW row, NEW n, QuotesARule(rs, row, n)
  PROVE  QuotesARule(new, row, n)
  BY DEF RulesStay, QuotesARule

LEMMA FoundStays ==
  ASSUME PricingInv, NEW o \in PricingRequests, RulesStay(rules, rules'),
         request'[o].stage = request[o].stage, request'[o].payload = request[o].payload,
         request'[o].found = request[o].found, request'[o].at = request[o].at
  PROVE  FoundRulesStay(o)'
<1>1. FoundRulesStay(o)
  BY DEF PricingInv
<1>2. \A x \in request[o].found : x.id \in DOMAIN rules' /\ rules'[x.id].scope = x.row.scope
  BY <1>1 DEF FoundRulesStay, RulesStay
<1> QED BY <1>1, <1>2 DEF FoundRulesStay

LEMMA OneRequestMoves ==
  ASSUME PricingInv, NEW q \in PricingRequests, InProgress(q),
         request' \in [PricingRequests -> RequestRows],
         \A o \in PricingRequests : o # q => request'[o] = request[o],
         request'[q].overlapped <=> request[q].overlapped, request'[q].stage # "idle",
         rules' \in Seq(RuleRows), RulesStay(rules, rules'), effective' \in [Products -> EffectiveRows],
         last' = q \/ InProgress(q)', FoundRulesStay(q)',
         \A n \in Products : QuotesARule(rules', effective'[n], n),
         request'[q].stage = "store" =>
            request'[q].at \in Products /\ QuotesARule(rules', request'[q].chosen, request'[q].at),
         NoRaceNoDuplicates', AloneIsInEffect(q)'
  PROVE  PricingInv'
<1>1. \A o \in PricingRequests : FoundRulesStay(o)'
  BY FoundStays
<1>2. RowsQuoteRules'
  <2>1. ASSUME NEW o \in PricingRequests, o # q, request'[o].stage = "store"
        PROVE  request'[o].at \in Products /\ QuotesARule(rules', request'[o].chosen, request'[o].at)
    <3>1. request[o].stage = "store" /\ request'[o] = request[o]
      BY <2>1
    <3>2. request[o].at \in Products /\ QuotesARule(rules, request[o].chosen, request[o].at)
      BY <3>1 DEF PricingInv, RowsQuoteRules
    <3> QED BY <3>1, <3>2, QuotesStay
  <2>2. \A o \in PricingRequests : request'[o].stage = "store" =>
          request'[o].at \in Products /\ QuotesARule(rules', request'[o].chosen, request'[o].at)
    BY <2>1
  <2> QED BY <2>2 DEF RowsQuoteRules
<1>3. OverlappedRequestsAreMarked'
  <2>3. \A p \in PricingRequests : request'[p].stage = "idle" => ~request'[p].overlapped
    BY DEF PricingInv, OverlappedRequestsAreMarked
  <2> SUFFICES ASSUME NEW p \in PricingRequests, NEW o \in PricingRequests, p # o, InProgress(p)', InProgress(o)'
               PROVE  request'[p].overlapped
    BY <2>3 DEF OverlappedRequestsAreMarked
  <2>1. InProgress(p) /\ InProgress(o)
    BY DEF InProgress
  <2>2. request[p].overlapped
    BY <2>1 DEF PricingInv, OverlappedRequestsAreMarked
  <2> QED BY <2>2
<1>4. ASSUME NEW o \in PricingRequests, o # q PROVE AloneIsInEffect(o)'
  <2>1. request'[o] = request[o]
    BY <1>4
  <2>2. CASE request[o].overlapped
    BY <2>1, <2>2 DEF AloneIsInEffect
  <2>3. CASE ~request[o].overlapped
    <3>1. ~InProgress(o)
      BY <1>4, <2>3 DEF PricingInv, OverlappedRequestsAreMarked
    <3>2. ~Settled(o)'
      BY <1>4 DEF Settled
    <3>3. request[o].stage = "done" => request[o].at \notin Products
      BY <2>3 DEF PricingInv, AloneIsInEffect
    <3>4. request'[o].stage \notin {"write", "duplicates", "resolve", "store"}
      BY <2>1, <3>1 DEF InProgress
    <3> QED BY <2>1, <3>2, <3>3, <3>4 DEF AloneIsInEffect
  <2> QED BY <2>2, <2>3
<1>5. PricingTypes'
  BY DEF PricingTypes
<1>6. \A o \in PricingRequests : AloneIsInEffect(o)'
  BY <1>4
<1> QED BY <1>1, <1>2, <1>3, <1>5, <1>6 DEF PricingInv

\* A request enters: whoever is in progress is marked as overlapped.
LEMMA RequestEnters ==
  ASSUME PricingInv, NEW q \in PricingRequests, NEW fields \in RequestRows,
         Enter(q, fields), fields.stage \in {"write", "clear", "failed"},
         rules' \in Seq(RuleRows), RulesStay(rules, rules'), effective' = effective,
         last' = q \/ fields.stage # "failed", FoundRulesStay(q)',
         (\A o \in PricingRequests : ~InProgress(o)) /\ UniqueIn(rules) => UniqueIn(rules'),
         fields.stage = "write" =>
            /\ rules' = rules
            /\ fields.found = {[id |-> i, row |-> rules[i]] : i \in ListByScope(rules, ScopeOf(fields.payload))}
  PROVE  PricingInv'
<1> DEFINE Marked(p) == IF p = q THEN [fields EXCEPT !.overlapped = \E o \in PricingRequests : InProgress(o)]
                        ELSE [request[p] EXCEPT !.overlapped = @ \/ InProgress(p)]
<1>0. /\ PricingTypes /\ request \in [PricingRequests -> RequestRows] /\ request[q].stage = "idle"
      /\ request' = [p \in PricingRequests |-> Marked(p)]
  BY DEF PricingInv, PricingTypes, Enter
<1>1. ASSUME NEW p \in PricingRequests
      PROVE  Marked(p) \in RequestRows
  BY <1>0 DEF RequestRows
<1>2. /\ request'[q].stage = fields.stage /\ request'[q].payload = fields.payload /\ request'[q].found = fields.found
      /\ request'[q].at = fields.at /\ request'[q].chosen = fields.chosen
      /\ request'[q].overlapped <=> \E o \in PricingRequests : InProgress(o)
  BY <1>0 DEF RequestRows
<1>3. \A p \in PricingRequests : p # q =>
        /\ request'[p].stage = request[p].stage /\ request'[p].payload = request[p].payload
        /\ request'[p].found = request[p].found
        /\ request'[p].at = request[p].at /\ request'[p].chosen = request[p].chosen
        /\ request'[p].overlapped <=> request[p].overlapped \/ InProgress(p)
  BY <1>0 DEF RequestRows
<1>4. PricingTypes'
  BY <1>0, <1>1 DEF PricingTypes
<1> HIDE DEF Marked
<1>5. \A p \in PricingRequests : FoundRulesStay(p)'
  BY <1>3, FoundStays
<1>6. RowsQuoteRules'
  <2>1. \A n \in Products : QuotesARule(rules', effective'[n], n)
    BY QuotesStay DEF PricingInv, RowsQuoteRules
  <2>2. ASSUME NEW p \in PricingRequests, request'[p].stage = "store"
        PROVE  request'[p].at \in Products /\ QuotesARule(rules', request'[p].chosen, request'[p].at)
    <3>1. p # q /\ request[p].stage = "store" /\ request'[p].at = request[p].at /\ request'[p].chosen = request[p].chosen
      BY <1>2, <1>3, <2>2
    <3>2. request[p].at \in Products /\ QuotesARule(rules, request[p].chosen, request[p].at)
      BY <3>1 DEF PricingInv, RowsQuoteRules
    <3> QED BY <3>1, <3>2, QuotesStay
  <2> QED BY <2>1, <2>2 DEF RowsQuoteRules
<1>7. OverlappedRequestsAreMarked'
  <2>3. \A p \in PricingRequests : request'[p].stage = "idle" => ~request'[p].overlapped
    BY <1>2, <1>3 DEF PricingInv, OverlappedRequestsAreMarked, InProgress
  <2> SUFFICES ASSUME NEW p \in PricingRequests, NEW o \in PricingRequests, p # o, InProgress(p)', InProgress(o)'
               PROVE  request'[p].overlapped
    BY <2>3 DEF OverlappedRequestsAreMarked
  <2>1. CASE p = q
    <3>1. InProgress(o)
      BY <1>3, <2>1 DEF InProgress
    <3> QED BY <1>2, <2>1, <3>1
  <2>2. CASE p # q
    <3>1. InProgress(p)
      BY <1>3, <2>2 DEF InProgress
    <3> QED BY <1>3, <2>2, <3>1
  <2> QED BY <2>1, <2>2
<1>8. NoRaceNoDuplicates'
  <2> SUFFICES ASSUME \A p \in PricingRequests : ~request'[p].overlapped
               PROVE  UniqueIn(rules') /\ \A p \in PricingRequests : request'[p].stage # "duplicates"
    BY DEF NoRaceNoDuplicates
  <2>1. \A p \in PricingRequests : ~InProgress(p)
    BY <1>2
  <2>2. \A p \in PricingRequests : ~request[p].overlapped
    <3>1. ~request[q].overlapped
      BY <1>0 DEF PricingInv, OverlappedRequestsAreMarked
    <3> QED BY <1>3, <3>1
  <2>3. UniqueIn(rules)
    BY <2>2 DEF PricingInv, NoRaceNoDuplicates
  <2>4. \A p \in PricingRequests : request'[p].stage # "duplicates"
    BY <1>2, <1>3, <2>1 DEF InProgress
  <2> QED BY <2>1, <2>3, <2>4
<1>9. ASSUME NEW o \in PricingRequests PROVE AloneIsInEffect(o)'
  <2>1. CASE o = q
    <3>1. ~Settled(o)'
      BY <1>2, <2>1 DEF Settled
    <3>2. request'[o].stage \notin {"duplicates", "resolve", "store", "done"}
      BY <1>2, <2>1
    <3>3. request'[o].stage = "write" =>
            request'[o].found = {[id |-> i, row |-> rules'[i]] : i \in ListByScope(rules', ScopeOf(request'[o].payload))}
      BY <1>2, <2>1
    <3> QED BY <3>1, <3>2, <3>3 DEF AloneIsInEffect
  <2>2. CASE o # q /\ request'[o].overlapped
    BY <2>2 DEF AloneIsInEffect
  <2>3. CASE o # q /\ ~request'[o].overlapped
    <3>1. ~InProgress(o) /\ ~request[o].overlapped
      BY <1>3, <2>3
    <3>2. ~Settled(o)'
      BY <1>2, <2>3 DEF Settled, InProgress
    <3>3. request[o].stage = "done" => request[o].at \notin Products
      BY <3>1 DEF PricingInv, AloneIsInEffect
    <3>4. request'[o].stage \notin {"write", "duplicates", "resolve", "store"}
      BY <1>3, <2>3, <3>1 DEF InProgress
    <3>5. request'[o].stage = "done" => request'[o].at \notin Products
      BY <1>3, <2>3, <3>3
    <3> QED BY <3>2, <3>4, <3>5 DEF AloneIsInEffect
  <2> QED BY <2>1, <2>2, <2>3
<1> QED BY <1>4, <1>5, <1>6, <1>7, <1>8, <1>9 DEF PricingInv

LEMMA IdleRequestIs ==
  /\ NoRow \in EffectiveRows
  /\ IdleRequest \in RequestRows
  /\ IdleRequest.stage = "idle" /\ IdleRequest.found = {} /\ IdleRequest.at = 1
<1>1. NoRow \in EffectiveRows
  BY DEF NoRow, EffectiveRows
<1>2. IdleRequest \in RequestRows
  BY <1>1 DEF IdleRequest, RequestRows, PricingStages
<1> QED BY <1>1, <1>2 DEF IdleRequest

LEMMA InitPricingInv == PricingInit => PricingInv
<1> SUFFICES ASSUME PricingInit PROVE PricingInv
  OBVIOUS
<1>1. rules \in Seq(RuleRows) /\ UniqueIn(rules)
  BY LegacyRulesAreRules DEF PricingInit
<1>2. /\ effective = [n \in Products |-> NoRow]
      /\ request = [q \in PricingRequests |-> IdleRequest]
  BY DEF PricingInit
<1>3. NoRow \in EffectiveRows
  BY DEF NoRow, EffectiveRows
<1>4. IdleRequest \in RequestRows
  BY <1>3 DEF IdleRequest, RequestRows, PricingStages
<1>5. \A q \in PricingRequests :
        /\ request[q].stage = "idle" /\ request[q].found = {} /\ request[q].at = 1
        /\ request[q].overlapped = FALSE
  BY <1>2 DEF IdleRequest
<1>6. PricingTypes
  BY <1>1, <1>2, <1>3, <1>4 DEF PricingTypes
<1>7. \A q \in PricingRequests : FoundRulesStay(q)
  BY <1>5, FS_EmptySet DEF FoundRulesStay
<1>8. RowsQuoteRules
  BY <1>2, <1>5 DEF RowsQuoteRules, QuotesARule
<1>9. OverlappedRequestsAreMarked /\ NoRaceNoDuplicates
  BY <1>1, <1>5 DEF OverlappedRequestsAreMarked, NoRaceNoDuplicates, InProgress
<1>10. \A q \in PricingRequests : AloneIsInEffect(q)
  BY <1>5 DEF AloneIsInEffect, Settled
<1> QED BY <1>6, <1>7, <1>8, <1>9, <1>10 DEF PricingInv

-----------------------------------------------------------------------------
(* The steps that enter a handler. *)

LEMMA RejectKeepsInv ==
  ASSUME PricingInv, NEW q \in PricingRequests, NEW p \in Payloads, RejectRequest(q, p)
  PROVE  PricingInv'
<1> DEFINE fields == [IdleRequest EXCEPT !.stage = "failed"]
<1>1. fields \in RequestRows /\ fields.stage = "failed" /\ fields.found = {}
  BY IdleRequestIs DEF RequestRows, PricingStages
<1>2. /\ Enter(q, fields) /\ last' = q /\ rules' = rules /\ effective' = effective
      /\ rules \in Seq(RuleRows) /\ request \in [PricingRequests -> RequestRows]
  BY DEF RejectRequest, PricingInv, PricingTypes
<1> HIDE DEF fields
<1>3. request'[q] = [fields EXCEPT !.overlapped = \E o \in PricingRequests : InProgress(o)]
  BY <1>2 DEF Enter
<1>4. request'[q].stage = "failed" /\ request'[q].found = {}
  BY <1>1, <1>3 DEF RequestRows
<1>5. FoundRulesStay(q)'
  BY <1>4, FS_EmptySet DEF FoundRulesStay
<1>6. RulesStay(rules, rules')
  BY <1>2 DEF RulesStay
<1> QED BY <1>1, <1>2, <1>5, <1>6, RequestEnters

LEMMA ScopesOfRequests ==
  ASSUME NEW p \in Payloads, Accepts(p), ~Deactivates(p)
  PROVE  ScopeOf(p) \in Scopes
<1>1. p.op \in {"global", "category", "override"}
  BY PricingConstants DEF Deactivates
<1>2. CASE p.op = "global"
  <2>1. ScopeOf(p) = GlobalScope
    BY <1>2 DEF ScopeOf
  <2>2. IsScope(GlobalScope)
    BY DEF IsScope, GlobalScope, Scope, RuleTypes, Precedence
  <2> QED BY <2>1, <2>2 DEF Scopes
<1>3. CASE p.op = "category"
  <2>1. ScopeOf(p) = Scope("category_rule", "category_id", p.category, p.code) /\ p.category # None
    BY <1>3 DEF ScopeOf, CategoryScope, Accepts
  <2>2. IsScope(ScopeOf(p))
    BY <2>1 DEF IsScope, Scope, RuleTypes, Precedence
  <2> QED BY <2>2 DEF Scopes
<1>4. CASE p.op = "override"
  <2>1. PICK kind, id, code : ScopeOf(p) = Scope("sku_override", kind, id, code)
    BY <1>4 DEF ScopeOf, OverrideScope
  <2>2. IsScope(ScopeOf(p))
    BY <2>1 DEF IsScope, Scope, RuleTypes, Precedence
  <2> QED BY <2>2 DEF Scopes
<1> QED BY <1>1, <1>2, <1>3, <1>4

LEMMA BeginUpsertKeepsInv ==
  ASSUME PricingInv, NEW q \in PricingRequests, NEW p \in Payloads, BeginUpsert(q, p)
  PROVE  PricingInv'
<1> DEFINE found == {[id |-> i, row |-> rules[i]] : i \in ListByScope(rules, ScopeOf(p))}
           fields == [IdleRequest EXCEPT !.stage = "write", !.payload = p, !.found = found]
<1>1. /\ Enter(q, fields) /\ rules' = rules /\ effective' = effective
      /\ Accepts(p) /\ ~Deactivates(p)
  BY DEF BeginUpsert
<1>2. rules \in Seq(RuleRows) /\ request \in [PricingRequests -> RequestRows]
  BY DEF PricingInv, PricingTypes
<1>3. ListByScope(rules, ScopeOf(p)) \subseteq DOMAIN rules
  BY DEF ListByScope
<1>4. /\ IsFiniteSet(ListByScope(rules, ScopeOf(p)))
      /\ \A i \in ListByScope(rules, ScopeOf(p)) : i \in Nat /\ rules[i] \in RuleRows
  BY <1>2, <1>3, RuleIdsAreFinite
<1>5. found \in SUBSET [id : Nat, row : RuleRows]
  BY <1>4
<1>6. IsFiniteSet(found)
  <2> DEFINE f == [i \in ListByScope(rules, ScopeOf(p)) |-> [id |-> i, row |-> rules[i]]]
  <2>1. f \in Surjection(ListByScope(rules, ScopeOf(p)), found)
    BY DEF Surjection
  <2> HIDE DEF f, found
  <2> QED BY <1>4, <2>1, FS_Surjection
<1>7. \A x \in found : x.id \in DOMAIN rules /\ x.row = rules[x.id] /\ rules[x.id].scope = ScopeOf(p)
  BY <1>3 DEF ListByScope
<1>8. \A x, y \in found : x.id = y.id => x = y
  <2> SUFFICES ASSUME NEW x \in found, NEW y \in found, x.id = y.id PROVE x = y
    OBVIOUS
  <2>1. x = [id |-> x.id, row |-> rules[x.id]] /\ y = [id |-> y.id, row |-> rules[y.id]]
    OBVIOUS
  <2> QED BY <2>1
<1>9. found = {[id |-> i, row |-> rules[i]] : i \in ListByScope(rules, ScopeOf(p))}
  OBVIOUS
<1> HIDE DEF found
<1>10. fields \in RequestRows
  BY <1>5, IdleRequestIs DEF RequestRows, PricingStages
<1>11. fields.stage = "write" /\ fields.payload = p /\ fields.found = found /\ fields.at = 1
  BY DEF IdleRequest
<1> HIDE DEF fields
<1>12. request'[q] = [fields EXCEPT !.overlapped = \E o \in PricingRequests : InProgress(o)]
  BY <1>1, <1>2 DEF Enter
<1>13. request'[q].stage = "write" /\ request'[q].payload = p /\ request'[q].found = found /\ request'[q].at = 1
  BY <1>10, <1>11, <1>12 DEF RequestRows
<1>14. \A x \in found : x.row.scope = ScopeOf(p) /\ x.id \in DOMAIN rules' /\ rules'[x.id].scope = x.row.scope
  BY <1>1, <1>7
<1>15. FoundRulesStay(q)'
  BY <1>1, <1>6, <1>8, <1>13, <1>14 DEF FoundRulesStay
<1>16. RulesStay(rules, rules')
  BY <1>1 DEF RulesStay
<1> QED BY <1>1, <1>2, <1>9, <1>10, <1>11, <1>15, <1>16, RequestEnters

LEMMA BeginDeactivateKeepsInv ==
  ASSUME PricingInv, NEW q \in PricingRequests, NEW p \in Payloads, BeginDeactivate(q, p)
  PROVE  PricingInv'
<1>1. rules \in Seq(RuleRows) /\ request \in [PricingRequests -> RequestRows] /\ Accepts(p) /\ Deactivates(p)
  BY DEF PricingInv, PricingTypes, BeginDeactivate
<1>2. CASE p.rule \in DOMAIN rules /\ rules[p.rule].scope.type = DeactivatedType(p)
  <2> DEFINE fields == [IdleRequest EXCEPT !.stage = "clear", !.payload = p]
  <2>1. fields \in RequestRows /\ fields.stage = "clear" /\ fields.payload = p /\ fields.found = {} /\ fields.at = 1
    BY IdleRequestIs DEF RequestRows, PricingStages
  <2>2. Enter(q, fields) /\ rules' = DeactivateRule(rules, p.rule) /\ effective' = effective
    BY <1>2 DEF BeginDeactivate
  <2> HIDE DEF fields
  <2>3. request'[q] = [fields EXCEPT !.overlapped = \E o \in PricingRequests : InProgress(o)]
    BY <1>1, <2>2 DEF Enter
  <2>4. request'[q].stage = "clear" /\ request'[q].payload = p /\ request'[q].found = {} /\ request'[q].at = 1
    BY <2>1, <2>3 DEF RequestRows
  <2>5. FoundRulesStay(q)'
    BY <1>1, <2>4, FS_EmptySet DEF FoundRulesStay
  <2>6. /\ rules' \in Seq(RuleRows) /\ DOMAIN rules' = DOMAIN rules
        /\ \A j \in DOMAIN rules : rules'[j].scope = rules[j].scope
        /\ \A j \in DOMAIN rules : rules'[j].active => rules[j].active
    BY <1>1, <1>2, <2>2, DeactivatedRule
  <2>7. RulesStay(rules, rules')
    BY <2>6 DEF RulesStay
  <2>8. UniqueIn(rules) => UniqueIn(rules')
    BY <2>6 DEF UniqueIn
  <2> QED BY <2>1, <2>2, <2>5, <2>6, <2>7, <2>8, RequestEnters
<1>3. CASE ~(p.rule \in DOMAIN rules /\ rules[p.rule].scope.type = DeactivatedType(p))
  <2> DEFINE fields == [IdleRequest EXCEPT !.stage = "failed"]
  <2>1. fields \in RequestRows /\ fields.stage = "failed" /\ fields.found = {}
    BY IdleRequestIs DEF RequestRows, PricingStages
  <2>2. Enter(q, fields) /\ last' = q /\ rules' = rules /\ effective' = effective
    BY <1>3 DEF BeginDeactivate
  <2> HIDE DEF fields
  <2>3. request'[q] = [fields EXCEPT !.overlapped = \E o \in PricingRequests : InProgress(o)]
    BY <1>1, <2>2 DEF Enter
  <2>4. request'[q].stage = "failed" /\ request'[q].found = {}
    BY <2>1, <2>3 DEF RequestRows
  <2>5. FoundRulesStay(q)'
    BY <2>4, FS_EmptySet DEF FoundRulesStay
  <2>6. RulesStay(rules, rules')
    BY <2>2 DEF RulesStay
  <2> QED BY <1>1, <2>1, <2>2, <2>5, <2>6, RequestEnters
<1> QED BY <1>2, <1>3

-----------------------------------------------------------------------------
(* The steps that write the rules. *)

LEMMA WriteRuleKeepsInv ==
  ASSUME PricingInv, NEW q \in PricingRequests, WriteRule(q)
  PROVE  PricingInv'
<1> DEFINE p == request[q].payload
           s == ScopeOf(p)
           found == request[q].found
           first == FirstFound(found)
           rest == IF found = {} THEN {} ELSE {x \in found \ {first} : x.row.active}
           target == IF found = {} THEN Len(rules) + 1 ELSE first.id
<1>1. /\ request[q].stage = "write" /\ effective' = effective
      /\ rules' = IF found = {} THEN CreateRule(rules, s, TRUE, q) ELSE UpdateRule(rules, first.id, s, p.active, q)
      /\ request' = [request EXCEPT ![q].stage = "duplicates", ![q].found = rest]
  BY DEF WriteRule
<1>2. /\ rules \in Seq(RuleRows) /\ effective \in [Products -> EffectiveRows]
      /\ request \in [PricingRequests -> RequestRows] /\ request[q] \in RequestRows
  BY DEF PricingInv, PricingTypes
<1>3. FoundRulesStay(q)
  BY DEF PricingInv
<1>4. /\ IsFiniteSet(found) /\ \A x, y \in found : x.id = y.id => x = y
      /\ \A x \in found : x.id \in DOMAIN rules /\ rules[x.id].scope = x.row.scope /\ x.row.scope = s
      /\ p \in Payloads /\ Accepts(p) /\ ~Deactivates(p) /\ request[q].at = 1
  BY <1>1, <1>3 DEF FoundRulesStay
<1>5. found \in SUBSET [id : Nat, row : RuleRows]
  BY <1>2 DEF RequestRows
<1>6. s \in Scopes
  BY <1>4, ScopesOfRequests
<1>7. found # {} => first \in found /\ \A y \in found : y.row.active => first.row.active
  BY <1>4, <1>5, FirstFoundIs
<1>p. p.active \in BOOLEAN /\ q \in Nat
  BY <1>4, PricingConstants
<1>a. \A x \in found : x.row.active \in BOOLEAN
  BY <1>5 DEF RuleRows
<1>8. rest \subseteq found /\ \A x \in rest : x # first /\ x.row.active /\ found # {}
  OBVIOUS
<1>9. /\ rules' \in Seq(RuleRows) /\ DOMAIN rules' = DOMAIN rules \cup {target}
      /\ \A j \in DOMAIN rules \ {target} : rules'[j] = rules[j]
      /\ rules'[target].scope = s
      /\ target \in DOMAIN rules => found # {} /\ target = first.id /\ rules[target].scope = s
  <2>1. CASE found = {}
    <3>1. rules' = CreateRule(rules, s, TRUE, q) /\ target = Len(rules) + 1
      BY <1>1, <2>1
    <3> HIDE DEF s, found, first, target, p
    <3>2. /\ rules' \in Seq(RuleRows) /\ DOMAIN rules' = DOMAIN rules \cup {target}
          /\ target \notin DOMAIN rules /\ \A i \in DOMAIN rules : rules'[i] = rules[i]
          /\ rules'[target] = RuleRow(s, TRUE, q, Now(rules))
      <4>1. TRUE \in BOOLEAN
        OBVIOUS
      <4> DEFINE new == CreateRule(rules, s, TRUE, q)
      <4>2. /\ new \in Seq(RuleRows) /\ DOMAIN new = DOMAIN rules \cup {Len(rules) + 1}
            /\ Len(rules) + 1 \notin DOMAIN rules /\ \A i \in DOMAIN rules : new[i] = rules[i]
            /\ new[Len(rules) + 1] = RuleRow(s, TRUE, q, Now(rules))
        BY <1>2, <1>6, <1>p, <4>1, CreatedRule
      <4> HIDE DEF new
      <4>3. rules' = new
        BY <3>1 DEF new
      <4> QED BY <3>1, <4>2, <4>3
    <3> QED BY <3>2 DEF RuleRow
  <2>2. CASE found # {}
    <3> DEFINE row == RuleRow(s, p.active, q, Now(rules))
    <3>1. rules' = [rules EXCEPT ![target] = row] /\ target = first.id /\ first \in found
      BY <1>1, <1>7, <2>2 DEF UpdateRule
    <3>2. row \in RuleRows /\ row.scope = s
      BY <1>2, <1>6, <1>p, NowIsNat DEF RuleRow, RuleRows
    <3>3. target \in DOMAIN rules /\ rules[target].scope = s
      BY <1>4, <3>1
    <3> HIDE DEF s, found, first, target, p, row
    <3>4. /\ rules' \in Seq(RuleRows) /\ DOMAIN rules' = DOMAIN rules /\ rules'[target] = row
          /\ \A j \in DOMAIN rules \ {target} : rules'[j] = rules[j]
      BY <1>2, <3>1, <3>2, <3>3, UpdatedRule
    <3> QED BY <2>2, <3>1, <3>2, <3>3, <3>4
  <2> QED BY <2>1, <2>2
<1>10. \A j \in DOMAIN rules : j \in DOMAIN rules' /\ rules'[j].scope = rules[j].scope
  <2> HIDE DEF s, found, first, target, p
  <2> QED BY <1>9
<1>11. RulesStay(rules, rules')
  BY <1>10 DEF RulesStay
<1>12. /\ request'[q] = [request[q] EXCEPT !.stage = "duplicates", !.found = rest]
       /\ \A o \in PricingRequests : o # q => request'[o] = request[o]
  BY <1>1, <1>2
<1>13. rest \in SUBSET [id : Nat, row : RuleRows]
  BY <1>5, <1>8
<1> HIDE DEF rest
<1>14. /\ request'[q] \in RequestRows
       /\ request'[q].stage = "duplicates" /\ request'[q].found = rest /\ request'[q].payload = p
       /\ request'[q].at = request[q].at /\ (request'[q].overlapped <=> request[q].overlapped)
  BY <1>2, <1>12, <1>13 DEF RequestRows, PricingStages
<1>15. request' \in [PricingRequests -> RequestRows]
  BY <1>1, <1>2, <1>12, <1>14
<1>16. IsFiniteSet(rest)
  BY <1>4, <1>8, FS_Subset
<1>17. FoundRulesStay(q)'
  <2>1. \A x \in rest : x.id \in DOMAIN rules' /\ rules'[x.id].scope = x.row.scope
    BY <1>4, <1>8, <1>10
  <2>2. \A x, y \in rest : x.id = y.id => x = y
    BY <1>4, <1>8
  <2> HIDE DEF s, found, first, target, p
  <2> QED BY <1>4, <1>14, <1>16, <2>1, <2>2 DEF FoundRulesStay
<1>18. ASSUME ~request[q].overlapped
       PROVE  found = {[id |-> i, row |-> rules[i]] : i \in ListByScope(rules, s)}
  BY <1>1, <1>18 DEF PricingInv, AloneIsInEffect
<1>19. ASSUME ~request[q].overlapped, NEW j \in DOMAIN rules, rules[j].active, rules[j].scope = s
       PROVE  /\ [id |-> j, row |-> rules[j]] \in found /\ found # {} /\ first.row.active
              /\ rules[first.id].active /\ rules[first.id].scope = s /\ first.id \in DOMAIN rules
  <2>1. [id |-> j, row |-> rules[j]] \in found
    BY <1>18, <1>19 DEF ListByScope
  <2>2. first \in found /\ first.row.active
    BY <1>7, <1>19, <2>1
  <2>3. first.row = rules[first.id]
    BY <1>18, <1>19, <2>2
  <2> QED BY <1>4, <2>1, <2>2, <2>3
<1>20. NoRaceNoDuplicates'
  <2> SUFFICES ASSUME \A o \in PricingRequests : ~request'[o].overlapped
               PROVE  UniqueIn(rules') /\ \A o \in PricingRequests : request'[o].stage = "duplicates" => request'[o].found = {}
    BY DEF NoRaceNoDuplicates
  <2>1. \A o \in PricingRequests : ~request[o].overlapped
    BY <1>12, <1>14
  <2>2. UniqueIn(rules) /\ \A o \in PricingRequests : request[o].stage = "duplicates" => request[o].found = {}
    BY <2>1 DEF PricingInv, NoRaceNoDuplicates
  <2>3. ASSUME NEW j \in DOMAIN rules, rules[j].active, rules[j].scope = s PROVE j = target
    <3>1. /\ found # {} /\ rules[first.id].active /\ rules[first.id].scope = s /\ first.id \in DOMAIN rules
      BY <1>19, <2>1, <2>3
    <3>2. j = first.id
      BY <2>2, <2>3, <3>1 DEF UniqueIn
    <3> QED BY <3>1, <3>2
  <2>4. ASSUME NEW i \in DOMAIN rules', NEW j \in DOMAIN rules', rules'[i].active, rules'[j].active,
               rules'[i].scope = rules'[j].scope
        PROVE  i = j
    <3> HIDE DEF s, found, first, target, p
    <3>1. CASE i = target
      <4>1. j # target => j \in DOMAIN rules /\ rules[j].active /\ rules[j].scope = s
        BY <1>9, <2>4, <3>1
      <4> QED BY <2>3, <3>1, <4>1
    <3>2. CASE j = target
      <4>1. i # target => i \in DOMAIN rules /\ rules[i].active /\ rules[i].scope = s
        BY <1>9, <2>4, <3>2
      <4> QED BY <2>3, <3>2, <4>1
    <3>3. CASE i # target /\ j # target
      <4>1. /\ i \in DOMAIN rules /\ j \in DOMAIN rules /\ rules'[i] = rules[i] /\ rules'[j] = rules[j]
        BY <1>9, <3>3
      <4> QED BY <2>2, <2>4, <4>1 DEF UniqueIn
    <3> QED BY <3>1, <3>2, <3>3
  <2>5. rest = {}
    <3> SUFFICES ASSUME NEW x \in rest PROVE FALSE
      OBVIOUS
    <3>1. x \in found /\ x # first /\ x.row.active /\ x.id \in DOMAIN rules /\ rules[x.id].scope = s
      BY <1>4, <1>8
    <3>2. x.row = rules[x.id]
      BY <1>18, <2>1, <3>1
    <3>3. x.id = target /\ target = first.id /\ first \in found
      BY <1>7, <2>3, <3>1, <3>2
    <3> QED BY <1>4, <3>1, <3>3
  <2>6. ASSUME NEW o \in PricingRequests, request'[o].stage = "duplicates" PROVE request'[o].found = {}
    BY <1>12, <1>14, <2>2, <2>5, <2>6
  <2> QED BY <2>4, <2>6 DEF UniqueIn
<1>21. AloneIsInEffect(q)'
  <2> DEFINE new == {i \in DOMAIN rules' : rules'[i].scope = s /\ rules'[i].active}
  <2> SUFFICES ASSUME ~request[q].overlapped, NEW i \in new, NEW j \in new, i # j
               PROVE  \E x \in rest : x.id \in {i, j}
    BY <1>14 DEF AloneIsInEffect, Settled, ActiveIn, ListByScope
  <2>1. ASSUME NEW k \in new, k # target
        PROVE  \E x \in rest : x.id = k
    <3>1. k \in DOMAIN rules' /\ rules'[k].active /\ rules'[k].scope = s
      OBVIOUS
    <3>2. k \in DOMAIN rules /\ rules[k].active /\ rules[k].scope = s
      BY <1>9, <2>1, <3>1
    <3>3. [id |-> k, row |-> rules[k]] \in found /\ found # {}
      BY <1>19, <3>2
    <3>4. [id |-> k, row |-> rules[k]] # first
      BY <2>1, <3>3
    <3> QED BY <3>2, <3>3, <3>4 DEF rest
  <2> QED BY <2>1
<1>22. \A n \in Products : QuotesARule(rules', effective'[n], n)
  <2>1. effective' = effective
    BY <1>1
  <2> HIDE DEF s, found, first, target, p
  <2> QED BY <2>1, <1>11, QuotesStay DEF PricingInv, RowsQuoteRules
<1>23. InProgress(q) /\ InProgress(q)'
  BY <1>1, <1>14 DEF InProgress
<1>24. effective' \in [Products -> EffectiveRows]
  BY <1>1, <1>2
<1> HIDE DEF s, found, first, target, p
<1> QED BY <1>9, <1>11, <1>12, <1>14, <1>15, <1>17, <1>20, <1>21, <1>22, <1>23, <1>24, OneRequestMoves

LEMMA DropDuplicateKeepsInv ==
  ASSUME PricingInv, NEW q \in PricingRequests, DropDuplicate(q)
  PROVE  PricingInv'
<1>1. PICK x \in request[q].found :
        /\ rules' = UpdateRule(rules, x.id, x.row.scope, FALSE, x.row.terms)
        /\ request' = [request EXCEPT ![q].found = @ \ {x}]
  BY DEF DropDuplicate
<1> DEFINE rest == request[q].found \ {x}
           row == RuleRow(x.row.scope, FALSE, x.row.terms, Now(rules))
<1>2. /\ rules \in Seq(RuleRows) /\ effective \in [Products -> EffectiveRows] /\ effective' = effective
      /\ request \in [PricingRequests -> RequestRows] /\ request[q] \in RequestRows
      /\ request[q].stage = "duplicates"
  BY DEF PricingInv, PricingTypes, DropDuplicate
<1>3. FoundRulesStay(q)
  BY DEF PricingInv
<1>4. x.id \in DOMAIN rules /\ rules[x.id].scope = x.row.scope
  BY <1>3 DEF FoundRulesStay
<1>5. x.row \in RuleRows /\ request[q].found \in SUBSET [id : Nat, row : RuleRows]
  BY <1>2 DEF RequestRows
<1>6. row \in RuleRows /\ row.scope = x.row.scope /\ row.active = FALSE
  BY <1>2, <1>5, NowIsNat DEF RuleRow, RuleRows
<1>7. rules' = [rules EXCEPT ![x.id] = row]
  BY <1>1 DEF UpdateRule
<1> HIDE DEF row
<1>8. /\ rules' \in Seq(RuleRows) /\ DOMAIN rules' = DOMAIN rules /\ rules'[x.id] = row
      /\ \A j \in DOMAIN rules \ {x.id} : rules'[j] = rules[j]
  BY <1>2, <1>4, <1>6, <1>7, UpdatedRule
<1>9. RulesStay(rules, rules')
  BY <1>4, <1>6, <1>8 DEF RulesStay
<1>10. /\ request'[q] = [request[q] EXCEPT !.found = rest]
       /\ \A o \in PricingRequests : o # q => request'[o] = request[o]
  BY <1>1, <1>2
<1>11. rest \subseteq request[q].found
  OBVIOUS
<1>12. \A y \in request[q].found : y \in rest \/ y = x
  OBVIOUS
<1> HIDE DEF rest
<1>13. /\ request'[q] \in RequestRows
       /\ request'[q].stage = "duplicates" /\ request'[q].found = rest /\ request'[q].payload = request[q].payload
       /\ request'[q].at = request[q].at /\ (request'[q].overlapped <=> request[q].overlapped)
  BY <1>2, <1>5, <1>10, <1>11 DEF RequestRows
<1>14. request' \in [PricingRequests -> RequestRows]
  BY <1>1, <1>2, <1>10, <1>13
<1>15. FoundRulesStay(q)'
  <2>1. IsFiniteSet(rest)
    BY <1>3, <1>11, FS_Subset DEF FoundRulesStay
  <2>2. /\ \A y \in rest : y.id \in DOMAIN rules' /\ rules'[y.id].scope = y.row.scope
        /\ \A y, z \in rest : y.id = z.id => y = z
    BY <1>3, <1>9, <1>11 DEF FoundRulesStay, RulesStay
  <2> QED BY <1>2, <1>3, <1>13, <2>1, <2>2 DEF FoundRulesStay
<1>16. NoRaceNoDuplicates'
  <2> SUFFICES ASSUME \A o \in PricingRequests : ~request'[o].overlapped PROVE FALSE
    BY DEF NoRaceNoDuplicates
  <2>1. \A o \in PricingRequests : ~request[o].overlapped
    BY <1>10, <1>13
  <2>2. request[q].found = {}
    BY <1>2, <2>1 DEF PricingInv, NoRaceNoDuplicates
  <2> QED BY <2>2
<1>17. AloneIsInEffect(q)'
  <2> DEFINE s == ScopeOf(request[q].payload)
           new == {i \in DOMAIN rules' : rules'[i].scope = s /\ rules'[i].active}
  <2> SUFFICES ASSUME ~request[q].overlapped, NEW i \in new, NEW j \in new, i # j
               PROVE  \E y \in rest : y.id \in {i, j}
    BY <1>13 DEF AloneIsInEffect, Settled, ActiveIn, ListByScope
  <2>1. ASSUME NEW k \in new PROVE k # x.id /\ k \in ActiveIn(s)
    BY <1>6, <1>8 DEF ActiveIn, ListByScope
  <2>2. PICK y \in request[q].found : y.id \in {i, j}
    BY <1>2, <2>1 DEF PricingInv, AloneIsInEffect
  <2> QED BY <1>12, <2>1, <2>2
<1>18. \A n \in Products : QuotesARule(rules', effective'[n], n)
  BY <1>2, <1>9, QuotesStay DEF PricingInv, RowsQuoteRules
<1>19. InProgress(q) /\ InProgress(q)'
  BY <1>2, <1>13 DEF InProgress
<1>20. effective' \in [Products -> EffectiveRows]
  BY <1>2
<1> QED BY <1>8, <1>9, <1>10, <1>13, <1>14, <1>15, <1>16, <1>17, <1>18, <1>19, <1>20, OneRequestMoves

-----------------------------------------------------------------------------
(* The steps of the recomputation: the rules are only read. *)

LEMMA RecomputationMoves ==
  ASSUME PricingInv, NEW q \in PricingRequests, InProgress(q), UNCHANGED rules,
         request' \in [PricingRequests -> RequestRows],
         \A o \in PricingRequests : o # q => request'[o] = request[o],
         request'[q].overlapped <=> request[q].overlapped,
         request'[q].found = {}, request'[q].stage \in {"resolve", "store", "done", "failed"},
         request'[q].stage # "failed" =>
            request'[q].payload = request[q].payload,
         effective' \in [Products -> EffectiveRows],
         last' = q \/ InProgress(q)',
         \A n \in Products : QuotesARule(rules, effective'[n], n),
         request'[q].stage = "store" =>
            request'[q].at \in Products /\ QuotesARule(rules, request'[q].chosen, request'[q].at),
         AloneIsInEffect(q)'
  PROVE  PricingInv'
<1>1. rules' \in Seq(RuleRows) /\ RulesStay(rules, rules')
  BY DEF PricingInv, PricingTypes, RulesStay
<1>2. FoundRulesStay(q)
  BY DEF PricingInv
<1>3. request[q].payload \in Payloads /\ Accepts(request[q].payload)
  BY <1>2 DEF FoundRulesStay, InProgress
<1>4. FoundRulesStay(q)'
  BY <1>3, FS_EmptySet DEF FoundRulesStay
<1>5. NoRaceNoDuplicates'
  <2> SUFFICES ASSUME \A o \in PricingRequests : ~request'[o].overlapped
               PROVE  UniqueIn(rules) /\ \A o \in PricingRequests : request'[o].stage = "duplicates" => request'[o].found = {}
    BY DEF NoRaceNoDuplicates
  <2>1. \A o \in PricingRequests : ~request[o].overlapped
    OBVIOUS
  <2>2. UniqueIn(rules) /\ \A o \in PricingRequests : request[o].stage = "duplicates" => request[o].found = {}
    BY <2>1 DEF PricingInv, NoRaceNoDuplicates
  <2> QED BY <2>2
<1>6. \A n \in Products : QuotesARule(rules', effective'[n], n)
  OBVIOUS
<1>7. request'[q].stage = "store" =>
        request'[q].at \in Products /\ QuotesARule(rules', request'[q].chosen, request'[q].at)
  OBVIOUS
<1>8. request'[q].stage # "idle"
  OBVIOUS
<1> QED BY <1>1, <1>4, <1>5, <1>6, <1>7, <1>8, OneRequestMoves

LEMMA InvFacts ==
  ASSUME PricingInv, NEW q \in PricingRequests
  PROVE  /\ rules \in Seq(RuleRows) /\ effective \in [Products -> EffectiveRows]
         /\ request \in [PricingRequests -> RequestRows] /\ request[q] \in RequestRows
         /\ request[q].at \in Nat \ {0}
         /\ FoundRulesStay(q) /\ AloneIsInEffect(q)
         /\ \A n \in Products : QuotesARule(rules, effective[n], n)
         /\ request[q].stage = "store" =>
              request[q].at \in Products /\ QuotesARule(rules, request[q].chosen, request[q].at)
<1>1. /\ rules \in Seq(RuleRows) /\ effective \in [Products -> EffectiveRows]
      /\ request \in [PricingRequests -> RequestRows] /\ request[q] \in RequestRows
  BY DEF PricingInv, PricingTypes
<1>2. request[q].at \in Nat \ {0}
  BY <1>1 DEF RequestRows
<1> QED BY <1>1, <1>2 DEF PricingInv, RowsQuoteRules

LEMMA ClearEffectiveKeepsInv ==
  ASSUME PricingInv, NEW q \in PricingRequests, ClearEffective(q)
  PROVE  PricingInv'
<1>1. /\ request[q].stage \in {"duplicates", "clear"} /\ request[q].found = {}
      /\ effective' = [n \in Products |-> NoRow] /\ rules' = rules
      /\ request' = [request EXCEPT ![q].stage = "resolve"]
  BY DEF ClearEffective
<1>2. /\ request \in [PricingRequests -> RequestRows] /\ request[q] \in RequestRows
      /\ FoundRulesStay(q) /\ AloneIsInEffect(q)
  BY InvFacts
<1>3. /\ request'[q] = [request[q] EXCEPT !.stage = "resolve"]
      /\ \A o \in PricingRequests : o # q => request'[o] = request[o]
  BY <1>1, <1>2
<1>4. /\ request'[q] \in RequestRows /\ request'[q].stage = "resolve" /\ request'[q].found = {}
      /\ request'[q].payload = request[q].payload /\ request'[q].at = request[q].at
      /\ (request'[q].overlapped <=> request[q].overlapped)
  BY <1>1, <1>2, <1>3 DEF RequestRows, PricingStages
<1>5. request' \in [PricingRequests -> RequestRows]
  BY <1>2, <1>3, <1>4, <1>1
<1>6. effective' \in [Products -> EffectiveRows] /\ \A n \in Products : QuotesARule(rules, effective'[n], n)
  BY <1>1, IdleRequestIs DEF QuotesARule
<1>7. request[q].at = 1 /\ (request[q].stage = "clear" => Deactivates(request[q].payload))
  BY <1>1, <1>2 DEF FoundRulesStay
<1>8. AloneIsInEffect(q)'
  <2> DEFINE s == ScopeOf(request[q].payload)
  <2>1. \A n \in Products : effective'[n] = NoRow /\ ~(n < 1)
    BY <1>1, PricingConstants DEF Products
  <2>2. request[q].stage = "duplicates" /\ ~request[q].overlapped => \A i, j \in ActiveIn(s) : i = j
    BY <1>1, <1>2 DEF AloneIsInEffect
  <2>3. ~Deactivates(request[q].payload) /\ ~request[q].overlapped => \A i, j \in ActiveIn(s) : i = j
    BY <1>1, <1>7, <2>2
  <2> QED BY <1>1, <1>4, <1>7, <2>1, <2>3 DEF AloneIsInEffect, ActiveIn
<1>9. InProgress(q) /\ InProgress(q)'
  BY <1>1, <1>4 DEF InProgress
<1> QED BY <1>1, <1>3, <1>4, <1>5, <1>6, <1>8, <1>9, RecomputationMoves

LEMMA ResolveProductKeepsInv ==
  ASSUME PricingInv, NEW q \in PricingRequests, ResolveProduct(q)
  PROVE  PricingInv'
<1> DEFINE row == Expected(rules, request[q].at)
<1>1. /\ request[q].stage = "resolve" /\ request[q].at \in Products
      /\ effective' = effective /\ rules' = rules
      /\ request' = IF row = NoRow THEN [request EXCEPT ![q].at = @ + 1]
                    ELSE [request EXCEPT ![q].stage = "store", ![q].chosen = row]
  BY DEF ResolveProduct
<1>2. /\ request \in [PricingRequests -> RequestRows] /\ request[q] \in RequestRows
      /\ FoundRulesStay(q) /\ AloneIsInEffect(q) /\ request[q].at \in Nat \ {0}
      /\ rules \in Seq(RuleRows) /\ effective \in [Products -> EffectiveRows]
      /\ \A n \in Products : QuotesARule(rules, effective[n], n)
  BY InvFacts
<1>3. row \in EffectiveRows /\ QuotesARule(rules, row, request[q].at)
  BY <1>1, <1>2, ExpectedIsRight
<1>4. request[q].found = {}
  BY <1>1, <1>2 DEF FoundRulesStay
<1> DEFINE s == ScopeOf(request[q].payload)
           InEffect(k) == \A n \in Products : effective[n] = IF n < k THEN Expected(rules, n) ELSE NoRow
<1>5. ~request[q].overlapped =>
        /\ ~Deactivates(request[q].payload) => \A i, j \in ActiveIn(s) : i = j
        /\ InEffect(request[q].at)
  BY <1>1, <1>2 DEF AloneIsInEffect
<1>n. \A n \in Products : n \in Nat
  BY PricingConstants DEF Products
<1>6. CASE row = NoRow
  <2>1. /\ request'[q] = [request[q] EXCEPT !.at = request[q].at + 1]
        /\ \A o \in PricingRequests : o # q => request'[o] = request[o]
        /\ request' = [request EXCEPT ![q].at = @ + 1]
    BY <1>1, <1>2, <1>6
  <2>2. /\ request'[q] \in RequestRows /\ request'[q].stage = "resolve" /\ request'[q].found = {}
        /\ request'[q].payload = request[q].payload /\ request'[q].at = request[q].at + 1
        /\ (request'[q].overlapped <=> request[q].overlapped)
    <3> DEFINE r == request[q]
               k == request[q].at + 1
    <3>1. k \in Nat \ {0}
      BY <1>2
    <3> HIDE DEF k
    <3>2. r = [stage |-> r.stage, payload |-> r.payload, found |-> r.found, at |-> r.at,
               chosen |-> r.chosen, overlapped |-> r.overlapped]
      BY <1>2 DEF RequestRows
    <3>3. /\ r.payload \in Payloads \cup {None} /\ r.found \in SUBSET [id : Nat, row : RuleRows]
          /\ r.overlapped \in BOOLEAN /\ r.chosen \in EffectiveRows
      BY <1>2 DEF RequestRows
    <3>4. request'[q] = [stage |-> "resolve", payload |-> r.payload, found |-> r.found, at |-> k,
                         chosen |-> r.chosen, overlapped |-> r.overlapped]
      BY <1>1, <2>1, <3>2 DEF k
    <3> HIDE DEF r
    <3>5. request'[q] \in RequestRows
      BY <3>1, <3>3, <3>4 DEF RequestRows, PricingStages
    <3> QED BY <1>4, <3>4, <3>5 DEF r, k
  <2>3. request' \in [PricingRequests -> RequestRows]
    BY <1>2, <2>1, <2>2
  <2>4. InEffect(request[q].at) => InEffect(request[q].at + 1)
    <3> SUFFICES ASSUME InEffect(request[q].at), NEW n \in Products
                 PROVE  effective[n] = IF n < request[q].at + 1 THEN Expected(rules, n) ELSE NoRow
      OBVIOUS
    <3>1. effective[n] = IF n < request[q].at THEN Expected(rules, n) ELSE NoRow
      OBVIOUS
    <3>2. n \in Nat /\ (n < request[q].at + 1 <=> n < request[q].at \/ n = request[q].at)
      BY <1>2, <1>n
    <3>3. n = request[q].at => effective[n] = Expected(rules, n)
      BY <1>6, <1>2, <3>1, <3>2
    <3> HIDE DEF row, InEffect
    <3> QED BY <3>1, <3>2, <3>3
  <2> HIDE DEF row
  <2>5. AloneIsInEffect(q)'
    BY <1>1, <1>5, <2>2, <2>4 DEF AloneIsInEffect, ActiveIn
  <2>6. InProgress(q) /\ InProgress(q)'
    BY <1>1, <2>2 DEF InProgress
  <2> QED BY <1>1, <1>2, <2>1, <2>2, <2>3, <2>5, <2>6, RecomputationMoves
<1>7. CASE row # NoRow
  <2>1. /\ request'[q] = [request[q] EXCEPT !.stage = "store", !.chosen = row]
        /\ \A o \in PricingRequests : o # q => request'[o] = request[o]
        /\ request' = [request EXCEPT ![q].stage = "store", ![q].chosen = row]
    BY <1>1, <1>2, <1>7
  <2>r. row = Expected(rules, request[q].at)
    OBVIOUS
  <2> HIDE DEF row
  <2>2. /\ request'[q] \in RequestRows /\ request'[q].stage = "store" /\ request'[q].found = {}
        /\ request'[q].payload = request[q].payload /\ request'[q].at = request[q].at
        /\ request'[q].chosen = row
        /\ (request'[q].overlapped <=> request[q].overlapped)
    BY <1>1, <1>2, <1>3, <1>4, <2>1 DEF RequestRows, PricingStages
  <2>3. request' \in [PricingRequests -> RequestRows]
    BY <1>2, <2>1, <2>2
  <2>4. AloneIsInEffect(q)'
    BY <1>1, <1>5, <2>2, <2>r DEF AloneIsInEffect, ActiveIn
  <2>5. InProgress(q) /\ InProgress(q)'
    BY <1>1, <2>2 DEF InProgress
  <2> QED BY <1>1, <1>2, <1>3, <2>1, <2>2, <2>3, <2>4, <2>5, RecomputationMoves
<1> QED BY <1>6, <1>7

LEMMA StoreEffectiveKeepsInv ==
  ASSUME PricingInv, NEW q \in PricingRequests, StoreEffective(q)
  PROVE  PricingInv'
<1> DEFINE at == request[q].at
<1>1. /\ request[q].stage = "store" /\ rules' = rules
      /\ effective' = [effective EXCEPT ![at] = request[q].chosen]
      /\ request' = [request EXCEPT ![q].stage = "resolve", ![q].at = @ + 1, ![q].chosen = NoRow]
  BY DEF StoreEffective
<1>2. /\ request \in [PricingRequests -> RequestRows] /\ request[q] \in RequestRows
      /\ FoundRulesStay(q) /\ AloneIsInEffect(q) /\ at \in Nat \ {0} /\ at \in Products
      /\ rules \in Seq(RuleRows) /\ effective \in [Products -> EffectiveRows]
      /\ \A n \in Products : QuotesARule(rules, effective[n], n)
      /\ QuotesARule(rules, request[q].chosen, at)
  BY <1>1, InvFacts
<1>3. request[q].found = {} /\ request[q].chosen \in EffectiveRows
  BY <1>1, <1>2 DEF FoundRulesStay, RequestRows
<1>4. /\ effective'[at] = request[q].chosen
      /\ \A n \in Products : n # at => effective'[n] = effective[n]
      /\ effective' \in [Products -> EffectiveRows]
  BY <1>1, <1>2, <1>3
<1>5. \A n \in Products : QuotesARule(rules, effective'[n], n)
  BY <1>2, <1>4
<1>6. /\ request'[q] = [request[q] EXCEPT !.stage = "resolve", !.at = at + 1, !.chosen = NoRow]
      /\ \A o \in PricingRequests : o # q => request'[o] = request[o]
  BY <1>1, <1>2
<1>7. /\ request'[q] \in RequestRows /\ request'[q].stage = "resolve" /\ request'[q].found = {}
      /\ request'[q].payload = request[q].payload /\ request'[q].at = at + 1
      /\ (request'[q].overlapped <=> request[q].overlapped)
  <2> DEFINE r == request[q]
             k == at + 1
  <2>1. k \in Nat \ {0} /\ NoRow \in EffectiveRows
    BY <1>2, IdleRequestIs
  <2> HIDE DEF k
  <2>2. r = [stage |-> r.stage, payload |-> r.payload, found |-> r.found, at |-> r.at,
             chosen |-> r.chosen, overlapped |-> r.overlapped]
    BY <1>2 DEF RequestRows
  <2>3. r.payload \in Payloads \cup {None} /\ r.found \in SUBSET [id : Nat, row : RuleRows] /\ r.overlapped \in BOOLEAN
    BY <1>2 DEF RequestRows
  <2>4. request'[q] = [stage |-> "resolve", payload |-> r.payload, found |-> r.found, at |-> k,
                       chosen |-> NoRow, overlapped |-> r.overlapped]
    BY <1>6, <2>2 DEF k
  <2> HIDE DEF r
  <2>5. request'[q] \in RequestRows
    BY <2>1, <2>3, <2>4 DEF RequestRows, PricingStages
  <2> QED BY <1>3, <2>4, <2>5 DEF r, k
<1>8. request' \in [PricingRequests -> RequestRows]
  BY <1>1, <1>2, <1>6, <1>7
<1> DEFINE s == ScopeOf(request[q].payload)
<1>9. ~request[q].overlapped =>
        /\ ~Deactivates(request[q].payload) => \A i, j \in ActiveIn(s) : i = j
        /\ \A n \in Products : effective[n] = IF n < at THEN Expected(rules, n) ELSE NoRow
        /\ request[q].chosen = Expected(rules, at)
  BY <1>1, <1>2 DEF AloneIsInEffect
<1>10. ~request[q].overlapped =>
         \A n \in Products : effective'[n] = IF n < at + 1 THEN Expected(rules, n) ELSE NoRow
  <2> SUFFICES ASSUME ~request[q].overlapped, NEW n \in Products
               PROVE  effective'[n] = IF n < at + 1 THEN Expected(rules, n) ELSE NoRow
    OBVIOUS
  <2>1. n \in Nat /\ at \in Nat
    BY <1>2, PricingConstants DEF Products
  <2>2. n < at + 1 <=> n < at \/ n = at
    BY <2>1
  <2>3. n = at => ~(n < at)
    BY <2>1
  <2> HIDE DEF at
  <2> QED BY <1>4, <1>9, <2>2, <2>3
<1>11. AloneIsInEffect(q)'
  BY <1>1, <1>7, <1>9, <1>10 DEF AloneIsInEffect, ActiveIn
<1>12. InProgress(q) /\ InProgress(q)'
  BY <1>1, <1>7 DEF InProgress
<1> QED BY <1>1, <1>4, <1>5, <1>6, <1>7, <1>8, <1>11, <1>12, RecomputationMoves

LEMMA FinishRequestKeepsInv ==
  ASSUME PricingInv, NEW q \in PricingRequests, FinishRequest(q)
  PROVE  PricingInv'
<1>1. /\ request[q].stage = "resolve" /\ request[q].at \notin Products
      /\ rules' = rules /\ effective' = effective /\ last' = q
      /\ request' = [request EXCEPT ![q].stage = "done"]
  BY DEF FinishRequest
<1>2. /\ request \in [PricingRequests -> RequestRows] /\ request[q] \in RequestRows
      /\ FoundRulesStay(q) /\ AloneIsInEffect(q)
      /\ effective \in [Products -> EffectiveRows]
      /\ \A n \in Products : QuotesARule(rules, effective[n], n)
  BY InvFacts
<1>3. request[q].found = {}
  BY <1>1, <1>2 DEF FoundRulesStay
<1>4. /\ request'[q] = [request[q] EXCEPT !.stage = "done"]
      /\ \A o \in PricingRequests : o # q => request'[o] = request[o]
  BY <1>1, <1>2
<1>5. /\ request'[q] \in RequestRows /\ request'[q].stage = "done" /\ request'[q].found = {}
      /\ request'[q].payload = request[q].payload /\ request'[q].at = request[q].at
      /\ (request'[q].overlapped <=> request[q].overlapped)
  BY <1>2, <1>3, <1>4 DEF RequestRows, PricingStages
<1>6. request' \in [PricingRequests -> RequestRows]
  BY <1>1, <1>2, <1>4, <1>5
<1> DEFINE s == ScopeOf(request[q].payload)
<1>7. ~request[q].overlapped =>
        /\ ~Deactivates(request[q].payload) => \A i, j \in ActiveIn(s) : i = j
        /\ \A n \in Products : effective[n] = IF n < request[q].at THEN Expected(rules, n) ELSE NoRow
  BY <1>1, <1>2 DEF AloneIsInEffect
<1>8. AloneIsInEffect(q)'
  BY <1>1, <1>5, <1>7 DEF AloneIsInEffect, ActiveIn
<1>9. InProgress(q)
  BY <1>1 DEF InProgress
<1> QED BY <1>1, <1>2, <1>4, <1>5, <1>6, <1>8, <1>9, RecomputationMoves

LEMMA RequestFailsKeepsInv ==
  ASSUME PricingInv, NEW q \in PricingRequests, RequestFails(q)
  PROVE  PricingInv'
<1> DEFINE row == [IdleRequest EXCEPT !.stage = "failed", !.overlapped = request[q].overlapped]
<1>1. /\ InProgress(q) /\ rules' = rules /\ effective' = effective /\ last' = q
      /\ request' = [request EXCEPT ![q] = row]
  BY DEF RequestFails
<1>2. /\ request \in [PricingRequests -> RequestRows] /\ request[q] \in RequestRows
      /\ effective \in [Products -> EffectiveRows]
      /\ \A n \in Products : QuotesARule(rules, effective[n], n)
  BY InvFacts
<1>3. request[q].overlapped \in BOOLEAN
  BY <1>2 DEF RequestRows
<1>4. row \in RequestRows /\ row.stage = "failed" /\ row.found = {} /\ (row.overlapped <=> request[q].overlapped)
  BY <1>3, IdleRequestIs DEF RequestRows, PricingStages
<1> HIDE DEF row
<1>5. /\ request'[q] = row /\ request' \in [PricingRequests -> RequestRows]
      /\ \A o \in PricingRequests : o # q => request'[o] = request[o]
  BY <1>1, <1>2, <1>4
<1>6. AloneIsInEffect(q)'
  BY <1>4, <1>5 DEF AloneIsInEffect, Settled
<1> QED BY <1>1, <1>2, <1>4, <1>5, <1>6, RecomputationMoves

LEMMA NextPricingInv == PricingInv /\ [PricingNext]_pricingVars => PricingInv'
<1> SUFFICES ASSUME PricingInv, [PricingNext]_pricingVars PROVE PricingInv'
  OBVIOUS
<1>1. CASE UNCHANGED pricingVars
  BY <1>1 DEF pricingVars, PricingInv, PricingTypes, FoundRulesStay, RowsQuoteRules, QuotesARule,
              OverlappedRequestsAreMarked, NoRaceNoDuplicates, AloneIsInEffect, InProgress, Settled,
              ActiveIn, UniqueIn
<1>2. ASSUME NEW q \in PricingRequests, NEW p \in Payloads,
             RejectRequest(q, p) \/ BeginUpsert(q, p) \/ BeginDeactivate(q, p)
      PROVE  PricingInv'
  BY <1>2, RejectKeepsInv, BeginUpsertKeepsInv, BeginDeactivateKeepsInv
<1>3. ASSUME NEW q \in PricingRequests, WriteRule(q) \/ DropDuplicate(q)
      PROVE  PricingInv'
  BY <1>3, WriteRuleKeepsInv, DropDuplicateKeepsInv
<1>4. ASSUME NEW q \in PricingRequests,
             ClearEffective(q) \/ ResolveProduct(q) \/ StoreEffective(q)
      PROVE  PricingInv'
  BY <1>4, ClearEffectiveKeepsInv, ResolveProductKeepsInv, StoreEffectiveKeepsInv
<1>5. ASSUME NEW q \in PricingRequests, FinishRequest(q) \/ RequestFails(q)
      PROVE  PricingInv'
  BY <1>5, FinishRequestKeepsInv, RequestFailsKeepsInv
<1> QED BY <1>1, <1>2, <1>3, <1>4, <1>5 DEF PricingNext

LEMMA PricingInvNeedsARace == PricingInv => DuplicatesNeedARace
<1> SUFFICES ASSUME PricingInv PROVE DuplicatesNeedARace
  OBVIOUS
<1>0. rules \in Seq(RuleRows)
  BY DEF PricingInv, PricingTypes
<1>1. ASSUME \A q \in PricingRequests : ~request[q].overlapped, NEW i \in DOMAIN rules, rules[i].active
      PROVE  ActiveIn(rules[i].scope) = {i}
  <2>1. UniqueIn(rules)
    BY <1>1 DEF PricingInv, NoRaceNoDuplicates
  <2> QED BY <1>1, <2>1 DEF UniqueIn, ActiveIn, ListByScope
<1>2. ASSUME NEW q \in PricingRequests, Settled(q), ~Deactivates(request[q].payload)
      PROVE  LET s == ScopeOf(request[q].payload)
             IN /\ Cardinality(ActiveIn(s)) <= 1
                /\ (s = GlobalScope /\ ActiveIn(s) # {}) => ShownDefault \in ActiveIn(s)
  <2> DEFINE s == ScopeOf(request[q].payload)
  <2> SUFFICES /\ Cardinality(ActiveIn(s)) <= 1
               /\ (s = GlobalScope /\ ActiveIn(s) # {}) => ShownDefault \in ActiveIn(s)
    OBVIOUS
  <2>1. \A i, j \in ActiveIn(s) : i = j
    BY <1>2 DEF PricingInv, AloneIsInEffect, Settled
  <2>2. ActiveIn(s) \subseteq DOMAIN rules
    BY DEF ActiveIn, ListByScope
  <2> HIDE DEF s
  <2>3. CASE ActiveIn(s) = {}
    BY <2>3, FS_EmptySet
  <2>4. CASE ActiveIn(s) # {}
    <3>1. PICK i \in ActiveIn(s) : TRUE
      BY <2>4
    <3>2. ActiveIn(s) = {i} /\ i \in Nat
      BY <1>0, <2>1, <2>2, <3>1, RuleIdsAreFinite
    <3>3. Cardinality(ActiveIn(s)) = 1
      BY <3>2, FS_Singleton
    <3>4. ASSUME s = GlobalScope PROVE ShownDefault \in ActiveIn(s)
      <4>1. ShownDefault = Min({i})
        BY <3>2, <3>4 DEF ShownDefault, ActiveIn
      <4>2. Min({i}) = i
        BY <3>2 DEF Min
      <4> QED BY <3>2, <4>1, <4>2
    <3> QED BY <3>3, <3>4
  <2> QED BY <2>3, <2>4
<1> QED BY <1>1, <1>2 DEF DuplicatesNeedARace

-----------------------------------------------------------------------------
\* What a reader of the tables may count on: the inductive invariant.
THEOREM PricingInvHolds == PricingSpec => []PricingInv
<1>1. PricingInit => PricingInv
  BY InitPricingInv
<1>2. PricingInv /\ [PricingNext]_pricingVars => PricingInv'
  BY NextPricingInv
<1> QED BY <1>1, <1>2, PTL DEF PricingSpec

\* Once a request that ran alone has answered with success, every product
\* carries the terms of an applicable rule of the highest precedence, or
\* nothing when none applies (recalculateEffectiveConstraints, Resolver.Resolve).
THEOREM RequestsAloneAreInEffect == PricingSpec => []LastRequestIsInEffect
<1>1. PricingInv => LastRequestIsInEffect
  BY PricingInvIsInEffect
<1> QED BY <1>1, PricingInvHolds, PTL

\* Two active rules of one scope need requests that overlapped, and the next
\* upsert of the scope that runs alone leaves one (upsertRuleByScope).
THEOREM DuplicatesComeFromRaces == PricingSpec => []DuplicatesNeedARace
<1>1. PricingInv => DuplicatesNeedARace
  BY PricingInvNeedsARace
<1> QED BY <1>1, PricingInvHolds, PTL

\* However requests interleave or fail, an effective row names an existing rule
\* that covers its product: no statement moves a rule to another scope.
THEOREM EffectiveRulesCover == PricingSpec => []EffectiveRuleCovers
<1>1. PricingInv => EffectiveRuleCovers
  BY PricingInvCovers
<1> QED BY <1>1, PricingInvHolds, PTL

-----------------------------------------------------------------------------
(* The fact context and the confidence of a reply. *)

\* The context tells of every failed call, of the cut, and of there being no facts.
LEMMA AssembledContextTells ==
  ASSUME NEW a, a.results \in ExecutePlan(a.plan), NEW left \in Sanitized(a.plan, a.results),
         NEW tooLarge \in BOOLEAN,
         a.context = WithReason(a.plan, Assemble(a.plan, a.results, left, tooLarge))
  PROVE  ContextTells(a)
<1> DEFINE c == Assemble(a.plan, a.results, left, tooLarge)
           called == DOMAIN a.plan.calls
<1>1. DOMAIN a.results = called
  BY DEF ExecutePlan
<1>s. \A i \in called : left[i] \subseteq a.results[i].rows
  BY <1>1 DEF Sanitized, Left
<1>2. /\ a.context.ids = c.ids /\ a.context.failed = c.failed
      /\ a.context.truncated = c.truncated /\ c.limitations \subseteq a.context.limitations
  <2>1. c = [intent |-> c.intent, facts |-> c.facts, ids |-> c.ids, failed |-> c.failed,
             truncated |-> c.truncated, limitations |-> c.limitations]
    BY DEF Assemble
  <2> HIDE DEF c
  <2>2. a.context = c \/ a.context = [c EXCEPT !.limitations = @ \cup {"unsupported"}]
    BY DEF WithReason, c
  <2> QED BY <2>1, <2>2
<1>3. c.ids \subseteq UNION {a.results[i].rows : i \in DOMAIN a.results}
  <2>1. \A i \in called : References(a.plan.calls[i], left[i]) \subseteq a.results[i].rows
    BY <1>s DEF References
  <2>2. c.ids = UNION {References(a.plan.calls[i], left[i]) : i \in called}
    BY DEF Assemble
  <2> QED BY <1>1, <2>1, <2>2
<1>t. c.failed \in BOOLEAN /\ c.truncated \in BOOLEAN
  BY DEF Assemble
<1>4. \A i \in called : ~a.results[i].ok => c.failed /\ "failed" \in c.limitations
  BY DEF Assemble
<1>5. c.truncated => "truncated" \in c.limitations
  BY DEF Assemble
<1>6. \/ "no factual data" \in c.limitations
      \/ \E i \in called : FilesAFact(a.plan.calls[i], a.results[i].ok, left[i])
  BY DEF Assemble
<1>7. \A i \in called : FilesAFact(a.plan.calls[i], a.results[i].ok, left[i]) =>
        a.results[i].rows # {} \/ Registry[a.plan.calls[i].tool].files # "rows"
  BY <1>s DEF FilesAFact
<1> HIDE DEF c
<1> QED BY <1>1, <1>2, <1>3, <1>t, <1>4, <1>5, <1>6, <1>7 DEF ContextTells

\* Whatever the model claims, more than low confidence excludes these three limitations.
LEMMA MoreThanLow ==
  ASSUME NEW reply, NEW context, reply.confidence \in 1 .. 3, FinalConfidence(reply, context) > 1,
         context.failed \in BOOLEAN, context.truncated \in BOOLEAN
  PROVE  /\ "no factual data" \notin context.limitations
         /\ ~(context.failed /\ "failed" \in context.limitations)
         /\ ~(context.truncated /\ "truncated" \in context.limitations)
<1> DEFINE reflected == Lowered(reply.confidence, context.limitations # {} /\ ~reply.limits)
           critical == Lowered(reflected, context.limitations \cap CriticalLimitations # {})
           cut == Lowered(critical, context.truncated)
<1>1. reflected \in 1 .. 3
  BY DEF Lowered, Downgraded
<1>2. critical \in 1 .. 3 /\ (context.limitations \cap CriticalLimitations # {} => critical <= 2)
  BY <1>1 DEF Lowered, Downgraded
<1>3. cut \in 1 .. 3 /\ cut <= critical /\ (context.truncated /\ critical <= 2 => cut = 1)
  BY <1>2 DEF Lowered, Downgraded
<1>4. FinalConfidence(reply, context) =
        IF "no factual data" \in context.limitations THEN 1 ELSE Lowered(cut, context.failed)
  BY DEF FinalConfidence
<1>5. "failed" \in context.limitations \/ "truncated" \in context.limitations => critical <= 2
  BY <1>2 DEF CriticalLimitations
<1> HIDE DEF cut, critical, reflected
<1>6. "no factual data" \notin context.limitations
  <2>1. ~(1 > 1)
    OBVIOUS
  <2> QED BY <1>4, <2>1
<1>7. Lowered(cut, context.failed) > 1
  BY <1>4, <1>6
<1>8. cut > 1 /\ (context.failed => cut > 2)
  <2>1. CASE context.failed
    <3>1. Lowered(cut, context.failed) = IF cut > 1 THEN cut - 1 ELSE cut
      BY <2>1 DEF Lowered, Downgraded
    <3> QED BY <1>3, <1>7, <3>1
  <2>2. CASE ~context.failed
    BY <1>7, <2>2 DEF Lowered
  <2> QED BY <2>1, <2>2
<1>9. context.failed => "failed" \notin context.limitations
  BY <1>2, <1>3, <1>5, <1>8
<1>10. context.truncated => "truncated" \notin context.limitations
  BY <1>2, <1>3, <1>5, <1>8
<1> QED BY <1>6, <1>9, <1>10

\* The validator lets through what cites the ids of its context.
LEMMA ValidReplyIsGrounded ==
  ASSUME NEW a, ContextTells(a), a.reply \in Replies, ReplyIsValid(a.reply, a.context)
  PROVE  ReplyIsGrounded(a)
  BY ChatConstants DEF ReplyIsGrounded, ReplyIsValid

\* Both predicates read these fields of the handler's record only.
LEMMA SameContext ==
  ASSUME NEW a, NEW b, b.plan = a.plan, b.results = a.results, b.context = a.context, ContextTells(a)
  PROVE  ContextTells(b)
  BY DEF ContextTells

LEMMA SameReply ==
  ASSUME NEW a, NEW b, b.plan = a.plan, b.results = a.results, b.context = a.context, b.reply = a.reply,
         ReplyIsGrounded(a)
  PROVE  ReplyIsGrounded(b)
  BY SameContext DEF ReplyIsGrounded

-----------------------------------------------------------------------------
(* One question moves, the others and their messages are left alone. *)

LEMMA QuestionRow ==
  ASSUME ChatTypes, NEW q \in Questions
  PROVE  ask[q] = [stage |-> ask[q].stage, chat |-> ask[q].chat, plan |-> ask[q].plan,
                   results |-> ask[q].results, context |-> ask[q].context, reply |-> ask[q].reply,
                   lost |-> ask[q].lost, late |-> ask[q].late]
  BY DEF ChatTypes

LEMMA OneQuestionMoves ==
  ASSUME ChatInv, NEW q \in Questions,
         ask' = [p \in Questions |-> ask'[p]], \A p \in Questions : p # q => ask'[p] = ask[p],
         ask'[q] = [stage |-> ask'[q].stage, chat |-> ask'[q].chat, plan |-> ask'[q].plan,
                    results |-> ask'[q].results, context |-> ask'[q].context, reply |-> ask'[q].reply,
                    lost |-> ask'[q].lost, late |-> ask'[q].late],
         ask'[q].stage \in AskStages, ask'[q].lost \in BOOLEAN, ask'[q].late \in BOOLEAN,
         trace' \in [Questions -> {"none", "running", "completed", "failed"}],
         \A p \in Questions : p # q => trace'[p] = trace[p],
         DOMAIN chat' = Chats, message \subseteq message', \A m \in message' : m \in message \/ m.of = q,
         MessagesAreTheirQuestions', RowsFollowStage(q)'
  PROVE  ChatInv'
<1>1. \A p \in Questions : p # q => (Asked(p)' <=> Asked(p)) /\ (Answered(p)' <=> Answered(p))
  BY DEF Asked, Answered
<1>2. ASSUME NEW p \in Questions, p # q
      PROVE  RowsFollowStage(p)'
  <2>1. /\ ask'[p] = ask[p] /\ trace'[p] = trace[p]
        /\ Asked(p)' <=> Asked(p)
        /\ Answered(p)' <=> Answered(p)
    BY <1>1, <1>2
  <2>2. RowsFollowStage(p)
    BY DEF ChatInv
  <2>3. /\ ContextTells(ask[p])' <=> ContextTells(ask[p])
        /\ ReplyIsGrounded(ask[p])' <=> ReplyIsGrounded(ask[p])
    BY <2>1 DEF ContextTells, ReplyIsGrounded
  <2> QED BY <2>1, <2>2, <2>3 DEF RowsFollowStage, UnderWay
<1>3. \A p \in Questions : RowsFollowStage(p)'
  BY <1>2
<1>4. ChatTypes'
  <2>1. \A p \in Questions :
          /\ ask'[p] = [stage |-> ask'[p].stage, chat |-> ask'[p].chat, plan |-> ask'[p].plan,
                        results |-> ask'[p].results, context |-> ask'[p].context, reply |-> ask'[p].reply,
                        lost |-> ask'[p].lost, late |-> ask'[p].late]
          /\ ask'[p].stage \in AskStages /\ ask'[p].lost \in BOOLEAN /\ ask'[p].late \in BOOLEAN
    <3> SUFFICES ASSUME NEW p \in Questions, p # q
                 PROVE  /\ ask'[p] = [stage |-> ask'[p].stage, chat |-> ask'[p].chat, plan |-> ask'[p].plan,
                             results |-> ask'[p].results, context |-> ask'[p].context, reply |-> ask'[p].reply,
                             lost |-> ask'[p].lost, late |-> ask'[p].late]
                        /\ ask'[p].stage \in AskStages /\ ask'[p].lost \in BOOLEAN /\ ask'[p].late \in BOOLEAN
      OBVIOUS
    <3>1. ask'[p] = ask[p]
      OBVIOUS
    <3> QED BY <3>1, QuestionRow DEF ChatInv, ChatTypes
  <2> QED BY <2>1 DEF ChatTypes
<1> QED BY <1>3, <1>4 DEF ChatInv

\* The messages of a question stay its own as long as what they show is not changed.
LEMMA MessagesStay ==
  ASSUME ChatInv, NEW q \in Questions, message' = message,
         \A p \in Questions : p # q => ask'[p] = ask[p],
         ask'[q].chat = ask[q].chat \/ ~(Asked(q) \/ Answered(q)),
         (ask'[q].reply = ask[q].reply /\ ask'[q].context = ask[q].context) \/ ~Answered(q)
  PROVE  /\ MessagesAreTheirQuestions'
         /\ Asked(q)' <=> Asked(q)
         /\ Answered(q)' <=> Answered(q)
<1>1. /\ Asked(q)' <=> Asked(q)
      /\ Answered(q)' <=> Answered(q)
  BY DEF Asked, Answered
<1>2. ASSUME NEW m \in message
      PROVE  /\ m.of \in Questions
             /\ \/ m = QuestionMessage(m.of)'
                \/ m = AnswerOf(m.of)'
  <2>1. /\ m.of \in Questions
        /\ \/ m = QuestionMessage(m.of)
           \/ m = AnswerOf(m.of)
    BY DEF ChatInv, MessagesAreTheirQuestions
  <2>2. CASE m.of # q
    <3>1. ask'[m.of] = ask[m.of]
      BY <2>1, <2>2
    <3> QED BY <2>1, <3>1 DEF QuestionMessage, AnswerOf, AnswerMessage
  <2>3. CASE m.of = q /\ m = QuestionMessage(m.of)
    <3>1. Asked(q)
      BY <2>3 DEF Asked, QuestionMessage
    <3> QED BY <2>1, <2>3, <3>1 DEF QuestionMessage
  <2>4. CASE m.of = q /\ m = AnswerOf(m.of)
    <3>1. Answered(q)
      BY <2>4 DEF Answered, AnswerOf, AnswerMessage
    <3> QED BY <2>1, <2>4, <3>1 DEF AnswerOf, AnswerMessage
  <2> QED BY <2>1, <2>2, <2>3, <2>4
<1> QED BY <1>1, <1>2 DEF MessagesAreTheirQuestions

\* The two together, for the steps that store no message.
LEMMA NoMessageStored ==
  ASSUME ChatInv, NEW q \in Questions, message' = message,
         ask' = [p \in Questions |-> ask'[p]], \A p \in Questions : p # q => ask'[p] = ask[p],
         ask'[q] = [stage |-> ask'[q].stage, chat |-> ask'[q].chat, plan |-> ask'[q].plan,
                    results |-> ask'[q].results, context |-> ask'[q].context, reply |-> ask'[q].reply,
                    lost |-> ask'[q].lost, late |-> ask'[q].late],
         ask'[q].stage \in AskStages, ask'[q].lost \in BOOLEAN, ask'[q].late \in BOOLEAN,
         trace' \in [Questions -> {"none", "running", "completed", "failed"}],
         \A p \in Questions : p # q => trace'[p] = trace[p], DOMAIN chat' = Chats,
         ask'[q].chat = ask[q].chat \/ ~(Asked(q) \/ Answered(q)),
         (ask'[q].reply = ask[q].reply /\ ask'[q].context = ask[q].context) \/ ~Answered(q),
         /\ Asked(q)' <=> Asked(q)
         /\ Answered(q)' <=> Answered(q)
         => RowsFollowStage(q)'
  PROVE  ChatInv'
<1>1. /\ MessagesAreTheirQuestions'
      /\ Asked(q)' <=> Asked(q)
      /\ Answered(q)' <=> Answered(q)
  BY MessagesStay
<1> QED BY <1>1, OneQuestionMoves

LEMMA InitChatInv == ChatInit => ChatInv
<1> SUFFICES ASSUME ChatInit PROVE ChatInv
  OBVIOUS
<1>1. ChatTypes
  BY DEF ChatInit, ChatTypes, NewAsk, AskStages
<1>2. ASSUME NEW q \in Questions
      PROVE  RowsFollowStage(q)
  <2>1. ask[q].stage = "idle" /\ trace[q] = "none" /\ ~Asked(q) /\ ~Answered(q)
    BY DEF ChatInit, NewAsk, Asked, Answered
  <2> QED BY <2>1 DEF RowsFollowStage, UnderWay
<1>3. MessagesAreTheirQuestions
  BY DEF ChatInit, MessagesAreTheirQuestions
<1> QED BY <1>1, <1>2, <1>3 DEF ChatInv

-----------------------------------------------------------------------------
(* The steps of a question. *)

LEMMA ResolveInv ==
  ASSUME ChatInv, NEW q \in Questions, NEW s \in Chats, ResolveSession(q, s) \/ RefuseQuestion(q, s)
  PROVE  ChatInv'
<1> DEFINE late == chat[s] = "archived"
<1>1. /\ ChatTypes /\ RowsFollowStage(q) /\ ask[q].stage = "idle" /\ trace' = trace /\ message' = message
      /\ DOMAIN chat' = Chats
  BY DEF ChatInv, ChatTypes, ResolveSession, RefuseQuestion, CreateChat
<1>2. trace[q] = "none" /\ ~Asked(q) /\ ~Answered(q)
  BY <1>1 DEF RowsFollowStage
<1>3. CASE ResolveSession(q, s)
  <2>0. ask' = [ask EXCEPT ![q].stage = "question", ![q].chat = s, ![q].late = late]
    BY <1>3 DEF ResolveSession
  <2>f. late = FALSE
    BY <1>3 DEF ResolveSession, CreateChat
  <2> HIDE DEF late
  <2>1. ask' = [ask EXCEPT ![q].stage = "question", ![q].chat = s, ![q].late = FALSE]
    BY <2>0, <2>f
  <2>2. /\ ask' = [p \in Questions |-> ask'[p]] /\ \A p \in Questions : p # q => ask'[p] = ask[p]
        /\ ask'[q] = [ask[q] EXCEPT !.stage = "question", !.chat = s, !.late = FALSE]
        /\ ask[q].lost \in BOOLEAN
    BY <1>1, <2>1 DEF ChatTypes
  <2>r. ask[q] = [stage |-> ask[q].stage, chat |-> ask[q].chat, plan |-> ask[q].plan,
                  results |-> ask[q].results, context |-> ask[q].context, reply |-> ask[q].reply,
                  lost |-> ask[q].lost, late |-> ask[q].late]
    BY <1>1, QuestionRow
  <2>3. ask'[q] = [stage |-> "question", chat |-> s, plan |-> ask[q].plan,
                   results |-> ask[q].results, context |-> ask[q].context, reply |-> ask[q].reply,
                   lost |-> ask[q].lost, late |-> FALSE]
    BY <2>2, <2>r
  <2>4. ask'[q].stage = "question" /\ ~ask'[q].late
    BY <2>3
  <2>5. ask'[q].lost \in BOOLEAN /\ ask'[q].late \in BOOLEAN
    BY <2>2, <2>3
  <2>6. ask'[q] = [stage |-> ask'[q].stage, chat |-> ask'[q].chat, plan |-> ask'[q].plan,
                   results |-> ask'[q].results, context |-> ask'[q].context, reply |-> ask'[q].reply,
                   lost |-> ask'[q].lost, late |-> ask'[q].late]
    BY <2>3
  <2>7. ~Asked(q)' /\ ~Answered(q)' => RowsFollowStage(q)'
    BY <1>1, <1>2, <2>4 DEF RowsFollowStage
  <2> QED BY <1>1, <1>2, <2>2, <2>4, <2>5, <2>6, <2>7, NoMessageStored DEF AskStages, ChatTypes
<1>4. CASE RefuseQuestion(q, s)
  <2>1. /\ ask' = [ask EXCEPT ![q].stage = "over", ![q].late = late]
        /\ late \in BOOLEAN
    BY <1>4 DEF RefuseQuestion
  <2> HIDE DEF late
  <2>2. /\ ask' = [p \in Questions |-> ask'[p]] /\ \A p \in Questions : p # q => ask'[p] = ask[p]
        /\ ask'[q] = [ask[q] EXCEPT !.stage = "over", !.late = late]
        /\ ask[q].lost \in BOOLEAN
    BY <1>1, <2>1 DEF ChatTypes
  <2>r. ask[q] = [stage |-> ask[q].stage, chat |-> ask[q].chat, plan |-> ask[q].plan,
                  results |-> ask[q].results, context |-> ask[q].context, reply |-> ask[q].reply,
                  lost |-> ask[q].lost, late |-> ask[q].late]
    BY <1>1, QuestionRow
  <2>3. ask'[q] = [stage |-> "over", chat |-> ask[q].chat, plan |-> ask[q].plan,
                   results |-> ask[q].results, context |-> ask[q].context, reply |-> ask[q].reply,
                   lost |-> ask[q].lost, late |-> late]
    BY <2>2, <2>r
  <2>4. ask'[q].stage = "over"
    BY <2>3
  <2>5. ask'[q].lost \in BOOLEAN /\ ask'[q].late \in BOOLEAN
    BY <2>1, <2>2, <2>3
  <2>6. ask'[q] = [stage |-> ask'[q].stage, chat |-> ask'[q].chat, plan |-> ask'[q].plan,
                   results |-> ask'[q].results, context |-> ask'[q].context, reply |-> ask'[q].reply,
                   lost |-> ask'[q].lost, late |-> ask'[q].late]
    BY <2>3
  <2>7. ~Asked(q)' /\ ~Answered(q)' => RowsFollowStage(q)'
    BY <1>1, <1>2, <2>4 DEF RowsFollowStage, UnderWay
  <2> QED BY <1>1, <1>2, <2>2, <2>4, <2>5, <2>6, <2>7, NoMessageStored DEF AskStages, ChatTypes
<1> QED BY <1>3, <1>4

\* What Goes does to the record of its question.
LEMMA Going ==
  ASSUME ChatTypes, NEW q \in Questions, NEW stage, Goes(q, stage)
  PROVE  /\ ask' = [p \in Questions |-> ask'[p]] /\ \A p \in Questions : p # q => ask'[p] = ask[p]
         /\ ask'[q] = [stage |-> stage, chat |-> ask[q].chat, plan |-> ask[q].plan,
                       results |-> ask[q].results, context |-> ask[q].context, reply |-> ask[q].reply,
                       lost |-> ask[q].lost, late |-> ask[q].late]
         /\ ask[q].lost \in BOOLEAN /\ ask[q].late \in BOOLEAN
<1>1. /\ ask' = [p \in Questions |-> ask'[p]] /\ \A p \in Questions : p # q => ask'[p] = ask[p]
      /\ ask'[q] = [ask[q] EXCEPT !.stage = stage]
      /\ ask[q].lost \in BOOLEAN /\ ask[q].late \in BOOLEAN
  BY DEF ChatTypes, Goes
<1>2. ask[q] = [stage |-> ask[q].stage, chat |-> ask[q].chat, plan |-> ask[q].plan,
                results |-> ask[q].results, context |-> ask[q].context, reply |-> ask[q].reply,
                lost |-> ask[q].lost, late |-> ask[q].late]
  BY QuestionRow
<1> QED BY <1>1, <1>2

LEMMA StoreQuestionInv ==
  ASSUME ChatInv, NEW q \in Questions, StoreQuestion(q)
  PROVE  ChatInv'
<1>1. /\ ChatTypes /\ RowsFollowStage(q) /\ ask[q].stage = "question" /\ MessagesAreTheirQuestions
      /\ chat' = chat /\ trace' = trace /\ message' = message \cup {QuestionMessage(q)} /\ Goes(q, "trace")
  BY DEF ChatInv, StoreQuestion, CreateMessage
<1>2. trace[q] = "none" /\ ~Asked(q) /\ ~Answered(q) /\ ~ask[q].late
  BY <1>1 DEF RowsFollowStage, UnderWay
<1>3. /\ ask' = [p \in Questions |-> ask'[p]] /\ \A p \in Questions : p # q => ask'[p] = ask[p]
      /\ ask'[q] = [stage |-> "trace", chat |-> ask[q].chat, plan |-> ask[q].plan,
                    results |-> ask[q].results, context |-> ask[q].context, reply |-> ask[q].reply,
                    lost |-> ask[q].lost, late |-> ask[q].late]
      /\ ask[q].lost \in BOOLEAN /\ ask[q].late \in BOOLEAN
  BY <1>1, Going
<1> DEFINE m0 == QuestionMessage(q)
<1>4. /\ m0.of = q /\ m0.role = "user"
      /\ \A p \in Questions : QuestionMessage(p)' = QuestionMessage(p)
      /\ \A p \in Questions : AnswerOf(p)' = AnswerOf(p)
  BY <1>3 DEF QuestionMessage, AnswerOf, AnswerMessage
<1> HIDE DEF m0
<1>5. message' = message \cup {m0}
  BY <1>1 DEF m0
<1>6. MessagesAreTheirQuestions'
  BY <1>1, <1>4, <1>5 DEF MessagesAreTheirQuestions, m0
<1>7. Asked(q)' /\ ~Answered(q)'
  BY <1>2, <1>4, <1>5 DEF Asked, Answered
<1>8. RowsFollowStage(q)'
  BY <1>1, <1>2, <1>3, <1>7 DEF RowsFollowStage
<1> QED BY <1>1, <1>3, <1>4, <1>5, <1>6, <1>8, OneQuestionMoves DEF ChatTypes, AskStages

LEMMA OpenTraceInv ==
  ASSUME ChatInv, NEW q \in Questions, OpenTrace(q)
  PROVE  ChatInv'
<1>1. /\ ChatTypes /\ RowsFollowStage(q) /\ ask[q].stage = "trace" /\ message' = message
      /\ chat' = chat /\ CreateTrace(q) /\ Goes(q, "plan")
  BY DEF ChatInv, OpenTrace
<1>2. Asked(q) /\ ~Answered(q) /\ ~ask[q].late
  BY <1>1 DEF RowsFollowStage, UnderWay
<1>3. /\ ask' = [p \in Questions |-> ask'[p]] /\ \A p \in Questions : p # q => ask'[p] = ask[p]
      /\ ask'[q] = [stage |-> "plan", chat |-> ask[q].chat, plan |-> ask[q].plan,
                    results |-> ask[q].results, context |-> ask[q].context, reply |-> ask[q].reply,
                    lost |-> ask[q].lost, late |-> ask[q].late]
      /\ ask[q].lost \in BOOLEAN /\ ask[q].late \in BOOLEAN
  BY <1>1, Going
<1>4. /\ trace' \in [Questions -> {"none", "running", "completed", "failed"}]
      /\ trace'[q] = "running" /\ \A p \in Questions : p # q => trace'[p] = trace[p]
  BY <1>1 DEF ChatTypes, CreateTrace
<1>5. Asked(q)' /\ ~Answered(q)' => RowsFollowStage(q)'
  BY <1>2, <1>3, <1>4 DEF RowsFollowStage
<1> QED BY <1>1, <1>2, <1>3, <1>4, <1>5, NoMessageStored DEF ChatTypes, AskStages

LEMMA PlanToolsInv ==
  ASSUME ChatInv, NEW q \in Questions, NEW plan \in Plans, PlanTools(q, plan)
  PROVE  ChatInv'
<1> DEFINE valid == ValidatedPlan(plan)
<1>1. /\ ChatTypes /\ RowsFollowStage(q) /\ ask[q].stage = "plan" /\ message' = message
      /\ chat' = chat /\ trace' = trace
      /\ ask' = [ask EXCEPT ![q].stage = "tools", ![q].plan = valid]
  BY DEF ChatInv, PlanTools
<1>2. Asked(q) /\ ~Answered(q) /\ ~ask[q].late /\ trace[q] = "running"
  BY <1>1 DEF RowsFollowStage, UnderWay
<1> HIDE DEF valid
<1>3. /\ ask' = [p \in Questions |-> ask'[p]] /\ \A p \in Questions : p # q => ask'[p] = ask[p]
      /\ ask'[q] = [ask[q] EXCEPT !.stage = "tools", !.plan = valid]
      /\ ask[q].lost \in BOOLEAN /\ ask[q].late \in BOOLEAN
  BY <1>1 DEF ChatTypes
<1>r. ask[q] = [stage |-> ask[q].stage, chat |-> ask[q].chat, plan |-> ask[q].plan,
                results |-> ask[q].results, context |-> ask[q].context, reply |-> ask[q].reply,
                lost |-> ask[q].lost, late |-> ask[q].late]
  BY <1>1, QuestionRow
<1>4. /\ ask'[q] = [stage |-> "tools", chat |-> ask[q].chat, plan |-> valid,
                    results |-> ask[q].results, context |-> ask[q].context, reply |-> ask[q].reply,
                    lost |-> ask[q].lost, late |-> ask[q].late]
      /\ ask[q].lost \in BOOLEAN /\ ask[q].late \in BOOLEAN
  BY <1>3, <1>r
<1>5. Asked(q)' /\ ~Answered(q)' => RowsFollowStage(q)'
  BY <1>1, <1>2, <1>4 DEF RowsFollowStage
<1> QED BY <1>1, <1>2, <1>3, <1>4, <1>5, NoMessageStored DEF ChatTypes, AskStages

LEMMA RunToolsInv ==
  ASSUME ChatInv, NEW q \in Questions, NEW results, NEW left, NEW tooLarge \in BOOLEAN,
         RunTools(q, results, left, tooLarge)
  PROVE  ChatInv'
<1> DEFINE context == WithReason(ask[q].plan, Assemble(ask[q].plan, results, left, tooLarge))
<1>1. /\ ChatTypes /\ RowsFollowStage(q) /\ ask[q].stage = "tools" /\ message' = message
      /\ chat' = chat /\ trace' = trace
      /\ results \in ExecutePlan(ask[q].plan) /\ left \in Sanitized(ask[q].plan, results)
      /\ ask' = [ask EXCEPT ![q].stage = "answer", ![q].results = results, ![q].context = context]
  BY DEF ChatInv, RunTools
<1>2. Asked(q) /\ ~Answered(q) /\ ~ask[q].late /\ trace[q] = "running"
  BY <1>1 DEF RowsFollowStage, UnderWay
<1>a. ASSUME NEW a, a.results = results, a.plan = ask[q].plan, a.context = context
      PROVE  ContextTells(a)
  BY <1>1, <1>a, AssembledContextTells
<1> HIDE DEF context
<1>3. /\ ask' = [p \in Questions |-> ask'[p]] /\ \A p \in Questions : p # q => ask'[p] = ask[p]
      /\ ask'[q] = [ask[q] EXCEPT !.stage = "answer", !.results = results, !.context = context]
      /\ ask[q].lost \in BOOLEAN /\ ask[q].late \in BOOLEAN
  BY <1>1 DEF ChatTypes
<1>r. ask[q] = [stage |-> ask[q].stage, chat |-> ask[q].chat, plan |-> ask[q].plan,
                results |-> ask[q].results, context |-> ask[q].context, reply |-> ask[q].reply,
                lost |-> ask[q].lost, late |-> ask[q].late]
  BY <1>1, QuestionRow
<1>4. ask'[q] = [stage |-> "answer", chat |-> ask[q].chat, plan |-> ask[q].plan,
                 results |-> results, context |-> context, reply |-> ask[q].reply,
                 lost |-> ask[q].lost, late |-> ask[q].late]
  BY <1>3, <1>r
<1>5. ContextTells(ask'[q])
  BY <1>4, <1>a
<1>6. Asked(q)' /\ ~Answered(q)' => RowsFollowStage(q)'
  BY <1>1, <1>2, <1>4, <1>5 DEF RowsFollowStage
<1>7. ask'[q] = [stage |-> ask'[q].stage, chat |-> ask'[q].chat, plan |-> ask'[q].plan,
                 results |-> ask'[q].results, context |-> ask'[q].context, reply |-> ask'[q].reply,
                 lost |-> ask'[q].lost, late |-> ask'[q].late]
  BY <1>4
<1>8. ask'[q].stage \in AskStages /\ ask'[q].lost \in BOOLEAN /\ ask'[q].late \in BOOLEAN /\ ask'[q].chat = ask[q].chat
  BY <1>3, <1>4 DEF AskStages
<1> QED BY <1>1, <1>2, <1>3, <1>6, <1>7, <1>8, NoMessageStored DEF ChatTypes

LEMMA GenerateAnswerInv ==
  ASSUME ChatInv, NEW q \in Questions, NEW reply \in Replies, GenerateAnswer(q, reply)
  PROVE  ChatInv'
<1>1. /\ ChatTypes /\ RowsFollowStage(q) /\ ask[q].stage = "answer" /\ message' = message
      /\ chat' = chat /\ trace' = trace /\ ReplyIsValid(reply, ask[q].context)
      /\ ask' = [ask EXCEPT ![q].stage = "store", ![q].reply = reply]
  BY DEF ChatInv, GenerateAnswer
<1>2. Asked(q) /\ ~Answered(q) /\ ~ask[q].late /\ trace[q] = "running" /\ ContextTells(ask[q])
  BY <1>1 DEF RowsFollowStage, UnderWay
<1>3. /\ ask' = [p \in Questions |-> ask'[p]] /\ \A p \in Questions : p # q => ask'[p] = ask[p]
      /\ ask'[q] = [ask[q] EXCEPT !.stage = "store", !.reply = reply]
      /\ ask[q].lost \in BOOLEAN /\ ask[q].late \in BOOLEAN
  BY <1>1 DEF ChatTypes
<1>r. ask[q] = [stage |-> ask[q].stage, chat |-> ask[q].chat, plan |-> ask[q].plan,
                results |-> ask[q].results, context |-> ask[q].context, reply |-> ask[q].reply,
                lost |-> ask[q].lost, late |-> ask[q].late]
  BY <1>1, QuestionRow
<1>4. /\ ask'[q] = [stage |-> "store", chat |-> ask[q].chat, plan |-> ask[q].plan,
                    results |-> ask[q].results, context |-> ask[q].context, reply |-> reply,
                    lost |-> ask[q].lost, late |-> ask[q].late]
      /\ ask[q].lost \in BOOLEAN /\ ask[q].late \in BOOLEAN
  BY <1>3, <1>r
<1>5. ContextTells(ask'[q])
  BY <1>2, <1>4, SameContext
<1>6. ReplyIsGrounded(ask'[q])
  BY <1>1, <1>4, <1>5, ValidReplyIsGrounded
<1>7. Asked(q)' /\ ~Answered(q)' => RowsFollowStage(q)'
  BY <1>1, <1>2, <1>4, <1>5, <1>6 DEF RowsFollowStage
<1> QED BY <1>1, <1>2, <1>3, <1>4, <1>7, NoMessageStored DEF ChatTypes, AskStages

LEMMA StoreAnswerInv ==
  ASSUME ChatInv, NEW q \in Questions, StoreAnswer(q)
  PROVE  ChatInv'
<1>1. /\ ChatTypes /\ RowsFollowStage(q) /\ ask[q].stage = "store" /\ MessagesAreTheirQuestions
      /\ chat' = chat /\ trace' = trace /\ message' = message \cup {AnswerOf(q)} /\ Goes(q, "complete")
  BY DEF ChatInv, StoreAnswer, CreateMessage, AnswerOf
<1>2. trace[q] = "running" /\ Asked(q) /\ ~Answered(q) /\ ~ask[q].late /\ ReplyIsGrounded(ask[q])
  BY <1>1 DEF RowsFollowStage, UnderWay
<1>3. /\ ask' = [p \in Questions |-> ask'[p]] /\ \A p \in Questions : p # q => ask'[p] = ask[p]
      /\ ask'[q] = [stage |-> "complete", chat |-> ask[q].chat, plan |-> ask[q].plan,
                    results |-> ask[q].results, context |-> ask[q].context, reply |-> ask[q].reply,
                    lost |-> ask[q].lost, late |-> ask[q].late]
      /\ ask[q].lost \in BOOLEAN /\ ask[q].late \in BOOLEAN
  BY <1>1, Going
<1> DEFINE m0 == AnswerOf(q)
<1>4. /\ m0.of = q /\ m0.role = "assistant"
      /\ \A p \in Questions : QuestionMessage(p)' = QuestionMessage(p)
      /\ \A p \in Questions : AnswerOf(p)' = AnswerOf(p)
  BY <1>3 DEF QuestionMessage, AnswerOf, AnswerMessage
<1> HIDE DEF m0
<1>5. message' = message \cup {m0}
  BY <1>1 DEF m0
<1>6. MessagesAreTheirQuestions'
  BY <1>1, <1>4, <1>5 DEF MessagesAreTheirQuestions, m0
<1>7. Asked(q)' /\ Answered(q)'
  BY <1>2, <1>4, <1>5 DEF Asked, Answered
<1>8. ReplyIsGrounded(ask'[q])
  BY <1>2, <1>3, SameReply
<1>9. RowsFollowStage(q)'
  BY <1>1, <1>2, <1>3, <1>7, <1>8 DEF RowsFollowStage
<1> QED BY <1>1, <1>3, <1>4, <1>5, <1>6, <1>9, OneQuestionMoves DEF ChatTypes, AskStages

\* The three ways in which a question is over.
LEMMA EndsInv ==
  ASSUME ChatInv, NEW q \in Questions, CloseTrace(q) \/ AskFails(q) \/ AskIsLost(q)
  PROVE  ChatInv'
<1>1. /\ ChatTypes /\ RowsFollowStage(q) /\ message' = message /\ chat' = chat /\ UnderWay(q)
  BY DEF ChatInv, CloseTrace, AskFails, AskIsLost, UnderWay
<1>2. ~ask[q].late /\ (Answered(q) => ReplyIsGrounded(ask[q]))
  BY <1>1 DEF RowsFollowStage
<1>3. CASE CloseTrace(q) \/ AskFails(q)
  <2>1. Goes(q, "over") /\ trace' = [trace EXCEPT ![q] = IF CloseTrace(q) THEN "completed" ELSE "failed"]
    <3>1. CASE CloseTrace(q)
      BY <3>1 DEF CloseTrace, CompleteTrace
    <3>2. CASE ~CloseTrace(q)
      BY <1>3, <3>2 DEF AskFails, FailTrace
    <3> QED BY <3>1, <3>2
  <2>2. /\ ask' = [p \in Questions |-> ask'[p]] /\ \A p \in Questions : p # q => ask'[p] = ask[p]
        /\ ask'[q] = [stage |-> "over", chat |-> ask[q].chat, plan |-> ask[q].plan,
                      results |-> ask[q].results, context |-> ask[q].context, reply |-> ask[q].reply,
                      lost |-> ask[q].lost, late |-> ask[q].late]
        /\ ask[q].lost \in BOOLEAN /\ ask[q].late \in BOOLEAN
    BY <1>1, <2>1, Going
  <2>3. /\ trace' \in [Questions -> {"none", "running", "completed", "failed"}]
        /\ \A p \in Questions : p # q => trace'[p] = trace[p]
        /\ CloseTrace(q) => trace'[q] = "completed"
        /\ ~CloseTrace(q) => trace'[q] = "failed"
    BY <1>1, <2>1 DEF ChatTypes
  <2>4. /\ CloseTrace(q) => Asked(q) /\ Answered(q)
        /\ ~CloseTrace(q) => Asked(q) /\ ~Answered(q)
    BY <1>1, <1>3 DEF CloseTrace, AskFails, RowsFollowStage
  <2>5. ReplyIsGrounded(ask[q]) => ReplyIsGrounded(ask'[q])
    BY <2>2, SameReply
  <2>s. ask'[q].stage = "over" /\ trace'[q] \in {"completed", "failed"}
    BY <2>2, <2>3
  <2>6. /\ Asked(q)' <=> Asked(q)
        /\ Answered(q)' <=> Answered(q)
        => RowsFollowStage(q)'
    BY <1>2, <2>s, <2>3, <2>4, <2>5 DEF RowsFollowStage, UnderWay
  <2>7. /\ ask'[q].stage \in AskStages /\ ask'[q].lost \in BOOLEAN /\ ask'[q].late \in BOOLEAN
        /\ ask'[q].chat = ask[q].chat /\ ask'[q].reply = ask[q].reply /\ ask'[q].context = ask[q].context
    BY <2>2 DEF AskStages
  <2>8. ask'[q] = [stage |-> ask'[q].stage, chat |-> ask'[q].chat, plan |-> ask'[q].plan,
                   results |-> ask'[q].results, context |-> ask'[q].context, reply |-> ask'[q].reply,
                   lost |-> ask'[q].lost, late |-> ask'[q].late]
    BY <2>2
  <2>9. DOMAIN chat' = Chats
    BY <1>1 DEF ChatTypes
  <2> QED BY <1>1, <2>2, <2>3, <2>6, <2>7, <2>8, <2>9, NoMessageStored
<1>4. CASE AskIsLost(q)
  <2>1. ask' = [ask EXCEPT ![q].stage = "over", ![q].lost = TRUE] /\ trace' = trace
    BY <1>4 DEF AskIsLost
  <2>2. /\ ask' = [p \in Questions |-> ask'[p]] /\ \A p \in Questions : p # q => ask'[p] = ask[p]
        /\ ask'[q] = [ask[q] EXCEPT !.stage = "over", !.lost = TRUE]
        /\ ask[q].late \in BOOLEAN
    BY <1>1, <2>1 DEF ChatTypes
  <2>r. ask[q] = [stage |-> ask[q].stage, chat |-> ask[q].chat, plan |-> ask[q].plan,
                  results |-> ask[q].results, context |-> ask[q].context, reply |-> ask[q].reply,
                  lost |-> ask[q].lost, late |-> ask[q].late]
    BY <1>1, QuestionRow
  <2>3. /\ ask'[q] = [stage |-> "over", chat |-> ask[q].chat, plan |-> ask[q].plan,
                      results |-> ask[q].results, context |-> ask[q].context, reply |-> ask[q].reply,
                      lost |-> TRUE, late |-> ask[q].late]
        /\ ask[q].late \in BOOLEAN
    BY <2>2, <2>r
  <2>4. ReplyIsGrounded(ask[q]) => ReplyIsGrounded(ask'[q])
    BY <2>3, SameReply
  <2>5. trace[q] \in {"none", "running"}
    BY <1>1 DEF RowsFollowStage, UnderWay, ChatTypes, AskStages
  <2>6. /\ Asked(q)' <=> Asked(q)
        /\ Answered(q)' <=> Answered(q)
        => RowsFollowStage(q)'
    BY <1>2, <2>1, <2>3, <2>4, <2>5 DEF RowsFollowStage, UnderWay
  <2> QED BY <1>1, <2>1, <2>2, <2>3, <2>6, NoMessageStored DEF ChatTypes, AskStages
<1> QED BY <1>3, <1>4

\* Archiving and feedback touch neither a question nor a message.
LEMMA OthersKeepChatInv ==
  ASSUME ChatInv, DOMAIN chat' = Chats, UNCHANGED <<message, trace, ask>>
  PROVE  ChatInv'
<1>1. ChatTypes'
  BY DEF ChatInv, ChatTypes
<1>2. ASSUME NEW q \in Questions
      PROVE  RowsFollowStage(q)'
  <2>1. /\ Asked(q)' <=> Asked(q)
        /\ Answered(q)' <=> Answered(q)
    BY DEF Asked, Answered
  <2>2. RowsFollowStage(q)
    BY DEF ChatInv
  <2>3. ask'[q] = ask[q] /\ trace'[q] = trace[q]
    OBVIOUS
  <2>4. /\ ContextTells(ask[q])' <=> ContextTells(ask[q])
        /\ ReplyIsGrounded(ask[q])' <=> ReplyIsGrounded(ask[q])
    BY <2>3 DEF ContextTells, ReplyIsGrounded
  <2> QED BY <2>1, <2>2, <2>3, <2>4 DEF RowsFollowStage, UnderWay
<1>3. MessagesAreTheirQuestions'
  BY DEF ChatInv, MessagesAreTheirQuestions, QuestionMessage, AnswerOf, AnswerMessage
<1> QED BY <1>1, <1>2, <1>3 DEF ChatInv
-----------------------------------------------------------------------------
LEMMA NextChatInv == ChatInv /\ [ChatNext]_chatVars => ChatInv'
<1> SUFFICES ASSUME ChatInv, [ChatNext]_chatVars PROVE ChatInv'
  OBVIOUS
<1>d. DOMAIN chat = Chats
  BY DEF ChatInv, ChatTypes
<1>1. ASSUME NEW q \in Questions, AskNext(q) PROVE ChatInv'
  <2>1. ASSUME NEW s \in Chats, ResolveSession(q, s) \/ RefuseQuestion(q, s) PROVE ChatInv'
    BY <2>1, ResolveInv
  <2>2. CASE StoreQuestion(q)
    BY <2>2, StoreQuestionInv
  <2>3. CASE OpenTrace(q)
    BY <2>3, OpenTraceInv
  <2>4. ASSUME NEW plan \in Plans, PlanTools(q, plan) PROVE ChatInv'
    BY <2>4, PlanToolsInv
  <2>5. ASSUME NEW results \in ExecutePlan(ask[q].plan), NEW tooLarge \in BOOLEAN,
               NEW left \in Sanitized(ask[q].plan, results), RunTools(q, results, left, tooLarge)
        PROVE  ChatInv'
    BY <2>5, RunToolsInv
  <2>6. ASSUME NEW reply \in Replies, GenerateAnswer(q, reply) PROVE ChatInv'
    BY <2>6, GenerateAnswerInv
  <2>7. CASE StoreAnswer(q)
    BY <2>7, StoreAnswerInv
  <2>8. CASE CloseTrace(q) \/ AskFails(q) \/ AskIsLost(q)
    BY <2>8, EndsInv
  <2> QED BY <1>1, <2>1, <2>2, <2>3, <2>4, <2>5, <2>6, <2>7, <2>8 DEF AskNext
<1>2. ASSUME NEW s \in Chats, ArchiveSession(s) PROVE ChatInv'
  BY <1>d, <1>2, OthersKeepChatInv DEF ArchiveSession
<1>3. CASE ArchiveStaleActiveChatSessions
  <2>1. DOMAIN chat' = Chats /\ UNCHANGED <<message, trace, ask>>
    BY <1>3 DEF ArchiveStaleActiveChatSessions
  <2> QED BY <2>1, OthersKeepChatInv
<1>4. ASSUME NEW m \in message, AddFeedback(m) PROVE ChatInv'
  BY <1>d, <1>4, OthersKeepChatInv DEF AddFeedback
<1>5. CASE UNCHANGED chatVars
  BY <1>d, <1>5, OthersKeepChatInv DEF chatVars
<1> QED BY <1>1, <1>2, <1>3, <1>4, <1>5 DEF ChatNext

(* The rows of every question agree with how far its handler has come, and
   every message is the question or the answer its handler stored. *)
THEOREM ChatInvHolds == ChatSpec => []ChatInv
<1> QED BY InitChatInv, NextChatInv, PTL DEF ChatSpec

-----------------------------------------------------------------------------
(* What follows of it. *)

\* The only message of a role that a question may have.
LEMMA TheMessageOfARole ==
  ASSUME ChatInv, NEW m \in message
  PROVE  /\ m.of \in Questions /\ m.chat = ask[m.of].chat
         /\ m.role = "user" => m = QuestionMessage(m.of)
         /\ m.role = "assistant" => m = AnswerOf(m.of)
<1>1. m.of \in Questions /\ (m = QuestionMessage(m.of) \/ m = AnswerOf(m.of))
  BY DEF ChatInv, MessagesAreTheirQuestions
<1>2. CASE m = QuestionMessage(m.of)
  <2>1. m.role = "user" /\ m.chat = ask[m.of].chat
    BY <1>2 DEF QuestionMessage
  <2> QED BY <1>1, <1>2, <2>1
<1>3. CASE m = AnswerOf(m.of)
  <2>1. m.role = "assistant" /\ m.chat = ask[m.of].chat
    BY <1>3 DEF AnswerOf, AnswerMessage
  <2> QED BY <1>1, <1>3, <2>1
<1> QED BY <1>1, <1>2, <1>3

\* A set with at most one value in it.
LEMMA AtMostOne ==
  ASSUME NEW S, NEW x, \A y \in S : y = x
  PROVE  Cardinality(S) <= 1
<1>1. IsFiniteSet({x}) /\ Cardinality({x}) = 1 /\ S \subseteq {x}
  BY FS_Singleton
<1> QED BY <1>1, FS_Subset

LEMMA ChatInvTells == ChatInv => TraceTellsTheOutcome
<1> SUFFICES ASSUME ChatInv, NEW q \in Questions
             PROVE  LET Of(role) == {m \in message : m.of = q /\ m.role = role}
                    IN /\ trace[q] = "completed" =>
                            \E u \in Of("user"), a \in Of("assistant") : u.chat = a.chat
                       /\ trace[q] = "failed" => Of("user") # {} /\ Of("assistant") = {}
                       /\ trace[q] = "running" /\ ~UnderWay(q) => ask[q].lost
                       /\ Of("assistant") # {} /\ ~UnderWay(q) /\ ~ask[q].lost => trace[q] = "completed"
                       /\ Cardinality(Of("user")) <= 1 /\ Cardinality(Of("assistant")) <= 1
  BY DEF TraceTellsTheOutcome
<1> DEFINE Of(role) == {m \in message : m.of = q /\ m.role = role}
<1>1. RowsFollowStage(q) /\ ask[q].stage \in AskStages
  BY DEF ChatInv, ChatTypes
<1>2. /\ Asked(q) <=> Of("user") # {}
      /\ Answered(q) <=> Of("assistant") # {}
  BY DEF Asked, Answered
<1>3. /\ trace[q] = "completed" => Asked(q) /\ Answered(q)
      /\ trace[q] = "failed" => Asked(q) /\ ~Answered(q)
      /\ trace[q] = "running" /\ ~UnderWay(q) => ask[q].lost
      /\ Answered(q) /\ ~UnderWay(q) /\ ~ask[q].lost => trace[q] = "completed"
  BY <1>1 DEF RowsFollowStage, AskStages, UnderWay
<1>4. ASSUME trace[q] = "completed"
      PROVE  \E u \in Of("user"), a \in Of("assistant") : u.chat = a.chat
  <2>1. PICK u \in Of("user") : TRUE
    BY <1>2, <1>3, <1>4
  <2>2. PICK a \in Of("assistant") : TRUE
    BY <1>2, <1>3, <1>4
  <2>3. u.chat = ask[q].chat /\ a.chat = ask[q].chat
    BY <2>1, <2>2, TheMessageOfARole
  <2> QED BY <2>3
<1>5. Cardinality(Of("user")) <= 1
  <2>1. \A m \in Of("user") : m = QuestionMessage(q)
    BY TheMessageOfARole
  <2> HIDE DEF Of
  <2> QED BY <2>1, AtMostOne
<1>6. Cardinality(Of("assistant")) <= 1
  <2>1. \A m \in Of("assistant") : m = AnswerOf(q)
    BY TheMessageOfARole
  <2> HIDE DEF Of
  <2> QED BY <2>1, AtMostOne
<1> HIDE DEF Of
<1>7. /\ trace[q] = "failed" => Of("user") # {} /\ Of("assistant") = {}
      /\ Of("assistant") # {} /\ ~UnderWay(q) /\ ~ask[q].lost => trace[q] = "completed"
  BY <1>2, <1>3
<1> QED BY <1>3, <1>4, <1>5, <1>6, <1>7 DEF Of

(* A trace tells what became of its question, whatever fails and whichever
   sessions are archived meanwhile. *)
THEOREM TracesTellTheOutcome == ChatSpec => []TraceTellsTheOutcome
<1> QED BY ChatInvHolds, ChatInvTells, PTL

LEMMA ChatInvEarns == ChatInv => ConfidenceIsEarned
<1> SUFFICES ASSUME ChatInv, NEW m \in message, m.role = "assistant"
             PROVE  LET plan == ask[m.of].plan
                        results == ask[m.of].results
                    IN /\ m.cites \subseteq UNION {results[i].rows : i \in DOMAIN results}
                       /\ m.confidence > 1 =>
                             /\ \A i \in DOMAIN results : results[i].ok
                             /\ ~ask[m.of].context.truncated
                             /\ \E i \in DOMAIN results :
                                   results[i].rows # {} \/ Registry[plan.calls[i].tool].files # "rows"
  BY DEF ConfidenceIsEarned
<1> DEFINE a == ask[m.of]
<1>1. m.of \in Questions /\ m = AnswerOf(m.of)
  BY TheMessageOfARole
<1>2. ReplyIsGrounded(a)
  <2>1. Answered(m.of) /\ RowsFollowStage(m.of)
    BY <1>1 DEF Answered, ChatInv
  <2> QED BY <2>1 DEF RowsFollowStage
<1>3. m.cites = a.reply.cites /\ m.confidence = FinalConfidence(a.reply, a.context)
  BY <1>1 DEF AnswerOf, AnswerMessage
<1> HIDE DEF a
<1>4. ContextTells(a) /\ a.reply.confidence \in 1 .. 3 /\ a.reply.cites \subseteq a.context.ids
  BY <1>2 DEF ReplyIsGrounded
<1>5. m.cites \subseteq UNION {a.results[i].rows : i \in DOMAIN a.results}
  BY <1>3, <1>4 DEF ContextTells
<1>6. ASSUME m.confidence > 1
      PROVE  /\ \A i \in DOMAIN a.results : a.results[i].ok
             /\ ~a.context.truncated
             /\ \E i \in DOMAIN a.results :
                   a.results[i].rows # {} \/ Registry[a.plan.calls[i].tool].files # "rows"
  <2>1. a.context.failed \in BOOLEAN /\ a.context.truncated \in BOOLEAN /\ FinalConfidence(a.reply, a.context) > 1
    BY <1>3, <1>4, <1>6 DEF ContextTells
  <2>2. /\ "no factual data" \notin a.context.limitations
        /\ ~(a.context.failed /\ "failed" \in a.context.limitations)
        /\ ~(a.context.truncated /\ "truncated" \in a.context.limitations)
    BY <1>4, <2>1, MoreThanLow
  <2> QED BY <1>4, <2>2 DEF ContextTells
<1> QED BY <1>5, <1>6 DEF a

(* Whatever the model replies, a stored answer cites only what its tools
   returned and claims no more than its context supports. *)
THEOREM ConfidenceIsAlwaysEarned == ChatSpec => []ConfidenceIsEarned
<1> QED BY ChatInvHolds, ChatInvEarns, PTL

LEMMA ArchivedStaysArchived ==
  ASSUME ChatInv, [ChatNext]_chatVars
  PROVE  /\ \A s \in Chats : chat[s] = "archived" => chat'[s] = "archived"
         /\ message \subseteq message'
         /\ \A m \in message' \ message : ~ask[m.of].late
<1>d. DOMAIN chat = Chats
  BY DEF ChatInv, ChatTypes
<1>1. ASSUME NEW s \in Chats, chat[s] = "archived" PROVE chat'[s] = "archived"
  <2>1. ASSUME NEW q \in Questions, AskNext(q) PROVE chat'[s] = "archived"
    <3>1. chat' = chat \/ \E r \in Chats : chat[r] = "none" /\ chat' = [chat EXCEPT ![r] = "active"]
      BY <2>1 DEF AskNext, ResolveSession, RefuseQuestion, CreateChat, StoreQuestion, OpenTrace, PlanTools,
                  RunTools, GenerateAnswer, StoreAnswer, CloseTrace, AskFails, AskIsLost
    <3> QED BY <1>d, <1>1, <3>1
  <2>2. ASSUME NEW r \in Chats, ArchiveSession(r) PROVE chat'[s] = "archived"
    BY <1>d, <1>1, <2>2 DEF ArchiveSession
  <2>3. CASE ArchiveStaleActiveChatSessions
    BY <1>1, <2>3 DEF ArchiveStaleActiveChatSessions
  <2>4. ASSUME NEW m \in message, AddFeedback(m) PROVE chat'[s] = "archived"
    BY <1>1, <2>4 DEF AddFeedback
  <2>5. CASE UNCHANGED chatVars
    BY <1>1, <2>5 DEF chatVars
  <2> QED BY <2>1, <2>2, <2>3, <2>4, <2>5 DEF ChatNext
<1>2. \/ message' = message
      \/ \E q \in Questions : /\ ask[q].stage \in {"question", "store"}
                              /\ message' = message \cup {QuestionMessage(q)} \/ message' = message \cup {AnswerOf(q)}
  <2>1. ASSUME NEW q \in Questions, AskNext(q)
        PROVE  \/ message' = message
               \/ ask[q].stage = "question" /\ message' = message \cup {QuestionMessage(q)}
               \/ ask[q].stage = "store" /\ message' = message \cup {AnswerOf(q)}
    BY <2>1 DEF AskNext, ResolveSession, RefuseQuestion, StoreQuestion, OpenTrace, PlanTools, RunTools,
                GenerateAnswer, StoreAnswer, CloseTrace, AskFails, AskIsLost, CreateMessage, AnswerOf
  <2>2. ASSUME NEW r \in Chats, ArchiveSession(r) PROVE message' = message
    BY <2>2 DEF ArchiveSession
  <2>3. CASE ArchiveStaleActiveChatSessions
    BY <2>3 DEF ArchiveStaleActiveChatSessions
  <2>4. ASSUME NEW m \in message, AddFeedback(m) PROVE message' = message
    BY <2>4 DEF AddFeedback
  <2> QED BY <2>1, <2>2, <2>3, <2>4 DEF ChatNext, chatVars
<1>3. ASSUME NEW m \in message' \ message PROVE ~ask[m.of].late
  <2>1. PICK q \in Questions : /\ ask[q].stage \in {"question", "store"}
                               /\ m = QuestionMessage(q) \/ m = AnswerOf(q)
    BY <1>2, <1>3
  <2>2. m.of = q
    BY <2>1 DEF QuestionMessage, AnswerOf, AnswerMessage
  <2>3. RowsFollowStage(q)
    BY DEF ChatInv
  <2> QED BY <2>1, <2>2, <2>3 DEF RowsFollowStage, UnderWay
<1>4. message \subseteq message'
  BY <1>2
<1> QED BY <1>1, <1>3, <1>4

(* Archiving is final, messages are only added, and only questions that found
   their session active add any. *)
THEOREM ArchivingIsFinal == ChatSpec => ArchiveIsFinal
<1>1. ChatInv /\ [ChatNext]_chatVars =>
        [ /\ \A s \in Chats : chat[s] = "archived" => chat'[s] = "archived"
          /\ message \subseteq message'
          /\ \A m \in message' \ message : ~ask[m.of].late ]_chatVars
  BY ArchivedStaysArchived
<1> QED BY <1>1, ChatInvHolds, PTL DEF ChatSpec, ArchiveIsFinal
=============================================================================
