---------------------------- MODULE PricingRules ----------------------------
(***************************************************************************)
(* The pricing constraints of one seller account                           *)
(* (src/backend/internal/pricingconstraints and its HTTP handlers).  A     *)
(* request writes one rule (global default, category rule or SKU override) *)
(* or deactivates one, then recomputes the effective constraint of every   *)
(* product.  Both are sequences of statements without a transaction, so    *)
(* two requests may interleave and each may fail half way.                 *)
(*                                                                         *)
(* The terms of a rule (prices, margin, cost) are the request that wrote   *)
(* them; what the formulas do to the numbers is left out.  The look-ups of *)
(* one Resolve are one step.                                               *)
(***************************************************************************)
EXTENDS Naturals, Sequences, FiniteSets, SequencesExt, FiniteSetsExt

CONSTANTS Catalogue,        \* the account's products, in the order they are listed
          Payloads,         \* the request bodies clients send
          PricingRequests,  \* bound: the requests, numbered in the order they start
          LegacyRules,      \* the rules stored before the first request
          None              \* an absent (NULL) value

ASSUME PricingConstants ==
    /\ PricingRequests \subseteq Nat \ {0}
    /\ None \notin {"sku", "product_id", "offer_id", "category_id"}
    /\ Len(Catalogue) \in Nat
    /\ \A n \in 1 .. Len(Catalogue) : Catalogue[n].id # None     \* the primary key
    /\ \A p \in Payloads :
          /\ p.active \in BOOLEAN
          /\ p.op \in {"global", "category", "override", "category_off", "override_off"}

VARIABLES rules,       \* pricing_constraint_rules: the row of id i is rules[i]
          effective,   \* sku_effective_constraints: the row of each product
          request,     \* the handlers in progress
          last         \* ghost: the request that ended last

pricingVars == <<rules, effective, request, last>>

Products == 1 .. Len(Catalogue)
NoRow == [rule |-> 0, type |-> None, terms |-> 0]
IdleRequest == [stage |-> "idle", payload |-> None, found |-> {}, at |-> 1,
                chosen |-> NoRow, overlapped |-> FALSE]

InProgress(q) == request[q].stage \notin {"idle", "done", "failed"}

-----------------------------------------------------------------------------
(* Scopes and requests. *)

Scope(type, kind, id, code) == [type |-> type, kind |-> kind, id |-> id, code |-> code]
GlobalScope == Scope("global_default", None, None, None)

(* PostSKUOverride: the first target that is given names the scope, and the
   offer id, when there is one, is always stored as its code. *)
OverrideScope(p) ==
    CASE p.sku # None -> Scope("sku_override", "sku", p.sku, p.offer)
      [] p.sku = None /\ p.product # None -> Scope("sku_override", "product_id", p.product, p.offer)
      [] OTHER -> Scope("sku_override", "offer_id", None, p.offer)

CategoryScope(p) == Scope("category_rule", "category_id", p.category, p.code)

ScopeOf(p) ==
    CASE p.op = "global" -> GlobalScope
      [] p.op = "category" -> CategoryScope(p)
      [] p.op = "override" -> OverrideScope(p)

Deactivates(p) == p.op \in {"category_off", "override_off"}
DeactivatedType(p) == IF p.op = "category_off" THEN "category_rule" ELSE "sku_override"

(* What a handler and ValidateRuleInput demand before anything is read. *)
Accepts(p) ==
    CASE p.op = "override" -> p.valid /\ {p.sku, p.product, p.offer} # {None}
      [] p.op = "category" -> p.valid /\ p.category # None
      [] OTHER -> p.valid

-----------------------------------------------------------------------------
(* The statements on the rules. *)

(* ORDER BY is_active DESC, updated_at DESC, id DESC *)
Before(rs, i, j) ==
    \/ rs[i].active /\ ~rs[j].active
    \/ /\ rs[i].active = rs[j].active
       /\ rs[i].updated > rs[j].updated \/ (rs[i].updated = rs[j].updated /\ i > j)

\* Mutant: the kind of the target is not compared.
ListByScopeAnyKind(rs, s) ==
    {i \in DOMAIN rs : [rs[i].scope EXCEPT !.kind = s.kind] = s}

(* ListPricingConstraintRulesByScope: NULL matches NULL in every column. *)
ListByScope(rs, s) == {i \in DOMAIN rs : rs[i].scope = s}

FirstOf(rs, ids) == CHOOSE i \in ids : \A j \in ids \ {i} : Before(rs, i, j)

Now(rs) == 1 + Max({0} \cup {rs[i].updated : i \in DOMAIN rs})

RuleRow(s, active, terms, now) == [scope |-> s, active |-> active, updated |-> now, terms |-> terms]

CreateRule(rs, s, active, terms) == Append(rs, RuleRow(s, active, terms, Now(rs)))
UpdateRule(rs, i, s, active, terms) == [rs EXCEPT ![i] = RuleRow(s, active, terms, Now(rs))]

(* DeactivatePricingConstraintRuleByIDAndScope: is_active is not compared. *)
DeactivateRule(rs, i) == [rs EXCEPT ![i].active = FALSE, ![i].updated = Now(rs)]

-----------------------------------------------------------------------------
(* The resolver. *)

FirstActive(rs, s) ==
    LET active == {i \in ListByScope(rs, s) : rs[i].active}
    IN IF active = {} THEN 0 ELSE FirstOf(rs, active)

(* The scope as asked, then the same scope of a row without a target kind. *)
LookupWinning(rs, s) ==
    IF FirstActive(rs, s) # 0 \/ s.kind = None THEN FirstActive(rs, s)
    ELSE FirstActive(rs, [s EXCEPT !.kind = None])

(* The scopes the resolver asks for, by precedence, each with its key. *)
AskedScopes(product) ==
    << [key |-> product.sku, scope |-> Scope("sku_override", "sku", product.sku, None)],
       [key |-> product.id, scope |-> Scope("sku_override", "product_id", product.id, None)],
       [key |-> product.offer, scope |-> Scope("sku_override", "offer_id", None, product.offer)],
       [key |-> product.category, scope |-> Scope("category_rule", "category_id", product.category, None)],
       [key |-> product.id, scope |-> GlobalScope] >>

(* resolveByPrecedence: the id of the winning rule, 0 when there is none; an
   absent key is skipped. *)
Resolve(rs, product) ==
    LET asked == AskedScopes(product)
        hits == {i \in 1 .. 5 : asked[i].key # None /\ LookupWinning(rs, asked[i].scope) # 0}
    IN IF hits = {} THEN 0 ELSE LookupWinning(rs, asked[Min(hits)].scope)

(* buildResolved and ToEffectiveConstraintRecord. *)
Materialized(rs, i) ==
    IF i = 0 THEN NoRow ELSE [rule |-> i, type |-> rs[i].scope.type, terms |-> rs[i].terms]

(* The row a recomputation stores for product n. *)
Expected(rs, n) == IF Catalogue[n].priced THEN Materialized(rs, Resolve(rs, Catalogue[n])) ELSE NoRow

-----------------------------------------------------------------------------
PricingInit ==
    /\ rules \in LegacyRules
    /\ effective = [n \in Products |-> NoRow]
    /\ request = [q \in PricingRequests |-> IdleRequest]
    /\ last = 0

(* A request enters its handler; the ghost marks requests that overlap. *)
Enter(q, fields) ==
    /\ request[q].stage = "idle"
    /\ \A p \in PricingRequests : p < q => request[p].stage # "idle"
    /\ request' = [p \in PricingRequests |->
                     IF p = q THEN [fields EXCEPT !.overlapped = \E o \in PricingRequests : InProgress(o)]
                     ELSE [request[p] EXCEPT !.overlapped = @ \/ InProgress(p)]]

RejectRequest(q, p) ==
    /\ ~Accepts(p)
    /\ Enter(q, [IdleRequest EXCEPT !.stage = "failed"])
    /\ last' = q
    /\ UNCHANGED <<rules, effective>>

(* The first statement of upsertRuleByScope reads the rows of the scope. *)
BeginUpsert(q, p) ==
    /\ Accepts(p) /\ ~Deactivates(p)
    /\ Enter(q, [IdleRequest EXCEPT !.stage = "write", !.payload = p,
                    !.found = {[id |-> i, row |-> rules[i]] : i \in ListByScope(rules, ScopeOf(p))}])
    /\ UNCHANGED <<rules, effective, last>>

(* DeactivateCategoryRuleByID, DeactivateSKUOverrideByID: one guarded update; no row of that id and type is an error. *)
BeginDeactivate(q, p) ==
    /\ Accepts(p) /\ Deactivates(p)
    /\ IF p.rule \in DOMAIN rules /\ rules[p.rule].scope.type = DeactivatedType(p)
       THEN /\ Enter(q, [IdleRequest EXCEPT !.stage = "clear", !.payload = p])
            /\ rules' = DeactivateRule(rules, p.rule)
            /\ UNCHANGED <<effective, last>>
       ELSE /\ Enter(q, [IdleRequest EXCEPT !.stage = "failed"])
            /\ last' = q
            /\ UNCHANGED <<rules, effective>>

FirstFound(found) ==
    CHOOSE x \in found : \A y \in found \ {x} :
        Before([i \in {x.id, y.id} |-> IF i = x.id THEN x.row ELSE y.row], x.id, y.id)

\* Mutant: the other active rows of the scope are left active.
WriteRuleOnly(q) ==
    LET p == request[q].payload
        found == request[q].found
    IN /\ request[q].stage = "write"
       /\ rules' = IF found = {} THEN CreateRule(rules, ScopeOf(p), TRUE, q)
                   ELSE UpdateRule(rules, FirstFound(found).id, ScopeOf(p), p.active, q)
       /\ request' = [request EXCEPT ![q].stage = "duplicates", ![q].found = {}]
       /\ UNCHANGED <<effective, last>>

(* The row that was found first is rewritten; without one a row is created,
   which is active even when the request asked for an inactive rule. *)
WriteRule(q) ==
    LET p == request[q].payload
        found == request[q].found
    IN /\ request[q].stage = "write"
       /\ rules' = IF found = {} THEN CreateRule(rules, ScopeOf(p), TRUE, q)
                   ELSE UpdateRule(rules, FirstFound(found).id, ScopeOf(p), p.active, q)
       /\ request' = [request EXCEPT ![q].stage = "duplicates",
                         ![q].found = IF found = {} THEN {}
                                      ELSE {x \in found \ {FirstFound(found)} : x.row.active}]
       /\ UNCHANGED <<effective, last>>

(* A duplicate is deactivated by writing back the copy that was read. *)
DropDuplicate(q) ==
    /\ request[q].stage = "duplicates"
    /\ \E x \in request[q].found :
         /\ rules' = UpdateRule(rules, x.id, x.row.scope, FALSE, x.row.terms)
         /\ request' = [request EXCEPT ![q].found = @ \ {x}]
    /\ UNCHANGED <<effective, last>>

\* Mutant: the recomputation overwrites rows but deletes none.
KeepEffective(q) ==
    /\ request[q].stage \in {"duplicates", "clear"} /\ request[q].found = {}
    /\ request' = [request EXCEPT ![q].stage = "resolve"]
    /\ UNCHANGED <<rules, effective, last>>

(* The recomputation deletes every effective row of the account. *)
ClearEffective(q) ==
    /\ request[q].stage \in {"duplicates", "clear"} /\ request[q].found = {}
    /\ effective' = [n \in Products |-> NoRow]
    /\ request' = [request EXCEPT ![q].stage = "resolve"]
    /\ UNCHANGED <<rules, last>>

(* One product is resolved; one without a price or a rule is skipped. *)
ResolveProduct(q) ==
    /\ request[q].stage = "resolve" /\ request[q].at \in Products
    /\ LET row == Expected(rules, request[q].at)
       IN request' = IF row = NoRow THEN [request EXCEPT ![q].at = @ + 1]
                     ELSE [request EXCEPT ![q].stage = "store", ![q].chosen = row]
    /\ UNCHANGED <<rules, effective, last>>

StoreEffective(q) ==
    /\ request[q].stage = "store"
    /\ effective' = [effective EXCEPT ![request[q].at] = request[q].chosen]
    /\ request' = [request EXCEPT ![q].stage = "resolve", ![q].at = @ + 1, ![q].chosen = NoRow]
    /\ UNCHANGED <<rules, last>>

FinishRequest(q) ==
    /\ request[q].stage = "resolve" /\ request[q].at \notin Products
    /\ request' = [request EXCEPT ![q].stage = "done"]
    /\ last' = q
    /\ UNCHANGED <<rules, effective>>

(* Any statement fails: the handler answers with an error, nothing is undone. *)
RequestFails(q) ==
    /\ InProgress(q)
    /\ request' = [request EXCEPT ![q] = [IdleRequest EXCEPT !.stage = "failed",
                                            !.overlapped = request[q].overlapped]]
    /\ last' = q
    /\ UNCHANGED <<rules, effective>>

PricingNext ==
    \E q \in PricingRequests :
        \/ \E p \in Payloads : RejectRequest(q, p) \/ BeginUpsert(q, p) \/ BeginDeactivate(q, p)
        \/ WriteRule(q) \/ DropDuplicate(q) \/ ClearEffective(q)
        \/ ResolveProduct(q) \/ StoreEffective(q) \/ FinishRequest(q) \/ RequestFails(q)

PricingSpec == PricingInit /\ [][PricingNext]_pricingVars

-----------------------------------------------------------------------------
Settled(q) ==
    /\ last = q
    /\ request[q].stage = "done" /\ ~request[q].overlapped
    /\ \A o \in PricingRequests : ~InProgress(o)

ActiveIn(s) == {i \in ListByScope(rules, s) : rules[i].active}

(* ListRuleSetsBySellerAccountID walks the rules by id and shows the first
   active global default, or the first one when none is active. *)
ShownDefault ==
    LET globals == ListByScope(rules, GlobalScope)
        active == {i \in globals : rules[i].active}
    IN IF active # {} THEN Min(active) ELSE IF globals # {} THEN Min(globals) ELSE 0

(* An active rule that a product's look-ups reach: the same key, no code next
   to an id, and the kind of the key or, in an old row, none. *)
Applies(i, product) ==
    LET s == rules[i].scope
        Kind(k) == s.kind \in {k, None}
    IN /\ rules[i].active
       /\ \/ s = GlobalScope
          \/ s.type = "category_rule" /\ Kind("category_id") /\ s.id = product.category /\ s.code = None
          \/ /\ s.type = "sku_override" /\ s.id # None /\ s.code = None
             /\ (Kind("sku") /\ s.id = product.sku) \/ (Kind("product_id") /\ s.id = product.id)
          \/ /\ s.type = "sku_override" /\ s.id = None /\ s.code # None
             /\ Kind("offer_id") /\ s.code = product.offer

Precedence == [sku_override |-> 1, category_rule |-> 2, global_default |-> 3]

(* Once a request that ran alone has answered with success, every priced
   product carries the current terms of a rule that applies to it, none that
   applies has a higher precedence, and no other product carries anything,
   whatever earlier overlapping or failed requests left behind. *)
LastRequestIsInEffect ==
    \A q \in PricingRequests : Settled(q) =>
        \A n \in Products :
            LET applicable == IF Catalogue[n].priced
                              THEN {i \in DOMAIN rules : Applies(i, Catalogue[n])} ELSE {}
            IN IF applicable = {} THEN effective[n] = NoRow
               ELSE /\ effective[n].rule \in applicable
                    /\ effective[n] = Materialized(rules, effective[n].rule)
                    /\ \A i \in applicable : Precedence[effective[n].type]
                                               <= Precedence[rules[i].scope.type]

(* Look-up and insert are two statements: a scope gets two active rules only
   when requests overlapped, and the next upsert of the scope that runs alone
   leaves at most one, the one the settings page shows. *)
DuplicatesNeedARace ==
    /\ (\A q \in PricingRequests : ~request[q].overlapped)
          => \A i \in DOMAIN rules : rules[i].active => ActiveIn(rules[i].scope) = {i}
    /\ \A q \in PricingRequests : Settled(q) /\ ~Deactivates(request[q].payload) =>
          LET s == ScopeOf(request[q].payload)
          IN /\ Cardinality(ActiveIn(s)) <= 1
             /\ (s = GlobalScope /\ ActiveIn(s) # {}) => ShownDefault \in ActiveIn(s)

Covers(s, product) ==
    \/ s = GlobalScope
    \/ s.type = "category_rule" /\ s.id = product.category
    \/ s.kind \in {"sku", None} /\ s.id = product.sku /\ s.id # None
    \/ s.kind \in {"product_id", None} /\ s.id = product.id
    \/ s.kind \in {"offer_id", None} /\ s.code = product.offer /\ s.code # None

(* At every moment, also in the middle of overlapping requests, an effective
   row names an existing rule of the type it says, whose scope covers the
   product: no rewriting of a rule moves it under a row that quotes it. *)
EffectiveRuleCovers ==
    \A n \in Products : effective[n] # NoRow =>
        /\ Catalogue[n].priced
        /\ effective[n].rule \in DOMAIN rules
        /\ effective[n].type = rules[effective[n].rule].scope.type
        /\ Covers(rules[effective[n].rule].scope, Catalogue[n])

(* A product that an override was created for, by sku, product id or offer id,
   is constrained by an override (stage-6-pricing-constraints-validation). *)
OverrideWins ==
    \A q \in PricingRequests :
        Settled(q) /\ request[q].payload.op = "override" /\ request[q].payload.active =>
            \A n \in Products :
                Catalogue[n].priced /\ Covers(OverrideScope(request[q].payload), Catalogue[n])
                    => effective[n].type = "sku_override"

-----------------------------------------------------------------------------
(* The inductive invariant behind the first three. *)
RuleTypes == DOMAIN Precedence

(* A rule of a category names one, and there is one global scope. *)
IsScope(s) ==
    /\ s = Scope(s.type, s.kind, s.id, s.code) /\ s.type \in RuleTypes
    /\ s.type = "category_rule" => s.id # None
    /\ s.type = "global_default" => s = GlobalScope

Scopes == {s \in {ScopeOf(p) : p \in {b \in Payloads : Accepts(b) /\ ~Deactivates(b)}}
                   \cup UNION {{rs[i].scope : i \in DOMAIN rs} : rs \in LegacyRules} : IsScope(s)}
RuleRows == [scope : Scopes, active : BOOLEAN, updated : Nat, terms : Nat]
EffectiveRows == [rule : Nat, type : RuleTypes \cup {None}, terms : Nat]

(* Two active rules of one scope are one rule. *)
UniqueIn(rs) ==
    \A i, j \in DOMAIN rs : rs[i].active /\ rs[j].active /\ rs[i].scope = rs[j].scope => i = j

(* The stored rules come from requests that did not overlap. *)
ASSUME LegacyRulesAreRules == \A rs \in LegacyRules : rs \in Seq(RuleRows) /\ UniqueIn(rs)

PricingStages == {"idle", "write", "duplicates", "clear", "resolve", "store", "done", "failed"}
RequestRows ==
    [stage : PricingStages, payload : Payloads \cup {None}, found : SUBSET [id : Nat, row : RuleRows],
     at : Nat \ {0}, chosen : EffectiveRows, overlapped : BOOLEAN]
PricingTypes ==
    /\ rules \in Seq(RuleRows)
    /\ effective \in [Products -> EffectiveRows]
    /\ request \in [PricingRequests -> RequestRows]

(* What a request has read names rules that exist, of the scope they had:
   nothing ever changes the scope of a rule. *)
FoundRulesStay(q) ==
    LET r == request[q]
    IN /\ IsFiniteSet(r.found)
       /\ \A x, y \in r.found : x.id = y.id => x = y
       /\ \A x \in r.found : x.id \in DOMAIN rules /\ rules[x.id].scope = x.row.scope
       /\ r.stage \in {"write", "duplicates"} \/ r.found = {}
       /\ r.stage \in {"idle", "failed"} \/ (r.payload \in Payloads /\ Accepts(r.payload))
       /\ r.stage \in {"write", "duplicates"} => ~Deactivates(r.payload)
       /\ r.stage = "clear" => Deactivates(r.payload)
       /\ r.stage \in {"write", "duplicates", "clear"} => r.at = 1
       /\ r.stage = "write" => \A x \in r.found : x.row.scope = ScopeOf(r.payload)

QuotesARule(rs, row, n) ==
    row # NoRow =>
        /\ Catalogue[n].priced
        /\ row.rule \in DOMAIN rs
        /\ row.type = rs[row.rule].scope.type
        /\ Covers(rs[row.rule].scope, Catalogue[n])

RowsQuoteRules ==
    /\ \A n \in Products : QuotesARule(rules, effective[n], n)
    /\ \A q \in PricingRequests : request[q].stage = "store" =>
          request[q].at \in Products /\ QuotesARule(rules, request[q].chosen, request[q].at)

OverlappedRequestsAreMarked ==
    /\ \A q, o \in PricingRequests :
          q # o /\ InProgress(q) /\ InProgress(o) => request[q].overlapped
    /\ \A q \in PricingRequests : request[q].stage = "idle" => ~request[q].overlapped

NoRaceNoDuplicates ==
    (\A q \in PricingRequests : ~request[q].overlapped) =>
        /\ UniqueIn(rules)
        /\ \A q \in PricingRequests : request[q].stage = "duplicates" => request[q].found = {}

(* How far a request that runs alone, or was the last to run, has come. *)
AloneIsInEffect(q) ==
    LET r == request[q]
        s == ScopeOf(r.payload)
    IN ~r.overlapped =>
       /\ r.stage = "write" => r.found = {[id |-> i, row |-> rules[i]] : i \in ListByScope(rules, s)}
       /\ r.stage = "duplicates" =>
             \A i, j \in ActiveIn(s) : i = j \/ \E x \in r.found : x.id \in {i, j}
       /\ r.stage \in {"resolve", "store"} \/ Settled(q) =>
             /\ ~Deactivates(r.payload) => \A i, j \in ActiveIn(s) : i = j
             /\ \A n \in Products : effective[n] = IF n < r.at THEN Expected(rules, n) ELSE NoRow
       /\ r.stage = "store" => r.chosen = Expected(rules, r.at)
       /\ r.stage = "done" => r.at \notin Products

PricingInv ==
    /\ PricingTypes
    /\ \A q \in PricingRequests : FoundRulesStay(q)
    /\ RowsQuoteRules
    /\ OverlappedRequestsAreMarked
    /\ NoRaceNoDuplicates
    /\ \A q \in PricingRequests : AloneIsInEffect(q)
=============================================================================
