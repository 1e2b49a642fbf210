----------------------------- MODULE MCPricing ------------------------------
(* Two priced products of one category and one without a price; the second
   one's product id is the number that is the first one's sku. *)
EXTENDS PricingRules

MCCatalogue == << [sku |-> 11, id |-> 21, offer |-> 31, category |-> 5, priced |-> TRUE],
                  [sku |-> None, id |-> 11, offer |-> None, category |-> 5, priced |-> TRUE],
                  [sku |-> None, id |-> 23, offer |-> 33, category |-> None, priced |-> FALSE] >>

Body(op) == [op |-> op, sku |-> None, product |-> None, offer |-> None, category |-> None,
             code |-> None, rule |-> 0, active |-> TRUE, valid |-> TRUE]

(* Every kind of request; two targets at once, as the settings form sends them;
   an inactive rule, a body without a target, and a deactivation by id. *)
MCPayloads ==
    { Body("global"), [Body("global") EXCEPT !.active = FALSE],
      [Body("category") EXCEPT !.category = 5],
      [Body("override") EXCEPT !.sku = 11],
      [Body("override") EXCEPT !.sku = 11, !.product = 21, !.offer = 31],
      [Body("override") EXCEPT !.offer = 31],
      Body("override"),
      [Body("category_off") EXCEPT !.rule = 1], [Body("override_off") EXCEPT !.rule = 1] }

MCRequests == 1 .. 3

(* A store without rules, and one with an override from before target kinds. *)
MCLegacyRules ==
    { << >>,
      << RuleRow(Scope("sku_override", None, 11, None), TRUE, 0, 1) >> }

(* Bound: the first two requests may overlap, the third one runs alone. *)
AtMostTwoOverlap ==
    request'[3].stage # "idle" => ~InProgress(1) /\ ~InProgress(2)

Spec == PricingInit /\ [][PricingNext /\ AtMostTwoOverlap]_pricingVars
=============================================================================
