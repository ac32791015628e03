---------------------------- MODULE PriceQuotes ----------------------------
(***************************************************************************)
(* The price of an order: pricing-resolver.service.ts and                  *)
(* calculator.service.ts, which are pure, and the conditions under which   *)
(* quote.service.ts calls them.                                            *)
(*                                                                         *)
(* Decimals are integers of their last place: prices and totals in 1/100,  *)
(* square metres in 1/10000, percentages in 1/100 of a per cent.           *)
(***************************************************************************)
EXTENDS Integers, Functions

CONSTANT NoRule

\* toDecimalPlaces with ROUND_HALF_UP: n / d for n >= 0, a half goes up.
RoundHalfUp(n, d) == (2 * n + d) \div (2 * d)

-----------------------------------------------------------------------------
(* PricingResolverService                                                  *)

\* A rule as PricingRulesAdminService.prepare and pricing_rules_value_check let it be.
IsRule(rule) ==
  \/ rule.type = "FIXED" /\ rule.value \in Nat \ {0}
  \/ rule.type = "PERCENT" /\ rule.value \in Int \ {0} /\ rule.value > -10000

\* Where a rule may hang, the most specific first.  Product and transport rules are
\* different levels, ALL included.
ProductLevels(product, factory) ==
  << <<"PRODUCT", "PRODUCT", product>>, <<"PRODUCT", "FACTORY", factory>>,
     <<"PRODUCT", "ALL">> >>
TransportLevels(route) == << <<"TRANSPORT", "ROUTE", route>>, <<"TRANSPORT", "ALL">> >>

\* pickRule.  A customer's rules are a function on the levels that have one, since the
\* partial indexes leave one rule to a level.
PickRule(rules, levels) ==
  LET hits == {i \in DOMAIN levels : levels[i] \in DOMAIN rules} IN
  IF hits = {} THEN NoRule ELSE rules[levels[CHOOSE i \in hits : \A j \in hits : i <= j]]

MinPrice == 1

PercentPrice(value, base) ==
  LET price == RoundHalfUp(base * (10000 + value), 10000) IN
  IF price < MinPrice THEN MinPrice ELSE price

\* apply
ApplyRule(rule, base) ==
  CASE rule.type = "FIXED" -> rule.value
    [] rule.type = "PERCENT" -> PercentPrice(rule.value, base)

\* resolve
Resolve(rules, levels, base) ==
  LET rule == PickRule(rules, levels) IN
  IF rule = NoRule THEN base ELSE ApplyRule(rule, base)

-----------------------------------------------------------------------------
(* CalculatorService                                                       *)

\* calculateItem: an item has its pallets, sqmPerPallet, factory and base price.
LineTotal(product, item, rules) ==
  RoundHalfUp(item.pallets * item.sqmPerPallet
                * Resolve(rules, ProductLevels(product, item.factory), item.base),
              10000)

\* Math.ceil(totalPallets / capacityPallets)
VehicleCount(pallets, capacity) == (pallets + capacity - 1) \div capacity

\* calculateDelivery; without a tariff there is none.
DeliveryTotal(pallets, transport, rules) ==
  VehicleCount(pallets, transport.capacity)
    * Resolve(rules, TransportLevels(transport.route), transport.base)

\* calculate, for items that pass validate: a function from products to items.
ItemsTotal(items, rules) ==
  SumFunction([p \in DOMAIN items |-> LineTotal(p, items[p], rules)])
TotalPallets(items) == SumFunction([p \in DOMAIN items |-> items[p].pallets])

GrandTotal(items, transports, rules) ==
  ItemsTotal(items, rules)
    + SumFunction([t \in transports |-> DeliveryTotal(TotalPallets(items), t, rules)])
=============================================================================
