--------------------------------- MODULE Margin --------------------------------
(***************************************************************************)
(* The contribution of a sale (services/core/internal/margin): the price   *)
(* less its cost components, as the pricing endpoint asks for it, with the *)
(* price as the net proceeds and as the base of every rate.                *)
(*                                                                         *)
(* A cost is a record with its component, its kind and its amount: a       *)
(* mantissa when absolute, basis points when a rate.                       *)
(***************************************************************************)
EXTENDS Money, Sequences, FiniteSets, SequencesExt

HardRequired == {"cogs", "commission"}

Components ==
    HardRequired \cup {"fulfillment", "shipping", "packaging", "promotion", "ads", "returns"}

InDomain(c) ==
    IF c.kind = "rate" THEN c.amount \in 0 .. BasisPointScale ELSE c.amount >= 0

Deduction(c, price) ==
    IF c.kind = "rate" THEN RateHalfEven(price, c.amount) ELSE c.amount

\* What is left of the price after the first n costs.
After(costs, n, price) ==
    FoldLeft(LAMBDA left, c : left - Deduction(c, price), price, SubSeq(costs, 1, n))

Contribution(costs, price) == After(costs, Len(costs), price)

\* The engine returns a number: known components, each once and in its domain,
\* none of the required ones missing, and no overflow on the way.
Computable(costs, price) ==
    LET named == {costs[n].component : n \in DOMAIN costs}
    IN  /\ named \subseteq Components /\ HardRequired \subseteq named
        /\ Cardinality(named) = Len(costs)
        /\ \A n \in DOMAIN costs : InDomain(costs[n]) /\ Fits(After(costs, n, price))
=============================================================================
