----------------------------- MODULE MCCheckout -----------------------------
(***************************************************************************)
(* An instance of Checkout: two items, one with a modifier, one customer    *)
(* who orders both, and up to two attempts to pay for the order.            *)
(***************************************************************************)
EXTENDS Checkout, TLC

CONSTANTS c1, o1, p1, p2, i1, h1

OneCategory == {"food"}
TwoItems    == {"soup", "roll"}
AllFood     == [i \in TwoItems |-> "food"]
OneModifier == {"cream"}
OfSoup      == [m \in OneModifier |-> "soup"]
TwoPrices   == {1, 3}

Soup  == [item |-> "soup", quantity |-> 1, modifiers |-> {"cream"}]
Rolls == [item |-> "roll", quantity |-> 2, modifiers |-> {}]
OneCart == {<<Soup, Rolls>>}

OneCustomer == {c1}
OneOrder    == {o1}
TwoPayments == {p1, p2}
OneIntent   == {i1}
OneHook     == {h1}

\* Nothing, and the totals of the cart at the lowest prices and after an edit.
SomeAmounts == {0, 4, 6}

AllFaults   == {"price", "insert", "intent", "webhook", "webhookAnswer", "crash"}

Symmetry == Permutations(TwoPayments)

\* Two bounds of this instance.  Once there is no order left to sell, nobody
\* edits the menu, whose prices no request can meet any more; and states that
\* differ then in the menu, or in what the request was, but not in the totals,
\* count as one: what is left of the behaviour, payments, does not tell them apart.
MenuMatters == DOMAIN sold = Orders => UNCHANGED menuVars

WhatMatters == IF DOMAIN sold = Orders
               THEN <<[o \in Orders |-> sold[o].total], paymentVars>>
               ELSE checkoutVars
=============================================================================
