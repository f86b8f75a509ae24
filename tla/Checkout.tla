------------------------------ MODULE Checkout ------------------------------
(***************************************************************************)
(* From the menu to the money: OrderPricing inserts orders, PaymentsService *)
(* collects for them, the admin's analytics add up what was paid.           *)
(***************************************************************************)
EXTENDS OrderPricing, PaymentsService

checkoutVars == <<pricingVars, paymentVars>>

\* The menu the process starts with: empty, or all the items, with or without
\* their modifiers, at the lowest price.
CheckoutInit ==
  /\ \E items \in {"unused", "present"}, modifiers \in {"unused", "present"} :
       /\ modifiers = "present" => items = "present"
       /\ category = [k \in Categories |-> items]
       /\ item = [i \in Items |->
            [state |-> items, price |-> Min(Prices), isActive |-> items = "present"]]
       /\ modifier = [m \in Modifiers |-> [state |-> modifiers, price |-> Min(Prices)]]
  /\ edits = 0
  /\ customer = [c \in Customers |-> Idle]
  /\ sold = <<>>
  /\ had = [c \in Customers |-> [i \in Items |-> {}]]
  /\ PaymentInit
  /\ FaultsInit

PricingOnly == UNCHANGED <<paymentStatus, payment, intent, hook, kitchen, outcomes, asked, unheard>>

ChangeMenu == Administer(Ordered) /\ UNCHANGED <<customer, sold, faults>> /\ PricingOnly /\ Watch

Shop(c) ==
  /\ Look(c) \/ (\E cart \in Carts : Submit(c, cart)) \/ PriceLine(c) \/ InsertFails(c)
  /\ PricingOnly /\ UNCHANGED menuVars
  /\ Watch

\* The order's first payment status is PENDING.
Sell(c, o) ==
  /\ InsertOrder(c, o)
  /\ paymentStatus' = [paymentStatus EXCEPT ![o] = "PENDING"]
  /\ UNCHANGED <<menuVars, payment, intent, hook, kitchen, outcomes, asked, unheard>>
  /\ Watch

Pay == PaymentNext /\ UNCHANGED <<menuVars, customer, sold, had>>

\* The process dies; customers still have their page, rows stay.
Crash ==
  /\ Fault("crash")
  /\ customer' = [c \in Customers |-> IF Pricing(c) THEN Idle ELSE customer[c]]
  /\ PaymentHandlersDie
  /\ UNCHANGED <<menuVars, sold>>
  /\ Watch

CheckoutNext ==
  \/ ChangeMenu
  \/ \E c \in Customers : Shop(c) \/ (\E o \in Orders : Sell(c, o))
  \/ Pay
  \/ Crash

CheckoutSpec == CheckoutInit /\ [][CheckoutNext]_checkoutVars

-----------------------------------------------------------------------------
(* Analytics *)

\* Mutation: what is not known to have failed counts.
CountedUnlessFailed == {o \in Orders : paymentStatus[o] \in {"PENDING", "PAID"}}

\* orders.filter(paymentStatus === PAID).
Counted == {o \in Orders : paymentStatus[o] = "PAID"}

\* totalRevenue of getAnalytics.
Revenue == MapThenSumSet(LAMBDA o : sold[o].total, Counted)

-----------------------------------------------------------------------------
(* Properties *)

Pages == [items     : UNION {[S -> Prices] : S \in SUBSET Items},
          modifiers : UNION {[S -> Prices] : S \in SUBSET Modifiers}]

CustomerRows == [pc    : {"idle", "choose", "price", "insert"},
                 page  : Pages,
                 lines : Seq(LineRows),
                 next  : Nat \ {0},
                 total : Nat]

CheckoutTypeOK ==
  /\ MenuTypeOK /\ PaymentTypeOK /\ FaultsTypeOK
  /\ customer \in [Customers -> CustomerRows]
  /\ had \in [Customers -> [Items -> SUBSET Prices]]
  /\ DOMAIN sold = {o \in Orders : paymentStatus[o] # "none"}
  /\ \A o \in DOMAIN sold : sold[o].total \in Nat

\* What customers have paid.
ConfirmedPayments == {p \in Payments : "PAID" \in outcomes[p]}
Takings           == MapThenSumSet(LAMBDA p : payment[p].amount, ConfirmedPayments)

\* What a payment lacks of the total of its order, or has beyond it.
Lack(p) == LET due == sold[payment[p].order].total
           IN IF payment[p].amount < due THEN due - payment[p].amount ELSE 0
Over(p) == LET due == sold[payment[p].order].total
           IN IF payment[p].amount > due THEN payment[p].amount - due ELSE 0

Shortfall == MapThenSumSet(Lack, ConfirmedPayments)
Excess    == MapThenSumSet(Over, ConfirmedPayments)

\* The admin's revenue counts the total of an order, whatever its payment was
\* of.  It has been collected, but for what confirmed payments lacked of their
\* orders' totals; and where no order was paid twice or had a payment that
\* failed, it differs from what was collected by exactly what they lacked and
\* what they had too much.
RevenueExplained ==
  /\ Revenue <= Takings + Shortfall
  /\ (\A o \in Orders : ~ Refused(o) /\ Cardinality(ConfirmedPayments \cap PaymentsOf(o)) <= 1)
       => Revenue + Excess = Takings + Shortfall

-----------------------------------------------------------------------------
(* What the loop of create relies on *)

\* Prices the loop has found so far.
FoundSoFar(c) ==
  {found \in [1 .. customer[c].next - 1 -> Prices] :
     \A k \in DOMAIN found : found[k] \in had[c][customer[c].lines[k].item]}

\* The loop is at a line, or has been through all of them; it has added up prices
\* their items had, and what it may find next is among those.
TotalsInv ==
  \A c \in Customers : Pricing(c) =>
    LET h == customer[c] IN
    /\ h.next <= Len(h.lines) + 1
    /\ h.pc = "price" <=> h.next <= Len(h.lines)
    /\ \A i \in Items : OnSale(i) \subseteq had[c][i]
    /\ \E found \in FoundSoFar(c) : h.total = Sum(h.lines, found)
=============================================================================
