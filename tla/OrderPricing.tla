---------------------------- MODULE OrderPricing ----------------------------
(***************************************************************************)
(* How OrdersService.create arrives at the price of an order.  A customer   *)
(* looks at the menu, chooses, and sends the lines with the prices they     *)
(* have seen; create reads the items one after the other, adds up their     *)
(* prices and inserts the order with the customer's lines.  The menu may    *)
(* change before, between and after the reads.                              *)
(***************************************************************************)
EXTENDS MenuService, OrderTypes, Faults, Sequences, FiniteSetsExt

CONSTANTS
  Customers,    \* each has one request at a time
  Carts         \* the choices: sequences of [item, quantity, modifiers]

\* What the request's DTO lets through.
ASSUME CartsAssumption ==
  \A cart \in Carts :
    /\ cart \in Seq([item : Items, quantity : 1 .. 99, modifiers : SUBSET Modifiers]) \ {<<>>}
    /\ \A k \in DOMAIN cart : IsFiniteSet(cart[k].modifiers)

VARIABLES
  customer,     \* each customer: what is seen or sent, and create's progress
  sold,         \* the orders inserted so far, with their lines and modifiers
  had           \* the prices for which an item was on sale while create runs

pricingVars == <<menuVars, customer, sold, had, faults>>

\* order_items, with the modifiers of the line and the sum of their prices.
LineRows == [item : Items, quantity : Nat, modifiers : SUBSET Modifiers, price : Prices, extras : Nat]

NoPage == [items |-> <<>>, modifiers |-> <<>>]
Idle   == [pc |-> "idle", page |-> NoPage, lines |-> <<>>, next |-> 1, total |-> 0]
Pricing(c) == customer[c].pc \in {"price", "insert"}

Ordered == UNION {line.modifiers : line \in UNION {{sold[o].lines[k] : k \in DOMAIN sold[o].lines} :
                                                    o \in DOMAIN sold}}

-----------------------------------------------------------------------------
(* The prices an item had *)

\* A row that create would accept.
Accepted(i) == ItemFound(i) /\ item[i].isActive

OnSale(i) == IF Accepted(i) THEN {item[i].price} ELSE {}

Watch ==
  had' = [c \in Customers |-> [i \in Items |->
            IF Pricing(c)' THEN OnSale(i)' \cup (IF Pricing(c) THEN had[c][i] ELSE {}) ELSE {}]]

-----------------------------------------------------------------------------
(* Customers *)

\* Customers stop looking when the ids of the instance are used up.
Look(c) ==
  /\ DOMAIN sold # Orders
  /\ customer[c] = Idle
  /\ \E S \in {Listed, ListedByCategory} :
       customer' = [customer EXCEPT ![c].pc = "choose", ![c].page = Page(S)]
  /\ UNCHANGED <<sold, faults>>

\* A line as it is sent: with the unit prices the page showed.
Line(page, choice) ==
  [item      |-> choice.item,
   quantity  |-> choice.quantity,
   modifiers |-> choice.modifiers,
   price     |-> page.items[choice.item],
   extras    |-> MapThenSumSet(LAMBDA m : page.modifiers[m], choice.modifiers)]

OnPage(page, cart) ==
  \A k \in DOMAIN cart : cart[k].item \in DOMAIN page.items /\ cart[k].modifiers \subseteq DOMAIN page.modifiers

Submit(c, cart) ==
  LET page == customer[c].page IN
  /\ customer[c].pc = "choose"
  /\ OnPage(page, cart)
  /\ customer' = [customer EXCEPT ![c] =
                    [Idle EXCEPT !.pc = "price", !.lines = [k \in DOMAIN cart |-> Line(page, cart[k])]]]
  /\ UNCHANGED <<sold, faults>>

-----------------------------------------------------------------------------
(* create *)

EndCreate(c) == customer' = [customer EXCEPT ![c] = Idle]

\* Mutation: the price the customer has sent.
SentPrice(line) == line.price

\* Number(menuItem.price): the price in the row that was just read.
UnitPrice(line) == item[line.item].price

Last(h) == h.next = Len(h.lines)

\* menuItem.findUnique and the next pass of the loop.
PriceLine(c) ==
  LET h == customer[c]
      line == h.lines[h.next]
  IN
  /\ h.pc = "price"
  /\ \/ /\ Accepted(line.item)
        /\ customer' = [customer EXCEPT ![c] =
             [h EXCEPT !.total = h.total + (UnitPrice(line) + line.extras) * line.quantity,
                       !.next  = h.next + 1,
                       !.pc    = IF Last(h) THEN "insert" ELSE "price"]]
        /\ NoFault
     \/ ~ Accepted(line.item) /\ EndCreate(c) /\ NoFault
     \/ Fault("price") /\ EndCreate(c)
  /\ UNCHANGED sold

\* One transaction for the order and all its lines: it fails as a whole when a
\* modifier has gone meanwhile.
Insertable(c) ==
  \A k \in DOMAIN customer[c].lines : \A m \in customer[c].lines[k].modifiers : modifier[m].state = "present"

InsertOrder(c, o) ==
  /\ customer[c].pc = "insert"
  /\ o \notin DOMAIN sold
  /\ Insertable(c)
  /\ sold' = [p \in DOMAIN sold \cup {o} |->
               IF p = o THEN [lines |-> customer[c].lines, total |-> customer[c].total] ELSE sold[p]]
  /\ EndCreate(c)
  /\ NoFault

InsertFails(c) ==
  /\ customer[c].pc = "insert"
  /\ \/ ~ Insertable(c) /\ NoFault
     \/ Fault("insert")
  /\ EndCreate(c)
  /\ UNCHANGED sold

-----------------------------------------------------------------------------
(* Properties *)

\* Prices the loop may have found: for each line one its item had, while it was
\* on sale, since create began.
Findings(c) ==
  LET lines == customer[c].lines IN
  {found \in [DOMAIN lines -> Prices] : \A k \in DOMAIN lines : found[k] \in had[c][lines[k].item]}

Sum(lines, found) ==
  MapThenSumSet(LAMBDA k : (found[k] + lines[k].extras) * lines[k].quantity, DOMAIN found)

\* An order is sold for prices its items had while it was being created, however
\* old the page was the customer chose from, with the modifiers at the prices of
\* that page; so its lines add up to its total if no item has been repriced since.
PricedWithinRequest ==
  [][\A c \in Customers : \A o \in DOMAIN sold' \ DOMAIN sold :
       customer'[c] # customer[c] =>
         \E found \in Findings(c) : sold'[o].total = Sum(sold'[o].lines, found)]_pricingVars
=============================================================================
