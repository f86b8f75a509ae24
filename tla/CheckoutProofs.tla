---------------------------- MODULE CheckoutProofs ---------------------------
(***************************************************************************)
(* Proofs about Checkout, for any menu, orders, payments, handlers and      *)
(* failures: the tables of orders and payments agree, what is asked for an  *)
(* order that is paid has its explanation, the kitchen hears of every order *)
(* that is, orders cost what their items cost, and the revenue is what was  *)
(* paid, but for the difference between payments and their orders' totals.  *)
(***************************************************************************)
EXTENDS Checkout, FiniteSetTheorems, TLAPS

USE NoOrderAssumption, PaymentsAssumption DEF asked

\* Payments are of orders that are sold, and in no one's hands before they exist.
RowsOK ==
  /\ DOMAIN sold = {o \in Orders : paymentStatus[o] # "none"}
  /\ \A p \in Payments :
       payment[p].order # NoOrder => paymentStatus[payment[p].order] # "none"
  /\ \A p \in Payments :
       payment[p].order = NoOrder => outcomes[p] = {} /\ p \notin again /\ ~ payment[p].linked

\* What the handlers know: an intent has read a sold order, and a webhook has
\* found the payment it is about by its provider's id.
HandlersOK ==
  /\ \A i \in Intents :
       intent[i].order # NoOrder => paymentStatus[intent[i].order] # "none"
  /\ \A h \in Hooks :
       hook[h].pc # "idle" => hook[h].payment \in Payments /\ payment[hook[h].payment].linked

\* An intent that has let an order with a confirmed payment pass was right to:
\* one of the order's payments has been refused.
IntentsJustified == \A i \in Intents : intent[i].confirmed => Refused(intent[i].order)

MoneyInv ==
  /\ PaymentTypeOK
  /\ RowsOK
  /\ HandlersOK
  /\ IntentsJustified
  /\ PaymentsMatchOrder
  /\ SecondRequestsExplained
  /\ KitchenKnows

\* The rows and handlers of payments as a step leaves them when it is no part of it.
LEMMA OthersLemma == MoneyInv /\ PricingOnly /\ UNCHANGED sold => MoneyInv'
  BY DEF MoneyInv, PricingOnly, PaymentTypeOK, RowsOK, HandlersOK, IntentsJustified, Refused,
         Confirmed, PaymentsOf, PaymentsMatchOrder, SecondRequestsExplained, KitchenKnows, Telling

\* A new order has no payments yet.
LEMMA SellLemma ==
  ASSUME MoneyInv, NEW c \in Customers, NEW o \in Orders, Sell(c, o)
  PROVE  MoneyInv'
<1>. USE DEF MoneyInv
<1>1. /\ paymentStatus' = [paymentStatus EXCEPT ![o] = "PENDING"]
      /\ DOMAIN sold' = DOMAIN sold \cup {o}
      /\ paymentStatus[o] = "none"
      /\ UNCHANGED <<payment, intent, hook, kitchen, outcomes, asked, unheard>>
  BY DEF Sell, InsertOrder, RowsOK
<1>2. PaymentsOf(o) = {}
  BY <1>1 DEF PaymentsOf, RowsOK
<1>3. \A q \in Orders : /\ PaymentsOf(q)' = PaymentsOf(q)
                        /\ Confirmed(q)' = Confirmed(q)
                        /\ Refused(q)' = Refused(q)
  BY <1>1 DEF PaymentsOf, Confirmed, Refused
<1>4. PaymentTypeOK'
  BY <1>1 DEF PaymentTypeOK, Outcomes
<1>5. RowsOK' /\ HandlersOK'
  BY <1>1 DEF RowsOK, HandlersOK, PaymentTypeOK, PaymentRows
<1>6. IntentsJustified' /\ SecondRequestsExplained'
  BY <1>1 DEF IntentsJustified, SecondRequestsExplained, Refused, PaymentsOf
<1>7. PaymentsMatchOrder'
  BY <1>1, <1>2, <1>3 DEF PaymentsMatchOrder, PaymentTypeOK, Confirmed, Refused, Final
<1>8. KitchenKnows'
  BY <1>1, <1>3 DEF KitchenKnows, Telling
<1>. QED  BY <1>4, <1>5, <1>6, <1>7, <1>8

-----------------------------------------------------------------------------
(* createPaymentIntent *)

\* Steps that leave the rows, what became of the payments, and the webhooks.
LEMMA IntentsLemma ==
  ASSUME MoneyInv,
         UNCHANGED <<sold, paymentStatus, payment, hook, kitchen, outcomes, asked, unheard>>,
         NEW i \in Intents,
         NEW new \in [order : Orders \cup {NoOrder}, confirmed : BOOLEAN],
         intent' = [intent EXCEPT ![i] = new],
         new.order # NoOrder => paymentStatus[new.order] # "none",
         new.confirmed => Refused(new.order)
  PROVE  MoneyInv'
<1>. USE DEF MoneyInv
<1>1. PaymentTypeOK'
  BY DEF PaymentTypeOK
<1>2. RowsOK' /\ HandlersOK'
  BY DEF RowsOK, HandlersOK, PaymentTypeOK
<1>3. IntentsJustified'
  BY DEF IntentsJustified, Refused, PaymentsOf, PaymentTypeOK
<1>4. PaymentsMatchOrder' /\ SecondRequestsExplained' /\ KitchenKnows'
  BY DEF PaymentsMatchOrder, SecondRequestsExplained, KitchenKnows, Telling, Refused, Confirmed, PaymentsOf
<1>. QED  BY <1>1, <1>2, <1>3, <1>4

\* An order that is sold, has a confirmed payment and is not PAID has been
\* through a failed payment.
LEMMA ReadOrderLemma ==
  ASSUME MoneyInv, UNCHANGED sold, NEW i \in Intents, NEW o \in Orders, ReadOrder(i, o)
  PROVE  MoneyInv'
<1>. DEFINE new == [order |-> o, confirmed |-> Confirmed(o)]
<1>1. new \in [order : Orders \cup {NoOrder}, confirmed : BOOLEAN]
  BY DEF Confirmed
<1>2. paymentStatus[o] \in {"PENDING", "FAILED"}
  BY DEF ReadOrder, Payable, MoneyInv, PaymentTypeOK, Outcomes
<1>3. Confirmed(o) => Refused(o)
  BY <1>2 DEF MoneyInv, PaymentsMatchOrder, Refused, Final
<1>4. intent' = [intent EXCEPT ![i] = new]
      /\ UNCHANGED <<paymentStatus, payment, hook, kitchen, outcomes, asked, unheard>>
  BY DEF ReadOrder
<1>. QED  BY <1>1, <1>2, <1>3, <1>4, IntentsLemma

LEMMA CreatePaymentFailsLemma ==
  ASSUME MoneyInv, UNCHANGED sold, NEW i \in Intents, CreatePaymentFails(i)
  PROVE  MoneyInv'
<1>1. intent' = [intent EXCEPT ![i] = IdleIntent]
      /\ UNCHANGED <<paymentStatus, payment, hook, kitchen, outcomes, asked, unheard>>
  BY DEF CreatePaymentFails
<1>2. IdleIntent \in [order : Orders \cup {NoOrder}, confirmed : BOOLEAN]
      /\ IdleIntent.order = NoOrder /\ ~ IdleIntent.confirmed
  BY DEF IdleIntent
<1>. QED  BY <1>1, <1>2, IntentsLemma

\* The new payment has no outcome yet, so the other payments say what became of
\* its order.  If one of them is confirmed, the intent has known, and a failed
\* one is among them too, or it has been overtaken.
LEMMA CreatePaymentLemma ==
  ASSUME MoneyInv, UNCHANGED sold, NEW i \in Intents, NEW p \in Payments,
         NEW amount \in Amounts, CreatePayment(i, p, amount)
  PROVE  MoneyInv'
<1>. DEFINE o == intent[i].order
<1>. USE DEF MoneyInv
<1>1. o \in Orders /\ paymentStatus[o] # "none"
  BY DEF CreatePayment, PaymentTypeOK, IntentsJustified, Refused, PaymentsOf, RowsOK, HandlersOK,
         IdleIntent
<1>2. /\ payment' \in [Payments -> PaymentRows]
      /\ payment'[p].order = o
      /\ ~ payment'[p].linked
      /\ \A q \in Payments \ {p} : payment'[q] = payment[q]
  <2>. DEFINE new == [order |-> o, amount |-> amount, status |-> "PENDING", linked |-> FALSE]
  <2>1. payment' = [payment EXCEPT ![p] = new]
    BY DEF CreatePayment
  <2>2. new \in PaymentRows /\ new.order = o /\ ~ new.linked
    BY <1>1, AmountsAssumption DEF PaymentRows, Outcomes
  <2>. HIDE DEF new
  <2>. QED  BY <2>1, <2>2 DEF PaymentTypeOK
<1>3. /\ payment[p].order = NoOrder /\ outcomes[p] = {} /\ p \notin again /\ ~ payment[p].linked
      /\ intent' \in [Intents -> [order : Orders \cup {NoOrder}, confirmed : BOOLEAN]]
      /\ intent'[i] = IdleIntent /\ \A j \in Intents \ {i} : intent'[j] = intent[j]
      /\ again' \in {again, again \cup {p}} /\ overtaken' \in {overtaken, overtaken \cup {p}}
      /\ overtaken' \in SUBSET again'
      /\ p \in again' => Refused(o) \/ p \in overtaken'
      /\ UNCHANGED <<paymentStatus, hook, kitchen, outcomes, unheard>>
  BY <1>1 DEF CreatePayment, PaymentTypeOK, RowsOK, IntentsJustified, IdleIntent
<1>4. \A q \in Orders : /\ PaymentsOf(q) \subseteq PaymentsOf(q)'
                        /\ Confirmed(q)' <=> Confirmed(q)
                        /\ Refused(q)' <=> Refused(q)
  BY <1>2, <1>3 DEF PaymentsOf, Confirmed, Refused
<1>5. PaymentTypeOK'
  BY <1>2, <1>3 DEF PaymentTypeOK
<1>6. RowsOK' /\ HandlersOK'
  BY <1>1, <1>2, <1>3 DEF RowsOK, HandlersOK, IdleIntent
<1>7. IntentsJustified'
  <2>1. SUFFICES ASSUME NEW j \in Intents, intent'[j].confirmed PROVE Refused(intent[j].order)'
    BY DEF IntentsJustified
  <2>2. intent'[j] = intent[j] /\ Refused(intent[j].order)
    BY <1>3, <2>1 DEF IdleIntent, IntentsJustified
  <2>3. intent[j].order \in Orders
    BY <2>2 DEF PaymentTypeOK, RowsOK, Refused, PaymentsOf
  <2>. QED  BY <1>4, <2>2, <2>3 DEF Refused, PaymentsOf
<1>8. SecondRequestsExplained'
  BY <1>1, <1>2, <1>3, <1>4 DEF SecondRequestsExplained, Refused, PaymentsOf, RowsOK, PaymentTypeOK, PaymentRows
<1>9. PaymentsMatchOrder'
  BY <1>2, <1>3, <1>4 DEF PaymentsMatchOrder, PaymentsOf
<1>10. Telling' = Telling
  <2>1. \A h \in Hooks : hook[h].pc = "tell" =>
          payment'[hook[h].payment].order = payment[hook[h].payment].order
    BY <1>2, <1>3 DEF HandlersOK
  <2>. QED  BY <1>3, <2>1 DEF Telling
<1>11. KitchenKnows'
  BY <1>3, <1>4, <1>10 DEF KitchenKnows
<1>. QED  BY <1>5, <1>6, <1>7, <1>8, <1>9, <1>11

-----------------------------------------------------------------------------
(* LinkPayment and handleWebhook *)

LEMMA LinkPaymentLemma ==
  ASSUME MoneyInv, UNCHANGED sold, NEW p \in Payments, LinkPayment(p)
  PROVE  MoneyInv'
<1>. USE DEF MoneyInv
<1>1. /\ payment' \in [Payments -> PaymentRows]
      /\ \A q \in Payments \ {p} : payment'[q] = payment[q]
      /\ payment'[p].order = payment[p].order /\ payment'[p].status = payment[p].status
      /\ UNCHANGED <<paymentStatus, intent, hook, kitchen, outcomes, asked, unheard>>
  <2>. DEFINE new == [payment[p] EXCEPT !.linked = TRUE]
  <2>1. payment' = [payment EXCEPT ![p] = new] /\ payment[p] \in PaymentRows
    BY DEF LinkPayment, PaymentTypeOK
  <2>2. new \in PaymentRows /\ new.order = payment[p].order /\ new.status = payment[p].status
    BY <2>1 DEF PaymentRows
  <2>. HIDE DEF new
  <2>. QED  BY <2>1, <2>2 DEF LinkPayment, PaymentTypeOK
<1>2. payment'[p].linked /\ payment[p].order # NoOrder
  <2>1. payment'[p] = [payment[p] EXCEPT !.linked = TRUE] /\ payment[p] \in PaymentRows
    BY DEF LinkPayment, PaymentTypeOK
  <2>. QED  BY <2>1 DEF LinkPayment, PaymentRows
<1>3. \A o \in Orders : PaymentsOf(o)' = PaymentsOf(o)
  BY <1>1 DEF PaymentsOf
<1>4. \A o \in Orders : Confirmed(o)' = Confirmed(o) /\ Refused(o)' = Refused(o)
  BY <1>1, <1>3 DEF Confirmed, Refused
<1>5. PaymentTypeOK'
  BY <1>1 DEF PaymentTypeOK
<1>6. RowsOK'
  BY <1>1, <1>2 DEF RowsOK
<1>7. HandlersOK'
  BY <1>1, <1>2 DEF HandlersOK
<1>8. IntentsJustified'
  BY <1>1 DEF IntentsJustified, Refused, PaymentsOf
<1>9. SecondRequestsExplained'
  BY <1>1 DEF SecondRequestsExplained, Refused, PaymentsOf, PaymentTypeOK
<1>10. PaymentsMatchOrder'
  BY <1>1, <1>3, <1>4 DEF PaymentsMatchOrder, PaymentsOf
<1>11. KitchenKnows'
  <2>1. \A h \in Hooks : hook[h].pc = "tell" =>
          payment'[hook[h].payment].order = payment[hook[h].payment].order
    BY <1>1 DEF HandlersOK
  <2>2. Telling' = Telling
    BY <1>1, <2>1 DEF Telling
  <2>. QED  BY <1>1, <1>4, <2>2 DEF KitchenKnows
<1>. QED  BY <1>5, <1>6, <1>7, <1>8, <1>9, <1>10, <1>11

\* Steps of a webhook that leave the rows and what became of the payments, and
\* at which no order ceases to be one the kitchen has heard, or hears, about.
LEMMA HooksLemma ==
  ASSUME MoneyInv,
         UNCHANGED <<sold, paymentStatus, payment, intent, outcomes, asked, unheard>>,
         NEW h \in Hooks,
         NEW new \in [pc : {"idle", "write", "tell"}, payment : Payments \cup {NoPayment},
                      status : Outcomes],
         hook' = [hook EXCEPT ![h] = new],
         new.pc # "idle" => new.payment \in Payments /\ payment[new.payment].linked,
         kitchen' \in SUBSET Orders, kitchen \subseteq kitchen',
         hook[h].pc = "tell" => payment[hook[h].payment].order \in kitchen'
  PROVE  MoneyInv'
<1>. USE DEF MoneyInv
<1>1. PaymentTypeOK' /\ RowsOK' /\ HandlersOK'
  BY DEF PaymentTypeOK, RowsOK, HandlersOK
<1>2. IntentsJustified' /\ SecondRequestsExplained' /\ PaymentsMatchOrder'
  BY DEF IntentsJustified, SecondRequestsExplained, PaymentsMatchOrder, Refused, Confirmed, PaymentsOf
<1>3. Telling \subseteq Telling' \cup kitchen'
  BY DEF Telling, PaymentTypeOK
<1>4. KitchenKnows'
  BY <1>3 DEF KitchenKnows, Confirmed, PaymentsOf
<1>. QED  BY <1>1, <1>2, <1>4

LEMMA FindPaymentLemma ==
  ASSUME MoneyInv, UNCHANGED sold, NEW h \in Hooks, NEW p \in Payments, NEW status \in Outcomes,
         FindPayment(h, p, status)
  PROVE  MoneyInv'
<1>. DEFINE new == [pc |-> "write", payment |-> p, status |-> status]
<1>1. /\ hook' = [hook EXCEPT ![h] = new]
      /\ hook[h].pc = "idle"
      /\ payment[p].linked
      /\ UNCHANGED <<paymentStatus, payment, intent, kitchen, outcomes, asked, unheard>>
  BY DEF FindPayment, IdleHook
<1>2. kitchen' \in SUBSET Orders
  BY <1>1 DEF MoneyInv, PaymentTypeOK
<1>. QED  BY <1>1, <1>2, HooksLemma

LEMMA WritePaymentFailsLemma ==
  ASSUME MoneyInv, UNCHANGED sold, NEW h \in Hooks, WritePaymentFails(h)
  PROVE  MoneyInv'
<1>1. /\ hook' = [hook EXCEPT ![h] = IdleHook]
      /\ hook[h].pc = "write"
      /\ UNCHANGED <<paymentStatus, payment, intent, kitchen, outcomes, asked, unheard>>
  BY DEF WritePaymentFails
<1>2. kitchen' \in SUBSET Orders
  BY <1>1 DEF MoneyInv, PaymentTypeOK
<1>3. /\ IdleHook \in [pc : {"idle", "write", "tell"}, payment : Payments \cup {NoPayment},
                       status : Outcomes]
      /\ IdleHook.pc = "idle"
  BY DEF IdleHook, Outcomes
<1>. QED  BY <1>1, <1>2, <1>3, HooksLemma

LEMMA TellKitchenLemma ==
  ASSUME MoneyInv, UNCHANGED sold, NEW h \in Hooks, TellKitchen(h)
  PROVE  MoneyInv'
<1>1. /\ hook' = [hook EXCEPT ![h] = IdleHook]
      /\ kitchen' = kitchen \cup {payment[hook[h].payment].order}
      /\ hook[h].pc = "tell"
      /\ UNCHANGED <<paymentStatus, payment, intent, outcomes, asked, unheard>>
  BY DEF TellKitchen
<1>2. payment[hook[h].payment].order \in Orders
  BY <1>1 DEF MoneyInv, HandlersOK, RowsOK, PaymentTypeOK, PaymentRows
<1>3. kitchen' \in SUBSET Orders
  BY <1>1, <1>2 DEF MoneyInv, PaymentTypeOK
<1>4. /\ IdleHook \in [pc : {"idle", "write", "tell"}, payment : Payments \cup {NoPayment},
                       status : Outcomes]
      /\ IdleHook.pc = "idle"
  BY DEF IdleHook, Outcomes
<1>. QED  BY <1>1, <1>3, <1>4, HooksLemma

\* The transaction that writes an event: its payment is one of the order's, so it
\* is the one the order's status goes back to; the other orders are untouched.
\* The kitchen will be told, or the answer of the transaction was lost.
LEMMA RecordOutcomeLemma ==
  ASSUME MoneyInv, UNCHANGED <<sold, intent, kitchen, asked>>, NEW h \in Hooks,
         hook[h].pc = "write", RecordOutcome(hook[h].payment, hook[h].status),
         hook' \in [Hooks -> [pc : {"idle", "write", "tell"}, payment : Payments \cup {NoPayment},
                             status : Outcomes]],
         \A g \in Hooks \ {h} : hook'[g] = hook[g],
         hook'[h].pc # "idle" => hook'[h].payment = hook[h].payment,
         unheard' \in SUBSET Orders, unheard \subseteq unheard',
         hook[h].status = "PAID" =>
           hook'[h].pc = "tell" \/ payment[hook[h].payment].order \in unheard'
  PROVE  MoneyInv'
<1>. DEFINE p == hook[h].payment
            o == payment[p].order
            status == hook[h].status
<1>. USE DEF MoneyInv
<1>1. p \in Payments /\ o \in Orders /\ status \in Outcomes
  BY DEF PaymentTypeOK, HandlersOK, RowsOK, PaymentRows
<1>2. /\ payment' \in [Payments -> PaymentRows]
      /\ payment'[p].status = status
      /\ \A q \in Payments : payment'[q].order = payment[q].order
      /\ \A q \in Payments : payment'[q].linked = payment[q].linked
      /\ \A q \in Payments \ {p} : payment'[q].status = payment[q].status
  BY <1>1 DEF RecordOutcome, PaymentTypeOK, PaymentRows
<1>3. /\ paymentStatus' \in [Orders -> Outcomes \cup {"none"}]
      /\ paymentStatus'[o] = IF status \in Final THEN status ELSE paymentStatus[o]
      /\ \A q \in Orders \ {o} : paymentStatus'[q] = paymentStatus[q]
  BY <1>1 DEF RecordOutcome, PaymentTypeOK, OrderStatusAfter
<1>4. /\ outcomes' \in [Payments -> SUBSET Outcomes]
      /\ outcomes'[p] = outcomes[p] \cup ({status} \cap Final)
      /\ \A q \in Payments \ {p} : outcomes'[q] = outcomes[q]
  BY <1>1 DEF RecordOutcome, PaymentTypeOK, Outcomes, Final
<1>5. /\ hook' \in [Hooks -> [pc : {"idle", "write", "tell"}, payment : Payments \cup {NoPayment},
                             status : Outcomes]]
      /\ hook[h].pc = "write"
      /\ \A g \in Hooks \ {h} : hook'[g] = hook[g]
      /\ hook'[h].pc # "idle" => hook'[h].payment = p
      /\ status = "PAID" => hook'[h].pc = "tell" \/ o \in unheard'
  OBVIOUS
<1>6. /\ UNCHANGED <<intent, kitchen, asked>>
      /\ unheard' \in SUBSET Orders /\ unheard \subseteq unheard'
  OBVIOUS
<1>. HIDE DEF p, o, status
<1>7. \A q \in Orders : PaymentsOf(q)' = PaymentsOf(q)
  BY <1>2 DEF PaymentsOf
<1>8. \A q \in Payments : outcomes[q] \subseteq outcomes'[q]
  BY <1>4
<1>9. \A q \in Orders \ {o} : Confirmed(q)' = Confirmed(q) /\ Refused(q)' = Refused(q)
  BY <1>1, <1>4, <1>7 DEF Confirmed, Refused, PaymentsOf, o
<1>10. PaymentTypeOK'
  BY <1>2, <1>3, <1>4, <1>5, <1>6 DEF PaymentTypeOK
<1>11. RowsOK'
  <2>1. DOMAIN sold' = {q \in Orders : paymentStatus'[q] # "none"}
    BY <1>1, <1>3 DEF RowsOK, Final, o
  <2>2. \A q \in Payments : payment'[q].order # NoOrder => paymentStatus'[payment'[q].order] # "none"
    BY <1>1, <1>2, <1>3 DEF RowsOK, Final, PaymentTypeOK, PaymentRows
  <2>3. \A q \in Payments : payment'[q].order = NoOrder =>
           outcomes'[q] = {} /\ q \notin again' /\ ~ payment'[q].linked
    BY <1>1, <1>2, <1>4, <1>6 DEF RowsOK, o
  <2>. QED  BY <2>1, <2>2, <2>3 DEF RowsOK
<1>12. HandlersOK'
  <2>1. \A i \in Intents : intent'[i].order # NoOrder => paymentStatus'[intent'[i].order] # "none"
    BY <1>3, <1>6 DEF HandlersOK, PaymentTypeOK, Final
  <2>2. payment[p].linked
    BY <1>5 DEF HandlersOK, p
  <2>3. \A g \in Hooks : hook'[g].pc # "idle" =>
          hook'[g].payment \in Payments /\ payment'[hook'[g].payment].linked
    BY <1>1, <1>2, <1>5, <2>2 DEF HandlersOK
  <2>. QED  BY <2>1, <2>3 DEF HandlersOK
<1>13. IntentsJustified'
  BY <1>2, <1>6, <1>8 DEF IntentsJustified, Refused, PaymentsOf
<1>14. SecondRequestsExplained'
  <2>1. ASSUME NEW q \in again, q \notin overtaken PROVE Refused(payment[q].order)'
    <3>1. PICK r \in Payments : payment[r].order = payment[q].order /\ "FAILED" \in outcomes[r]
      BY <2>1 DEF SecondRequestsExplained, Refused, PaymentsOf
    <3>. QED  BY <1>2, <1>8, <3>1 DEF Refused, PaymentsOf, PaymentTypeOK
  <2>. QED  BY <1>6, <2>1 DEF SecondRequestsExplained
<1>15. PaymentsMatchOrder'
  <2>1. SUFFICES ASSUME NEW q \in Orders
                 PROVE  /\ paymentStatus'[q] \in Final =>
                             \E r \in PaymentsOf(q)' :
                                /\ paymentStatus'[q] \in outcomes'[r]
                                /\ payment'[r].status \in {paymentStatus'[q], "PENDING"}
                        /\ paymentStatus'[q] = "PENDING" => ~ Confirmed(q)' /\ ~ Refused(q)'
    BY DEF PaymentsMatchOrder
  <2>2. CASE q # o
    BY <1>1, <1>2, <1>3, <1>4, <1>7, <1>9, <2>2 DEF PaymentsMatchOrder, PaymentsOf, o
  <2>3. CASE q = o /\ status \in Final
    <3>1. paymentStatus'[q] = status /\ payment'[p].status = status /\ status \in outcomes'[p]
      BY <1>2, <1>3, <1>4, <2>3
    <3>2. p \in PaymentsOf(q)'
      BY <1>1, <1>7, <2>3 DEF PaymentsOf, o
    <3>. QED  BY <2>3, <3>1, <3>2 DEF Final
  <2>4. CASE q = o /\ status \notin Final
    <3>1. status = "PENDING" /\ outcomes' = outcomes /\ paymentStatus'[q] = paymentStatus[q]
      BY <1>1, <1>3, <1>4, <2>4 DEF Outcomes, Final, PaymentTypeOK
    <3>2. \A r \in Payments : payment'[r].status \in {payment[r].status, "PENDING"}
      BY <1>2, <3>1
    <3>3. Confirmed(q)' = Confirmed(q) /\ Refused(q)' = Refused(q)
      BY <1>7, <3>1 DEF Confirmed, Refused
    <3>. QED  BY <1>7, <3>1, <3>2, <3>3 DEF PaymentsMatchOrder, PaymentsOf
  <2>. QED  BY <2>2, <2>3, <2>4
<1>16. KitchenKnows'
  <2>1. Telling \subseteq Telling'
    BY <1>2, <1>5 DEF Telling, HandlersOK
  <2>2. ASSUME NEW q \in Orders, Confirmed(q)', ~ Confirmed(q)
        PROVE  q \in Telling' \cup unheard'
    <3>1. q = o /\ status = "PAID"
      BY <1>1, <1>4, <1>7, <1>9, <2>2 DEF Confirmed, Final, PaymentsOf, o
    <3>2. hook'[h].pc = "tell" => payment'[hook'[h].payment].order = o
      BY <1>1, <1>2, <1>5 DEF o
    <3>. QED  BY <1>5, <3>1, <3>2 DEF Telling
  <2>. QED  BY <1>6, <2>1, <2>2 DEF KitchenKnows
<1>. QED  BY <1>10, <1>11, <1>12, <1>13, <1>14, <1>15, <1>16

LEMMA WritePaymentLemma ==
  ASSUME MoneyInv, UNCHANGED sold, NEW h \in Hooks, WritePayment(h)
  PROVE  MoneyInv'
<1>1. /\ hook[h].pc = "write" /\ RecordOutcome(hook[h].payment, hook[h].status)
      /\ UNCHANGED <<intent, kitchen, asked, unheard>>
  BY DEF WritePayment
<1>2. /\ hook' \in [Hooks -> [pc : {"idle", "write", "tell"}, payment : Payments \cup {NoPayment},
                             status : Outcomes]]
      /\ \A g \in Hooks \ {h} : hook'[g] = hook[g]
      /\ hook'[h].pc # "idle" => hook'[h].payment = hook[h].payment
      /\ hook[h].status = "PAID" => hook'[h].pc = "tell"
  BY DEF WritePayment, MoneyInv, PaymentTypeOK, HandlersOK, IdleHook, IsNews, Outcomes
<1>3. unheard' \in SUBSET Orders /\ unheard \subseteq unheard'
  BY <1>1 DEF MoneyInv, PaymentTypeOK
<1>. QED  BY <1>1, <1>2, <1>3, RecordOutcomeLemma

LEMMA WritePaymentUnansweredLemma ==
  ASSUME MoneyInv, UNCHANGED sold, NEW h \in Hooks, WritePaymentUnanswered(h)
  PROVE  MoneyInv'
<1>1. /\ hook[h].pc = "write" /\ RecordOutcome(hook[h].payment, hook[h].status)
      /\ hook' = [hook EXCEPT ![h] = IdleHook]
      /\ UNCHANGED <<intent, kitchen, asked>>
  BY DEF WritePaymentUnanswered
<1>2. /\ hook' \in [Hooks -> [pc : {"idle", "write", "tell"}, payment : Payments \cup {NoPayment},
                             status : Outcomes]]
      /\ \A g \in Hooks \ {h} : hook'[g] = hook[g]
      /\ hook'[h].pc = "idle"
  BY <1>1 DEF MoneyInv, PaymentTypeOK, IdleHook, Outcomes
<1>3. /\ unheard' \in SUBSET Orders /\ unheard \subseteq unheard'
      /\ hook[h].status = "PAID" => payment[hook[h].payment].order \in unheard'
  <2>1. payment[hook[h].payment].order \in Orders
    BY <1>1 DEF MoneyInv, HandlersOK, RowsOK, PaymentTypeOK, PaymentRows
  <2>. QED  BY <2>1 DEF WritePaymentUnanswered, MoneyInv, PaymentTypeOK, IsNews
<1>. QED  BY <1>1, <1>2, <1>3, RecordOutcomeLemma

-----------------------------------------------------------------------------
(* The process and its customers *)

\* A crash forgets the handlers; what they had not told the kitchen is unheard.
LEMMA CrashLemma == MoneyInv /\ Crash => MoneyInv'
<1>. SUFFICES ASSUME MoneyInv, Crash PROVE MoneyInv'
  OBVIOUS
<1>. USE DEF MoneyInv
<1>1. /\ intent' = [i \in Intents |-> IdleIntent]
      /\ hook' = [h \in Hooks |-> IdleHook]
      /\ unheard' = unheard \cup Telling
      /\ UNCHANGED <<sold, paymentStatus, payment, kitchen, outcomes, asked>>
  BY DEF Crash, PaymentHandlersDie
<1>2. Telling \subseteq Orders
  BY DEF Telling, HandlersOK, RowsOK, PaymentTypeOK, PaymentRows
<1>3. PaymentTypeOK'
  BY <1>1, <1>2 DEF PaymentTypeOK, IdleIntent, IdleHook, Outcomes
<1>4. RowsOK' /\ HandlersOK' /\ IntentsJustified'
  BY <1>1 DEF RowsOK, HandlersOK, IntentsJustified, IdleIntent, IdleHook
<1>5. PaymentsMatchOrder' /\ SecondRequestsExplained'
  BY <1>1 DEF PaymentsMatchOrder, SecondRequestsExplained, Refused, Confirmed, PaymentsOf
<1>6. KitchenKnows'
  BY <1>1 DEF KitchenKnows, Confirmed, PaymentsOf
<1>. QED  BY <1>3, <1>4, <1>5, <1>6

LEMMA MoneyInitLemma == CheckoutInit => MoneyInv
<1>. SUFFICES ASSUME CheckoutInit PROVE MoneyInv
  OBVIOUS
<1>. USE DEF CheckoutInit, PaymentInit, MoneyInv
<1>1. PaymentTypeOK
  BY DEF PaymentTypeOK, PaymentRows, NoRow, IdleIntent, IdleHook, Outcomes
<1>2. RowsOK
  BY DEF RowsOK, NoRow
<1>3. HandlersOK /\ IntentsJustified
  BY DEF HandlersOK, IntentsJustified, IdleIntent, IdleHook
<1>4. PaymentsMatchOrder /\ SecondRequestsExplained /\ KitchenKnows
  BY DEF PaymentsMatchOrder, SecondRequestsExplained, KitchenKnows, Confirmed, PaymentsOf, Final
<1>. QED  BY <1>1, <1>2, <1>3, <1>4

LEMMA MoneyStepLemma == MoneyInv /\ [CheckoutNext]_checkoutVars => MoneyInv'
<1>. SUFFICES ASSUME MoneyInv, [CheckoutNext]_checkoutVars PROVE MoneyInv'
  OBVIOUS
<1>1. CASE UNCHANGED checkoutVars
  BY <1>1, OthersLemma DEF checkoutVars, pricingVars, paymentVars, PricingOnly
<1>2. CASE ChangeMenu
  BY <1>2, OthersLemma DEF ChangeMenu
<1>3. ASSUME NEW c \in Customers, Shop(c) PROVE MoneyInv'
  <2>1. UNCHANGED sold
    BY <1>3 DEF Shop, Look, Submit, PriceLine, InsertFails
  <2>. QED  BY <1>3, <2>1, OthersLemma DEF Shop
<1>4. ASSUME NEW c \in Customers, NEW o \in Orders, Sell(c, o) PROVE MoneyInv'
  BY <1>4, SellLemma
<1>5. CASE Pay
  <2>. UNCHANGED sold
    BY <1>5 DEF Pay
  <2>1. ASSUME NEW i \in Intents,
               \/ \E o \in Orders : ReadOrder(i, o)
               \/ \E p \in Payments, amount \in Amounts : CreatePayment(i, p, amount)
               \/ CreatePaymentFails(i)
        PROVE  MoneyInv'
    BY <2>1, ReadOrderLemma, CreatePaymentLemma, CreatePaymentFailsLemma
  <2>2. ASSUME NEW p \in Payments, LinkPayment(p) PROVE MoneyInv'
    BY <2>2, LinkPaymentLemma
  <2>3. ASSUME NEW h \in Hooks,
               \/ \E p \in Payments, status \in Outcomes : FindPayment(h, p, status)
               \/ WritePayment(h) \/ WritePaymentFails(h)
               \/ WritePaymentUnanswered(h) \/ TellKitchen(h)
        PROVE  MoneyInv'
    BY <2>3, FindPaymentLemma, WritePaymentLemma, WritePaymentFailsLemma,
       WritePaymentUnansweredLemma, TellKitchenLemma
  <2>. QED  BY <1>5, <2>1, <2>2, <2>3 DEF Pay, PaymentNext
<1>6. CASE Crash
  BY <1>6, CrashLemma
<1>. QED  BY <1>1, <1>2, <1>3, <1>4, <1>5, <1>6 DEF CheckoutNext

\* MoneyInv is an invariant: what intents and webhooks read stays good enough for
\* what they write, whatever happens in between (createPaymentIntent, handleWebhook).
THEOREM MoneyInvHolds == CheckoutSpec => []MoneyInv
BY MoneyInitLemma, MoneyStepLemma, PTL DEF CheckoutSpec

\* The tables payments and orders agree about what became of the payments.
THEOREM PaymentsMatchTheirOrder == CheckoutSpec => []PaymentsMatchOrder
<1>1. MoneyInv => PaymentsMatchOrder
  BY DEF MoneyInv
<1>. QED  BY <1>1, MoneyInvHolds, PTL

\* A payment that is asked for a paid order follows a refused one, or a check
\* that was made before the confirmation (createPaymentIntent).
THEOREM SecondRequestsHaveReasons == CheckoutSpec => []SecondRequestsExplained
<1>1. MoneyInv => SecondRequestsExplained
  BY DEF MoneyInv
<1>. QED  BY <1>1, MoneyInvHolds, PTL

\* Only a crash between the commit and the event, or the loss of the commit's
\* answer, keeps a paid order from the kitchen.
THEOREM KitchenHears == CheckoutSpec => []KitchenKnows
<1>1. MoneyInv => KitchenKnows
  BY DEF MoneyInv
<1>. QED  BY <1>1, MoneyInvHolds, PTL

-----------------------------------------------------------------------------
(* Sums over finite sets, as MapThenSumSet of FiniteSetsExt makes them *)

\* The element that is added next.
Any(s) == CHOOSE x \in s : TRUE

\* g adds up f over each subset of S, one element after the other.
Adds(g, f, S) ==
  g = [s \in SUBSET S |-> IF s = {} THEN 0 ELSE f[Any(s)] + g[s \ {Any(s)}]]

\* The sum of f over S.
Total(f, S) == MapThenSumSet(LAMBDA x : f[x], S)

LEMMA AnyLemma == \A s : s # {} => Any(s) \in s
BY DEF Any

\* Where there are sets of a kind, there are smallest ones.
LEMMA SmallestSubset ==
  ASSUME NEW S, IsFiniteSet(S), NEW X, X \subseteq SUBSET S, X # {}
  PROVE  \E s \in X : \A t \in X : t \subseteq s => t = s
<1>. DEFINE R == StrictSubsetOrdering(S)
<1>1. IsWellFoundedOn(R, SUBSET S)
  BY FS_StrictSubsetOrderingWellFounded, FS_FiniteSubsetsOfFinite
<1>2. PICK s \in X : \A t \in X : ~ (<<t, s>> \in R)
  BY <1>1, WFMin
<1>. QED  BY <1>2 DEF StrictSubsetOrdering

\* What is added up does not depend on the set it was begun with.
LEMMA AddersAgree ==
  ASSUME NEW S, IsFiniteSet(S), NEW T, NEW f, NEW e, NEW g, NEW h,
         Adds(g, f, S), Adds(h, e, T), \A x \in S \cap T : f[x] = e[x]
  PROVE  \A s \in SUBSET (S \cap T) : g[s] = h[s]
<1>. DEFINE X == {s \in SUBSET (S \cap T) : g[s] # h[s]}
<1>. SUFFICES ASSUME X # {} PROVE FALSE
  OBVIOUS
<1>1. PICK s \in X : \A t \in X : t \subseteq s => t = s
  <2>1. X \subseteq SUBSET S
    OBVIOUS
  <2>. HIDE DEF X
  <2>. QED  BY <2>1, SmallestSubset
<1>2. s \in SUBSET S /\ s \in SUBSET T
  OBVIOUS
<1>3. s # {}
  BY <1>2 DEF Adds
<1>4. Any(s) \in s
  BY <1>3, AnyLemma
<1>5. s \ {Any(s)} \in SUBSET (S \cap T) /\ s \ {Any(s)} # s
  BY <1>2, <1>4
<1>6. g[s \ {Any(s)}] = h[s \ {Any(s)}]
  BY <1>1, <1>5
<1>7. g[s] = f[Any(s)] + g[s \ {Any(s)}] /\ h[s] = e[Any(s)] + h[s \ {Any(s)}]
  BY <1>2, <1>3 DEF Adds
<1>8. f[Any(s)] = e[Any(s)]
  BY <1>2, <1>4
<1>. QED  BY <1>6, <1>7, <1>8

\* Everything can be added up over a finite set.
LEMMA AdderExists ==
  ASSUME NEW S, IsFiniteSet(S), NEW f
  PROVE  \E g : Adds(g, f, S)
<1>. DEFINE X == {s \in SUBSET S : ~ \E g : Adds(g, f, s)}
<1>. SUFFICES ASSUME X # {} PROVE FALSE
  OBVIOUS
<1>1. PICK s \in X : \A t \in X : t \subseteq s => t = s
  <2>1. X \subseteq SUBSET S
    OBVIOUS
  <2>. HIDE DEF X
  <2>. QED  BY <2>1, SmallestSubset
<1>. DEFINE G(t) == CHOOSE g : Adds(g, f, t)
            h == [t \in SUBSET s |->
                   IF t = {} THEN 0 ELSE f[Any(t)] + G(t \ {Any(t)})[t \ {Any(t)}]]
<1>2. \A t \in SUBSET s : t # s => Adds(G(t), f, t)
  BY <1>1
<1>. HIDE DEF G
<1>3. \A u \in SUBSET s : u # s => h[u] = G(u)[u]
  <2>. SUFFICES ASSUME NEW u \in SUBSET s, u # s PROVE h[u] = G(u)[u]
    OBVIOUS
  <2>1. Adds(G(u), f, u)
    BY <1>2
  <2>2. CASE u = {}
    BY <2>1, <2>2 DEF Adds
  <2>3. CASE u # {}
    <3>. DEFINE v == u \ {Any(u)}
    <3>1. Any(u) \in u
      BY <2>3, AnyLemma
    <3>2. v \in SUBSET s /\ v # s /\ v \in SUBSET u
      BY <3>1
    <3>3. Adds(G(v), f, v)
      BY <1>2, <3>2
    <3>4. IsFiniteSet(v)
      BY <3>2, FS_Subset
    <3>5. G(v)[v] = G(u)[v]
      BY <2>1, <3>2, <3>3, <3>4, AddersAgree
    <3>6. G(u)[u] = f[Any(u)] + G(u)[v]
      BY <2>1, <2>3 DEF Adds
    <3>7. h[u] = f[Any(u)] + G(v)[v]
      BY <2>3
    <3>. QED  BY <3>5, <3>6, <3>7
  <2>. QED  BY <2>2, <2>3
<1>4. \A t \in SUBSET s : h[t] = IF t = {} THEN 0 ELSE f[Any(t)] + h[t \ {Any(t)}]
  <2>. SUFFICES ASSUME NEW t \in SUBSET s, t # {}
                PROVE  h[t] = f[Any(t)] + h[t \ {Any(t)}]
    OBVIOUS
  <2>1. t \ {Any(t)} \in SUBSET s /\ t \ {Any(t)} # s
    BY AnyLemma
  <2>. QED  BY <1>3, <2>1
<1>5. Adds(h, f, s)
  <2>1. h = [t \in SUBSET s |-> h[t]]
    OBVIOUS
  <2>. HIDE DEF h
  <2>. QED  BY <1>4, <2>1 DEF Adds
<1>. QED  BY <1>5

\* What is added up of natural numbers is one, and each element counts once.
LEMMA AdderLemma ==
  ASSUME NEW S, IsFiniteSet(S), NEW f, \A x \in S : f[x] \in Nat, NEW g, Adds(g, f, S)
  PROVE  /\ \A s \in SUBSET S : g[s] \in Nat
         /\ \A s \in SUBSET S : \A x \in S \ s : g[s \cup {x}] = f[x] + g[s]
<1>1. \A s \in SUBSET S : s # {} =>
        Any(s) \in s /\ s \ {Any(s)} \in SUBSET S /\ g[s] = f[Any(s)] + g[s \ {Any(s)}]
  BY AnyLemma DEF Adds
<1>2. \A s \in SUBSET S : g[s] \in Nat
  <2>. DEFINE X == {s \in SUBSET S : g[s] \notin Nat}
  <2>. SUFFICES ASSUME X # {} PROVE FALSE
    OBVIOUS
  <2>1. PICK s \in X : \A t \in X : t \subseteq s => t = s
    <3>1. X \subseteq SUBSET S
      OBVIOUS
    <3>. HIDE DEF X
    <3>. QED  BY <3>1, SmallestSubset
  <2>2. s # {}
    BY DEF Adds
  <2>3. g[s \ {Any(s)}] \in Nat
    BY <1>1, <2>1, <2>2
  <2>4. f[Any(s)] \in Nat
    BY <1>1, <2>2
  <2>5. g[s] = f[Any(s)] + g[s \ {Any(s)}]
    BY <1>1, <2>2
  <2>6. g[s] \in Nat
    <3>. HIDE DEF X
    <3>. QED  BY <2>3, <2>4, <2>5
  <2>. QED  BY <2>6
<1>3. \A s \in SUBSET S : \A x \in S \ s : g[s \cup {x}] = f[x] + g[s]
  <2>. DEFINE X == {s \in SUBSET S : \E x \in S \ s : g[s \cup {x}] # f[x] + g[s]}
  <2>. SUFFICES ASSUME X # {} PROVE FALSE
    OBVIOUS
  <2>1. PICK s \in X : \A t \in X : t \subseteq s => t = s
    <3>1. X \subseteq SUBSET S
      OBVIOUS
    <3>. HIDE DEF X
    <3>. QED  BY <3>1, SmallestSubset
  <2>2. PICK x \in S \ s : g[s \cup {x}] # f[x] + g[s]
    OBVIOUS
  <2>. DEFINE c == Any(s \cup {x})
              t == s \ {c}
  <2>3. c \in s \cup {x} /\ g[s \cup {x}] = f[c] + g[(s \cup {x}) \ {c}]
    BY <1>1
  <2>4. CASE c = x
    <3>1. (s \cup {x}) \ {c} = s
      BY <2>4
    <3>. QED  BY <2>2, <2>3, <2>4, <3>1
  <2>5. CASE c # x
    <3>1. c \in s /\ t \in SUBSET S /\ t \subseteq s /\ t # s
      BY <2>3, <2>5
    <3>2. t \notin X
      BY <2>1, <3>1
    <3>3. g[t \cup {x}] = f[x] + g[t] /\ g[t \cup {c}] = f[c] + g[t]
      BY <3>1, <3>2
    <3>4. (s \cup {x}) \ {c} = t \cup {x} /\ s = t \cup {c}
      BY <2>5, <3>1
    <3>5. f[c] \in Nat /\ f[x] \in Nat /\ g[t] \in Nat
      BY <1>2, <3>1
    <3>6. g[s \cup {x}] = f[c] + (f[x] + g[t])
      BY <2>3, <3>3, <3>4
    <3>7. g[s] = f[c] + g[t]
      BY <3>3, <3>4
    <3>8. f[x] + g[s] = f[x] + (f[c] + g[t])
      BY <3>7
    <3>. HIDE DEF c, t, X
    <3>9. f[c] + (f[x] + g[t]) = f[x] + (f[c] + g[t])
      BY <3>5
    <3>. QED  BY <2>2, <3>6, <3>8, <3>9
  <2>. QED  BY <2>4, <2>5
<1>. QED  BY <1>2, <1>3

\* The sum is what is added up in the end.
LEMMA TotalDef ==
  ASSUME NEW f, NEW S, NEW g,
         g = [s \in SUBSET S |-> IF s = {} THEN 0 ELSE f[Any(s)] + g[s \ {Any(s)}]]
  PROVE  \E h : /\ h = [s \in SUBSET S |-> IF s = {} THEN 0 ELSE f[Any(s)] + h[s \ {Any(s)}]]
                /\ Total(f, S) = h[S]
BY DEF Total, MapThenSumSet, MapThenFoldSet, Any

LEMMA TotalIs ==
  ASSUME NEW S, IsFiniteSet(S), NEW f, NEW T \in SUBSET S, NEW g, Adds(g, f, S)
  PROVE  Total(f, T) = g[T]
<1>1. PICK k : Adds(k, f, T)
  BY AdderExists, FS_Subset
<1>2. PICK h : Adds(h, f, T) /\ Total(f, T) = h[T]
  BY <1>1, TotalDef DEF Adds
<1>3. g[T] = h[T]
  BY <1>2, AddersAgree
<1>. QED  BY <1>2, <1>3

LEMMA TotalEmpty == \A f : Total(f, {}) = 0
<1>. SUFFICES ASSUME NEW f PROVE Total(f, {}) = 0
  OBVIOUS
<1>1. IsFiniteSet({}) /\ {} \in SUBSET {}
  BY FS_EmptySet
<1>2. PICK g : Adds(g, f, {})
  BY <1>1, AdderExists
<1>3. g[{}] = 0
  BY <1>2 DEF Adds
<1>. QED  BY <1>1, <1>2, <1>3, TotalIs

LEMMA TotalNat ==
  ASSUME NEW S, IsFiniteSet(S), NEW f, \A x \in S : f[x] \in Nat
  PROVE  Total(f, S) \in Nat
<1>1. PICK g : Adds(g, f, S)
  BY AdderExists
<1>2. S \in SUBSET S
  OBVIOUS
<1>. QED  BY <1>1, <1>2, TotalIs, AdderLemma

LEMMA TotalAdd ==
  ASSUME NEW S, IsFiniteSet(S), NEW f, NEW x, x \notin S, \A y \in S \cup {x} : f[y] \in Nat
  PROVE  Total(f, S \cup {x}) = f[x] + Total(f, S)
<1>. DEFINE U == S \cup {x}
<1>1. IsFiniteSet(U)
  BY FS_AddElement
<1>2. PICK g : Adds(g, f, U)
  BY <1>1, AdderExists
<1>3. S \in SUBSET U /\ U \in SUBSET U /\ x \in U \ S
  OBVIOUS
<1>4. Total(f, S) = g[S] /\ Total(f, U) = g[U]
  BY <1>1, <1>2, <1>3, TotalIs
<1>5. g[S \cup {x}] = f[x] + g[S]
  <2>. HIDE DEF U
  <2>1. \A y \in U : f[y] \in Nat
    BY DEF U
  <2>. QED  BY <1>1, <1>2, <1>3, <2>1, AdderLemma
<1>. QED  BY <1>4, <1>5

\* Who has as much for each of mine has as much as I have.
LEMMA TotalInjection ==
  ASSUME NEW S, IsFiniteSet(S), NEW T, IsFiniteSet(T), NEW f, NEW e,
         \A x \in S : f[x] \in Nat, \A y \in T : e[y] \in Nat,
         NEW i \in [S -> T], \A x, y \in S : i[x] = i[y] => x = y,
         \A x \in S : f[x] = e[i[x]]
  PROVE  Total(f, S) <= Total(e, T)
<1>. DEFINE X == {s \in SUBSET S : \E t \in SUBSET T : /\ \A x \in s : i[x] \in t
                                                       /\ ~ Total(f, s) <= Total(e, t)}
<1>. SUFFICES X = {}
  OBVIOUS
<1>. SUFFICES ASSUME X # {} PROVE FALSE
  OBVIOUS
<1>1. PICK s \in X : \A r \in X : r \subseteq s => r = s
  <2>1. X \subseteq SUBSET S
    OBVIOUS
  <2>. HIDE DEF X
  <2>. QED  BY <2>1, SmallestSubset
<1>2. PICK t \in SUBSET T : (\A x \in s : i[x] \in t) /\ ~ Total(f, s) <= Total(e, t)
  OBVIOUS
<1>3. Total(f, s) \in Nat /\ Total(e, t) \in Nat
  BY TotalNat, FS_Subset
<1>4. s # {}
  BY <1>2, <1>3, TotalEmpty
<1>5. PICK x \in s : TRUE
  BY <1>4
<1>. DEFINE r == s \ {x}
            q == t \ {i[x]}
<1>6. r \in SUBSET S /\ q \in SUBSET T /\ x \in S \ r /\ i[x] \in T \ q
  OBVIOUS
<1>7. s = r \cup {x} /\ t = q \cup {i[x]} /\ r # s /\ r \subseteq s
  BY <1>2
<1>8. \A y \in r : i[y] \in q
  BY <1>2
<1>9. Total(f, r) <= Total(e, q)
  BY <1>1, <1>6, <1>7, <1>8
<1>10. IsFiniteSet(r) /\ IsFiniteSet(q)
  BY <1>6, FS_Subset
<1>11. Total(f, r) \in Nat /\ Total(e, q) \in Nat
  BY <1>6, <1>10, TotalNat
<1>12. f[x] \in Nat /\ f[x] = e[i[x]]
  BY <1>6
<1>13. Total(f, s) = f[x] + Total(f, r)
  <2>1. \A y \in r \cup {x} : f[y] \in Nat
    BY <1>6
  <2>. HIDE DEF r
  <2>. QED  BY <1>6, <1>7, <1>10, <2>1, TotalAdd
<1>14. Total(e, t) = e[i[x]] + Total(e, q)
  <2>1. \A y \in q \cup {i[x]} : e[y] \in Nat
    BY <1>6
  <2>. HIDE DEF q
  <2>. QED  BY <1>6, <1>7, <1>10, <2>1, TotalAdd
<1>. HIDE DEF r, q, X
<1>. QED  BY <1>2, <1>9, <1>11, <1>12, <1>13, <1>14

LEMMA TotalSame ==
  ASSUME NEW S, IsFiniteSet(S), NEW f, NEW e, \A x \in S : f[x] = e[x]
  PROVE  Total(f, S) = Total(e, S)
<1>1. PICK g : Adds(g, f, S)
  BY AdderExists
<1>2. PICK h : Adds(h, e, S)
  BY AdderExists
<1>3. S \in SUBSET S /\ S \cap S = S
  OBVIOUS
<1>4. g[S] = h[S]
  BY <1>1, <1>2, <1>3, AddersAgree
<1>. QED  BY <1>1, <1>2, <1>3, <1>4, TotalIs

\* Two sums that balance everywhere balance in all.
LEMMA TotalBalance ==
  ASSUME NEW S, IsFiniteSet(S), NEW f, NEW e, NEW g, NEW h,
         \A x \in S : f[x] \in Nat /\ e[x] \in Nat /\ g[x] \in Nat /\ h[x] \in Nat,
         \A x \in S : f[x] + e[x] = g[x] + h[x]
  PROVE  Total(f, S) + Total(e, S) = Total(g, S) + Total(h, S)
<1>. DEFINE X == {s \in SUBSET S : Total(f, s) + Total(e, s) # Total(g, s) + Total(h, s)}
<1>. SUFFICES ASSUME X # {} PROVE FALSE
  OBVIOUS
<1>1. PICK s \in X : \A t \in X : t \subseteq s => t = s
  <2>1. X \subseteq SUBSET S
    OBVIOUS
  <2>. HIDE DEF X
  <2>. QED  BY <2>1, SmallestSubset
<1>2. s # {}
  BY TotalEmpty
<1>3. PICK x \in s : TRUE
  BY <1>2
<1>. DEFINE r == s \ {x}
<1>4. r \in SUBSET S /\ x \in S /\ x \notin r /\ s = r \cup {x} /\ r # s /\ r \subseteq s
  OBVIOUS
<1>5. Total(f, r) + Total(e, r) = Total(g, r) + Total(h, r)
  BY <1>1, <1>4
<1>6. IsFiniteSet(r)
  BY <1>4, FS_Subset
<1>7. Total(f, s) + Total(e, s) # Total(g, s) + Total(h, s)
  OBVIOUS
<1>. HIDE DEF r, X
<1>8. \A y \in r \cup {x} : f[y] \in Nat /\ e[y] \in Nat /\ g[y] \in Nat /\ h[y] \in Nat
  BY <1>4
<1>9. /\ Total(f, s) = f[x] + Total(f, r) /\ Total(e, s) = e[x] + Total(e, r)
      /\ Total(g, s) = g[x] + Total(g, r) /\ Total(h, s) = h[x] + Total(h, r)
  BY <1>4, <1>6, <1>8, TotalAdd
<1>10. /\ Total(f, r) \in Nat /\ Total(e, r) \in Nat
       /\ Total(g, r) \in Nat /\ Total(h, r) \in Nat
  BY <1>6, <1>8, TotalNat
<1>11. f[x] + e[x] = g[x] + h[x] /\ f[x] \in Nat /\ e[x] \in Nat /\ g[x] \in Nat /\ h[x] \in Nat
  BY <1>4
<1>. QED  BY <1>5, <1>7, <1>9, <1>10, <1>11

-----------------------------------------------------------------------------
(* The price of an order *)

USE MenuAssumption

\* What each line adds to the total.
Terms(lines, found) == [k \in DOMAIN found |-> (found[k] + lines[k].extras) * lines[k].quantity]

\* How Sum goes on from the sum over fewer lines.
SumStep(lines, found, g) ==
  [s \in SUBSET DOMAIN found |->
    IF s = {} THEN 0
    ELSE (found[Any(s)] + lines[Any(s)].extras) * lines[Any(s)].quantity + g[s \ {Any(s)}]]

LEMMA SumDef ==
  ASSUME NEW lines, NEW found, NEW g, g = SumStep(lines, found, g)
  PROVE  \E h : h = SumStep(lines, found, h) /\ Sum(lines, found) = h[DOMAIN found]
BY DEF Sum, SumStep, MapThenSumSet, MapThenFoldSet, Any

LEMMA SumIsTotal ==
  ASSUME NEW lines, NEW found, IsFiniteSet(DOMAIN found)
  PROVE  Sum(lines, found) = Total(Terms(lines, found), DOMAIN found)
<1>. DEFINE f == Terms(lines, found)
            D == DOMAIN found
<1>1. \A s \in SUBSET D : s # {} =>
        f[Any(s)] = (found[Any(s)] + lines[Any(s)].extras) * lines[Any(s)].quantity
  BY AnyLemma DEF Terms
<1>. HIDE DEF f
<1>2. \A g : g = SumStep(lines, found, g) <=> Adds(g, f, D)
  BY <1>1 DEF Adds, SumStep
<1>3. PICK k : Adds(k, f, D)
  BY AdderExists
<1>4. k = SumStep(lines, found, k)
  BY <1>2, <1>3
<1>5. PICK h : h = SumStep(lines, found, h) /\ Sum(lines, found) = h[D]
  BY <1>4, SumDef
<1>6. Adds(h, f, D)
  BY <1>2, <1>5
<1>7. D \in SUBSET D
  OBVIOUS
<1>8. Total(f, D) = h[D]
  BY <1>6, <1>7, TotalIs
<1>. QED  BY <1>5, <1>8 DEF f

LEMMA LineNat ==
  ASSUME NEW line \in LineRows, NEW p \in Prices
  PROVE  (p + line.extras) * line.quantity \in Nat
BY DEF LineRows

\* The sum over no lines, and over one line more.
LEMMA SumLemma ==
  ASSUME NEW lines \in Seq(LineRows), NEW n \in Nat, n <= Len(lines),
         NEW found \in [1 .. n -> Prices]
  PROVE  /\ Sum(lines, found) \in Nat
         /\ n = 0 => Sum(lines, found) = 0
         /\ \A p \in Prices : n < Len(lines) =>
              Sum(lines, [k \in 1 .. n + 1 |-> IF k = n + 1 THEN p ELSE found[k]])
                = Sum(lines, found) + (p + lines[n + 1].extras) * lines[n + 1].quantity
<1>1. IsFiniteSet(1 .. n) /\ DOMAIN found = 1 .. n
  BY FS_Interval
<1>2. Sum(lines, found) = Total(Terms(lines, found), 1 .. n)
  BY <1>1, SumIsTotal
<1>3. \A k \in 1 .. n : Terms(lines, found)[k] \in Nat
  <2>. SUFFICES ASSUME NEW k \in 1 .. n PROVE Terms(lines, found)[k] \in Nat
    OBVIOUS
  <2>1. lines[k] \in LineRows /\ found[k] \in Prices
    OBVIOUS
  <2>2. Terms(lines, found)[k] = (found[k] + lines[k].extras) * lines[k].quantity
    BY <1>1 DEF Terms
  <2>. QED  BY <2>1, <2>2, LineNat
<1>4. Sum(lines, found) \in Nat
  BY <1>1, <1>2, <1>3, TotalNat
<1>5. n = 0 => Sum(lines, found) = 0
  <2>. SUFFICES ASSUME n = 0 PROVE Sum(lines, found) = 0
    OBVIOUS
  <2>1. 1 .. n = {}
    OBVIOUS
  <2>. QED  BY <1>2, <2>1, TotalEmpty
<1>6. ASSUME NEW p \in Prices, n < Len(lines)
      PROVE  Sum(lines, [k \in 1 .. n + 1 |-> IF k = n + 1 THEN p ELSE found[k]])
               = Sum(lines, found) + (p + lines[n + 1].extras) * lines[n + 1].quantity
  <2>. DEFINE more == [k \in 1 .. n + 1 |-> IF k = n + 1 THEN p ELSE found[k]]
              f == Terms(lines, more)
              term == (p + lines[n + 1].extras) * lines[n + 1].quantity
  <2>1. /\ IsFiniteSet(1 .. n + 1) /\ DOMAIN more = 1 .. n + 1
        /\ 1 .. n + 1 = (1 .. n) \cup {n + 1} /\ n + 1 \notin 1 .. n
    <3>1. n + 1 \in Int /\ 1 \in Int
      OBVIOUS
    <3>2. IsFiniteSet(1 .. n + 1)
      BY <3>1, FS_Interval
    <3>3. 1 .. n + 1 = (1 .. n) \cup {n + 1} /\ n + 1 \notin 1 .. n
      OBVIOUS
    <3>. QED  BY <3>2, <3>3
  <2>2. lines[n + 1] \in LineRows
    BY <1>6
  <2>3. f[n + 1] = term
    BY <2>1 DEF Terms
  <2>4. term \in Nat
    BY <2>2, LineNat
  <2>5. \A k \in 1 .. n : f[k] = Terms(lines, found)[k]
    BY <1>1, <2>1 DEF Terms
  <2>6. Sum(lines, more) = Total(f, 1 .. n + 1)
    <3>. HIDE DEF more
    <3>. QED  BY <2>1, SumIsTotal
  <2>. HIDE DEF f, term
  <2>7. \A k \in (1 .. n) \cup {n + 1} : f[k] \in Nat
    BY <1>3, <2>3, <2>4, <2>5
  <2>8. Total(f, (1 .. n) \cup {n + 1}) = f[n + 1] + Total(f, 1 .. n)
    BY <1>1, <2>1, <2>7, TotalAdd
  <2>9. Total(f, 1 .. n) = Total(Terms(lines, found), 1 .. n)
    BY <1>1, <2>5, TotalSame
  <2>10. Sum(lines, more) = term + Sum(lines, found)
    BY <1>2, <2>1, <2>3, <2>6, <2>8, <2>9
  <2>. HIDE DEF more
  <2>11. Sum(lines, more) = Sum(lines, found) + term
    BY <1>4, <2>4, <2>10
  <2>. QED  BY <2>11 DEF more, term
<1>. QED  BY <1>4, <1>5, <1>6

-----------------------------------------------------------------------------
(* The menu and the customers *)

LEMMA MenuLemma ==
  ASSUME MenuTypeOK, NEW ordered, Administer(ordered)
  PROVE  MenuTypeOK'
<1>. USE DEF MenuTypeOK, ItemRows, ModifierRows, RowStates, Edit
<1>1. ASSUME NEW k \in Categories, CreateCategory(k) \/ DeleteCategory(k) PROVE MenuTypeOK'
  BY <1>1 DEF CreateCategory, DeleteCategory
<1>2. ASSUME NEW i \in Items, DeleteItem(i) PROVE MenuTypeOK'
  BY <1>2 DEF DeleteItem
<1>3. ASSUME NEW i \in Items, NEW p \in Prices, NEW active \in BOOLEAN, CreateItem(i, p, active)
      PROVE  MenuTypeOK'
  BY <1>3 DEF CreateItem
<1>4. ASSUME NEW i \in Items, NEW p \in Prices, NEW active \in BOOLEAN, UpdateItem(i, p, active)
      PROVE  MenuTypeOK'
  <2>1. item' \in [Items -> ItemRows]
    BY <1>4 DEF UpdateItem
  <2>. QED  BY <1>4, <2>1 DEF UpdateItem
<1>5. ASSUME NEW m \in Modifiers, DeleteModifier(m, ordered) PROVE MenuTypeOK'
  BY <1>5 DEF DeleteModifier
<1>6. ASSUME NEW m \in Modifiers, NEW p \in Prices, CreateModifier(m, p) PROVE MenuTypeOK'
  BY <1>6 DEF CreateModifier
<1>7. ASSUME NEW m \in Modifiers, NEW p \in Prices, UpdateModifier(m, p) PROVE MenuTypeOK'
  BY <1>7 DEF UpdateModifier
<1>. QED  BY <1>1, <1>2, <1>3, <1>4, <1>5, <1>6, <1>7 DEF Administer

LEMMA PageLemma ==
  ASSUME MenuTypeOK, NEW S \in SUBSET Items
  PROVE  Page(S) \in Pages
<1>. DEFINE M == {n \in Modifiers : ItemOf[n] \in S /\ modifier[n].state = "present"}
<1>1. [i \in S |-> item[i].price] \in [S -> Prices]
  BY DEF MenuTypeOK, ItemRows
<1>2. [m \in M |-> modifier[m].price] \in [M -> Prices]
  BY DEF MenuTypeOK, ModifierRows
<1>3. M \in SUBSET Modifiers
  OBVIOUS
<1>4. Page(S).items \in UNION {[T -> Prices] : T \in SUBSET Items}
  BY <1>1 DEF Page
<1>5. Page(S).modifiers \in UNION {[T -> Prices] : T \in SUBSET Modifiers}
  BY <1>2, <1>3 DEF Page
<1>. QED  BY <1>4, <1>5 DEF Page, Pages

LEMMA PickLemma ==
  ASSUME NEW pick \in [item : Items, quantity : 1 .. 99, modifiers : SUBSET Modifiers]
  PROVE  pick.item \in Items /\ pick.quantity \in Nat /\ pick.modifiers \in SUBSET Modifiers
OBVIOUS

LEMMA RowLemma ==
  ASSUME NEW i \in Items, NEW q \in Nat, NEW M \in SUBSET Modifiers, NEW p \in Prices, NEW e \in Nat
  PROVE  [item |-> i, quantity |-> q, modifiers |-> M, price |-> p, extras |-> e] \in LineRows
BY DEF LineRows

\* The lines that are sent, with the prices of the page.
LEMMA LinesLemma ==
  ASSUME NEW page \in Pages, NEW cart \in Carts, OnPage(page, cart)
  PROVE  [k \in DOMAIN cart |-> Line(page, cart[k])] \in Seq(LineRows) \ {<<>>}
<1>. DEFINE Picks == [item : Items, quantity : 1 .. 99, modifiers : SUBSET Modifiers]
<1>1. cart \in Seq(Picks) /\ cart # <<>>
  BY CartsAssumption
<1>2. DOMAIN cart = 1 .. Len(cart) /\ Len(cart) \in Nat \ {0}
      /\ \A k \in 1 .. Len(cart) : cart[k] \in Picks
  <2>. HIDE DEF Picks
  <2>. QED  BY <1>1
<1>3. ASSUME NEW k \in 1 .. Len(cart) PROVE Line(page, cart[k]) \in LineRows
  <2>1. cart[k] \in Picks /\ IsFiniteSet(cart[k].modifiers)
    BY <1>1, <1>2, <1>3, CartsAssumption
  <2>2. PICK S \in SUBSET Items : page.items \in [S -> Prices]
    BY DEF Pages
  <2>3. PICK M \in SUBSET Modifiers : page.modifiers \in [M -> Prices]
    BY DEF Pages
  <2>4. cart[k].item \in S /\ cart[k].modifiers \subseteq M
    BY <1>2, <1>3, <2>2, <2>3 DEF OnPage
  <2>5. page.items[cart[k].item] \in Prices
    BY <2>2, <2>4
  <2>6. Total(page.modifiers, cart[k].modifiers) \in Nat
    <3>1. \A m \in cart[k].modifiers : page.modifiers[m] \in Nat
      BY <2>3, <2>4
    <3>. QED  BY <2>1, <3>1, TotalNat
  <2>7. Line(page, cart[k]) = [item      |-> cart[k].item,
                               quantity  |-> cart[k].quantity,
                               modifiers |-> cart[k].modifiers,
                               price     |-> page.items[cart[k].item],
                               extras    |-> Total(page.modifiers, cart[k].modifiers)]
    BY DEF Line, Total, MapThenSumSet, MapThenFoldSet
  <2>8. /\ cart[k].item \in Items /\ cart[k].quantity \in Nat
        /\ cart[k].modifiers \in SUBSET Modifiers
    BY <2>1, PickLemma
  <2>9. [item      |-> cart[k].item,
         quantity  |-> cart[k].quantity,
         modifiers |-> cart[k].modifiers,
         price     |-> page.items[cart[k].item],
         extras    |-> Total(page.modifiers, cart[k].modifiers)] \in LineRows
    BY <2>5, <2>6, <2>8, RowLemma, Zenon
  <2>. QED  BY <2>7, <2>9, Zenon
<1>. DEFINE lines == [k \in 1 .. Len(cart) |-> Line(page, cart[k])]
<1>4. lines \in [1 .. Len(cart) -> LineRows]
  BY <1>3
<1>. HIDE DEF lines
<1>5. lines \in Seq(LineRows) /\ lines # <<>>
  BY <1>2, <1>4
<1>. QED  BY <1>2, <1>5 DEF lines

-----------------------------------------------------------------------------
(* The loop of create *)

\* What a customer's request relies on, whatever else happens.
TotalOK(c) ==
  LET h == customer[c] IN
  /\ h.next <= Len(h.lines) + 1
  /\ h.pc = "price" <=> h.next <= Len(h.lines)
  /\ \A i \in Items : OnSale(i) \subseteq had[c][i]
  /\ \E found \in FoundSoFar(c) : h.total = Sum(h.lines, found)

LEMMA TotalsLemma == TotalsInv <=> \A c \in Customers : Pricing(c) => TotalOK(c)
BY DEF TotalsInv, TotalOK

\* The types, without those of the payments.
SalesTypeOK ==
  /\ MenuTypeOK /\ FaultsTypeOK
  /\ customer \in [Customers -> CustomerRows]
  /\ had \in [Customers -> [Items -> SUBSET Prices]]
  /\ \A o \in DOMAIN sold : sold[o].total \in Nat

\* Orders and confirmed payments are counted, so there are finitely many.
SalesInv ==
  /\ SalesTypeOK
  /\ TotalsInv
  /\ IsFiniteSet(DOMAIN sold)
  /\ IsFiniteSet(ConfirmedPayments)

LEMMA IdleLemma == Idle \in CustomerRows
<1>1. NoPage.items \in [{} -> Prices] /\ NoPage.modifiers \in [{} -> Prices]
  BY DEF NoPage
<1>2. NoPage.items \in UNION {[S -> Prices] : S \in SUBSET Items}
      /\ NoPage.modifiers \in UNION {[S -> Prices] : S \in SUBSET Modifiers}
  BY <1>1
<1>3. NoPage \in Pages
  BY <1>2 DEF NoPage, Pages
<1>. QED  BY <1>3 DEF Idle, CustomerRows

\* The prices an item has are noted before the next read.
LEMMA WatchLemma ==
  ASSUME Watch, NEW c \in Customers, NEW i \in Items
  PROVE  /\ Pricing(c)' => OnSale(i)' \subseteq had'[c][i]
         /\ Pricing(c)' /\ Pricing(c) => had[c][i] \subseteq had'[c][i]
BY DEF Watch

LEMMA HadLemma ==
  ASSUME SalesTypeOK, MenuTypeOK', Watch
  PROVE  had' \in [Customers -> [Items -> SUBSET Prices]]
<1>1. \A c \in Customers, i \in Items : had'[c][i] \subseteq Prices
  <2>. SUFFICES ASSUME NEW c \in Customers, NEW i \in Items PROVE had'[c][i] \subseteq Prices
    OBVIOUS
  <2>1. had[c][i] \subseteq Prices
    BY DEF SalesTypeOK
  <2>2. had'[c][i] \subseteq OnSale(i)' \cup had[c][i]
    BY DEF Watch
  <2>3. OnSale(i)' \subseteq Prices
    BY DEF OnSale, MenuTypeOK, ItemRows
  <2>. QED  BY <2>1, <2>2, <2>3
<1>2. had' = [c \in Customers |-> [i \in Items |-> had'[c][i]]]
  BY DEF Watch
<1>. QED  BY <1>1, <1>2

\* A request that makes no step goes on from where it was.
LEMMA TotalKept ==
  ASSUME SalesTypeOK, SalesTypeOK', TotalsInv, Watch, NEW c \in Customers,
         customer'[c] = customer[c], Pricing(c)
  PROVE  TotalOK(c)'
<1>1. TotalOK(c)
  BY TotalsLemma
<1>2. Pricing(c)'
  BY DEF Pricing
<1>3. \A i \in Items : OnSale(i)' \subseteq had'[c][i] /\ had[c][i] \subseteq had'[c][i]
  BY <1>2, WatchLemma
<1>4. PICK found \in FoundSoFar(c) : customer[c].total = Sum(customer[c].lines, found)
  BY <1>1 DEF TotalOK
<1>5. found \in FoundSoFar(c)'
  <2>1. \A k \in 1 .. customer[c].next - 1 : customer[c].lines[k].item \in Items
    <3>1. customer[c].lines \in Seq(LineRows) /\ customer[c].next \in Nat
      BY DEF SalesTypeOK, CustomerRows
    <3>2. customer[c].next <= Len(customer[c].lines) + 1
      BY <1>1 DEF TotalOK
    <3>3. \A k \in 1 .. customer[c].next - 1 : customer[c].lines[k] \in LineRows
      BY <3>1, <3>2
    <3>. QED  BY <3>3 DEF LineRows
  <2>2. \A k \in DOMAIN found : found[k] \in had'[c][customer[c].lines[k].item]
    BY <1>3, <1>4, <2>1 DEF FoundSoFar
  <2>3. found \in [1 .. customer[c].next - 1 -> Prices]
    BY <1>4 DEF FoundSoFar
  <2>. QED  BY <2>2, <2>3 DEF FoundSoFar
<1>. QED  BY <1>1, <1>3, <1>4, <1>5 DEF TotalOK

\* Where a step of one customer's request leaves the requests.
LEMMA CustomerLemma ==
  ASSUME SalesInv, NEW c \in Customers, NEW new \in CustomerRows,
         customer' = [customer EXCEPT ![c] = new],
         Watch, MenuTypeOK', FaultsTypeOK', UNCHANGED <<sold, outcomes>>,
         new.pc \in {"price", "insert"} => TotalOK(c)'
  PROVE  SalesInv'
<1>1. SalesTypeOK'
  <2>1. customer' \in [Customers -> CustomerRows]
    BY DEF SalesInv, SalesTypeOK
  <2>2. had' \in [Customers -> [Items -> SUBSET Prices]]
    BY HadLemma DEF SalesInv
  <2>. QED  BY <2>1, <2>2 DEF SalesInv, SalesTypeOK
<1>2. \A d \in Customers : Pricing(d)' => TotalOK(d)'
  <2>. SUFFICES ASSUME NEW d \in Customers, Pricing(d)' PROVE TotalOK(d)'
    OBVIOUS
  <2>1. CASE d = c
    <3>1. new.pc \in {"price", "insert"}
      BY <2>1 DEF Pricing, SalesInv, SalesTypeOK
    <3>. QED  BY <2>1, <3>1
  <2>2. CASE d # c
    <3>1. customer'[d] = customer[d] /\ Pricing(d)
      BY <2>2 DEF Pricing, SalesInv, SalesTypeOK
    <3>. QED  BY <1>1, <3>1, TotalKept DEF SalesInv
  <2>. QED  BY <2>1, <2>2
<1>3. TotalsInv'
  BY <1>2 DEF TotalsInv, TotalOK
<1>4. IsFiniteSet(DOMAIN sold') /\ IsFiniteSet(ConfirmedPayments')
  BY DEF SalesInv, ConfirmedPayments
<1>. QED  BY <1>1, <1>3, <1>4 DEF SalesInv

LEMMA LookLemma ==
  ASSUME SalesInv, NEW c \in Customers, Look(c), Watch, UNCHANGED <<menuVars, outcomes>>
  PROVE  SalesInv'
<1>1. PICK S \in {Listed, ListedByCategory} :
        customer' = [customer EXCEPT ![c].pc = "choose", ![c].page = Page(S)]
  BY DEF Look
<1>2. Page(S) \in Pages
  <2>1. S \in SUBSET Items
    BY DEF Listed, ListedByCategory
  <2>. QED  BY <2>1, PageLemma DEF SalesInv, SalesTypeOK
<1>. DEFINE new == [Idle EXCEPT !.pc = "choose", !.page = Page(S)]
<1>3. new \in CustomerRows
  BY <1>2, IdleLemma DEF Idle, CustomerRows
<1>4. customer' = [customer EXCEPT ![c] = new]
  BY <1>1 DEF Look
<1>5. MenuTypeOK' /\ FaultsTypeOK' /\ UNCHANGED <<sold, outcomes>>
  BY DEF SalesInv, SalesTypeOK, MenuTypeOK, FaultsTypeOK, Look, menuVars
<1>6. new.pc = "choose"
  BY DEF Idle
<1>. HIDE DEF new
<1>. QED  BY <1>3, <1>4, <1>5, <1>6, CustomerLemma

\* The total begins with nothing.
LEMMA SubmitLemma ==
  ASSUME SalesInv, NEW c \in Customers, NEW cart \in Carts, Submit(c, cart), Watch,
         UNCHANGED <<menuVars, outcomes>>
  PROVE  SalesInv'
<1>. DEFINE page  == customer[c].page
            lines == [k \in DOMAIN cart |-> Line(page, cart[k])]
            new   == [Idle EXCEPT !.pc = "price", !.lines = lines]
<1>1. customer' = [customer EXCEPT ![c] = new]
  BY DEF Submit
<1>2. lines \in Seq(LineRows) \ {<<>>}
  <2>1. page \in Pages /\ OnPage(page, cart)
    BY DEF Submit, SalesInv, SalesTypeOK, CustomerRows
  <2>. HIDE DEF page
  <2>. QED  BY <2>1, LinesLemma
<1>. HIDE DEF lines
<1>3. new \in CustomerRows
  BY <1>2, IdleLemma DEF Idle, CustomerRows
<1>4. MenuTypeOK' /\ FaultsTypeOK' /\ UNCHANGED <<sold, outcomes>>
  BY DEF SalesInv, SalesTypeOK, MenuTypeOK, FaultsTypeOK, Submit, menuVars
<1>5. /\ customer'[c] = new
      /\ new.pc = "price" /\ new.lines = lines /\ new.next = 1 /\ new.total = 0
  BY <1>1 DEF SalesInv, SalesTypeOK, Idle
<1>6. TotalOK(c)'
  <2>1. \A i \in Items : OnSale(i)' \subseteq had'[c][i]
    BY <1>5, WatchLemma DEF Pricing
  <2>2. Len(lines) \in Nat \ {0}
    BY <1>2
  <2>. DEFINE found == [k \in 1 .. 0 |-> 0]
  <2>3. found \in [1 .. 0 -> Prices] /\ Sum(lines, found) = 0
    <3>1. found \in [1 .. 0 -> Prices]
      OBVIOUS
    <3>2. lines \in Seq(LineRows) /\ 0 \in Nat /\ 0 <= Len(lines)
      BY <1>2, <2>2
    <3>. HIDE DEF found
    <3>. QED  BY <3>1, <3>2, SumLemma
  <2>4. found \in FoundSoFar(c)'
    <3>1. customer'[c].next - 1 = 0
      BY <1>5
    <3>. QED  BY <3>1 DEF FoundSoFar
  <2>. HIDE DEF found
  <2>. QED  BY <1>5, <2>1, <2>2, <2>3, <2>4 DEF TotalOK
<1>. HIDE DEF new
<1>. QED  BY <1>1, <1>3, <1>4, <1>6, CustomerLemma

\* A request that ends.
LEMMA EndCreateLemma ==
  ASSUME SalesInv, NEW c \in Customers, EndCreate(c), Watch,
         MenuTypeOK', FaultsTypeOK', UNCHANGED <<sold, outcomes>>
  PROVE  SalesInv'
<1>1. Idle.pc = "idle"
  BY DEF Idle
<1>. QED  BY <1>1, IdleLemma, CustomerLemma DEF EndCreate

\* The next line adds a price its item has now.
LEMMA PriceLineLemma ==
  ASSUME SalesInv, NEW c \in Customers, PriceLine(c), Watch, UNCHANGED <<menuVars, outcomes>>
  PROVE  SalesInv'
<1>. DEFINE h    == customer[c]
            line == h.lines[h.next]
            term == (UnitPrice(line) + line.extras) * line.quantity
            new  == [h EXCEPT !.total = h.total + term,
                              !.next  = h.next + 1,
                              !.pc    = IF Last(h) THEN "insert" ELSE "price"]
<1>1. MenuTypeOK' /\ FaultsTypeOK' /\ UNCHANGED <<sold, outcomes>>
  BY FaultsAssumption
     DEF SalesInv, SalesTypeOK, MenuTypeOK, FaultsTypeOK, PriceLine, menuVars, NoFault, Fault
<1>2. CASE EndCreate(c)
  BY <1>1, <1>2, EndCreateLemma
<1>3. CASE Accepted(line.item) /\ customer' = [customer EXCEPT ![c] = new]
  <2>1. h \in CustomerRows /\ h.pc = "price" /\ Pricing(c)
    BY DEF PriceLine, SalesInv, SalesTypeOK, Pricing
  <2>2. TotalOK(c)
    BY <2>1, TotalsLemma DEF SalesInv
  <2>3. /\ h.next \in Nat \ {0} /\ h.next <= Len(h.lines)
        /\ h.lines \in Seq(LineRows) /\ h.total \in Nat /\ Len(h.lines) \in Nat
    BY <2>1, <2>2 DEF CustomerRows, TotalOK
  <2>4. line \in LineRows /\ line.item \in Items
    <3>1. \A l \in LineRows : l.item \in Items
      BY DEF LineRows
    <3>2. line \in LineRows
      BY <2>3
    <3>. QED  BY <3>1, <3>2
  <2>5. UnitPrice(line) \in Prices /\ UnitPrice(line) \in had[c][line.item]
    <3>1. item[line.item] \in ItemRows
      BY <2>4 DEF SalesInv, SalesTypeOK, MenuTypeOK
    <3>2. OnSale(line.item) = {UnitPrice(line)}
      BY <1>3 DEF OnSale, UnitPrice
    <3>. QED  BY <2>2, <2>4, <3>1, <3>2 DEF UnitPrice, ItemRows, TotalOK
  <2>6. term \in Nat
    BY <2>4, <2>5, LineNat
  <2>7. PICK found \in FoundSoFar(c) : h.total = Sum(h.lines, found)
    BY <2>2 DEF TotalOK
  <2>8. /\ new.lines = h.lines /\ new.next = h.next + 1 /\ new.total = h.total + term
        /\ new.pc = IF Last(h) THEN "insert" ELSE "price"
        /\ new \in CustomerRows
    <3>. DEFINE pc == IF Last(h) THEN "insert" ELSE "price"
    <3>1. pc \in {"price", "insert"}
      OBVIOUS
    <3>2. h.next + 1 \in Nat \ {0} /\ h.total + term \in Nat
      BY <2>3, <2>6
    <3>. HIDE DEF pc, term
    <3>3. new \in CustomerRows
      BY <2>1, <3>1, <3>2 DEF CustomerRows
    <3>4. new.lines = h.lines
      BY <2>1 DEF CustomerRows
    <3>5. new.next = h.next + 1
      BY <2>1 DEF CustomerRows
    <3>6. new.total = h.total + term
      BY <2>1 DEF CustomerRows
    <3>7. new.pc = IF Last(h) THEN "insert" ELSE "price"
      BY <2>1 DEF CustomerRows
    <3>. QED  BY <3>3, <3>4, <3>5, <3>6, <3>7
  <2>. DEFINE n    == h.next - 1
              more == [k \in 1 .. n + 1 |-> IF k = n + 1 THEN UnitPrice(line) ELSE found[k]]
  <2>9. n \in Nat /\ n < Len(h.lines) /\ n + 1 = h.next /\ found \in [1 .. n -> Prices]
        /\ \A k \in 1 .. n : found[k] \in had[c][h.lines[k].item]
    <3>1. n \in Nat /\ n < Len(h.lines) /\ n + 1 = h.next
      BY <2>3
    <3>2. found \in [1 .. n -> Prices] /\ \A k \in DOMAIN found : found[k] \in had[c][h.lines[k].item]
      BY <2>7 DEF FoundSoFar
    <3>. HIDE DEF n
    <3>. QED  BY <3>1, <3>2
  <2>10. Sum(h.lines, more) = h.total + term
    <3>1. n <= Len(h.lines)
      BY <2>3, <2>9
    <3>. HIDE DEF n
    <3>2. Sum(h.lines, more) = Sum(h.lines, found)
             + (UnitPrice(line) + h.lines[n + 1].extras) * h.lines[n + 1].quantity
      BY <2>3, <2>5, <2>9, <3>1, SumLemma
    <3>. QED  BY <2>7, <2>9, <3>2
  <2>11. customer'[c] = new
    BY <1>3 DEF SalesInv, SalesTypeOK
  <2>12. Pricing(c)' /\ Pricing(c)
    BY <2>1, <2>8, <2>11 DEF Pricing
  <2>13. \A i \in Items : OnSale(i)' \subseteq had'[c][i] /\ had[c][i] \subseteq had'[c][i]
    BY <2>12, WatchLemma
  <2>14. \A k \in 1 .. n + 1 : more[k] \in Prices /\ more[k] \in had'[c][h.lines[k].item]
    <3>. SUFFICES ASSUME NEW k \in 1 .. n + 1
                  PROVE  more[k] \in Prices /\ more[k] \in had'[c][h.lines[k].item]
      OBVIOUS
    <3>1. h.lines[k] \in LineRows /\ (k = n + 1 => h.lines[k] = line)
      BY <2>3, <2>9
    <3>2. h.lines[k].item \in Items
      BY <3>1 DEF LineRows
    <3>3. more[k] \in Prices /\ more[k] \in had[c][h.lines[k].item]
      <4>1. CASE k = n + 1
        BY <2>5, <3>1, <4>1
      <4>2. CASE k # n + 1
        <5>1. k \in 1 .. n /\ more[k] = found[k]
          BY <2>9, <4>2
        <5>. HIDE DEF more, n
        <5>. QED  BY <2>9, <5>1
      <4>. QED  BY <4>1, <4>2
    <3>. QED  BY <2>13, <3>2, <3>3
  <2>15. more \in FoundSoFar(c)'
    <3>1. more \in [1 .. n + 1 -> Prices]
      BY <2>14
    <3>2. customer'[c].next - 1 = n + 1 /\ customer'[c].lines = h.lines
      BY <2>3, <2>8, <2>11
    <3>3. \A k \in DOMAIN more : more[k] \in had'[c][customer'[c].lines[k].item]
      BY <2>14, <3>2
    <3>. HIDE DEF more, n
    <3>. QED  BY <3>1, <3>2, <3>3 DEF FoundSoFar
  <2>. HIDE DEF more, n, new, term
  <2>16. TotalOK(c)'
    <3>1. /\ customer'[c].next <= Len(customer'[c].lines) + 1
          /\ customer'[c].pc = "price" <=> customer'[c].next <= Len(customer'[c].lines)
      BY <2>3, <2>8, <2>11 DEF Last
    <3>2. customer'[c].total = Sum(customer'[c].lines, more)
      BY <2>8, <2>10, <2>11
    <3>. QED  BY <2>13, <2>15, <3>1, <3>2 DEF TotalOK
  <2>. QED  BY <1>1, <1>3, <2>8, <2>16, CustomerLemma
<1>. QED  BY <1>2, <1>3 DEF PriceLine

LEMMA InsertFailsLemma ==
  ASSUME SalesInv, NEW c \in Customers, InsertFails(c), Watch, UNCHANGED <<menuVars, outcomes>>
  PROVE  SalesInv'
<1>1. MenuTypeOK' /\ FaultsTypeOK' /\ UNCHANGED <<sold, outcomes>>
  BY FaultsAssumption
     DEF SalesInv, SalesTypeOK, MenuTypeOK, FaultsTypeOK, InsertFails, menuVars, NoFault, Fault
<1>. QED  BY <1>1, EndCreateLemma DEF InsertFails

\* Requests that make no step, or are over.
LEMMA KeptLemma ==
  ASSUME SalesInv, Watch, MenuTypeOK', FaultsTypeOK',
         customer' \in [Customers -> CustomerRows],
         \A c \in Customers : Pricing(c)' => customer'[c] = customer[c],
         \A o \in DOMAIN sold' : sold'[o].total \in Nat,
         IsFiniteSet(DOMAIN sold'), IsFiniteSet(ConfirmedPayments')
  PROVE  SalesInv'
<1>1. SalesTypeOK'
  BY HadLemma DEF SalesInv, SalesTypeOK
<1>2. \A c \in Customers : Pricing(c)' => TotalOK(c)'
  <2>. SUFFICES ASSUME NEW c \in Customers, Pricing(c)' PROVE TotalOK(c)'
    OBVIOUS
  <2>1. customer'[c] = customer[c] /\ Pricing(c)
    BY DEF Pricing
  <2>. QED  BY <1>1, <2>1, TotalKept DEF SalesInv
<1>3. TotalsInv'
  BY <1>2 DEF TotalsInv, TotalOK
<1>. QED  BY <1>1, <1>3 DEF SalesInv

LEMMA ChangeMenuLemma == SalesInv /\ ChangeMenu => SalesInv'
<1>. SUFFICES ASSUME SalesInv, ChangeMenu PROVE SalesInv'
  OBVIOUS
<1>1. /\ Administer(Ordered) /\ Watch /\ FaultsTypeOK'
      /\ UNCHANGED <<customer, sold, outcomes>>
  BY DEF ChangeMenu, PricingOnly, SalesInv, SalesTypeOK, FaultsTypeOK
<1>2. MenuTypeOK'
  BY <1>1, MenuLemma DEF SalesInv, SalesTypeOK
<1>3. /\ IsFiniteSet(DOMAIN sold') /\ IsFiniteSet(ConfirmedPayments')
      /\ customer' \in [Customers -> CustomerRows]
      /\ \A o \in DOMAIN sold' : sold'[o].total \in Nat
  BY <1>1 DEF SalesInv, SalesTypeOK, ConfirmedPayments
<1>. QED  BY <1>1, <1>2, <1>3, KeptLemma

\* The order has the total of the request.
LEMMA InsertLemma ==
  ASSUME SalesInv, NEW c \in Customers, NEW o \in Orders, Sell(c, o)
  PROVE  SalesInv'
<1>1. /\ customer' = [customer EXCEPT ![c] = Idle]
      /\ DOMAIN sold' = DOMAIN sold \cup {o}
      /\ \A q \in DOMAIN sold' :
           sold'[q] = IF q = o THEN [lines |-> customer[c].lines, total |-> customer[c].total]
                               ELSE sold[q]
  BY DEF Sell, InsertOrder, EndCreate
<1>2. Watch /\ MenuTypeOK' /\ FaultsTypeOK' /\ UNCHANGED outcomes
  BY DEF Sell, InsertOrder, NoFault, SalesInv, SalesTypeOK, MenuTypeOK, FaultsTypeOK, menuVars
<1>3. customer[c].total \in Nat
  BY DEF SalesInv, SalesTypeOK, CustomerRows
<1>4. \A q \in DOMAIN sold' : sold'[q].total \in Nat
  BY <1>1, <1>3 DEF SalesInv, SalesTypeOK
<1>5. IsFiniteSet(DOMAIN sold') /\ IsFiniteSet(ConfirmedPayments')
  BY <1>1, <1>2, FS_AddElement DEF SalesInv, ConfirmedPayments
<1>6. customer' \in [Customers -> CustomerRows]
  BY <1>1, IdleLemma DEF SalesInv, SalesTypeOK
<1>7. \A d \in Customers : Pricing(d)' => customer'[d] = customer[d]
  <2>1. Idle.pc = "idle"
    BY DEF Idle
  <2>. QED  BY <1>1, <2>1 DEF Pricing, SalesInv, SalesTypeOK
<1>. QED  BY <1>2, <1>4, <1>5, <1>6, <1>7, KeptLemma

LEMMA DieLemma == SalesInv /\ Crash => SalesInv'
<1>. SUFFICES ASSUME SalesInv, Crash PROVE SalesInv'
  OBVIOUS
<1>1. /\ customer' = [c \in Customers |-> IF Pricing(c) THEN Idle ELSE customer[c]]
      /\ Watch /\ UNCHANGED <<menuVars, sold, outcomes>>
  BY DEF Crash, PaymentHandlersDie
<1>2. MenuTypeOK' /\ FaultsTypeOK'
  BY <1>1, FaultsAssumption DEF Crash, Fault, SalesInv, SalesTypeOK, MenuTypeOK, FaultsTypeOK, menuVars
<1>3. customer' \in [Customers -> CustomerRows]
  BY <1>1, IdleLemma DEF SalesInv, SalesTypeOK
<1>4. \A d \in Customers : Pricing(d)' => customer'[d] = customer[d]
  <2>1. Idle.pc = "idle"
    BY DEF Idle
  <2>. QED  BY <1>1, <2>1 DEF Pricing
<1>5. /\ IsFiniteSet(DOMAIN sold') /\ IsFiniteSet(ConfirmedPayments')
      /\ \A o \in DOMAIN sold' : sold'[o].total \in Nat
  BY <1>1 DEF SalesInv, SalesTypeOK, ConfirmedPayments
<1>. QED  BY <1>1, <1>2, <1>3, <1>4, <1>5, KeptLemma

\* One payment at a time is confirmed.
LEMMA ConfirmLemma ==
  ASSUME SalesInv, MoneyInv, PaymentNext
  PROVE  IsFiniteSet(ConfirmedPayments') /\ FaultsTypeOK'
<1>. USE DEF SalesInv, SalesTypeOK
<1>1. ASSUME NEW h \in Hooks, WritePayment(h) \/ WritePaymentUnanswered(h)
      PROVE  IsFiniteSet(ConfirmedPayments') /\ FaultsTypeOK'
  <2>. DEFINE p == hook[h].payment
  <2>1. outcomes' = [outcomes EXCEPT ![p] = @ \cup ({hook[h].status} \cap Final)]
    BY <1>1 DEF WritePayment, WritePaymentUnanswered, RecordOutcome
  <2>2. \A q \in Payments : q # p => outcomes'[q] = outcomes[q]
    BY <2>1 DEF MoneyInv, PaymentTypeOK
  <2>3. ConfirmedPayments' \in SUBSET (ConfirmedPayments \cup {p})
    BY <2>2 DEF ConfirmedPayments
  <2>4. IsFiniteSet(ConfirmedPayments \cup {p})
    BY FS_AddElement
  <2>5. IsFiniteSet(ConfirmedPayments')
    BY <2>3, <2>4, FS_Subset
  <2>6. FaultsTypeOK'
    BY <1>1, FaultsAssumption DEF WritePayment, WritePaymentUnanswered, Fault, FaultsTypeOK
  <2>. QED  BY <2>5, <2>6
<1>2. ASSUME UNCHANGED outcomes, NoFault \/ Fault("intent") \/ Fault("webhook")
      PROVE  IsFiniteSet(ConfirmedPayments') /\ FaultsTypeOK'
  BY <1>2, FaultsAssumption DEF ConfirmedPayments, FaultsTypeOK, Fault, NoFault
<1>3. CASE \E i \in Intents : \/ \E o \in Orders : ReadOrder(i, o)
                              \/ \E p \in Payments, amount \in Amounts : CreatePayment(i, p, amount)
                              \/ CreatePaymentFails(i)
  BY <1>2, <1>3 DEF ReadOrder, CreatePayment, CreatePaymentFails, NoFault
<1>4. CASE \E p \in Payments : LinkPayment(p)
  BY <1>2, <1>4 DEF LinkPayment, NoFault
<1>5. ASSUME NEW h \in Hooks,
             \/ \E p \in Payments, status \in Outcomes : FindPayment(h, p, status)
             \/ WritePaymentFails(h) \/ TellKitchen(h)
      PROVE  IsFiniteSet(ConfirmedPayments') /\ FaultsTypeOK'
  BY <1>2, <1>5 DEF FindPayment, WritePaymentFails, TellKitchen, NoFault
<1>. QED  BY <1>1, <1>3, <1>4, <1>5 DEF PaymentNext

LEMMA PayLemma == SalesInv /\ MoneyInv /\ Pay => SalesInv'
<1>. SUFFICES ASSUME SalesInv, MoneyInv, Pay PROVE SalesInv'
  OBVIOUS
<1>1. PaymentNext /\ UNCHANGED <<category, item, modifier, edits, customer, sold, had>>
  BY DEF Pay, menuVars
<1>2. SalesTypeOK'
  BY <1>1, ConfirmLemma DEF SalesInv, SalesTypeOK, MenuTypeOK
<1>3. TotalsInv'
  BY <1>1 DEF SalesInv, TotalsInv, Pricing, OnSale, Accepted, ItemFound, FoundSoFar
<1>. QED  BY <1>1, <1>2, <1>3, ConfirmLemma DEF SalesInv

LEMMA SmallestPrice == Min(Prices) \in Prices
<1>1. PICK m \in Prices : TRUE
  OBVIOUS
<1>. DEFINE X == {0 .. n : n \in {k \in Prices : k <= m}}
<1>2. IsFiniteSet(0 .. m)
  BY <1>1, FS_Interval
<1>3. X \subseteq SUBSET (0 .. m) /\ X # {}
  BY <1>1
<1>. DEFINE M == 0 .. m
<1>4. PICK s \in X : \A r \in X : r \subseteq s => r = s
  <2>1. IsFiniteSet(M) /\ X \subseteq SUBSET M /\ X # {}
    BY <1>2, <1>3
  <2>. HIDE DEF X, M
  <2>. QED  BY <2>1, SmallestSubset
<1>5. PICK n \in Prices : s = 0 .. n /\ n <= m
  OBVIOUS
<1>6. \A y \in Prices : n <= y
  <2>. SUFFICES ASSUME NEW y \in Prices, ~ n <= y PROVE FALSE
    OBVIOUS
  <2>1. y \in Nat /\ n \in Nat /\ m \in Nat /\ y < n
    OBVIOUS
  <2>2. 0 .. y \in X /\ 0 .. y \subseteq s
    BY <1>5, <2>1
  <2>3. 0 .. y = 0 .. n
    <3>. HIDE DEF X
    <3>. QED  BY <1>4, <1>5, <2>2
  <2>4. n \in 0 .. n
    BY <2>1
  <2>. QED  BY <2>1, <2>3, <2>4
<1>. QED  BY <1>6 DEF Min

LEMMA SalesInitLemma == CheckoutInit => SalesInv
<1>. SUFFICES ASSUME CheckoutInit PROVE SalesInv
  OBVIOUS
<1>1. MenuTypeOK
  <2>1. \A s \in RowStates, b \in BOOLEAN : [state |-> s, price |-> Min(Prices), isActive |-> b] \in ItemRows
    BY SmallestPrice DEF ItemRows
  <2>2. \A s \in RowStates : [state |-> s, price |-> Min(Prices)] \in ModifierRows
    BY SmallestPrice DEF ModifierRows
  <2>3. PICK items \in {"unused", "present"}, modifiers \in {"unused", "present"} :
           /\ category = [k \in Categories |-> items]
           /\ item = [i \in Items |->
                [state |-> items, price |-> Min(Prices), isActive |-> items = "present"]]
           /\ modifier = [m \in Modifiers |-> [state |-> modifiers, price |-> Min(Prices)]]
    BY DEF CheckoutInit
  <2>4. items \in RowStates /\ modifiers \in RowStates /\ (items = "present") \in BOOLEAN
    BY DEF RowStates
  <2>5. category \in [Categories -> RowStates] /\ modifier \in [Modifiers -> ModifierRows]
    BY <2>2, <2>3, <2>4
  <2>6. [state |-> items, price |-> Min(Prices), isActive |-> items = "present"] \in ItemRows
    BY <2>1, <2>4, Zenon
  <2>7. item \in [Items -> ItemRows]
    BY <2>3, <2>6
  <2>8. edits \in 0 .. MaxEdits
    BY DEF CheckoutInit
  <2>. QED  BY <2>5, <2>7, <2>8 DEF MenuTypeOK
<1>2. customer = [c \in Customers |-> Idle] /\ sold = <<>>
      /\ had = [c \in Customers |-> [i \in Items |-> {}]]
      /\ outcomes = [p \in Payments |-> {}] /\ faults = 0
  BY DEF CheckoutInit, PaymentInit, FaultsInit
<1>3. FaultsTypeOK
  BY <1>2, FaultsAssumption DEF FaultsTypeOK
<1>4. customer \in [Customers -> CustomerRows] /\ had \in [Customers -> [Items -> SUBSET Prices]]
  BY <1>2, IdleLemma
<1>5. DOMAIN sold = {} /\ ConfirmedPayments = {}
  BY <1>2 DEF ConfirmedPayments
<1>6. TotalsInv
  BY <1>2 DEF TotalsInv, Pricing, Idle
<1>. QED  BY <1>1, <1>3, <1>4, <1>5, <1>6, FS_EmptySet DEF SalesInv, SalesTypeOK

LEMMA SalesStepLemma == SalesInv /\ MoneyInv /\ [CheckoutNext]_checkoutVars => SalesInv'
<1>. SUFFICES ASSUME SalesInv, MoneyInv, [CheckoutNext]_checkoutVars PROVE SalesInv'
  OBVIOUS
<1>1. CASE UNCHANGED checkoutVars
  <2>1. UNCHANGED <<category, item, modifier, edits, customer, sold, had, faults, outcomes>>
    BY <1>1 DEF checkoutVars, pricingVars, paymentVars, menuVars
  <2>2. SalesTypeOK' /\ TotalsInv'
    BY <2>1 DEF SalesInv, SalesTypeOK, MenuTypeOK, FaultsTypeOK, TotalsInv, Pricing, OnSale,
                Accepted, ItemFound, FoundSoFar
  <2>. QED  BY <2>1, <2>2 DEF SalesInv, ConfirmedPayments
<1>2. CASE ChangeMenu
  BY <1>2, ChangeMenuLemma
<1>3. ASSUME NEW c \in Customers, Shop(c) PROVE SalesInv'
  <2>1. UNCHANGED <<menuVars, outcomes>> /\ Watch
    BY <1>3 DEF Shop, PricingOnly
  <2>. QED  BY <1>3, <2>1, LookLemma, SubmitLemma, PriceLineLemma, InsertFailsLemma DEF Shop
<1>4. ASSUME NEW c \in Customers, NEW o \in Orders, Sell(c, o) PROVE SalesInv'
  BY <1>4, InsertLemma
<1>5. CASE Pay
  BY <1>5, PayLemma
<1>6. CASE Crash
  BY <1>6, DieLemma
<1>. QED  BY <1>1, <1>2, <1>3, <1>4, <1>5, <1>6 DEF CheckoutNext

\* SalesInv is an invariant: whatever happens to the menu, the loop of create has
\* added up prices that its items had since it began (OrdersService.create).
THEOREM SalesInvHolds == CheckoutSpec => []SalesInv
<1>1. CheckoutSpec => []MoneyInv
  BY MoneyInvHolds
<1>2. CheckoutInit => SalesInv
  BY SalesInitLemma
<1>3. SalesInv /\ MoneyInv /\ [CheckoutNext]_checkoutVars => SalesInv'
  BY SalesStepLemma
<1>. QED  BY <1>1, <1>2, <1>3, PTL DEF CheckoutSpec

\* The rows of the menu, of orders and of payments have their types, and an order
\* has a payment status from when it is inserted.
THEOREM CheckoutTypes == CheckoutSpec => []CheckoutTypeOK
<1>1. MoneyInv /\ SalesInv => CheckoutTypeOK
  BY DEF MoneyInv, RowsOK, SalesInv, SalesTypeOK, CheckoutTypeOK
<1>. QED  BY <1>1, MoneyInvHolds, SalesInvHolds, PTL

-----------------------------------------------------------------------------
(* What an order costs *)

LEMMA SoldLemma ==
  ASSUME SalesInv, NEW c \in Customers, NEW o \in Orders, Sell(c, o)
  PROVE  \E found \in Findings(c) : sold'[o].total = Sum(sold'[o].lines, found)
<1>. DEFINE h == customer[c]
<1>1. h.pc = "insert" /\ h \in CustomerRows /\ Pricing(c)
  BY DEF Sell, InsertOrder, Pricing, SalesInv, SalesTypeOK
<1>2. TotalOK(c)
  BY <1>1, TotalsLemma DEF SalesInv
<1>3. h.next \in Nat /\ h.lines \in Seq(LineRows) /\ Len(h.lines) \in Nat
  BY <1>1 DEF CustomerRows
<1>4. h.next - 1 = Len(h.lines)
  BY <1>1, <1>2, <1>3 DEF TotalOK
<1>5. PICK found \in FoundSoFar(c) : h.total = Sum(h.lines, found)
  BY <1>2 DEF TotalOK
<1>6. DOMAIN h.lines = 1 .. Len(h.lines)
  BY <1>3
<1>7. found \in Findings(c)
  BY <1>4, <1>5, <1>6 DEF FoundSoFar, Findings
<1>8. sold'[o] = [lines |-> h.lines, total |-> h.total]
  BY DEF Sell, InsertOrder
<1>. QED  BY <1>5, <1>7, <1>8

LEMMA OrderPriceLemma ==
  ASSUME SalesInv, [CheckoutNext]_checkoutVars, NEW c \in Customers,
         NEW o \in DOMAIN sold' \ DOMAIN sold, customer'[c] # customer[c]
  PROVE  \E found \in Findings(c) : sold'[o].total = Sum(sold'[o].lines, found)
<1>1. PICK d \in Customers, q \in Orders : Sell(d, q)
  BY DEF CheckoutNext, checkoutVars, pricingVars, ChangeMenu, Shop, Look, Submit, PriceLine,
         InsertFails, Pay, Crash
<1>2. DOMAIN sold' = DOMAIN sold \cup {q} /\ customer' = [customer EXCEPT ![d] = Idle]
  BY <1>1 DEF Sell, InsertOrder, EndCreate
<1>3. o = q /\ c = d
  BY <1>2 DEF SalesInv, SalesTypeOK
<1>. QED  BY <1>1, <1>3, SoldLemma

\* An order is sold for prices its items had while it was being created, for any
\* menu, carts and interleaving with the admin (OrdersService.create).
THEOREM OrdersCostWhatItemsCost == CheckoutSpec => PricedWithinRequest
<1>. DEFINE A == \A c \in Customers : \A o \in DOMAIN sold' \ DOMAIN sold :
                   customer'[c] # customer[c] =>
                     \E found \in Findings(c) : sold'[o].total = Sum(sold'[o].lines, found)
<1>1. SalesInv /\ [CheckoutNext]_checkoutVars => [A]_pricingVars
  BY OrderPriceLemma
<1>2. CheckoutSpec => []SalesInv
  BY SalesInvHolds
<1>3. CheckoutSpec => [][A]_pricingVars
  <2>. HIDE DEF A
  <2>. QED  BY <1>1, <1>2, PTL DEF CheckoutSpec
<1>. QED  BY <1>3 DEF PricedWithinRequest

-----------------------------------------------------------------------------
(* What the admin sees *)

\* How the sums go on from the sums over fewer elements.
RevenueStep(g) ==
  [s \in SUBSET Counted |-> IF s = {} THEN 0 ELSE sold[Any(s)].total + g[s \ {Any(s)}]]
TakingsStep(g) ==
  [s \in SUBSET ConfirmedPayments |->
    IF s = {} THEN 0 ELSE payment[Any(s)].amount + g[s \ {Any(s)}]]
ShortfallStep(g) ==
  [s \in SUBSET ConfirmedPayments |-> IF s = {} THEN 0 ELSE Lack(Any(s)) + g[s \ {Any(s)}]]
ExcessStep(g) ==
  [s \in SUBSET ConfirmedPayments |-> IF s = {} THEN 0 ELSE Over(Any(s)) + g[s \ {Any(s)}]]

Totals  == [o \in Counted |-> sold[o].total]
Paid    == [p \in ConfirmedPayments |-> payment[p].amount]
Lacking == [p \in ConfirmedPayments |-> Lack(p)]
Beyond  == [p \in ConfirmedPayments |-> Over(p)]

\* The totals of the orders that confirmed payments are of.
Due     == [p \in ConfirmedPayments |-> sold[payment[p].order].total]

LEMMA RevenueDef ==
  ASSUME NEW g, g = RevenueStep(g)
  PROVE  \E h : h = RevenueStep(h) /\ Revenue = h[Counted]
BY DEF Revenue, RevenueStep, MapThenSumSet, MapThenFoldSet, Any

LEMMA TakingsDef ==
  ASSUME NEW g, g = TakingsStep(g)
  PROVE  \E h : h = TakingsStep(h) /\ Takings = h[ConfirmedPayments]
BY DEF Takings, TakingsStep, MapThenSumSet, MapThenFoldSet, Any

LEMMA ShortfallDef ==
  ASSUME NEW g, g = ShortfallStep(g)
  PROVE  \E h : h = ShortfallStep(h) /\ Shortfall = h[ConfirmedPayments]
BY DEF Shortfall, ShortfallStep, MapThenSumSet, MapThenFoldSet, Any

LEMMA ExcessDef ==
  ASSUME NEW g, g = ExcessStep(g)
  PROVE  \E h : h = ExcessStep(h) /\ Excess = h[ConfirmedPayments]
BY DEF Excess, ExcessStep, MapThenSumSet, MapThenFoldSet, Any

LEMMA RevenueIsTotal ==
  ASSUME IsFiniteSet(Counted)
  PROVE  Revenue = Total(Totals, Counted)
<1>1. \A s \in SUBSET Counted : s # {} => Totals[Any(s)] = sold[Any(s)].total
  BY AnyLemma DEF Totals
<1>2. \A g : g = RevenueStep(g) <=> Adds(g, Totals, Counted)
  BY <1>1 DEF Adds, RevenueStep
<1>3. PICK k : Adds(k, Totals, Counted)
  BY AdderExists
<1>4. PICK h : h = RevenueStep(h) /\ Revenue = h[Counted]
  BY <1>2, <1>3, RevenueDef
<1>5. Adds(h, Totals, Counted) /\ Counted \in SUBSET Counted
  BY <1>2, <1>4
<1>. QED  BY <1>4, <1>5, TotalIs

LEMMA TakingsIsTotal ==
  ASSUME IsFiniteSet(ConfirmedPayments)
  PROVE  Takings = Total(Paid, ConfirmedPayments)
<1>1. \A s \in SUBSET ConfirmedPayments : s # {} => Paid[Any(s)] = payment[Any(s)].amount
  BY AnyLemma DEF Paid
<1>2. \A g : g = TakingsStep(g) <=> Adds(g, Paid, ConfirmedPayments)
  BY <1>1 DEF Adds, TakingsStep
<1>3. PICK k : Adds(k, Paid, ConfirmedPayments)
  BY AdderExists
<1>4. PICK h : h = TakingsStep(h) /\ Takings = h[ConfirmedPayments]
  BY <1>2, <1>3, TakingsDef
<1>5. Adds(h, Paid, ConfirmedPayments) /\ ConfirmedPayments \in SUBSET ConfirmedPayments
  BY <1>2, <1>4
<1>. QED  BY <1>4, <1>5, TotalIs

LEMMA ShortfallIsTotal ==
  ASSUME IsFiniteSet(ConfirmedPayments)
  PROVE  Shortfall = Total(Lacking, ConfirmedPayments)
<1>1. \A s \in SUBSET ConfirmedPayments : s # {} => Lacking[Any(s)] = Lack(Any(s))
  BY AnyLemma DEF Lacking
<1>2. \A g : g = ShortfallStep(g) <=> Adds(g, Lacking, ConfirmedPayments)
  BY <1>1 DEF Adds, ShortfallStep
<1>3. PICK k : Adds(k, Lacking, ConfirmedPayments)
  BY AdderExists
<1>4. PICK h : h = ShortfallStep(h) /\ Shortfall = h[ConfirmedPayments]
  BY <1>2, <1>3, ShortfallDef
<1>5. Adds(h, Lacking, ConfirmedPayments) /\ ConfirmedPayments \in SUBSET ConfirmedPayments
  BY <1>2, <1>4
<1>. QED  BY <1>4, <1>5, TotalIs

LEMMA ExcessIsTotal ==
  ASSUME IsFiniteSet(ConfirmedPayments)
  PROVE  Excess = Total(Beyond, ConfirmedPayments)
<1>1. \A s \in SUBSET ConfirmedPayments : s # {} => Beyond[Any(s)] = Over(Any(s))
  BY AnyLemma DEF Beyond
<1>2. \A g : g = ExcessStep(g) <=> Adds(g, Beyond, ConfirmedPayments)
  BY <1>1 DEF Adds, ExcessStep
<1>3. PICK k : Adds(k, Beyond, ConfirmedPayments)
  BY AdderExists
<1>4. PICK h : h = ExcessStep(h) /\ Excess = h[ConfirmedPayments]
  BY <1>2, <1>3, ExcessDef
<1>5. Adds(h, Beyond, ConfirmedPayments) /\ ConfirmedPayments \in SUBSET ConfirmedPayments
  BY <1>2, <1>4
<1>. QED  BY <1>4, <1>5, TotalIs

\* Where there is at most one, two are the same.
LEMMA AtMostOne ==
  ASSUME NEW S, IsFiniteSet(S), Cardinality(S) <= 1, NEW x \in S, NEW y \in S
  PROVE  x = y
<1>. SUFFICES ASSUME x # y PROVE FALSE
  OBVIOUS
<1>1. IsFiniteSet({x}) /\ Cardinality({x}) = 1
  BY FS_Singleton
<1>2. Cardinality({x} \cup {y}) = 1 + 1
  <2>1. y \notin {x}
    OBVIOUS
  <2>. QED  BY <1>1, <2>1, FS_AddElement, Zenon
<1>3. {x} \cup {y} \in SUBSET S
  OBVIOUS
<1>4. Cardinality({x} \cup {y}) <= Cardinality(S) /\ Cardinality(S) \in Nat
  BY <1>3, FS_Subset, FS_CardinalityType
<1>. QED  BY <1>2, <1>4

\* Each order that counts has a payment that was confirmed, and each confirmed
\* payment is of an order that is sold.
LEMMA RowsMatch ==
  ASSUME MoneyInv, SalesInv
  PROVE  /\ IsFiniteSet(Counted) /\ IsFiniteSet(ConfirmedPayments)
         /\ \A o \in Counted : /\ Totals[o] \in Nat /\ Totals[o] = sold[o].total
                               /\ \E p \in ConfirmedPayments : payment[p].order = o
         /\ \A p \in ConfirmedPayments : /\ payment[p].order \in DOMAIN sold
                                         /\ Due[p] \in Nat /\ Due[p] = sold[payment[p].order].total
<1>1. Counted \in SUBSET DOMAIN sold
  BY DEF Counted, MoneyInv, RowsOK
<1>2. IsFiniteSet(Counted) /\ IsFiniteSet(ConfirmedPayments)
  BY <1>1, FS_Subset DEF SalesInv
<1>3. ASSUME NEW o \in Counted
      PROVE  /\ Totals[o] \in Nat /\ Totals[o] = sold[o].total
             /\ \E p \in ConfirmedPayments : payment[p].order = o
  <2>1. Totals[o] = sold[o].total /\ Totals[o] \in Nat
    BY <1>1 DEF Totals, SalesInv, SalesTypeOK
  <2>2. \E p \in PaymentsOf(o) : "PAID" \in outcomes[p]
    BY DEF Counted, MoneyInv, PaymentsMatchOrder, Final
  <2>. QED  BY <2>1, <2>2 DEF PaymentsOf, ConfirmedPayments
<1>4. ASSUME NEW p \in ConfirmedPayments
      PROVE  /\ payment[p].order \in DOMAIN sold
             /\ Due[p] \in Nat /\ Due[p] = sold[payment[p].order].total
  <2>1. p \in Payments /\ outcomes[p] # {}
    BY DEF ConfirmedPayments
  <2>2. payment[p].order # NoOrder /\ payment[p].order \in Orders
    BY <2>1 DEF MoneyInv, RowsOK, PaymentTypeOK, PaymentRows
  <2>3. payment[p].order \in DOMAIN sold
    BY <2>1, <2>2 DEF MoneyInv, RowsOK
  <2>. QED  BY <2>3 DEF Due, SalesInv, SalesTypeOK
<1>. QED  BY <1>2, <1>3, <1>4

\* What was due for the confirmed payments and what was paid differ by what
\* they lacked and what they had too much.
LEMMA BalanceLemma ==
  ASSUME MoneyInv, SalesInv
  PROVE  /\ Total(Due, ConfirmedPayments) + Excess = Takings + Shortfall
         /\ Takings \in Nat /\ Shortfall \in Nat /\ Excess \in Nat
<1>1. \A p \in ConfirmedPayments :
        /\ Due[p] \in Nat /\ Paid[p] \in Nat /\ Lacking[p] \in Nat /\ Beyond[p] \in Nat
        /\ Due[p] + Beyond[p] = Paid[p] + Lacking[p]
  <2>. SUFFICES ASSUME NEW p \in ConfirmedPayments
                PROVE  /\ Due[p] \in Nat /\ Paid[p] \in Nat
                       /\ Lacking[p] \in Nat /\ Beyond[p] \in Nat
                       /\ Due[p] + Beyond[p] = Paid[p] + Lacking[p]
    OBVIOUS
  <2>1. p \in Payments
    BY DEF ConfirmedPayments
  <2>2. payment[p].amount \in Nat /\ Paid[p] = payment[p].amount
    BY <2>1 DEF MoneyInv, PaymentTypeOK, PaymentRows, Paid
  <2>3. sold[payment[p].order].total \in Nat /\ Due[p] = sold[payment[p].order].total
    BY RowsMatch
  <2>4. Lacking[p] = Lack(p) /\ Beyond[p] = Over(p)
    BY DEF Lacking, Beyond
  <2>. QED  BY <2>2, <2>3, <2>4 DEF Lack, Over
<1>2. IsFiniteSet(ConfirmedPayments)
  BY RowsMatch
<1>3. /\ Takings = Total(Paid, ConfirmedPayments)
      /\ Shortfall = Total(Lacking, ConfirmedPayments)
      /\ Excess = Total(Beyond, ConfirmedPayments)
  BY <1>2, TakingsIsTotal, ShortfallIsTotal, ExcessIsTotal
<1>. QED  BY <1>1, <1>2, <1>3, TotalBalance, TotalNat

LEMMA RevenueLemma == MoneyInv /\ SalesInv => RevenueExplained
<1>. SUFFICES ASSUME MoneyInv, SalesInv PROVE RevenueExplained
  OBVIOUS
<1>1. /\ Revenue = Total(Totals, Counted) /\ Revenue \in Nat
      /\ Total(Due, ConfirmedPayments) \in Nat
  BY RowsMatch, RevenueIsTotal, TotalNat
<1>2. /\ Total(Due, ConfirmedPayments) + Excess = Takings + Shortfall
      /\ Takings \in Nat /\ Shortfall \in Nat /\ Excess \in Nat
  BY BalanceLemma
<1>3. Revenue <= Total(Due, ConfirmedPayments)
  <2>. DEFINE i == [o \in Counted |-> CHOOSE p \in ConfirmedPayments : payment[p].order = o]
  <2>1. \A o \in Counted : i[o] \in ConfirmedPayments /\ payment[i[o]].order = o
    BY RowsMatch
  <2>2. i \in [Counted -> ConfirmedPayments]
    BY <2>1
  <2>. HIDE DEF i
  <2>3. /\ \A o, q \in Counted : i[o] = i[q] => o = q
        /\ \A o \in Counted : Totals[o] = Due[i[o]]
    BY <2>1, RowsMatch
  <2>4. Total(Totals, Counted) <= Total(Due, ConfirmedPayments)
    BY <2>2, <2>3, RowsMatch, TotalInjection
  <2>. QED  BY <1>1, <2>4
<1>4. ASSUME \A o \in Orders : ~ Refused(o) /\ Cardinality(ConfirmedPayments \cap PaymentsOf(o)) <= 1
      PROVE  Total(Due, ConfirmedPayments) <= Revenue
  <2>. DEFINE i == [p \in ConfirmedPayments |-> payment[p].order]
  <2>1. \A p \in ConfirmedPayments : payment[p].order \in Counted
    <3>. SUFFICES ASSUME NEW p \in ConfirmedPayments PROVE payment[p].order \in Counted
      OBVIOUS
    <3>. DEFINE o == payment[p].order
    <3>1. o \in Orders /\ paymentStatus[o] # "none"
      BY RowsMatch DEF MoneyInv, RowsOK
    <3>2. Confirmed(o) /\ ~ Refused(o)
      BY <1>4, <3>1 DEF Confirmed, PaymentsOf, ConfirmedPayments
    <3>3. paymentStatus[o] # "PENDING"
      BY <3>1, <3>2 DEF MoneyInv, PaymentsMatchOrder
    <3>4. paymentStatus[o] # "FAILED"
      BY <3>1, <3>2 DEF MoneyInv, PaymentsMatchOrder, Final, Refused
    <3>5. paymentStatus[o] = "PAID"
      BY <3>1, <3>3, <3>4 DEF MoneyInv, PaymentTypeOK, Outcomes
    <3>. QED  BY <3>1, <3>5 DEF Counted
  <2>2. i \in [ConfirmedPayments -> Counted]
    BY <2>1
  <2>3. ASSUME NEW p \in ConfirmedPayments, NEW q \in ConfirmedPayments, i[p] = i[q] PROVE p = q
    <3>. DEFINE o == payment[p].order
                S == ConfirmedPayments \cap PaymentsOf(o)
    <3>1. p \in S /\ q \in S /\ o \in Orders
      BY <2>1, <2>3 DEF PaymentsOf, ConfirmedPayments, Counted
    <3>2. S \in SUBSET ConfirmedPayments
      OBVIOUS
    <3>3. IsFiniteSet(S) /\ Cardinality(S) <= 1
      BY <1>4, <3>1, <3>2, RowsMatch, FS_Subset
    <3>. HIDE DEF S
    <3>. QED  BY <3>1, <3>3, AtMostOne
  <2>4. \A p \in ConfirmedPayments : Due[p] = Totals[i[p]]
    BY <2>1, RowsMatch
  <2>. HIDE DEF i
  <2>5. \A p, q \in ConfirmedPayments : i[p] = i[q] => p = q
    BY <2>3
  <2>6. Total(Due, ConfirmedPayments) <= Total(Totals, Counted)
    BY <2>2, <2>4, <2>5, RowsMatch, TotalInjection
  <2>. QED  BY <1>1, <2>6
<1>. QED  BY <1>1, <1>2, <1>3, <1>4 DEF RevenueExplained

\* The revenue the admin sees was collected but for what confirmed payments
\* lacked of their orders' totals; where no order was paid twice or had a payment
\* that failed, nothing else tells the two apart (getAnalytics).
THEOREM RevenueWasExplained == CheckoutSpec => []RevenueExplained
BY RevenueLemma, MoneyInvHolds, SalesInvHolds, PTL
=============================================================================
