--------------------------- MODULE PaymentsService --------------------------
(***************************************************************************)
(* PaymentsService: payment intents, and the webhooks by which a provider   *)
(* says what became of them.  A provider may repeat an event, or send it    *)
(* late.  The integration that stores the provider's id of a payment is     *)
(* not in the repository, where it is a placeholder: LinkPayment.  The      *)
(* amount of a payment is the number the client sends, zero or more; nobody *)
(* compares it with the order's total.                                      *)
(***************************************************************************)
EXTENDS OrderTypes, Faults, FiniteSets

CONSTANTS
  Payments,     \* ids of the rows that may be created
  Intents,      \* slots for createPaymentIntent
  Hooks,        \* slots for handleWebhook
  Amounts,      \* amounts clients ask to pay
  NoPayment

ASSUME PaymentsAssumption == NoPayment \notin Payments

ASSUME AmountsAssumption == Amounts \subseteq Nat

VARIABLES
  paymentStatus,   \* of each order; "none" before there is one
  payment,         \* the table payments
  intent, hook,    \* the handler in each slot
  kitchen,         \* the orders admin_new_order was sent for
  outcomes,        \* what webhooks have written about each payment so far
  again,           \* payments created for an order with a confirmed payment
  overtaken,       \* those whose intent had read the order before it had one
  unheard          \* orders whose webhook broke off before it told the kitchen

asked       == <<again, overtaken>>
paymentVars == <<paymentStatus, payment, intent, hook, kitchen, outcomes, asked, unheard, faults>>

Outcomes == {"PAID", "FAILED", "PENDING"}
Final    == {"PAID", "FAILED"}

IdleIntent == [order |-> NoOrder, confirmed |-> FALSE]
IdleHook   == [pc |-> "idle", payment |-> NoPayment, status |-> "PENDING"]

\* The table payments; linked says whether providerPaymentId is set.
PaymentRows == [order : Orders \cup {NoOrder}, amount : Nat, status : Outcomes, linked : BOOLEAN]
NoRow       == [order |-> NoOrder, amount |-> 0, status |-> "PENDING", linked |-> FALSE]

PaymentTypeOK ==
  /\ paymentStatus \in [Orders -> Outcomes \cup {"none"}]
  /\ payment \in [Payments -> PaymentRows]
  /\ intent \in [Intents -> [order : Orders \cup {NoOrder}, confirmed : BOOLEAN]]
  /\ hook \in [Hooks -> [pc      : {"idle", "write", "tell"},
                         payment : Payments \cup {NoPayment},
                         status  : Outcomes]]
  /\ kitchen \in SUBSET Orders
  /\ outcomes \in [Payments -> SUBSET Outcomes]
  /\ overtaken \in SUBSET again /\ again \in SUBSET Payments
  /\ unheard \in SUBSET Orders

PaymentInit ==
  /\ paymentStatus = [o \in Orders |-> "none"]
  /\ payment = [p \in Payments |-> NoRow]
  /\ intent = [i \in Intents |-> IdleIntent]
  /\ hook = [h \in Hooks |-> IdleHook]
  /\ kitchen = {}
  /\ outcomes = [p \in Payments |-> {}]
  /\ again = {} /\ overtaken = {}
  /\ unheard = {}

PaymentsOf(o) == {p \in Payments : payment[p].order = o}

\* The provider has confirmed, or refused, a payment of the order.
Confirmed(o) == \E p \in PaymentsOf(o) : "PAID" \in outcomes[p]
Refused(o)   == \E p \in PaymentsOf(o) : "FAILED" \in outcomes[p]

-----------------------------------------------------------------------------
(* createPaymentIntent *)

\* Mutation: the order is not asked whether it is paid.
PayableAnyway(o) == paymentStatus[o] # "none"

\* The order is found and not PAID.
Payable(o) == paymentStatus[o] \notin {"none", "PAID"}

ReadOrder(i, o) ==
  /\ intent[i] = IdleIntent
  /\ Payable(o)
  /\ intent' = [intent EXCEPT ![i] = [order |-> o, confirmed |-> Confirmed(o)]]
  /\ UNCHANGED <<paymentStatus, payment, hook, kitchen, outcomes, asked, unheard, faults>>

\* The order is not looked at again.  If the answer of the call is lost, the
\* row is there and no customer pays it: LinkPayment does not follow.
CreatePayment(i, p, amount) ==
  LET o == intent[i].order IN
  /\ intent[i] # IdleIntent
  /\ payment[p].order = NoOrder
  /\ payment' = [payment EXCEPT ![p] = [order |-> o, amount |-> amount,
                                         status |-> "PENDING", linked |-> FALSE]]
  /\ again' = again \cup {q \in {p} : Confirmed(o)}
  /\ overtaken' = overtaken \cup {q \in {p} : Confirmed(o) /\ ~ intent[i].confirmed}
  /\ intent' = [intent EXCEPT ![i] = IdleIntent]
  /\ UNCHANGED <<paymentStatus, hook, kitchen, outcomes, unheard, faults>>

\* So it does, too, when another intent of that order has the same millisecond
\* in its idempotency key.
CreatePaymentFails(i) ==
  /\ intent[i] # IdleIntent
  /\ Fault("intent")
  /\ intent' = [intent EXCEPT ![i] = IdleIntent]
  /\ UNCHANGED <<paymentStatus, payment, hook, kitchen, outcomes, asked, unheard>>

\* The customer pays: the payment has an id at the provider.
LinkPayment(p) ==
  /\ payment[p].order # NoOrder /\ ~ payment[p].linked
  /\ payment' = [payment EXCEPT ![p].linked = TRUE]
  /\ UNCHANGED <<paymentStatus, intent, hook, kitchen, outcomes, asked, unheard, faults>>

-----------------------------------------------------------------------------
(* handleWebhook *)

\* A genuine event about a payment that is found by its provider's id; for an
\* unknown one the handler answers that it has received it, and does nothing.
FindPayment(h, p, status) ==
  /\ hook[h] = IdleHook
  /\ payment[p].linked
  /\ hook' = [hook EXCEPT ![h] = [pc |-> "write", payment |-> p, status |-> status]]
  /\ UNCHANGED <<paymentStatus, payment, intent, kitchen, outcomes, asked, unheard, faults>>

\* Mutation: an event without an outcome is written to the order as well.
StatusAnyway(old, status) == status

\* The order's status after an event.
OrderStatusAfter(old, status) == IF status \in Final THEN status ELSE old

\* Mutation: the kitchen is only told when the order was open before.
NewsOfOpenOrder(o, status) == status = "PAID" /\ paymentStatus[o] = "PENDING"

\* Whether the kitchen is told.
IsNews(o, status) == status = "PAID"

\* The transaction over payments and orders.
RecordOutcome(p, status) ==
  /\ payment' = [payment EXCEPT ![p].status = status]
  /\ paymentStatus' = [paymentStatus EXCEPT ![payment[p].order] = OrderStatusAfter(@, status)]
  /\ outcomes' = [outcomes EXCEPT ![p] = @ \cup ({status} \cap Final)]

WritePayment(h) ==
  LET p == hook[h].payment
      status == hook[h].status
  IN
  /\ hook[h].pc = "write"
  /\ RecordOutcome(p, status)
  /\ hook' = [hook EXCEPT ![h] = IF IsNews(payment[p].order, status)
                                 THEN [@ EXCEPT !.pc = "tell"] ELSE IdleHook]
  /\ UNCHANGED <<intent, kitchen, asked, unheard, faults>>

\* The transaction is committed and its answer lost: the handler throws.
WritePaymentUnanswered(h) ==
  LET p == hook[h].payment
      o == payment[p].order
      status == hook[h].status
  IN
  /\ hook[h].pc = "write"
  /\ Fault("webhookAnswer")
  /\ RecordOutcome(p, status)
  /\ hook' = [hook EXCEPT ![h] = IdleHook]
  /\ unheard' = unheard \cup {q \in {o} : IsNews(o, status)}
  /\ UNCHANGED <<intent, kitchen, asked>>

WritePaymentFails(h) ==
  /\ hook[h].pc = "write"
  /\ Fault("webhook")
  /\ hook' = [hook EXCEPT ![h] = IdleHook]
  /\ UNCHANGED <<paymentStatus, payment, intent, kitchen, outcomes, asked, unheard>>

\* emitAdminNewOrder.
TellKitchen(h) ==
  /\ hook[h].pc = "tell"
  /\ kitchen' = kitchen \cup {payment[hook[h].payment].order}
  /\ hook' = [hook EXCEPT ![h] = IdleHook]
  /\ UNCHANGED <<paymentStatus, payment, intent, outcomes, asked, unheard, faults>>

-----------------------------------------------------------------------------
(* Composition *)

\* The orders whose webhook has written PAID and not told the kitchen yet.
Telling == {payment[hook[h].payment].order : h \in {g \in Hooks : hook[g].pc = "tell"}}

PaymentHandlersDie ==
  /\ intent' = [i \in Intents |-> IdleIntent]
  /\ hook' = [h \in Hooks |-> IdleHook]
  /\ unheard' = unheard \cup Telling
  /\ UNCHANGED <<paymentStatus, payment, kitchen, outcomes, asked>>

PaymentNext ==
  \/ \E i \in Intents : \/ \E o \in Orders : ReadOrder(i, o)
                        \/ \E p \in Payments, amount \in Amounts : CreatePayment(i, p, amount)
                        \/ CreatePaymentFails(i)
  \/ \E p \in Payments : LinkPayment(p)
  \/ \E h \in Hooks : \/ \E p \in Payments, status \in Outcomes : FindPayment(h, p, status)
                      \/ WritePayment(h) \/ WritePaymentFails(h)
                      \/ WritePaymentUnanswered(h) \/ TellKitchen(h)

-----------------------------------------------------------------------------
(* Properties *)

\* The two tables agree: an order's payment status is the outcome of one of its
\* payments, which still says so unless an event without an outcome came later,
\* and it is open only while no payment has an outcome.
PaymentsMatchOrder ==
  \A o \in Orders :
    /\ paymentStatus[o] \in Final =>
         \E p \in PaymentsOf(o) : /\ paymentStatus[o] \in outcomes[p]
                                  /\ payment[p].status \in {paymentStatus[o], "PENDING"}
    /\ paymentStatus[o] = "PENDING" => ~ Confirmed(o) /\ ~ Refused(o)

\* A payment that was created for an order with a confirmed payment has one of
\* two explanations: a payment of the order has been refused, which overwrites
\* PAID, or the confirmation came between the intent's check of the order and
\* its write.  Intents that run before any payment is confirmed are not looked
\* at: each of their payments may be confirmed.
SecondRequestsExplained ==
  \A p \in again : Refused(payment[p].order) \/ p \in overtaken

\* The kitchen is told of an order with a confirmed payment, unless the process
\* died between the commit and the event, or the commit's answer was lost.
KitchenKnows == \A o \in Orders : Confirmed(o) => o \in kitchen \cup Telling \cup unheard
=============================================================================
