----------------------------- MODULE OrderStore -----------------------------
(***************************************************************************)
(* The rows of the tables orders and order_status_history, the passing of   *)
(* an order's scheduledFor, and the events the Socket.IO gateway broadcast  *)
(* about each order.  Every component that changes an order's status does   *)
(* so through this module.                                                  *)
(***************************************************************************)
EXTENDS OrderTypes, Sequences, Naturals

VARIABLES
  orders,      \* the row of each order, Absent before it is created
  history,     \* the rows of order_status_history of each order, oldest first
  due,         \* whether the order's scheduledFor has passed
  announced    \* the statuses broadcast about each order, oldest first

storeVars == <<orders, history, due, announced>>

\* Who wrote a row of the history: the first row is create's, "scheduler" is
\* told by the notes column, "staff" by changedBy, and a later row with
\* neither is the customer's.
Writers == {"create", "staff", "customer", "scheduler"}

Rows    == [status : Statuses, type : Types, deliveryType : DeliveryTypes]
Entries == [status : Statuses, by : Writers]

Absent == [status |-> "ABSENT", type |-> "NONE", deliveryType |-> "NONE"]

Exists(o)    == orders[o] # Absent
Scheduled(o) == orders[o].type = "SCHEDULED"

StoreTypeOK ==
  /\ orders \in [Orders -> Rows \cup {Absent}]
  /\ history \in [Orders -> Seq(Entries)]
  /\ due \in [Orders -> BOOLEAN]
  /\ announced \in [Orders -> Seq(Statuses)]

StoreInit ==
  /\ orders = [o \in Orders |-> Absent]
  /\ history = [o \in Orders |-> <<>>]
  /\ due = [o \in Orders |-> FALSE]
  /\ announced = [o \in Orders |-> <<>>]

\* The transaction of create: the order, its items and its first history row.
InsertTx(o, row) ==
  /\ orders' = [orders EXCEPT ![o] = row]
  /\ history' = [history EXCEPT ![o] =
                   Append(@, [status |-> row.status, by |-> "create"])]

\* Mutation: the status without its history row.
StatusTxRowOnly(o, s, by) ==
  /\ orders' = [orders EXCEPT ![o].status = s]
  /\ UNCHANGED history

\* A transaction that sets an order's status and records it in the history.
StatusTx(o, s, by) ==
  /\ orders' = [orders EXCEPT ![o].status = s]
  /\ history' = [history EXCEPT ![o] = Append(@, [status |-> s, by |-> by])]

\* NotificationsService hands the event to the gateway, which broadcasts it.
Announce(o, s) == announced' = [announced EXCEPT ![o] = Append(@, s)]

\* The clock passes the order's scheduledFor.
TimePasses(o) ==
  /\ ~ due[o]
  /\ due' = [due EXCEPT ![o] = TRUE]
  /\ UNCHANGED <<orders, history, announced>>

\* The statuses an order has gone through, by its history.
Journal(o) == [i \in 1 .. Len(history[o]) |-> history[o][i].status]
=============================================================================
