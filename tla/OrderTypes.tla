----------------------------- MODULE OrderTypes -----------------------------
(***************************************************************************)
(* What the order components share: the ids of orders, the enumerations of  *)
(* prisma/schema.prisma, and the table of status changes                    *)
(* OrdersService.updateStatus accepts.                                      *)
(***************************************************************************)
CONSTANTS Orders,    \* identifiers of the orders that may come to exist
          NoOrder    \* "no order at hand"

ASSUME NoOrderAssumption == NoOrder \notin Orders

\* enum OrderStatus
Statuses == {"PENDING", "PREPARING", "READY", "DELIVERING", "COMPLETED", "CANCELLED"}

\* enum OrderType
Types == {"INSTANT", "SCHEDULED"}

\* enum DeliveryType
DeliveryTypes == {"OWN", "GLOVO", "PICKUP"}

\* validTransitions: the statuses updateStatus accepts, by the status it read.
ValidTransitions ==
  [PENDING    |-> {"PREPARING", "CANCELLED"},
   PREPARING  |-> {"READY", "CANCELLED"},
   READY      |-> {"DELIVERING", "CANCELLED"},
   DELIVERING |-> {"COMPLETED", "CANCELLED"},
   COMPLETED  |-> {},
   CANCELLED  |-> {}]
=============================================================================
