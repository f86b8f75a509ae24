--------------------------- MODULE DeliveryService --------------------------
(***************************************************************************)
(* DeliveryService: the delivery task of an order, its courier and its      *)
(* status.  A desk is a slot that holds one running handler, cut where the  *)
(* code awaits the database.  Rejected calls, and createDeliveryTask for an *)
(* order that has its task already, change nothing and are not steps.       *)
(***************************************************************************)
EXTENDS OrderStore, Faults

CONSTANTS
  Desks,          \* slots for handlers that run at the same time
  MaxDeskCalls,   \* bound on the calls made in a behaviour
  Couriers,       \* staff whose role is COURIER
  NoCourier       \* courierId is null

ASSUME DesksAssumption ==
  /\ MaxDeskCalls \in Nat
  /\ NoCourier \notin Couriers

VARIABLES
  task,      \* the row of delivery_tasks of each order, NoTask if there is none
  desk,      \* the handler at each desk
  deskCalls  \* how many calls have been accepted so far

deliveryVars == <<task, desk, deskCalls>>

\* enum DeliveryTaskStatus
TaskStatuses == {"ASSIGNED", "PICKING_UP", "DELIVERING", "DONE"}

Tasks  == [status : TaskStatuses, courier : Couriers \cup {NoCourier}]
NoTask == [status |-> "NONE", courier |-> NoCourier]

\* Where a handler stands: the call it makes next.
DeskPcs == {"idle", "createTask", "assignTask", "announceAssigned",
            "setTask", "completeOrder", "announceCompleted"}

IdleDesk == [pc |-> "idle", order |-> NoOrder, courier |-> NoCourier, status |-> "NONE"]

DeliveryTypeOK ==
  /\ task \in [Orders -> Tasks \cup {NoTask}]
  /\ desk \in [Desks -> [pc      : DeskPcs,
                         order   : Orders \cup {NoOrder},
                         courier : Couriers \cup {NoCourier},       \* to assign
                         status  : TaskStatuses \cup {"NONE"}]]     \* to set
  /\ deskCalls \in 0 .. MaxDeskCalls

DeliveryInit ==
  /\ task = [o \in Orders |-> NoTask]
  /\ desk = [d \in Desks |-> IdleDesk]
  /\ deskCalls = 0

DeskBegin(d, pc, o, courier, status) ==
  /\ desk[d] = IdleDesk
  /\ deskCalls < MaxDeskCalls
  /\ deskCalls' = deskCalls + 1
  /\ desk' = [desk EXCEPT ![d] = [pc |-> pc, order |-> o,
                                  courier |-> courier, status |-> status]]
  /\ UNCHANGED <<storeVars, task, faults>>

DeskGoto(d, pc) == desk' = [desk EXCEPT ![d].pc = pc] /\ UNCHANGED deskCalls
DeskEnd(d)      == desk' = [desk EXCEPT ![d] = IdleDesk] /\ UNCHANGED deskCalls

-----------------------------------------------------------------------------
(* createDeliveryTask *)

\* Mutation: any order may have a delivery task.
DeliveredByAnyone(o) == Exists(o)

\* The order is not delivered by Glovo or picked up.
DeliveredByUs(o) == Exists(o) /\ orders[o].deliveryType \notin {"GLOVO", "PICKUP"}

CreateTaskStart(d, o) ==
  /\ DeliveredByUs(o)
  /\ task[o] = NoTask
  /\ DeskBegin(d, "createTask", o, NoCourier, "NONE")

\* Mutation: the row another call has created meanwhile is replaced.
AnyRow(o) == o \in Orders

\* orderId is unique: create throws when there is a task by now.
FreeRow(o) == task[o] = NoTask

CreateTask(d) ==
  /\ desk[d].pc = "createTask"
  /\ \/ /\ FreeRow(desk[d].order)
        /\ task' = [task EXCEPT ![desk[d].order] =
                      [status |-> "ASSIGNED", courier |-> NoCourier]]
        /\ NoFault
     \/ ~ FreeRow(desk[d].order) /\ UNCHANGED task /\ NoFault
     \/ Fault("createTask") /\ UNCHANGED task
  /\ DeskEnd(d)
  /\ UNCHANGED storeVars

-----------------------------------------------------------------------------
(* assignCourier *)

AssignStart(d, o, c) ==
  /\ task[o] # NoTask
  /\ DeskBegin(d, "assignTask", o, c, "NONE")

AssignTask(d) ==
  /\ desk[d].pc = "assignTask"
  /\ \/ /\ task' = [task EXCEPT ![desk[d].order] =
                      [status |-> "ASSIGNED", courier |-> desk[d].courier]]
        /\ DeskGoto(d, "announceAssigned")
        /\ NoFault
     \/ Fault("assignTask") /\ DeskEnd(d) /\ UNCHANGED task
     \/ /\ Fault("assignTaskAnswer") /\ DeskEnd(d)
        /\ task' = [task EXCEPT ![desk[d].order] =
                      [status |-> "ASSIGNED", courier |-> desk[d].courier]]
  /\ UNCHANGED storeVars

\* The order is announced as DELIVERING; its row does not change.
AnnounceAssigned(d) ==
  /\ desk[d].pc = "announceAssigned"
  /\ Announce(desk[d].order, "DELIVERING")
  /\ DeskEnd(d)
  /\ UNCHANGED <<orders, history, due, task, faults>>

-----------------------------------------------------------------------------
(* updateDeliveryStatus *)

TaskStatusStart(d, o, s) ==
  /\ task[o] # NoTask
  /\ DeskBegin(d, "setTask", o, NoCourier, s)

\* Mutation: a task that is DELIVERING completes its order.
FinishesEarly(s) == s = "DELIVERING"

Finishes(s) == s = "DONE"

SetTask(d) ==
  /\ desk[d].pc = "setTask"
  /\ \/ /\ task' = [task EXCEPT ![desk[d].order].status = desk[d].status]
        /\ IF Finishes(desk[d].status) THEN DeskGoto(d, "completeOrder") ELSE DeskEnd(d)
        /\ NoFault
     \/ Fault("setTask") /\ DeskEnd(d) /\ UNCHANGED task
  /\ UNCHANGED storeVars

\* A write of its own, without the status table and without a history row.
CompleteOrder(d) ==
  /\ desk[d].pc = "completeOrder"
  /\ \/ /\ orders' = [orders EXCEPT ![desk[d].order].status = "COMPLETED"]
        /\ DeskGoto(d, "announceCompleted")
        /\ NoFault
     \/ Fault("completeOrder") /\ DeskEnd(d) /\ UNCHANGED orders
     \/ /\ Fault("completeOrderAnswer") /\ DeskEnd(d)
        /\ orders' = [orders EXCEPT ![desk[d].order].status = "COMPLETED"]
  /\ UNCHANGED <<history, due, announced, task>>

AnnounceCompleted(d) ==
  /\ desk[d].pc = "announceCompleted"
  /\ Announce(desk[d].order, "COMPLETED")
  /\ DeskEnd(d)
  /\ UNCHANGED <<orders, history, due, task, faults>>

-----------------------------------------------------------------------------
\* An administrator or a courier calls the service.
DeskCall(d) ==
  \E o \in Orders :
    \/ CreateTaskStart(d, o)
    \/ \E c \in Couriers : AssignStart(d, o, c)
    \/ \E s \in TaskStatuses : TaskStatusStart(d, o, s)

\* What a handler does once its call has been accepted.
DeskStep(d) ==
  \/ CreateTask(d) \/ AssignTask(d) \/ AnnounceAssigned(d)
  \/ SetTask(d) \/ CompleteOrder(d) \/ AnnounceCompleted(d)
=============================================================================
