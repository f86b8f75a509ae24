------------------------ MODULE OrderFulfilmentProofs -----------------------
(***************************************************************************)
(* Proofs about OrderFulfilment for any number of orders, slots, couriers,  *)
(* webhooks and failures: what OrderLifecycle's processes rely on survives  *)
(* the carriers, only an order's own carrier leaves a status out of the     *)
(* history or announces one the order never had, no courier is lost, and    *)
(* an order whose webhooks do not overlap says what Glovo said last.        *)
(*                                                                         *)
(* Layout: what a step of a carrier may do to the rows, the broadcasts and  *)
(* to OrderLifecycle; the steps of the desks, of the webhooks and of the    *)
(* glovoSync worker; the invariants one after the other.                    *)
(***************************************************************************)
EXTENDS OrderFulfilment, OrderLifecycleProofs

-----------------------------------------------------------------------------
(* What carriers may do *)

\* Rows come and go not, keep what the client asked for, and are not set back.
RowsKept ==
  \A p \in Orders : /\ Exists(p)' <=> Exists(p)
                    /\ orders'[p].type = orders[p].type
                    /\ orders'[p].deliveryType = orders[p].deliveryType
                    /\ orders'[p].status = orders[p].status \/ orders'[p].status # "PENDING"

\* A carrier sets the status of an order it delivers to one of its own.
SetByCarrier(o, s) ==
  /\ Exists(o)
  /\ \/ DeliveredByUs(o) /\ s = "COMPLETED"
     \/ parcel[o] # "NONE" /\ s \in GlovosStatuses
  /\ orders' = [orders EXCEPT ![o].status = s]

CarrierSets == UNCHANGED orders \/ \E o \in Orders, s \in Statuses : SetByCarrier(o, s)

CarrierSays ==
  \/ UNCHANGED announced
  \/ \E o \in Orders, s \in Statuses : SaidByCarrier(o, s) /\ Announce(o, s)

\* A step of a carrier, seen from OrderLifecycle.
CarrierStep ==
  /\ CarrierSets
  /\ CarrierSays
  /\ faults' \in faults .. MaxFaults
  /\ UNCHANGED <<history, due, job, req, started, worker, crashes>>

\* What a carrier writes is a status, and not PENDING.
LEMMA GlovosLemma ==
  /\ GlovosStatuses \subseteq Statuses \ {"PENDING"}
  /\ \A s \in Mapped : Internal[s] \in GlovosStatuses
  /\ Mapped \subseteq GlovoStatuses
BY DEF GlovosStatuses, Mapped, Internal, Statuses, GlovoStatuses

\* A call fails or does not.
LEMMA CallLemma ==
  ASSUME FaultsTypeOK, NEW p, NoFault \/ Fault(p)
  PROVE  faults' \in faults .. MaxFaults
BY FaultsAssumption DEF FaultsTypeOK, NoFault, Fault

LEMMA SetByCarrierLemma ==
  ASSUME StoreTypeOK, NEW o \in Orders, NEW s \in Statuses, SetByCarrier(o, s)
  PROVE  /\ orders' \in [Orders -> Rows \cup {Absent}]
         /\ orders'[o].status = s
         /\ \A p \in Orders \ {o} : orders'[p] = orders[p]
         /\ RowsKept
<1>1. orders[o] \in Rows /\ s # "PENDING"
  BY GlovosLemma DEF StoreTypeOK, SetByCarrier, Exists
<1>2. orders'[o] = [orders[o] EXCEPT !.status = s] /\ \A p \in Orders \ {o} : orders'[p] = orders[p]
  BY DEF StoreTypeOK, SetByCarrier
<1>3. /\ orders'[o] \in Rows /\ orders'[o].status = s /\ orders'[o].type = orders[o].type
      /\ orders'[o].deliveryType = orders[o].deliveryType
  BY <1>1, <1>2 DEF Rows
<1>4. orders' \in [Orders -> Rows \cup {Absent}]
  <2>1. orders' = [orders EXCEPT ![o] = orders'[o]]
    BY <1>2 DEF StoreTypeOK, SetByCarrier
  <2>. QED  BY <1>3, <2>1 DEF StoreTypeOK
<1>5. Exists(o)' /\ Exists(o)
  BY <1>1, <1>3, RowsLemma DEF Exists
<1>. QED  BY <1>1, <1>2, <1>3, <1>4, <1>5 DEF RowsKept, Exists

LEMMA CarrierRowsLemma ==
  ASSUME StoreTypeOK, CarrierSets
  PROVE  orders' \in [Orders -> Rows \cup {Absent}] /\ RowsKept
<1>1. CASE UNCHANGED orders
  BY <1>1 DEF StoreTypeOK, RowsKept, Exists
<1>2. CASE \E o \in Orders, s \in Statuses : SetByCarrier(o, s)
  BY <1>2, SetByCarrierLemma
<1>. QED  BY <1>1, <1>2 DEF CarrierSets

\* The processes of OrderLifecycle do not mind the carriers.
LEMMA CarrierLemma ==
  ASSUME CoreInv, CarrierStep
  PROVE  CoreInv' /\ RowsKept
<1>. USE DEF CoreInv
<1>1. orders' \in [Orders -> Rows \cup {Absent}] /\ RowsKept
  BY CarrierRowsLemma DEF CarrierStep, TypeOK
<1>2. announced' \in [Orders -> Seq(Statuses)]
  BY AnnounceLemma DEF CarrierStep, CarrierSays, TypeOK, StoreTypeOK
<1>3. /\ UNCHANGED <<history, due, job, req, started, worker, crashes>>
      /\ faults' \in Nat /\ faults' >= faults /\ faults' \in 0 .. MaxFaults
  BY FaultsAssumption DEF CarrierStep, TypeOK, FaultsTypeOK
<1>4. TypeOK'
  BY <1>1, <1>2, <1>3
     DEF TypeOK, StoreTypeOK, QueueTypeOK, FaultsTypeOK, ServiceTypeOK, WorkerTypeOK
<1>5. RequestsOK'
  BY <1>1, <1>3 DEF RequestsOK, RequestOK, RowsKept
<1>6. OneCreator'
  BY <1>3 DEF OneCreator, Creating
<1>7. JobsOK'
  BY <1>1, <1>3 DEF JobsOK, RowsKept
<1>8. WorkerOK'
  BY <1>1, <1>3 DEF WorkerOK, RowsKept
<1>9. HistoryBegins'
  BY <1>1, <1>3 DEF HistoryBegins, RowsKept
<1>10. NoStrandedOrder'
  <2>. SUFFICES ASSUME faults' = 0, crashes' = 0, NEW p \in Orders, Waiting(p)'
                PROVE  job'[p].state \in Live \/ \E q \in Requests : Minding(q, p)'
    BY DEF NoStrandedOrder
  <2>1. faults = 0 /\ crashes = 0
    BY <1>3 DEF TypeOK, FaultsTypeOK
  <2>2. Waiting(p)
    BY <1>1 DEF RowsKept, Waiting, Scheduled
  <2>. QED  BY <1>3, <2>1, <2>2 DEF NoStrandedOrder, Minding
<1>. QED  BY <1>1, <1>4, <1>5, <1>6, <1>7, <1>8, <1>9, <1>10

\* Who delivers an order is settled when it is created.
LEMMA DeliveryKeptLemma ==
  ASSUME RowsKept, NEW o \in Orders
  PROVE  /\ DeliveredByUs(o)' <=> DeliveredByUs(o)
         /\ DeliveredByGlovo(o)' <=> DeliveredByGlovo(o)
BY DEF RowsKept, DeliveredByUs, DeliveredByGlovo

-----------------------------------------------------------------------------
(* The desks *)

OtherDesks(d) == \A c \in Desks \ {d} : desk'[c] = desk[c]

\* No task goes, nor its courier, and none comes but for an order we deliver.
TasksKept ==
  \A o \in Orders : /\ task[o] # NoTask => task'[o] # NoTask
                    /\ task'[o] # NoTask => task[o] # NoTask \/ DeliveredByUs(o)
                    /\ task[o].courier # NoCourier => task'[o].courier # NoCourier

LEMMA TasksLemma == NoTask \notin Tasks
BY DEF NoTask, Tasks, TaskStatuses

\* What a step at a desk leaves behind.
DeskLeaves(d) ==
  /\ CarrierStep
  /\ TasksKept
  /\ DeliveryTypeOK'
  /\ OtherDesks(d)
  /\ DeskOK(d)'
  /\ UNCHANGED glovoVars

\* A handler at a desk that ends.
LEMMA DeskEndLemma ==
  ASSUME DeliveryTypeOK, NEW d \in Desks, DeskEnd(d), task' \in [Orders -> Tasks \cup {NoTask}]
  PROVE  DeliveryTypeOK' /\ OtherDesks(d) /\ DeskOK(d)'
BY DEF DeliveryTypeOK, DeskEnd, IdleDesk, DeskPcs, OtherDesks, DeskOK

\* A handler at a desk that goes on.
LEMMA DeskGotoLemma ==
  ASSUME DeliveryTypeOK, NEW d \in Desks, NEW pc \in DeskPcs, DeskGoto(d, pc),
         task' \in [Orders -> Tasks \cup {NoTask}]
  PROVE  /\ DeliveryTypeOK' /\ OtherDesks(d)
         /\ desk'[d].pc = pc /\ desk'[d].order = desk[d].order
BY DEF DeliveryTypeOK, DeskGoto, OtherDesks

\* A step that leaves the tasks alone.
LEMMA SameTasksLemma ==
  ASSUME UNCHANGED task
  PROVE  TasksKept
BY DEF TasksKept

\* A failed call ends the handler.
LEMMA DeskFailsLemma ==
  ASSUME DeliveryInv, NEW d \in Desks, NEW p, Fault(p), DeskEnd(d), UNCHANGED task,
         UNCHANGED <<storeVars, job, serviceVars, worker, crashes, glovoVars>>
  PROVE  DeskLeaves(d)
<1>1. DeliveryTypeOK' /\ OtherDesks(d) /\ DeskOK(d)'
  BY DeskEndLemma DEF DeliveryInv, DeliveryTypeOK
<1>2. CarrierStep
  BY CallLemma DEF CarrierStep, CarrierSets, CarrierSays, DeliveryInv, CoreInv, TypeOK,
     storeVars, serviceVars
<1>. QED  BY <1>1, <1>2, SameTasksLemma DEF DeskLeaves

\* A call is accepted.
LEMMA DeskBeginLemma ==
  ASSUME DeliveryInv, NEW d \in Desks, NEW pc \in {"createTask", "assignTask", "setTask"},
         NEW o \in Orders, NEW c \in Couriers \cup {NoCourier},
         NEW s \in TaskStatuses \cup {"NONE"}, DeskBegin(d, pc, o, c, s),
         UNCHANGED <<job, serviceVars, worker, crashes, glovoVars>>,
         pc = "createTask" => DeliveredByUs(o),
         pc # "createTask" => task[o] # NoTask,
         pc = "assignTask" => c \in Couriers,
         pc = "setTask" => s \in TaskStatuses
  PROVE  DeskLeaves(d)
<1>1. /\ UNCHANGED <<orders, history, due, announced, task, faults>> /\ deskCalls' = deskCalls + 1
      /\ deskCalls < MaxDeskCalls
      /\ desk' = [desk EXCEPT ![d] = [pc |-> pc, order |-> o, courier |-> c, status |-> s]]
  BY DEF DeskBegin, storeVars
<1>2. desk'[d] = [pc |-> pc, order |-> o, courier |-> c, status |-> s] /\ OtherDesks(d)
  BY <1>1 DEF DeliveryInv, DeliveryTypeOK, OtherDesks
<1>3. DeliveryTypeOK'
  <2>1. deskCalls' \in 0 .. MaxDeskCalls /\ task' = task
    BY <1>1, DesksAssumption DEF DeliveryInv, DeliveryTypeOK
  <2>. QED  BY <1>1, <2>1 DEF DeliveryInv, DeliveryTypeOK, DeskPcs
<1>4. DeliveredByUs(o)
  BY DEF DeliveryInv, OneCarrier
<1>5. DeskOK(d)'
  BY <1>1, <1>2, <1>4 DEF DeskOK, DeliveredByUs, Exists
<1>6. CarrierStep
  BY <1>1, CallLemma DEF CarrierStep, CarrierSets, CarrierSays, NoFault, DeliveryInv, CoreInv,
     TypeOK, serviceVars
<1>. QED  BY <1>1, <1>2, <1>3, <1>5, <1>6, SameTasksLemma DEF DeskLeaves

LEMMA CallDeskLeaves ==
  ASSUME DeliveryInv, NEW d \in Desks, CallDesk(d)
  PROVE  DeskLeaves(d)
<1>1. UNCHANGED <<job, serviceVars, worker, crashes, glovoVars>>
  BY DEF CallDesk
<1>2. PICK o \in Orders : \/ CreateTaskStart(d, o)
                          \/ \E c \in Couriers : AssignStart(d, o, c)
                          \/ \E s \in TaskStatuses : TaskStatusStart(d, o, s)
  BY DEF CallDesk, DeskCall
<1>3. CASE CreateTaskStart(d, o)
  BY <1>1, <1>3, DeskBeginLemma DEF CreateTaskStart
<1>4. ASSUME NEW c \in Couriers, AssignStart(d, o, c) PROVE DeskLeaves(d)
  BY <1>1, <1>4, DeskBeginLemma DEF AssignStart
<1>5. ASSUME NEW s \in TaskStatuses, TaskStatusStart(d, o, s) PROVE DeskLeaves(d)
  BY <1>1, <1>5, DeskBeginLemma DEF TaskStatusStart
<1>. QED  BY <1>2, <1>3, <1>4, <1>5

LEMMA CreateTaskLeaves ==
  ASSUME DeliveryInv, NEW d \in Desks, CreateTask(d),
         UNCHANGED <<job, serviceVars, worker, crashes, glovoVars>>
  PROVE  DeskLeaves(d)
<1>1. /\ DeskEnd(d) /\ UNCHANGED storeVars
      /\ desk[d].order \in Orders /\ DeliveredByUs(desk[d].order)
  BY DEF CreateTask, DeliveryInv, DeskOK
<1>2. PICK o \in Orders : o = desk[d].order
  BY <1>1
<1>3. CASE Fault("createTask") /\ UNCHANGED task
  BY <1>1, <1>3, DeskFailsLemma
<1>4. CASE NoFault
  <2>1. \/ UNCHANGED task
        \/ FreeRow(o) /\ task' = [task EXCEPT ![o] = [status |-> "ASSIGNED", courier |-> NoCourier]]
    BY <1>2, <1>4 DEF CreateTask, Fault, NoFault
  <2>2. task' \in [Orders -> Tasks \cup {NoTask}] /\ TasksKept
    <3>1. CASE UNCHANGED task
      BY <3>1, SameTasksLemma DEF DeliveryInv, DeliveryTypeOK
    <3>2. CASE FreeRow(o) /\ task' = [task EXCEPT ![o] = [status |-> "ASSIGNED", courier |-> NoCourier]]
      <4>1. [status |-> "ASSIGNED", courier |-> NoCourier] \in Tasks
        BY DEF Tasks, TaskStatuses
      <4>2. task[o] = NoTask /\ NoTask.courier = NoCourier
        BY <3>2 DEF FreeRow, NoTask
      <4>. QED  BY <1>1, <1>2, <3>2, <4>1, <4>2 DEF DeliveryInv, DeliveryTypeOK, TasksKept
    <3>. QED  BY <2>1, <3>1, <3>2
  <2>3. DeliveryTypeOK' /\ OtherDesks(d) /\ DeskOK(d)'
    BY <1>1, <2>2, DeskEndLemma DEF DeliveryInv
  <2>4. CarrierStep
    BY <1>1, <1>4, CallLemma DEF CarrierStep, CarrierSets, CarrierSays, DeliveryInv, CoreInv,
       TypeOK, storeVars, serviceVars
  <2>. QED  BY <2>2, <2>3, <2>4 DEF DeskLeaves
<1>. QED  BY <1>3, <1>4 DEF CreateTask

LEMMA AssignTaskLeaves ==
  ASSUME DeliveryInv, NEW d \in Desks, AssignTask(d),
         UNCHANGED <<job, serviceVars, worker, crashes, glovoVars>>
  PROVE  DeskLeaves(d)
<1>1. /\ UNCHANGED storeVars /\ desk[d].order \in Orders /\ DeliveredByUs(desk[d].order)
      /\ desk[d].courier \in Couriers
  BY DEF AssignTask, DeliveryInv, DeskOK
<1>2. PICK o \in Orders, c \in Couriers : o = desk[d].order /\ c = desk[d].courier
  BY <1>1
<1>3. CASE Fault("assignTask") /\ DeskEnd(d) /\ UNCHANGED task
  BY <1>1, <1>3, DeskFailsLemma
<1>4. CASE /\ task' = [task EXCEPT ![o] = [status |-> "ASSIGNED", courier |-> c]]
           /\ NoFault \/ Fault("assignTaskAnswer")
           /\ DeskGoto(d, "announceAssigned") \/ DeskEnd(d)
  <2>1. [status |-> "ASSIGNED", courier |-> c] \in Tasks
    BY DEF Tasks, TaskStatuses
  <2>2. /\ task' \in [Orders -> Tasks \cup {NoTask}]
        /\ task'[o] = [status |-> "ASSIGNED", courier |-> c]
        /\ \A p \in Orders \ {o} : task'[p] = task[p]
    BY <1>4, <2>1 DEF DeliveryInv, DeliveryTypeOK
  <2>3. task'[o] # NoTask /\ task'[o].courier # NoCourier
    BY <2>1, <2>2, TasksLemma, DesksAssumption
  <2>4. TasksKept
    BY <1>1, <1>2, <2>2, <2>3 DEF TasksKept
  <2>5. CarrierStep
    BY <1>1, <1>4, CallLemma DEF CarrierStep, CarrierSets, CarrierSays, DeliveryInv, CoreInv,
       TypeOK, storeVars, serviceVars
  <2>6. CASE DeskGoto(d, "announceAssigned")
    <3>1. /\ DeliveryTypeOK' /\ OtherDesks(d)
          /\ desk'[d].pc = "announceAssigned" /\ desk'[d].order = o
      BY <1>2, <2>2, <2>6, DeskGotoLemma DEF DeliveryInv, DeskPcs
    <3>2. DeskOK(d)'
      BY <1>1, <1>2, <2>3, <3>1 DEF DeskOK, DeliveredByUs, Exists, storeVars
    <3>. QED  BY <2>4, <2>5, <3>1, <3>2 DEF DeskLeaves
  <2>7. CASE DeskEnd(d)
    BY <2>2, <2>4, <2>5, <2>7, DeskEndLemma DEF DeskLeaves, DeliveryInv
  <2>. QED  BY <1>4, <2>6, <2>7
<1>. QED  BY <1>2, <1>3, <1>4 DEF AssignTask

LEMMA SetTaskLeaves ==
  ASSUME DeliveryInv, NEW d \in Desks, SetTask(d),
         UNCHANGED <<job, serviceVars, worker, crashes, glovoVars>>
  PROVE  DeskLeaves(d)
<1>1. /\ UNCHANGED storeVars /\ desk[d].order \in Orders /\ DeliveredByUs(desk[d].order)
      /\ task[desk[d].order] # NoTask /\ desk[d].status \in TaskStatuses
  BY DEF SetTask, DeliveryInv, DeskOK
<1>2. PICK o \in Orders, s \in TaskStatuses : o = desk[d].order /\ s = desk[d].status
  BY <1>1
<1>3. CASE Fault("setTask") /\ DeskEnd(d) /\ UNCHANGED task
  BY <1>1, <1>3, DeskFailsLemma
<1>4. CASE /\ task' = [task EXCEPT ![o].status = s] /\ NoFault
           /\ DeskGoto(d, "completeOrder") \/ DeskEnd(d)
  <2>1. task[o] \in Tasks
    BY <1>1, <1>2 DEF DeliveryInv, DeliveryTypeOK
  <2>2. task'[o] = [task[o] EXCEPT !.status = s] /\ \A p \in Orders \ {o} : task'[p] = task[p]
    BY <1>4 DEF DeliveryInv, DeliveryTypeOK
  <2>3. task'[o] \in Tasks /\ task'[o].courier = task[o].courier
    BY <2>1, <2>2 DEF Tasks
  <2>4. task' \in [Orders -> Tasks \cup {NoTask}]
    <3>1. task' = [task EXCEPT ![o] = task'[o]]
      BY <1>4, <2>2 DEF DeliveryInv, DeliveryTypeOK
    <3>. QED  BY <2>3, <3>1 DEF DeliveryInv, DeliveryTypeOK
  <2>5. task'[o] # NoTask
    BY <2>3, TasksLemma
  <2>6. TasksKept
    BY <1>1, <1>2, <2>2, <2>3, <2>5 DEF TasksKept
  <2>7. CarrierStep
    BY <1>1, <1>4, CallLemma DEF CarrierStep, CarrierSets, CarrierSays, DeliveryInv, CoreInv,
       TypeOK, storeVars, serviceVars
  <2>8. CASE DeskEnd(d)
    BY <2>4, <2>6, <2>7, <2>8, DeskEndLemma DEF DeskLeaves, DeliveryInv
  <2>9. CASE DeskGoto(d, "completeOrder")
    <3>1. /\ DeliveryTypeOK' /\ OtherDesks(d)
          /\ desk'[d].pc = "completeOrder" /\ desk'[d].order = o
      BY <1>2, <2>4, <2>9, DeskGotoLemma DEF DeliveryInv, DeskPcs
    <3>2. DeskOK(d)'
      BY <1>1, <1>2, <2>5, <3>1 DEF DeskOK, DeliveredByUs, Exists, storeVars
    <3>. QED  BY <2>6, <2>7, <3>1, <3>2 DEF DeskLeaves
  <2>. QED  BY <1>4, <2>8, <2>9
<1>. QED  BY <1>2, <1>3, <1>4 DEF SetTask

LEMMA CompleteOrderLeaves ==
  ASSUME DeliveryInv, NEW d \in Desks, CompleteOrder(d),
         UNCHANGED <<job, serviceVars, worker, crashes, glovoVars>>
  PROVE  DeskLeaves(d)
<1>1. /\ UNCHANGED <<history, due, announced, task>>
      /\ desk[d].order \in Orders /\ DeliveredByUs(desk[d].order)
      /\ task[desk[d].order] # NoTask
  BY DEF CompleteOrder, DeliveryInv, DeskOK
<1>2. PICK o \in Orders : o = desk[d].order
  BY <1>1
<1>3. CASE Fault("completeOrder") /\ DeskEnd(d) /\ UNCHANGED orders
  BY <1>1, <1>3, DeskFailsLemma DEF storeVars
<1>4. CASE /\ orders' = [orders EXCEPT ![o].status = "COMPLETED"]
           /\ NoFault \/ Fault("completeOrderAnswer")
           /\ DeskGoto(d, "announceCompleted") \/ DeskEnd(d)
  <2>1. SetByCarrier(o, "COMPLETED") /\ "COMPLETED" \in Statuses
    BY <1>1, <1>2, <1>4 DEF SetByCarrier, DeliveredByUs, Statuses
  <2>2. CarrierStep
    BY <1>1, <1>4, <2>1, CallLemma DEF CarrierStep, CarrierSets, CarrierSays, DeliveryInv, CoreInv,
       TypeOK, serviceVars
  <2>3. RowsKept
    BY <2>2, CarrierLemma DEF DeliveryInv
  <2>4. task' \in [Orders -> Tasks \cup {NoTask}]
    BY <1>1 DEF DeliveryInv, DeliveryTypeOK
  <2>5. CASE DeskGoto(d, "announceCompleted")
    <3>1. /\ DeliveryTypeOK' /\ OtherDesks(d)
          /\ desk'[d].pc = "announceCompleted" /\ desk'[d].order = o
      BY <1>2, <2>4, <2>5, DeskGotoLemma DEF DeliveryInv, DeskPcs
    <3>2. DeskOK(d)'
      BY <1>1, <1>2, <2>3, <3>1, DeliveryKeptLemma DEF DeskOK
    <3>. QED  BY <1>1, <2>2, <3>1, <3>2, SameTasksLemma DEF DeskLeaves
  <2>6. CASE DeskEnd(d)
    <3>1. DeliveryTypeOK' /\ OtherDesks(d) /\ DeskOK(d)'
      BY <2>4, <2>6, DeskEndLemma DEF DeliveryInv
    <3>. QED  BY <1>1, <2>2, <3>1, SameTasksLemma DEF DeskLeaves
  <2>. QED  BY <1>4, <2>5, <2>6
<1>. QED  BY <1>2, <1>3, <1>4 DEF CompleteOrder

LEMMA DeskAnnouncesLeaves ==
  ASSUME DeliveryInv, NEW d \in Desks, AnnounceAssigned(d) \/ AnnounceCompleted(d),
         UNCHANGED <<job, serviceVars, worker, crashes, glovoVars>>
  PROVE  DeskLeaves(d)
<1>1. PICK s \in {"DELIVERING", "COMPLETED"} : Announce(desk[d].order, s)
  BY DEF AnnounceAssigned, AnnounceCompleted
<1>2. /\ UNCHANGED <<orders, history, due, task, faults>> /\ DeskEnd(d)
      /\ desk[d].order \in Orders /\ task[desk[d].order] # NoTask
  BY DEF AnnounceAssigned, AnnounceCompleted, DeliveryInv, DeskOK
<1>3. s \in Statuses /\ SaidByCarrier(desk[d].order, s)
  BY <1>1, <1>2 DEF SaidByCarrier, Statuses
<1>4. CarrierStep
  BY <1>1, <1>2, <1>3, CallLemma DEF CarrierStep, CarrierSets, CarrierSays, DeliveryInv, CoreInv,
     TypeOK, serviceVars, NoFault
<1>5. DeliveryTypeOK' /\ OtherDesks(d) /\ DeskOK(d)'
  BY <1>2, DeskEndLemma DEF DeliveryInv, DeliveryTypeOK
<1>. QED  BY <1>2, <1>4, <1>5, SameTasksLemma DEF DeskLeaves

LEMMA DeskLemma ==
  ASSUME DeliveryInv, NEW d \in Desks, CallDesk(d) \/ Desk(d)
  PROVE  DeskLeaves(d)
BY CallDeskLeaves, CreateTaskLeaves, AssignTaskLeaves, SetTaskLeaves, CompleteOrderLeaves,
   DeskAnnouncesLeaves DEF Desk, DeskStep

-----------------------------------------------------------------------------
(* The webhooks and the glovoSync worker *)

OtherHooks(h) == \A g \in Hooks \ {h} : hook'[g] = hook[g]

\* No Glovo order goes, and none comes but for an order Glovo delivers.
ParcelsKept ==
  \A o \in Orders : /\ parcel[o] # "NONE" => parcel'[o] # "NONE"
                    /\ parcel'[o] # "NONE" => parcel[o] # "NONE" \/ DeliveredByGlovo(o)

\* What a step of a webhook leaves behind.
HookLeaves(h) ==
  /\ CarrierStep
  /\ \A o \in Orders : parcel'[o] = "NONE" <=> parcel[o] = "NONE"
  /\ GlovoTypeOK'
  /\ OtherHooks(h)
  /\ HookOK(h)'
  /\ UNCHANGED <<deliveryVars, syncVars>>

LEMMA HookEndLemma ==
  ASSUME GlovoTypeOK, NEW h \in Hooks, HookEnd(h), UNCHANGED syncVars,
         parcel' \in [Orders -> GlovoStatuses \cup {"NONE"}]
  PROVE  GlovoTypeOK' /\ OtherHooks(h) /\ HookOK(h)' /\ hook'[h] = IdleHook
BY DEF GlovoTypeOK, HookEnd, IdleHook, OtherHooks, HookOK, syncVars

LEMMA HookGotoLemma ==
  ASSUME GlovoTypeOK, NEW h \in Hooks, NEW pc \in {"setOrder", "announceHook"}, HookGoto(h, pc),
         UNCHANGED syncVars, parcel' \in [Orders -> GlovoStatuses \cup {"NONE"}]
  PROVE  /\ GlovoTypeOK' /\ OtherHooks(h)
         /\ hook'[h].pc = pc /\ hook'[h].order = hook[h].order /\ hook'[h].status = hook[h].status
BY DEF GlovoTypeOK, HookGoto, OtherHooks, syncVars

LEMMA HookFailsLemma ==
  ASSUME DeliveryInv, NEW h \in Hooks, NEW p, Fault(p), HookEnd(h),
         UNCHANGED <<storeVars, parcel, syncVars, job, serviceVars, worker, crashes, deliveryVars>>
  PROVE  HookLeaves(h)
<1>1. GlovoTypeOK' /\ OtherHooks(h) /\ HookOK(h)'
  BY HookEndLemma DEF DeliveryInv, GlovoTypeOK
<1>2. CarrierStep
  BY CallLemma DEF CarrierStep, CarrierSets, CarrierSays, DeliveryInv, CoreInv, TypeOK,
     storeVars, serviceVars
<1>. QED  BY <1>1, <1>2 DEF HookLeaves

LEMMA HookStartLeaves ==
  ASSUME DeliveryInv, NEW h \in Hooks, NEW o \in Orders, NEW s \in HookInputs, HookStart(h, o, s),
         UNCHANGED <<job, serviceVars, worker, crashes, deliveryVars>>
  PROVE  HookLeaves(h)
<1>1. /\ UNCHANGED <<orders, history, due, announced, faults, parcel, syncVars>>
      /\ hookCalls < MaxHookCalls /\ hookCalls' = hookCalls + 1
      /\ hook' = [hook EXCEPT ![h] = [pc |-> "setParcel", order |-> o,
                                      seen |-> orders[o].status, status |-> s]]
      /\ parcel[o] # "NONE" /\ s \in GlovoStatuses
  BY GlovoAssumption DEF HookStart, storeVars
<1>2. orders[o].status \in Statuses \cup {"ABSENT"}
  BY DEF DeliveryInv, CoreInv, TypeOK, StoreTypeOK, Rows, Absent
<1>3. /\ hook'[h].pc = "setParcel" /\ hook'[h].order = o /\ hook'[h].status = s
      /\ OtherHooks(h)
  BY <1>1 DEF DeliveryInv, GlovoTypeOK, OtherHooks
<1>4. GlovoTypeOK'
  <2>1. hookCalls' \in 0 .. MaxHookCalls
    BY <1>1, GlovoAssumption DEF DeliveryInv, GlovoTypeOK
  <2>2. serial' \in [Orders -> BOOLEAN]
    BY DEF DeliveryInv, GlovoTypeOK, HookStart
  <2>3. UNCHANGED <<parcel, sync, syncs>>
    BY <1>1 DEF syncVars
  <2>4. hook' \in [Hooks -> [pc     : {"idle", "setParcel", "setOrder", "announceHook"},
                             order  : Orders \cup {NoOrder},
                             seen   : Statuses \cup {"ABSENT"},
                             status : GlovoStatuses \cup {"NONE"}]]
    BY <1>1, <1>2 DEF DeliveryInv, GlovoTypeOK
  <2>. QED  BY <2>1, <2>2, <2>3, <2>4 DEF DeliveryInv, GlovoTypeOK
<1>5. HookOK(h)'
  BY <1>1, <1>3 DEF HookOK
<1>6. CarrierStep
  BY <1>1, CallLemma DEF CarrierStep, CarrierSets, CarrierSays, NoFault, DeliveryInv, CoreInv,
     TypeOK, serviceVars
<1>. QED  BY <1>1, <1>3, <1>4, <1>5, <1>6 DEF HookLeaves

LEMMA SetParcelLeaves ==
  ASSUME DeliveryInv, NEW h \in Hooks, SetParcel(h),
         UNCHANGED <<job, serviceVars, worker, crashes, deliveryVars>>
  PROVE  HookLeaves(h)
<1>1. /\ UNCHANGED <<storeVars, syncVars>> /\ hook[h].order \in Orders
      /\ parcel[hook[h].order] # "NONE" /\ hook[h].status \in GlovoStatuses
  BY DEF SetParcel, DeliveryInv, HookOK
<1>2. PICK o \in Orders, s \in GlovoStatuses : o = hook[h].order /\ s = hook[h].status
  BY <1>1
<1>3. CASE Fault("setParcel") /\ HookEnd(h) /\ UNCHANGED parcel
  BY <1>1, <1>3, HookFailsLemma
<1>4. CASE /\ parcel' = [parcel EXCEPT ![o] = s] /\ NoFault
           /\ IF MovesOrder(h) THEN HookGoto(h, "setOrder") ELSE HookEnd(h)
  <2>1. s # "NONE"
    BY DEF GlovoStatuses
  <2>2. /\ parcel' \in [Orders -> GlovoStatuses \cup {"NONE"}]
        /\ parcel'[o] = s /\ \A p \in Orders \ {o} : parcel'[p] = parcel[p]
    BY <1>4 DEF DeliveryInv, GlovoTypeOK
  <2>3. \A p \in Orders : parcel'[p] = "NONE" <=> parcel[p] = "NONE"
    BY <1>1, <1>2, <2>1, <2>2
  <2>4. CarrierStep
    BY <1>1, <1>4, CallLemma DEF CarrierStep, CarrierSets, CarrierSays, DeliveryInv, CoreInv,
       TypeOK, storeVars, serviceVars
  <2>5. CASE HookEnd(h)
    BY <1>1, <2>2, <2>3, <2>4, <2>5, HookEndLemma DEF HookLeaves, DeliveryInv
  <2>6. CASE MovesOrder(h) /\ HookGoto(h, "setOrder")
    <3>1. /\ GlovoTypeOK' /\ OtherHooks(h) /\ hook'[h].pc = "setOrder"
          /\ hook'[h].order = o /\ hook'[h].status = s
      BY <1>1, <1>2, <2>2, <2>6, HookGotoLemma DEF DeliveryInv
    <3>2. HookOK(h)'
      BY <1>2, <2>1, <2>2, <2>6, <3>1 DEF HookOK, MovesOrder
    <3>. QED  BY <1>1, <2>3, <2>4, <3>1, <3>2 DEF HookLeaves
  <2>. QED  BY <1>4, <2>5, <2>6
<1>. QED  BY <1>2, <1>3, <1>4 DEF SetParcel

LEMMA SetOrderLeaves ==
  ASSUME DeliveryInv, NEW h \in Hooks, SetOrder(h),
         UNCHANGED <<job, serviceVars, worker, crashes, deliveryVars>>
  PROVE  HookLeaves(h)
<1>1. /\ UNCHANGED <<history, due, announced, parcel, syncVars>> /\ hook[h].order \in Orders
      /\ parcel[hook[h].order] # "NONE" /\ hook[h].status \in Mapped
  BY DEF SetOrder, DeliveryInv, HookOK
<1>2. PICK o \in Orders, s \in Mapped : o = hook[h].order /\ s = hook[h].status
  BY <1>1
<1>3. CASE Fault("setOrder") /\ HookEnd(h) /\ UNCHANGED orders
  BY <1>1, <1>3, HookFailsLemma DEF storeVars
<1>4. CASE /\ orders' = [orders EXCEPT ![o].status = Internal[s]]
           /\ NoFault \/ Fault("setOrderAnswer")
           /\ HookGoto(h, "announceHook") \/ HookEnd(h)
  <2>1. SetByCarrier(o, Internal[s]) /\ Internal[s] \in Statuses
    BY <1>1, <1>2, <1>4, GlovosLemma DEF SetByCarrier, DeliveryInv, OneCarrier, DeliveredByGlovo
  <2>2. CarrierStep
    BY <1>1, <1>4, <2>1, CallLemma DEF CarrierStep, CarrierSets, CarrierSays, DeliveryInv, CoreInv,
       TypeOK, serviceVars
  <2>3. parcel' \in [Orders -> GlovoStatuses \cup {"NONE"}]
    BY <1>1 DEF DeliveryInv, GlovoTypeOK
  <2>4. CASE HookGoto(h, "announceHook")
    <3>1. /\ GlovoTypeOK' /\ OtherHooks(h) /\ hook'[h].pc = "announceHook"
          /\ hook'[h].order = o /\ hook'[h].status = s
      BY <1>1, <1>2, <2>3, <2>4, HookGotoLemma DEF DeliveryInv
    <3>2. HookOK(h)'
      BY <1>1, <1>2, <3>1, GlovosLemma DEF HookOK
    <3>. QED  BY <1>1, <2>2, <3>1, <3>2 DEF HookLeaves
  <2>5. CASE HookEnd(h)
    BY <1>1, <2>2, <2>3, <2>5, HookEndLemma DEF HookLeaves, DeliveryInv
  <2>. QED  BY <1>4, <2>4, <2>5
<1>. QED  BY <1>2, <1>3, <1>4 DEF SetOrder

LEMMA AnnounceHookLeaves ==
  ASSUME DeliveryInv, NEW h \in Hooks, AnnounceHook(h),
         UNCHANGED <<job, serviceVars, worker, crashes, deliveryVars>>
  PROVE  HookLeaves(h)
<1>1. /\ UNCHANGED <<orders, history, due, parcel, syncVars, faults>> /\ HookEnd(h)
      /\ Announce(hook[h].order, Internal[hook[h].status])
      /\ hook[h].order \in Orders /\ parcel[hook[h].order] # "NONE" /\ hook[h].status \in Mapped
  BY DEF AnnounceHook, DeliveryInv, HookOK
<1>2. /\ Internal[hook[h].status] \in Statuses
      /\ SaidByCarrier(hook[h].order, Internal[hook[h].status])
  BY <1>1, GlovosLemma DEF SaidByCarrier
<1>3. CarrierStep
  BY <1>1, <1>2, CallLemma DEF CarrierStep, CarrierSets, CarrierSays, DeliveryInv, CoreInv,
     TypeOK, serviceVars, NoFault
<1>4. GlovoTypeOK' /\ OtherHooks(h) /\ HookOK(h)'
  BY <1>1, HookEndLemma DEF DeliveryInv, GlovoTypeOK
<1>. QED  BY <1>1, <1>3, <1>4 DEF HookLeaves

LEMMA HookLemma ==
  ASSUME DeliveryInv, NEW h \in Hooks, CallHook(h) \/ Hook(h)
  PROVE  HookLeaves(h)
BY HookStartLeaves, SetParcelLeaves, SetOrderLeaves, AnnounceHookLeaves
   DEF CallHook, Hook, Glovo, HookCall, HookStep

\* What a step of the glovoSync worker leaves behind.
LEMMA SyncLemma ==
  ASSUME DeliveryInv, Sync
  PROVE  /\ CarrierStep /\ ParcelsKept /\ GlovoTypeOK' /\ SyncOK'
         /\ \A o \in Orders : parcel'[o] \in {parcel[o], "PENDING", "IN_TRANSIT"}
         /\ UNCHANGED <<orders, deliveryVars, hook, hookCalls, serial>>
<1>1. /\ UNCHANGED <<orders, history, due, announced, job, req, started, worker, crashes>>
      /\ UNCHANGED <<deliveryVars, hook, hookCalls, serial>>
  BY DEF Sync, Glovo, SyncTake, SyncWrite, storeVars, serviceVars
<1>2. ASSUME NEW o \in Orders, SyncTake(o)
      PROVE  CarrierStep /\ ParcelsKept /\ GlovoTypeOK' /\ SyncOK' /\ UNCHANGED parcel
  <2>1. /\ UNCHANGED <<parcel, faults>> /\ syncs < MaxSyncs /\ syncs' = syncs + 1
        /\ \/ /\ DeliveredByGlovo(o) /\ parcel[o] = "NONE"
              /\ sync' = [pc |-> "createParcel", order |-> o]
           \/ /\ parcel[o] # "NONE"
              /\ sync' = [pc |-> "syncParcel", order |-> o]
    BY <1>2 DEF SyncTake
  <2>2. CarrierStep
    BY <1>1, <2>1, CallLemma DEF CarrierStep, CarrierSets, CarrierSays, NoFault, DeliveryInv,
       CoreInv, TypeOK
  <2>3. GlovoTypeOK'
    <3>1. syncs' \in 0 .. MaxSyncs
      BY <2>1, GlovoAssumption DEF DeliveryInv, GlovoTypeOK
    <3>2. sync' \in [pc : {"idle", "createParcel", "syncParcel"}, order : Orders \cup {NoOrder}]
      BY <2>1
    <3>. QED  BY <1>1, <2>1, <3>1, <3>2 DEF DeliveryInv, GlovoTypeOK
  <2>4. SyncOK'
    BY <1>1, <2>1 DEF SyncOK, DeliveredByGlovo, Exists
  <2>. QED  BY <2>1, <2>2, <2>3, <2>4 DEF ParcelsKept
<1>3. CASE SyncWrite
  <2>1. PICK o \in Orders : o = sync.order
    <3>1. sync.pc # "idle"
      BY <1>3 DEF SyncWrite
    <3>. QED  BY <3>1 DEF DeliveryInv, SyncOK
  <2>2. /\ sync' = IdleSync /\ UNCHANGED syncs
        /\ NoFault \/ Fault("syncWrite")
        /\ \/ UNCHANGED parcel
           \/ parcel' = [parcel EXCEPT ![o] = "PENDING"] /\ sync.pc = "createParcel"
           \/ parcel' = [parcel EXCEPT ![o] = "IN_TRANSIT"] /\ sync.pc = "syncParcel"
    BY <1>3, <2>1 DEF SyncWrite, SyncEnd
  <2>3. /\ parcel' \in [Orders -> GlovoStatuses \cup {"NONE"}]
        /\ \A p \in Orders \ {o} : parcel'[p] = parcel[p]
        /\ parcel'[o] \in {parcel[o], "PENDING", "IN_TRANSIT"}
        /\ parcel'[o] = parcel[o] \/ sync.pc \in {"createParcel", "syncParcel"}
    BY <2>2 DEF DeliveryInv, GlovoTypeOK, GlovoStatuses
  <2>4. ParcelsKept
    BY <2>1, <2>3 DEF ParcelsKept, DeliveryInv, SyncOK
  <2>5. GlovoTypeOK' /\ SyncOK'
    BY <1>1, <2>2, <2>3 DEF DeliveryInv, GlovoTypeOK, IdleSync, SyncOK
  <2>6. CarrierStep
    BY <1>1, <2>2, CallLemma DEF CarrierStep, CarrierSets, CarrierSays, DeliveryInv, CoreInv, TypeOK
  <2>. QED  BY <1>1, <2>3, <2>4, <2>5, <2>6
<1>. QED  BY <1>1, <1>2, <1>3 DEF Sync, Glovo

-----------------------------------------------------------------------------
(* What the handlers rely on, in the whole system *)

\* A step of OrderLifecycle, among the carriers' steps.
LEMMA LifecyclePreserves ==
  ASSUME DeliveryInv, Lifecycle \/ CrashAll \/ UNCHANGED allVars
  PROVE  /\ CoreInv' /\ OneCarrier' /\ UnrecordedOnlyByCarriers'
         /\ \A o \in Orders : /\ DeliveredByUs(o) => DeliveredByUs(o)'
                              /\ DeliveredByGlovo(o) => DeliveredByGlovo(o)'
<1>1. [Next]_vars /\ UNCHANGED <<task, parcel>>
  BY DEF Lifecycle, CrashAll, Next, allVars, carrierVars, deliveryVars, glovoVars
<1>2. CoreInv'
  BY <1>1, CorePreserves DEF DeliveryInv
<1>3. CASE UNCHANGED <<orders, history>>
  <2>1. \A o \in Orders : /\ DeliveredByUs(o) => DeliveredByUs(o)'
                          /\ DeliveredByGlovo(o) => DeliveredByGlovo(o)'
    BY <1>3 DEF DeliveredByUs, DeliveredByGlovo, Exists
  <2>2. OneCarrier'
    BY <1>1, <2>1 DEF DeliveryInv, OneCarrier
  <2>3. UnrecordedOnlyByCarriers'
    BY <1>1, <1>3 DEF DeliveryInv, UnrecordedOnlyByCarriers, Exists
  <2>. QED  BY <1>2, <2>1, <2>2, <2>3
<1>4. ASSUME NEW o \in Orders, NEW e \in Entries, Written(o, e)
      PROVE  /\ OneCarrier' /\ UnrecordedOnlyByCarriers'
             /\ \A p \in Orders : /\ DeliveredByUs(p) => DeliveredByUs(p)'
                                  /\ DeliveredByGlovo(p) => DeliveredByGlovo(p)'
  <2>1. /\ Exists(o)' /\ orders'[o].status = e.status /\ history'[o] = Append(history[o], e)
        /\ \A p \in Orders \ {o} : orders'[p] = orders[p] /\ history'[p] = history[p]
        /\ Exists(o) => orders'[o].deliveryType = orders[o].deliveryType
    BY <1>4 DEF Written, Writes
  <2>2. \A p \in Orders : /\ DeliveredByUs(p) => DeliveredByUs(p)'
                          /\ DeliveredByGlovo(p) => DeliveredByGlovo(p)'
    BY <2>1 DEF DeliveredByUs, DeliveredByGlovo, Exists
  <2>3. OneCarrier'
    BY <1>1, <2>2 DEF DeliveryInv, OneCarrier
  <2>4. history[o] \in Seq(Entries)
    BY DEF DeliveryInv, CoreInv, TypeOK, StoreTypeOK
  <2>5. history'[o][Len(history'[o])].status = orders'[o].status
    BY <2>1, <2>4, LastRowLemma
  <2>6. UnrecordedOnlyByCarriers'
    BY <1>1, <2>1, <2>5 DEF DeliveryInv, UnrecordedOnlyByCarriers, Exists
  <2>. QED  BY <2>2, <2>3, <2>6
<1>5. \/ UNCHANGED <<orders, history>>
      \/ \E o \in Orders, e \in Entries : Written(o, e)
  BY <1>1, StepWritesLemma DEF DeliveryInv, vars, storeVars
<1>. QED  BY <1>2, <1>3, <1>4, <1>5

\* A carrier's step leaves an unrecorded status only to its own orders.
LEMMA CarrierRecordsLemma ==
  ASSUME DeliveryInv, CarrierStep, \A o \in Orders : parcel[o] # "NONE" => parcel'[o] # "NONE"
  PROVE  UnrecordedOnlyByCarriers'
<1>1. UNCHANGED history /\ RowsKept /\ CarrierSets
  BY CarrierLemma DEF CarrierStep, DeliveryInv
<1>. SUFFICES ASSUME NEW p \in Orders, Exists(p)'
              PROVE  \/ history'[p][Len(history'[p])].status = orders'[p].status
                     \/ orders'[p].deliveryType = "OWN" /\ orders'[p].status = "COMPLETED"
                     \/ parcel'[p] # "NONE" /\ orders'[p].status \in GlovosStatuses
  BY DEF UnrecordedOnlyByCarriers
<1>2. Exists(p) /\ orders'[p].deliveryType = orders[p].deliveryType
  BY <1>1 DEF RowsKept
<1>3. CASE orders'[p].status = orders[p].status
  BY <1>1, <1>2, <1>3 DEF DeliveryInv, UnrecordedOnlyByCarriers
<1>4. CASE orders'[p].status # orders[p].status
  <2>1. PICK o \in Orders, s \in Statuses : SetByCarrier(o, s)
    BY <1>1, <1>4 DEF CarrierSets
  <2>2. p = o /\ orders'[p].status = s
    BY <1>4, <2>1, SetByCarrierLemma DEF DeliveryInv, CoreInv, TypeOK
  <2>3. DeliveredByUs(p) => orders[p].deliveryType = "OWN"
    BY <1>2 DEF DeliveredByUs, Exists, DeliveryInv, CoreInv, TypeOK, StoreTypeOK, Rows, DeliveryTypes
  <2>. QED  BY <1>2, <2>1, <2>2, <2>3 DEF SetByCarrier
<1>. QED  BY <1>3, <1>4

\* The other handlers do not mind who sets an order's status.
LEMMA DesksKeptLemma ==
  ASSUME \A o \in Orders : DeliveredByUs(o) => DeliveredByUs(o)',
         \A o \in Orders : task[o] # NoTask => task'[o] # NoTask,
         NEW d \in Desks, DeskOK(d), desk'[d] = desk[d]
  PROVE  DeskOK(d)'
BY DEF DeskOK

LEMMA HooksKeptLemma ==
  ASSUME \A o \in Orders : parcel[o] # "NONE" => parcel'[o] # "NONE",
         NEW h \in Hooks, HookOK(h), hook'[h] = hook[h]
  PROVE  HookOK(h)'
BY DEF HookOK

LEMMA SyncKeptLemma ==
  ASSUME \A o \in Orders : DeliveredByGlovo(o) => DeliveredByGlovo(o)',
         \A o \in Orders : parcel'[o] = "NONE" <=> parcel[o] = "NONE",
         SyncOK, UNCHANGED sync
  PROVE  SyncOK'
BY DEF SyncOK

LEMMA DeliveryEstablishes == FulfilInit => DeliveryInv
<1>. SUFFICES ASSUME FulfilInit PROVE DeliveryInv
  OBVIOUS
<1>1. CoreInv
  BY CoreEstablishes DEF FulfilInit
<1>. USE DEF FulfilInit, DeliveryInit, GlovoInit
<1>2. DeliveryTypeOK
  BY DesksAssumption DEF DeliveryTypeOK, IdleDesk, DeskPcs
<1>3. GlovoTypeOK
  BY GlovoAssumption DEF GlovoTypeOK, IdleHook, IdleSync
<1>4. OneCarrier /\ SyncOK
  BY DEF OneCarrier, SyncOK, IdleSync
<1>5. \A d \in Desks : DeskOK(d)
  BY DEF DeskOK, IdleDesk
<1>6. \A h \in Hooks : HookOK(h)
  BY DEF HookOK, IdleHook
<1>7. UnrecordedOnlyByCarriers
  BY DEF UnrecordedOnlyByCarriers, Exists, Init, StoreInit
<1>. QED  BY <1>1, <1>2, <1>3, <1>4, <1>5, <1>6, <1>7 DEF DeliveryInv

LEMMA DeliveryPreserves == DeliveryInv /\ [FulfilNext]_allVars => DeliveryInv'
<1>. SUFFICES ASSUME DeliveryInv, [FulfilNext]_allVars PROVE DeliveryInv'
  OBVIOUS
<1>. USE DEF DeliveryInv
<1>1. ASSUME NEW d \in Desks, DeskLeaves(d) PROVE DeliveryInv'
  <2>1. CoreInv' /\ RowsKept
    BY <1>1, CarrierLemma DEF DeskLeaves
  <2>2. UNCHANGED <<parcel, hook, hookCalls, sync, syncs, serial>>
    BY <1>1 DEF DeskLeaves, glovoVars, syncVars
  <2>3. \A o \in Orders : /\ DeliveredByUs(o)' <=> DeliveredByUs(o)
                          /\ DeliveredByGlovo(o)' <=> DeliveredByGlovo(o)
    BY <2>1, DeliveryKeptLemma
  <2>4. GlovoTypeOK' /\ DeliveryTypeOK'
    BY <1>1, <2>2 DEF GlovoTypeOK, DeskLeaves
  <2>5. OneCarrier'
    BY <1>1, <2>2, <2>3 DEF OneCarrier, DeskLeaves, TasksKept
  <2>6. ASSUME NEW c \in Desks PROVE DeskOK(c)'
    BY <1>1, <2>3, DesksKeptLemma DEF DeskLeaves, OtherDesks, TasksKept
  <2>7. ASSUME NEW h \in Hooks PROVE HookOK(h)'
    BY <2>2, HooksKeptLemma
  <2>8. SyncOK'
    BY <2>2, <2>3, SyncKeptLemma
  <2>9. UnrecordedOnlyByCarriers'
    BY <1>1, <2>2, CarrierRecordsLemma DEF DeskLeaves
  <2>. QED  BY <2>1, <2>4, <2>5, <2>6, <2>7, <2>8, <2>9
<1>2. ASSUME NEW h \in Hooks, HookLeaves(h) PROVE DeliveryInv'
  <2>1. CoreInv' /\ RowsKept
    BY <1>2, CarrierLemma DEF HookLeaves
  <2>2. UNCHANGED <<task, desk, deskCalls, sync, syncs>>
    BY <1>2 DEF HookLeaves, deliveryVars, syncVars
  <2>3. \A o \in Orders : /\ DeliveredByUs(o)' <=> DeliveredByUs(o)
                          /\ DeliveredByGlovo(o)' <=> DeliveredByGlovo(o)
    BY <2>1, DeliveryKeptLemma
  <2>4. GlovoTypeOK' /\ DeliveryTypeOK'
    BY <1>2, <2>2 DEF DeliveryTypeOK, HookLeaves
  <2>5. OneCarrier'
    BY <1>2, <2>2, <2>3 DEF OneCarrier, HookLeaves
  <2>6. ASSUME NEW c \in Desks PROVE DeskOK(c)'
    BY <2>2, <2>3, DesksKeptLemma
  <2>7. ASSUME NEW g \in Hooks PROVE HookOK(g)'
    BY <1>2, HooksKeptLemma DEF HookLeaves, OtherHooks
  <2>8. SyncOK'
    BY <1>2, <2>2, <2>3, SyncKeptLemma DEF HookLeaves
  <2>9. UnrecordedOnlyByCarriers'
    BY <1>2, CarrierRecordsLemma DEF HookLeaves
  <2>. QED  BY <2>1, <2>4, <2>5, <2>6, <2>7, <2>8, <2>9
<1>3. CASE Sync
  <2>1. CarrierStep /\ ParcelsKept /\ GlovoTypeOK' /\ SyncOK'
    BY <1>3, SyncLemma
  <2>2. UNCHANGED <<task, desk, deskCalls, hook>>
    BY <1>3, SyncLemma DEF deliveryVars
  <2>3. CoreInv' /\ RowsKept
    BY <2>1, CarrierLemma
  <2>4. \A o \in Orders : /\ DeliveredByUs(o)' <=> DeliveredByUs(o)
                          /\ DeliveredByGlovo(o)' <=> DeliveredByGlovo(o)
    BY <2>3, DeliveryKeptLemma
  <2>5. DeliveryTypeOK'
    BY <2>2 DEF DeliveryTypeOK
  <2>6. OneCarrier'
    BY <2>1, <2>2, <2>4 DEF OneCarrier, ParcelsKept
  <2>7. ASSUME NEW c \in Desks PROVE DeskOK(c)'
    BY <2>2, <2>4, DesksKeptLemma
  <2>8. ASSUME NEW h \in Hooks PROVE HookOK(h)'
    BY <2>1, <2>2, HooksKeptLemma DEF ParcelsKept
  <2>9. UnrecordedOnlyByCarriers'
    BY <2>1, CarrierRecordsLemma DEF ParcelsKept
  <2>. QED  BY <2>1, <2>3, <2>5, <2>6, <2>7, <2>8, <2>9
<1>4. CASE Lifecycle \/ UNCHANGED allVars
  <2>1. UNCHANGED <<task, desk, deskCalls, parcel, hook, hookCalls, sync, syncs, serial>>
    BY <1>4 DEF Lifecycle, allVars, carrierVars, deliveryVars, glovoVars, syncVars
  <2>2. /\ CoreInv' /\ OneCarrier' /\ UnrecordedOnlyByCarriers'
        /\ \A o \in Orders : /\ DeliveredByUs(o) => DeliveredByUs(o)'
                             /\ DeliveredByGlovo(o) => DeliveredByGlovo(o)'
    BY <1>4, LifecyclePreserves
  <2>3. DeliveryTypeOK' /\ GlovoTypeOK'
    BY <2>1 DEF DeliveryTypeOK, GlovoTypeOK
  <2>4. ASSUME NEW c \in Desks PROVE DeskOK(c)'
    BY <2>1, <2>2, DesksKeptLemma
  <2>5. ASSUME NEW h \in Hooks PROVE HookOK(h)'
    BY <2>1, HooksKeptLemma
  <2>6. SyncOK'
    BY <2>1, <2>2, SyncKeptLemma
  <2>. QED  BY <2>2, <2>3, <2>4, <2>5, <2>6
<1>5. CASE CrashAll
  <2>1. /\ UNCHANGED <<task, deskCalls, parcel, hookCalls, syncs, serial>>
        /\ desk' = [d \in Desks |-> IdleDesk] /\ hook' = [h \in Hooks |-> IdleHook]
        /\ sync' = IdleSync
    BY <1>5 DEF CrashAll
  <2>2. CoreInv' /\ OneCarrier' /\ UnrecordedOnlyByCarriers'
    BY <1>5, LifecyclePreserves
  <2>3. DeliveryTypeOK'
    BY <2>1 DEF DeliveryTypeOK, IdleDesk, DeskPcs
  <2>4. GlovoTypeOK'
    BY <2>1 DEF GlovoTypeOK, IdleHook, IdleSync
  <2>5. ASSUME NEW c \in Desks PROVE DeskOK(c)'
    BY <2>1 DEF DeskOK, IdleDesk
  <2>6. ASSUME NEW h \in Hooks PROVE HookOK(h)'
    BY <2>1 DEF HookOK, IdleHook
  <2>7. SyncOK'
    BY <2>1 DEF SyncOK, IdleSync
  <2>. QED  BY <2>2, <2>3, <2>4, <2>5, <2>6, <2>7
<1>. QED  BY <1>1, <1>2, <1>3, <1>4, <1>5, DeskLemma, HookLemma DEF FulfilNext

\* What every handler relies on holds in every reachable state.
THEOREM DeliveryInvHolds == FulfilSpec => []DeliveryInv
<1>. QED  BY DeliveryEstablishes, DeliveryPreserves, PTL DEF FulfilSpec

\* Only the carrier of an order leaves a status out of its history
\* (delivery.service.ts and glovo.service.ts write the row alone).
THEOREM OnlyCarriersLeaveGaps == FulfilSpec => []UnrecordedOnlyByCarriers
<1>1. DeliveryInv => UnrecordedOnlyByCarriers
  BY DEF DeliveryInv
<1>. QED  BY <1>1, DeliveryInvHolds, PTL

\* The carriers strand no scheduled order either, though they set statuses
\* beside the worker.
THEOREM NobodyIsStrandedByCarriers == FulfilSpec => []NoStrandedOrder
<1>1. DeliveryInv => NoStrandedOrder
  BY DEF DeliveryInv, CoreInv
<1>. QED  BY <1>1, DeliveryInvHolds, PTL

\* A courier, once assigned, stays: createDeliveryTask takes a free row only
\* and updateDeliveryStatus sets the status only.
THEOREM CouriersAreKept == FulfilSpec => CourierKept
<1>1. DeliveryInv /\ [FulfilNext]_allVars =>
        [\A o \in Orders : task[o].courier # NoCourier => task'[o].courier # NoCourier]_allVars
  <2>. SUFFICES ASSUME DeliveryInv, FulfilNext
                PROVE  \A o \in Orders : task[o].courier # NoCourier => task'[o].courier # NoCourier
    OBVIOUS
  <2>1. ASSUME NEW d \in Desks, CallDesk(d) \/ Desk(d) PROVE TasksKept
    BY <2>1, DeskLemma DEF DeskLeaves
  <2>2. ASSUME NEW h \in Hooks, CallHook(h) \/ Hook(h) PROVE UNCHANGED task
    BY <2>2, HookLemma DEF HookLeaves, deliveryVars
  <2>3. Sync => UNCHANGED task
    BY SyncLemma DEF deliveryVars
  <2>4. Lifecycle \/ CrashAll => UNCHANGED task
    BY DEF Lifecycle, CrashAll, carrierVars, deliveryVars
  <2>. QED  BY <2>1, <2>2, <2>3, <2>4 DEF FulfilNext, TasksKept
<1>. QED  BY <1>1, DeliveryInvHolds, PTL DEF FulfilSpec, CourierKept

-----------------------------------------------------------------------------
(* What is announced was recorded, or is the carrier's *)

\* Both counts of AnnouncedInv, as the sequences they count in.
LEMMA ToldLemma ==
  ASSUME StoreTypeOK, NEW o \in Orders, NEW s \in Statuses
  PROVE  Broadcasts(o, s) > 0 <=> Told(o, s)
<1>1. announced[o] \in Seq(Statuses)
  BY DEF StoreTypeOK
<1>2. Len(announced[o]) \in Nat /\ DOMAIN announced[o] = 1 .. Len(announced[o])
  BY <1>1
<1>3. Occurs(announced[o], s) \in SUBSET (1 .. Len(announced[o]))
  BY <1>2 DEF Occurs
<1>4. IsFiniteSet(Occurs(announced[o], s)) /\ Cardinality(Occurs(announced[o], s)) \in Nat
  <2>1. IsFiniteSet(1 .. Len(announced[o]))
    BY <1>2, FS_Interval
  <2>2. IsFiniteSet(Occurs(announced[o], s))
    BY <1>3, <2>1, FS_Subset
  <2>. QED  BY <2>2, FS_CardinalityType
<1>5. Cardinality(Occurs(announced[o], s)) = 0 <=> Occurs(announced[o], s) = {}
  BY <1>4, FS_EmptySet
<1>6. Broadcasts(o, s) = Cardinality(Occurs(announced[o], s))
  BY DEF Broadcasts, Occurs
<1>7. Told(o, s) <=> Occurs(announced[o], s) # {}
  BY DEF Told, Occurs
<1>. QED  BY <1>4, <1>5, <1>6, <1>7

\* The journal is the history without its writers.
LEMMA RecordedLemma ==
  ASSUME StoreTypeOK, NEW o \in Orders, NEW s
  PROVE  Recorded(o, s) <=> \E i \in 1 .. Len(Journal(o)) : Journal(o)[i] = s
<1>1. history[o] \in Seq(Entries)
  BY DEF StoreTypeOK
<1>2. Len(history[o]) \in Nat /\ DOMAIN history[o] = 1 .. Len(history[o])
  BY <1>1
<1>3. Journal(o) \in Seq(Statuses) /\ Len(Journal(o)) = Len(history[o])
  <2>1. \A i \in 1 .. Len(history[o]) : history[o][i] \in Entries
    BY <1>1, <1>2
  <2>2. \A i \in 1 .. Len(history[o]) : history[o][i].status \in Statuses
    BY <2>1 DEF Entries
  <2>. QED  BY <1>2, <2>2 DEF Journal
<1>4. \A i \in 1 .. Len(history[o]) : Journal(o)[i] = history[o][i].status
  BY DEF Journal
<1>. QED  BY <1>2, <1>3, <1>4 DEF Recorded

\* Both hold of the next state as well.
ToldAgrees == \A o \in Orders, s \in Statuses : Broadcasts(o, s) > 0 <=> Told(o, s)

RecordedAgrees ==
  \A o \in Orders, s \in Statuses :
    Recorded(o, s) <=> \E i \in 1 .. Len(Journal(o)) : Journal(o)[i] = s

LEMMA AgreeLemma == StoreTypeOK => ToldAgrees /\ RecordedAgrees
BY ToldLemma, RecordedLemma DEF ToldAgrees, RecordedAgrees

LEMMA AgreeNextLemma == StoreTypeOK' => ToldAgrees' /\ RecordedAgrees'
BY AgreeLemma, PTL

\* Setting one counter leaves the others alone.
LEMMA OtherCounters ==
  ASSUME NEW F \in Counters, NEW p \in Orders, NEW t \in Statuses, NEW n,
         NEW o \in Orders, NEW s \in Statuses, o # p \/ s # t
  PROVE  [F EXCEPT ![p][t] = n][o][s] = F[o][s]
BY DEF Counters

\* The broadcasts of every status of every order are a number.
LEMMA ToldTypeLemma ==
  ASSUME StoreTypeOK
  PROVE  ToldOf \in Counters
<1>1. ASSUME NEW o \in Orders, NEW s \in Statuses PROVE Broadcasts(o, s) \in Nat
  <2>1. announced[o] \in Seq(Statuses)
    BY DEF StoreTypeOK
  <2>2. Cardinality(Occurs(announced[o], s)) \in Nat
    BY <2>1, OccursLemma
  <2>. QED  BY <2>2 DEF Broadcasts, Occurs
<1>. QED  BY <1>1 DEF ToldOf, Counters

\* What a step of OrderLifecycle owes or tells in addition, it has recorded:
\* it is a step of OrderJournal.
LEMMA DebtsLemma ==
  ASSUME CoreInv, Next, NEW o \in Orders, NEW s \in Statuses
  PROVE  /\ Owing(o, s)' > 0 => Owing(o, s) > 0 \/ Recorded(o, s)'
         /\ Broadcasts(o, s)' > 0 => Broadcasts(o, s) > 0 \/ Owing(o, s) > 0
<1>1. Owing(o, s) \in Nat /\ Owing(o, s)' \in Nat
  BY OwingLemma, OwingNextLemma
<1>2. CASE UNCHANGED Abstract!journalVars
  <2>1. OwedOf' = OwedOf /\ ToldOf' = ToldOf
    BY <1>2 DEF Abstract!journalVars, OwedOf, ToldOf
  <2>2. Owing(o, s)' = Owing(o, s) /\ Broadcasts(o, s)' = Broadcasts(o, s)
    BY <2>1 DEF OwedOf, ToldOf
  <2>. QED  BY <2>2
<1>3. CASE Abstract!Lose
  <2>1. ToldOf' = ToldOf /\ OwedOf'[o][s] <= OwedOf[o][s]
    BY <1>3 DEF Abstract!Lose, Abstract!Statuses, Statuses, OwedOf, ToldOf
  <2>2. Owing(o, s)' <= Owing(o, s) /\ Broadcasts(o, s)' = Broadcasts(o, s)
    BY <2>1 DEF OwedOf, ToldOf
  <2>. QED  BY <1>1, <2>2
<1>4. ASSUME NEW p \in Orders, NEW t \in Statuses, Abstract!Broadcast(p, t)
      PROVE  /\ Owing(o, s)' > 0 => Owing(o, s) > 0
             /\ Broadcasts(o, s)' > 0 => Broadcasts(o, s) > 0 \/ Owing(o, s) > 0
  <2>1. /\ OwedOf[p][t] > 0
        /\ OwedOf' = [OwedOf EXCEPT ![p][t] = OwedOf[p][t] - 1]
        /\ ToldOf' = [ToldOf EXCEPT ![p][t] = ToldOf[p][t] + 1]
    BY <1>4 DEF Abstract!Broadcast, OwedOf, ToldOf
  <2>2. o # p \/ s # t => /\ OwedOf'[o][s] = OwedOf[o][s]
                          /\ ToldOf'[o][s] = ToldOf[o][s]
    <3>1. StoreTypeOK
      BY DEF CoreInv, TypeOK
    <3>. QED  BY <2>1, <3>1, OwedTypeLemma, ToldTypeLemma, OtherCounters
  <2>3. /\ OwedOf'[o][s] = Owing(o, s)' /\ OwedOf[o][s] = Owing(o, s)
        /\ ToldOf'[o][s] = Broadcasts(o, s)' /\ ToldOf[o][s] = Broadcasts(o, s)
    BY DEF OwedOf, ToldOf
  <2>4. CASE o = p /\ s = t
    BY <2>1, <2>3, <2>4, OwedTypeLemma DEF Counters
  <2>. QED  BY <2>2, <2>3, <2>4
<1>5. ASSUME NEW p \in Orders, NEW t \in Statuses, Abstract!Write(p, t)
      PROVE  /\ Owing(o, s)' > 0 => Owing(o, s) > 0 \/ Recorded(o, s)'
             /\ Broadcasts(o, s)' = Broadcasts(o, s)
  <2>1. /\ JournalOf' = [JournalOf EXCEPT ![p] = Append(JournalOf[p], t)]
        /\ OwedOf' = [OwedOf EXCEPT ![p][t] = OwedOf[p][t] + 1]
        /\ ToldOf' = ToldOf
    BY <1>5 DEF Abstract!Write, Abstract!Record, OwedOf, ToldOf, JournalOf
  <2>2. /\ OwedOf'[o][s] = Owing(o, s)' /\ OwedOf[o][s] = Owing(o, s)
        /\ ToldOf'[o][s] = Broadcasts(o, s)' /\ ToldOf[o][s] = Broadcasts(o, s)
    BY DEF OwedOf, ToldOf
  <2>3. o # p \/ s # t => OwedOf'[o][s] = OwedOf[o][s]
    BY <2>1, OwedTypeLemma, OtherCounters
  <2>4. ASSUME o = p, s = t PROVE Recorded(o, s)'
    <3>1. Journal(o)' = Append(Journal(o), s)
      BY <2>1, <2>4 DEF JournalOf
    <3>2. Journal(o) \in Seq(Statuses)
      <4>1. history[o] \in Seq(Entries)
        BY DEF CoreInv, TypeOK, StoreTypeOK
      <4>2. \A i \in 1 .. Len(history[o]) : history[o][i] \in Entries
        BY <4>1
      <4>3. \A i \in 1 .. Len(history[o]) : history[o][i].status \in Statuses
        BY <4>2 DEF Entries
      <4>. QED  BY <4>1, <4>3 DEF Journal
    <3>3. \E i \in 1 .. Len(Journal(o)') : Journal(o)'[i] = s
      <4>1. /\ Len(Append(Journal(o), s)) = Len(Journal(o)) + 1 /\ Len(Journal(o)) \in Nat
            /\ Append(Journal(o), s)[Len(Journal(o)) + 1] = s
        BY <3>2
      <4>. QED  BY <3>1, <4>1
    <3>4. CoreInv'
      BY CorePreserves
    <3>5. StoreTypeOK'
      BY <3>4 DEF CoreInv, TypeOK
    <3>. QED  BY <3>3, <3>5, AgreeNextLemma DEF RecordedAgrees
  <2>. QED  BY <2>1, <2>2, <2>3, <2>4
<1>6. ASSUME NEW p \in Orders, NEW t \in Statuses, Abstract!WriteUnheard(p, t)
      PROVE  Owing(o, s)' = Owing(o, s) /\ Broadcasts(o, s)' = Broadcasts(o, s)
  <2>1. OwedOf' = OwedOf /\ ToldOf' = ToldOf
    BY <1>6 DEF Abstract!WriteUnheard, OwedOf, ToldOf
  <2>. QED  BY <2>1 DEF OwedOf, ToldOf
<1>. QED
  BY <1>2, <1>3, <1>4, <1>5, <1>6, NextAbstracts
     DEF AbstractNext, Abstract!JournalNext, Abstract!Statuses, Statuses

\* Histories only grow.
LEMMA GrowsLemma ==
  ASSUME CoreInv, [Next]_vars, NEW o \in Orders
  PROVE  /\ Len(history'[o]) >= Len(history[o])
         /\ \A s : Recorded(o, s) => Recorded(o, s)'
<1>1. history[o] \in Seq(Entries)
  BY DEF CoreInv, TypeOK, StoreTypeOK
<1>2. CASE history'[o] = history[o]
  BY <1>1, <1>2 DEF Recorded
<1>3. ASSUME NEW e \in Entries, history'[o] = Append(history[o], e)
      PROVE  /\ Len(history'[o]) >= Len(history[o])
             /\ \A s : Recorded(o, s) => Recorded(o, s)'
  <2>1. /\ DOMAIN history[o] = 1 .. Len(history[o]) /\ Len(history[o]) \in Nat
        /\ DOMAIN Append(history[o], e) = 1 .. Len(history[o]) + 1
        /\ \A i \in 1 .. Len(history[o]) : Append(history[o], e)[i] = history[o][i]
        /\ Len(Append(history[o], e)) = Len(history[o]) + 1
    BY <1>1
  <2>. QED  BY <1>3, <2>1 DEF Recorded
<1>. QED
  BY <1>2, <1>3, StepWritesLemma DEF Written, Writes, vars, storeVars

\* What was excused stays excused.
LEMMA ExcusedLemma ==
  ASSUME NEW o \in Orders, NEW s, SaidByCarrier(o, s),
         task[o] # NoTask => task'[o] # NoTask, parcel[o] # "NONE" => parcel'[o] # "NONE"
  PROVE  SaidByCarrier(o, s)'
BY DEF SaidByCarrier

\* The carriers announce what they may.
LEMMA CarrierAnnouncesLemma ==
  ASSUME DeliveryInv, AnnouncedInv, CarrierStep,
         \A o \in Orders : /\ task[o] # NoTask => task'[o] # NoTask
                           /\ parcel[o] # "NONE" => parcel'[o] # "NONE"
  PROVE  AnnouncedInv'
<1>1. UNCHANGED <<history, req, worker>> /\ CarrierSays
  BY DEF CarrierStep
<1>. SUFFICES ASSUME NEW o \in Orders, NEW s \in Statuses
              PROVE  /\ Owing(o, s)' > 0 => Recorded(o, s)'
                     /\ Told(o, s)' => Recorded(o, s)' \/ SaidByCarrier(o, s)'
  BY DEF AnnouncedInv
<1>2. Owing(o, s)' = Owing(o, s) /\ (Recorded(o, s)' <=> Recorded(o, s))
  BY <1>1 DEF Owing, Recorded
<1>3. Told(o, s)' => Told(o, s) \/ SaidByCarrier(o, s)
  <2>1. CASE UNCHANGED announced
    BY <2>1 DEF Told
  <2>2. ASSUME NEW p \in Orders, NEW t \in Statuses, SaidByCarrier(p, t), Announce(p, t)
        PROVE  Told(o, s)' => Told(o, s) \/ SaidByCarrier(o, s)
    <3>1. announced[o] \in Seq(Statuses)
      BY DEF DeliveryInv, CoreInv, TypeOK, StoreTypeOK
    <3>2. announced'[o] = IF o = p THEN Append(announced[o], t) ELSE announced[o]
      BY <2>2 DEF Announce, DeliveryInv, CoreInv, TypeOK, StoreTypeOK
    <3>3. \A i \in DOMAIN Append(announced[o], t) :
            \/ i \in DOMAIN announced[o] /\ Append(announced[o], t)[i] = announced[o][i]
            \/ Append(announced[o], t)[i] = t
      BY <3>1
    <3>. QED  BY <2>2, <3>2, <3>3 DEF Told
  <2>. QED  BY <1>1, <2>1, <2>2 DEF CarrierSays
<1>. QED  BY <1>2, <1>3, ExcusedLemma DEF AnnouncedInv

LEMMA AnnouncedPreserves ==
  ASSUME DeliveryInv, AnnouncedInv, FulfilNext
  PROVE  AnnouncedInv'
<1>1. ASSUME NEW d \in Desks, DeskLeaves(d) PROVE AnnouncedInv'
  BY <1>1, CarrierAnnouncesLemma DEF DeskLeaves, TasksKept, glovoVars
<1>2. ASSUME NEW h \in Hooks, HookLeaves(h) PROVE AnnouncedInv'
  BY <1>2, CarrierAnnouncesLemma DEF HookLeaves, deliveryVars
<1>3. Sync => AnnouncedInv'
  BY SyncLemma, CarrierAnnouncesLemma DEF ParcelsKept, deliveryVars
<1>4. ASSUME Lifecycle \/ CrashAll PROVE AnnouncedInv'
  <2>1. Next /\ UNCHANGED <<task, parcel>>
    BY <1>4 DEF Lifecycle, CrashAll, Next, carrierVars, deliveryVars, glovoVars
  <2>. SUFFICES ASSUME NEW o \in Orders, NEW s \in Statuses
                PROVE  /\ Owing(o, s)' > 0 => Recorded(o, s)'
                       /\ Told(o, s)' => Recorded(o, s)' \/ SaidByCarrier(o, s)'
    BY DEF AnnouncedInv
  <2>2. /\ Owing(o, s)' > 0 => Owing(o, s) > 0 \/ Recorded(o, s)'
        /\ Broadcasts(o, s)' > 0 => Broadcasts(o, s) > 0 \/ Owing(o, s) > 0
    BY <2>1, DebtsLemma DEF DeliveryInv
  <2>3. Recorded(o, s) => Recorded(o, s)'
    BY <2>1, GrowsLemma DEF DeliveryInv
  <2>4. (Broadcasts(o, s) > 0 <=> Told(o, s)) /\ (Broadcasts(o, s)' > 0 <=> Told(o, s)')
    <3>1. StoreTypeOK /\ StoreTypeOK'
      BY <2>1, CorePreserves DEF DeliveryInv, CoreInv, TypeOK
    <3>. QED  BY <3>1, AgreeLemma, AgreeNextLemma DEF ToldAgrees
  <2>. QED  BY <2>1, <2>2, <2>3, <2>4, ExcusedLemma DEF AnnouncedInv
<1>. QED  BY <1>1, <1>2, <1>3, <1>4, DeskLemma, HookLemma DEF FulfilNext

\* Clients are told of statuses the order has had, or its carrier's
\* (emitOrderStatusChanged of the three services and the worker).
THEOREM AnnouncementsAreTrue == FulfilSpec => []AnnouncedWasWritten
<1>1. FulfilInit => AnnouncedInv
  <2>. SUFFICES ASSUME FulfilInit, NEW o \in Orders, NEW s \in Statuses
                PROVE  /\ ~ (Owing(o, s) > 0)
                       /\ ~ Told(o, s)
    BY DEF AnnouncedInv
  <2>1. announced[o] = <<>>
    BY DEF FulfilInit, Init, StoreInit
  <2>2. Owers(o, s) = {} /\ ~ WorkerOwes(o, s)
    BY DEF FulfilInit, Init, ServiceInit, WorkerInit, IdleReq, IdleWorker, Owers, Owes, WorkerOwes
  <2>3. Cardinality(Owers(o, s)) = 0
    BY <2>2, FS_EmptySet
  <2>. QED  BY <2>1, <2>2, <2>3, OwingLemma DEF Told
<1>2. AnnouncedInv /\ UNCHANGED allVars => AnnouncedInv'
  <2>. SUFFICES ASSUME AnnouncedInv, UNCHANGED allVars PROVE AnnouncedInv'
    OBVIOUS
  <2>1. UNCHANGED <<history, announced, req, worker, task, parcel>>
    BY DEF allVars, vars, storeVars, serviceVars, carrierVars, deliveryVars, glovoVars
  <2>. QED  BY <2>1 DEF AnnouncedInv, Owing, Told, Recorded, SaidByCarrier
<1>3. DeliveryInv /\ AnnouncedInv /\ [FulfilNext]_allVars => AnnouncedInv'
  BY <1>2, AnnouncedPreserves
<1>4. DeliveryInv /\ AnnouncedInv => AnnouncedWasWritten
  <2>. SUFFICES ASSUME DeliveryInv, AnnouncedInv, NEW o \in Orders, NEW i \in DOMAIN announced[o]
                PROVE  Recorded(o, announced[o][i]) \/ SaidByCarrier(o, announced[o][i])
    BY DEF AnnouncedWasWritten
  <2>1. announced[o] \in Seq(Statuses)
    BY DEF DeliveryInv, CoreInv, TypeOK, StoreTypeOK
  <2>2. announced[o][i] \in Statuses
    BY <2>1
  <2>. QED  BY <2>2 DEF AnnouncedInv, Told
<1>. QED  BY <1>1, <1>3, <1>4, DeliveryInvHolds, PTL DEF FulfilSpec

-----------------------------------------------------------------------------
(* Orders follow Glovo *)

\* Calls that failed have failed, and crashes have happened.
LEMMA TroubleLemma ==
  ASSUME TypeOK, Next
  PROVE  /\ faults > 0 => faults' > 0
         /\ crashes > 0 => crashes' > 0
<1>1. faults \in Nat /\ crashes \in Nat
  BY FaultsAssumption, CrashesAssumption DEF TypeOK, FaultsTypeOK
<1>2. ASSUME NEW r \in Requests, Call(r) PROVE UNCHANGED <<faults, crashes>>
  BY <1>2 DEF Call, ServiceCall, CreateStart, UpdateStart, CancelStart
<1>3. ASSUME NEW r \in Requests, Handler(r)
      PROVE  (faults' = faults \/ faults' = faults + 1) /\ UNCHANGED crashes
  BY <1>3 DEF Handler, HandlerStep, CreateTx, CreateEnqueue, CreateAnnounce, UpdateTx,
     UpdateAnnounce, CancelFindJob, CancelRemoveJob, CancelRevalidate, NoFault, Fault
<1>4. ASSUME NEW o \in Orders, Take(o) \/ Promote(o) \/ Stall(o) \/ Clock(o)
      PROVE  UNCHANGED <<faults, crashes>>
  BY <1>4 DEF Take, WorkerTake, Promote, Stall, Clock
<1>5. Work => (faults' = faults \/ faults' = faults + 1) /\ UNCHANGED crashes
  BY DEF Work, WorkerStep, WorkerRead, WorkerRelease, WorkerAnnounce, WorkerReturn, NoFault, Fault
<1>6. Crash => faults' = faults /\ crashes' = crashes + 1
  BY DEF Crash
<1>. QED  BY <1>1, <1>2, <1>3, <1>4, <1>5, <1>6 DEF Next

LEMMA DisturbedLemma ==
  ASSUME DeliveryInv, FulfilNext, NEW o \in Orders, Disturbed(o)
  PROVE  Disturbed(o)'
<1>1. CoreInv /\ faults \in Nat /\ history[o] \in Seq(Entries)
  BY FaultsAssumption DEF DeliveryInv, CoreInv, TypeOK, FaultsTypeOK, StoreTypeOK
<1>2. CASE CarrierStep
  BY <1>1, <1>2, FaultsAssumption DEF CarrierStep, Disturbed
<1>3. CASE Lifecycle \/ CrashAll
  <2>1. Next
    BY <1>3 DEF Lifecycle, CrashAll, Next
  <2>2. Len(history'[o]) >= Len(history[o]) /\ Len(history[o]) \in Nat
    BY <1>1, <2>1, GrowsLemma
  <2>3. Len(history'[o]) \in Nat
    <3>1. CoreInv'
      BY <1>1, <2>1, CorePreserves
    <3>2. history'[o] \in Seq(Entries)
      BY <3>1 DEF CoreInv, TypeOK, StoreTypeOK
    <3>. QED  BY <3>2
  <2>4. (faults > 0 => faults' > 0) /\ (crashes > 0 => crashes' > 0)
    BY <1>1, <2>1, TroubleLemma DEF CoreInv
  <2>. QED  BY <2>2, <2>3, <2>4 DEF Disturbed
<1>. QED
  BY <1>2, <1>3, DeskLemma, HookLemma, SyncLemma DEF FulfilNext, DeskLeaves, HookLeaves

\* An order without a Glovo order has nothing to follow.
LEMMA NoParcelLemma ==
  ASSUME NEW o \in Orders, parcel'[o] = "NONE", \A h \in Hooks : HookOK(h)'
  PROVE  InStep(o)'
<1>1. "NONE" \notin Mapped
  BY DEF Mapped
<1>2. \A h \in Hooks : hook'[h].order = o => hook'[h].pc = "idle"
  BY DEF HookOK
<1>. QED  BY <1>1, <1>2 DEF InStep

\* What GlovoInv says of the order after a step.
Follows(o) == serial'[o] => OneHook(o)' /\ (Disturbed(o)' \/ InStep(o)')

\* A step that is not about the order.
LEMMA ElsewhereLemma ==
  ASSUME NEW o \in Orders, GlovoInv, Disturbed(o) => Disturbed(o)',
         serial'[o] => serial[o],
         orders'[o].status = orders[o].status, parcel'[o] = parcel[o],
         \A h \in Hooks : hook'[h] = hook[h] \/ (hook[h].order # o /\ hook'[h].order # o)
  PROVE  Follows(o)
<1>1. \A h \in Hooks : \/ hook'[h] = hook[h]
                       \/ hook[h].order # o /\ hook'[h].order # o
  OBVIOUS
<1>2. OneHook(o) => OneHook(o)'
  BY <1>1 DEF OneHook
<1>3. InStep(o) => InStep(o)'
  BY <1>1 DEF InStep
<1>. QED  BY <1>2, <1>3 DEF GlovoInv, Follows

\* An order whose only webhook ends.
LEMMA HookEndsLemma ==
  ASSUME GlovoTypeOK, GlovoInv, NEW h \in Hooks, NEW o \in Orders, hook[h].order = o,
         HookEnd(h), Disturbed(o) => Disturbed(o)'
  PROVE  /\ OneHook(o) => OneHook(o)'
         /\ serial'[o] = serial[o]
         /\ OneHook(o) => \A g \in Hooks : hook'[g].order # o
<1>1. /\ hook'[h] = IdleHook /\ serial' = serial
      /\ \A g \in Hooks \ {h} : hook'[g] = hook[g]
  BY DEF HookEnd, GlovoTypeOK
<1>2. IdleHook.order # o
  BY NoOrderAssumption DEF IdleHook
<1>. QED  BY <1>1, <1>2 DEF OneHook

\* An order whose only webhook makes its next call.
LEMMA HookGoesOnLemma ==
  ASSUME GlovoTypeOK, NEW h \in Hooks, NEW pc, HookGoto(h, pc)
  PROVE  /\ serial' = serial
         /\ \A g \in Hooks \ {h} : hook'[g] = hook[g]
         /\ hook'[h].pc = pc /\ hook'[h].order = hook[h].order
         /\ hook'[h].seen = hook[h].seen /\ hook'[h].status = hook[h].status
         /\ \A o \in Orders : OneHook(o) => OneHook(o)'
<1>1. /\ serial' = serial
      /\ \A g \in Hooks \ {h} : hook'[g] = hook[g]
      /\ hook'[h].pc = pc /\ hook'[h].order = hook[h].order
      /\ hook'[h].seen = hook[h].seen /\ hook'[h].status = hook[h].status
  BY DEF HookGoto, GlovoTypeOK
<1>. QED  BY <1>1 DEF OneHook

\* A webhook that arrives reads what the order is now.
LEMMA HookStartFollows ==
  ASSUME DeliveryInv, GlovoInv, NEW h \in Hooks, NEW p \in Orders, NEW s \in HookInputs,
         HookStart(h, p, s), NEW o \in Orders, Disturbed(o) => Disturbed(o)'
  PROVE  Follows(o)
<1>1. /\ hook[h] = IdleHook /\ UNCHANGED <<orders, parcel>>
      /\ hook'[h] = [pc |-> "setParcel", order |-> p, seen |-> orders[p].status, status |-> s]
      /\ \A g \in Hooks \ {h} : hook'[g] = hook[g]
  BY DEF HookStart, DeliveryInv, GlovoTypeOK, storeVars
<1>2. hook[h].order \notin Orders /\ hook'[h].order = p
  BY <1>1, NoOrderAssumption DEF IdleHook
<1>3. CASE o # p
  <2>1. serial'[o] => serial[o]
    BY <1>3 DEF HookStart, DeliveryInv, GlovoTypeOK
  <2>. QED  BY <1>1, <1>2, <1>3, <2>1, ElsewhereLemma
<1>4. CASE o = p
  <2>. SUFFICES ASSUME serial'[o] PROVE OneHook(o)' /\ (Disturbed(o)' \/ InStep(o)')
    BY DEF Follows
  <2>1. serial[o] /\ \A g \in Hooks : hook[g].order # o
    BY <1>4 DEF HookStart, DeliveryInv, GlovoTypeOK
  <2>2. \A g \in Hooks : hook'[g].order = o => g = h
    BY <1>1, <2>1
  <2>3. OneHook(o)'
    BY <2>2 DEF OneHook
  <2>4. InStep(o) => InStep(o)'
    <3>. SUFFICES ASSUME InStep(o) PROVE InStep(o)'
      OBVIOUS
    <3>1. ASSUME NEW g \in Hooks, hook'[g].order = o
          PROVE  /\ hook'[g].pc = "setParcel" => hook'[g].seen = orders'[o].status
                 /\ hook'[g].pc = "setOrder" => parcel'[o] \in {hook'[g].status, "IN_TRANSIT"}
      BY <1>1, <1>4, <2>2, <3>1
    <3>2. parcel[o] \in Mapped \ {"IN_TRANSIT"} => orders[o].status = Internal[parcel[o]]
      BY <2>1 DEF InStep
    <3>. QED  BY <1>1, <3>1, <3>2 DEF InStep
  <2>. QED  BY <2>1, <2>3, <2>4 DEF GlovoInv
<1>. QED  BY <1>3, <1>4

\* The first write: the order has to follow, or does already.
LEMMA SetParcelFollows ==
  ASSUME DeliveryInv, GlovoInv, NEW h \in Hooks, SetParcel(h),
         NEW o \in Orders, Disturbed(o) => Disturbed(o)'
  PROVE  Follows(o)
<1>1. UNCHANGED orders /\ hook[h].pc = "setParcel" /\ HookOK(h)
  BY DEF SetParcel, DeliveryInv, storeVars
<1>2. serial' = serial /\ \A g \in Hooks \ {h} : hook'[g] = hook[g]
  BY DEF SetParcel, HookGoto, HookEnd, DeliveryInv, GlovoTypeOK
<1>3. hook'[h].order \in {hook[h].order, NoOrder}
  BY DEF SetParcel, HookGoto, HookEnd, IdleHook, DeliveryInv, GlovoTypeOK
<1>4. CASE hook[h].order # o
  <2>1. parcel'[o] = parcel[o]
    BY <1>1, <1>4 DEF SetParcel, DeliveryInv, GlovoTypeOK, HookOK
  <2>2. hook'[h].order # o
    BY <1>3, <1>4, NoOrderAssumption
  <2>. QED  BY <1>1, <1>2, <1>4, <2>1, <2>2, ElsewhereLemma
<1>5. CASE hook[h].order = o
  <2>. SUFFICES ASSUME serial[o] PROVE OneHook(o)' /\ (Disturbed(o)' \/ InStep(o)')
    BY <1>2 DEF Follows
  <2>1. OneHook(o) /\ (Disturbed(o) \/ InStep(o))
    BY DEF GlovoInv
  <2>2. CASE Fault("setParcel") /\ HookEnd(h)
    <3>1. Disturbed(o)'
      BY <2>2, FaultsAssumption DEF Fault, Disturbed, DeliveryInv, CoreInv, TypeOK, FaultsTypeOK
    <3>. QED  BY <1>5, <2>1, <2>2, <3>1, HookEndsLemma DEF DeliveryInv
  <2>3. CASE /\ parcel' = [parcel EXCEPT ![o] = hook[h].status]
             /\ MovesOrder(h) /\ HookGoto(h, "setOrder")
    <3>1. parcel'[o] = hook[h].status
      BY <2>3 DEF DeliveryInv, GlovoTypeOK
    <3>2. /\ hook'[h].pc = "setOrder" /\ hook'[h].order = o
          /\ hook'[h].status = hook[h].status /\ OneHook(o)'
      BY <1>5, <2>1, <2>3, HookGoesOnLemma DEF DeliveryInv
    <3>3. \A g \in Hooks : hook'[g].order = o => g = h
      BY <3>2 DEF OneHook
    <3>4. InStep(o)'
      BY <3>1, <3>2, <3>3 DEF InStep
    <3>. QED  BY <3>2, <3>4
  <2>4. CASE /\ parcel' = [parcel EXCEPT ![o] = hook[h].status]
             /\ ~ MovesOrder(h) /\ HookEnd(h)
    <3>1. parcel'[o] = hook[h].status
      BY <2>4 DEF DeliveryInv, GlovoTypeOK
    <3>2. OneHook(o)' /\ \A g \in Hooks : hook'[g].order # o
      BY <1>5, <2>1, <2>4, HookEndsLemma DEF DeliveryInv
    <3>3. InStep(o) => hook[h].status \notin Mapped \/ orders'[o].status = Internal[parcel'[o]]
      BY <1>1, <1>5, <2>4, <3>1 DEF InStep, MovesOrder
    <3>4. InStep(o) => InStep(o)'
      BY <3>1, <3>2, <3>3 DEF InStep
    <3>. QED  BY <2>1, <3>2, <3>4
  <2>. QED  BY <1>5, <2>2, <2>3, <2>4 DEF SetParcel
<1>. QED  BY <1>4, <1>5

\* The second write: the order follows.
LEMMA SetOrderFollows ==
  ASSUME DeliveryInv, GlovoInv, NEW h \in Hooks, SetOrder(h),
         NEW o \in Orders, Disturbed(o) => Disturbed(o)'
  PROVE  Follows(o)
<1>1. UNCHANGED parcel /\ hook[h].pc = "setOrder" /\ HookOK(h)
  BY DEF SetOrder, DeliveryInv
<1>2. serial' = serial /\ \A g \in Hooks \ {h} : hook'[g] = hook[g]
  BY DEF SetOrder, HookGoto, HookEnd, DeliveryInv, GlovoTypeOK
<1>3. hook'[h].order \in {hook[h].order, NoOrder}
  BY DEF SetOrder, HookGoto, HookEnd, IdleHook, DeliveryInv, GlovoTypeOK
<1>4. CASE hook[h].order # o
  <2>1. orders'[o] = orders[o]
    BY <1>1, <1>4 DEF SetOrder, DeliveryInv, CoreInv, TypeOK, StoreTypeOK, HookOK
  <2>2. hook'[h].order # o
    BY <1>3, <1>4, NoOrderAssumption
  <2>. QED  BY <1>1, <1>2, <1>4, <2>1, <2>2, ElsewhereLemma
<1>5. CASE hook[h].order = o
  <2>. SUFFICES ASSUME serial[o] PROVE OneHook(o)' /\ (Disturbed(o)' \/ InStep(o)')
    BY <1>2 DEF Follows
  <2>1. OneHook(o) /\ (Disturbed(o) \/ InStep(o))
    BY DEF GlovoInv
  <2>2. CASE (Fault("setOrder") \/ Fault("setOrderAnswer")) /\ HookEnd(h)
    <3>1. Disturbed(o)'
      BY <2>2, FaultsAssumption DEF Fault, Disturbed, DeliveryInv, CoreInv, TypeOK, FaultsTypeOK
    <3>. QED  BY <1>5, <2>1, <2>2, <3>1, HookEndsLemma DEF DeliveryInv
  <2>3. CASE /\ orders' = [orders EXCEPT ![o].status = Internal[hook[h].status]]
             /\ HookGoto(h, "announceHook")
    <3>1. orders'[o].status = Internal[hook[h].status]
      <4>1. orders[o] \in Rows \cup {Absent} /\ orders'[o] = [orders[o] EXCEPT !.status = Internal[hook[h].status]]
        BY <2>3 DEF DeliveryInv, CoreInv, TypeOK, StoreTypeOK
      <4>. QED  BY <4>1 DEF Rows, Absent
    <3>2. /\ hook'[h].pc = "announceHook" /\ hook'[h].order = o /\ OneHook(o)'
      BY <1>5, <2>1, <2>3, HookGoesOnLemma DEF DeliveryInv
    <3>3. \A g \in Hooks : hook'[g].order = o => g = h
      BY <3>2 DEF OneHook
    <3>4. InStep(o) => parcel'[o] \in {hook[h].status, "IN_TRANSIT"}
      BY <1>1, <1>5 DEF InStep
    <3>5. InStep(o) => InStep(o)'
      BY <3>1, <3>2, <3>3, <3>4 DEF InStep
    <3>. QED  BY <2>1, <3>2, <3>5
  <2>. QED  BY <1>5, <2>2, <2>3 DEF SetOrder
<1>. QED  BY <1>4, <1>5

LEMMA AnnounceHookFollows ==
  ASSUME DeliveryInv, GlovoInv, NEW h \in Hooks, AnnounceHook(h),
         NEW o \in Orders, Disturbed(o) => Disturbed(o)'
  PROVE  Follows(o)
<1>1. UNCHANGED <<orders, parcel>> /\ hook[h].pc = "announceHook" /\ HookEnd(h)
  BY DEF AnnounceHook
<1>2. /\ serial' = serial /\ \A g \in Hooks \ {h} : hook'[g] = hook[g]
      /\ hook'[h].order = NoOrder
  BY <1>1 DEF HookEnd, IdleHook, DeliveryInv, GlovoTypeOK
<1>3. CASE hook[h].order # o
  BY <1>1, <1>2, <1>3, NoOrderAssumption, ElsewhereLemma
<1>4. CASE hook[h].order = o
  <2>1. OneHook(o) => OneHook(o)' /\ \A g \in Hooks : hook'[g].order # o
    BY <1>1, <1>4, HookEndsLemma DEF DeliveryInv
  <2>2. OneHook(o) => \A g \in Hooks : hook[g].order = o => g = h
    BY <1>4 DEF OneHook
  <2>3. OneHook(o) /\ InStep(o) => InStep(o)'
    BY <1>1, <2>1, <2>2 DEF InStep
  <2>. QED  BY <1>2, <2>1, <2>3 DEF GlovoInv, Follows
<1>. QED  BY <1>3, <1>4

\* The glovoSync worker enters a delivery nobody has written about yet, or
\* writes what InStep leaves open.
LEMMA SyncFollows ==
  ASSUME DeliveryInv, DeliveryInv', GlovoInv, Sync, NEW o \in Orders, Disturbed(o) => Disturbed(o)'
  PROVE  Follows(o)
<1>1. UNCHANGED <<orders, hook, serial>>
  BY SyncLemma
<1>2. CASE parcel'[o] = parcel[o]
  BY <1>1, <1>2, ElsewhereLemma
<1>3. CASE parcel'[o] # parcel[o]
  <2>1. SyncWrite
    BY <1>3 DEF Sync, Glovo, SyncTake
  <2>2. \/ sync.pc = "createParcel" /\ parcel[o] = "NONE" /\ parcel'[o] = "PENDING"
        \/ parcel'[o] = "IN_TRANSIT"
    BY <1>3, <2>1 DEF SyncWrite, DeliveryInv, GlovoTypeOK, SyncOK
  <2>3. OneHook(o) => OneHook(o)'
    BY <1>1 DEF OneHook
  <2>4. InStep(o) => InStep(o)'
    <3>1. CASE parcel'[o] = "IN_TRANSIT"
      BY <1>1, <3>1 DEF InStep
    <3>2. CASE parcel[o] = "NONE" /\ parcel'[o] = "PENDING"
      <4>1. \A h \in Hooks : hook[h].order = o => hook[h].pc = "idle"
        BY <3>2 DEF DeliveryInv, HookOK
      <4>2. "PENDING" \notin Mapped
        BY DEF Mapped
      <4>. QED  BY <1>1, <3>2, <4>1, <4>2 DEF InStep
    <3>. QED  BY <2>2, <3>1, <3>2
  <2>. QED  BY <1>1, <2>3, <2>4 DEF GlovoInv, Follows
<1>. QED  BY <1>2, <1>3

\* Our couriers complete only orders Glovo does not deliver.
LEMMA DeskFollows ==
  ASSUME DeliveryInv, DeliveryInv', GlovoInv, NEW d \in Desks, CallDesk(d) \/ Desk(d),
         NEW o \in Orders, Disturbed(o) => Disturbed(o)'
  PROVE  Follows(o)
<1>1. UNCHANGED <<parcel, hook, serial>>
  BY DEF CallDesk, Desk, glovoVars
<1>2. CASE orders'[o] = orders[o]
  BY <1>1, <1>2, ElsewhereLemma
<1>3. CASE orders'[o] # orders[o]
  <2>1. CompleteOrder(d)
    BY <1>3 DEF CallDesk, Desk, DeskCall, DeskStep, CreateTaskStart, AssignStart, TaskStatusStart,
       DeskBegin, CreateTask, AssignTask, AnnounceAssigned, SetTask, AnnounceCompleted, storeVars
  <2>2. DeliveredByUs(o)
    <3>1. desk[d].order \in Orders /\ DeliveredByUs(desk[d].order)
      BY <2>1 DEF CompleteOrder, DeliveryInv, DeskOK
    <3>2. \A p \in Orders \ {desk[d].order} : orders'[p] = orders[p]
      BY <2>1, <3>1 DEF CompleteOrder, DeliveryInv, CoreInv, TypeOK, StoreTypeOK
    <3>. QED  BY <1>3, <3>1, <3>2
  <2>3. parcel'[o] = "NONE"
    BY <1>1, <2>2 DEF DeliveryInv, OneCarrier, DeliveredByUs, DeliveredByGlovo
  <2>4. InStep(o)'
    BY <2>3, NoParcelLemma DEF DeliveryInv
  <2>5. OneHook(o) => OneHook(o)'
    BY <1>1 DEF OneHook
  <2>. QED  BY <1>1, <2>4, <2>5 DEF GlovoInv, Follows
<1>. QED  BY <1>2, <1>3

\* Who records a status disturbs the order, or has just created it.
LEMMA LifecycleFollows ==
  ASSUME DeliveryInv, DeliveryInv', GlovoInv, Lifecycle, NEW o \in Orders,
         Disturbed(o) => Disturbed(o)'
  PROVE  Follows(o)
<1>1. Next /\ UNCHANGED <<parcel, hook, serial>>
  BY DEF Lifecycle, carrierVars, glovoVars
<1>2. CASE orders'[o] = orders[o]
  BY <1>1, <1>2, ElsewhereLemma
<1>3. CASE orders'[o] # orders[o]
  <2>1. PICK e \in Entries : Writes(o, e)
    <3>1. PICK p \in Orders, e \in Entries : Written(p, e)
      BY <1>1, <1>3, StepWritesLemma DEF DeliveryInv
    <3>2. p = o
      BY <1>3, <3>1 DEF Written, Writes
    <3>. QED  BY <3>1, <3>2 DEF Written
  <2>2. history[o] \in Seq(Entries) /\ history'[o] = Append(history[o], e)
    BY <2>1 DEF Writes, DeliveryInv, CoreInv, TypeOK, StoreTypeOK
  <2>3. Len(history'[o]) = Len(history[o]) + 1 /\ Len(history[o]) \in Nat
    BY <2>2
  <2>4. Disturbed(o)' \/ InStep(o)'
    <3>1. CASE history[o] = <<>>
      <4>1. ~ Exists(o)
        BY <3>1 DEF DeliveryInv, CoreInv, HistoryBegins
      <4>2. parcel'[o] = "NONE"
        BY <1>1, <4>1 DEF DeliveryInv, OneCarrier, DeliveredByGlovo
      <4>. QED  BY <4>2, NoParcelLemma DEF DeliveryInv
    <3>2. CASE history[o] # <<>>
      <4>1. Len(history[o]) > 0
        BY <2>2, <3>2
      <4>. QED  BY <2>3, <4>1 DEF Disturbed
    <3>. QED  BY <3>1, <3>2
  <2>5. OneHook(o) => OneHook(o)'
    BY <1>1 DEF OneHook
  <2>. QED  BY <1>1, <2>4, <2>5 DEF GlovoInv, Follows
<1>. QED  BY <1>2, <1>3

LEMMA CrashFollows ==
  ASSUME DeliveryInv, CrashAll, NEW o \in Orders
  PROVE  Follows(o)
<1>1. \A h \in Hooks : hook'[h].order # o
  BY NoOrderAssumption DEF CrashAll, IdleHook
<1>2. Disturbed(o)'
  BY CrashesAssumption DEF CrashAll, Crash, Disturbed, DeliveryInv, CoreInv, TypeOK
<1>. QED  BY <1>1, <1>2 DEF Follows, OneHook

LEMMA GlovoPreserves ==
  ASSUME DeliveryInv, DeliveryInv', GlovoInv, [FulfilNext]_allVars
  PROVE  GlovoInv'
<1>. SUFFICES ASSUME NEW o \in Orders PROVE Follows(o)
  BY DEF GlovoInv, Follows
<1>1. CASE UNCHANGED allVars
  <2>1. UNCHANGED <<orders, history, faults, crashes, parcel, hook, serial>>
    BY <1>1 DEF allVars, vars, storeVars, carrierVars, glovoVars
  <2>2. Disturbed(o) => Disturbed(o)'
    BY <2>1 DEF Disturbed
  <2>. QED  BY <2>1, <2>2, ElsewhereLemma
<1>2. CASE FulfilNext
  <2>1. Disturbed(o) => Disturbed(o)'
    BY <1>2, DisturbedLemma
  <2>2. ASSUME NEW d \in Desks, CallDesk(d) \/ Desk(d) PROVE Follows(o)
    BY <2>1, <2>2, DeskFollows
  <2>3. ASSUME NEW h \in Hooks, CallHook(h) PROVE Follows(o)
    <3>1. PICK p \in Orders, s \in HookInputs : HookStart(h, p, s)
      BY <2>3 DEF CallHook, Glovo, HookCall
    <3>. QED  BY <2>1, <3>1, HookStartFollows
  <2>4. ASSUME NEW h \in Hooks, Hook(h) PROVE Follows(o)
    BY <2>1, <2>4, SetParcelFollows, SetOrderFollows, AnnounceHookFollows DEF Hook, Glovo, HookStep
  <2>5. Sync => Follows(o)
    BY <2>1, SyncFollows
  <2>6. Lifecycle => Follows(o)
    BY <2>1, LifecycleFollows
  <2>7. CrashAll => Follows(o)
    BY CrashFollows
  <2>. QED  BY <1>2, <2>2, <2>3, <2>4, <2>5, <2>6, <2>7 DEF FulfilNext
<1>. QED  BY <1>1, <1>2

\* An order whose webhooks do not overlap says what Glovo said last, once they
\* have answered (handleWebhook of glovo.service.ts writes the two rows one
\* after the other), unless a failure, a crash or another service came between.
THEOREM OrdersFollowGlovo == FulfilSpec => []GlovoFollowed
<1>1. FulfilInit => GlovoInv
  <2>. SUFFICES ASSUME FulfilInit, NEW o \in Orders PROVE OneHook(o) /\ InStep(o)
    BY DEF GlovoInv
  <2>1. /\ \A h \in Hooks : hook[h].order # o
        /\ parcel[o] \notin Mapped
    BY NoOrderAssumption DEF FulfilInit, GlovoInit, IdleHook, Mapped
  <2>. QED  BY <2>1 DEF OneHook, InStep
<1>2. DeliveryInv /\ DeliveryInv' /\ GlovoInv /\ [FulfilNext]_allVars => GlovoInv'
  BY GlovoPreserves
<1>3. GlovoInv => GlovoFollowed
  BY DEF GlovoInv, InStep, GlovoFollowed, HooksQuiet
<1>. QED  BY <1>1, <1>2, <1>3, DeliveryInvHolds, PTL DEF FulfilSpec
=============================================================================
