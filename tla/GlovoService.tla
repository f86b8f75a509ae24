---------------------------- MODULE GlovoService ----------------------------
(***************************************************************************)
(* GlovoService and the worker of the glovoSync queue: the glovo_orders row *)
(* of an order and the webhooks that change it and the order's status.  A   *)
(* hook is a slot that holds one running webhook handler, cut where the     *)
(* code awaits the database.  The jobs are added by a program that is not   *)
(* in the repository; webhooks for an order without a row, and jobs with    *)
(* nothing to do, change nothing and are not steps.                         *)
(***************************************************************************)
EXTENDS OrderStore, Faults

CONSTANTS
  Hooks,          \* slots for webhook handlers that run at the same time
  MaxHookCalls,   \* bound on the webhooks of a behaviour
  HookInputs,     \* values of "status" Glovo sends
  MaxSyncs        \* bound on the glovoSync jobs of a behaviour

\* glovo_orders.status is free text: OTHER is one statusMap does not know.
GlovoStatuses == {"PENDING", "ACCEPTED", "PICKING_UP", "IN_TRANSIT",
                  "DELIVERED", "CANCELLED", "OTHER"}

ASSUME GlovoAssumption ==
  /\ MaxHookCalls \in Nat
  /\ MaxSyncs \in Nat
  /\ HookInputs \subseteq GlovoStatuses

VARIABLES
  parcel,      \* the status in the glovo_orders row of each order, NONE without
  hook,        \* the webhook handler in each slot
  hookCalls,   \* how many webhooks have been accepted so far
  sync,        \* the job in the worker's hands
  syncs,       \* how many jobs the worker has taken so far
  serial       \* auxiliary: each order's webhooks have run one after another

syncVars  == <<sync, syncs>>
glovoVars == <<parcel, hook, hookCalls, syncVars, serial>>

IdleHook == [pc |-> "idle", order |-> NoOrder, seen |-> "ABSENT", status |-> "NONE"]
IdleSync == [pc |-> "idle", order |-> NoOrder]

GlovoTypeOK ==
  /\ parcel \in [Orders -> GlovoStatuses \cup {"NONE"}]
  /\ hook \in [Hooks -> [pc     : {"idle", "setParcel", "setOrder", "announceHook"},
                         order  : Orders \cup {NoOrder},
                         seen   : Statuses \cup {"ABSENT"},       \* of the order
                         status : GlovoStatuses \cup {"NONE"}]]   \* Glovo's
  /\ hookCalls \in 0 .. MaxHookCalls
  /\ sync \in [pc : {"idle", "createParcel", "syncParcel"}, order : Orders \cup {NoOrder}]
  /\ syncs \in 0 .. MaxSyncs
  /\ serial \in [Orders -> BOOLEAN]

GlovoInit ==
  /\ parcel = [o \in Orders |-> "NONE"]
  /\ hook = [h \in Hooks |-> IdleHook]
  /\ hookCalls = 0
  /\ sync = IdleSync
  /\ syncs = 0
  /\ serial = [o \in Orders |-> TRUE]

HookGoto(h, pc) == hook' = [hook EXCEPT ![h].pc = pc] /\ UNCHANGED <<hookCalls, serial>>
HookEnd(h)      == hook' = [hook EXCEPT ![h] = IdleHook] /\ UNCHANGED <<hookCalls, serial>>

-----------------------------------------------------------------------------
(* handleWebhook *)

\* statusMap: the order's status by Glovo's.
Internal ==
  [ACCEPTED |-> "PREPARING", PICKING_UP |-> "READY", IN_TRANSIT |-> "DELIVERING",
   DELIVERED |-> "COMPLETED", CANCELLED |-> "CANCELLED"]

Mapped == {"ACCEPTED", "PICKING_UP", "IN_TRANSIT", "DELIVERED", "CANCELLED"}

\* The handler has read the Glovo order and, with it, the order's status.
HookStart(h, o, s) ==
  /\ parcel[o] # "NONE"
  /\ hook[h] = IdleHook
  /\ hookCalls < MaxHookCalls
  /\ hookCalls' = hookCalls + 1
  /\ hook' = [hook EXCEPT ![h] = [pc |-> "setParcel", order |-> o,
                                  seen |-> orders[o].status, status |-> s]]
  /\ serial' = [serial EXCEPT ![o] = @ /\ \A g \in Hooks : hook[g].order # o]
  /\ UNCHANGED <<storeVars, parcel, syncVars, faults>>

\* Mutation: a change the table of updateStatus forbids is left out.
MovesByTable(h) ==
  /\ hook[h].status \in Mapped
  /\ Internal[hook[h].status] \in ValidTransitions[hook[h].seen]

\* The order's status, as it was read before the first write, has to change.
MovesOrder(h) ==
  /\ hook[h].status \in Mapped
  /\ hook[h].seen # Internal[hook[h].status]

SetParcel(h) ==
  /\ hook[h].pc = "setParcel"
  /\ \/ /\ parcel' = [parcel EXCEPT ![hook[h].order] = hook[h].status]
        /\ IF MovesOrder(h) THEN HookGoto(h, "setOrder") ELSE HookEnd(h)
        /\ NoFault
     \/ Fault("setParcel") /\ HookEnd(h) /\ UNCHANGED parcel
  /\ UNCHANGED <<storeVars, syncVars>>

\* A write of its own, without the status table and without a history row.
SetOrder(h) ==
  /\ hook[h].pc = "setOrder"
  /\ \/ /\ orders' = [orders EXCEPT ![hook[h].order].status = Internal[hook[h].status]]
        /\ HookGoto(h, "announceHook")
        /\ NoFault
     \/ Fault("setOrder") /\ HookEnd(h) /\ UNCHANGED orders
     \/ /\ Fault("setOrderAnswer") /\ HookEnd(h)
        /\ orders' = [orders EXCEPT ![hook[h].order].status = Internal[hook[h].status]]
  /\ UNCHANGED <<history, due, announced, parcel, syncVars>>

AnnounceHook(h) ==
  /\ hook[h].pc = "announceHook"
  /\ Announce(hook[h].order, Internal[hook[h].status])
  /\ HookEnd(h)
  /\ UNCHANGED <<orders, history, due, parcel, syncVars, faults>>

HookCall(h) == \E o \in Orders, s \in HookInputs : HookStart(h, o, s)
HookStep(h) == SetParcel(h) \/ SetOrder(h) \/ AnnounceHook(h)

-----------------------------------------------------------------------------
(* GlovoSyncProcessor.process, one job at a time *)

SyncEnd         == sync' = IdleSync /\ UNCHANGED syncs

DeliveredByGlovo(o) == Exists(o) /\ orders[o].deliveryType = "GLOVO"

\* The worker has taken a job and read the order with its Glovo order: it
\* creates the delivery (create_delivery) or has its status synced (sync_status).
SyncTake(o) ==
  /\ sync = IdleSync
  /\ syncs < MaxSyncs
  /\ syncs' = syncs + 1
  /\ \/ /\ DeliveredByGlovo(o) /\ parcel[o] = "NONE"
        /\ sync' = [pc |-> "createParcel", order |-> o]
     \/ /\ parcel[o] # "NONE"
        /\ sync' = [pc |-> "syncParcel", order |-> o]
  /\ UNCHANGED <<storeVars, parcel, hook, hookCalls, serial, faults>>

\* createDelivery enters the mock delivery; syncOrderStatus always learns
\* IN_TRANSIT, and leaves the order's status to the webhooks.
SyncWrite ==
  /\ \/ /\ \/ /\ sync.pc = "createParcel"
              /\ parcel' = [parcel EXCEPT ![sync.order] = "PENDING"]
           \/ /\ sync.pc = "syncParcel"
              /\ parcel' = [parcel EXCEPT ![sync.order] = "IN_TRANSIT"]
        /\ NoFault
     \/ sync.pc # "idle" /\ Fault("syncWrite") /\ UNCHANGED parcel
  /\ SyncEnd
  /\ UNCHANGED <<storeVars, hook, hookCalls, serial>>
=============================================================================
