--------------------------- MODULE OrderFulfilment --------------------------
(***************************************************************************)
(* The life of an order together with its delivery, by the restaurant's     *)
(* couriers or by Glovo: OrderLifecycle, DeliveryService and GlovoService   *)
(* over the same rows.  Both delivery services set an order's status on     *)
(* their own, beside updateStatus.                                          *)
(***************************************************************************)
EXTENDS OrderLifecycle, DeliveryService, GlovoService

carrierVars == <<deliveryVars, glovoVars>>
allVars     == <<vars, carrierVars>>

FulfilInit == Init /\ DeliveryInit /\ GlovoInit

Lifecycle == Next /\ UNCHANGED <<crashes, carrierVars>>

Desk(d)     == DeskStep(d) /\ UNCHANGED <<job, serviceVars, worker, crashes, glovoVars>>
CallDesk(d) == DeskCall(d) /\ UNCHANGED <<job, serviceVars, worker, crashes, glovoVars>>

Glovo(A) == A /\ UNCHANGED <<job, serviceVars, worker, crashes, deliveryVars>>

Hook(h)     == Glovo(HookStep(h))
CallHook(h) == Glovo(HookCall(h))
Sync        == Glovo((\E o \in Orders : SyncTake(o)) \/ SyncWrite)

\* The handlers of both services, and the worker of glovoSync, run in the
\* process that crashes.
CrashAll ==
  /\ Crash
  /\ desk' = [d \in Desks |-> IdleDesk]
  /\ hook' = [h \in Hooks |-> IdleHook]
  /\ sync' = IdleSync
  /\ UNCHANGED <<task, deskCalls, parcel, hookCalls, syncs, serial>>

FulfilNext ==
  \/ Lifecycle
  \/ \E d \in Desks : CallDesk(d) \/ Desk(d)
  \/ \E h \in Hooks : CallHook(h) \/ Hook(h)
  \/ Sync
  \/ CrashAll

FulfilSpec == FulfilInit /\ [][FulfilNext]_allVars

\* A handler at a desk that runs goes on; nobody has to call.
FairFulfilSpec == FulfilSpec /\ \A d \in Desks : WF_allVars(Desk(d))

-----------------------------------------------------------------------------
(* Properties *)

\* What the webhooks write.
GlovosStatuses == {Internal[s] : s \in Mapped}

\* An order whose status its history does not end in was completed by our own
\* couriers or is in Glovo's hands, which never set it back to PENDING: orders
\* that are picked up, and those whose delivery has not been entered, keep a
\* faithful history, however the handlers of the services interleave.
UnrecordedOnlyByCarriers ==
  \A o \in Orders : Exists(o) =>
    \/ history[o][Len(history[o])].status = orders[o].status
    \/ orders[o].deliveryType = "OWN" /\ orders[o].status = "COMPLETED"
    \/ parcel[o] # "NONE" /\ orders[o].status \in GlovosStatuses

\* A courier, once assigned, is not lost: not to a second createDeliveryTask
\* that looked for a task before there was one, and not to a status update.
CourierKept ==
  [][\A o \in Orders : task[o].courier # NoCourier => task'[o].courier # NoCourier]_allVars

\* A call failed, the process crashed, or the order's status was also changed
\* by someone who records it in the history.
Disturbed(o) == faults > 0 \/ crashes > 0 \/ Len(history[o]) > 1

\* A task that is DONE completes its order, though the two are written by
\* separate calls and another desk may write the task in between, unless the
\* order is disturbed: a failure may then leave it open for good, and a stale
\* updateStatus may take it out of COMPLETED again.
DoneCompletes ==
  \A o \in Orders :
    (task[o].status = "DONE" /\ ~ Disturbed(o))
      ~> (orders[o].status = "COMPLETED" \/ Disturbed(o))

\* The order has had status s: it is in its history.
Recorded(o, s) == \E i \in DOMAIN history[o] : history[o][i].status = s

\* What clients may be told of an order with a courier though it is not
\* recorded: DELIVERING when a courier of ours is assigned, which is not written
\* at all, COMPLETED by ours and what Glovo says, which may be overwritten.
SaidByCarrier(o, s) ==
  \/ task[o] # NoTask /\ s \in {"DELIVERING", "COMPLETED"}
  \/ parcel[o] # "NONE" /\ s \in GlovosStatuses

\* Clients are told of statuses the order has, or has had, whatever fails or
\* crashes; only of an order with a courier are they told of others.
AnnouncedWasWritten ==
  \A o \in Orders : \A i \in DOMAIN announced[o] :
    \/ orders[o].status = announced[o][i]
    \/ Recorded(o, announced[o][i])
    \/ SaidByCarrier(o, announced[o][i])

\* No webhook for the order is running.
HooksQuiet(o) == \A h \in Hooks : hook[h].order # o

\* The order says what Glovo said last, though the two rows are written by
\* separate calls and the glovoSync worker writes one of them as well: unless
\* webhooks for it have overlapped (each compares with the status it read, and
\* the later write wins), or the order is disturbed.  IN_TRANSIT may be the
\* worker's, which leaves the order alone.
GlovoFollowed ==
  \A o \in Orders :
    (serial[o] /\ HooksQuiet(o) /\ ~ Disturbed(o) /\ parcel[o] \in Mapped \ {"IN_TRANSIT"})
      => orders[o].status = Internal[parcel[o]]

-----------------------------------------------------------------------------
(* What else every reachable state satisfies: the facts that make the        *)
(* properties inductive                                                      *)

\* A handler at a desk is at work on an order we deliver, which has a task.
DeskOK(d) ==
  desk[d].pc # "idle" =>
    /\ desk[d].order \in Orders
    /\ DeliveredByUs(desk[d].order)
    /\ desk[d].pc # "createTask" => task[desk[d].order] # NoTask
    /\ desk[d].pc = "assignTask" => desk[d].courier \in Couriers
    /\ desk[d].pc = "setTask" => desk[d].status \in TaskStatuses

\* A webhook is about an order Glovo delivers, which has its row.
HookOK(h) ==
  hook[h].pc # "idle" =>
    /\ hook[h].order \in Orders
    /\ parcel[hook[h].order] # "NONE"
    /\ hook[h].status \in GlovoStatuses
    /\ hook[h].pc \in {"setOrder", "announceHook"} => hook[h].status \in Mapped

\* The glovoSync worker enters the delivery of an order once.
SyncOK ==
  /\ sync.pc # "idle" => sync.order \in Orders
  /\ sync.pc = "createParcel" => /\ DeliveredByGlovo(sync.order)
                                 /\ parcel[sync.order] = "NONE"
  /\ sync.pc = "syncParcel" => parcel[sync.order] # "NONE"

\* No order has two carriers: it has a task only when we deliver it, and a
\* Glovo order only when Glovo does.
OneCarrier ==
  \A o \in Orders : /\ task[o] # NoTask => DeliveredByUs(o)
                    /\ parcel[o] # "NONE" => DeliveredByGlovo(o)

\* What the handlers rely on at their next call; beside the carriers', what
\* those of OrderLifecycle rely on still holds.
DeliveryInv ==
  /\ CoreInv
  /\ DeliveryTypeOK
  /\ GlovoTypeOK
  /\ OneCarrier
  /\ \A d \in Desks : DeskOK(d)
  /\ \A h \in Hooks : HookOK(h)
  /\ SyncOK
  /\ UnrecordedOnlyByCarriers

\* Clients have been told of the order's status s.
Told(o, s) == \E i \in DOMAIN announced[o] : announced[o][i] = s

\* Who is about to announce a status has recorded it, and what was announced
\* stays recorded, or excused by the carrier.
AnnouncedInv ==
  \A o \in Orders, s \in Statuses :
    /\ Owing(o, s) > 0 => Recorded(o, s)
    /\ Told(o, s) => Recorded(o, s) \/ SaidByCarrier(o, s)

\* A webhook that will compare has read the status the order has, one that
\* will write the order has written Glovo's row, and the two rows agree when
\* no webhook is between its two writes.
InStep(o) ==
  /\ \A h \in Hooks : hook[h].order = o =>
       /\ hook[h].pc = "setParcel" => hook[h].seen = orders[o].status
       /\ hook[h].pc = "setOrder" => parcel[o] \in {hook[h].status, "IN_TRANSIT"}
  /\ parcel[o] \in Mapped \ {"IN_TRANSIT"} =>
       \/ orders[o].status = Internal[parcel[o]]
       \/ \E h \in Hooks : hook[h].order = o /\ hook[h].pc = "setOrder"

\* At most one webhook for the order is running.
OneHook(o) == \A g, h \in Hooks : hook[g].order = o /\ hook[h].order = o => g = h

\* Webhooks that do not overlap are one at a time, and keep the rows in step.
GlovoInv ==
  \A o \in Orders : serial[o] => /\ OneHook(o)
                                 /\ Disturbed(o) \/ InStep(o)
=============================================================================
