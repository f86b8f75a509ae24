---------------------------- MODULE OrdersService ---------------------------
(***************************************************************************)
(* OrdersService: create, updateStatus and cancel.  A request is a slot     *)
(* that holds one running handler; a handler is cut where the code awaits   *)
(* the database or the queue, so that handlers interleave there.  A call    *)
(* the code rejects (BadRequest, NotFound) before it has changed anything   *)
(* is not a step.  When a call throws the handler ends, also when the call  *)
(* had done its work and only its answer was lost.                          *)
(***************************************************************************)
EXTENDS BullQueue, Faults

CONSTANTS
  Requests,        \* slots for handlers that run at the same time
  MaxRequests,     \* bound on the calls made in a behaviour
  TypeInputs,      \* values of "type" clients send
  DeliveryInputs,  \* values of "deliveryType" clients send
  UpdateInputs     \* values of "status" staff sends to updateStatus

ASSUME RequestsAssumption ==
  /\ MaxRequests \in Nat
  /\ TypeInputs \subseteq Types
  /\ DeliveryInputs \subseteq DeliveryTypes
  /\ UpdateInputs \subseteq Statuses

VARIABLES
  req,       \* the handler in each slot
  started    \* how many calls have been accepted so far

serviceVars == <<req, started>>

\* Where a handler stands: the call it makes next.
Pcs == {"idle",
        "createTx", "enqueue", "announceCreated",     \* create
        "findJob", "removeJob", "revalidate",         \* cancel
        "updateTx", "announceUpdated"}                \* updateStatus

\* The slot is free.
IdleReq == [pc |-> "idle", order |-> NoOrder, row |-> Absent,
            seen |-> "ABSENT", target |-> "ABSENT", by |-> "create"]

Handlers == [pc     : Pcs,
             order  : Orders \cup {NoOrder},
             row    : Rows \cup {Absent},                 \* the row to insert
             seen   : Statuses \cup {"ABSENT"},           \* the status read
             target : Statuses \cup {"ABSENT"},           \* the status to write
             by     : Writers \ {"scheduler"}]

ServiceTypeOK ==
  /\ req \in [Requests -> Handlers]
  /\ started \in 0 .. MaxRequests

ServiceInit ==
  /\ req = [r \in Requests |-> IdleReq]
  /\ started = 0

Begin(r, h) ==
  /\ req[r] = IdleReq
  /\ started < MaxRequests
  /\ started' = started + 1
  /\ req' = [req EXCEPT ![r] = h]

\* The handler in slot r goes on to its next call, or ends.
Goto(r, pc) == req' = [req EXCEPT ![r] = [@ EXCEPT !.pc = pc]] /\ UNCHANGED started
End(r)      == req' = [req EXCEPT ![r] = IdleReq] /\ UNCHANGED started

\* A handler is creating order o: it knows the row, and has not ended.
Creating(r, o) == req[r].order = o /\ req[r].pc \in {"createTx", "enqueue"}

-----------------------------------------------------------------------------
(* create *)

\* What clients may send about time and address.
Schedules == {"missing", "past", "within30Days", "beyond"}
Addresses == {"none", "own", "unknown"}

\* The checks create makes before it opens the transaction.
CreateAccepts(type, schedule, deliveryType, address) ==
  /\ type = "SCHEDULED" => schedule = "within30Days"
  /\ deliveryType # "PICKUP" => address # "none"
  /\ address # "unknown"

CreateStart(r) ==
  \E o \in Orders, type \in TypeInputs, dt \in DeliveryInputs :
    /\ ~ Exists(o) /\ \A q \in Requests : ~ Creating(q, o)
    /\ \E schedule \in Schedules, address \in Addresses :
         CreateAccepts(type, schedule, dt, address)
    /\ Begin(r, [pc |-> "createTx", order |-> o,
                 row |-> [status |-> "PENDING", type |-> type, deliveryType |-> dt],
                 seen |-> "ABSENT", target |-> "ABSENT", by |-> "create"])
    /\ UNCHANGED <<storeVars, job, faults>>

CreateTx(r) ==
  /\ req[r].pc = "createTx"
  /\ \/ /\ InsertTx(req[r].order, req[r].row)
        /\ Goto(r, IF req[r].row.type = "SCHEDULED" THEN "enqueue" ELSE "announceCreated")
        /\ NoFault
     \/ Fault("createTx") /\ End(r) /\ UNCHANGED <<orders, history>>
     \/ Fault("createTxAnswer") /\ InsertTx(req[r].order, req[r].row) /\ End(r)
  /\ UNCHANGED <<due, announced, job>>

\* The job is added after the commit, by a call of its own.
CreateEnqueue(r) ==
  /\ req[r].pc = "enqueue"
  /\ \/ AddJob(req[r].order) /\ Goto(r, "announceCreated") /\ NoFault
     \/ Fault("enqueue") /\ End(r) /\ UNCHANGED job
     \/ Fault("enqueueAnswer") /\ AddJob(req[r].order) /\ End(r)
  /\ UNCHANGED storeVars

CreateAnnounce(r) ==
  /\ req[r].pc = "announceCreated"
  /\ Announce(req[r].order, "PENDING")
  /\ End(r)
  /\ UNCHANGED <<orders, history, due, job, faults>>

-----------------------------------------------------------------------------
(* updateStatus *)

\* Mutation: any change of status is accepted.
AcceptsAnyChange(seen, target) == target # seen

\* updateStatus has read the order and compared the status with the table.
UpdateAccepts(seen, target) == target \in ValidTransitions[seen]

UpdateStart(r) ==
  \E o \in Orders, target \in UpdateInputs :
    /\ Exists(o)
    /\ UpdateAccepts(orders[o].status, target)
    /\ Begin(r, [pc |-> "updateTx", order |-> o, row |-> Absent,
                 seen |-> orders[o].status, target |-> target, by |-> "staff"])
    /\ UNCHANGED <<storeVars, job, faults>>

\* Mutation: the event goes out although the transaction was rolled back.
UpdateTxAnnouncing(r) ==
  /\ req[r].pc = "updateTx"
  /\ \/ /\ StatusTx(req[r].order, req[r].target, req[r].by)
        /\ Goto(r, "announceUpdated")
        /\ UNCHANGED announced
        /\ NoFault
     \/ /\ Fault("updateTx") /\ End(r) /\ UNCHANGED <<orders, history>>
        /\ Announce(req[r].order, req[r].target)
     \/ /\ Fault("updateTxAnswer") /\ End(r)
        /\ StatusTx(req[r].order, req[r].target, req[r].by)
        /\ UNCHANGED announced
  /\ UNCHANGED <<due, job>>

UpdateTx(r) ==
  /\ req[r].pc = "updateTx"
  /\ \/ /\ StatusTx(req[r].order, req[r].target, req[r].by)
        /\ Goto(r, "announceUpdated")
        /\ NoFault
     \/ Fault("updateTx") /\ End(r) /\ UNCHANGED <<orders, history>>
     \/ /\ Fault("updateTxAnswer") /\ End(r)
        /\ StatusTx(req[r].order, req[r].target, req[r].by)
  /\ UNCHANGED <<due, announced, job>>

\* Mutation: no event for a status that is not the order's any more.
UpdateAnnounceLatest(r) ==
  /\ req[r].pc = "announceUpdated"
  /\ IF orders[req[r].order].status = req[r].target
     THEN Announce(req[r].order, req[r].target)
     ELSE UNCHANGED announced
  /\ End(r)
  /\ UNCHANGED <<orders, history, due, job, faults>>

UpdateAnnounce(r) ==
  /\ req[r].pc = "announceUpdated"
  /\ Announce(req[r].order, req[r].target)
  /\ End(r)
  /\ UNCHANGED <<orders, history, due, job, faults>>

-----------------------------------------------------------------------------
(* cancel, by the customer who owns the order *)

CancelStart(r) ==
  \E o \in Orders :
    /\ Exists(o)
    /\ orders[o].status \notin {"COMPLETED", "CANCELLED"}
    /\ Begin(r, [pc |-> IF Scheduled(o) THEN "findJob" ELSE "revalidate",
                 order |-> o, row |-> Absent,
                 seen |-> "ABSENT", target |-> "ABSENT", by |-> "customer"])
    /\ UNCHANGED <<storeVars, job, faults>>

CancelFindJob(r) ==
  /\ req[r].pc = "findJob"
  /\ \/ /\ Goto(r, IF job[req[r].order].state \in Listed THEN "removeJob" ELSE "revalidate")
        /\ NoFault
     \/ Fault("findJob") /\ End(r)
  /\ UNCHANGED <<storeVars, job>>

\* job.remove() throws when a worker has taken the job since it was listed.
CancelRemoveJob(r) ==
  /\ req[r].pc = "removeJob"
  /\ \/ /\ Removable(req[r].order)
        /\ DropJob(req[r].order) /\ Goto(r, "revalidate") /\ NoFault
     \/ ~ Removable(req[r].order) /\ End(r) /\ UNCHANGED job /\ NoFault
     \/ Fault("removeJob") /\ End(r) /\ UNCHANGED job
  /\ UNCHANGED storeVars

\* cancel calls updateStatus(CANCELLED), which reads the order once more.
CancelRevalidate(r) ==
  /\ req[r].pc = "revalidate"
  /\ LET seen == orders[req[r].order].status IN
       \/ /\ UpdateAccepts(seen, "CANCELLED")
          /\ req' = [req EXCEPT ![r] = [@ EXCEPT !.pc = "updateTx", !.seen = seen,
                                                 !.target = "CANCELLED"]]
          /\ UNCHANGED started
          /\ NoFault
       \/ ~ UpdateAccepts(seen, "CANCELLED") /\ End(r) /\ NoFault
       \/ Fault("revalidate") /\ End(r)
  /\ UNCHANGED <<storeVars, job>>

-----------------------------------------------------------------------------
\* What a handler does once its request has been accepted.
HandlerStep(r) ==
  \/ CreateTx(r) \/ CreateEnqueue(r) \/ CreateAnnounce(r)
  \/ UpdateTx(r) \/ UpdateAnnounce(r)
  \/ CancelFindJob(r) \/ CancelRemoveJob(r) \/ CancelRevalidate(r)

\* A client or a member of staff calls the service.
ServiceCall(r) == CreateStart(r) \/ UpdateStart(r) \/ CancelStart(r)
=============================================================================
