---------------------------- MODULE OrderLifecycle --------------------------
(***************************************************************************)
(* The life of an order: the HTTP handlers of OrdersService, the queue of   *)
(* scheduled orders and its worker, running in one Node process over one    *)
(* database, with calls that fail and a process that may crash and be       *)
(* started again.                                                           *)
(***************************************************************************)
EXTENDS OrdersService, ScheduledOrdersProcessor, FiniteSets

CONSTANT MaxCrashes     \* bound on the crashes of a behaviour

ASSUME CrashesAssumption == MaxCrashes \in Nat

\* A process runs finitely many handlers at a time.
ASSUME SlotsAssumption == IsFiniteSet(Requests)

VARIABLE crashes        \* how often the process has crashed

vars == <<storeVars, job, faults, serviceVars, worker, crashes>>

TypeOK ==
  /\ StoreTypeOK
  /\ QueueTypeOK
  /\ FaultsTypeOK
  /\ ServiceTypeOK
  /\ WorkerTypeOK
  /\ crashes \in 0 .. MaxCrashes

Init ==
  /\ StoreInit
  /\ QueueInit
  /\ FaultsInit
  /\ ServiceInit
  /\ WorkerInit
  /\ crashes = 0

-----------------------------------------------------------------------------
(* The components' steps in the whole system *)

Call(r)    == ServiceCall(r) /\ UNCHANGED <<worker, crashes>>
Handler(r) == HandlerStep(r) /\ UNCHANGED <<worker, crashes>>

Take(o) == WorkerTake(o) /\ UNCHANGED <<serviceVars, crashes>>
Work    == WorkerStep /\ UNCHANGED <<serviceVars, crashes>>

Promote(o) == PromoteJob(o) /\ UNCHANGED <<storeVars, faults, serviceVars, worker, crashes>>

\* The lock of a job the worker does not hold any more expires.
Stall(o) ==
  /\ worker.order # o
  /\ StallJob(o)
  /\ UNCHANGED <<storeVars, faults, serviceVars, worker, crashes>>

\* The time of an order is fixed when the client asks for it.
Clock(o) ==
  /\ \/ Exists(o) /\ Scheduled(o)
     \/ \E r \in Requests : Creating(r, o) /\ req[r].row.type = "SCHEDULED"
  /\ TimePasses(o)
  /\ UNCHANGED <<job, faults, serviceVars, worker, crashes>>

\* The process dies with the handlers and the worker in it; PostgreSQL and
\* Redis keep what was committed.
Crash ==
  /\ crashes < MaxCrashes
  /\ crashes' = crashes + 1
  /\ req' = [r \in Requests |-> IdleReq]
  /\ worker' = IdleWorker
  /\ UNCHANGED <<storeVars, job, faults, started>>

Next ==
  \/ \E r \in Requests : Call(r) \/ Handler(r)
  \/ \E o \in Orders : Take(o) \/ Promote(o) \/ Stall(o) \/ Clock(o)
  \/ Work
  \/ Crash

Spec == Init /\ [][Next]_vars

\* A handler that runs goes on, the worker takes and processes jobs, BullMQ
\* promotes and redelivers them, time passes.  Nobody has to call the service.
Fairness ==
  /\ \A r \in Requests : WF_vars(Handler(r))
  /\ WF_vars(Work)
  /\ \A o \in Orders : WF_vars(Take(o)) /\ WF_vars(Promote(o))
                         /\ WF_vars(Stall(o)) /\ WF_vars(Clock(o))

FairSpec == Spec /\ Fairness

-----------------------------------------------------------------------------
(* Properties *)

\* The history of an order ends in the status of its row: the row and the
\* history are written in one transaction by every handler of this module.
HistoryFollowsStatus ==
  \A o \in Orders :
    /\ Exists(o) <=> history[o] # <<>>
    /\ Exists(o) => orders[o].status = history[o][Len(history[o])].status

\* A scheduled order that has not been released.
Waiting(o) == Exists(o) /\ Scheduled(o) /\ orders[o].status = "PENDING"

\* The handler in slot r will add the job of order o, or has removed it and
\* will cancel the order.
Minding(r, o) ==
  /\ req[r].order = o
  /\ \/ req[r].pc = "enqueue"
     \/ req[r].by = "customer" /\ req[r].pc \in {"revalidate", "updateTx"}

\* A scheduled order that waits for its time is not forgotten: its job is
\* live, or the handler that will add the job is running, or a cancellation
\* has removed the job and is about to write CANCELLED.  Only a failed call
\* or a crash breaks the chain (commit before enqueue in create, job.remove()
\* before the status transaction in cancel).
NoStrandedOrder ==
  (faults = 0 /\ crashes = 0) =>
    \A o \in Orders : Waiting(o) => job[o].state \in Live \/ \E r \in Requests : Minding(r, o)

\* The worker never releases an order before its scheduledFor, however the
\* commit, the enqueueing and the retries of the job are timed.
NeverReleasedEarly ==
  \A o \in Orders : (\E i \in DOMAIN history[o] : history[o][i].by = "scheduler") => due[o]

\* How often the worker has moved an order to PREPARING.
Releases(o) == Cardinality({i \in DOMAIN history[o] : history[o][i].by = "scheduler"})

\* An order is released again only after the redelivery of a job whose worker
\* died, or after an attempt that failed though its release was committed (the
\* answer of the transaction was lost): once for each.  The other attempts that
\* fail, and are repeated, have not released it.
ReleasedOncePerDelivery ==
  \A o \in Orders : Releases(o) <= 1 + job[o].stalls + job[o].unanswered

\* This step changes the status of order o, and the table allows the change.
StatusChanges(o)   == Exists(o) /\ orders'[o].status # orders[o].status
StatusStepValid(o) == orders'[o].status \in ValidTransitions[orders[o].status]

\* Handler r writes the status of order o in this step, from a stale read
\* that allowed it.
StaleUpdate(r, o) ==
  /\ req[r].pc = "updateTx" /\ req'[r] # req[r]
  /\ req[r].order = o /\ orders'[o].status = req[r].target
  /\ req[r].seen # orders[o].status
  /\ req[r].target \in ValidTransitions[req[r].seen]

\* The worker releases order o in this step, having read it uncancelled.
Release(o) ==
  /\ worker.pc = "releaseTx" /\ worker' # worker
  /\ worker.order = o /\ orders'[o].status = "PREPARING"
  /\ worker.seen # "CANCELLED"

\* Each change of an order's status is one validTransitions allows, unless
\* the handler's read was overtaken by another writer, or the writer is the
\* worker, which consults only its own read of CANCELLED.
StatusStepExplained ==
  \A o \in Orders : StatusChanges(o) => \/ StatusStepValid(o)
                                        \/ \E r \in Requests : StaleUpdate(r, o)
                                        \/ Release(o)

StatusStepsExplained == [][StatusStepExplained]_vars

\* Each change of an order's status is one validTransitions allows.
StatusStepsValid ==
  [][\A o \in Orders : StatusChanges(o) => StatusStepValid(o)]_vars

\* A scheduled order whose time has come does not stay PENDING.
ReleasedWhenDue ==
  \A o \in Orders :
    (Waiting(o) /\ due[o]) ~> ~ Waiting(o)

\* Releases the worker did not learn of, and so did not announce.
Unheard(o, s) == IF s = "PREPARING" THEN job[o].unanswered ELSE 0

\* Nothing written stays untold: in the end every status of every order has
\* been broadcast as often as it was written, but for the releases the worker
\* did not learn of.
EveryStatusAnnounced ==
  \A o \in Orders :
    <>[](\A s \in Statuses :
           Cardinality({i \in DOMAIN history[o] : history[o][i].status = s})
             = Cardinality({i \in DOMAIN announced[o] : announced[o][i] = s}) + Unheard(o, s))

-----------------------------------------------------------------------------
(* What else every reachable state satisfies: the facts that make           *)
(* NoStrandedOrder and HistoryFollowsStatus inductive                       *)

\* What a handler may rely on when it makes its next call.
RequestOK(r) ==
  /\ req[r].pc # "idle" => req[r].order \in Orders
  /\ req[r].pc = "createTx" => /\ ~ Exists(req[r].order)
                               /\ req[r].row \in Rows
                               /\ req[r].row.status = "PENDING"
  /\ req[r].pc \notin {"idle", "createTx"} => Exists(req[r].order)
  /\ req[r].pc \in {"createTx", "enqueue"} => job[req[r].order].state = "none"
  /\ req[r].pc \in {"findJob", "removeJob", "revalidate"} => req[r].by = "customer"
  /\ req[r].pc = "removeJob" => job[req[r].order].state # "none"
  /\ req[r].pc = "updateTx" => /\ req[r].seen \in Statuses
                               /\ req[r].target \in ValidTransitions[req[r].seen]
  /\ req[r].pc = "announceUpdated" => req[r].target \in Statuses

RequestsOK == \A r \in Requests : RequestOK(r)

\* An order is created by one handler.
OneCreator ==
  \A q, r \in Requests, o \in Orders : Creating(q, o) /\ Creating(r, o) => q = r

\* Jobs belong to orders that exist and have attempts left while they live;
\* an active job is in the worker's hands until the process crashes.
JobsOK ==
  \A o \in Orders :
    /\ ~ Exists(o) => job[o].state = "none"
    /\ job[o].state = "none" => job[o].attempts = 0
    /\ job[o].unanswered <= job[o].attempts
    /\ job[o].state \in Live => job[o].attempts < JobAttempts
    /\ job[o].state = "active" => worker.order = o \/ crashes > 0

\* The worker's job is active, and an order it is done with is not PENDING.
WorkerOK ==
  /\ worker.pc = "idle" <=> worker = IdleWorker
  /\ worker.pc # "idle" => /\ worker.order \in Orders
                           /\ job[worker.order].state = "active"
                           /\ Exists(worker.order)
  /\ worker.pc = "releaseTx" => worker.seen # "CANCELLED"
  /\ worker.pc \in {"announce", "return"} => orders[worker.order].status # "PENDING"

\* An order has a history from the moment it exists.
HistoryBegins == \A o \in Orders : Exists(o) <=> history[o] # <<>>

\* What the handlers and the worker rely on, each on the others' part of it.
\* It does not matter to them who else sets an order's status.
CoreInv ==
  /\ TypeOK
  /\ RequestsOK
  /\ OneCreator
  /\ JobsOK
  /\ WorkerOK
  /\ HistoryBegins
  /\ NoStrandedOrder

\* The inductive invariant: every step of the system preserves it.
IInv == CoreInv /\ HistoryFollowsStatus

\* The job of order o, as it has been delivered so far, may still release it.
MayRelease(o) ==
  \/ job[o].state \in {"none", "delayed", "waiting", "backoff"}
  \/ worker.order = o /\ worker.pc \in {"read", "releaseTx"}

\* Each attempt of each delivery releases its order at most once: one that is
\* repeated has failed before its release, or is counted as unanswered.
ReleasesCounted ==
  \A o \in Orders :
    Releases(o) <= job[o].stalls + job[o].unanswered + (IF MayRelease(o) THEN 0 ELSE 1)

\* A job that is being, or will be, processed without further delay is due.
JobsDue ==
  \A o \in Orders : job[o].state \in {"waiting", "active", "backoff"} => due[o]

-----------------------------------------------------------------------------
(* The system implements OrderJournal *)

\* Handlers that have committed status s of order o and not announced it yet.
Owing(o, s) ==
  Cardinality({r \in Requests :
      /\ req[r].order = o
      /\ \/ req[r].pc \in {"enqueue", "announceCreated"} /\ s = "PENDING"
         \/ req[r].pc = "announceUpdated" /\ s = req[r].target})
    + (IF worker.pc = "announce" /\ worker.order = o /\ s = "PREPARING" THEN 1 ELSE 0)

Broadcasts(o, s) == Cardinality({i \in DOMAIN announced[o] : announced[o][i] = s})

Abstract == INSTANCE OrderJournal WITH
  Lossy   <- MaxFaults > 0 \/ MaxCrashes > 0,
  journal <- [o \in Orders |-> Journal(o)],
  status  <- [o \in Orders |-> orders[o].status],
  owed    <- [o \in Orders |-> [s \in Statuses |-> Owing(o, s)]],
  told    <- [o \in Orders |-> [s \in Statuses |-> Broadcasts(o, s)]]

\* Every behaviour of the system is one of the journal: statuses are only
\* appended, each is broadcast at most once, and the row shows the last one.
\* A transaction whose answer was lost is in the journal, and is not broadcast.
ImplementsJournal == Abstract!JournalSpec
=============================================================================
