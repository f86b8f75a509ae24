----------------------- MODULE ScheduledOrdersProcessor ---------------------
(***************************************************************************)
(* ScheduledOrdersProcessor.process: the worker that releases a scheduled   *)
(* order to the kitchen when its job is due.  It reads the order, skips a   *)
(* cancelled one, and otherwise writes PREPARING, whatever status it read.  *)
(***************************************************************************)
EXTENDS BullQueue, Faults

VARIABLE worker     \* the job being processed, and how far

WorkerPcs == {"idle", "read", "releaseTx", "announce", "return"}

IdleWorker == [pc |-> "idle", order |-> NoOrder, seen |-> "ABSENT"]

WorkerTypeOK ==
  worker \in [pc : WorkerPcs, order : Orders \cup {NoOrder}, seen : Statuses \cup {"ABSENT"}]

WorkerInit == worker = IdleWorker

WorkerGoto(pc) == worker' = [worker EXCEPT !.pc = pc]

\* process throws and BullMQ fails the attempt.
WorkerThrows == FailJob(worker.order) /\ worker' = IdleWorker

WorkerTake(o) ==
  /\ worker = IdleWorker
  /\ TakeJob(o)
  /\ worker' = [pc |-> "read", order |-> o, seen |-> "ABSENT"]
  /\ UNCHANGED <<storeVars, faults>>

\* The processor's only check of the status it read.
Skipped(status) == status = "CANCELLED"

\* findUnique, and the cancelled order that is skipped.  The error for an
\* order that is missing cannot occur: nothing deletes orders, and a job is
\* added after its order's commit (WorkerOK of OrderLifecycle).
WorkerRead ==
  /\ worker.pc = "read"
  /\ \/ /\ Exists(worker.order)
        /\ worker' = [pc    |-> IF Skipped(orders[worker.order].status)
                              THEN "return" ELSE "releaseTx",
                      order |-> worker.order,
                      seen  |-> orders[worker.order].status]
        /\ UNCHANGED job /\ NoFault
     \/ Fault("workerRead") /\ WorkerThrows
  /\ UNCHANGED storeVars

\* The transaction that moves the order to PREPARING, without a look at the
\* status table.  It is not retried by the processor; when it was committed
\* and its answer lost, process throws without announcing the status, and the
\* next attempt, if there is one, releases the order again.
WorkerRelease ==
  /\ worker.pc = "releaseTx"
  /\ \/ /\ StatusTx(worker.order, "PREPARING", "scheduler")
        /\ WorkerGoto("announce")
        /\ UNCHANGED job /\ NoFault
     \/ Fault("releaseTx") /\ WorkerThrows /\ UNCHANGED <<orders, history>>
     \/ /\ Fault("releaseTxAnswer")
        /\ StatusTx(worker.order, "PREPARING", "scheduler")
        /\ FailUnanswered(worker.order)
        /\ worker' = IdleWorker
  /\ UNCHANGED <<due, announced>>

\* Mutation: an error of the broadcast fails the attempt, which is retried.
WorkerAnnounceThrows ==
  /\ worker.pc = "announce"
  /\ WorkerThrows
  /\ UNCHANGED <<storeVars, faults>>

WorkerAnnounce ==
  /\ worker.pc = "announce"
  /\ Announce(worker.order, "PREPARING")
  /\ WorkerGoto("return")
  /\ UNCHANGED <<orders, history, due, job, faults>>

WorkerReturn ==
  /\ worker.pc = "return"
  /\ CompleteJob(worker.order)
  /\ worker' = IdleWorker
  /\ UNCHANGED <<storeVars, faults>>

WorkerStep == WorkerRead \/ WorkerRelease \/ WorkerAnnounce \/ WorkerReturn
=============================================================================
