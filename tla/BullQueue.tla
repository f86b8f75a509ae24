------------------------------ MODULE BullQueue -----------------------------
(***************************************************************************)
(* The BullMQ queue "scheduledOrders", as the code in src/ uses it: one     *)
(* delayed job per scheduled order, one worker of concurrency 1.  BullMQ    *)
(* itself is not part of the repository: this module states what it does    *)
(* for its callers.  The order in which waiting jobs are taken is left      *)
(* open; the jobs of two orders share nothing but the worker.               *)
(***************************************************************************)
EXTENDS OrderStore

CONSTANTS
  JobAttempts,   \* option "attempts" of the job: 1 unless the producer sets it
  MaxStalls      \* worker option maxStalledCount, 1 by default

ASSUME QueueAssumption == JobAttempts \in Nat \ {0} /\ MaxStalls \in Nat

\* The job of each order; unanswered is auxiliary: the failed attempts whose
\* work had been committed.
VARIABLE job

JobStates == {"none", "delayed", "waiting", "active", "backoff",
              "completed", "failed", "removed"}

\* What Queue.getJobs(['delayed', 'waiting']) lists: a job that waits for its
\* next attempt is a delayed job too.
Listed == {"delayed", "backoff", "waiting"}

\* The states from which the job will still be processed.
Live == Listed \cup {"active"}

Jobs == [state      : JobStates,
         attempts   : 0 .. JobAttempts,
         stalls     : 0 .. MaxStalls,
         unanswered : 0 .. JobAttempts]

QueueTypeOK == job \in [Orders -> Jobs]

NewJob == [state |-> "none", attempts |-> 0, stalls |-> 0, unanswered |-> 0]

QueueInit == job = [o \in Orders |-> NewJob]

\* Mutation: a job whose time has passed is not added.
AddFutureJob(o) ==
  job' = IF due[o] THEN job ELSE [job EXCEPT ![o].state = "delayed"]

\* Mutation: the job is added without its delay.
AddJobNow(o) == job' = [job EXCEPT ![o].state = "waiting"]

\* Queue.add with the delay scheduledFor - now: a negative delay counts as 0.
AddJob(o) == job' = [job EXCEPT ![o].state = IF due[o] THEN "waiting" ELSE "delayed"]

\* A delayed job's time has come.
PromoteJob(o) ==
  /\ \/ job[o].state = "delayed" /\ due[o]
     \/ job[o].state = "backoff"
  /\ job' = [job EXCEPT ![o].state = "waiting"]

\* The worker locks a waiting job and starts to process it.
TakeJob(o) ==
  /\ job[o].state = "waiting"
  /\ job' = [job EXCEPT ![o].state = "active"]

\* The processor returned.
CompleteJob(o) == job' = [job EXCEPT ![o].state = "completed"]

\* Mutation: one attempt less than configured.
FailedEarly(o) == IF job[o].attempts + 2 < JobAttempts THEN "backoff" ELSE "failed"

\* The state of a job whose attempt has failed: it is retried while it has
\* attempts left.
AfterFailure(o) == IF job[o].attempts + 1 < JobAttempts THEN "backoff" ELSE "failed"

\* The processor threw.
FailJob(o) == job' = [job EXCEPT ![o].attempts = @ + 1, ![o].state = AfterFailure(o)]

\* The processor threw, though its work was done.
FailUnanswered(o) ==
  job' = [job EXCEPT ![o].attempts = @ + 1,
                     ![o].unanswered = @ + 1,
                     ![o].state = AfterFailure(o)]

\* Nobody renewed the lock of an active job: it is delivered once more, up to
\* MaxStalls times.
StallJob(o) ==
  /\ job[o].state = "active"
  /\ job' = IF job[o].stalls < MaxStalls
            THEN [job EXCEPT ![o].state = "waiting", ![o].stalls = @ + 1]
            ELSE [job EXCEPT ![o].state = "failed"]

\* Mutation: a job in the hands of a worker can be removed.
AlwaysRemovable(o) == job[o].state \in JobStates

\* Job.remove succeeds on every job no worker has locked.
Removable(o) == job[o].state # "active"
DropJob(o)   == job' = [job EXCEPT ![o].state = "removed"]
=============================================================================
