------------------------- MODULE OrderLifecycleProofs -----------------------
(***************************************************************************)
(* Proofs about OrderLifecycle for any number of orders and request slots   *)
(* and any bounds: its types, its inductive invariant IInv, that no         *)
(* scheduled order is stranded and the history follows the status, and that *)
(* the steps of an order's status are the ones StatusStepsExplained names.  *)
(*                                                                         *)
(* Layout: facts about constants; what each operation on the store, on the  *)
(* queue and on a request slot changes and leaves alone, so that the later  *)
(* proofs never expand an EXCEPT; one lemma per action; the theorems.       *)
(***************************************************************************)
EXTENDS OrderLifecycle, FiniteSetTheorems, TLAPS

USE NoOrderAssumption, FaultsAssumption, QueueAssumption, RequestsAssumption, CrashesAssumption

-----------------------------------------------------------------------------
(* Constants *)

\* No accepted change leads to PENDING, and PENDING may be cancelled.
LEMMA TransitionsLemma ==
  /\ \A s \in Statuses : ValidTransitions[s] \subseteq Statuses \ {"PENDING"}
  /\ "CANCELLED" \in ValidTransitions["PENDING"]
BY DEF ValidTransitions, Statuses

\* The absence of a row is told from every row.
LEMMA RowsLemma == Absent \notin Rows
BY DEF Absent, Rows, Statuses

-----------------------------------------------------------------------------
(* Operations on the store *)

\* What a transaction with the history row e leaves of order o, and of others.
Writes(o, e) ==
  /\ Exists(o)' /\ orders'[o].status = e.status
  /\ history'[o] = Append(history[o], e)
  /\ \A p \in Orders \ {o} : orders'[p] = orders[p] /\ history'[p] = history[p]

\* What is appended to a history is its last row.
LEMMA LastRowLemma ==
  ASSUME NEW h \in Seq(Entries), NEW e \in Entries, NEW g, g = Append(h, e)
  PROVE  g \in Seq(Entries) /\ g # <<>> /\ g[Len(g)] = e /\ Len(g) = Len(h) + 1
OBVIOUS

\* The transaction of create inserts the row and starts the history.
LEMMA InsertTxLemma ==
  ASSUME StoreTypeOK, HistoryBegins, NEW o \in Orders, NEW row \in Rows,
         ~ Exists(o), InsertTx(o, row)
  PROVE  /\ orders' \in [Orders -> Rows \cup {Absent}]
         /\ history' \in [Orders -> Seq(Entries)]
         /\ orders'[o] = row
         /\ Exists(o)'
         /\ \A p \in Orders \ {o} : orders'[p] = orders[p]
         /\ \E e \in Entries : e.by = "create" /\ Writes(o, e)
         /\ HistoryBegins'
<1>1. orders' \in [Orders -> Rows \cup {Absent}] /\ orders'[o] = row
  BY DEF StoreTypeOK, InsertTx
<1>2. \A p \in Orders \ {o} : orders'[p] = orders[p]
  BY DEF StoreTypeOK, InsertTx
<1>3. Exists(o)'
  BY <1>1, RowsLemma DEF Exists
<1>. DEFINE e == [status |-> row.status, by |-> "create"]
<1>4. e \in Entries /\ e.status = row.status /\ e.by = "create"
  BY DEF Entries, Rows, Writers
<1>5. history' = [history EXCEPT ![o] = Append(history[o], e)]
  BY DEF InsertTx
<1>. HIDE DEF e
<1>6. /\ history'[o] = Append(history[o], e)
      /\ \A p \in Orders \ {o} : history'[p] = history[p]
      /\ history' \in [Orders -> Seq(Entries)]
  BY <1>4, <1>5 DEF StoreTypeOK
<1>7. history'[o] # <<>>
  <2>1. history[o] \in Seq(Entries)
    BY DEF StoreTypeOK
  <2>. QED  BY <1>4, <1>6, <2>1, LastRowLemma
<1>8. HistoryBegins'
  BY <1>2, <1>3, <1>6, <1>7 DEF HistoryBegins, Exists
<1>. QED  BY <1>1, <1>2, <1>3, <1>4, <1>6, <1>8 DEF Writes

\* A status transaction changes one order's status and records it.
LEMMA StatusTxLemma ==
  ASSUME StoreTypeOK, HistoryBegins, NEW o \in Orders,
         NEW s \in Statuses, NEW by \in Writers, Exists(o), StatusTx(o, s, by)
  PROVE  /\ orders' \in [Orders -> Rows \cup {Absent}]
         /\ history' \in [Orders -> Seq(Entries)]
         /\ Exists(o)'
         /\ orders'[o].status = s
         /\ orders'[o].type = orders[o].type
         /\ orders'[o].deliveryType = orders[o].deliveryType
         /\ \A p \in Orders \ {o} : orders'[p] = orders[p]
         /\ Writes(o, [status |-> s, by |-> by])
         /\ HistoryBegins'
<1>1. orders[o] \in Rows
  BY DEF StoreTypeOK, Exists
<1>2. /\ orders'[o] = [orders[o] EXCEPT !.status = s]
      /\ \A p \in Orders \ {o} : orders'[p] = orders[p]
  BY DEF StoreTypeOK, StatusTx
<1>3. /\ orders'[o] \in Rows /\ orders'[o].status = s /\ orders'[o].type = orders[o].type
      /\ orders'[o].deliveryType = orders[o].deliveryType
  BY <1>1, <1>2 DEF Rows
<1>4. orders' \in [Orders -> Rows \cup {Absent}]
  BY <1>1 DEF StoreTypeOK, StatusTx, Rows
<1>5. Exists(o)'
  BY <1>3, RowsLemma DEF Exists
<1>. DEFINE e == [status |-> s, by |-> by]
<1>6. e \in Entries /\ e.status = s
  BY DEF Entries
<1>7. history' = [history EXCEPT ![o] = Append(history[o], e)]
  BY DEF StatusTx
<1>. HIDE DEF e
<1>8. /\ history'[o] = Append(history[o], e)
      /\ \A p \in Orders \ {o} : history'[p] = history[p]
      /\ history' \in [Orders -> Seq(Entries)]
  BY <1>6, <1>7 DEF StoreTypeOK
<1>9. history'[o] # <<>>
  <2>1. history[o] \in Seq(Entries)
    BY DEF StoreTypeOK
  <2>. QED  BY <1>6, <1>8, <2>1, LastRowLemma
<1>10. HistoryBegins'
  BY <1>2, <1>5, <1>8, <1>9 DEF HistoryBegins, Exists
<1>11. Writes(o, e)
  BY <1>2, <1>3, <1>5, <1>6, <1>8 DEF Writes
<1>. QED  BY <1>2, <1>3, <1>4, <1>5, <1>8, <1>10, <1>11 DEF e

\* A broadcast is one of a status.
LEMMA AnnounceLemma ==
  ASSUME StoreTypeOK, NEW o \in Orders, NEW s \in Statuses, Announce(o, s)
  PROVE  announced' \in [Orders -> Seq(Statuses)]
BY DEF StoreTypeOK, Announce

-----------------------------------------------------------------------------
(* Operations on the queue *)

\* Every operation on the job of order o leaves the others' jobs alone.
OtherJobs(o) == \A p \in Orders \ {o} : job'[p] = job[p]

\* Operations that only change the state of a job.
LEMMA SetJobStateLemma ==
  ASSUME QueueTypeOK, NEW o \in Orders, NEW st \in JobStates,
         job' = [job EXCEPT ![o].state = st]
  PROVE  /\ QueueTypeOK'
         /\ job'[o].state = st
         /\ job'[o].attempts = job[o].attempts
         /\ job'[o].stalls = job[o].stalls
         /\ job'[o].unanswered = job[o].unanswered
         /\ OtherJobs(o)
<1>1. job'[o] = [job[o] EXCEPT !.state = st] /\ OtherJobs(o)
  BY DEF QueueTypeOK, OtherJobs
<1>2. job[o] \in Jobs
  BY DEF QueueTypeOK
<1>3. /\ job'[o] \in Jobs
      /\ job'[o].state = st
      /\ job'[o].attempts = job[o].attempts
      /\ job'[o].stalls = job[o].stalls
      /\ job'[o].unanswered = job[o].unanswered
  BY <1>1, <1>2 DEF Jobs
<1>4. QueueTypeOK'
  BY <1>1, <1>3 DEF QueueTypeOK, OtherJobs
<1>. QED  BY <1>1, <1>3, <1>4

\* A failed attempt is counted, and retried only while attempts are left.
LEMMA FailJobLemma ==
  ASSUME QueueTypeOK, NEW o \in Orders, job[o].attempts < JobAttempts, FailJob(o)
  PROVE  /\ QueueTypeOK'
         /\ job'[o].state \in {"backoff", "failed"}
         /\ job'[o].state = "backoff" => job'[o].attempts < JobAttempts
         /\ job'[o].attempts = job[o].attempts + 1
         /\ job'[o].stalls = job[o].stalls
         /\ job'[o].unanswered = job[o].unanswered
         /\ OtherJobs(o)
<1>. DEFINE st == AfterFailure(o)
<1>1. /\ job'[o] = [job[o] EXCEPT !.attempts = job[o].attempts + 1, !.state = st]
      /\ OtherJobs(o)
  BY DEF QueueTypeOK, OtherJobs, FailJob
<1>2. job[o] \in Jobs
  BY DEF QueueTypeOK
<1>3. job[o].attempts + 1 \in 0 .. JobAttempts
  BY <1>2 DEF Jobs
<1>4. /\ st \in JobStates /\ st \in {"backoff", "failed"}
      /\ st = "backoff" => job[o].attempts + 1 < JobAttempts
  BY DEF JobStates, AfterFailure
<1>. HIDE DEF st
<1>5. /\ job'[o] \in Jobs
      /\ job'[o].state = st
      /\ job'[o].attempts = job[o].attempts + 1
      /\ job'[o].stalls = job[o].stalls
      /\ job'[o].unanswered = job[o].unanswered
  BY <1>1, <1>2, <1>3, <1>4 DEF Jobs
<1>6. job' = [job EXCEPT ![o] = job'[o]]
  BY <1>1 DEF QueueTypeOK, FailJob
<1>7. QueueTypeOK'
  BY <1>5, <1>6 DEF QueueTypeOK
<1>. QED  BY <1>1, <1>4, <1>5, <1>7

\* So is one that failed though its work was done, which is counted once more.
LEMMA FailUnansweredLemma ==
  ASSUME QueueTypeOK, NEW o \in Orders, job[o].attempts < JobAttempts,
         job[o].unanswered <= job[o].attempts, FailUnanswered(o)
  PROVE  /\ QueueTypeOK'
         /\ job'[o].state \in {"backoff", "failed"}
         /\ job'[o].state = "backoff" => job'[o].attempts < JobAttempts
         /\ job'[o].attempts = job[o].attempts + 1
         /\ job'[o].stalls = job[o].stalls
         /\ job'[o].unanswered = job[o].unanswered + 1
         /\ OtherJobs(o)
<1>. DEFINE st == AfterFailure(o)
<1>1. /\ job'[o] = [job[o] EXCEPT !.attempts = job[o].attempts + 1,
                                  !.unanswered = job[o].unanswered + 1, !.state = st]
      /\ OtherJobs(o)
  BY DEF QueueTypeOK, OtherJobs, FailUnanswered
<1>2. job[o] \in Jobs
  BY DEF QueueTypeOK
<1>3. job[o].attempts + 1 \in 0 .. JobAttempts /\ job[o].unanswered + 1 \in 0 .. JobAttempts
  BY <1>2 DEF Jobs
<1>4. /\ st \in JobStates /\ st \in {"backoff", "failed"}
      /\ st = "backoff" => job[o].attempts + 1 < JobAttempts
  BY DEF JobStates, AfterFailure
<1>. HIDE DEF st
<1>5. /\ job'[o] \in Jobs
      /\ job'[o].state = st
      /\ job'[o].attempts = job[o].attempts + 1
      /\ job'[o].stalls = job[o].stalls
      /\ job'[o].unanswered = job[o].unanswered + 1
  BY <1>1, <1>2, <1>3, <1>4 DEF Jobs
<1>6. job' = [job EXCEPT ![o] = job'[o]]
  BY <1>1 DEF QueueTypeOK, FailUnanswered
<1>7. QueueTypeOK'
  BY <1>5, <1>6 DEF QueueTypeOK
<1>. QED  BY <1>1, <1>4, <1>5, <1>7

\* A stalled job waits again or has failed.
LEMMA StallJobLemma ==
  ASSUME QueueTypeOK, NEW o \in Orders, StallJob(o)
  PROVE  /\ QueueTypeOK'
         /\ job'[o].state \in {"waiting", "failed"}
         /\ job'[o].attempts = job[o].attempts
         /\ job'[o].stalls >= job[o].stalls
         /\ job'[o].state = "waiting" => job'[o].stalls = job[o].stalls + 1
         /\ job'[o].unanswered = job[o].unanswered
         /\ OtherJobs(o)
<1>1. job[o] \in Jobs
  BY DEF QueueTypeOK
<1>2. CASE job[o].stalls < MaxStalls
  <2>1. /\ job'[o] = [job[o] EXCEPT !.state = "waiting", !.stalls = job[o].stalls + 1]
        /\ OtherJobs(o)
    BY <1>2 DEF QueueTypeOK, OtherJobs, StallJob
  <2>2. job[o].stalls + 1 \in 0 .. MaxStalls
    BY <1>1, <1>2 DEF Jobs
  <2>3. /\ job'[o] \in Jobs
        /\ job'[o].state = "waiting"
        /\ job'[o].attempts = job[o].attempts
        /\ job'[o].stalls = job[o].stalls + 1
        /\ job'[o].unanswered = job[o].unanswered
    BY <1>1, <2>1, <2>2 DEF JobStates, Jobs
  <2>4. job' = [job EXCEPT ![o] = job'[o]]
    BY <1>2, <2>1 DEF QueueTypeOK, StallJob
  <2>5. QueueTypeOK'
    BY <2>3, <2>4 DEF QueueTypeOK
  <2>. QED  BY <1>1, <2>1, <2>3, <2>5 DEF Jobs
<1>3. CASE ~ (job[o].stalls < MaxStalls)
  <2>1. job' = [job EXCEPT ![o].state = "failed"]
    BY <1>3 DEF StallJob
  <2>2. /\ QueueTypeOK' /\ job'[o].state = "failed" /\ job'[o].attempts = job[o].attempts
        /\ job'[o].stalls = job[o].stalls /\ job'[o].unanswered = job[o].unanswered
        /\ OtherJobs(o)
    BY <2>1, SetJobStateLemma DEF JobStates
  <2>. QED  BY <1>1, <2>2 DEF Jobs
<1>. QED  BY <1>2, <1>3

-----------------------------------------------------------------------------
(* Operations on a request slot *)

\* A handler's step leaves the other slots alone.
OtherSlots(r) == \A q \in Requests \ {r} : req'[q] = req[q]

LEMMA BeginLemma ==
  ASSUME ServiceTypeOK, NEW r \in Requests, NEW h \in Handlers, Begin(r, h)
  PROVE  ServiceTypeOK' /\ req[r].pc = "idle" /\ req'[r] = h /\ OtherSlots(r)
BY DEF ServiceTypeOK, Begin, IdleReq, OtherSlots

LEMMA GotoLemma ==
  ASSUME ServiceTypeOK, NEW r \in Requests, NEW pc \in Pcs, Goto(r, pc)
  PROVE  /\ ServiceTypeOK'
         /\ req'[r].pc = pc
         /\ req'[r].order = req[r].order
         /\ req'[r].row = req[r].row
         /\ req'[r].seen = req[r].seen
         /\ req'[r].target = req[r].target
         /\ req'[r].by = req[r].by
         /\ OtherSlots(r)
BY DEF ServiceTypeOK, Goto, Handlers, OtherSlots

LEMMA EndLemma ==
  ASSUME ServiceTypeOK, NEW r \in Requests, End(r)
  PROVE  ServiceTypeOK' /\ req'[r].pc = "idle" /\ OtherSlots(r)
BY DEF ServiceTypeOK, End, Handlers, IdleReq, Pcs, Writers, OtherSlots

-----------------------------------------------------------------------------
(* What the handlers have in common *)

\* A handler that leaves the store's rows and the jobs alone and ends, keeps
\* the invariant if no scheduled order depended on it.
LEMMA EndOfHandlerLemma ==
  ASSUME CoreInv, NEW r \in Requests, End(r),
         UNCHANGED <<orders, history, due, job, worker, crashes>>,
         announced' \in [Orders -> Seq(Statuses)],
         \/ UNCHANGED faults /\ \A o \in Orders : Waiting(o) => ~ Minding(r, o)
         \/ faults' \in 1 .. MaxFaults
  PROVE  CoreInv'
<1>. USE DEF CoreInv
<1>1. ServiceTypeOK' /\ req'[r].pc = "idle" /\ OtherSlots(r)
  BY EndLemma DEF TypeOK
<1>2. TypeOK'
  BY <1>1 DEF TypeOK, StoreTypeOK, QueueTypeOK, FaultsTypeOK, WorkerTypeOK
<1>3. RequestsOK'
  BY <1>1 DEF RequestsOK, RequestOK, Exists, OtherSlots
<1>4. OneCreator'
  BY <1>1 DEF OneCreator, Creating, OtherSlots
<1>5. JobsOK' /\ WorkerOK' /\ HistoryBegins'
  BY DEF JobsOK, WorkerOK, HistoryBegins, Exists
<1>6. NoStrandedOrder'
  <2>. SUFFICES ASSUME faults' = 0, crashes' = 0, NEW p \in Orders, Waiting(p)'
                PROVE  job'[p].state \in Live \/ \E q \in Requests : Minding(q, p)'
    BY DEF NoStrandedOrder
  <2>1. Waiting(p) /\ faults = 0 /\ crashes = 0 /\ ~ Minding(r, p)
    BY DEF Waiting, Exists, Scheduled
  <2>2. ASSUME NEW q \in Requests, Minding(q, p)
        PROVE  Minding(q, p)'
    BY <1>1, <2>1, <2>2 DEF Minding, OtherSlots
  <2>. QED  BY <2>1, <2>2 DEF NoStrandedOrder
<1>. QED  BY <1>2, <1>3, <1>4, <1>5, <1>6

\* A handler whose call failed ends.
LEMMA FailedHandlerLemma ==
  ASSUME CoreInv, NEW r \in Requests, NEW p, Fault(p), End(r),
         UNCHANGED <<orders, history, due, announced, job, worker, crashes>>
  PROVE  CoreInv'
<1>1. faults' \in 1 .. MaxFaults
  BY DEF CoreInv, TypeOK, FaultsTypeOK, Fault
<1>2. announced' \in [Orders -> Seq(Statuses)]
  BY DEF CoreInv, TypeOK, StoreTypeOK
<1>. QED  BY <1>1, <1>2, EndOfHandlerLemma

\* A handler ends whose write was done though its answer was lost: it has
\* inserted the order it was creating, or changed a status, but not to PENDING.
LEMMA LostAnswerLemma ==
  ASSUME CoreInv, NEW r \in Requests, NEW p, Fault(p), End(r),
         UNCHANGED <<due, announced, job, worker, crashes>>,
         orders' \in [Orders -> Rows \cup {Absent}],
         history' \in [Orders -> Seq(Entries)],
         HistoryBegins',
         \A o \in Orders : /\ Exists(o) => Exists(o)'
                           /\ Exists(o)' => \/ Exists(o)
                                            \/ Creating(r, o) /\ job[o].state = "none"
                           /\ (Exists(o) /\ orders[o].status # "PENDING")
                                => orders'[o].status # "PENDING"
  PROVE  CoreInv'
<1>. USE DEF CoreInv
<1>1. ServiceTypeOK' /\ req'[r].pc = "idle" /\ OtherSlots(r)
  BY EndLemma DEF TypeOK
<1>2. faults' \in 1 .. MaxFaults
  BY DEF TypeOK, FaultsTypeOK, Fault
<1>3. TypeOK'
  BY <1>1, <1>2 DEF TypeOK, StoreTypeOK, QueueTypeOK, FaultsTypeOK, WorkerTypeOK
<1>4. RequestsOK'
  <2>1. RequestOK(r)'
    BY <1>1 DEF RequestOK
  <2>2. ASSUME NEW q \in Requests \ {r}
        PROVE  RequestOK(q)'
    <3>1. req'[q] = req[q] /\ RequestOK(q) /\ job' = job
      BY <1>1 DEF RequestsOK, OtherSlots
    <3>2. req[q].pc # "idle" => (Exists(req[q].order)' <=> Exists(req[q].order))
                                \/ Creating(r, req[q].order)
      BY <3>1 DEF RequestOK
    <3>3. req[q].pc = "createTx" => ~ Creating(r, req[q].order)
      BY <3>1 DEF OneCreator, Creating, RequestOK
    <3>4. req[q].pc = "createTx" => ~ Exists(req[q].order)'
      BY <3>1, <3>2, <3>3 DEF RequestOK
    <3>5. req[q].pc \notin {"idle", "createTx"} => Exists(req[q].order)'
      BY <3>1 DEF RequestOK
    <3>. QED  BY <3>1, <3>4, <3>5 DEF RequestOK
  <2>. QED  BY <2>1, <2>2 DEF RequestsOK
<1>5. OneCreator'
  BY <1>1 DEF OneCreator, Creating, OtherSlots
<1>6. JobsOK'
  BY DEF JobsOK
<1>7. WorkerOK'
  BY DEF WorkerOK, IdleWorker
<1>8. NoStrandedOrder'
  BY <1>2 DEF NoStrandedOrder
<1>. QED  BY <1>3, <1>4, <1>5, <1>6, <1>7, <1>8

\* A handler of an existing order begins.
LEMMA NewHandlerLemma ==
  ASSUME CoreInv, NEW r \in Requests, NEW h \in Handlers, Begin(r, h),
         UNCHANGED <<storeVars, job, faults, worker, crashes>>,
         h.order \in Orders, Exists(h.order),
         h.pc \in {"updateTx", "findJob", "revalidate"},
         h.pc # "updateTx" => h.by = "customer",
         h.pc = "updateTx" => h.seen \in Statuses /\ h.target \in ValidTransitions[h.seen]
  PROVE  CoreInv'
<1>. USE DEF CoreInv
<1>1. ServiceTypeOK' /\ req[r].pc = "idle" /\ req'[r] = h /\ OtherSlots(r)
  BY BeginLemma DEF TypeOK
<1>2. UNCHANGED <<orders, history, due, announced>>
  BY DEF storeVars
<1>3. TypeOK'
  BY <1>1, <1>2 DEF TypeOK, StoreTypeOK, QueueTypeOK, FaultsTypeOK, WorkerTypeOK
<1>4. RequestsOK'
  <2>1. RequestOK(r)'
    BY <1>1, <1>2 DEF RequestOK, Exists
  <2>2. ASSUME NEW q \in Requests \ {r}
        PROVE  RequestOK(q)'
    BY <1>1, <1>2 DEF RequestsOK, RequestOK, Exists, OtherSlots
  <2>. QED  BY <2>1, <2>2 DEF RequestsOK
<1>5. OneCreator'
  BY <1>1 DEF OneCreator, Creating, OtherSlots
<1>6. JobsOK' /\ WorkerOK' /\ HistoryBegins'
  BY <1>2 DEF JobsOK, WorkerOK, HistoryBegins, Exists
<1>7. NoStrandedOrder'
  BY <1>1, <1>2 DEF NoStrandedOrder, Waiting, Minding, Exists, Scheduled, OtherSlots
<1>. QED  BY <1>3, <1>4, <1>5, <1>6, <1>7

-----------------------------------------------------------------------------
(* create *)

LEMMA CreateStartPreserves ==
  ASSUME CoreInv, NEW r \in Requests, CreateStart(r), UNCHANGED <<worker, crashes>>
  PROVE  CoreInv'
<1>. USE DEF CoreInv
<1>1. PICK o \in Orders, type \in TypeInputs, dt \in DeliveryInputs :
        /\ ~ Exists(o) /\ \A q \in Requests : ~ Creating(q, o)
        /\ Begin(r, [pc |-> "createTx", order |-> o,
                     row |-> [status |-> "PENDING", type |-> type, deliveryType |-> dt],
                     seen |-> "ABSENT", target |-> "ABSENT", by |-> "create"])
        /\ UNCHANGED <<storeVars, job, faults>>
  BY DEF CreateStart
<1>. DEFINE row == [status |-> "PENDING", type |-> type, deliveryType |-> dt]
            h   == [pc |-> "createTx", order |-> o, row |-> row,
                    seen |-> "ABSENT", target |-> "ABSENT", by |-> "create"]
<1>2. row \in Rows /\ row.status = "PENDING"
  BY DEF Rows, Statuses
<1>3. h \in Handlers
  BY <1>2 DEF Handlers, Pcs, Writers
<1>4. h.pc = "createTx" /\ h.order = o /\ h.row = row
  OBVIOUS
<1>. HIDE DEF row, h
<1>5. Begin(r, h)
  BY <1>1 DEF h, row
<1>6. ServiceTypeOK' /\ req[r].pc = "idle" /\ req'[r] = h /\ OtherSlots(r)
  BY <1>3, <1>5, BeginLemma DEF TypeOK
<1>7. UNCHANGED <<orders, history, due, announced, job, faults, worker, crashes>>
  BY <1>1 DEF storeVars
<1>8. TypeOK'
  BY <1>6, <1>7 DEF TypeOK, StoreTypeOK, QueueTypeOK, FaultsTypeOK, WorkerTypeOK
<1>9. job[o].state = "none"
  BY <1>1 DEF JobsOK
<1>10. RequestsOK'
  BY <1>1, <1>2, <1>4, <1>6, <1>7, <1>9 DEF RequestsOK, RequestOK, Exists, OtherSlots
<1>11. OneCreator'
  BY <1>1, <1>4, <1>6 DEF OneCreator, Creating, OtherSlots
<1>12. JobsOK' /\ WorkerOK' /\ HistoryBegins'
  BY <1>7 DEF JobsOK, WorkerOK, HistoryBegins, Exists
<1>13. NoStrandedOrder'
  BY <1>6, <1>7 DEF NoStrandedOrder, Waiting, Minding, Exists, Scheduled, OtherSlots
<1>. QED  BY <1>8, <1>10, <1>11, <1>12, <1>13

LEMMA CreateTxPreserves ==
  ASSUME CoreInv, NEW r \in Requests, CreateTx(r), UNCHANGED <<worker, crashes>>
  PROVE  CoreInv'
<1>. USE DEF CoreInv
<1>1. PICK o \in Orders, row \in Rows :
        /\ o = req[r].order /\ row = req[r].row /\ req[r].pc = "createTx"
        /\ ~ Exists(o) /\ row.status = "PENDING" /\ job[o].state = "none" /\ Creating(r, o)
  BY DEF CreateTx, RequestsOK, RequestOK, Creating
<1>2. UNCHANGED <<due, announced, job, worker, crashes>>
  BY DEF CreateTx
<1>3. CASE InsertTx(o, row) /\ NoFault
             /\ Goto(r, IF row.type = "SCHEDULED" THEN "enqueue" ELSE "announceCreated")
  <2>. DEFINE pc == IF row.type = "SCHEDULED" THEN "enqueue" ELSE "announceCreated"
  <2>1. pc \in Pcs /\ pc \in {"enqueue", "announceCreated"} /\ (row.type = "SCHEDULED" => pc = "enqueue")
    BY DEF Pcs
  <2>. HIDE DEF pc
  <2>2. /\ orders' \in [Orders -> Rows \cup {Absent}]
        /\ history' \in [Orders -> Seq(Entries)]
        /\ Exists(o)' /\ orders'[o] = row
        /\ \A p \in Orders \ {o} : orders'[p] = orders[p]
        /\ HistoryBegins'
    BY <1>1, <1>3, InsertTxLemma DEF TypeOK
  <2>3. /\ ServiceTypeOK' /\ OtherSlots(r)
        /\ req'[r].pc = pc /\ req'[r].order = o
    BY <1>1, <1>3, <2>1, GotoLemma DEF TypeOK, pc
  <2>4. TypeOK'
    BY <1>2, <1>3, <2>2, <2>3 DEF TypeOK, StoreTypeOK, QueueTypeOK, FaultsTypeOK, WorkerTypeOK, NoFault
  <2>5. \A q \in Requests \ {r} : ~ Creating(q, o)
    BY <1>1 DEF OneCreator
  <2>6. RequestsOK'
    <3>1. RequestOK(r)'
      BY <1>1, <1>2, <2>1, <2>2, <2>3 DEF RequestOK, Exists
    <3>2. ASSUME NEW q \in Requests \ {r}
          PROVE  RequestOK(q)'
      BY <1>2, <2>2, <2>3, <2>5 DEF RequestsOK, RequestOK, Creating, Exists, OtherSlots
    <3>. QED  BY <3>1, <3>2 DEF RequestsOK
  <2>7. OneCreator'
    BY <1>1, <2>1, <2>3, <2>5 DEF OneCreator, Creating, OtherSlots
  <2>8. JobsOK'
    BY <1>1, <1>2, <2>2 DEF JobsOK, Exists
  <2>9. WorkerOK'
    BY <1>1, <1>2, <2>2 DEF WorkerOK, Exists
  <2>10. NoStrandedOrder'
    <3>. SUFFICES ASSUME faults' = 0, crashes' = 0, NEW p \in Orders, Waiting(p)'
                  PROVE  job'[p].state \in Live \/ \E q \in Requests : Minding(q, p)'
      BY DEF NoStrandedOrder
    <3>1. CASE p = o
      <4>1. Minding(r, p)'
        BY <3>1, <2>1, <2>2, <2>3 DEF Waiting, Scheduled, Minding
      <4>. QED  BY <4>1
    <3>2. CASE p # o
      <4>1. Waiting(p) /\ faults = 0 /\ crashes = 0
        BY <1>2, <1>3, <2>2, <3>2 DEF Waiting, Exists, Scheduled, NoFault
      <4>2. CASE job[p].state \in Live
        BY <1>2, <4>2
      <4>3. ASSUME NEW q \in Requests, Minding(q, p)
            PROVE  Minding(q, p)'
        BY <1>1, <2>3, <4>3 DEF Minding, OtherSlots
      <4>. QED  BY <4>1, <4>2, <4>3 DEF NoStrandedOrder
    <3>. QED  BY <3>1, <3>2
  <2>. QED  BY <2>2, <2>4, <2>6, <2>7, <2>8, <2>9, <2>10
<1>4. CASE Fault("createTx") /\ End(r) /\ UNCHANGED <<orders, history>>
  BY <1>2, <1>4, FailedHandlerLemma
<1>5. CASE Fault("createTxAnswer") /\ InsertTx(o, row) /\ End(r)
  <2>1. /\ orders' \in [Orders -> Rows \cup {Absent}]
        /\ history' \in [Orders -> Seq(Entries)]
        /\ Exists(o)'
        /\ \A p \in Orders \ {o} : orders'[p] = orders[p]
        /\ HistoryBegins'
    BY <1>1, <1>5, InsertTxLemma DEF TypeOK
  <2>2. ASSUME NEW p \in Orders
        PROVE  /\ Exists(p) => Exists(p)'
               /\ Exists(p)' => Exists(p) \/ (Creating(r, p) /\ job[p].state = "none")
               /\ (Exists(p) /\ orders[p].status # "PENDING") => orders'[p].status # "PENDING"
    <3>1. CASE p = o
      BY <1>1, <2>1, <3>1
    <3>2. CASE p # o
      <4>1. orders'[p] = orders[p]
        BY <2>1, <3>2
      <4>2. Exists(p)' <=> Exists(p)
        BY <4>1 DEF Exists
      <4>. QED  BY <4>1, <4>2
    <3>. QED  BY <3>1, <3>2
  <2>. QED  BY <1>2, <1>5, <2>1, <2>2, LostAnswerLemma
<1>. QED  BY <1>1, <1>3, <1>4, <1>5 DEF CreateTx

LEMMA CreateEnqueuePreserves ==
  ASSUME CoreInv, NEW r \in Requests, CreateEnqueue(r), UNCHANGED <<worker, crashes>>
  PROVE  CoreInv'
<1>. USE DEF CoreInv
<1>1. PICK o \in Orders :
        o = req[r].order /\ req[r].pc = "enqueue" /\ Exists(o) /\ job[o].state = "none"
  BY DEF CreateEnqueue, RequestsOK, RequestOK
<1>2. UNCHANGED <<orders, history, due, announced, worker, crashes>>
  BY DEF CreateEnqueue, storeVars
<1>3. CASE AddJob(o) /\ ((Goto(r, "announceCreated") /\ NoFault)
                               \/ (Fault("enqueueAnswer") /\ End(r)))
  <2>1. PICK st \in {"waiting", "delayed"} : job' = [job EXCEPT ![o].state = st]
    BY <1>3 DEF AddJob
  <2>2. /\ QueueTypeOK' /\ OtherJobs(o)
        /\ job'[o].state = st /\ job'[o].attempts = job[o].attempts
        /\ job'[o].unanswered = job[o].unanswered
    BY <2>1, SetJobStateLemma DEF TypeOK, JobStates
  <2>3. /\ ServiceTypeOK' /\ OtherSlots(r)
        /\ \/ req'[r].pc = "announceCreated" /\ req'[r].order = o
           \/ req'[r].pc = "idle"
    BY <1>1, <1>3, GotoLemma, EndLemma DEF TypeOK, Pcs
  <2>4. faults' \in 0 .. MaxFaults /\ (faults' = 0 => faults = 0)
    BY <1>3 DEF TypeOK, FaultsTypeOK, NoFault, Fault
  <2>5. TypeOK'
    BY <1>2, <2>2, <2>3, <2>4 DEF TypeOK, StoreTypeOK, FaultsTypeOK, WorkerTypeOK
  <2>6. \A q \in Requests \ {r} : ~ Creating(q, o)
    BY <1>1 DEF OneCreator, Creating
  <2>7. RequestsOK'
    <3>1. RequestOK(r)'
      BY <1>1, <1>2, <2>3 DEF RequestOK, Exists
    <3>2. ASSUME NEW q \in Requests \ {r}
          PROVE  RequestOK(q)'
      BY <1>2, <2>2, <2>3, <2>6 DEF RequestsOK, RequestOK, Creating, Exists, OtherSlots, OtherJobs
    <3>. QED  BY <3>1, <3>2 DEF RequestsOK
  <2>8. OneCreator'
    BY <2>3 DEF OneCreator, Creating, OtherSlots
  <2>9. JobsOK'
    BY <1>1, <1>2, <2>2 DEF JobsOK, Exists, OtherJobs
  <2>10. WorkerOK'
    BY <1>1, <1>2, <2>2 DEF WorkerOK, Exists, OtherJobs
  <2>11. HistoryBegins'
    BY <1>2 DEF HistoryBegins, Exists
  <2>12. NoStrandedOrder'
    <3>. SUFFICES ASSUME faults' = 0, crashes' = 0, NEW p \in Orders, Waiting(p)'
                  PROVE  job'[p].state \in Live \/ \E q \in Requests : Minding(q, p)'
      BY DEF NoStrandedOrder
    <3>1. CASE p = o
      BY <3>1, <2>2 DEF Live, Listed
    <3>2. CASE p # o
      <4>1. Waiting(p) /\ faults = 0 /\ crashes = 0
        BY <1>2, <2>4 DEF Waiting, Exists, Scheduled
      <4>2. CASE job[p].state \in Live
        BY <2>2, <3>2, <4>2 DEF OtherJobs
      <4>3. ASSUME NEW q \in Requests, Minding(q, p)
            PROVE  Minding(q, p)'
        BY <1>1, <2>3, <3>2, <4>3 DEF Minding, OtherSlots
      <4>. QED  BY <4>1, <4>2, <4>3 DEF NoStrandedOrder
    <3>. QED  BY <3>1, <3>2
  <2>. QED  BY <2>5, <2>7, <2>8, <2>9, <2>10, <2>11, <2>12
<1>4. CASE Fault("enqueue") /\ End(r) /\ UNCHANGED job
  BY <1>2, <1>4, FailedHandlerLemma
<1>5. \/ AddJob(o) /\ Goto(r, "announceCreated") /\ NoFault
      \/ Fault("enqueue") /\ End(r) /\ UNCHANGED job
      \/ Fault("enqueueAnswer") /\ AddJob(o) /\ End(r)
  BY <1>1 DEF CreateEnqueue
<1>. QED  BY <1>3, <1>4, <1>5

LEMMA CreateAnnouncePreserves ==
  ASSUME CoreInv, NEW r \in Requests, CreateAnnounce(r), UNCHANGED <<worker, crashes>>
  PROVE  CoreInv'
<1>1. PICK o \in Orders : o = req[r].order /\ req[r].pc = "announceCreated"
  BY DEF CoreInv, CreateAnnounce, RequestsOK, RequestOK
<1>2. announced' \in [Orders -> Seq(Statuses)]
  BY <1>1, AnnounceLemma, "PENDING" \in Statuses DEF CoreInv, TypeOK, CreateAnnounce, Statuses
<1>. QED
  BY <1>1, <1>2, EndOfHandlerLemma DEF CreateAnnounce, Minding

-----------------------------------------------------------------------------
(* updateStatus *)

LEMMA UpdateStartPreserves ==
  ASSUME CoreInv, NEW r \in Requests, UpdateStart(r), UNCHANGED <<worker, crashes>>
  PROVE  CoreInv'
<1>1. PICK o \in Orders, target \in UpdateInputs :
        /\ Exists(o) /\ UpdateAccepts(orders[o].status, target)
        /\ Begin(r, [pc |-> "updateTx", order |-> o, row |-> Absent,
                     seen |-> orders[o].status, target |-> target, by |-> "staff"])
        /\ UNCHANGED <<storeVars, job, faults>>
  BY DEF UpdateStart
<1>2. orders[o].status \in Statuses
  BY <1>1 DEF CoreInv, TypeOK, StoreTypeOK, Exists, Rows
<1>. DEFINE h == [pc |-> "updateTx", order |-> o, row |-> Absent,
                  seen |-> orders[o].status, target |-> target, by |-> "staff"]
<1>3. h \in Handlers
  BY <1>2 DEF Handlers, Pcs, Writers
<1>4. PICK g \in Handlers :
        /\ g = h /\ g.pc = "updateTx" /\ g.order = o
        /\ g.seen \in Statuses /\ g.target \in ValidTransitions[g.seen]
  BY <1>1, <1>2, <1>3 DEF UpdateAccepts
<1>5. Begin(r, g) /\ UNCHANGED <<storeVars, job, faults>>
  BY <1>1, <1>4
<1>. QED
  BY <1>1, <1>4, <1>5, NewHandlerLemma

LEMMA UpdateTxPreserves ==
  ASSUME CoreInv, NEW r \in Requests, UpdateTx(r), UNCHANGED <<worker, crashes>>
  PROVE  CoreInv'
<1>. USE DEF CoreInv
<1>1. PICK o \in Orders, s \in Statuses, by \in Writers :
        /\ o = req[r].order /\ s = req[r].target /\ by = req[r].by
        /\ req[r].pc = "updateTx" /\ Exists(o) /\ s # "PENDING"
  BY TransitionsLemma DEF UpdateTx, RequestsOK, RequestOK, TypeOK, ServiceTypeOK, Handlers
<1>2. UNCHANGED <<due, announced, job, worker, crashes>>
  BY DEF UpdateTx
<1>3. CASE StatusTx(o, s, by) /\ Goto(r, "announceUpdated") /\ NoFault
  <2>1. /\ orders' \in [Orders -> Rows \cup {Absent}]
        /\ history' \in [Orders -> Seq(Entries)]
        /\ Exists(o)' /\ orders'[o].status = s
        /\ \A p \in Orders \ {o} : orders'[p] = orders[p]
        /\ HistoryBegins'
    BY <1>1, <1>3, StatusTxLemma DEF TypeOK
  <2>2. /\ ServiceTypeOK' /\ OtherSlots(r)
        /\ req'[r].pc = "announceUpdated" /\ req'[r].order = o /\ req'[r].target = s
    BY <1>1, <1>3, GotoLemma DEF TypeOK, Pcs
  <2>3. TypeOK'
    BY <1>2, <1>3, <2>1, <2>2 DEF TypeOK, StoreTypeOK, QueueTypeOK, FaultsTypeOK, WorkerTypeOK, NoFault
  <2>4. \A p \in Orders : Exists(p)' <=> Exists(p)
    BY <1>1, <2>1 DEF Exists
  <2>5. RequestsOK'
    <3>1. RequestOK(r)'
      BY <1>1, <2>1, <2>2 DEF RequestOK, Exists
    <3>2. ASSUME NEW q \in Requests \ {r}
          PROVE  RequestOK(q)'
      BY <1>2, <2>2, <2>4 DEF RequestsOK, RequestOK, Exists, OtherSlots
    <3>. QED  BY <3>1, <3>2 DEF RequestsOK
  <2>6. OneCreator'
    BY <2>2 DEF OneCreator, Creating, OtherSlots
  <2>7. JobsOK'
    BY <1>2, <2>4 DEF JobsOK
  <2>8. WorkerOK'
    BY <1>1, <1>2, <2>1, <2>4 DEF WorkerOK
  <2>9. NoStrandedOrder'
    <3>. SUFFICES ASSUME faults' = 0, crashes' = 0, NEW p \in Orders, Waiting(p)'
                  PROVE  job'[p].state \in Live \/ \E q \in Requests : Minding(q, p)'
      BY DEF NoStrandedOrder
    <3>1. p # o
      BY <1>1, <2>1 DEF Waiting
    <3>2. Waiting(p) /\ faults = 0 /\ crashes = 0
      BY <1>2, <1>3, <2>1, <3>1 DEF Waiting, Exists, Scheduled, NoFault
    <3>3. CASE job[p].state \in Live
      BY <1>2, <3>3
    <3>4. ASSUME NEW q \in Requests, Minding(q, p)
          PROVE  Minding(q, p)'
      BY <1>1, <2>2, <3>1, <3>4 DEF Minding, OtherSlots
    <3>. QED  BY <3>2, <3>3, <3>4 DEF NoStrandedOrder
  <2>. QED  BY <2>1, <2>3, <2>5, <2>6, <2>7, <2>8, <2>9
<1>4. CASE Fault("updateTx") /\ End(r) /\ UNCHANGED <<orders, history>>
  BY <1>2, <1>4, FailedHandlerLemma
<1>5. CASE Fault("updateTxAnswer") /\ End(r) /\ StatusTx(o, s, by)
  <2>1. /\ orders' \in [Orders -> Rows \cup {Absent}]
        /\ history' \in [Orders -> Seq(Entries)]
        /\ Exists(o)' /\ orders'[o].status = s
        /\ \A p \in Orders \ {o} : orders'[p] = orders[p]
        /\ HistoryBegins'
    BY <1>1, <1>5, StatusTxLemma DEF TypeOK
  <2>2. ASSUME NEW p \in Orders
        PROVE  /\ Exists(p)' <=> Exists(p)
               /\ orders[p].status # "PENDING" => orders'[p].status # "PENDING"
    BY <1>1, <2>1 DEF Exists
  <2>. QED  BY <1>2, <1>5, <2>1, <2>2, LostAnswerLemma
<1>. QED  BY <1>1, <1>3, <1>4, <1>5 DEF UpdateTx

LEMMA UpdateAnnouncePreserves ==
  ASSUME CoreInv, NEW r \in Requests, UpdateAnnounce(r), UNCHANGED <<worker, crashes>>
  PROVE  CoreInv'
<1>1. PICK o \in Orders, s \in Statuses :
        o = req[r].order /\ s = req[r].target /\ req[r].pc = "announceUpdated"
  BY DEF CoreInv, UpdateAnnounce, RequestsOK, RequestOK
<1>2. announced' \in [Orders -> Seq(Statuses)]
  BY <1>1, AnnounceLemma DEF CoreInv, TypeOK, UpdateAnnounce
<1>. QED
  BY <1>1, <1>2, EndOfHandlerLemma DEF UpdateAnnounce, Minding

-----------------------------------------------------------------------------
(* cancel *)

LEMMA CancelStartPreserves ==
  ASSUME CoreInv, NEW r \in Requests, CancelStart(r), UNCHANGED <<worker, crashes>>
  PROVE  CoreInv'
<1>1. PICK o \in Orders :
        /\ Exists(o)
        /\ Begin(r, [pc |-> IF Scheduled(o) THEN "findJob" ELSE "revalidate",
                     order |-> o, row |-> Absent,
                     seen |-> "ABSENT", target |-> "ABSENT", by |-> "customer"])
        /\ UNCHANGED <<storeVars, job, faults>>
  BY DEF CancelStart
<1>2. PICK pc \in {"findJob", "revalidate"} :
        pc = IF Scheduled(o) THEN "findJob" ELSE "revalidate"
  OBVIOUS
<1>. DEFINE h == [pc |-> pc, order |-> o, row |-> Absent,
                  seen |-> "ABSENT", target |-> "ABSENT", by |-> "customer"]
<1>3. h \in Handlers
  BY <1>2 DEF Handlers, Pcs, Writers
<1>4. PICK g \in Handlers : g = h /\ g.pc = pc /\ g.order = o /\ g.by = "customer"
  BY <1>3
<1>5. Begin(r, g)
  BY <1>1, <1>2, <1>4
<1>. QED
  BY <1>1, <1>2, <1>4, <1>5, NewHandlerLemma

\* A handler of cancel goes on to its next call, with the job as it is.
LEMMA CancelGoesOnLemma ==
  ASSUME CoreInv, NEW r \in Requests, NEW pc \in {"removeJob", "revalidate"}, Goto(r, pc),
         req[r].pc = "findJob", pc = "removeJob" => job[req[r].order].state # "none",
         UNCHANGED <<orders, history, due, announced, job, faults, worker, crashes>>
  PROVE  CoreInv'
<1>. USE DEF CoreInv
<1>1. /\ ServiceTypeOK' /\ OtherSlots(r) /\ req'[r].pc = pc
      /\ req'[r].order = req[r].order /\ req'[r].by = "customer"
  BY GotoLemma DEF TypeOK, Pcs, RequestsOK, RequestOK
<1>2. TypeOK'
  BY <1>1 DEF TypeOK, StoreTypeOK, QueueTypeOK, FaultsTypeOK, WorkerTypeOK
<1>3. RequestsOK' /\ OneCreator'
  BY <1>1 DEF RequestsOK, RequestOK, OneCreator, Creating, Exists, OtherSlots
<1>4. JobsOK' /\ WorkerOK' /\ HistoryBegins'
  BY DEF JobsOK, WorkerOK, HistoryBegins, Exists
<1>5. NoStrandedOrder'
  BY <1>1 DEF NoStrandedOrder, Waiting, Minding, Exists, Scheduled, OtherSlots
<1>. QED  BY <1>2, <1>3, <1>4, <1>5

LEMMA CancelFindJobPreserves ==
  ASSUME CoreInv, NEW r \in Requests, CancelFindJob(r), UNCHANGED <<worker, crashes>>
  PROVE  CoreInv'
<1>1. /\ req[r].pc = "findJob"
      /\ UNCHANGED <<orders, history, due, announced, job, worker, crashes>>
  BY DEF CancelFindJob, storeVars
<1>2. PICK pc \in {"removeJob", "revalidate"} :
        pc = IF job[req[r].order].state \in Listed THEN "removeJob" ELSE "revalidate"
  OBVIOUS
<1>3. CASE Goto(r, pc) /\ NoFault
  BY <1>1, <1>2, <1>3, CancelGoesOnLemma DEF NoFault, Listed
<1>4. CASE Fault("findJob") /\ End(r)
  BY <1>1, <1>4, FailedHandlerLemma
<1>. QED  BY <1>2, <1>3, <1>4 DEF CancelFindJob

LEMMA CancelRemoveJobPreserves ==
  ASSUME CoreInv, NEW r \in Requests, CancelRemoveJob(r), UNCHANGED <<worker, crashes>>
  PROVE  CoreInv'
<1>. USE DEF CoreInv
<1>1. PICK o \in Orders :
        o = req[r].order /\ req[r].pc = "removeJob" /\ req[r].by = "customer" /\ Exists(o)
  BY DEF CancelRemoveJob, RequestsOK, RequestOK
<1>2. UNCHANGED <<orders, history, due, announced, worker, crashes>>
  BY DEF CancelRemoveJob, storeVars
<1>3. CASE Removable(o) /\ DropJob(o) /\ Goto(r, "revalidate") /\ NoFault
  <2>1. /\ QueueTypeOK' /\ job'[o].state = "removed" /\ OtherJobs(o)
        /\ job'[o].attempts = job[o].attempts /\ job'[o].unanswered = job[o].unanswered
    BY <1>3, SetJobStateLemma, "removed" \in JobStates DEF TypeOK, DropJob, JobStates
  <2>2. /\ ServiceTypeOK' /\ OtherSlots(r)
        /\ req'[r].pc = "revalidate" /\ req'[r].order = o /\ req'[r].by = "customer"
    BY <1>1, <1>3, GotoLemma DEF TypeOK, Pcs
  <2>3. TypeOK'
    BY <1>2, <1>3, <2>1, <2>2 DEF TypeOK, StoreTypeOK, FaultsTypeOK, WorkerTypeOK, NoFault
  <2>4. RequestsOK'
    <3>1. RequestOK(r)'
      BY <1>1, <1>2, <2>1, <2>2 DEF RequestOK, Exists
    <3>2. ASSUME NEW q \in Requests \ {r}
          PROVE  RequestOK(q)'
      BY <1>1, <1>2, <2>1, <2>2 DEF RequestsOK, RequestOK, Exists, OtherSlots, OtherJobs
    <3>. QED  BY <3>1, <3>2 DEF RequestsOK
  <2>5. OneCreator'
    BY <2>2 DEF OneCreator, Creating, OtherSlots
  <2>6. JobsOK'
    BY <1>1, <1>2, <2>1 DEF JobsOK, Exists, OtherJobs, Live, Listed
  <2>7. WorkerOK'
    BY <1>2, <1>3, <2>1 DEF WorkerOK, Exists, OtherJobs, Removable
  <2>8. HistoryBegins'
    BY <1>2 DEF HistoryBegins, Exists
  <2>9. NoStrandedOrder'
    <3>. SUFFICES ASSUME faults' = 0, crashes' = 0, NEW p \in Orders, Waiting(p)'
                  PROVE  job'[p].state \in Live \/ \E q \in Requests : Minding(q, p)'
      BY DEF NoStrandedOrder
    <3>1. CASE p = o
      <4>1. Minding(r, p)'
        BY <3>1, <2>2 DEF Minding
      <4>. QED  BY <4>1
    <3>2. CASE p # o
      <4>1. Waiting(p) /\ faults = 0 /\ crashes = 0
        BY <1>2, <1>3 DEF Waiting, Exists, Scheduled, NoFault
      <4>2. CASE job[p].state \in Live
        BY <2>1, <3>2, <4>2 DEF OtherJobs
      <4>3. ASSUME NEW q \in Requests, Minding(q, p)
            PROVE  Minding(q, p)'
        BY <1>1, <2>2, <3>2, <4>3 DEF Minding, OtherSlots
      <4>. QED  BY <4>1, <4>2, <4>3 DEF NoStrandedOrder
    <3>. QED  BY <3>1, <3>2
  <2>. QED  BY <2>3, <2>4, <2>5, <2>6, <2>7, <2>8, <2>9
<1>4. CASE ~ Removable(o) /\ End(r) /\ UNCHANGED job /\ NoFault
  <2>1. announced' \in [Orders -> Seq(Statuses)]
    BY <1>2 DEF TypeOK, StoreTypeOK
  <2>. QED  BY <1>1, <1>2, <1>4, <2>1, EndOfHandlerLemma DEF Minding, NoFault
<1>5. CASE Fault("removeJob") /\ End(r) /\ UNCHANGED job
  BY <1>2, <1>5, FailedHandlerLemma
<1>. QED  BY <1>1, <1>3, <1>4, <1>5 DEF CancelRemoveJob

\* cancel's second read, and the table's answer to CANCELLED.
LEMMA CancelRevalidatePreserves ==
  ASSUME CoreInv, NEW r \in Requests, CancelRevalidate(r), UNCHANGED <<worker, crashes>>
  PROVE  CoreInv'
<1>. USE DEF CoreInv
<1>1. PICK o \in Orders :
        o = req[r].order /\ req[r].pc = "revalidate" /\ req[r].by = "customer" /\ Exists(o)
  BY DEF CancelRevalidate, RequestsOK, RequestOK
<1>2. UNCHANGED <<orders, history, due, announced, job, worker, crashes>>
  BY DEF CancelRevalidate, storeVars
<1>3. PICK seen \in Statuses : seen = orders[o].status
  BY <1>1 DEF TypeOK, StoreTypeOK, Exists, Rows
<1>4. CASE /\ UpdateAccepts(seen, "CANCELLED")
           /\ req' = [req EXCEPT ![r] = [@ EXCEPT !.pc = "updateTx", !.seen = seen,
                                                !.target = "CANCELLED"]]
           /\ UNCHANGED started
           /\ NoFault
  <2>1. req[r] \in Handlers
    BY DEF TypeOK, ServiceTypeOK
  <2>. DEFINE h == [req[r] EXCEPT !.pc = "updateTx", !.seen = seen, !.target = "CANCELLED"]
  <2>2. /\ h \in Handlers
        /\ h.pc = "updateTx" /\ h.seen = seen /\ h.target = "CANCELLED"
        /\ h.order = o /\ h.by = "customer"
    BY <1>1, <2>1 DEF Handlers, Pcs, Statuses
  <2>3. req'[r] = h /\ req' = [req EXCEPT ![r] = h]
    BY <1>4 DEF TypeOK, ServiceTypeOK
  <2>. HIDE DEF h
  <2>4. ServiceTypeOK' /\ OtherSlots(r)
    BY <1>4, <2>2, <2>3 DEF TypeOK, ServiceTypeOK, OtherSlots
  <2>5. TypeOK'
    BY <1>2, <1>4, <2>4 DEF TypeOK, StoreTypeOK, QueueTypeOK, FaultsTypeOK, WorkerTypeOK, NoFault
  <2>6. RequestsOK'
    <3>1. RequestOK(r)'
      BY <1>1, <1>2, <1>4, <2>2, <2>3 DEF RequestOK, Exists, UpdateAccepts
    <3>2. ASSUME NEW q \in Requests \ {r}
          PROVE  RequestOK(q)'
      BY <1>2, <2>4 DEF RequestsOK, RequestOK, Exists, OtherSlots
    <3>. QED  BY <3>1, <3>2 DEF RequestsOK
  <2>7. OneCreator'
    BY <2>2, <2>3, <2>4 DEF OneCreator, Creating, OtherSlots
  <2>8. JobsOK' /\ WorkerOK' /\ HistoryBegins'
    BY <1>2 DEF JobsOK, WorkerOK, HistoryBegins, Exists
  <2>9. NoStrandedOrder'
    BY <1>1, <1>2, <1>4, <2>2, <2>3, <2>4
       DEF NoStrandedOrder, Waiting, Minding, Exists, Scheduled, OtherSlots, NoFault
  <2>. QED  BY <2>5, <2>6, <2>7, <2>8, <2>9
<1>5. CASE ~ UpdateAccepts(seen, "CANCELLED") /\ End(r) /\ NoFault
  <2>1. orders[o].status # "PENDING"
    BY <1>3, <1>5, TransitionsLemma DEF UpdateAccepts
  <2>2. announced' \in [Orders -> Seq(Statuses)]
    BY <1>2 DEF TypeOK, StoreTypeOK
  <2>. QED  BY <1>1, <1>2, <1>5, <2>1, <2>2, EndOfHandlerLemma DEF Minding, Waiting, NoFault
<1>6. CASE Fault("revalidate") /\ End(r)
  BY <1>2, <1>6, FailedHandlerLemma
<1>. QED  BY <1>1, <1>3, <1>4, <1>5, <1>6 DEF CancelRevalidate

-----------------------------------------------------------------------------
(* The worker and the queue *)

\* Steps that leave the requests and the orders alone keep what the handlers
\* rely on, as long as no job that exists is forgotten.
LEMMA RequestsFrameLemma ==
  ASSUME CoreInv, UNCHANGED <<orders, req>>, NEW o \in Orders,
         job[o].state # "none", job'[o].state # "none", OtherJobs(o)
  PROVE  RequestsOK' /\ OneCreator'
BY DEF CoreInv, RequestsOK, RequestOK, OneCreator, Creating, Exists, OtherJobs

\* A step that leaves the requests and the rows alone keeps every scheduled
\* order looked after if it changes one job only, and that job stays live or
\* its order is not waiting, or a failure is counted.
LEMMA StrandedFrameLemma ==
  ASSUME CoreInv, UNCHANGED <<orders, req>>, NEW o \in Orders, OtherJobs(o),
         (faults' = 0 /\ crashes' = 0) =>
           /\ faults = 0 /\ crashes = 0
           /\ job'[o].state \in Live \/ orders[o].status # "PENDING"
  PROVE  NoStrandedOrder'
<1>. SUFFICES ASSUME faults' = 0, crashes' = 0, NEW p \in Orders, Waiting(p)'
              PROVE  job'[p].state \in Live \/ \E q \in Requests : Minding(q, p)'
  BY DEF NoStrandedOrder
<1>1. Waiting(p) /\ faults = 0 /\ crashes = 0
  BY DEF Waiting, Exists, Scheduled
<1>2. CASE p = o
  BY <1>1, <1>2 DEF Waiting
<1>3. CASE p # o
  <2>1. job'[p] = job[p] /\ \A q \in Requests : Minding(q, p)' <=> Minding(q, p)
    BY <1>3 DEF OtherJobs, Minding
  <2>. QED  BY <1>1, <2>1 DEF CoreInv, NoStrandedOrder
<1>. QED  BY <1>2, <1>3

LEMMA TakePreserves ==
  ASSUME CoreInv, NEW o \in Orders, Take(o)
  PROVE  CoreInv'
<1>. USE DEF CoreInv
<1>1. /\ worker = IdleWorker /\ job[o].state = "waiting"
      /\ job' = [job EXCEPT ![o].state = "active"]
      /\ worker' = [pc |-> "read", order |-> o, seen |-> "ABSENT"]
      /\ UNCHANGED <<orders, history, due, announced, faults, req, started, crashes>>
  BY DEF Take, WorkerTake, TakeJob, storeVars, serviceVars
<1>2. /\ QueueTypeOK' /\ job'[o].state = "active" /\ job'[o].attempts = job[o].attempts
      /\ job'[o].unanswered = job[o].unanswered /\ OtherJobs(o)
  BY <1>1, SetJobStateLemma DEF TypeOK, JobStates
<1>3. WorkerTypeOK' /\ worker'.pc = "read" /\ worker'.order = o
  BY <1>1 DEF WorkerTypeOK, WorkerPcs
<1>4. TypeOK'
  BY <1>1, <1>2, <1>3 DEF TypeOK, StoreTypeOK, FaultsTypeOK, ServiceTypeOK
<1>5. RequestsOK' /\ OneCreator'
  BY <1>1, <1>2, RequestsFrameLemma
<1>6. worker.order = NoOrder
  BY <1>1 DEF IdleWorker
<1>7. JobsOK'
  BY <1>1, <1>2, <1>3, <1>6 DEF JobsOK, Exists, OtherJobs, Live, Listed
<1>8. WorkerOK'
  BY <1>1, <1>2, <1>3 DEF WorkerOK, JobsOK, Exists, IdleWorker
<1>9. HistoryBegins'
  BY <1>1 DEF HistoryBegins, Exists
<1>10. NoStrandedOrder'
  BY <1>1, <1>2, StrandedFrameLemma DEF Live
<1>. QED  BY <1>4, <1>5, <1>7, <1>8, <1>9, <1>10

\* The processor throws, whether or not its transaction had been committed: its
\* job waits for another attempt or has failed.
LEMMA WorkerFailsLemma ==
  ASSUME CoreInv, NEW o \in Orders, o = worker.order, job[o].state = "active",
         worker' = IdleWorker, faults' \in 1 .. MaxFaults,
         FailJob(o) \/ FailUnanswered(o),
         UNCHANGED <<due, announced, req, started, crashes>>,
         orders' \in [Orders -> Rows \cup {Absent}],
         history' \in [Orders -> Seq(Entries)],
         HistoryBegins',
         \A p \in Orders : Exists(p)' <=> Exists(p)
  PROVE  CoreInv'
<1>. USE DEF CoreInv
<1>1. job[o].attempts < JobAttempts /\ job[o].unanswered <= job[o].attempts /\ job[o] \in Jobs
  BY DEF JobsOK, Live, TypeOK, QueueTypeOK
<1>2. /\ QueueTypeOK' /\ OtherJobs(o)
      /\ job'[o].state \in {"backoff", "failed"}
      /\ job'[o].state = "backoff" => job'[o].attempts < JobAttempts
      /\ job'[o].unanswered <= job'[o].attempts
  <2>1. CASE FailJob(o)
    BY <1>1, <2>1, FailJobLemma DEF TypeOK, Jobs
  <2>2. CASE FailUnanswered(o)
    BY <1>1, <2>2, FailUnansweredLemma DEF TypeOK, Jobs
  <2>. QED  BY <2>1, <2>2
<1>3. worker'.pc = "idle" /\ WorkerTypeOK'
  BY DEF IdleWorker, WorkerTypeOK, WorkerPcs
<1>4. TypeOK'
  BY <1>2, <1>3 DEF TypeOK, StoreTypeOK, FaultsTypeOK, ServiceTypeOK
<1>5. RequestsOK'
  <2>. SUFFICES ASSUME NEW q \in Requests PROVE RequestOK(q)'
    BY DEF RequestsOK
  <2>1. RequestOK(q) /\ req' = req
    BY DEF RequestsOK
  <2>2. req[q].pc # "idle" => /\ Exists(req[q].order)' <=> Exists(req[q].order)
                              /\ job'[req[q].order].state = "none"
                                   <=> job[req[q].order].state = "none"
    BY <1>2, <2>1 DEF RequestOK, OtherJobs
  <2>. QED  BY <2>1, <2>2 DEF RequestOK
<1>6. OneCreator'
  BY DEF OneCreator, Creating
<1>7. JobsOK'
  BY <1>2 DEF JobsOK, OtherJobs, Live, Listed
<1>8. WorkerOK'
  BY <1>3 DEF WorkerOK
<1>9. NoStrandedOrder'
  BY DEF NoStrandedOrder
<1>. QED  BY <1>4, <1>5, <1>6, <1>7, <1>8, <1>9

LEMMA WorkerThrowsLemma ==
  ASSUME CoreInv, WorkerThrows, worker.pc # "idle",
         UNCHANGED <<orders, history, due, announced, req, started, crashes>>,
         faults' \in 1 .. MaxFaults
  PROVE  CoreInv'
<1>1. PICK o \in Orders : o = worker.order /\ job[o].state = "active"
  BY DEF CoreInv, WorkerOK
<1>2. /\ orders' \in [Orders -> Rows \cup {Absent}]
      /\ history' \in [Orders -> Seq(Entries)]
      /\ HistoryBegins'
      /\ \A p \in Orders : Exists(p)' <=> Exists(p)
  BY DEF CoreInv, TypeOK, StoreTypeOK, HistoryBegins, Exists
<1>. QED  BY <1>1, <1>2, WorkerFailsLemma DEF WorkerThrows

LEMMA WorkerReadPreserves ==
  ASSUME CoreInv, WorkerRead, UNCHANGED <<serviceVars, crashes>>
  PROVE  CoreInv'
<1>. USE DEF CoreInv
<1>1. /\ worker.pc = "read" /\ Exists(worker.order) /\ worker.order \in Orders
      /\ UNCHANGED <<orders, history, due, announced, req, started, crashes>>
  BY DEF WorkerRead, WorkerOK, storeVars, serviceVars
<1>2. CASE /\ worker' = [pc    |-> IF Skipped(orders[worker.order].status)
                                   THEN "return" ELSE "releaseTx",
                         order |-> worker.order,
                         seen  |-> orders[worker.order].status]
           /\ UNCHANGED job /\ NoFault
  <2>1. orders[worker.order].status \in Statuses
    BY <1>1 DEF TypeOK, StoreTypeOK, Exists, Rows
  <2>2. /\ WorkerTypeOK' /\ worker'.order = worker.order
        /\ worker'.pc \in {"return", "releaseTx"}
        /\ worker'.pc = "return" => orders[worker.order].status = "CANCELLED"
        /\ worker'.pc = "releaseTx" => worker'.seen # "CANCELLED"
    BY <1>1, <1>2, <2>1 DEF WorkerTypeOK, WorkerPcs, Skipped
  <2>3. faults' = faults /\ job' = job
    BY <1>2 DEF NoFault
  <2>4. TypeOK'
    BY <1>1, <2>2, <2>3 DEF TypeOK, StoreTypeOK, QueueTypeOK, FaultsTypeOK, ServiceTypeOK
  <2>5. RequestsOK' /\ OneCreator' /\ HistoryBegins'
    BY <1>1, <2>3 DEF RequestsOK, RequestOK, OneCreator, Creating, HistoryBegins, Exists
  <2>6. JobsOK'
    BY <1>1, <2>2, <2>3 DEF JobsOK, Exists
  <2>7. WorkerOK'
    BY <1>1, <2>2, <2>3 DEF WorkerOK, Exists, IdleWorker
  <2>8. NoStrandedOrder'
    BY <1>1, <2>3 DEF NoStrandedOrder, Waiting, Minding, Exists, Scheduled
  <2>. QED  BY <2>4, <2>5, <2>6, <2>7, <2>8
<1>3. CASE Fault("workerRead") /\ WorkerThrows
  <2>1. faults' \in 1 .. MaxFaults
    BY <1>3 DEF TypeOK, FaultsTypeOK, Fault
  <2>. QED  BY <1>1, <1>3, <2>1, WorkerThrowsLemma
<1>. QED  BY <1>1, <1>2, <1>3 DEF WorkerRead

LEMMA WorkerReleasePreserves ==
  ASSUME CoreInv, WorkerRelease, UNCHANGED <<serviceVars, crashes>>
  PROVE  CoreInv'
<1>. USE DEF CoreInv
<1>1. PICK o \in Orders : o = worker.order /\ Exists(o) /\ job[o].state = "active"
  BY DEF WorkerRelease, WorkerOK
<1>2. worker.pc = "releaseTx" /\ UNCHANGED <<due, announced, req, started, crashes>>
  BY DEF WorkerRelease, serviceVars
<1>3. CASE StatusTx(o, "PREPARING", "scheduler") /\ WorkerGoto("announce") /\ UNCHANGED job /\ NoFault
  <2>1. /\ orders' \in [Orders -> Rows \cup {Absent}]
        /\ history' \in [Orders -> Seq(Entries)]
        /\ Exists(o)' /\ orders'[o].status = "PREPARING"
        /\ \A p \in Orders \ {o} : orders'[p] = orders[p]
        /\ HistoryBegins'
    BY <1>1, <1>3, StatusTxLemma DEF TypeOK, Statuses, Writers
  <2>2. WorkerTypeOK' /\ worker'.pc = "announce" /\ worker'.order = o
    BY <1>1, <1>3 DEF TypeOK, WorkerTypeOK, WorkerGoto, WorkerPcs
  <2>3. TypeOK'
    BY <1>2, <1>3, <2>1, <2>2 DEF TypeOK, StoreTypeOK, QueueTypeOK, FaultsTypeOK, ServiceTypeOK, NoFault
  <2>4. \A p \in Orders : Exists(p)' <=> Exists(p)
    BY <1>1, <2>1 DEF Exists
  <2>5. RequestsOK' /\ OneCreator'
    BY <1>2, <1>3, <2>4 DEF RequestsOK, RequestOK, OneCreator, Creating, Exists
  <2>6. JobsOK'
    BY <1>1, <1>2, <1>3, <2>2, <2>4 DEF JobsOK
  <2>7. WorkerOK'
    BY <1>1, <1>3, <2>1, <2>2 DEF WorkerOK, IdleWorker
  <2>8. NoStrandedOrder'
    <3>. SUFFICES ASSUME faults' = 0, crashes' = 0, NEW p \in Orders, Waiting(p)'
                  PROVE  job'[p].state \in Live \/ \E q \in Requests : Minding(q, p)'
      BY DEF NoStrandedOrder
    <3>1. Waiting(p) /\ faults = 0 /\ crashes = 0
      BY <1>2, <1>3, <2>1 DEF Waiting, Exists, Scheduled, NoFault
    <3>2. \A q \in Requests : Minding(q, p)' <=> Minding(q, p)
      BY <1>2 DEF Minding
    <3>. QED  BY <1>3, <3>1, <3>2 DEF NoStrandedOrder
  <2>. QED  BY <2>1, <2>3, <2>5, <2>6, <2>7, <2>8
<1>4. CASE Fault("releaseTx") /\ WorkerThrows /\ UNCHANGED <<orders, history>>
  <2>1. faults' \in 1 .. MaxFaults
    BY <1>4 DEF TypeOK, FaultsTypeOK, Fault
  <2>. QED  BY <1>2, <1>4, <2>1, WorkerThrowsLemma
<1>5. CASE /\ Fault("releaseTxAnswer") /\ StatusTx(o, "PREPARING", "scheduler")
           /\ FailUnanswered(o) /\ worker' = IdleWorker
  <2>1. faults' \in 1 .. MaxFaults
    BY <1>5 DEF TypeOK, FaultsTypeOK, Fault
  <2>2. /\ orders' \in [Orders -> Rows \cup {Absent}]
        /\ history' \in [Orders -> Seq(Entries)]
        /\ Exists(o)'
        /\ \A p \in Orders \ {o} : orders'[p] = orders[p]
        /\ HistoryBegins'
    BY <1>1, <1>5, StatusTxLemma DEF TypeOK, Statuses, Writers
  <2>3. \A p \in Orders : Exists(p)' <=> Exists(p)
    BY <1>1, <2>2 DEF Exists
  <2>. QED  BY <1>1, <1>2, <1>5, <2>1, <2>2, <2>3, WorkerFailsLemma
<1>. QED  BY <1>1, <1>3, <1>4, <1>5 DEF WorkerRelease

LEMMA WorkerAnnouncePreserves ==
  ASSUME CoreInv, WorkerAnnounce, UNCHANGED <<serviceVars, crashes>>
  PROVE  CoreInv'
<1>. USE DEF CoreInv
<1>1. /\ worker.pc = "announce" /\ worker.order \in Orders
      /\ UNCHANGED <<orders, history, due, job, faults, req, started, crashes>>
  BY DEF WorkerAnnounce, WorkerOK, serviceVars
<1>2. announced' \in [Orders -> Seq(Statuses)]
  BY <1>1, AnnounceLemma DEF TypeOK, WorkerAnnounce, Statuses
<1>3. WorkerTypeOK' /\ worker'.pc = "return" /\ worker'.order = worker.order
  BY DEF TypeOK, WorkerTypeOK, WorkerAnnounce, WorkerGoto, WorkerPcs
<1>4. TypeOK'
  BY <1>1, <1>2, <1>3 DEF TypeOK, StoreTypeOK, QueueTypeOK, FaultsTypeOK, ServiceTypeOK
<1>5. RequestsOK' /\ OneCreator' /\ HistoryBegins'
  BY <1>1 DEF RequestsOK, RequestOK, OneCreator, Creating, HistoryBegins, Exists
<1>6. JobsOK'
  BY <1>1, <1>3 DEF JobsOK, Exists
<1>7. WorkerOK'
  BY <1>1, <1>3 DEF WorkerOK, Exists, IdleWorker
<1>8. NoStrandedOrder'
  BY <1>1 DEF NoStrandedOrder, Waiting, Minding, Exists, Scheduled
<1>. QED  BY <1>4, <1>5, <1>6, <1>7, <1>8

LEMMA WorkerReturnPreserves ==
  ASSUME CoreInv, WorkerReturn, UNCHANGED <<serviceVars, crashes>>
  PROVE  CoreInv'
<1>. USE DEF CoreInv
<1>1. PICK o \in Orders : /\ o = worker.order /\ job[o].state = "active"
                          /\ orders[o].status # "PENDING"
  BY DEF WorkerReturn, WorkerOK
<1>2. /\ worker' = IdleWorker
      /\ UNCHANGED <<orders, history, due, announced, faults, req, started, crashes>>
  BY DEF WorkerReturn, storeVars, serviceVars
<1>3. /\ QueueTypeOK' /\ job'[o].state = "completed" /\ OtherJobs(o)
      /\ job'[o].attempts = job[o].attempts /\ job'[o].unanswered = job[o].unanswered
  BY <1>1, SetJobStateLemma DEF TypeOK, WorkerReturn, CompleteJob, JobStates
<1>4. WorkerTypeOK' /\ worker'.pc = "idle"
  BY <1>2 DEF WorkerTypeOK, IdleWorker, WorkerPcs
<1>5. TypeOK'
  BY <1>2, <1>3, <1>4 DEF TypeOK, StoreTypeOK, FaultsTypeOK, ServiceTypeOK
<1>6. RequestsOK' /\ OneCreator'
  BY <1>1, <1>2, <1>3, RequestsFrameLemma
<1>7. JobsOK'
  BY <1>1, <1>2, <1>3 DEF JobsOK, Exists, OtherJobs, Live, Listed
<1>8. WorkerOK' /\ HistoryBegins'
  BY <1>2, <1>4 DEF WorkerOK, HistoryBegins, Exists
<1>9. NoStrandedOrder'
  BY <1>1, <1>2, <1>3, StrandedFrameLemma
<1>. QED  BY <1>5, <1>6, <1>7, <1>8, <1>9

LEMMA PromotePreserves ==
  ASSUME CoreInv, NEW o \in Orders, Promote(o)
  PROVE  CoreInv'
<1>. USE DEF CoreInv
<1>1. /\ job[o].state \in {"delayed", "backoff"}
      /\ job' = [job EXCEPT ![o].state = "waiting"]
      /\ UNCHANGED <<orders, history, due, announced, faults, req, started, worker, crashes>>
  BY DEF Promote, PromoteJob, storeVars, serviceVars
<1>2. /\ QueueTypeOK' /\ job'[o].state = "waiting" /\ job'[o].attempts = job[o].attempts
      /\ job'[o].unanswered = job[o].unanswered /\ OtherJobs(o)
  BY <1>1, SetJobStateLemma DEF TypeOK, JobStates
<1>3. TypeOK'
  BY <1>1, <1>2 DEF TypeOK, StoreTypeOK, FaultsTypeOK, ServiceTypeOK, WorkerTypeOK
<1>4. RequestsOK' /\ OneCreator'
  BY <1>1, <1>2, RequestsFrameLemma
<1>5. JobsOK'
  BY <1>1, <1>2 DEF JobsOK, Exists, OtherJobs, Live, Listed
<1>6. WorkerOK' /\ HistoryBegins'
  BY <1>1, <1>2 DEF WorkerOK, HistoryBegins, Exists, OtherJobs
<1>7. NoStrandedOrder'
  BY <1>1, <1>2, StrandedFrameLemma DEF Live, Listed
<1>. QED  BY <1>3, <1>4, <1>5, <1>6, <1>7

LEMMA StallPreserves ==
  ASSUME CoreInv, NEW o \in Orders, Stall(o)
  PROVE  CoreInv'
<1>. USE DEF CoreInv
<1>1. /\ job[o].state = "active" /\ worker.order # o
      /\ UNCHANGED <<orders, history, due, announced, faults, req, started, worker, crashes>>
  BY DEF Stall, StallJob, storeVars, serviceVars
<1>2. /\ QueueTypeOK' /\ job'[o].state \in {"waiting", "failed"}
      /\ job'[o].attempts = job[o].attempts /\ job'[o].unanswered = job[o].unanswered
      /\ OtherJobs(o)
  BY StallJobLemma DEF TypeOK, Stall
<1>3. crashes > 0
  BY <1>1 DEF JobsOK
<1>4. TypeOK'
  BY <1>1, <1>2 DEF TypeOK, StoreTypeOK, FaultsTypeOK, ServiceTypeOK, WorkerTypeOK
<1>5. RequestsOK' /\ OneCreator'
  BY <1>1, <1>2, RequestsFrameLemma
<1>6. JobsOK'
  BY <1>1, <1>2 DEF JobsOK, Exists, OtherJobs, Live, Listed
<1>7. WorkerOK' /\ HistoryBegins'
  BY <1>1, <1>2 DEF WorkerOK, HistoryBegins, Exists, OtherJobs
<1>8. NoStrandedOrder'
  BY <1>1, <1>2, <1>3, StrandedFrameLemma
<1>. QED  BY <1>4, <1>5, <1>6, <1>7, <1>8

LEMMA ClockPreserves ==
  ASSUME CoreInv, NEW o \in Orders, Clock(o)
  PROVE  CoreInv'
<1>. USE DEF CoreInv
<1>1. /\ due' = [due EXCEPT ![o] = TRUE]
      /\ UNCHANGED <<orders, history, announced, job, faults, req, started, worker, crashes>>
  BY DEF Clock, TimePasses, serviceVars
<1>2. due' \in [Orders -> BOOLEAN]
  BY <1>1 DEF TypeOK, StoreTypeOK
<1>3. TypeOK'
  BY <1>1, <1>2 DEF TypeOK, StoreTypeOK, QueueTypeOK, FaultsTypeOK, ServiceTypeOK, WorkerTypeOK
<1>4. RequestsOK' /\ OneCreator' /\ JobsOK' /\ WorkerOK' /\ HistoryBegins'
  BY <1>1 DEF RequestsOK, RequestOK, OneCreator, Creating, JobsOK, WorkerOK, HistoryBegins, Exists
<1>5. NoStrandedOrder'
  BY <1>1 DEF NoStrandedOrder, Waiting, Minding, Exists, Scheduled
<1>. QED  BY <1>3, <1>4, <1>5

LEMMA CrashPreserves ==
  ASSUME CoreInv, Crash
  PROVE  CoreInv'
<1>. USE DEF CoreInv
<1>1. /\ crashes' \in 1 .. MaxCrashes
      /\ \A r \in Requests : req'[r] = IdleReq
      /\ worker' = IdleWorker
      /\ UNCHANGED <<orders, history, due, announced, job, faults, started>>
  BY DEF Crash, TypeOK, storeVars
<1>2. IdleReq \in Handlers /\ IdleReq.pc = "idle"
  BY DEF IdleReq, Handlers, Pcs, Writers
<1>3. ServiceTypeOK'
  BY <1>1, <1>2 DEF TypeOK, ServiceTypeOK, Crash
<1>4. WorkerTypeOK' /\ worker'.pc = "idle"
  BY <1>1 DEF WorkerTypeOK, IdleWorker, WorkerPcs
<1>5. TypeOK'
  BY <1>1, <1>3, <1>4 DEF TypeOK, StoreTypeOK, QueueTypeOK, FaultsTypeOK
<1>6. RequestsOK' /\ OneCreator'
  BY <1>1, <1>2 DEF RequestsOK, RequestOK, OneCreator, Creating
<1>7. JobsOK' /\ WorkerOK' /\ HistoryBegins'
  BY <1>1, <1>4 DEF JobsOK, WorkerOK, HistoryBegins, Exists
<1>8. NoStrandedOrder'
  BY <1>1 DEF NoStrandedOrder
<1>. QED  BY <1>5, <1>6, <1>7, <1>8

-----------------------------------------------------------------------------
(* All steps together *)

\* The initial state satisfies what the handlers and the worker rely on.
LEMMA CoreEstablishes == Init => CoreInv
<1>. SUFFICES ASSUME Init PROVE CoreInv
  OBVIOUS
<1>. USE DEF Init, StoreInit, QueueInit, FaultsInit, ServiceInit, WorkerInit
<1>1. TypeOK
  <2>1. StoreTypeOK
    BY DEF StoreTypeOK
  <2>2. QueueTypeOK
    BY DEF QueueTypeOK, NewJob, Jobs, JobStates
  <2>3. ServiceTypeOK
    BY DEF ServiceTypeOK, IdleReq, Handlers, Pcs, Writers
  <2>4. WorkerTypeOK
    BY DEF WorkerTypeOK, IdleWorker, WorkerPcs
  <2>. QED  BY <2>1, <2>2, <2>3, <2>4 DEF TypeOK, FaultsTypeOK
<1>2. RequestsOK /\ OneCreator
  BY DEF RequestsOK, RequestOK, OneCreator, Creating, IdleReq
<1>3. JobsOK
  <2>1. \A o \in Orders : job[o].state = "none" /\ job[o].attempts = 0 /\ job[o].unanswered = 0
    BY DEF NewJob
  <2>2. "none" \notin Live /\ "none" # "active"
    BY DEF Live, Listed
  <2>3. 0 <= 0
    OBVIOUS
  <2>4. \A o \in Orders : job[o].unanswered <= job[o].attempts
    BY <2>1, <2>3, Zenon
  <2>. QED  BY <2>1, <2>2, <2>4 DEF JobsOK
<1>4. WorkerOK
  BY DEF WorkerOK, IdleWorker
<1>5. HistoryBegins /\ NoStrandedOrder
  BY DEF HistoryBegins, NoStrandedOrder, Waiting, Exists
<1>. QED  BY <1>1, <1>2, <1>3, <1>4, <1>5 DEF CoreInv

\* Every step preserves what the handlers and the worker rely on.
LEMMA CorePreserves == CoreInv /\ [Next]_vars => CoreInv'
<1>. SUFFICES ASSUME CoreInv, [Next]_vars PROVE CoreInv'
  OBVIOUS
<1>1. ASSUME NEW r \in Requests, Call(r) PROVE CoreInv'
  BY <1>1, CreateStartPreserves, UpdateStartPreserves, CancelStartPreserves DEF Call, ServiceCall
<1>2. ASSUME NEW r \in Requests, Handler(r) PROVE CoreInv'
  BY <1>2, CreateTxPreserves, CreateEnqueuePreserves, CreateAnnouncePreserves,
     UpdateTxPreserves, UpdateAnnouncePreserves, CancelFindJobPreserves,
     CancelRemoveJobPreserves, CancelRevalidatePreserves DEF Handler, HandlerStep
<1>3. ASSUME Work PROVE CoreInv'
  BY <1>3, WorkerReadPreserves, WorkerReleasePreserves, WorkerAnnouncePreserves,
     WorkerReturnPreserves DEF Work, WorkerStep
<1>4. ASSUME NEW o \in Orders, Take(o) \/ Promote(o) \/ Stall(o) \/ Clock(o) PROVE CoreInv'
  BY <1>4, TakePreserves, PromotePreserves, StallPreserves, ClockPreserves
<1>5. CASE Crash
  BY <1>5, CrashPreserves
<1>6. CASE UNCHANGED vars
  <2>1. UNCHANGED <<orders, history, due, announced, job, faults, req, started, worker, crashes>>
    BY <1>6 DEF vars, storeVars, serviceVars
  <2>2. TypeOK' /\ RequestsOK' /\ OneCreator' /\ JobsOK' /\ WorkerOK'
    BY <2>1 DEF CoreInv, TypeOK, StoreTypeOK, QueueTypeOK, FaultsTypeOK, ServiceTypeOK, WorkerTypeOK,
                RequestsOK, RequestOK, OneCreator, Creating, JobsOK, WorkerOK, Exists
  <2>3. HistoryBegins' /\ NoStrandedOrder'
    BY <2>1 DEF CoreInv, HistoryBegins, NoStrandedOrder, Waiting, Minding, Exists, Scheduled
  <2>. QED  BY <2>2, <2>3 DEF CoreInv
<1>. QED  BY <1>1, <1>2, <1>3, <1>4, <1>5, <1>6 DEF Next

-----------------------------------------------------------------------------
(* Who writes the rows of an order *)

\* The three transactions of this module on order o, with their history rows;
\* the answer of each may be lost.
CreateWrites(r, o, e) ==
  /\ CreateTx(r) /\ req[r].pc = "createTx" /\ req[r].order = o /\ ~ Exists(o)
  /\ e.status = "PENDING" /\ e.by = "create"
  /\ UNCHANGED job
  /\ \/ Goto(r, IF req[r].row.type = "SCHEDULED" THEN "enqueue" ELSE "announceCreated")
     \/ Fault("createTxAnswer") /\ End(r)

UpdateWrites(r, o, e) ==
  /\ UpdateTx(r) /\ req[r].pc = "updateTx" /\ req[r].order = o /\ Exists(o)
  /\ e.status = req[r].target /\ e.by = req[r].by
  /\ e.status # "PENDING" /\ e.by # "scheduler"
  /\ UNCHANGED job
  /\ \/ Goto(r, "announceUpdated")
     \/ Fault("updateTxAnswer") /\ End(r)

WorkerWrites(o, e) ==
  /\ WorkerRelease /\ worker.pc = "releaseTx" /\ worker.order = o /\ Exists(o)
  /\ e.status = "PREPARING" /\ e.by = "scheduler"
  /\ \/ WorkerGoto("announce") /\ UNCHANGED job
     \/ Fault("releaseTxAnswer") /\ FailUnanswered(o) /\ worker' = IdleWorker

\* Order o is written by one of them: status and history together, and
\* nothing of the clock or the broadcasts.
Written(o, e) ==
  /\ Writes(o, e)
  /\ Exists(o) => orders'[o].deliveryType = orders[o].deliveryType
  /\ UNCHANGED <<due, announced, crashes>>
  /\ \/ \E r \in Requests : CreateWrites(r, o, e) /\ UNCHANGED worker
     \/ \E r \in Requests : UpdateWrites(r, o, e) /\ UNCHANGED worker
     \/ WorkerWrites(o, e) /\ UNCHANGED req

LEMMA CreateWritesLemma ==
  ASSUME CoreInv, NEW r \in Requests, CreateTx(r), UNCHANGED <<worker, crashes>>
  PROVE  \/ UNCHANGED <<orders, history>>
         \/ \E o \in Orders, e \in Entries : Written(o, e)
<1>. SUFFICES ASSUME ~ UNCHANGED <<orders, history>>
              PROVE  \E o \in Orders, e \in Entries : Written(o, e)
  OBVIOUS
<1>1. PICK o \in Orders, row \in Rows :
        /\ o = req[r].order /\ row = req[r].row /\ req[r].pc = "createTx"
        /\ ~ Exists(o) /\ row.status = "PENDING"
  BY DEF CreateTx, CoreInv, RequestsOK, RequestOK
<1>2. /\ InsertTx(o, row)
      /\ \/ Goto(r, IF row.type = "SCHEDULED" THEN "enqueue" ELSE "announceCreated")
         \/ Fault("createTxAnswer") /\ End(r)
  BY <1>1 DEF CreateTx
<1>3. PICK e \in Entries : e.by = "create" /\ Writes(o, e)
  BY <1>1, <1>2, InsertTxLemma DEF CoreInv, TypeOK
<1>4. orders'[o] = row /\ e.status = "PENDING"
  BY <1>1, <1>2, <1>3, InsertTxLemma DEF CoreInv, TypeOK, Writes
<1>5. UNCHANGED <<due, announced, job, crashes>>
  BY DEF CreateTx
<1>. QED  BY <1>1, <1>2, <1>3, <1>4, <1>5 DEF Written, CreateWrites

LEMMA UpdateWritesLemma ==
  ASSUME CoreInv, NEW r \in Requests, UpdateTx(r), UNCHANGED <<worker, crashes>>
  PROVE  \/ UNCHANGED <<orders, history>>
         \/ \E o \in Orders, e \in Entries : Written(o, e)
<1>. SUFFICES ASSUME ~ UNCHANGED <<orders, history>>
              PROVE  \E o \in Orders, e \in Entries : Written(o, e)
  OBVIOUS
<1>1. PICK o \in Orders, t \in Statuses, by \in Writers :
        /\ o = req[r].order /\ t = req[r].target /\ by = req[r].by
        /\ req[r].pc = "updateTx" /\ Exists(o) /\ t # "PENDING" /\ by # "scheduler"
  BY TransitionsLemma DEF UpdateTx, CoreInv, RequestsOK, RequestOK, TypeOK, ServiceTypeOK, Handlers
<1>2. /\ StatusTx(o, t, by)
      /\ \/ Goto(r, "announceUpdated")
         \/ Fault("updateTxAnswer") /\ End(r)
  <2>1. \/ StatusTx(o, t, by) /\ Goto(r, "announceUpdated") /\ NoFault
        \/ Fault("updateTx") /\ End(r) /\ UNCHANGED <<orders, history>>
        \/ Fault("updateTxAnswer") /\ End(r) /\ StatusTx(o, t, by)
    BY <1>1 DEF UpdateTx
  <2>. QED  BY <2>1
<1>. DEFINE e == [status |-> t, by |-> by]
<1>3. e \in Entries /\ e.status = t /\ e.by = by
  BY DEF Entries
<1>. HIDE DEF e
<1>4. Writes(o, e) /\ orders'[o].deliveryType = orders[o].deliveryType
  BY <1>1, <1>2, StatusTxLemma DEF CoreInv, TypeOK, e
<1>5. UNCHANGED <<due, announced, job, crashes>>
  BY DEF UpdateTx
<1>. QED  BY <1>1, <1>2, <1>3, <1>4, <1>5 DEF Written, UpdateWrites

LEMMA WorkerWritesLemma ==
  ASSUME CoreInv, WorkerRelease, UNCHANGED <<serviceVars, crashes>>
  PROVE  \/ UNCHANGED <<orders, history>>
         \/ \E o \in Orders, e \in Entries : Written(o, e)
<1>. SUFFICES ASSUME ~ UNCHANGED <<orders, history>>
              PROVE  \E o \in Orders, e \in Entries : Written(o, e)
  OBVIOUS
<1>1. PICK o \in Orders : o = worker.order /\ worker.pc = "releaseTx" /\ Exists(o)
  BY DEF WorkerRelease, CoreInv, WorkerOK
<1>2. /\ StatusTx(o, "PREPARING", "scheduler")
      /\ \/ WorkerGoto("announce") /\ UNCHANGED job
         \/ Fault("releaseTxAnswer") /\ FailUnanswered(o) /\ worker' = IdleWorker
  BY <1>1 DEF WorkerRelease
<1>. DEFINE e == [status |-> "PREPARING", by |-> "scheduler"]
<1>3. e \in Entries /\ e.status = "PREPARING" /\ e.by = "scheduler"
  BY DEF Entries, Statuses, Writers
<1>. HIDE DEF e
<1>4. Writes(o, e) /\ orders'[o].deliveryType = orders[o].deliveryType
  BY <1>1, <1>2, StatusTxLemma DEF CoreInv, TypeOK, e, Statuses, Writers
<1>5. UNCHANGED <<due, announced, crashes, req>>
  BY DEF WorkerRelease, serviceVars
<1>. QED  BY <1>1, <1>2, <1>3, <1>4, <1>5 DEF Written, WorkerWrites

\* Nobody else in this module writes an order or its history.
LEMMA StepWritesLemma ==
  ASSUME CoreInv, Next
  PROVE  \/ UNCHANGED <<orders, history>>
         \/ \E o \in Orders, e \in Entries : Written(o, e)
<1>1. ASSUME NEW r \in Requests, Call(r) PROVE UNCHANGED <<orders, history>>
  BY <1>1 DEF Call, ServiceCall, CreateStart, UpdateStart, CancelStart, storeVars
<1>2. ASSUME NEW r \in Requests, Handler(r)
      PROVE  UNCHANGED <<orders, history>> \/ CreateTx(r) \/ UpdateTx(r)
  BY <1>2 DEF Handler, HandlerStep, CreateEnqueue, CreateAnnounce, UpdateAnnounce,
     CancelFindJob, CancelRemoveJob, CancelRevalidate, storeVars
<1>3. ASSUME Work PROVE UNCHANGED <<orders, history>> \/ WorkerRelease
  BY <1>3 DEF Work, WorkerStep, WorkerRead, WorkerAnnounce, WorkerReturn, storeVars
<1>4. ASSUME NEW p \in Orders, Take(p) \/ Promote(p) \/ Stall(p) \/ Clock(p)
      PROVE  UNCHANGED <<orders, history>>
  BY <1>4 DEF Take, WorkerTake, Promote, Stall, Clock, TimePasses, storeVars
<1>5. Crash => UNCHANGED <<orders, history>>
  BY DEF Crash, storeVars
<1>. QED
  BY <1>1, <1>2, <1>3, <1>4, <1>5, CreateWritesLemma, UpdateWritesLemma, WorkerWritesLemma
     DEF Next, Handler, Work

-----------------------------------------------------------------------------
(* The theorems *)

\* The initial state satisfies the inductive invariant.
LEMMA InitEstablishes == Init => IInv
<1>1. Init => HistoryFollowsStatus
  BY DEF Init, StoreInit, HistoryFollowsStatus, Exists
<1>. QED  BY <1>1, CoreEstablishes DEF IInv

\* Every step preserves the inductive invariant.
LEMMA NextPreserves == IInv /\ [Next]_vars => IInv'
<1>. SUFFICES ASSUME IInv, [Next]_vars PROVE HistoryFollowsStatus'
  BY CorePreserves DEF IInv
<1>. USE DEF IInv
<1>1. CASE UNCHANGED <<orders, history>>
  BY <1>1 DEF HistoryFollowsStatus, Exists
<1>2. ASSUME NEW o \in Orders, NEW e \in Entries, Written(o, e)
      PROVE  HistoryFollowsStatus'
  <2>1. history[o] \in Seq(Entries)
    BY DEF CoreInv, TypeOK, StoreTypeOK
  <2>2. history'[o] # <<>> /\ history'[o][Len(history'[o])] = e
    BY <1>2, <2>1, LastRowLemma DEF Written, Writes
  <2>. QED  BY <1>2, <2>2 DEF Written, Writes, HistoryFollowsStatus, Exists
<1>. QED  BY <1>1, <1>2, StepWritesLemma DEF vars, storeVars

\* IInv holds in every reachable state.
THEOREM InvariantHolds == Spec => []IInv
<1>. QED  BY InitEstablishes, NextPreserves, PTL DEF Spec

\* Every variable keeps its type, whatever interleaving, failure or crash
\* happens: the code's rows, jobs, handlers and worker are always of the
\* shapes the modules name.
THEOREM TypeCorrect == Spec => []TypeOK
<1>1. IInv => TypeOK
  BY DEF IInv, CoreInv
<1>. QED  BY <1>1, InvariantHolds, PTL

\* The history and the row of an order agree (the transactions of
\* orders.service.ts and scheduled-orders.processor.ts).
THEOREM HistoryIsFaithful == Spec => []HistoryFollowsStatus
<1>1. IInv => HistoryFollowsStatus
  BY DEF IInv
<1>. QED  BY <1>1, InvariantHolds, PTL

\* As long as no call has failed and the process has not crashed, a scheduled
\* order that is still PENDING has a live job or a handler that minds it.
THEOREM NobodyIsStranded == Spec => []NoStrandedOrder
<1>1. IInv => NoStrandedOrder
  BY DEF IInv, CoreInv
<1>. QED  BY <1>1, InvariantHolds, PTL

-----------------------------------------------------------------------------
(* The steps of an order's status *)

\* Every step of the system changes an order's status as StatusStepsExplained
\* says: only a status transaction does, of a handler or of the worker.
LEMMA StepIsExplained ==
  ASSUME CoreInv, Next, NEW o \in Orders, StatusChanges(o)
  PROVE  \/ StatusStepValid(o)
         \/ \E r \in Requests : StaleUpdate(r, o)
         \/ Release(o)
<1>1. PICK e \in Entries : Written(o, e)
  BY StepWritesLemma DEF StatusChanges, Written, Writes
<1>2. Exists(o) /\ orders'[o].status = e.status
  BY <1>1 DEF StatusChanges, Written, Writes
<1>3. ASSUME NEW r \in Requests, UpdateWrites(r, o, e)
      PROVE  StatusStepValid(o) \/ StaleUpdate(r, o)
  <2>1. /\ req[r].pc = "updateTx" /\ req[r].order = o
        /\ req[r].seen \in Statuses /\ req[r].target \in ValidTransitions[req[r].seen]
        /\ e.status = req[r].target
    BY <1>3 DEF UpdateWrites, CoreInv, RequestsOK, RequestOK
  <2>2. req'[r].pc \in {"announceUpdated", "idle"}
    BY <1>3, GotoLemma, EndLemma DEF UpdateWrites, CoreInv, TypeOK, Pcs
  <2>. QED  BY <1>2, <2>1, <2>2 DEF StatusStepValid, StaleUpdate
<1>4. ASSUME WorkerWrites(o, e) PROVE Release(o)
  <2>1. worker.pc = "releaseTx" /\ worker.order = o /\ worker.seen # "CANCELLED"
    BY <1>4 DEF WorkerWrites, CoreInv, WorkerOK
  <2>2. worker'.pc \in {"announce", "idle"} /\ e.status = "PREPARING"
    BY <1>4 DEF WorkerWrites, WorkerGoto, IdleWorker, CoreInv, TypeOK, WorkerTypeOK
  <2>. QED  BY <1>2, <2>1, <2>2 DEF Release
<1>. QED  BY <1>1, <1>2, <1>3, <1>4 DEF Written, CreateWrites

\* A status changes only along validTransitions, or because a handler's read
\* was overtaken, or by the worker, which read the order uncancelled: these
\* are all the ways past the table of orders.service.ts.
THEOREM StatusStepsAreExplained == Spec => StatusStepsExplained
<1>1. IInv /\ [Next]_vars => [StatusStepExplained]_vars
  BY StepIsExplained DEF StatusStepExplained, IInv
<1>. QED  BY <1>1, InvariantHolds, PTL DEF Spec, StatusStepsExplained

-----------------------------------------------------------------------------
(* The job of an order from step to step *)

\* A job comes to be delivered only when its order is due, and may release
\* the order once more only after another redelivery; what is counted stays so.
JobStep(o) ==
  /\ job'[o].state \in {"waiting", "active", "backoff"} =>
       due[o] \/ job[o].state \in {"waiting", "active", "backoff"}
  /\ job'[o].stalls >= job[o].stalls
  /\ job'[o].unanswered >= job[o].unanswered
  /\ MayRelease(o)' => MayRelease(o) \/ job'[o].stalls > job[o].stalls

\* Steps that leave the worker alone and move at most the job of order o.
LEMMA JobMovesLemma ==
  ASSUME QueueTypeOK, NEW o \in Orders, OtherJobs(o), UNCHANGED worker, JobStep(o)
  PROVE  \A p \in Orders : JobStep(p)
BY DEF QueueTypeOK, Jobs, OtherJobs, JobStep, MayRelease

\* Steps that leave the jobs alone, with a worker that does not begin.
LEMMA JobRestsLemma ==
  ASSUME QueueTypeOK, UNCHANGED job,
         worker'.pc \in {"read", "releaseTx"} =>
           worker.pc \in {"read", "releaseTx"} /\ worker'.order = worker.order
  PROVE  \A p \in Orders : JobStep(p)
BY DEF QueueTypeOK, Jobs, JobStep, MayRelease

\* What happens to the worker's own job while it is in its hands.
LEMMA WorkerJobLemma ==
  ASSUME CoreInv, WorkerStep, UNCHANGED <<serviceVars, crashes>>
  PROVE  \A p \in Orders : JobStep(p)
<1>. USE DEF CoreInv
<1>1. PICK o \in Orders : /\ o = worker.order /\ job[o].state = "active"
                          /\ job[o].attempts < JobAttempts /\ worker.pc # "idle"
  BY DEF WorkerStep, WorkerRead, WorkerRelease, WorkerAnnounce, WorkerReturn,
     WorkerOK, JobsOK, Live
<1>2. job[o].stalls \in Nat /\ job[o].unanswered \in Nat /\ job[o].unanswered <= job[o].attempts
  BY DEF TypeOK, QueueTypeOK, Jobs, JobsOK
<1>3. ASSUME FailJob(o) \/ FailUnanswered(o), worker' = IdleWorker,
             worker.pc \in {"read", "releaseTx"}
      PROVE  \A p \in Orders : JobStep(p)
  <2>1. /\ job'[o].stalls = job[o].stalls /\ job'[o].unanswered >= job[o].unanswered /\ OtherJobs(o)
    BY <1>1, <1>2, <1>3, FailJobLemma, FailUnansweredLemma DEF TypeOK
  <2>2. worker' = IdleWorker
    BY <1>3
  <2>3. JobStep(o)
    BY <1>1, <1>2, <1>3, <2>1 DEF JobStep, MayRelease
  <2>4. ASSUME NEW p \in Orders \ {o} PROVE JobStep(p)
    BY <1>1, <2>1, <2>2 DEF JobStep, MayRelease, OtherJobs, TypeOK, QueueTypeOK, Jobs, IdleWorker
  <2>. QED  BY <2>3, <2>4
<1>4. CASE WorkerReturn
  <2>1. /\ job'[o].state = "completed" /\ job'[o].stalls = job[o].stalls
        /\ job'[o].unanswered = job[o].unanswered /\ OtherJobs(o)
    BY <1>1, <1>4, SetJobStateLemma DEF TypeOK, WorkerReturn, CompleteJob, JobStates
  <2>2. worker' = IdleWorker
    BY <1>4 DEF WorkerReturn
  <2>3. JobStep(o)
    BY <1>1, <1>2, <2>1, <2>2 DEF JobStep, MayRelease, IdleWorker
  <2>4. ASSUME NEW p \in Orders \ {o} PROVE JobStep(p)
    BY <1>1, <2>1, <2>2 DEF JobStep, MayRelease, OtherJobs, TypeOK, QueueTypeOK, Jobs, IdleWorker
  <2>. QED  BY <2>3, <2>4
<1>5. CASE WorkerAnnounce
  <2>1. UNCHANGED job /\ worker'.pc = "return"
    BY <1>5 DEF WorkerAnnounce, WorkerGoto, TypeOK, WorkerTypeOK
  <2>2. worker'.pc \notin {"read", "releaseTx"}
    BY <2>1
  <2>. QED  BY <2>1, <2>2, JobRestsLemma DEF TypeOK
<1>6. CASE WorkerRead
  <2>1. CASE UNCHANGED job
    <3>1. worker.pc = "read" /\ (worker'.order = worker.order \/ worker'.pc = "idle")
      BY <1>6 DEF WorkerRead, WorkerThrows, IdleWorker
    <3>. QED  BY <2>1, <3>1, JobRestsLemma DEF TypeOK
  <2>. QED  BY <1>1, <1>3, <1>6, <2>1 DEF WorkerRead, WorkerThrows
<1>7. CASE WorkerRelease
  <2>1. CASE UNCHANGED job /\ WorkerGoto("announce")
    <3>1. worker'.pc = "announce"
      BY <2>1 DEF WorkerGoto, TypeOK, WorkerTypeOK
    <3>2. worker'.pc \notin {"read", "releaseTx"}
      BY <3>1
    <3>. QED  BY <2>1, <3>2, JobRestsLemma DEF TypeOK
  <2>. QED  BY <1>1, <1>3, <1>7, <2>1 DEF WorkerRelease, WorkerThrows
<1>. QED  BY <1>4, <1>5, <1>6, <1>7 DEF WorkerStep

LEMMA JobStepLemma ==
  ASSUME CoreInv, Next
  PROVE  \A o \in Orders : JobStep(o)
<1>. USE DEF CoreInv
<1>1. ASSUME UNCHANGED <<job, worker>> PROVE \A o \in Orders : JobStep(o)
  BY <1>1, JobRestsLemma DEF TypeOK
<1>2. ASSUME NEW r \in Requests, Call(r) PROVE UNCHANGED <<job, worker>>
  BY <1>2 DEF Call, ServiceCall, CreateStart, UpdateStart, CancelStart
<1>3. ASSUME NEW r \in Requests, CreateEnqueue(r), UNCHANGED worker
      PROVE  \A o \in Orders : JobStep(o)
  <2>1. PICK o \in Orders : o = req[r].order /\ job[o].state = "none"
    BY <1>3 DEF CreateEnqueue, RequestsOK, RequestOK
  <2>2. CASE AddJob(o)
    <3>1. PICK st \in {"waiting", "delayed"} :
            (st = "waiting" => due[o]) /\ job' = [job EXCEPT ![o].state = st]
      BY <2>2 DEF AddJob
    <3>2. /\ job'[o].state = st /\ job'[o].stalls = job[o].stalls
          /\ job'[o].unanswered = job[o].unanswered /\ OtherJobs(o)
      BY <3>1, SetJobStateLemma DEF TypeOK, JobStates
    <3>3. JobStep(o)
      BY <2>1, <3>1, <3>2 DEF JobStep, MayRelease, TypeOK, QueueTypeOK, Jobs
    <3>. QED  BY <1>3, <3>2, <3>3, JobMovesLemma DEF TypeOK
  <2>3. CASE UNCHANGED job
    BY <1>1, <1>3, <2>3
  <2>. QED  BY <1>3, <2>1, <2>2, <2>3 DEF CreateEnqueue
<1>4. ASSUME NEW r \in Requests, CancelRemoveJob(r), UNCHANGED worker
      PROVE  \A o \in Orders : JobStep(o)
  <2>1. PICK o \in Orders : o = req[r].order
    BY <1>4 DEF CancelRemoveJob, RequestsOK, RequestOK
  <2>2. CASE DropJob(o)
    <3>1. /\ job'[o].state = "removed" /\ job'[o].stalls = job[o].stalls
          /\ job'[o].unanswered = job[o].unanswered /\ OtherJobs(o)
      BY <2>2, SetJobStateLemma DEF TypeOK, JobStates, DropJob
    <3>2. JobStep(o)
      BY <1>4, <3>1 DEF JobStep, MayRelease, TypeOK, QueueTypeOK, Jobs
    <3>. QED  BY <1>4, <3>1, <3>2, JobMovesLemma DEF TypeOK
  <2>. QED  BY <1>1, <1>4, <2>1, <2>2 DEF CancelRemoveJob
<1>5. ASSUME NEW r \in Requests, Handler(r), ~ CreateEnqueue(r), ~ CancelRemoveJob(r)
      PROVE  UNCHANGED <<job, worker>>
  BY <1>5 DEF Handler, HandlerStep, CreateTx, CreateAnnounce, UpdateTx, UpdateAnnounce,
     CancelFindJob, CancelRevalidate
<1>6. ASSUME NEW o \in Orders, Take(o)
      PROVE  \A p \in Orders : JobStep(p)
  <2>1. job[o].state = "waiting" /\ worker = IdleWorker /\ job' = [job EXCEPT ![o].state = "active"]
    BY <1>6 DEF Take, WorkerTake, TakeJob
  <2>2. worker'.order = o
    BY <1>6 DEF Take, WorkerTake
  <2>3. /\ job'[o].state = "active" /\ job'[o].stalls = job[o].stalls
        /\ job'[o].unanswered = job[o].unanswered /\ OtherJobs(o)
    BY <2>1, SetJobStateLemma DEF TypeOK, JobStates
  <2>. QED  BY <2>1, <2>2, <2>3 DEF JobStep, MayRelease, OtherJobs, TypeOK, QueueTypeOK, Jobs
<1>7. ASSUME NEW o \in Orders, Promote(o)
      PROVE  \A p \in Orders : JobStep(p)
  <2>1. /\ (job[o].state = "delayed" /\ due[o]) \/ job[o].state = "backoff"
        /\ job' = [job EXCEPT ![o].state = "waiting"] /\ UNCHANGED worker
    BY <1>7 DEF Promote, PromoteJob
  <2>2. /\ job'[o].stalls = job[o].stalls
        /\ job'[o].unanswered = job[o].unanswered /\ OtherJobs(o)
    BY <2>1, SetJobStateLemma DEF TypeOK, JobStates
  <2>3. JobStep(o)
    BY <2>1, <2>2 DEF JobStep, MayRelease, TypeOK, QueueTypeOK, Jobs
  <2>. QED  BY <2>1, <2>2, <2>3, JobMovesLemma DEF TypeOK
<1>8. ASSUME NEW o \in Orders, Stall(o)
      PROVE  \A p \in Orders : JobStep(p)
  <2>1. job[o].state = "active" /\ UNCHANGED worker
    BY <1>8 DEF Stall, StallJob
  <2>2. /\ job'[o].state \in {"waiting", "failed"} /\ OtherJobs(o)
        /\ job'[o].stalls >= job[o].stalls
        /\ job'[o].unanswered = job[o].unanswered
        /\ job'[o].state = "waiting" => job'[o].stalls = job[o].stalls + 1
    BY <1>8, StallJobLemma DEF TypeOK, Stall
  <2>3. JobStep(o)
    BY <2>1, <2>2 DEF JobStep, MayRelease, TypeOK, QueueTypeOK, Jobs
  <2>. QED  BY <2>1, <2>2, <2>3, JobMovesLemma DEF TypeOK
<1>9. ASSUME NEW o \in Orders, Clock(o) PROVE UNCHANGED <<job, worker>>
  BY <1>9 DEF Clock
<1>10. ASSUME Work PROVE \A o \in Orders : JobStep(o)
  BY <1>10, WorkerJobLemma DEF Work
<1>11. ASSUME Crash PROVE \A o \in Orders : JobStep(o)
  <2>1. UNCHANGED job /\ worker'.pc = "idle"
    BY <1>11 DEF Crash, IdleWorker
  <2>. QED  BY <2>1, JobRestsLemma DEF TypeOK
<1>. QED
  BY <1>1, <1>2, <1>3, <1>4, <1>5, <1>6, <1>7, <1>8, <1>9, <1>10, <1>11 DEF Next, Handler

\* Time does not go back.
LEMMA DueStaysLemma ==
  ASSUME CoreInv, Next, NEW o \in Orders, due[o]
  PROVE  due'[o]
<1>1. ASSUME NEW p \in Orders, Clock(p) PROVE due'[o]
  BY <1>1 DEF Clock, TimePasses, CoreInv, TypeOK, StoreTypeOK
<1>2. ASSUME NEW r \in Requests, Call(r) \/ Handler(r) PROVE UNCHANGED due
  BY <1>2 DEF Call, ServiceCall, CreateStart, UpdateStart, CancelStart, Handler, HandlerStep,
     CreateTx, CreateEnqueue, CreateAnnounce, UpdateTx, UpdateAnnounce, CancelFindJob,
     CancelRemoveJob, CancelRevalidate, storeVars
<1>3. Work => UNCHANGED due
  BY DEF Work, WorkerStep, WorkerRead, WorkerRelease, WorkerAnnounce, WorkerReturn, storeVars
<1>4. ASSUME NEW p \in Orders, Take(p) \/ Promote(p) \/ Stall(p) PROVE UNCHANGED due
  BY <1>4 DEF Take, WorkerTake, Promote, Stall, storeVars
<1>5. Crash => UNCHANGED due
  BY DEF Crash, storeVars
<1>. QED  BY <1>1, <1>2, <1>3, <1>4, <1>5 DEF Next

-----------------------------------------------------------------------------
(* No order is released before its time *)

\* The queue and the history keep to the clock together.
LEMMA DuePreserves ==
  ASSUME CoreInv, JobsDue, NeverReleasedEarly, Next
  PROVE  JobsDue' /\ NeverReleasedEarly'
<1>1. JobsDue'
  BY JobStepLemma, DueStaysLemma DEF JobsDue, JobStep
<1>2. CASE UNCHANGED history
  BY <1>1, <1>2, DueStaysLemma DEF NeverReleasedEarly
<1>3. ASSUME NEW o \in Orders, NEW e \in Entries, Written(o, e)
      PROVE  NeverReleasedEarly'
  <2>1. e.by = "scheduler" => due[o]
    BY <1>3 DEF Written, CreateWrites, UpdateWrites, WorkerWrites, CoreInv, WorkerOK, JobsDue
  <2>2. /\ history[o] \in Seq(Entries) /\ history'[o] = Append(history[o], e) /\ UNCHANGED due
        /\ \A p \in Orders \ {o} : history'[p] = history[p]
    BY <1>3 DEF Written, Writes, CoreInv, TypeOK, StoreTypeOK
  <2>3. \A i \in DOMAIN history'[o] :
          history'[o][i] = e \/ (i \in DOMAIN history[o] /\ history'[o][i] = history[o][i])
    BY <2>2
  <2>. QED  BY <2>1, <2>2, <2>3 DEF NeverReleasedEarly
<1>. QED  BY <1>1, <1>2, <1>3, StepWritesLemma

\* The worker never releases an order before its scheduledFor.
THEOREM ReleasesAreDue == Spec => []NeverReleasedEarly
<1>1. Init => JobsDue /\ NeverReleasedEarly
  BY DEF Init, StoreInit, QueueInit, NewJob, JobsDue, NeverReleasedEarly
<1>2. JobsDue /\ NeverReleasedEarly /\ UNCHANGED vars => JobsDue' /\ NeverReleasedEarly'
  BY DEF vars, storeVars, JobsDue, NeverReleasedEarly
<1>3. IInv /\ JobsDue /\ NeverReleasedEarly /\ [Next]_vars => JobsDue' /\ NeverReleasedEarly'
  BY <1>2, DuePreserves DEF IInv
<1>. QED  BY <1>1, <1>3, InvariantHolds, PTL DEF Spec

-----------------------------------------------------------------------------
(* Each delivery of a job releases its order at most once *)

\* The rows of a history the scheduler wrote.
Released(h) == {i \in DOMAIN h : h[i].by = "scheduler"}

\* One row more is one release more exactly if the scheduler wrote it.
LEMMA ReleasedLemma ==
  ASSUME NEW h \in Seq(Entries)
  PROVE  /\ Cardinality(Released(h)) \in Nat
         /\ \A e \in Entries :
              Cardinality(Released(Append(h, e))) =
                Cardinality(Released(h)) + (IF e.by = "scheduler" THEN 1 ELSE 0)
<1>1. Len(h) \in Nat /\ DOMAIN h = 1 .. Len(h) /\ IsFiniteSet(1 .. Len(h))
  BY FS_Interval
<1>2. Released(h) \in SUBSET (1 .. Len(h))
  BY <1>1 DEF Released
<1>3. IsFiniteSet(Released(h)) /\ Cardinality(Released(h)) \in Nat
  BY <1>1, <1>2, FS_Subset, FS_CardinalityType
<1>4. Len(h) + 1 \notin Released(h)
  BY <1>1, <1>2
<1>. SUFFICES ASSUME NEW e \in Entries
              PROVE  Cardinality(Released(Append(h, e))) =
                       Cardinality(Released(h)) + (IF e.by = "scheduler" THEN 1 ELSE 0)
  BY <1>3
<1>5. /\ DOMAIN Append(h, e) = 1 .. Len(h) + 1 /\ Append(h, e)[Len(h) + 1] = e
      /\ \A i \in 1 .. Len(h) : Append(h, e)[i] = h[i]
  OBVIOUS
<1>6. Released(Append(h, e)) = Released(h) \cup (IF e.by = "scheduler" THEN {Len(h) + 1} ELSE {})
  BY <1>1, <1>5 DEF Released
<1>. HIDE DEF Released
<1>7. CASE e.by = "scheduler"
  BY <1>3, <1>4, <1>6, <1>7, FS_AddElement
<1>8. CASE e.by # "scheduler"
  BY <1>3, <1>6, <1>8
<1>. QED  BY <1>3, <1>7, <1>8

LEMMA ReleasesCountedPreserves ==
  ASSUME CoreInv, ReleasesCounted, Next
  PROVE  ReleasesCounted'
<1>1. \A o \in Orders : history[o] \in Seq(Entries) /\ Releases(o) = Cardinality(Released(history[o]))
  BY DEF CoreInv, TypeOK, StoreTypeOK, Releases, Released
<1>2. \A o \in Orders : Releases(o)' = Cardinality(Released(history'[o]))
  BY DEF Releases, Released
<1>3. \A o \in Orders : /\ job[o].stalls \in Nat /\ job'[o].stalls \in Nat
                         /\ job[o].unanswered \in Nat /\ job'[o].unanswered \in Nat
                         /\ Releases(o) \in Nat /\ JobStep(o)
  <2>1. QueueTypeOK /\ QueueTypeOK'
    BY CorePreserves DEF CoreInv, TypeOK
  <2>2. \A o \in Orders : /\ job[o].stalls \in Nat /\ job'[o].stalls \in Nat
                           /\ job[o].unanswered \in Nat /\ job'[o].unanswered \in Nat
    BY <2>1 DEF QueueTypeOK, Jobs
  <2>3. \A o \in Orders : Releases(o) \in Nat
    BY <1>1, ReleasedLemma
  <2>. QED  BY <2>2, <2>3, JobStepLemma
<1>4. ASSUME NEW o \in Orders, history'[o] = history[o]
      PROVE  Releases(o)' <= job'[o].stalls + job'[o].unanswered + (IF MayRelease(o)' THEN 0 ELSE 1)
  BY <1>1, <1>2, <1>3, <1>4 DEF ReleasesCounted, JobStep
<1>5. CASE UNCHANGED history
  BY <1>4, <1>5 DEF ReleasesCounted
<1>6. ASSUME NEW o \in Orders, NEW e \in Entries, Written(o, e)
      PROVE  ReleasesCounted'
  <2>1. /\ history'[o] = Append(history[o], e)
        /\ \A p \in Orders \ {o} : history'[p] = history[p]
    BY <1>6 DEF Written, Writes
  <2>2. Releases(o)' = Releases(o) + (IF e.by = "scheduler" THEN 1 ELSE 0)
    BY <1>1, <1>2, <2>1, ReleasedLemma
  <2>3. CASE e.by = "scheduler"
    <3>1. WorkerWrites(o, e)
      BY <1>6, <2>3 DEF Written, CreateWrites, UpdateWrites
    <3>2. worker.order = o /\ worker.pc = "releaseTx" /\ job[o].state = "active" /\ MayRelease(o)
      BY <3>1 DEF WorkerWrites, CoreInv, WorkerOK, MayRelease
    <3>3. \/ /\ job'[o].stalls = job[o].stalls /\ job'[o].unanswered = job[o].unanswered
             /\ ~ MayRelease(o)'
          \/ job'[o].stalls = job[o].stalls /\ job'[o].unanswered = job[o].unanswered + 1
      <4>1. CASE WorkerGoto("announce") /\ UNCHANGED job
        <5>1. worker'.pc = "announce" /\ job' = job
          BY <4>1 DEF WorkerGoto, CoreInv, TypeOK, WorkerTypeOK
        <5>. QED  BY <3>2, <5>1 DEF MayRelease
      <4>2. CASE FailUnanswered(o)
        <5>1. QueueTypeOK /\ job[o].attempts < JobAttempts /\ job[o].unanswered <= job[o].attempts
          BY <3>2 DEF CoreInv, TypeOK, JobsOK, Live
        <5>. QED  BY <4>2, <5>1, FailUnansweredLemma
      <4>. QED  BY <3>1, <4>1, <4>2 DEF WorkerWrites
    <3>4. Releases(o)' <= job'[o].stalls + job'[o].unanswered + (IF MayRelease(o)' THEN 0 ELSE 1)
      <4>1. Releases(o) <= job[o].stalls + job[o].unanswered + (IF MayRelease(o) THEN 0 ELSE 1)
        BY DEF ReleasesCounted
      <4>2. /\ job[o].stalls \in Nat /\ job[o].unanswered \in Nat /\ Releases(o) \in Nat
            /\ Releases(o)' = Releases(o) + 1
        BY <1>3, <2>2, <2>3
      <4>. QED  BY <3>2, <3>3, <4>1, <4>2
    <3>. QED  BY <1>4, <2>1, <3>4 DEF ReleasesCounted
  <2>4. CASE e.by # "scheduler"
    <3>1. Releases(o)' <= job'[o].stalls + job'[o].unanswered + (IF MayRelease(o)' THEN 0 ELSE 1)
      BY <1>3, <2>1, <2>2, <2>4 DEF ReleasesCounted, JobStep
    <3>. QED  BY <1>4, <2>1, <3>1 DEF ReleasesCounted
  <2>. QED  BY <2>3, <2>4
<1>. QED  BY <1>5, <1>6, StepWritesLemma

\* An order is released at most once for each delivery of its job, and once more
\* for each attempt whose commit was not acknowledged: every other retry of
\* scheduled-orders.processor.ts repeats what has failed before the release.
THEOREM DeliveriesReleaseOnce == Spec => []ReleasedOncePerDelivery
<1>1. Init => ReleasesCounted
  <2>. SUFFICES ASSUME Init, NEW o \in Orders
                PROVE  Releases(o) <= job[o].stalls + job[o].unanswered + (IF MayRelease(o) THEN 0 ELSE 1)
    BY DEF ReleasesCounted
  <2>1. Releases(o) = 0 /\ job[o].stalls = 0 /\ job[o].unanswered = 0
    <3>1. history[o] = <<>> /\ job[o].stalls = 0 /\ job[o].unanswered = 0
      BY DEF Init, StoreInit, QueueInit, NewJob
    <3>2. {i \in DOMAIN history[o] : history[o][i].by = "scheduler"} = {}
      BY <3>1
    <3>3. Releases(o) = Cardinality({})
      BY <3>2 DEF Releases
    <3>4. Cardinality({}) = 0
      BY FS_EmptySet
    <3>. QED  BY <3>1, <3>3, <3>4
  <2>. QED  BY <2>1
<1>2. ReleasesCounted /\ UNCHANGED vars => ReleasesCounted'
  BY DEF vars, storeVars, ReleasesCounted, Releases, MayRelease
<1>3. IInv /\ ReleasesCounted /\ [Next]_vars => ReleasesCounted'
  BY <1>2, ReleasesCountedPreserves DEF IInv
<1>4. IInv /\ ReleasesCounted => ReleasedOncePerDelivery
  <2>. SUFFICES ASSUME IInv, ReleasesCounted, NEW o \in Orders
                PROVE  Releases(o) <= 1 + job[o].stalls + job[o].unanswered
    BY DEF ReleasedOncePerDelivery
  <2>1. history[o] \in Seq(Entries) /\ job[o].stalls \in Nat /\ job[o].unanswered \in Nat
    BY DEF IInv, CoreInv, TypeOK, StoreTypeOK, QueueTypeOK, Jobs
  <2>2. Releases(o) \in Nat
    <3>1. Cardinality(Released(history[o])) \in Nat
      BY <2>1, ReleasedLemma
    <3>. QED  BY <3>1 DEF Releases, Released
  <2>3. Releases(o) <= job[o].stalls + job[o].unanswered + (IF MayRelease(o) THEN 0 ELSE 1)
    BY DEF ReleasesCounted
  <2>. QED  BY <2>1, <2>2, <2>3
<1>. QED  BY <1>1, <1>3, <1>4, InvariantHolds, PTL DEF Spec

-----------------------------------------------------------------------------
(* The system implements OrderJournal: what its steps do to the journal,     *)
(* to what is owed and to what was told                                      *)

\* The handler in slot r has committed status s of order o, and will announce
\* it; so will the worker.
Owes(r, o, s) ==
  /\ req[r].order = o
  /\ \/ req[r].pc \in {"enqueue", "announceCreated"} /\ s = "PENDING"
     \/ req[r].pc = "announceUpdated" /\ s = req[r].target

WorkerOwes(o, s) == worker.pc = "announce" /\ worker.order = o /\ s = "PREPARING"

Owers(o, s) == {r \in Requests : Owes(r, o, s)}

\* Owing counts them.
LEMMA OwingLemma ==
  ASSUME NEW o, NEW s
  PROVE  /\ Owing(o, s) = Cardinality(Owers(o, s)) + (IF WorkerOwes(o, s) THEN 1 ELSE 0)
         /\ IsFiniteSet(Owers(o, s)) /\ Cardinality(Owers(o, s)) \in Nat
         /\ Owing(o, s) \in Nat
<1>1. Owing(o, s) = Cardinality(Owers(o, s)) + (IF WorkerOwes(o, s) THEN 1 ELSE 0)
  BY DEF Owing, Owers, Owes, WorkerOwes
<1>2. Owers(o, s) \in SUBSET Requests
  BY DEF Owers
<1>3. IsFiniteSet(Owers(o, s)) /\ Cardinality(Owers(o, s)) \in Nat
  BY <1>2, SlotsAssumption, FS_Subset, FS_CardinalityType
<1>. QED  BY <1>1, <1>3

\* The same of the next state.
LEMMA OwingNextLemma ==
  ASSUME NEW o, NEW s
  PROVE  /\ Owing(o, s)' = Cardinality(Owers(o, s)') + (IF WorkerOwes(o, s)' THEN 1 ELSE 0)
         /\ IsFiniteSet(Owers(o, s)') /\ Cardinality(Owers(o, s)') \in Nat
         /\ Owing(o, s)' \in Nat
<1>1. Owing(o, s)' = Cardinality(Owers(o, s)') + (IF WorkerOwes(o, s)' THEN 1 ELSE 0)
  BY DEF Owing, Owers, Owes, WorkerOwes
<1>2. Owers(o, s)' \in SUBSET Requests
  BY DEF Owers
<1>3. IsFiniteSet(Owers(o, s)') /\ Cardinality(Owers(o, s)') \in Nat
  BY <1>2, SlotsAssumption, FS_Subset, FS_CardinalityType
<1>. QED  BY <1>1, <1>3

\* A step of one handler changes what is owed by its own debt.
LEMMA SlotDebtLemma ==
  ASSUME NEW r \in Requests, OtherSlots(r), UNCHANGED worker, NEW o, NEW s
  PROVE  /\ (Owes(r, o, s)' <=> Owes(r, o, s)) => Owing(o, s)' = Owing(o, s)
         /\ Owes(r, o, s)' /\ ~ Owes(r, o, s) => Owing(o, s)' = Owing(o, s) + 1
         /\ ~ Owes(r, o, s)' /\ Owes(r, o, s) => Owing(o, s) = Owing(o, s)' + 1
<1>1. \A q \in Requests \ {r} : Owes(q, o, s)' <=> Owes(q, o, s)
  BY DEF Owes, OtherSlots
<1>2. WorkerOwes(o, s)' <=> WorkerOwes(o, s)
  BY DEF WorkerOwes
<1>3. (Owes(r, o, s)' <=> Owes(r, o, s)) => Owers(o, s)' = Owers(o, s)
  BY <1>1 DEF Owers
<1>4. Owes(r, o, s)' /\ ~ Owes(r, o, s) => r \notin Owers(o, s) /\ Owers(o, s)' = Owers(o, s) \cup {r}
  BY <1>1 DEF Owers
<1>5. ~ Owes(r, o, s)' /\ Owes(r, o, s) => r \notin Owers(o, s)' /\ Owers(o, s) = Owers(o, s)' \cup {r}
  BY <1>1 DEF Owers
<1>6. /\ Owes(r, o, s)' /\ ~ Owes(r, o, s) => Cardinality(Owers(o, s)') = Cardinality(Owers(o, s)) + 1
      /\ ~ Owes(r, o, s)' /\ Owes(r, o, s) => Cardinality(Owers(o, s)) = Cardinality(Owers(o, s)') + 1
  BY <1>4, <1>5, OwingLemma, OwingNextLemma, FS_AddElement
<1>7. /\ Owing(o, s) = Cardinality(Owers(o, s)) + (IF WorkerOwes(o, s) THEN 1 ELSE 0)
      /\ Owing(o, s)' = Cardinality(Owers(o, s)') + (IF WorkerOwes(o, s) THEN 1 ELSE 0)
      /\ Cardinality(Owers(o, s)) \in Nat /\ Cardinality(Owers(o, s)') \in Nat
  BY <1>2, OwingLemma, OwingNextLemma
<1>. QED  BY <1>3, <1>6, <1>7

\* A step of the worker changes what is owed by the worker's debt.
LEMMA WorkerDebtLemma ==
  ASSUME UNCHANGED req, NEW o, NEW s
  PROVE  /\ (WorkerOwes(o, s)' <=> WorkerOwes(o, s)) => Owing(o, s)' = Owing(o, s)
         /\ WorkerOwes(o, s)' /\ ~ WorkerOwes(o, s) => Owing(o, s)' = Owing(o, s) + 1
         /\ ~ WorkerOwes(o, s)' /\ WorkerOwes(o, s) => Owing(o, s) = Owing(o, s)' + 1
<1>1. Owers(o, s)' = Owers(o, s)
  BY DEF Owers, Owes
<1>2. /\ Owing(o, s) = Cardinality(Owers(o, s)) + (IF WorkerOwes(o, s) THEN 1 ELSE 0)
      /\ Owing(o, s)' = Cardinality(Owers(o, s)) + (IF WorkerOwes(o, s)' THEN 1 ELSE 0)
      /\ Cardinality(Owers(o, s)) \in Nat
  BY <1>1, OwingLemma, OwingNextLemma
<1>. QED  BY <1>2

-----------------------------------------------------------------------------
(* The steps of OrderJournal, seen from the system *)

\* The journal of a history that gets one more row.
LEMMA JournalLemma ==
  ASSUME NEW h \in Seq(Entries), NEW e \in Entries, NEW g, g = Append(h, e)
  PROVE  [i \in 1 .. Len(g) |-> g[i].status] = Append([i \in 1 .. Len(h) |-> h[i].status], e.status)
<1>. DEFINE J == [i \in 1 .. Len(h) |-> h[i].status]
            K == [i \in 1 .. Len(g) |-> g[i].status]
<1>1. Len(h) \in Nat /\ Len(g) = Len(h) + 1 /\ g[Len(h) + 1] = e /\ \A i \in 1 .. Len(h) : g[i] = h[i]
  OBVIOUS
<1>2. J \in Seq(Statuses) /\ Len(J) = Len(h)
  <2>1. \A i \in 1 .. Len(h) : h[i] \in Entries
    OBVIOUS
  <2>2. \A i \in 1 .. Len(h) : h[i].status \in Statuses
    BY <2>1 DEF Entries
  <2>. QED  BY <1>1, <2>2
<1>3. DOMAIN K = 1 .. Len(h) + 1 /\ \A i \in 1 .. Len(h) + 1 : K[i] = g[i].status
  BY <1>1
<1>4. e.status \in Statuses
  BY DEF Entries
<1>5. /\ DOMAIN Append(J, e.status) = 1 .. Len(h) + 1
      /\ Append(J, e.status)[Len(h) + 1] = e.status
      /\ \A i \in 1 .. Len(h) : Append(J, e.status)[i] = J[i]
      /\ Append(J, e.status) \in Seq(Statuses)
  BY <1>2, <1>4
<1>6. K \in Seq(Statuses)
  <2>1. \A i \in 1 .. Len(g) : g[i] \in Entries
    BY <1>1
  <2>2. \A i \in 1 .. Len(g) : g[i].status \in Statuses
    BY <2>1 DEF Entries
  <2>. QED  BY <1>1, <2>2
<1>7. \A i \in 1 .. Len(h) + 1 : K[i] = Append(J, e.status)[i]
  BY <1>1, <1>3, <1>5
<1>. QED  BY <1>1, <1>3, <1>5, <1>6, <1>7

\* A table of counters in which one has changed.
Counters == [Orders -> [Statuses -> Nat]]

LEMMA CountersLemma ==
  ASSUME NEW f \in Counters, NEW g \in Counters, NEW o \in Orders, NEW s \in Statuses, NEW n,
         g[o][s] = n,
         \A p \in Orders, t \in Statuses : <<p, t>> # <<o, s>> => g[p][t] = f[p][t]
  PROVE  g = [f EXCEPT ![o][s] = n]
<1>1. ASSUME NEW p \in Orders \ {o} PROVE g[p] = f[p]
  <2>1. f[p] \in [Statuses -> Nat] /\ g[p] \in [Statuses -> Nat]
    BY DEF Counters
  <2>2. \A t \in Statuses : g[p][t] = f[p][t]
    OBVIOUS
  <2>. QED  BY <2>1, <2>2
<1>2. g[o] = [f[o] EXCEPT ![s] = n]
  BY DEF Counters
<1>. QED  BY <1>1, <1>2 DEF Counters

\* What the abstract variables are in the system.
JournalOf == [o \in Orders |-> Journal(o)]
StatusOf  == [o \in Orders |-> orders[o].status]
OwedOf    == [o \in Orders |-> [s \in Statuses |-> Owing(o, s)]]
ToldOf    == [o \in Orders |-> [s \in Statuses |-> Broadcasts(o, s)]]

LEMMA OwedTypeLemma == OwedOf \in Counters /\ OwedOf' \in Counters
<1>1. \A o \in Orders, s \in Statuses : Owing(o, s) \in Nat /\ Owing(o, s)' \in Nat
  BY OwingLemma, OwingNextLemma
<1>. QED  BY <1>1 DEF OwedOf, Counters

\* Steps that write and announce nothing leave all but the debts alone.
LEMMA RestLemma ==
  ASSUME UNCHANGED <<orders, history, announced>>
  PROVE  UNCHANGED <<JournalOf, StatusOf, ToldOf>>
BY DEF JournalOf, StatusOf, ToldOf, Journal, Broadcasts

\* If no debt changes either, it is a stutter.
LEMMA AbstractStutter ==
  ASSUME UNCHANGED <<orders, history, announced>>,
         \A o \in Orders, s \in Statuses : Owing(o, s)' = Owing(o, s)
  PROVE  UNCHANGED Abstract!journalVars
<1>1. UNCHANGED OwedOf
  BY DEF OwedOf
<1>. QED  BY <1>1, RestLemma DEF Abstract!journalVars, JournalOf, StatusOf, OwedOf, ToldOf

\* Debts that are dropped are lost.
LEMMA AbstractLose ==
  ASSUME UNCHANGED <<orders, history, announced>>, MaxFaults > 0 \/ MaxCrashes > 0,
         \A o \in Orders, s \in Statuses : Owing(o, s)' <= Owing(o, s)
  PROVE  Abstract!Lose
<1>1. \A o \in Orders, s \in Statuses : OwedOf'[o][s] <= OwedOf[o][s]
  BY DEF OwedOf
<1>. QED
  BY <1>1, RestLemma
     DEF Abstract!Lose, Abstract!Statuses, Statuses, JournalOf, StatusOf, OwedOf, ToldOf

\* A transaction enters its status in the journal.
LEMMA AbstractRecord ==
  ASSUME CoreInv, NEW o \in Orders, NEW e \in Entries, Writes(o, e),
         Exists(o) <=> e.status # "PENDING"
  PROVE  Abstract!Record(o, e.status)
<1>1. e.status \in Statuses
  BY DEF Entries
<1>2. history[o] \in Seq(Entries) /\ history'[o] = Append(history[o], e)
  BY DEF CoreInv, TypeOK, StoreTypeOK, Writes
<1>3. Journal(o)' = Append(Journal(o), e.status)
  BY <1>2, JournalLemma DEF Journal
<1>4. \A p \in Orders \ {o} : Journal(p)' = Journal(p)
  BY DEF Journal, Writes
<1>5. JournalOf' = [JournalOf EXCEPT ![o] = Append(JournalOf[o], e.status)]
  BY <1>3, <1>4 DEF JournalOf
<1>6. StatusOf' = [StatusOf EXCEPT ![o] = e.status]
  BY DEF StatusOf, Writes
<1>7. JournalOf[o] = <<>> <=> e.status = "PENDING"
  <2>1. history[o] = <<>> <=> ~ Exists(o)
    BY DEF CoreInv, HistoryBegins
  <2>2. JournalOf[o] = <<>> <=> Len(history[o]) = 0
    BY <1>2 DEF JournalOf, Journal
  <2>. QED  BY <1>2, <2>1, <2>2
<1>. QED
  BY <1>5, <1>6, <1>7 DEF Abstract!Record, JournalOf, StatusOf

\* A transaction writes the journal and owes a broadcast.
LEMMA AbstractWrite ==
  ASSUME CoreInv, NEW o \in Orders, NEW e \in Entries, Writes(o, e), UNCHANGED announced,
         Exists(o) <=> e.status # "PENDING",
         Owing(o, e.status)' = Owing(o, e.status) + 1,
         \A p \in Orders, t \in Statuses :
           <<p, t>> # <<o, e.status>> => Owing(p, t)' = Owing(p, t)
  PROVE  Abstract!Write(o, e.status)
<1>1. e.status \in Statuses
  BY DEF Entries
<1>2. OwedOf' = [OwedOf EXCEPT ![o][e.status] = OwedOf[o][e.status] + 1]
  <2>1. OwedOf'[o][e.status] = OwedOf[o][e.status] + 1
    BY <1>1 DEF OwedOf
  <2>2. \A p \in Orders, t \in Statuses :
          <<p, t>> # <<o, e.status>> => OwedOf'[p][t] = OwedOf[p][t]
    BY DEF OwedOf
  <2>. QED  BY <1>1, <2>1, <2>2, OwedTypeLemma, CountersLemma
<1>3. UNCHANGED ToldOf
  BY DEF ToldOf, Broadcasts
<1>4. Abstract!Record(o, e.status)
  BY AbstractRecord
<1>. QED
  BY <1>2, <1>3, <1>4 DEF Abstract!Write, OwedOf, ToldOf

\* A transaction whose answer is lost writes the journal and owes nothing.
LEMMA AbstractWriteUnheard ==
  ASSUME CoreInv, NEW o \in Orders, NEW e \in Entries, Writes(o, e), UNCHANGED announced,
         Exists(o) <=> e.status # "PENDING", faults' \in 1 .. MaxFaults,
         \A p \in Orders, t \in Statuses : Owing(p, t)' = Owing(p, t)
  PROVE  Abstract!WriteUnheard(o, e.status)
<1>1. UNCHANGED <<OwedOf, ToldOf>>
  BY DEF OwedOf, ToldOf, Broadcasts
<1>2. Abstract!Record(o, e.status)
  BY AbstractRecord
<1>3. MaxFaults > 0
  BY FaultsAssumption
<1>. QED
  BY <1>1, <1>2, <1>3 DEF Abstract!WriteUnheard, OwedOf, ToldOf

\* How often a status occurs in a sequence of broadcasts.
Occurs(b, s) == {i \in DOMAIN b : b[i] = s}

LEMMA OccursLemma ==
  ASSUME NEW b \in Seq(Statuses), NEW s \in Statuses, NEW t \in Statuses
  PROVE  /\ Cardinality(Occurs(b, s)) \in Nat
         /\ Cardinality(Occurs(Append(b, t), s)) =
              Cardinality(Occurs(b, s)) + (IF s = t THEN 1 ELSE 0)
<1>1. Len(b) \in Nat /\ DOMAIN b = 1 .. Len(b) /\ IsFiniteSet(1 .. Len(b))
  BY FS_Interval
<1>2. Occurs(b, s) \in SUBSET (1 .. Len(b))
  BY <1>1 DEF Occurs
<1>3. IsFiniteSet(Occurs(b, s)) /\ Cardinality(Occurs(b, s)) \in Nat
  BY <1>1, <1>2, FS_Subset, FS_CardinalityType
<1>4. Len(b) + 1 \notin Occurs(b, s)
  BY <1>1, <1>2
<1>5. /\ DOMAIN Append(b, t) = 1 .. Len(b) + 1 /\ Append(b, t)[Len(b) + 1] = t
      /\ \A i \in 1 .. Len(b) : Append(b, t)[i] = b[i]
  OBVIOUS
<1>6. Occurs(Append(b, t), s) = Occurs(b, s) \cup (IF s = t THEN {Len(b) + 1} ELSE {})
  BY <1>1, <1>5 DEF Occurs
<1>7. CASE s = t
  BY <1>3, <1>4, <1>6, <1>7, FS_AddElement
<1>8. CASE s # t
  BY <1>3, <1>6, <1>8
<1>. QED  BY <1>3, <1>7, <1>8

\* An announcement pays a debt.
LEMMA AbstractBroadcast ==
  ASSUME CoreInv, NEW o \in Orders, NEW s \in Statuses, Announce(o, s),
         UNCHANGED <<orders, history>>,
         Owing(o, s) = Owing(o, s)' + 1,
         \A p \in Orders, t \in Statuses : <<p, t>> # <<o, s>> => Owing(p, t)' = Owing(p, t)
  PROVE  Abstract!Broadcast(o, s)
<1>1. /\ \A p \in Orders : announced[p] \in Seq(Statuses)
      /\ announced'[o] = Append(announced[o], s)
      /\ \A p \in Orders \ {o} : announced'[p] = announced[p]
  BY DEF CoreInv, TypeOK, StoreTypeOK, Announce
<1>2. \A p \in Orders, t \in Statuses :
        /\ Broadcasts(p, t) = Cardinality(Occurs(announced[p], t))
        /\ Broadcasts(p, t)' = Cardinality(Occurs(announced'[p], t))
  BY DEF Broadcasts, Occurs
<1>3. \A p \in Orders, t \in Statuses :
        /\ Broadcasts(p, t) \in Nat
        /\ Broadcasts(p, t)' = Broadcasts(p, t) + (IF <<p, t>> = <<o, s>> THEN 1 ELSE 0)
  <2>. SUFFICES ASSUME NEW p \in Orders, NEW t \in Statuses
                PROVE  /\ Broadcasts(p, t) \in Nat
                       /\ Broadcasts(p, t)' = Broadcasts(p, t) + (IF <<p, t>> = <<o, s>> THEN 1 ELSE 0)
    OBVIOUS
  <2>1. Broadcasts(p, t) \in Nat
    BY <1>1, <1>2, OccursLemma
  <2>2. CASE p = o
    <3>1. Cardinality(Occurs(announced'[o], t))
            = Cardinality(Occurs(announced[o], t)) + (IF t = s THEN 1 ELSE 0)
      <4>1. announced[o] \in Seq(Statuses) /\ announced'[o] = Append(announced[o], s)
        BY <1>1
      <4>. QED  BY <4>1, OccursLemma
    <3>2. <<p, t>> = <<o, s>> <=> t = s
      BY <2>2
    <3>. QED  BY <1>2, <2>1, <2>2, <3>1, <3>2
  <2>3. CASE p # o
    BY <1>1, <1>2, <2>1, <2>3
  <2>. QED  BY <2>1, <2>2, <2>3
<1>4. ToldOf \in Counters /\ ToldOf' \in Counters
  BY <1>3 DEF ToldOf, Counters
<1>5. ToldOf' = [ToldOf EXCEPT ![o][s] = ToldOf[o][s] + 1]
  <2>1. ToldOf'[o][s] = ToldOf[o][s] + 1
    BY <1>3 DEF ToldOf
  <2>2. \A p \in Orders, t \in Statuses : <<p, t>> # <<o, s>> => ToldOf'[p][t] = ToldOf[p][t]
    BY <1>3 DEF ToldOf
  <2>. QED  BY <1>4, <2>1, <2>2, CountersLemma
<1>6. OwedOf[o][s] > 0 /\ OwedOf' = [OwedOf EXCEPT ![o][s] = OwedOf[o][s] - 1]
  <2>1. Owing(o, s) \in Nat /\ Owing(o, s)' \in Nat
    BY OwingLemma, OwingNextLemma
  <2>2. OwedOf'[o][s] = OwedOf[o][s] - 1 /\ OwedOf[o][s] > 0
    BY <2>1 DEF OwedOf
  <2>3. \A p \in Orders, t \in Statuses : <<p, t>> # <<o, s>> => OwedOf'[p][t] = OwedOf[p][t]
    BY DEF OwedOf
  <2>. QED  BY <2>2, <2>3, OwedTypeLemma, CountersLemma
<1>7. UNCHANGED <<JournalOf, StatusOf>>
  BY DEF JournalOf, StatusOf, Journal
<1>. QED
  BY <1>5, <1>6, <1>7 DEF Abstract!Broadcast, JournalOf, StatusOf, OwedOf, ToldOf

-----------------------------------------------------------------------------
(* The system's steps are steps of OrderJournal *)

AbstractNext == Abstract!JournalNext \/ UNCHANGED Abstract!journalVars

\* A handler that had no debt, and has none, is not seen in the journal.
Indebted == {"enqueue", "announceCreated", "announceUpdated"}

LEMMA SilentSlotLemma ==
  ASSUME NEW r \in Requests, OtherSlots(r), UNCHANGED <<worker, orders, history, announced>>,
         req[r].pc \notin Indebted, req'[r].pc \notin Indebted
  PROVE  AbstractNext
<1>1. \A o \in Orders, s \in Statuses : ~ Owes(r, o, s)' /\ ~ Owes(r, o, s)
  BY DEF Owes, Indebted
<1>2. \A o \in Orders, s \in Statuses : Owing(o, s)' = Owing(o, s)
  BY <1>1, SlotDebtLemma
<1>. QED  BY <1>2, AbstractStutter DEF AbstractNext

\* A handler that announces what it owes, and ends.
LEMMA PayingSlotLemma ==
  ASSUME CoreInv, NEW r \in Requests, NEW o \in Orders, NEW s \in Statuses,
         Owes(r, o, s), \A p \in Orders, t \in Statuses : Owes(r, p, t) => p = o /\ t = s,
         Announce(o, s), End(r), UNCHANGED <<orders, history, worker>>
  PROVE  AbstractNext
<1>1. OtherSlots(r) /\ req'[r].pc = "idle"
  BY EndLemma DEF CoreInv, TypeOK
<1>2. \A p \in Orders, t \in Statuses : ~ Owes(r, p, t)'
  BY <1>1 DEF Owes
<1>3. Owing(o, s) = Owing(o, s)' + 1
  BY <1>1, <1>2, SlotDebtLemma
<1>4. \A p \in Orders, t \in Statuses : <<p, t>> # <<o, s>> => Owing(p, t)' = Owing(p, t)
  BY <1>1, <1>2, SlotDebtLemma
<1>5. Abstract!Broadcast(o, s)
  BY <1>3, <1>4, AbstractBroadcast
<1>. QED  BY <1>5 DEF AbstractNext, Abstract!JournalNext, Abstract!Statuses, Statuses

\* A call that fails drops the handler and its debt.
LEMMA LosingSlotLemma ==
  ASSUME CoreInv, NEW r \in Requests, NEW p, Fault(p), End(r),
         UNCHANGED <<orders, history, announced, worker>>
  PROVE  AbstractNext
<1>1. OtherSlots(r) /\ req'[r].pc = "idle"
  BY EndLemma DEF CoreInv, TypeOK
<1>2. \A o \in Orders, t \in Statuses : ~ Owes(r, o, t)'
  BY <1>1 DEF Owes
<1>3. ASSUME NEW o \in Orders, NEW s \in Statuses PROVE Owing(o, s)' <= Owing(o, s)
  <2>1. Owing(o, s) \in Nat /\ Owing(o, s)' \in Nat
    BY OwingLemma, OwingNextLemma
  <2>2. Owing(o, s)' = Owing(o, s) \/ Owing(o, s) = Owing(o, s)' + 1
    BY <1>1, <1>2, SlotDebtLemma
  <2>. QED  BY <2>1, <2>2
<1>4. MaxFaults > 0
  BY DEF Fault, CoreInv, TypeOK, FaultsTypeOK
<1>5. Abstract!Lose
  BY <1>3, <1>4, AbstractLose
<1>. QED  BY <1>5 DEF AbstractNext, Abstract!JournalNext

\* Steps that touch neither the rows, nor the broadcasts, nor who owes them.
LEMMA SilentStepLemma ==
  ASSUME UNCHANGED <<orders, history, announced, req, worker>>
  PROVE  AbstractNext
<1>1. \A o \in Orders, s \in Statuses : Owing(o, s)' = Owing(o, s)
  BY DEF Owing
<1>. QED  BY <1>1, AbstractStutter DEF AbstractNext

\* A call of the service starts without a debt.
LEMMA CallAbstracts ==
  ASSUME CoreInv, NEW r \in Requests, Call(r)
  PROVE  AbstractNext
<1>1. UNCHANGED <<worker, orders, history, announced>>
  BY DEF Call, ServiceCall, CreateStart, UpdateStart, CancelStart, storeVars
<1>2. PICK h : h.pc \in {"createTx", "updateTx", "findJob", "revalidate"} /\ Begin(r, h)
  <2>1. CASE CreateStart(r)
    <3>1. PICK h : h.pc = "createTx" /\ Begin(r, h)
      BY <2>1 DEF CreateStart
    <3>. QED  BY <3>1
  <2>2. CASE UpdateStart(r)
    <3>1. PICK h : h.pc = "updateTx" /\ Begin(r, h)
      BY <2>2 DEF UpdateStart
    <3>. QED  BY <3>1
  <2>3. CASE CancelStart(r)
    <3>1. PICK h : h.pc \in {"findJob", "revalidate"} /\ Begin(r, h)
      BY <2>3 DEF CancelStart
    <3>. QED  BY <3>1
  <2>. QED  BY <2>1, <2>2, <2>3 DEF Call, ServiceCall
<1>3. req[r].pc = "idle" /\ req'[r] = h /\ OtherSlots(r)
  BY <1>2 DEF Begin, CoreInv, TypeOK, ServiceTypeOK, IdleReq, OtherSlots
<1>. QED  BY <1>1, <1>2, <1>3, SilentSlotLemma DEF Indebted

\* A handler that goes on without a debt.
LEMMA GotoAbstracts ==
  ASSUME CoreInv, NEW r \in Requests, NEW pc \in Pcs, Goto(r, pc),
         UNCHANGED <<worker, orders, history, announced>>,
         req[r].pc \notin Indebted, pc \notin Indebted
  PROVE  AbstractNext
<1>1. req'[r].pc = pc /\ OtherSlots(r)
  BY GotoLemma DEF CoreInv, TypeOK
<1>. QED  BY <1>1, SilentSlotLemma

\* A handler that ends without a debt.
LEMMA EndAbstracts ==
  ASSUME CoreInv, NEW r \in Requests, End(r),
         UNCHANGED <<worker, orders, history, announced>>,
         req[r].pc \notin Indebted
  PROVE  AbstractNext
<1>1. req'[r].pc = "idle" /\ OtherSlots(r)
  BY EndLemma DEF CoreInv, TypeOK
<1>2. req'[r].pc \notin Indebted
  BY <1>1 DEF Indebted
<1>. QED  BY <1>1, <1>2, SilentSlotLemma

\* The transactions of create and updateStatus: the handler that wrote owes.
LEMMA HandlerWriteAbstracts ==
  ASSUME CoreInv, NEW r \in Requests, NEW o \in Orders, NEW e \in Entries, Writes(o, e),
         UNCHANGED <<announced, worker>>, Exists(o) <=> e.status # "PENDING",
         OtherSlots(r), req[r].pc \notin Indebted,
         \A p \in Orders, t \in Statuses : Owes(r, p, t)' <=> p = o /\ t = e.status
  PROVE  AbstractNext
<1>1. \A p \in Orders, t \in Statuses : ~ Owes(r, p, t)
  BY DEF Owes, Indebted
<1>2. e.status \in Statuses
  BY DEF Entries
<1>3. Owing(o, e.status)' = Owing(o, e.status) + 1
  BY <1>1, <1>2, SlotDebtLemma
<1>4. \A p \in Orders, t \in Statuses :
        <<p, t>> # <<o, e.status>> => Owing(p, t)' = Owing(p, t)
  BY <1>1, SlotDebtLemma
<1>5. Abstract!Write(o, e.status)
  BY <1>3, <1>4, AbstractWrite
<1>. QED  BY <1>2, <1>5 DEF AbstractNext, Abstract!JournalNext, Abstract!Statuses, Statuses

\* The same transactions when their answer is lost: the handler that wrote
\* ends, and owes nothing.
LEMMA HandlerUnheardAbstracts ==
  ASSUME CoreInv, NEW r \in Requests, NEW o \in Orders, NEW e \in Entries, Writes(o, e),
         NEW f, Fault(f), End(r),
         UNCHANGED <<announced, worker>>, Exists(o) <=> e.status # "PENDING",
         req[r].pc \notin Indebted
  PROVE  AbstractNext
<1>1. OtherSlots(r) /\ req'[r].pc = "idle"
  BY EndLemma DEF CoreInv, TypeOK
<1>2. \A p \in Orders, t \in Statuses : ~ Owes(r, p, t) /\ ~ Owes(r, p, t)'
  BY <1>1 DEF Owes, Indebted
<1>3. \A p \in Orders, t \in Statuses : Owing(p, t)' = Owing(p, t)
  BY <1>1, <1>2, SlotDebtLemma
<1>4. faults' \in 1 .. MaxFaults
  BY DEF Fault, CoreInv, TypeOK, FaultsTypeOK
<1>5. Abstract!WriteUnheard(o, e.status)
  BY <1>3, <1>4, AbstractWriteUnheard
<1>6. e.status \in Statuses
  BY DEF Entries
<1>. QED  BY <1>5, <1>6 DEF AbstractNext, Abstract!JournalNext, Abstract!Statuses, Statuses

LEMMA CreateTxAbstracts ==
  ASSUME CoreInv, NEW r \in Requests, CreateTx(r), UNCHANGED <<worker, crashes>>
  PROVE  AbstractNext
<1>1. CASE Fault("createTx") /\ End(r) /\ UNCHANGED <<orders, history>>
  BY <1>1, LosingSlotLemma DEF CreateTx
<1>2. CASE InsertTx(req[r].order, req[r].row)
  <2>1. /\ req[r].pc = "createTx" /\ req[r].order \in Orders /\ ~ Exists(req[r].order)
        /\ req[r].row \in Rows /\ req[r].row.status = "PENDING"
        /\ UNCHANGED announced
    BY DEF CreateTx, CoreInv, RequestsOK, RequestOK
  <2>2. PICK o \in Orders : o = req[r].order
    BY <2>1
  <2>3. PICK e \in Entries : Writes(o, e)
    BY <1>2, <2>1, <2>2, InsertTxLemma DEF CoreInv, TypeOK
  <2>4. e.status = "PENDING"
    BY <1>2, <2>1, <2>2, <2>3, InsertTxLemma DEF CoreInv, TypeOK, Writes
  <2>5. CASE Goto(r, IF req[r].row.type = "SCHEDULED" THEN "enqueue" ELSE "announceCreated")
    <3>1. /\ req'[r].pc \in {"enqueue", "announceCreated"} /\ req'[r].order = o
          /\ OtherSlots(r)
      BY <2>2, <2>5, GotoLemma DEF CoreInv, TypeOK, Pcs
    <3>2. \A p \in Orders, t \in Statuses : Owes(r, p, t)' <=> p = o /\ t = e.status
      BY <2>4, <3>1 DEF Owes
    <3>. QED  BY <2>1, <2>2, <2>3, <2>4, <3>1, <3>2, HandlerWriteAbstracts DEF Indebted
  <2>6. CASE Fault("createTxAnswer") /\ End(r)
    BY <2>1, <2>2, <2>3, <2>4, <2>6, HandlerUnheardAbstracts DEF Indebted
  <2>. QED  BY <1>1, <2>5, <2>6 DEF CreateTx
<1>. QED  BY <1>1, <1>2 DEF CreateTx

LEMMA CreateEnqueueAbstracts ==
  ASSUME CoreInv, NEW r \in Requests, CreateEnqueue(r), UNCHANGED <<worker, crashes>>
  PROVE  AbstractNext
<1>1. UNCHANGED <<orders, history, announced>>
  BY DEF CreateEnqueue, storeVars
<1>2. CASE (Fault("enqueue") \/ Fault("enqueueAnswer")) /\ End(r)
  BY <1>1, <1>2, LosingSlotLemma
<1>3. CASE Goto(r, "announceCreated")
  <2>1. /\ req[r].pc = "enqueue" /\ req'[r].pc = "announceCreated"
        /\ req'[r].order = req[r].order /\ OtherSlots(r)
    BY <1>3, GotoLemma DEF CreateEnqueue, CoreInv, TypeOK, Pcs
  <2>2. \A o \in Orders, s \in Statuses : Owes(r, o, s)' <=> Owes(r, o, s)
    BY <2>1 DEF Owes
  <2>3. \A o \in Orders, s \in Statuses : Owing(o, s)' = Owing(o, s)
    BY <2>1, <2>2, SlotDebtLemma
  <2>. QED  BY <1>1, <2>3, AbstractStutter DEF AbstractNext
<1>. QED  BY <1>2, <1>3 DEF CreateEnqueue

LEMMA UpdateTxAbstracts ==
  ASSUME CoreInv, NEW r \in Requests, UpdateTx(r), UNCHANGED <<worker, crashes>>
  PROVE  AbstractNext
<1>1. CASE Fault("updateTx") /\ End(r) /\ UNCHANGED <<orders, history>>
  BY <1>1, LosingSlotLemma DEF UpdateTx
<1>2. CASE StatusTx(req[r].order, req[r].target, req[r].by)
  <2>1. /\ req[r].pc = "updateTx" /\ UNCHANGED announced
        /\ req[r].order \in Orders /\ Exists(req[r].order)
        /\ req[r].target \in Statuses \ {"PENDING"} /\ req[r].by \in Writers
    BY TransitionsLemma
       DEF UpdateTx, CoreInv, RequestsOK, RequestOK, TypeOK, ServiceTypeOK, Handlers
  <2>2. PICK o \in Orders, s \in Statuses, by \in Writers :
          o = req[r].order /\ s = req[r].target /\ by = req[r].by
    BY <2>1
  <2>. DEFINE e == [status |-> s, by |-> by]
  <2>3. Writes(o, e)
    BY <1>2, <2>1, <2>2, StatusTxLemma DEF CoreInv, TypeOK
  <2>4. e \in Entries /\ e.status = s
    BY DEF Entries
  <2>. HIDE DEF e
  <2>5. CASE Goto(r, "announceUpdated")
    <3>1. /\ req'[r].pc = "announceUpdated" /\ req'[r].order = o /\ req'[r].target = s
          /\ OtherSlots(r)
      BY <2>2, <2>5, GotoLemma DEF CoreInv, TypeOK, Pcs
    <3>2. \A p \in Orders, t \in Statuses : Owes(r, p, t)' <=> p = o /\ t = e.status
      BY <2>4, <3>1 DEF Owes
    <3>. QED  BY <2>1, <2>2, <2>3, <2>4, <3>1, <3>2, HandlerWriteAbstracts DEF Indebted
  <2>6. CASE Fault("updateTxAnswer") /\ End(r)
    BY <2>1, <2>2, <2>3, <2>4, <2>6, HandlerUnheardAbstracts DEF Indebted
  <2>. QED  BY <1>1, <2>5, <2>6 DEF UpdateTx
<1>. QED  BY <1>1, <1>2 DEF UpdateTx

LEMMA AnnounceAbstracts ==
  ASSUME CoreInv, NEW r \in Requests, CreateAnnounce(r) \/ UpdateAnnounce(r),
         UNCHANGED <<worker, crashes>>
  PROVE  AbstractNext
<1>1. req[r].order \in Orders /\ End(r) /\ UNCHANGED <<orders, history>>
  BY DEF CreateAnnounce, UpdateAnnounce, CoreInv, RequestsOK, RequestOK
<1>2. PICK o \in Orders : o = req[r].order
  BY <1>1
<1>3. CASE CreateAnnounce(r)
  <2>1. req[r].pc = "announceCreated" /\ Announce(o, "PENDING") /\ "PENDING" \in Statuses
    BY <1>2, <1>3 DEF CreateAnnounce, Statuses
  <2>2. \A p \in Orders, t \in Statuses : Owes(r, p, t) <=> p = o /\ t = "PENDING"
    BY <1>2, <2>1 DEF Owes
  <2>. QED  BY <1>1, <2>1, <2>2, PayingSlotLemma
<1>4. CASE UpdateAnnounce(r)
  <2>1. /\ req[r].pc = "announceUpdated" /\ Announce(o, req[r].target)
        /\ req[r].target \in Statuses
    BY <1>2, <1>4 DEF UpdateAnnounce, CoreInv, RequestsOK, RequestOK
  <2>2. \A p \in Orders, t \in Statuses : Owes(r, p, t) <=> p = o /\ t = req[r].target
    BY <1>2, <2>1 DEF Owes
  <2>. QED  BY <1>1, <2>1, <2>2, PayingSlotLemma
<1>. QED  BY <1>3, <1>4

LEMMA CancelAbstracts ==
  ASSUME CoreInv, NEW r \in Requests,
         CancelFindJob(r) \/ CancelRemoveJob(r) \/ CancelRevalidate(r),
         UNCHANGED <<worker, crashes>>
  PROVE  AbstractNext
<1>1. /\ req[r].pc \in {"findJob", "removeJob", "revalidate"}
      /\ UNCHANGED <<orders, history, announced>>
  BY DEF CancelFindJob, CancelRemoveJob, CancelRevalidate, storeVars
<1>2. req[r].pc \notin Indebted
  BY <1>1 DEF Indebted
<1>3. CASE End(r)
  BY <1>1, <1>2, <1>3, EndAbstracts
<1>4. ASSUME NEW pc \in {"removeJob", "revalidate"}, Goto(r, pc)
      PROVE  AbstractNext
  BY <1>1, <1>2, <1>4, GotoAbstracts DEF Indebted, Pcs
<1>5. ASSUME NEW seen, req' = [req EXCEPT ![r] = [req[r] EXCEPT !.pc = "updateTx", !.seen = seen,
                                                             !.target = "CANCELLED"]]
      PROVE  AbstractNext
  <2>1. req'[r].pc = "updateTx" /\ OtherSlots(r)
    BY <1>5 DEF CoreInv, TypeOK, ServiceTypeOK, Handlers, OtherSlots
  <2>. QED  BY <1>1, <1>2, <2>1, SilentSlotLemma DEF Indebted
<1>6. CancelRevalidate(r) => AbstractNext
  BY <1>3, <1>5 DEF CancelRevalidate
<1>. QED  BY <1>3, <1>4, <1>6 DEF CancelFindJob, CancelRemoveJob

\* The worker owes from its transaction to its broadcast.
LEMMA WorkerAbstracts ==
  ASSUME CoreInv, WorkerStep, UNCHANGED req
  PROVE  AbstractNext
<1>1. /\ worker.order \in Orders /\ worker.pc # "idle" /\ Exists(worker.order)
      /\ "PREPARING" \in Statuses
  BY DEF WorkerStep, WorkerRead, WorkerRelease, WorkerAnnounce, WorkerReturn, CoreInv, WorkerOK,
     Statuses
<1>2. PICK o \in Orders : o = worker.order
  BY <1>1
<1>3. ASSUME worker.pc # "announce", worker'.pc # "announce",
             UNCHANGED <<orders, history, announced>>
      PROVE  AbstractNext
  <2>1. \A p \in Orders, t \in Statuses : ~ WorkerOwes(p, t) /\ ~ WorkerOwes(p, t)'
    BY <1>3 DEF WorkerOwes
  <2>2. \A p \in Orders, t \in Statuses : Owing(p, t)' = Owing(p, t)
    BY <2>1, WorkerDebtLemma
  <2>. QED  BY <1>3, <2>2, AbstractStutter DEF AbstractNext
<1>4. CASE WorkerRead
  <2>1. worker.pc = "read" /\ worker'.pc # "announce" /\ UNCHANGED <<orders, history, announced>>
    BY <1>4 DEF WorkerRead, WorkerThrows, IdleWorker, storeVars
  <2>. QED  BY <1>3, <2>1
<1>5. CASE WorkerReturn
  <2>1. worker.pc = "return" /\ worker'.pc # "announce" /\ UNCHANGED <<orders, history, announced>>
    BY <1>5 DEF WorkerReturn, IdleWorker, storeVars
  <2>. QED  BY <1>3, <2>1
<1>6. CASE WorkerRelease
  <2>1. worker.pc = "releaseTx" /\ UNCHANGED announced
    BY <1>6 DEF WorkerRelease
  <2>2. CASE WorkerThrows /\ UNCHANGED <<orders, history>>
    BY <1>3, <2>1, <2>2 DEF WorkerThrows, IdleWorker
  <2>3. CASE StatusTx(o, "PREPARING", "scheduler")
    <3>. DEFINE e == [status |-> "PREPARING", by |-> "scheduler"]
    <3>1. Writes(o, e)
      BY <1>1, <1>2, <2>3, StatusTxLemma DEF CoreInv, TypeOK, Writers
    <3>2. e \in Entries /\ e.status = "PREPARING"
      BY DEF Entries, Writers, Statuses
    <3>. HIDE DEF e
    <3>3. CASE WorkerGoto("announce")
      <4>1. worker'.pc = "announce" /\ worker'.order = o
        BY <1>2, <3>3 DEF WorkerGoto, CoreInv, TypeOK, WorkerTypeOK
      <4>2. \A p \in Orders, t \in Statuses :
              ~ WorkerOwes(p, t) /\ (WorkerOwes(p, t)' <=> p = o /\ t = "PREPARING")
        BY <2>1, <4>1 DEF WorkerOwes
      <4>3. /\ Owing(o, "PREPARING")' = Owing(o, "PREPARING") + 1
            /\ \A p \in Orders, t \in Statuses :
                 <<p, t>> # <<o, "PREPARING">> => Owing(p, t)' = Owing(p, t)
        BY <1>1, <4>2, WorkerDebtLemma
      <4>4. Abstract!Write(o, e.status)
        BY <1>1, <1>2, <2>1, <3>1, <3>2, <4>3, AbstractWrite
      <4>. QED  BY <3>2, <4>4 DEF AbstractNext, Abstract!JournalNext, Abstract!Statuses
    <3>4. CASE Fault("releaseTxAnswer") /\ worker' = IdleWorker
      <4>1. \A p \in Orders, t \in Statuses : ~ WorkerOwes(p, t) /\ ~ WorkerOwes(p, t)'
        BY <2>1, <3>4 DEF WorkerOwes, IdleWorker
      <4>2. \A p \in Orders, t \in Statuses : Owing(p, t)' = Owing(p, t)
        BY <4>1, WorkerDebtLemma
      <4>3. faults' \in 1 .. MaxFaults
        BY <3>4 DEF Fault, CoreInv, TypeOK, FaultsTypeOK
      <4>4. Abstract!WriteUnheard(o, e.status)
        BY <1>1, <1>2, <2>1, <3>1, <3>2, <4>2, <4>3, AbstractWriteUnheard
      <4>. QED  BY <3>2, <4>4 DEF AbstractNext, Abstract!JournalNext, Abstract!Statuses
    <3>. QED  BY <1>2, <1>6, <2>2, <3>3, <3>4 DEF WorkerRelease
  <2>. QED  BY <1>2, <1>6, <2>2, <2>3 DEF WorkerRelease
<1>7. CASE WorkerAnnounce
  <2>1. /\ worker.pc = "announce" /\ Announce(o, "PREPARING") /\ UNCHANGED <<orders, history>>
        /\ worker'.pc = "return"
    BY <1>2, <1>7 DEF WorkerAnnounce, WorkerGoto, CoreInv, TypeOK, WorkerTypeOK
  <2>2. \A p \in Orders, t \in Statuses :
          ~ WorkerOwes(p, t)' /\ (WorkerOwes(p, t) <=> p = o /\ t = "PREPARING")
    BY <1>2, <2>1 DEF WorkerOwes
  <2>3. /\ Owing(o, "PREPARING") = Owing(o, "PREPARING")' + 1
        /\ \A p \in Orders, t \in Statuses :
             <<p, t>> # <<o, "PREPARING">> => Owing(p, t)' = Owing(p, t)
    BY <1>1, <2>2, WorkerDebtLemma
  <2>4. Abstract!Broadcast(o, "PREPARING")
    BY <1>1, <2>1, <2>3, AbstractBroadcast
  <2>. QED  BY <2>4 DEF AbstractNext, Abstract!JournalNext, Abstract!Statuses
<1>. QED  BY <1>4, <1>5, <1>6, <1>7 DEF WorkerStep

\* A crash loses every debt there is.
LEMMA CrashAbstracts ==
  ASSUME CoreInv, Crash
  PROVE  AbstractNext
<1>1. /\ MaxCrashes > 0 /\ worker'.pc = "idle" /\ \A r \in Requests : req'[r].pc = "idle"
      /\ UNCHANGED <<orders, history, announced>>
  BY DEF Crash, CoreInv, TypeOK, IdleWorker, IdleReq, storeVars
<1>2. \A o \in Orders, s \in Statuses : Owing(o, s)' = 0
  <2>. SUFFICES ASSUME NEW o \in Orders, NEW s \in Statuses PROVE Owing(o, s)' = 0
    OBVIOUS
  <2>1. Owers(o, s)' = {} /\ ~ WorkerOwes(o, s)'
    BY <1>1 DEF Owers, Owes, WorkerOwes
  <2>2. Cardinality(Owers(o, s)') = 0
    BY <2>1, FS_EmptySet
  <2>. QED  BY <2>1, <2>2, OwingNextLemma
<1>3. \A o \in Orders, s \in Statuses : Owing(o, s)' <= Owing(o, s)
  BY <1>2, OwingLemma
<1>4. Abstract!Lose
  BY <1>1, <1>3, AbstractLose
<1>. QED  BY <1>4 DEF AbstractNext, Abstract!JournalNext

LEMMA NextAbstracts ==
  ASSUME CoreInv, [Next]_vars
  PROVE  AbstractNext
<1>1. ASSUME NEW r \in Requests, Handler(r) PROVE AbstractNext
  BY <1>1, CreateTxAbstracts, CreateEnqueueAbstracts, UpdateTxAbstracts, AnnounceAbstracts,
     CancelAbstracts DEF Handler, HandlerStep
<1>2. ASSUME NEW o \in Orders, Take(o) PROVE AbstractNext
  <2>1. /\ worker.pc = "idle" /\ worker'.pc = "read"
        /\ UNCHANGED <<req, orders, history, announced>>
    BY <1>2 DEF Take, WorkerTake, IdleWorker, storeVars, serviceVars
  <2>2. \A p \in Orders, t \in Statuses : ~ WorkerOwes(p, t) /\ ~ WorkerOwes(p, t)'
    BY <2>1 DEF WorkerOwes
  <2>3. \A p \in Orders, t \in Statuses : Owing(p, t)' = Owing(p, t)
    BY <2>1, <2>2, WorkerDebtLemma
  <2>. QED  BY <2>1, <2>3, AbstractStutter DEF AbstractNext
<1>3. ASSUME NEW o \in Orders, Promote(o) \/ Stall(o) \/ Clock(o) PROVE AbstractNext
  BY <1>3, SilentStepLemma DEF Promote, Stall, Clock, TimePasses, storeVars, serviceVars
<1>4. Work => AbstractNext
  BY WorkerAbstracts DEF Work, serviceVars
<1>5. UNCHANGED vars => AbstractNext
  BY SilentStepLemma DEF vars, storeVars, serviceVars
<1>. QED  BY <1>1, <1>2, <1>3, <1>4, <1>5, CallAbstracts, CrashAbstracts DEF Next

\* The system starts as the journal does.
LEMMA InitAbstracts == Init => Abstract!JournalInit
<1>. SUFFICES ASSUME Init PROVE Abstract!JournalInit
  OBVIOUS
<1>1. \A o \in Orders : /\ orders[o].status = "ABSENT" /\ history[o] = <<>> /\ announced[o] = <<>>
                        /\ Len(history[o]) = 0
  BY DEF Init, StoreInit, Absent
<1>2. \A o \in Orders, s \in Statuses : Owing(o, s) = 0
  <2>. SUFFICES ASSUME NEW o \in Orders, NEW s \in Statuses PROVE Owing(o, s) = 0
    OBVIOUS
  <2>1. Owers(o, s) = {} /\ ~ WorkerOwes(o, s)
    BY DEF Init, ServiceInit, WorkerInit, IdleReq, IdleWorker, Owers, Owes, WorkerOwes
  <2>2. Cardinality(Owers(o, s)) = 0
    BY <2>1, FS_EmptySet
  <2>. QED  BY <2>1, <2>2, OwingLemma
<1>3. \A o \in Orders, s \in Statuses : Broadcasts(o, s) = 0
  <2>. SUFFICES ASSUME NEW o \in Orders, NEW s \in Statuses PROVE Broadcasts(o, s) = 0
    OBVIOUS
  <2>1. {i \in DOMAIN announced[o] : announced[o][i] = s} = {}
    BY <1>1
  <2>2. Cardinality({}) = 0
    BY FS_EmptySet
  <2>. QED  BY <2>1, <2>2 DEF Broadcasts
<1>4. JournalOf = [o \in Orders |-> <<>>]
  BY <1>1 DEF JournalOf, Journal
<1>. QED
  BY <1>1, <1>2, <1>3, <1>4
     DEF Abstract!JournalInit, Abstract!None, Abstract!Statuses, Statuses, JournalOf

\* The handlers, the queue and the worker together implement OrderJournal:
\* whatever fails, crashes or interleaves, an order's statuses are only
\* appended to its journal, the row shows the last of them, and each is
\* broadcast at most once, after it was committed.
THEOREM SystemImplementsJournal == Spec => ImplementsJournal
<1>1. IInv /\ [Next]_vars => [Abstract!JournalNext]_(Abstract!journalVars)
  BY NextAbstracts DEF IInv, AbstractNext
<1>. QED
  BY <1>1, InitAbstracts, InvariantHolds, PTL DEF Spec, ImplementsJournal, Abstract!JournalSpec
=============================================================================
