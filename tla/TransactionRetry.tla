--------------------------- MODULE TransactionRetry -------------------------
(***************************************************************************)
(* PrismaService.executeWithRetry: the loop around a transaction that runs  *)
(* it again when PostgreSQL aborted it for a deadlock or a write conflict   *)
(* (P2034), and lets every other error through.                             *)
(***************************************************************************)
EXTENDS Naturals

CONSTANTS
  Calls,        \* calls of executeWithRetry that run at the same time
  MaxRetries    \* parameter "maxRetries", 3 by default and for every caller

ASSUME RetryAssumption == MaxRetries \in Nat \ {0}

VARIABLES
  loop,      \* where each call stands: the loop's i, and what comes next
  applied    \* how often the transaction of each call was committed

retryVars == <<loop, applied>>

RetryTypeOK ==
  /\ loop \in [Calls -> [i  : 0 .. MaxRetries - 1,
                         pc : {"attempt", "sleep", "returned", "thrown"}]]
  /\ applied \in [Calls -> {0, 1}]

RetryInit ==
  /\ loop = [c \in Calls |-> [i |-> 0, pc |-> "attempt"]]
  /\ applied = [c \in Calls |-> 0]

Proceed(c, pc) == loop' = [loop EXCEPT ![c] = [i |-> loop[c].i, pc |-> pc]]
Apply(c)       == applied' = [applied EXCEPT ![c] = @ + 1]

\* The transaction commits and its result is returned.
Commit(c) ==
  /\ loop[c].pc = "attempt"
  /\ Apply(c)
  /\ Proceed(c, "returned")

\* Mutation: whatever error the transaction ends with, it is run again.
CommitUnnoticedRetried(c) ==
  /\ loop[c].pc = "attempt"
  /\ Apply(c)
  /\ Proceed(c, IF loop[c].i < MaxRetries - 1 THEN "sleep" ELSE "thrown")

\* The connection is lost after the commit: an error other than P2034.
CommitUnnoticed(c) ==
  /\ loop[c].pc = "attempt"
  /\ Apply(c)
  /\ Proceed(c, "thrown")

\* The callback throws, or the transaction fails otherwise.
Fail(c) ==
  /\ loop[c].pc = "attempt"
  /\ Proceed(c, "thrown")
  /\ UNCHANGED applied

MayRetry(i) == i < MaxRetries - 1

\* P2034: the transaction was rolled back.
Deadlock(c) ==
  /\ loop[c].pc = "attempt"
  /\ Proceed(c, IF MayRetry(loop[c].i) THEN "sleep" ELSE "thrown")
  /\ UNCHANGED applied

\* Mutation: the retry does not count.
WakeUncounted(c) ==
  /\ loop[c].pc = "sleep"
  /\ loop' = [loop EXCEPT ![c].pc = "attempt"]
  /\ UNCHANGED applied

\* The delay is over; "continue" counts the attempt.
Wake(c) ==
  /\ loop[c].pc = "sleep"
  /\ loop' = [loop EXCEPT ![c] = [i |-> loop[c].i + 1, pc |-> "attempt"]]
  /\ UNCHANGED applied

RetryStep(c) == Commit(c) \/ CommitUnnoticed(c) \/ Fail(c) \/ Deadlock(c) \/ Wake(c)

RetryNext == \E c \in Calls : RetryStep(c)

RetrySpec == RetryInit /\ [][RetryNext]_retryVars

-----------------------------------------------------------------------------
(* Properties *)

\* A transaction that may still run again has had no effect, one that was
\* returned has; and after a delay there is an attempt left, so that the loop
\* never ends by its condition: the error "Transaction failed after all
\* retries" is never thrown, callers see the last P2034.
RetryInv ==
  /\ RetryTypeOK
  /\ \A c \in Calls :
       /\ loop[c].pc \in {"attempt", "sleep"} => applied[c] = 0
       /\ loop[c].pc = "returned" => applied[c] = 1
       /\ loop[c].pc = "sleep" => loop[c].i + 1 < MaxRetries

Call == INSTANCE AtomicCall WITH
  outcome <- [c \in Calls |-> IF loop[c].pc \in {"attempt", "sleep"}
                              THEN "running" ELSE loop[c].pc],
  effect  <- applied

\* The loop implements one transaction that takes effect at most once: the
\* other modules model executeWithRetry as a single atomic step.
ImplementsAtomicCall == Call!CallSpec
=============================================================================
