--------------------------- MODULE MCOrderLifecycle -------------------------
(***************************************************************************)
(* Instances of OrderLifecycle small enough for TLC.                        *)
(***************************************************************************)
EXTENDS OrderLifecycle, TLC

CONSTANTS o1, o2, r1, r2

OneOrder  == {o1}
TwoOrders == {o1, o2}
OneSlot   == {r1}
TwoSlots  == {r1, r2}

Both          == Types
InstantOnly   == {"INSTANT"}
ScheduledOnly == {"SCHEDULED"}
AnyUpdate     == Statuses
Pickup        == {"PICKUP"}

NoFaults     == {}
WorkerFaults == {"workerRead", "releaseTx", "releaseTxAnswer"}
AllFaults    == WorkerFaults \cup
                {"createTx", "createTxAnswer", "enqueue", "enqueueAnswer", "updateTx",
                 "updateTxAnswer", "findJob", "removeJob", "revalidate"}

SlotSymmetry == Permutations({r1, r2})
Symmetry     == SlotSymmetry \cup Permutations({o1, o2})
=============================================================================
