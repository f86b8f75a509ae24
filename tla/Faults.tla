------------------------------- MODULE Faults -------------------------------
(***************************************************************************)
(* Calls to PostgreSQL and Redis that fail and throw.  FaultPoints names    *)
(* the calls that may fail in a run, MaxFaults bounds how often in all.  A  *)
(* call fails in one of two ways: it did nothing (the point "call"), or it  *)
(* did its work and its answer was lost (the point "callAnswer"); the       *)
(* caller sees the same exception.                                          *)
(***************************************************************************)
EXTENDS Naturals

CONSTANTS FaultPoints, MaxFaults

ASSUME FaultsAssumption == MaxFaults \in Nat

VARIABLE faults     \* how many calls have failed so far

FaultsTypeOK == faults \in 0 .. MaxFaults

FaultsInit == faults = 0

\* The call, or the answer, named p fails: the caller sees an exception.
Fault(p) ==
  /\ p \in FaultPoints
  /\ faults < MaxFaults
  /\ faults' = faults + 1

NoFault == UNCHANGED faults
=============================================================================
