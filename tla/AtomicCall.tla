------------------------------ MODULE AtomicCall -----------------------------
(***************************************************************************)
(* What the callers of PrismaService.executeWithRetry rely on: the call     *)
(* ends once; its transaction has taken effect if the call returned, and    *)
(* never more than once.                                                    *)
(***************************************************************************)
EXTENDS Naturals

CONSTANT Calls

VARIABLES
  outcome,   \* what the caller sees of each call
  effect     \* how often its transaction has taken effect

callVars == <<outcome, effect>>

CallInit ==
  /\ outcome = [c \in Calls |-> "running"]
  /\ effect = [c \in Calls |-> 0]

\* A call that throws may still have taken effect.
Finish(c) ==
  /\ outcome[c] = "running"
  /\ \E result \in {"returned", "thrown"}, times \in {0, 1} :
       /\ result = "returned" => times = 1
       /\ outcome' = [outcome EXCEPT ![c] = result]
       /\ effect' = [effect EXCEPT ![c] = times]

CallNext == \E c \in Calls : Finish(c)

CallSpec == CallInit /\ [][CallNext]_callVars
=============================================================================
