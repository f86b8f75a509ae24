---------------------------- MODULE UserAddresses ---------------------------
(***************************************************************************)
(* The addresses of one user (UsersService): createAddress, updateAddress   *)
(* and deleteAddress, each a few calls to the database with no transaction  *)
(* around them, so that the handlers of several requests interleave.        *)
(***************************************************************************)
EXTENDS Faults, FiniteSets

CONSTANTS
  Addresses,    \* ids of the rows that may exist
  NoAddress,    \* "no address at hand"
  OldDefault,   \* the default address the user has already, or NoAddress
  Requests      \* slots for handlers that run at the same time

ASSUME AddressesAssumption ==
  /\ NoAddress \notin Addresses /\ OldDefault \in Addresses \cup {NoAddress}
  /\ IsFiniteSet(Addresses) /\ IsFiniteSet(Requests) /\ Requests # {}

VARIABLES
  row,    \* each address: "unused", "plain", "default" (isDefault) or "deleted"
  req     \* the handler in each slot

addressVars == <<row, req, faults>>

IdleReq == [pc |-> "idle", op |-> "none", address |-> NoAddress, isDefault |-> "absent"]

\* isDefault as the request body gives it.
DefaultInputs == {"true", "false", "absent"}

AddressTypeOK ==
  /\ row \in [Addresses -> {"unused", "plain", "default", "deleted"}]
  /\ req \in [Requests -> [pc        : {"idle", "unset", "write", "delete"},
                           op        : {"none", "create", "update", "delete"},
                           address   : Addresses \cup {NoAddress},
                           isDefault : DefaultInputs]]
  /\ FaultsTypeOK

AddressInit ==
  /\ row = [a \in Addresses |-> IF a = OldDefault THEN "default" ELSE "unused"]
  /\ req = [r \in Requests |-> IdleReq]
  /\ FaultsInit

Present(a) == row[a] \in {"plain", "default"}
Defaults   == {a \in Addresses : row[a] = "default"}

Begin(r, op, a, d) ==
  /\ req[r] = IdleReq
  /\ req' = [req EXCEPT ![r] =
               [pc |-> IF op = "delete" THEN "delete" ELSE IF d = "true" THEN "unset" ELSE "write",
                op |-> op, address |-> a, isDefault |-> d]]
  /\ UNCHANGED <<row, faults>>

End(r) == req' = [req EXCEPT ![r] = IdleReq]

\* createAddress; the id of the new row is one nobody uses.
CreateStart(r) ==
  \E a \in Addresses, d \in DefaultInputs :
    /\ row[a] = "unused" /\ \A q \in Requests : req[q].address # a
    /\ Begin(r, "create", a, d)

\* updateAddress and deleteAddress have found the address.
UpdateStart(r) == \E a \in Addresses, d \in DefaultInputs : Present(a) /\ Begin(r, "update", a, d)
DeleteStart(r) == \E a \in Addresses : Present(a) /\ Begin(r, "delete", a, "absent")

\* Mutation: creating a default address leaves the other defaults alone.
UnsetOnUpdate(r) == {a \in Defaults : req[r].op = "update" /\ a # req[r].address}

\* The addresses updateMany turns into plain ones: all the defaults but the
\* one an update is about.
Unset(r) == {a \in Defaults : req[r].op = "create" \/ a # req[r].address}

UnsetOthers(r) ==
  /\ req[r].pc = "unset"
  /\ \/ /\ row' = [a \in Addresses |-> IF a \in Unset(r) THEN "plain" ELSE row[a]]
        /\ req' = [req EXCEPT ![r].pc = "write"]
        /\ NoFault
     \/ Fault("unset") /\ End(r) /\ UNCHANGED row

\* What the write makes of the address: a created row exists now, an update
\* that does not name isDefault keeps it.
Written(r) ==
  CASE req[r].isDefault = "true" -> "default"
    [] req[r].isDefault = "false" -> "plain"
    [] req[r].isDefault = "absent" /\ req[r].op = "create" -> "plain"
    [] OTHER -> row[req[r].address]

\* create, or update of a row, which throws when the row is gone by now.
Write(r) ==
  /\ req[r].pc = "write"
  /\ \/ /\ req[r].op = "create" \/ Present(req[r].address)
        /\ row' = [row EXCEPT ![req[r].address] = Written(r)]
        /\ NoFault
     \/ req[r].op = "update" /\ ~ Present(req[r].address) /\ UNCHANGED row /\ NoFault
     \/ Fault("write") /\ UNCHANGED row
  /\ End(r)

\* delete, which throws when the row is gone by now.
Delete(r) ==
  /\ req[r].pc = "delete"
  /\ \/ Present(req[r].address) /\ row' = [row EXCEPT ![req[r].address] = "deleted"] /\ NoFault
     \/ ~ Present(req[r].address) /\ UNCHANGED row /\ NoFault
     \/ Fault("delete") /\ UNCHANGED row
  /\ End(r)

\* The process dies with its handlers.
Crash ==
  /\ Fault("crash")
  /\ req' = [r \in Requests |-> IdleReq]
  /\ UNCHANGED row

AddressNext ==
  \/ \E r \in Requests :
       \/ CreateStart(r) \/ UpdateStart(r) \/ DeleteStart(r)
       \/ UnsetOthers(r) \/ Write(r) \/ Delete(r)
  \/ Crash

AddressSpec == AddressInit /\ [][AddressNext]_addressVars

-----------------------------------------------------------------------------
(* Properties *)

\* Setting a default unsets the others: a user has at most one.
AtMostOneDefault == Cardinality(Defaults) <= 1

\* What is left of that when requests overlap: at most one default for each
\* handler that may run at the same time.
DefaultsBounded == Cardinality(Defaults) <= Cardinality(Requests)

\* Each default can be put down to one slot, and to a slot about to write one
\* only if that is the one it will write.
Attributed ==
  \E f \in [Defaults -> Requests] :
    /\ \A a, b \in Defaults : f[a] = f[b] => a = b
    /\ \A a \in Defaults :
         req[f[a]].pc = "write" /\ req[f[a]].isDefault = "true" => req[f[a]].address = a

\* A slot that writes is at work for an address.
ReqOK == \A r \in Requests : req[r].pc # "idle" => req[r].address \in Addresses

AddressInv == AddressTypeOK /\ ReqOK /\ Attributed
=============================================================================
