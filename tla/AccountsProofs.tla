---------------------------- MODULE AccountsProofs ---------------------------
(***************************************************************************)
(* Proofs about the addresses, alone and in Accounts, for any number of     *)
(* addresses and requests: each default is attributed to its own slot,      *)
(* so that there are never more defaults than requests that may overlap,    *)
(* and one default where requests do not overlap.                           *)
(***************************************************************************)
EXTENDS Accounts, FiniteSetTheorems, TLAPS

USE AddressesAssumption, FaultsAssumption

\* A slot about to write a default.
Setting(r) == req[r].pc = "write" /\ req[r].isDefault = "true"

\* A handler that ends frees its slot and leaves the other slots alone.
LEMMA EndLemma ==
  ASSUME AddressTypeOK, NEW r \in Requests, End(r)
  PROVE  /\ req'[r] = IdleReq
         /\ \A q \in Requests \ {r} : req'[q] = req[q]
         /\ req' \in [Requests -> [pc        : {"idle", "unset", "write", "delete"},
                                   op        : {"none", "create", "update", "delete"},
                                   address   : Addresses \cup {NoAddress},
                                   isDefault : DefaultInputs]]
BY DEF AddressTypeOK, End, IdleReq, DefaultInputs

\* A slot that ends is neither setting a default nor at work.
LEMMA EndedLemma ==
  ASSUME AddressTypeOK, ReqOK, NEW r \in Requests, End(r)
  PROVE  ReqOK' /\ \A q \in Requests : Setting(q)' => req'[q] = req[q]
BY EndLemma DEF ReqOK, Setting, IdleReq

\* Fewer defaults and no new slot about to set one: the attribution carries over.
LEMMA FewerDefaults ==
  ASSUME Attributed, Defaults' \subseteq Defaults,
         \A q \in Requests : Setting(q)' => req'[q] = req[q]
  PROVE  Attributed'
<1>1. PICK f \in [Defaults -> Requests] :
        /\ \A a, b \in Defaults : f[a] = f[b] => a = b
        /\ \A a \in Defaults : Setting(f[a]) => req[f[a]].address = a
  BY DEF Attributed, Setting
<1>. DEFINE g == [a \in Defaults' |-> f[a]]
<1>2. g \in [Defaults' -> Requests]
  OBVIOUS
<1>3. \A a, b \in Defaults' : g[a] = g[b] => a = b
  BY <1>1
<1>4. \A a \in Defaults', q \in Requests : g[a] = q /\ Setting(q)' => req'[q].address = a
  BY <1>1 DEF Setting
<1>. HIDE DEF g
<1>5. \A a \in Defaults' :
        req'[g[a]].pc = "write" /\ req'[g[a]].isDefault = "true" => req'[g[a]].address = a
  BY <1>2, <1>4 DEF Setting
<1>. QED  BY <1>2, <1>3, <1>5 DEF Attributed

-----------------------------------------------------------------------------
(* The actions *)

LEMMA AddressInitInv == AddressInit => AddressInv
<1>. SUFFICES ASSUME AddressInit PROVE AddressInv
  OBVIOUS
<1>1. AddressTypeOK
  BY DEF AddressInit, AddressTypeOK, IdleReq, DefaultInputs, FaultsInit, FaultsTypeOK
<1>2. ReqOK
  BY DEF AddressInit, ReqOK, IdleReq
<1>3. Attributed
  <2>1. \A a \in Defaults : a = OldDefault
    BY DEF AddressInit, Defaults
  <2>2. PICK r \in Requests : TRUE
    OBVIOUS
  <2>. DEFINE f == [a \in Defaults |-> r]
  <2>3. f \in [Defaults -> Requests] /\ \A a \in Defaults : f[a] = r
    OBVIOUS
  <2>. HIDE DEF f
  <2>4. req[r].pc # "write"
    BY DEF AddressInit, IdleReq
  <2>. QED  BY <2>1, <2>3, <2>4 DEF Attributed
<1>. QED  BY <1>1, <1>2, <1>3 DEF AddressInv

\* A handler begins: it does not set a default before it has unset the others.
LEMMA BeginInv ==
  ASSUME AddressInv, NEW r \in Requests, NEW op \in {"create", "update", "delete"},
         NEW a \in Addresses, NEW d \in DefaultInputs, Begin(r, op, a, d)
  PROVE  AddressInv'
<1>. DEFINE pc == IF op = "delete" THEN "delete" ELSE IF d = "true" THEN "unset" ELSE "write"
            h  == [pc |-> pc, op |-> op, address |-> a, isDefault |-> d]
<1>1. /\ h \in [pc        : {"idle", "unset", "write", "delete"},
                op        : {"none", "create", "update", "delete"},
                address   : Addresses \cup {NoAddress},
                isDefault : DefaultInputs]
      /\ ~ (h.pc = "write" /\ h.isDefault = "true")
      /\ h.address \in Addresses
  OBVIOUS
<1>2. req' = [req EXCEPT ![r] = h] /\ UNCHANGED <<row, faults>>
  BY DEF Begin
<1>. HIDE DEF h
<1>3. AddressTypeOK'
  BY <1>1, <1>2 DEF AddressInv, AddressTypeOK, FaultsTypeOK
<1>4. req'[r] = h /\ \A q \in Requests \ {r} : req'[q] = req[q]
  BY <1>2 DEF AddressInv, AddressTypeOK
<1>5. ReqOK'
  BY <1>1, <1>4 DEF AddressInv, ReqOK
<1>6. Defaults' \subseteq Defaults
  BY <1>2 DEF Defaults
<1>7. \A q \in Requests : Setting(q)' => req'[q] = req[q]
  BY <1>1, <1>4 DEF Setting
<1>8. Attributed'
  BY <1>6, <1>7, FewerDefaults DEF AddressInv
<1>. QED  BY <1>3, <1>5, <1>8 DEF AddressInv

\* After updateMany at most the address being updated is a default, and the
\* slot that will write it may answer for it.
LEMMA UnsetOthersInv ==
  ASSUME AddressInv, NEW r \in Requests, UnsetOthers(r)
  PROVE  AddressInv'
<1>1. CASE /\ row' = [a \in Addresses |-> IF a \in Unset(r) THEN "plain" ELSE row[a]]
           /\ req' = [req EXCEPT ![r].pc = "write"]
           /\ NoFault
  <2>1. /\ req'[r].pc = "write" /\ req'[r].address = req[r].address
        /\ \A q \in Requests \ {r} : req'[q] = req[q]
    BY <1>1 DEF AddressInv, AddressTypeOK
  <2>2. AddressTypeOK'
    BY <1>1 DEF AddressInv, AddressTypeOK, FaultsTypeOK, NoFault
  <2>3. ReqOK'
    BY <2>1 DEF AddressInv, ReqOK, UnsetOthers
  <2>4. \A a \in Defaults' : a = req[r].address
    BY <1>1 DEF Defaults, Unset
  <2>. DEFINE g == [a \in Defaults' |-> r]
  <2>5. g \in [Defaults' -> Requests] /\ \A a \in Defaults' : g[a] = r
    OBVIOUS
  <2>. HIDE DEF g
  <2>6. Attributed'
    BY <2>1, <2>4, <2>5 DEF Attributed
  <2>. QED  BY <2>2, <2>3, <2>6 DEF AddressInv
<1>2. CASE Fault("unset") /\ End(r) /\ UNCHANGED row
  <2>1. AddressTypeOK'
    BY <1>2, EndLemma DEF AddressInv, AddressTypeOK, Fault, FaultsTypeOK
  <2>2. Defaults' \subseteq Defaults
    BY <1>2 DEF Defaults
  <2>. QED  BY <1>2, <2>1, <2>2, EndedLemma, FewerDefaults DEF AddressInv
<1>. QED  BY <1>1, <1>2 DEF UnsetOthers

\* A write adds at most the default its slot answers for.
LEMMA WriteInv ==
  ASSUME AddressInv, NEW r \in Requests, Write(r)
  PROVE  AddressInv'
<1>1. req[r].address \in Addresses /\ End(r)
  BY DEF AddressInv, ReqOK, Write
<1>2. ReqOK' /\ \A q \in Requests : Setting(q)' => req'[q] = req[q]
  BY <1>1, EndedLemma DEF AddressInv
<1>3. FaultsTypeOK'
  BY DEF AddressInv, AddressTypeOK, Write, Fault, NoFault, FaultsTypeOK
<1>4. CASE row' = row
  <2>1. AddressTypeOK'
    BY <1>1, <1>3, <1>4, EndLemma DEF AddressInv, AddressTypeOK
  <2>2. Defaults' \subseteq Defaults
    BY <1>4 DEF Defaults
  <2>. QED  BY <1>2, <2>1, <2>2, FewerDefaults DEF AddressInv
<1>5. CASE /\ req[r].op = "create" \/ Present(req[r].address)
           /\ row' = [row EXCEPT ![req[r].address] = Written(r)]
  <2>. DEFINE a == req[r].address
  <2>1. Written(r) \in {"unused", "plain", "default", "deleted"}
    BY <1>1 DEF AddressInv, AddressTypeOK, Written
  <2>2. AddressTypeOK'
    BY <1>1, <1>3, <1>5, <2>1, EndLemma DEF AddressInv, AddressTypeOK
  <2>3. row'[a] = Written(r) /\ \A b \in Addresses \ {a} : row'[b] = row[b]
    BY <1>1, <1>5 DEF AddressInv, AddressTypeOK
  <2>4. CASE req[r].isDefault = "true"
    <3>1. Defaults' = Defaults \cup {a}
      BY <1>1, <2>3, <2>4 DEF Defaults, Written
    <3>2. Setting(r)
      BY <2>4 DEF Setting, Write
    <3>3. PICK f \in [Defaults -> Requests] :
            /\ \A b, c \in Defaults : f[b] = f[c] => b = c
            /\ \A b \in Defaults : Setting(f[b]) => req[f[b]].address = b
      BY DEF AddressInv, Attributed, Setting
    <3>. DEFINE g == [b \in Defaults' |-> IF b = a THEN r ELSE f[b]]
    <3>4. \A b \in Defaults' : b # a => b \in Defaults /\ f[b] \in Requests /\ f[b] # r
      BY <3>1, <3>2, <3>3
    <3>5. g \in [Defaults' -> Requests]
      BY <3>4
    <3>6. \A b \in Defaults' : g[b] = IF b = a THEN r ELSE f[b]
      OBVIOUS
    <3>. HIDE DEF g
    <3>7. \A b, c \in Defaults' : g[b] = g[c] => b = c
      BY <3>3, <3>4, <3>6
    <3>8. ASSUME NEW b \in Defaults', NEW q \in Requests, g[b] = q, Setting(q)'
          PROVE  req'[q].address = b
      <4>1. q # r
        BY <3>8, <1>1, EndLemma DEF AddressInv, Setting, IdleReq
      <4>2. b # a /\ f[b] = q
        BY <3>6, <3>8, <4>1
      <4>3. req'[q] = req[q]
        BY <4>1, <1>1, EndLemma DEF AddressInv
      <4>. QED  BY <3>3, <3>4, <3>8, <4>2, <4>3 DEF Setting
    <3>9. \A b \in Defaults' :
            req'[g[b]].pc = "write" /\ req'[g[b]].isDefault = "true" => req'[g[b]].address = b
      BY <3>5, <3>8 DEF Setting
    <3>10. Attributed'
      BY <3>5, <3>7, <3>9 DEF Attributed
    <3>. QED  BY <1>2, <2>2, <3>10 DEF AddressInv
  <2>5. CASE req[r].isDefault # "true"
    <3>1. Written(r) = "default" => row[a] = "default"
      BY <2>5 DEF Written
    <3>2. Defaults' \subseteq Defaults
      BY <1>1, <2>3, <3>1 DEF Defaults
    <3>. QED  BY <1>2, <2>2, <3>2, FewerDefaults DEF AddressInv
  <2>. QED  BY <2>4, <2>5
<1>. QED  BY <1>4, <1>5 DEF Write

\* Deleting takes an address away, default or not.
LEMMA DeleteInv ==
  ASSUME AddressInv, NEW r \in Requests, Delete(r)
  PROVE  AddressInv'
<1>1. req[r].address \in Addresses /\ End(r)
  BY DEF AddressInv, ReqOK, Delete
<1>2. ReqOK' /\ \A q \in Requests : Setting(q)' => req'[q] = req[q]
  BY <1>1, EndedLemma DEF AddressInv
<1>3. FaultsTypeOK'
  BY DEF AddressInv, AddressTypeOK, Delete, Fault, NoFault, FaultsTypeOK
<1>4. /\ row' \in [Addresses -> {"unused", "plain", "default", "deleted"}]
      /\ Defaults' \subseteq Defaults
  BY <1>1 DEF AddressInv, AddressTypeOK, Delete, Defaults
<1>5. AddressTypeOK'
  BY <1>1, <1>3, <1>4, EndLemma DEF AddressInv, AddressTypeOK
<1>. QED  BY <1>2, <1>4, <1>5, FewerDefaults DEF AddressInv

\* A crash ends every handler.
LEMMA CrashInv == ASSUME AddressInv, Crash PROVE AddressInv'
<1>1. AddressTypeOK'
  BY DEF AddressInv, AddressTypeOK, Crash, Fault, FaultsTypeOK, IdleReq, DefaultInputs
<1>2. ReqOK' /\ \A q \in Requests : ~ Setting(q)'
  BY DEF Crash, ReqOK, Setting, IdleReq
<1>3. Defaults' \subseteq Defaults
  BY DEF Crash, Defaults
<1>. QED  BY <1>1, <1>2, <1>3, FewerDefaults DEF AddressInv

-----------------------------------------------------------------------------
(* The theorems *)

\* In every reachable state each default address is attributed to a slot of
\* its own.
THEOREM AddressInvHolds == AddressSpec => []AddressInv
<1>1. AddressInv /\ [AddressNext]_addressVars => AddressInv'
  <2>. SUFFICES ASSUME AddressInv, [AddressNext]_addressVars PROVE AddressInv'
    OBVIOUS
  <2>1. ASSUME NEW r \in Requests, CreateStart(r) \/ UpdateStart(r) \/ DeleteStart(r)
        PROVE  AddressInv'
    <3>1. ASSUME NEW op \in {"create", "update", "delete"}, NEW a \in Addresses,
                 NEW d \in DefaultInputs, Begin(r, op, a, d)
          PROVE  AddressInv'
      BY <3>1, BeginInv
    <3>2. "absent" \in DefaultInputs
      BY DEF DefaultInputs
    <3>3. CASE CreateStart(r)
      BY <3>1, <3>3 DEF CreateStart
    <3>4. CASE UpdateStart(r)
      BY <3>1, <3>4 DEF UpdateStart
    <3>5. CASE DeleteStart(r)
      BY <3>1, <3>2, <3>5 DEF DeleteStart
    <3>. QED  BY <2>1, <3>3, <3>4, <3>5
  <2>2. ASSUME NEW r \in Requests, UnsetOthers(r) PROVE AddressInv'
    BY <2>2, UnsetOthersInv
  <2>3. ASSUME NEW r \in Requests, Write(r) PROVE AddressInv'
    BY <2>3, WriteInv
  <2>4. ASSUME NEW r \in Requests, Delete(r) PROVE AddressInv'
    BY <2>4, DeleteInv
  <2>5. CASE Crash
    BY <2>5, CrashInv
  <2>6. CASE UNCHANGED addressVars
    <3>1. AddressTypeOK' /\ ReqOK'
      BY <2>6 DEF addressVars, AddressInv, AddressTypeOK, FaultsTypeOK, ReqOK
    <3>2. Defaults' \subseteq Defaults /\ \A q \in Requests : req'[q] = req[q]
      BY <2>6 DEF addressVars, Defaults
    <3>. QED  BY <3>1, <3>2, FewerDefaults DEF AddressInv
  <2>. QED  BY <2>1, <2>2, <2>3, <2>4, <2>5, <2>6 DEF AddressNext
<1>. QED  BY AddressInitInv, <1>1, PTL DEF AddressSpec

\* A user never has more default addresses than requests that may overlap.
THEOREM DefaultsAreBounded == AddressSpec => []DefaultsBounded
<1>1. AddressInv => DefaultsBounded
  <2>. SUFFICES ASSUME AddressInv PROVE Cardinality(Defaults) <= Cardinality(Requests)
    BY DEF DefaultsBounded
  <2>1. PICK f \in [Defaults -> Requests] : \A a, b \in Defaults : f[a] = f[b] => a = b
    BY DEF AddressInv, Attributed
  <2>2. f \in Injection(Defaults, Requests)
    BY <2>1 DEF Injection, IsInjective
  <2>. QED  BY <2>2, FS_Injection
<1>. QED  BY <1>1, AddressInvHolds, PTL

\* To the addresses, what else the server does is a stutter: a user has no more
\* defaults than requests that may overlap, whoever signs in meanwhile.
THEOREM DefaultsAreBoundedInAccounts == AccountsSpec => []DefaultsBounded
<1>1. AccountsInit => AddressInit
  BY DEF AccountsInit
<1>2. [AccountsNext]_accountsVars => [AddressNext]_addressVars
  <2>. SUFFICES ASSUME AccountsNext PROVE [AddressNext]_addressVars
    BY DEF accountsVars, accountVars, addressVars
  <2>1. ASSUME NEW s \in Slots, AccountStep(s) PROVE UNCHANGED addressVars
    <3>1. row' = row /\ req' = req
      BY <2>1 DEF AccountStep
    <3>2. CASE Arrive(s)
      BY <3>1, <3>2 DEF Arrive, Register, Login, StaffLogin, OtherCall, CreateStaff,
           UpdateStaff, RemoveStaff, WithToken, Untouched, NoFault, addressVars
    <3>3. CASE AuthStep(s)
      BY <3>1, <3>3 DEF AuthStep, FindEmail, FindPhone, CreateUser, FindUser, FindMember,
           Fallback, Compare, Untouched, NoFault, addressVars
    <3>4. CASE GuardStep(s) \/ StaffStep(s) \/ Fail(s)
      BY <3>1, <3>4 DEF GuardStep, Validate, Answer, StaffStep, FindStaff, WriteStaff, Fail,
           Untouched, NoFault, addressVars
    <3>. QED  BY <2>1, <3>2, <3>3, <3>4 DEF AccountStep
  <2>2. ASSUME NEW s \in Slots, AddressCall(s) \/ AddressStep(s) PROVE AddressNext
    BY <2>2, OwnerAssumption DEF AddressCall, AddressStep, AddressNext
  <2>3. ASSUME NEW x \in Ids, TokenStep(x) PROVE UNCHANGED addressVars
    BY <2>3 DEF TokenStep, Expire, RefreshToken, NoFault, addressVars
  <2>4. CASE Restart
    BY <2>4 DEF Restart, AddressNext
  <2>. QED  BY <2>1, <2>2, <2>3, <2>4 DEF AccountsNext
<1>3. AccountsSpec => AddressSpec
  BY <1>1, <1>2, PTL DEF AccountsSpec, AddressSpec
<1>. QED  BY <1>3, DefaultsAreBounded, PTL

\* Where requests do not overlap, a user has at most one default address.
THEOREM SequentialDefault ==
  ASSUME Cardinality(Requests) = 1
  PROVE  AddressSpec => []AtMostOneDefault
<1>1. DefaultsBounded => AtMostOneDefault
  BY DEF DefaultsBounded, AtMostOneDefault
<1>. QED  BY <1>1, DefaultsAreBounded, PTL

-----------------------------------------------------------------------------
(* The accounts: what a step leaves behind *)

USE AccountsAssumption, RowsAssumption

\* The tables and the tokens, by themselves.
RowsInv ==
  /\ user \in [UserIds -> UserRow \cup {Nothing}]
  /\ staff \in [StaffIds -> StaffRow \cup {Nothing}]
  /\ OneAccountPerContact

\* Rows are not deleted.
MoreRows == Users \subseteq Users' /\ Staff \subseteq Staff'

\* Whoever the call in a slot acts for after a step was entitled at some time.
SlotEntitled(s) ==
  LET h == handling'[s] IN
  /\ h.pc = "compare" /\ h.seen.password = h.body.password => h.id \in may[s] \cup Entitled(s)'
  /\ h.by # Nothing /\ h.pc # "guard" => h.by \in may[s] \cup Entitled(s)'

\* A step looks after the calls it touches.
CallsLeft ==
  /\ handling' \in [Slots -> Calls]
  /\ calls' \in 0 .. MaxCalls
  /\ \A s \in Slots : handling'[s] = handling[s] \/ (CallOK(s)' /\ SlotEntitled(s))

LEMMA IdleLemma ==
  /\ NoBody \in Body /\ Idle \in Calls
  /\ Idle.pc = "idle" /\ Idle.op = "none" /\ Idle.by = Nothing
BY DEF Idle, NewCall, NoBody, Body, Calls, CallPcs, CallOps, Everyone

\* The auxiliary variable keeps up with the calls.
LEMMA WatchLemma ==
  ASSUME AccountsIInv, RowsInv', MoreRows, CallsLeft, Watch
  PROVE  AccountsIInv'
<1>1. Users' \subseteq UserIds /\ Staff' \subseteq StaffIds
  BY DEF Users, Staff
<1>2. access' \subseteq Ids /\ refresh' \subseteq Ids
  BY <1>1 DEF RowsInv, OneAccountPerContact, Ids
<1>3. \A s \in Slots : Entitled(s)' \subseteq Ids
  BY <1>1 DEF Entitled, TokenHolder, CredentialHolders, UserNamed, StaffNamed, Ids
<1>4. may' \in [Slots -> SUBSET Ids]
  BY <1>3 DEF Watch, AccountsIInv, AccountsInv, AccountsTypeOK
<1>5. AccountsInv'
  BY <1>2, <1>4 DEF AccountsInv, AccountsTypeOK, RowsInv, CallsLeft
<1>6. ASSUME NEW s \in Slots PROVE CallOK(s)'
  <2>1. CASE handling'[s] = handling[s]
    BY <2>1 DEF AccountsIInv, CallOK, MoreRows
  <2>. QED  BY <2>1 DEF CallsLeft
<1>7. EntitledOnly'
  <2>. SUFFICES ASSUME NEW s \in Slots
                PROVE  LET h == handling'[s] IN
                       /\ h.pc = "compare" /\ h.seen.password = h.body.password => h.id \in may'[s]
                       /\ h.by # Nothing /\ h.pc # "guard" => h.by \in may'[s]
    BY DEF EntitledOnly
  <2>1. CASE handling'[s] = Idle
    BY <2>1, IdleLemma
  <2>2. CASE handling'[s] # Idle
    <3>1. may'[s] = may[s] \cup Entitled(s)'
      BY <2>2 DEF Watch
    <3>2. CASE handling'[s] = handling[s]
      BY <3>1, <3>2 DEF AccountsIInv, EntitledOnly
    <3>3. CASE SlotEntitled(s)
      BY <3>1, <3>3 DEF SlotEntitled
    <3>. QED  BY <3>2, <3>3 DEF CallsLeft
  <2>. QED  BY <2>1, <2>2
<1>. QED  BY <1>5, <1>6, <1>7 DEF AccountsIInv

\* A step that leaves the tables and the tokens alone.
LEMMA UntouchedLemma ==
  ASSUME AccountsIInv, NoRowChange, NoTokenChange
  PROVE  RowsInv' /\ MoreRows
BY DEF AccountsIInv, AccountsInv, AccountsTypeOK, NoRowChange, NoTokenChange, RowsInv, MoreRows,
       OneAccountPerContact, Users, Staff

\* A step that touches the call in one slot.
LEMMA OneCallLemma ==
  ASSUME AccountsIInv, NEW s \in Slots, NEW c \in Calls, handling' = [handling EXCEPT ![s] = c],
         calls' \in 0 .. MaxCalls, CallOK(s)', SlotEntitled(s)
  PROVE  CallsLeft
BY DEF CallsLeft, AccountsIInv, AccountsInv, AccountsTypeOK

\* A call arrives.
LEMMA EnterLemma ==
  ASSUME AccountsIInv, NEW s \in Slots, NEW op \in CallOps, NEW pc \in CallPcs, NEW b \in Body,
         NEW by \in Ids \cup {Nothing}, NEW roles \in SUBSET Everyone, NEW id \in Ids \cup {Nothing},
         Enter(s, NewCall(op, pc, b, by, roles, id)),
         pc \notin {"fallback", "compare", "write"}, by = Nothing \/ pc = "guard",
         pc \in {"findEmail", "findPhone", "create"} =>
           b.phone \in Phones \cup {Nothing} /\ b.password \in Passwords,
         op = "create" => Nothing \notin {b.phone, b.password, b.role}
  PROVE  CallsLeft
<1>. DEFINE c == NewCall(op, pc, b, by, roles, id)
<1>1. c \in Calls
  BY DEF NewCall, Calls
<1>2. c.pc = pc /\ c.op = op /\ c.body = b /\ c.by = by
  BY DEF NewCall
<1>3. handling' = [handling EXCEPT ![s] = c] /\ calls' \in 0 .. MaxCalls
  BY DEF Enter, AccountsIInv, AccountsInv, AccountsTypeOK
<1>. HIDE DEF c
<1>4. handling'[s] = c
  BY <1>3 DEF AccountsIInv, AccountsInv, AccountsTypeOK
<1>5. CallOK(s)' /\ SlotEntitled(s)
  BY <1>2, <1>4 DEF CallOK, SlotEntitled
<1>. QED  BY <1>1, <1>3, <1>5, OneCallLemma

\* A handler goes on.
LEMMA ProceedLemma ==
  ASSUME AccountsIInv, NEW s \in Slots, NEW pc \in CallPcs, Proceed(s, pc)
  PROVE  LET g == handling[s]
             h == handling'[s] IN
         /\ h \in Calls /\ handling' = [handling EXCEPT ![s] = h] /\ calls' \in 0 .. MaxCalls
         /\ h.pc = pc /\ h.op = g.op /\ h.body = g.body /\ h.by = g.by /\ h.roles = g.roles
BY DEF Proceed, AccountsIInv, AccountsInv, AccountsTypeOK, Calls

\* A handler is done.
LEMMA LeaveLemma ==
  ASSUME AccountsIInv, NEW s \in Slots, Leave(s)
  PROVE  CallsLeft
<1>1. handling'[s] = Idle /\ calls' \in 0 .. MaxCalls
  BY DEF Leave, AccountsIInv, AccountsInv, AccountsTypeOK
<1>2. CallOK(s)' /\ SlotEntitled(s)
  BY <1>1, IdleLemma DEF CallOK, SlotEntitled
<1>. QED  BY <1>1, <1>2, IdleLemma, OneCallLemma DEF Leave

\* A handler goes on with a row.
LEMMA FoundLemma ==
  ASSUME AccountsIInv, NEW s \in Slots, NEW id \in Ids, NEW found \in UserRow \cup StaffRow,
         Found(s, id, found)
  PROVE  LET g == handling[s]
             h == handling'[s] IN
         /\ h \in Calls /\ handling' = [handling EXCEPT ![s] = h] /\ calls' \in 0 .. MaxCalls
         /\ h.pc = (IF g.op \in {"login", "staffLogin"} THEN "compare" ELSE "write")
         /\ h.op = g.op /\ h.body = g.body /\ h.by = g.by /\ h.roles = g.roles
         /\ h.id = id /\ h.seen = found
<1>. DEFINE g  == handling[s]
            pc == IF g.op \in {"login", "staffLogin"} THEN "compare" ELSE "write"
            h  == [g EXCEPT !.pc = pc, !.id = id, !.seen = found]
<1>1. g \in Calls /\ pc \in CallPcs
  BY DEF AccountsIInv, AccountsInv, AccountsTypeOK, CallPcs
<1>2. /\ h.pc = pc /\ h.op = g.op /\ h.body = g.body /\ h.by = g.by /\ h.roles = g.roles
      /\ h.id = id /\ h.seen = found /\ h \in Calls
  <2>. HIDE DEF pc, g
  <2>. QED  BY <1>1 DEF Calls
<1>3. handling' = [handling EXCEPT ![s] = h] /\ calls' \in 0 .. MaxCalls
  BY DEF Found, AccountsIInv, AccountsInv, AccountsTypeOK
<1>. HIDE DEF h
<1>4. handling'[s] = h
  BY <1>3 DEF AccountsIInv, AccountsInv, AccountsTypeOK
<1>. QED  BY <1>2, <1>3, <1>4

-----------------------------------------------------------------------------
(* The accounts: the steps *)

\* What a step of the accounts leaves behind.
Leaves == RowsInv' /\ MoreRows /\ CallsLeft

LEMMA CredentialsLemma ==
  \A b \in Credentials : b \in Body /\ b.phone \in Phones \cup {Nothing} /\ b.password \in Passwords
BY DEF Credentials, Body

LEMMA RoutesLemma ==
  ASSUME NEW t \in OtherRoutes, NEW r \in DOMAIN t
  PROVE  t[r] \in SUBSET Everyone
<1>. USE DEF Admins, Everyone, StaffRoles
<1>1. CASE t = CategoryRoutes
  BY <1>1 DEF CategoryRoutes
<1>2. CASE t = ItemRoutes
  BY <1>2 DEF ItemRoutes
<1>3. CASE t = ModifierRoutes
  BY <1>3 DEF ModifierRoutes
<1>4. CASE t = DeliveryRoutes
  BY <1>4 DEF DeliveryRoutes
<1>5. CASE t = OrderRoutes
  BY <1>5 DEF OrderRoutes
<1>6. CASE t = AdminRoutes
  BY <1>6 DEF AdminRoutes
<1>7. CASE t = ChatRoutes
  BY <1>7 DEF ChatRoutes
<1>8. CASE t = PaymentRoutes
  BY <1>8 DEF PaymentRoutes
<1>9. CASE t = StaffReads
  BY <1>9 DEF StaffReads
<1>. QED  BY <1>1, <1>2, <1>3, <1>4, <1>5, <1>6, <1>7, <1>8, <1>9 DEF OtherRoutes

LEMMA WithTokenLemma ==
  ASSUME AccountsIInv, NEW s \in Slots, NEW op \in {"other", "create", "update", "remove"},
         NEW roles \in SUBSET Everyone, NEW b \in Body, NEW id \in Ids \cup {Nothing},
         WithToken(s, op, roles, b, id),
         op = "create" => Nothing \notin {b.phone, b.password, b.role}
  PROVE  Leaves
<1>1. PICK x \in access : Enter(s, NewCall(op, "guard", b, x, roles, id))
  BY DEF WithToken
<1>2. x \in Ids
  BY DEF AccountsIInv, AccountsInv, AccountsTypeOK
<1>3. op \in CallOps /\ "guard" \in CallPcs
  BY DEF CallOps, CallPcs
<1>4. CallsLeft
  BY <1>1, <1>2, <1>3, EnterLemma
<1>. QED  BY <1>4, UntouchedLemma DEF WithToken, Untouched, Leaves

LEMMA ArriveLemma ==
  ASSUME AccountsIInv, NEW s \in Slots, Arrive(s)
  PROVE  Leaves
<1>1. CASE Register(s)
  <2>1. PICK b \in Credentials :
          Enter(s, NewCall("register", IF b.email # Nothing THEN "findEmail" ELSE "findPhone",
                           b, Nothing, Everyone, Nothing))
    BY <1>1 DEF Register
  <2>2. PICK pc \in {"findEmail", "findPhone"} :
          Enter(s, NewCall("register", pc, b, Nothing, Everyone, Nothing))
    BY <2>1
  <2>3. "register" \in CallOps /\ pc \in CallPcs
    BY DEF CallOps, CallPcs
  <2>4. CallsLeft
    BY <2>2, <2>3, CredentialsLemma, EnterLemma
  <2>. QED  BY <1>1, <2>4, UntouchedLemma DEF Register, Untouched, Leaves
<1>2. CASE Login(s) \/ StaffLogin(s)
  <2>1. PICK b \in Credentials, op \in {"login", "staffLogin"} :
          Enter(s, NewCall(op, "find", b, Nothing, Everyone, Nothing))
    BY <1>2 DEF Login, StaffLogin
  <2>2. op \in CallOps /\ "find" \in CallPcs
    BY DEF CallOps, CallPcs
  <2>3. CallsLeft
    BY <2>1, <2>2, CredentialsLemma, EnterLemma
  <2>. QED  BY <1>2, <2>3, UntouchedLemma DEF Login, StaffLogin, Untouched, Leaves
<1>3. CASE OtherCall(s)
  BY <1>3, RoutesLemma, WithTokenLemma, IdleLemma DEF OtherCall
<1>4. CASE CreateStaff(s) \/ UpdateStaff(s) \/ RemoveStaff(s)
  <2>1. Admins \in SUBSET Everyone
    BY DEF Admins, Everyone, StaffRoles
  <2>2. NewStaff \cup Edits \subseteq Body /\ StaffIds \subseteq Ids
    BY StaffBodiesAssumption DEF Ids
  <2>3. CASE CreateStaff(s)
    BY <2>1, <2>2, <2>3, StaffBodiesAssumption, WithTokenLemma DEF CreateStaff
  <2>4. CASE UpdateStaff(s)
    BY <2>1, <2>2, <2>4, WithTokenLemma DEF UpdateStaff
  <2>5. CASE RemoveStaff(s)
    BY <2>1, <2>2, <2>5, IdleLemma, WithTokenLemma DEF RemoveStaff
  <2>. QED  BY <1>4, <2>3, <2>4, <2>5
<1>. QED  BY <1>1, <1>2, <1>3, <1>4 DEF Arrive

\* A handler that goes on to a point nobody is entitled to anything at.
LEMMA GoesOnLemma ==
  ASSUME AccountsIInv, NEW s \in Slots, Untouched,
         \/ Leave(s)
         \/ \E pc \in CallPcs : /\ Proceed(s, pc)
                                /\ pc \notin {"compare", "write"}
                                /\ pc \in {"findEmail", "findPhone", "create"} =>
                                     handling[s].pc \in {"findEmail", "findPhone", "create"}
                                /\ pc = "fallback" => handling[s].op = "staffLogin"
                                /\ handling[s].by # Nothing => handling[s].pc # "guard"
  PROVE  Leaves
<1>1. CASE Leave(s)
  BY <1>1, LeaveLemma, UntouchedLemma DEF Untouched, Leaves
<1>2. ASSUME NEW pc \in CallPcs, Proceed(s, pc), pc \notin {"compare", "write"},
             pc \in {"findEmail", "findPhone", "create"} =>
               handling[s].pc \in {"findEmail", "findPhone", "create"},
             pc = "fallback" => handling[s].op = "staffLogin",
             handling[s].by # Nothing => handling[s].pc # "guard"
      PROVE  CallsLeft
  <2>. DEFINE h == handling'[s]
  <2>1. /\ h \in Calls /\ handling' = [handling EXCEPT ![s] = h] /\ calls' \in 0 .. MaxCalls
        /\ h.pc = pc /\ h.op = handling[s].op /\ h.body = handling[s].body
        /\ h.by = handling[s].by
    BY <1>2, ProceedLemma
  <2>2. CallOK(s)'
    BY <1>2, <2>1 DEF CallOK, AccountsIInv
  <2>3. SlotEntitled(s)
    BY <1>2, <2>1 DEF SlotEntitled, AccountsIInv, EntitledOnly
  <2>. QED  BY <2>1, <2>2, <2>3, OneCallLemma
<1>. QED  BY <1>1, <1>2, UntouchedLemma DEF Untouched, Leaves

\* A row is found: it names whom the call is about, with the password it has.
LEMMA FoundUserLemma ==
  ASSUME AccountsIInv, NEW s \in Slots, Untouched, handling[s].op = "login",
         handling[s].pc # "guard",
         NEW u \in UserNamed(handling[s].body), Found(s, u, user[u])
  PROVE  Leaves
<1>1. u \in Users /\ u \in Ids /\ user[u] \in UserRow
  BY DEF UserNamed, Users, Ids, AccountsIInv, AccountsInv, AccountsTypeOK
<1>. DEFINE h == handling'[s]
<1>2. /\ h \in Calls /\ handling' = [handling EXCEPT ![s] = h] /\ calls' \in 0 .. MaxCalls
      /\ h.pc = "compare" /\ h.op = "login" /\ h.body = handling[s].body /\ h.by = handling[s].by
      /\ h.id = u /\ h.seen = user[u]
  BY <1>1, FoundLemma
<1>3. MoreRows /\ RowsInv' /\ user' = user
  BY UntouchedLemma DEF Untouched, NoRowChange
<1>4. CallOK(s)'
  BY <1>1, <1>2, <1>3 DEF CallOK, MoreRows
<1>5. u \in UserNamed(handling[s].body)'
  BY <1>2, <1>3 DEF UserNamed, Users
<1>6. h.seen.password = h.body.password => u \in Entitled(s)'
  BY <1>2, <1>3, <1>5 DEF Entitled, CredentialHolders
<1>7. SlotEntitled(s)
  BY <1>2, <1>6 DEF SlotEntitled, AccountsIInv, EntitledOnly
<1>. QED  BY <1>2, <1>3, <1>4, <1>7, OneCallLemma DEF Leaves

LEMMA FoundMemberLemma ==
  ASSUME AccountsIInv, NEW s \in Slots, Untouched, handling[s].op = "staffLogin",
         handling[s].pc # "guard",
         NEW m \in StaffNamed(handling[s].body.phone) \cup StaffNamed(handling[s].body.email),
         Found(s, m, staff[m])
  PROVE  Leaves
<1>1. m \in Staff /\ m \in Ids /\ staff[m] \in StaffRow
  BY DEF StaffNamed, Staff, Ids, AccountsIInv, AccountsInv, AccountsTypeOK
<1>. DEFINE h == handling'[s]
<1>2. /\ h \in Calls /\ handling' = [handling EXCEPT ![s] = h] /\ calls' \in 0 .. MaxCalls
      /\ h.pc = "compare" /\ h.op = "staffLogin" /\ h.body = handling[s].body /\ h.by = handling[s].by
      /\ h.id = m /\ h.seen = staff[m]
  BY <1>1, FoundLemma
<1>3. MoreRows /\ RowsInv' /\ staff' = staff
  BY UntouchedLemma DEF Untouched, NoRowChange
<1>4. CallOK(s)'
  BY <1>1, <1>2, <1>3 DEF CallOK, MoreRows
<1>5. m \in StaffNamed(handling[s].body.phone)' \cup StaffNamed(handling[s].body.email)'
  BY <1>2, <1>3 DEF StaffNamed, Staff
<1>6. h.seen.password = h.body.password => m \in Entitled(s)'
  BY <1>2, <1>3, <1>5 DEF Entitled, CredentialHolders
<1>7. SlotEntitled(s)
  BY <1>2, <1>6 DEF SlotEntitled, AccountsIInv, EntitledOnly
<1>. QED  BY <1>2, <1>3, <1>4, <1>7, OneCallLemma DEF Leaves

\* StaffService reads the row that update and remove are about.
LEMMA FoundStaffLemma ==
  ASSUME AccountsIInv, NEW s \in Slots, Untouched, handling[s].op \in {"update", "remove"},
         handling[s].pc # "guard",
         NEW m \in Staff, Found(s, m, staff[m])
  PROVE  Leaves
<1>1. m \in Ids /\ staff[m] \in StaffRow
  BY DEF Staff, Ids, AccountsIInv, AccountsInv, AccountsTypeOK
<1>. DEFINE h == handling'[s]
<1>2. /\ h \in Calls /\ handling' = [handling EXCEPT ![s] = h] /\ calls' \in 0 .. MaxCalls
      /\ h.pc = "write" /\ h.op = handling[s].op /\ h.by = handling[s].by /\ h.id = m
  BY <1>1, FoundLemma
<1>3. MoreRows /\ RowsInv'
  BY UntouchedLemma DEF Untouched
<1>4. CallOK(s)'
  BY <1>2, <1>3 DEF CallOK, MoreRows
<1>5. SlotEntitled(s)
  BY <1>2 DEF SlotEntitled, AccountsIInv, EntitledOnly
<1>. QED  BY <1>2, <1>3, <1>4, <1>5, OneCallLemma DEF Leaves

LEMMA FindsLemma ==
  ASSUME AccountsIInv, NEW s \in Slots,
         FindEmail(s) \/ FindPhone(s) \/ FindUser(s) \/ FindMember(s) \/ Fallback(s) \/ FindStaff(s)
  PROVE  Leaves
<1>1. Untouched
  BY DEF FindEmail, FindPhone, FindUser, FindMember, Fallback, FindStaff
<1>. USE DEF CallPcs
<1>2. CASE FindEmail(s)
  BY <1>1, <1>2, GoesOnLemma DEF FindEmail
<1>3. CASE FindPhone(s)
  BY <1>1, <1>3, GoesOnLemma DEF FindPhone
<1>4. CASE FindUser(s)
  BY <1>1, <1>4, GoesOnLemma, FoundUserLemma DEF FindUser
<1>5. CASE FindMember(s)
  BY <1>1, <1>5, GoesOnLemma, FoundMemberLemma DEF FindMember
<1>6. ASSUME Fallback(s) PROVE Leaves
  <2>1. handling[s].pc = "fallback" /\ handling[s].op = "staffLogin"
    BY <1>6 DEF Fallback, AccountsIInv, CallOK
  <2>. QED  BY <1>1, <1>6, <2>1, GoesOnLemma, FoundMemberLemma DEF Fallback, FallbackNamed
<1>7. CASE FindStaff(s)
  <2>1. handling[s].pc = "find"
    BY <1>7 DEF FindStaff
  <2>2. CASE handling[s].op = "create"
    <3>1. Leave(s) \/ Proceed(s, "write")
      BY <1>7, <2>2 DEF FindStaff
    <3>2. CASE Proceed(s, "write")
      <4>. DEFINE h == handling'[s]
      <4>1. /\ h \in Calls /\ handling' = [handling EXCEPT ![s] = h] /\ calls' \in 0 .. MaxCalls
            /\ h.pc = "write" /\ h.op = "create" /\ h.body = handling[s].body
            /\ h.by = handling[s].by
        BY <2>2, <3>2, ProceedLemma
      <4>2. CallOK(s)' /\ SlotEntitled(s)
        BY <2>1, <2>2, <4>1 DEF CallOK, SlotEntitled, AccountsIInv, EntitledOnly
      <4>. QED  BY <1>1, <4>1, <4>2, OneCallLemma, UntouchedLemma DEF Untouched, Leaves
    <3>. QED  BY <1>1, <3>1, <3>2, GoesOnLemma
  <2>3. CASE handling[s].op \in {"update", "remove"}
    <3>1. Leave(s) \/ \E m \in Staff : Found(s, m, staff[m])
      BY <1>7, <2>3 DEF FindStaff
    <3>. QED  BY <1>1, <2>1, <2>3, <3>1, GoesOnLemma, FoundStaffLemma
  <2>. QED  BY <1>7, <2>2, <2>3 DEF FindStaff
<1>. QED  BY <1>2, <1>3, <1>4, <1>5, <1>6, <1>7

\* The guards let in whose role, as the row has it now, the route is for.
LEMMA GuardLemma ==
  ASSUME AccountsIInv, NEW s \in Slots, GuardStep(s)
  PROVE  Leaves
<1>1. Untouched
  BY DEF GuardStep, Validate, Answer
<1>2. CASE Leave(s)
  BY <1>1, <1>2, GoesOnLemma
<1>3. ASSUME NEW pc \in {"inside", "find"}, Proceed(s, pc),
             handling[s].by \in Users \cup Staff, RoleOf(handling[s].by) \in handling[s].roles
      PROVE  Leaves
  <2>. DEFINE h == handling'[s]
  <2>1. /\ h \in Calls /\ handling' = [handling EXCEPT ![s] = h] /\ calls' \in 0 .. MaxCalls
        /\ h.pc = pc /\ h.op = handling[s].op /\ h.body = handling[s].body
        /\ h.by = handling[s].by /\ h.roles = handling[s].roles
    BY <1>3, ProceedLemma DEF CallPcs
  <2>2. MoreRows /\ RowsInv' /\ UNCHANGED <<user, staff>>
    BY <1>1, UntouchedLemma DEF Untouched, NoRowChange
  <2>3. handling[s].by \in TokenHolder(handling[s])'
    BY <1>3, <2>1, <2>2 DEF TokenHolder, RoleOf, Users, Staff
  <2>4. SlotEntitled(s)
    BY <2>1, <2>3 DEF SlotEntitled, Entitled
  <2>5. CallOK(s)'
    BY <2>1 DEF CallOK, AccountsIInv
  <2>. QED  BY <2>1, <2>2, <2>4, <2>5, OneCallLemma DEF Leaves
<1>. QED  BY <1>2, <1>3 DEF GuardStep, Validate, Answer

\* register: the row that is created fits the table, and has the first tokens.
LEMMA CreateUserLemma ==
  ASSUME AccountsIInv, NEW s \in Slots, CreateUser(s)
  PROVE  Leaves
<1>. DEFINE b == handling[s].body
            n == [email |-> b.email, phone |-> b.phone, password |-> b.password]
<1>1. CallsLeft
  BY LeaveLemma DEF CreateUser
<1>2. CASE NoRowChange /\ NoTokenChange
  BY <1>1, <1>2, UntouchedLemma DEF Leaves
<1>3. ASSUME UserFits(b), NEW u \in UserIds \ Users, user' = [user EXCEPT ![u] = n], SignIn(u),
             UNCHANGED staff
      PROVE  Leaves
  <2>1. n \in UserRow
    <3>1. b \in Body /\ b.phone \in Phones \cup {Nothing} /\ b.password \in Passwords
      BY DEF CreateUser, AccountsIInv, AccountsInv, AccountsTypeOK, Calls, CallOK
    <3>2. b.email \in Emails
      BY <1>3, <3>1 DEF Body, UserFits
    <3>. QED  BY <3>1, <3>2 DEF UserRow
  <2>2. n.email = b.email /\ n.phone = b.phone
    OBVIOUS
  <2>. HIDE DEF n
  <2>3. /\ user' \in [UserIds -> UserRow \cup {Nothing}]
        /\ user'[u] = n /\ \A v \in UserIds \ {u} : user'[v] = user[v]
    BY <1>3, <2>1 DEF AccountsIInv, AccountsInv, AccountsTypeOK
  <2>4. Users' = Users \cup {u} /\ Staff' = Staff
    BY <1>3, <2>1, <2>3 DEF Users, Staff
  <2>5. \A v, w \in Users' : v # w =>
          /\ user'[v].email # user'[w].email
          /\ user'[v].phone # Nothing => user'[v].phone # user'[w].phone
    <3>1. \A v \in Users : user'[v] = user[v] /\ v # u
      BY <1>3, <2>3 DEF Users
    <3>. QED  BY <1>3, <2>2, <2>3, <2>4, <3>1
         DEF UserFits, AccountsIInv, AccountsInv, OneAccountPerContact
  <2>6. access' \cup refresh' \subseteq Users' \cup Staff'
    BY <1>3, <2>4 DEF SignIn, AccountsIInv, AccountsInv, OneAccountPerContact
  <2>7. RowsInv'
    BY <1>3, <2>3, <2>4, <2>5, <2>6
       DEF RowsInv, OneAccountPerContact, AccountsIInv, AccountsInv, AccountsTypeOK
  <2>. QED  BY <1>1, <2>4, <2>7 DEF Leaves, MoreRows
<1>. QED  BY <1>2, <1>3 DEF CreateUser

\* More tokens for rows there are, or fewer.
LEMMA TokensLemma ==
  ASSUME AccountsIInv, NoRowChange,
         access' \subseteq access \cup Users \cup Staff,
         refresh' \subseteq refresh \cup Users \cup Staff
  PROVE  RowsInv' /\ MoreRows
<1>1. Users' = Users /\ Staff' = Staff
  BY DEF Users, Staff, NoRowChange
<1>. QED
  BY <1>1 DEF RowsInv, MoreRows, OneAccountPerContact, AccountsIInv, AccountsInv, AccountsTypeOK,
              NoRowChange

LEMMA CompareLemma ==
  ASSUME AccountsIInv, NEW s \in Slots, Compare(s)
  PROVE  Leaves
<1>1. handling[s].id \in Users \cup Staff
  BY DEF Compare, AccountsIInv, CallOK
<1>2. RowsInv' /\ MoreRows
  BY <1>1, TokensLemma DEF Compare, SignIn, NoTokenChange
<1>. QED  BY <1>2, LeaveLemma DEF Compare, Leaves

\* create, update and remove of staff: a phone that is written was free.
LEMMA SetStaffLemma ==
  ASSUME AccountsIInv, NEW m \in StaffIds, NEW r \in StaffRow, SetStaff(m, r),
         StaffPhoneFree(r.phone, m), UNCHANGED user, NoTokenChange
  PROVE  RowsInv' /\ MoreRows
<1>1. /\ staff' \in [StaffIds -> StaffRow \cup {Nothing}]
      /\ staff'[m] = r /\ \A n \in StaffIds \ {m} : staff'[n] = staff[n]
  BY DEF SetStaff, AccountsIInv, AccountsInv, AccountsTypeOK
<1>2. Staff' = Staff \cup {m} /\ Users' = Users
  BY <1>1 DEF Staff, Users
<1>3. \A n, k \in Staff' : n # k => staff'[n].phone # staff'[k].phone
  <2>1. \A n \in Staff : n # m => staff'[n] = staff[n] /\ staff[n].phone # r.phone
    BY <1>1 DEF Staff, StaffPhoneFree
  <2>. QED  BY <1>1, <1>2, <2>1 DEF AccountsIInv, AccountsInv, OneAccountPerContact
<1>4. access' \cup refresh' \subseteq Users' \cup Staff'
  BY <1>2 DEF NoTokenChange, AccountsIInv, AccountsInv, OneAccountPerContact
<1>. QED
  BY <1>1, <1>2, <1>3, <1>4 DEF RowsInv, MoreRows, OneAccountPerContact, AccountsIInv, AccountsInv,
                                AccountsTypeOK

LEMMA WriteStaffLemma ==
  ASSUME AccountsIInv, NEW s \in Slots, WriteStaff(s)
  PROVE  Leaves
<1>. DEFINE b == handling[s].body
            m == handling[s].id
<1>1. CallsLeft /\ UNCHANGED user /\ NoTokenChange /\ b \in Body
  BY LeaveLemma DEF WriteStaff, AccountsIInv, AccountsInv, AccountsTypeOK, Calls
<1>2. CASE UNCHANGED staff
  BY <1>1, <1>2, UntouchedLemma DEF NoRowChange, Leaves
<1>3. CASE /\ handling[s].op = "create" /\ StaffPhoneFree(b.phone, Nothing)
           /\ \E n \in StaffIds \ Staff :
                SetStaff(n, [phone |-> b.phone, role |-> b.role, password |-> b.password,
                             removed |-> FALSE])
  <2>1. Nothing \notin {b.phone, b.password, b.role}
    BY <1>3 DEF AccountsIInv, CallOK
  <2>. DEFINE r == [phone |-> b.phone, role |-> b.role, password |-> b.password,
                    removed |-> FALSE]
  <2>2. r \in StaffRow
    BY <1>1, <2>1 DEF Body, StaffRow
  <2>3. r.phone = b.phone
    OBVIOUS
  <2>4. PICK n \in StaffIds \ Staff : SetStaff(n, r)
    BY <1>3
  <2>. HIDE DEF r
  <2>5. StaffPhoneFree(r.phone, n)
    <3>1. \A k \in Staff : k # Nothing
      BY DEF Staff
    <3>. QED  BY <1>3, <2>3, <3>1 DEF StaffPhoneFree
  <2>. QED  BY <1>1, <2>2, <2>4, <2>5, SetStaffLemma DEF Leaves
<1>4. CASE /\ handling[s].op \in {"update", "remove"} /\ handling[s].pc = "write"
           /\ ~ UNCHANGED staff
  <2>1. m \in Staff /\ m \in StaffIds /\ staff[m] \in StaffRow
    BY <1>4 DEF AccountsIInv, AccountsInv, AccountsTypeOK, CallOK, Staff
  <2>2. StaffPhoneFree(staff[m].phone, m)
    BY <2>1 DEF StaffPhoneFree, AccountsIInv, AccountsInv, OneAccountPerContact
  <2>3. CASE handling[s].op = "update" /\ StaffPhoneFree(b.phone, m) /\ SetStaff(m, UpdatedRow(s))
    <3>1. UpdatedRow(s) \in StaffRow
      BY <1>1, <2>1 DEF UpdatedRow, Or, Basis, Body, StaffRow
    <3>2. UpdatedRow(s).phone \in {b.phone, staff[m].phone}
      BY DEF UpdatedRow, Or, Basis
    <3>3. StaffPhoneFree(UpdatedRow(s).phone, m)
      BY <2>2, <2>3, <3>2
    <3>. QED  BY <1>1, <2>1, <2>3, <3>1, <3>3, SetStaffLemma DEF Leaves
  <2>4. CASE handling[s].op = "remove" /\ SetStaff(m, [staff[m] EXCEPT !.removed = TRUE])
    <3>. DEFINE r == [staff[m] EXCEPT !.removed = TRUE]
    <3>1. r \in StaffRow /\ r.phone = staff[m].phone
      BY <2>1 DEF StaffRow
    <3>2. SetStaff(m, r)
      BY <2>4
    <3>. HIDE DEF r
    <3>3. StaffPhoneFree(r.phone, m)
      BY <2>2, <3>1
    <3>. QED  BY <1>1, <2>1, <3>1, <3>2, <3>3, SetStaffLemma DEF Leaves
  <2>. QED  BY <1>4, <2>3, <2>4 DEF WriteStaff
<1>5. /\ handling[s].pc = "write"
      /\ handling[s].op = "create" \/ handling[s].op \in {"update", "remove"}
  BY DEF WriteStaff, AccountsIInv, CallOK
<1>6. CASE handling[s].op = "create"
  <2>1. \/ /\ StaffPhoneFree(b.phone, Nothing)
           /\ \E n \in StaffIds \ Staff :
                SetStaff(n, [phone |-> b.phone, role |-> b.role, password |-> b.password,
                             removed |-> FALSE])
        \/ UNCHANGED staff
    BY <1>6 DEF WriteStaff, StaffPhoneFree
  <2>. QED  BY <1>2, <1>3, <1>6, <2>1
<1>. QED  BY <1>2, <1>4, <1>5, <1>6

LEMMA AccountsInitInv == AccountsInit => AccountsIInv
<1>. SUFFICES ASSUME AccountsInit PROVE AccountsIInv
  OBVIOUS
<1>1. PICK e \in Emails, p \in Phones, w \in Passwords :
        /\ user = [u \in UserIds |-> IF u = Owner THEN [email |-> e, phone |-> p, password |-> w]
                                     ELSE Nothing]
        /\ staff = [m \in StaffIds |-> IF m = Admin
                      THEN [phone |-> p, role |-> "ADMIN", password |-> w, removed |-> FALSE]
                      ELSE Nothing]
  BY DEF AccountsInit
<1>2. /\ [email |-> e, phone |-> p, password |-> w] \in UserRow
      /\ [phone |-> p, role |-> "ADMIN", password |-> w, removed |-> FALSE] \in StaffRow
  BY DEF UserRow, StaffRow, StaffRoles
<1>3. Users = {Owner} /\ Staff = {Admin}
  BY <1>1, <1>2, OwnerAssumption DEF Users, Staff
<1>4. AccountsInv
  <2>1. \A s \in Slots : handling[s] = Idle
    BY DEF AccountsInit
  <2>2. handling \in [Slots -> Calls] /\ may \in [Slots -> SUBSET Ids] /\ calls \in 0 .. MaxCalls
    BY IdleLemma DEF AccountsInit
  <2>3. /\ user \in [UserIds -> UserRow \cup {Nothing}]
        /\ staff \in [StaffIds -> StaffRow \cup {Nothing}]
    BY <1>1, <1>2
  <2>4. access \cup refresh \subseteq Users \cup Staff /\ access \cup refresh \subseteq Ids
    BY <1>3, OwnerAssumption DEF AccountsInit, Ids
  <2>. QED  BY <1>3, <2>2, <2>3, <2>4 DEF AccountsInv, AccountsTypeOK, OneAccountPerContact
<1>5. \A s \in Slots : handling[s] = Idle
  BY DEF AccountsInit
<1>6. \A s \in Slots : CallOK(s)
  BY <1>5, IdleLemma DEF CallOK
<1>7. EntitledOnly
  BY <1>5, IdleLemma DEF EntitledOnly
<1>. QED  BY <1>4, <1>6, <1>7 DEF AccountsIInv

LEMMA AccountsStepLemma ==
  ASSUME AccountsIInv, AccountsNext
  PROVE  Leaves
<1>1. ASSUME NEW s \in Slots, AccountStep(s) PROVE Leaves
  <2>1. Fail(s) => Leaves
    BY GoesOnLemma DEF Fail
  <2>. QED
    BY <1>1, <2>1, ArriveLemma, FindsLemma, CreateUserLemma, CompareLemma, GuardLemma,
       WriteStaffLemma DEF AccountStep, AuthStep, StaffStep
<1>2. ASSUME NEW s \in Slots, AddressCall(s) \/ AddressStep(s) PROVE Leaves
  <2>1. NoRowChange /\ NoTokenChange /\ UNCHANGED handling
    BY <1>2 DEF AddressCall, AddressStep, NoRowChange, NoTokenChange
  <2>2. calls' \in 0 .. MaxCalls
    BY <1>2 DEF AddressCall, AddressStep, AccountsIInv, AccountsInv, AccountsTypeOK
  <2>3. CallsLeft
    BY <2>1, <2>2 DEF CallsLeft, AccountsIInv, AccountsInv, AccountsTypeOK
  <2>. QED  BY <2>1, <2>3, UntouchedLemma DEF Leaves
<1>3. ASSUME NEW x \in Ids, TokenStep(x) PROVE Leaves
  <2>1. NoRowChange /\ UNCHANGED <<handling, calls>>
    BY <1>3 DEF TokenStep, Expire, RefreshToken
  <2>2. access' \subseteq access \cup Users \cup Staff /\ refresh' \subseteq refresh \cup Users \cup Staff
    BY <1>3 DEF TokenStep, Expire, RefreshToken, SignIn
  <2>3. CallsLeft
    BY <2>1 DEF CallsLeft, AccountsIInv, AccountsInv, AccountsTypeOK
  <2>. QED  BY <2>1, <2>2, <2>3, TokensLemma DEF Leaves
<1>4. CASE Restart
  <2>1. handling' = [s \in Slots |-> Idle] /\ NoRowChange /\ NoTokenChange /\ UNCHANGED calls
    BY <1>4 DEF Restart
  <2>2. \A s \in Slots : CallOK(s)' /\ SlotEntitled(s)
    BY <2>1, IdleLemma DEF CallOK, SlotEntitled
  <2>3. CallsLeft
    BY <2>1, <2>2, IdleLemma DEF CallsLeft, AccountsIInv, AccountsInv, AccountsTypeOK
  <2>. QED  BY <2>1, <2>3, UntouchedLemma DEF Leaves
<1>. QED  BY <1>1, <1>2, <1>3, <1>4 DEF AccountsNext

LEMMA AccountsPreserves == AccountsIInv /\ [AccountsNext]_accountsVars => AccountsIInv'
<1>1. AccountsIInv /\ AccountsNext => AccountsIInv'
  BY AccountsStepLemma, WatchLemma DEF AccountsNext, Leaves
<1>2. AccountsIInv /\ UNCHANGED accountsVars => AccountsIInv'
  <2>. SUFFICES ASSUME AccountsIInv, UNCHANGED accountsVars PROVE AccountsIInv'
    OBVIOUS
  <2>1. UNCHANGED <<user, staff, access, refresh, handling, may, calls>>
    BY DEF accountsVars, accountVars
  <2>2. AccountsInv'
    BY <2>1 DEF AccountsIInv, AccountsInv, AccountsTypeOK, OneAccountPerContact, Users, Staff
  <2>3. \A s \in Slots : CallOK(s)'
    BY <2>1 DEF AccountsIInv, CallOK, Users, Staff
  <2>4. EntitledOnly'
    BY <2>1 DEF AccountsIInv, EntitledOnly
  <2>. QED  BY <2>2, <2>3, <2>4 DEF AccountsIInv
<1>. QED  BY <1>1, <1>2

\* Tables and calls are what they should be, and no two accounts share an
\* e-mail or a phone, however registrations and edits overlap
\* (register of auth.service.ts, create and update of staff.service.ts).
THEOREM AccountsAreOnePerContact == AccountsSpec => []AccountsInv
<1>1. AccountsIInv => AccountsInv
  BY DEF AccountsIInv
<1>. QED  BY <1>1, AccountsInitInv, AccountsPreserves, PTL DEF AccountsSpec

\* Nobody signs in, or gets past the guards, who was at no moment of the call
\* entitled to (login and staffLogin of auth.service.ts, RolesGuard).
THEOREM OnlyTheEntitled == AccountsSpec => []EntitledOnly
<1>1. AccountsIInv => EntitledOnly
  BY DEF AccountsIInv
<1>. QED  BY <1>1, AccountsInitInv, AccountsPreserves, PTL DEF AccountsSpec

\* A field of a staff row changes only as the call that is done then asked
\* (update of staff.service.ts).
THEOREM FieldsAreKept == AccountsSpec => FieldsKept
<1>1. AccountsIInv /\ [AccountsNext]_accountsVars =>
        [\A m \in Staff : \A f \in {"phone", "role", "password"} :
           staff'[m][f] # staff[m][f] =>
             \E s \in Slots :
               /\ handling[s].op = "update" /\ handling[s].id = m
               /\ handling[s].body[f] = staff'[m][f] /\ handling'[s] = Idle]_accountsVars
  <2>. SUFFICES ASSUME AccountsIInv, AccountsNext, NEW m \in Staff,
                       NEW f \in {"phone", "role", "password"}, staff'[m][f] # staff[m][f]
                PROVE  \E s \in Slots :
                         /\ handling[s].op = "update" /\ handling[s].id = m
                         /\ handling[s].body[f] = staff'[m][f] /\ handling'[s] = Idle
    OBVIOUS
  <2>1. m \in StaffIds /\ staff[m] \in StaffRow /\ staff'[m] # staff[m]
    BY DEF Staff, AccountsIInv, AccountsInv, AccountsTypeOK
  <2>2. PICK s \in Slots : WriteStaff(s)
    BY <2>1 DEF AccountsNext, AccountStep, AddressCall, AddressStep, TokenStep, Expire, RefreshToken,
       Restart, NoRowChange, Untouched, Arrive, Register, Login, StaffLogin, OtherCall, CreateStaff,
       UpdateStaff, RemoveStaff, WithToken, AuthStep, FindEmail, FindPhone, CreateUser, FindUser,
       FindMember, Fallback, Compare, GuardStep, Validate, Answer, StaffStep, FindStaff, Fail
  <2>3. handling'[s] = Idle
    BY <2>2 DEF WriteStaff, Leave, AccountsIInv, AccountsInv, AccountsTypeOK
  <2>4. ASSUME NEW n \in StaffIds \ Staff, NEW r, SetStaff(n, r) PROVE FALSE
    BY <2>1, <2>4 DEF SetStaff, AccountsIInv, AccountsInv, AccountsTypeOK
  <2>5. ~ SetStaff(handling[s].id, [staff[handling[s].id] EXCEPT !.removed = TRUE])
    <3>. SUFFICES ASSUME SetStaff(handling[s].id, [staff[handling[s].id] EXCEPT !.removed = TRUE])
                  PROVE  FALSE
      OBVIOUS
    <3>1. staff'[m] = [staff[m] EXCEPT !.removed = TRUE]
      BY <2>1 DEF SetStaff, AccountsIInv, AccountsInv, AccountsTypeOK
    <3>. QED  BY <2>1, <3>1 DEF StaffRow
  <2>6. handling[s].op = "update" /\ SetStaff(handling[s].id, UpdatedRow(s))
    BY <2>1, <2>2, <2>4, <2>5 DEF WriteStaff
  <2>7. handling[s].id = m /\ staff'[m] = UpdatedRow(s)
    BY <2>1, <2>6 DEF SetStaff, AccountsIInv, AccountsInv, AccountsTypeOK
  <2>8. handling[s].body[f] = staff'[m][f]
    BY <2>7 DEF UpdatedRow, Or, Basis
  <2>. QED  BY <2>3, <2>6, <2>7, <2>8
<1>. QED  BY <1>1, AccountsInitInv, AccountsPreserves, PTL DEF AccountsSpec, FieldsKept
=============================================================================
