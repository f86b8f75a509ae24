------------------------------ MODULE Accounts ------------------------------
(***************************************************************************)
(* Authentication, guards, staff management and the addresses of one user,  *)
(* Owner, as one server runs them: overlapping calls over one database.     *)
(***************************************************************************)
EXTENDS AuthService, StaffService, UserAddresses

CONSTANTS Owner, Admin      \* the accounts that exist already (seedDatabase)

ASSUME OwnerAssumption == Owner \in UserIds /\ Admin \in StaffIds /\ Slots = Requests

accountsVars == <<accountVars, row, req>>

\* Whom a call may act for as things are: whoever has the role its route
\* asks for and whose token it brought, or whom its credentials are those of.
TokenHolder(h) == {x \in (Users \cup Staff) \cap {h.by} : RoleOf(x) \in h.roles}

CredentialHolders(h) ==
  {u \in UserNamed(h.body) : h.op = "login" /\ user[u].password = h.body.password}
    \cup {m \in StaffNamed(h.body.phone) \cup StaffNamed(h.body.email) :
            h.op = "staffLogin" /\ staff[m].password = h.body.password}

Entitled(s) == TokenHolder(handling[s]) \cup CredentialHolders(handling[s])

\* Keeps the auxiliary variable: every step ends with it.
Watch ==
  may' = [s \in Slots |->
            IF handling'[s] = Idle THEN {}
            ELSE may[s] \cup Entitled(s)']

AccountsInit ==
  /\ \E e \in Emails, p \in Phones, w \in Passwords :    \* one person may have both
       /\ user = [u \in UserIds |-> IF u = Owner THEN [email |-> e, phone |-> p, password |-> w]
                                    ELSE Nothing]
       /\ staff = [m \in StaffIds |-> IF m = Admin
                     THEN [phone |-> p, role |-> "ADMIN", password |-> w, removed |-> FALSE]
                     ELSE Nothing]
  /\ access = {Owner, Admin} /\ refresh = {Owner, Admin}
  /\ handling = [s \in Slots |-> Idle]
  /\ may = [s \in Slots |-> {}]
  /\ calls = 0
  /\ AddressInit

Arrive(s) ==
  \/ Register(s) \/ Login(s) \/ StaffLogin(s)
  \/ OtherCall(s) \/ CreateStaff(s) \/ UpdateStaff(s) \/ RemoveStaff(s)

\* A query of the handler throws: it may at any time, MaxFaults does not count it.
Fail(s) ==
  /\ handling[s].pc \in {"guard", "findEmail", "findPhone", "create", "find", "fallback", "write"}
  /\ Leave(s) /\ Untouched

\* The guard has let Owner in, and the handler begins.
AddressCall(s) ==
  /\ handling[s] = Idle /\ calls < MaxCalls /\ Owner \in access \cap Users
  /\ CreateStart(s) \/ UpdateStart(s) \/ DeleteStart(s)
  /\ calls' = calls + 1
  /\ UNCHANGED <<user, staff, access, refresh, handling>>

AddressStep(s) ==
  /\ UnsetOthers(s) \/ Write(s) \/ Delete(s)
  /\ UNCHANGED <<user, staff, access, refresh, handling, calls>>

AccountStep(s) ==
  /\ req[s] = IdleReq
  /\ Arrive(s) \/ AuthStep(s) \/ GuardStep(s) \/ StaffStep(s) \/ Fail(s)
  /\ UNCHANGED <<row, req>>

TokenStep(x) == (Expire(x) \/ RefreshToken(x)) /\ UNCHANGED <<row, req>>

\* Tokens are in the clients' hands: they stay.
Restart ==
  /\ Crash
  /\ handling' = [s \in Slots |-> Idle]
  /\ NoRowChange /\ NoTokenChange /\ UNCHANGED calls

AccountsNext ==
  /\ \/ \E s \in Slots : AccountStep(s) \/ AddressCall(s) \/ AddressStep(s)
     \/ \E x \in Ids : TokenStep(x)
     \/ Restart
  /\ Watch

AccountsSpec == AccountsInit /\ [][AccountsNext]_accountsVars

-----------------------------------------------------------------------------
(* Properties *)

CallPcs == {"idle", "findEmail", "findPhone", "create", "find", "fallback", "compare",
            "guard", "inside", "write"}
CallOps == {"none", "register", "login", "staffLogin", "other", "create", "update", "remove"}

Calls == [pc : CallPcs, op : CallOps, body : Body, by : Ids \cup {Nothing},
          roles : SUBSET Everyone, id : Ids \cup {Nothing},
          seen : UserRow \cup StaffRow \cup {Nothing}]

AccountsTypeOK ==
  /\ user \in [UserIds -> UserRow \cup {Nothing}]
  /\ staff \in [StaffIds -> StaffRow \cup {Nothing}]
  /\ access \subseteq Ids /\ refresh \subseteq Ids
  /\ handling \in [Slots -> Calls]
  /\ may \in [Slots -> SUBSET Ids]
  /\ calls \in 0 .. MaxCalls

\* Two calls that both found an e-mail or a phone free, whether they register,
\* create staff or give a member another phone, do not both get it; and tokens
\* are only ever held for accounts that exist.
OneAccountPerContact ==
  /\ \A u, v \in Users : u # v =>
       /\ user[u].email # user[v].email
       /\ user[u].phone # Nothing => user[u].phone # user[v].phone
  /\ \A m, n \in Staff : m # n => staff[m].phone # staff[n].phone
  /\ access \cup refresh \subseteq Users \cup Staff

AccountsInv == AccountsTypeOK /\ OneAccountPerContact

\* A login that is going to succeed, and a handler behind the guards, act for
\* an account that had the contact and the password, or the role, at some
\* moment since the call began, whatever administrators change meanwhile.
EntitledOnly ==
  \A s \in Slots :
    LET h == handling[s] IN
    /\ h.pc = "compare" /\ h.seen.password = h.body.password => h.id \in may[s]
    /\ h.by # Nothing /\ h.pc # "guard" => h.by \in may[s]

\* A field of a staff row changes only when a call that names it, with that
\* value, is done: administrators who edit different fields of one row at the
\* same time do not undo each other's work.
FieldsKept ==
  [][\A m \in Staff : \A f \in {"phone", "role", "password"} :
       staff'[m][f] # staff[m][f] =>
         \E s \in Slots :
           /\ handling[s].op = "update" /\ handling[s].id = m
           /\ handling[s].body[f] = staff'[m][f] /\ handling'[s] = Idle]_accountsVars

-----------------------------------------------------------------------------
(* What else every reachable state satisfies *)

\* What a handler relies on when it makes its next call: the fields its route
\* asks for are there, and the row it has found is still there.
CallOK(s) ==
  LET h == handling[s] IN
  /\ h.pc \in {"findEmail", "findPhone", "create"} =>
       h.body.phone \in Phones \cup {Nothing} /\ h.body.password \in Passwords
  /\ h.pc = "fallback" => h.op = "staffLogin"
  /\ h.pc = "compare" => h.id \in Users \cup Staff
  /\ h.pc = "write" => \/ h.op = "create"
                       \/ h.op \in {"update", "remove"} /\ h.id \in Staff
  /\ h.op = "create" => Nothing \notin {h.body.phone, h.body.password, h.body.role}

AccountsIInv ==
  /\ AccountsInv
  /\ \A s \in Slots : CallOK(s)
  /\ EntitledOnly
=============================================================================
