---------------------------- MODULE AccountStore ----------------------------
(***************************************************************************)
(* The tables User and Staff with their unique columns, the tokens in the   *)
(* hands of clients, and the calls that AuthService and StaffService are    *)
(* handling: each is a few awaits (queries and bcrypt), between which the   *)
(* other calls go on.  Names and display fields are left out.               *)
(***************************************************************************)
EXTENDS Faults, FiniteSets

CONSTANTS
  UserIds, StaffIds,          \* ids of the rows that may exist
  Emails, Phones, Passwords,  \* what a body may contain
  Nothing,                    \* a missing field, row or id
  Slots,                      \* slots for calls that run at the same time
  MaxCalls                    \* how many calls clients make in all

ASSUME AccountsAssumption ==
  /\ UserIds \cap StaffIds = {}
  /\ Nothing \notin UserIds \cup StaffIds \cup Emails \cup Phones \cup Passwords
  /\ MaxCalls \in Nat

VARIABLES
  user, staff,      \* the rows
  access, refresh,  \* the accounts a valid access or refresh token exists for
  handling,         \* the call in each slot
  may,              \* auxiliary: who the call may act for, now or earlier in it
  calls             \* how many calls have been made

accountVars == <<user, staff, access, refresh, handling, may, calls, faults>>

StaffRoles == {"ADMIN", "KITCHEN", "COURIER"}
Everyone   == StaffRoles \cup {"USER"}    \* a user, to the guards, has this role
Ids        == UserIds \cup StaffIds

UserRow  == [email : Emails, phone : Phones \cup {Nothing}, password : Passwords]
\* An administrator may give staff "an email-like identifier" as the phone.
StaffRow == [phone : Phones \cup Emails, role : StaffRoles, password : Passwords,
             removed : BOOLEAN]

ASSUME RowsAssumption == Nothing \notin UserRow \cup StaffRow

\* A request's body; the fields a route does not have are missing.
Body == [email : Emails \cup {Nothing}, phone : Phones \cup Emails \cup {Nothing},
         password : Passwords \cup {Nothing}, role : StaffRoles \cup {Nothing}]
NoBody == [email |-> Nothing, phone |-> Nothing, password |-> Nothing, role |-> Nothing]

\* by: whose token came with the call; roles: whom the route is for; id and
\* seen: the row it is about, as the handler has found it.
NewCall(op, pc, body, by, roles, id) ==
  [pc |-> pc, op |-> op, body |-> body, by |-> by, roles |-> roles, id |-> id, seen |-> Nothing]

Idle == NewCall("none", "idle", NoBody, Nothing, Everyone, Nothing)

Users == {u \in UserIds : user[u] # Nothing}
Staff == {m \in StaffIds : staff[m] # Nothing}

\* Mutation: the columns are not unique.
FitsAnyhow(b) == b.email # Nothing

\* Unique columns: no row has the e-mail or the phone, and e-mail is required.
UserFits(b) ==
  /\ b.email # Nothing
  /\ \A u \in Users : user[u].email # b.email /\ (b.phone # Nothing => user[u].phone # b.phone)

StaffPhoneFree(phone, id) == \A m \in Staff : staff[m].phone = phone => m = id

Enter(s, call) ==
  /\ handling[s] = Idle
  /\ calls < MaxCalls
  /\ calls' = calls + 1
  /\ handling' = [handling EXCEPT ![s] = call]

\* The handler goes on at pc, or is done: it returns, or throws.
Proceed(s, pc) == handling' = [handling EXCEPT ![s].pc = pc] /\ UNCHANGED calls
Leave(s)       == handling' = [handling EXCEPT ![s] = Idle] /\ UNCHANGED calls

\* The handler goes on with the row it has found.
Found(s, id, found) ==
  /\ handling' = [handling EXCEPT ![s] =
       [@ EXCEPT !.pc = IF handling[s].op \in {"login", "staffLogin"} THEN "compare" ELSE "write",
                 !.id = id, !.seen = found]]
  /\ UNCHANGED calls

NoRowChange  == UNCHANGED <<user, staff>>
NoTokenChange == UNCHANGED <<access, refresh>>
Untouched    == NoRowChange /\ NoTokenChange /\ NoFault

-----------------------------------------------------------------------------
(* Tokens: generateTokens signs an access and a refresh token *)

SignIn(x) == access' = access \cup {x} /\ refresh' = refresh \cup {x}

\* The last token of its kind for x runs out, the refresh token after the other.
Expire(x) ==
  /\ \/ x \in access /\ access' = access \ {x} /\ UNCHANGED refresh
     \/ x \in refresh \ access /\ refresh' = refresh \ {x} /\ UNCHANGED access
  /\ NoRowChange /\ NoFault /\ UNCHANGED <<handling, calls>>
=============================================================================
