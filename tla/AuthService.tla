----------------------------- MODULE AuthService ----------------------------
(***************************************************************************)
(* AuthService: register, login for users and for staff, refreshToken.  The *)
(* route's early refusals (no e-mail and no phone) change nothing, so such  *)
(* bodies are not sent.                                                     *)
(***************************************************************************)
EXTENDS AccountStore

Credentials ==
  {[email |-> e, phone |-> p, password |-> w, role |-> Nothing] :
     e \in Emails \cup {Nothing}, p \in Phones \cup {Nothing}, w \in Passwords}

Register(s) ==
  /\ \E b \in Credentials :
       /\ b.email # Nothing \/ b.phone # Nothing
       /\ Enter(s, NewCall("register", IF b.email # Nothing THEN "findEmail" ELSE "findPhone",
                           b, Nothing, Everyone, Nothing))
  /\ Untouched

FindEmail(s) ==
  /\ handling[s].pc = "findEmail"
  /\ IF \E u \in Users : user[u].email = handling[s].body.email THEN Leave(s)
     ELSE Proceed(s, IF handling[s].body.phone # Nothing THEN "findPhone" ELSE "create")
  /\ Untouched

FindPhone(s) ==
  /\ handling[s].pc = "findPhone"
  /\ IF \E u \in Users : user[u].phone = handling[s].body.phone THEN Leave(s)
                                                                ELSE Proceed(s, "create")
  /\ Untouched

\* After bcrypt.hash; create throws when the row does not fit the table by now.
CreateUser(s) ==
  /\ handling[s].pc = "create"
  /\ LET b == handling[s].body IN
       \/ /\ UserFits(b)
          /\ \E u \in UserIds \ Users :
               /\ user' = [user EXCEPT ![u] = [email |-> b.email, phone |-> b.phone,
                                               password |-> b.password]]
               /\ SignIn(u)
          /\ UNCHANGED staff
       \/ ~ UserFits(b) /\ NoRowChange /\ NoTokenChange
  /\ Leave(s)
  /\ NoFault

-----------------------------------------------------------------------------
(* login *)

Login(s) ==
  /\ \E b \in Credentials :
       /\ b.email # Nothing \/ b.phone # Nothing
       /\ Enter(s, NewCall("login", "find", b, Nothing, Everyone, Nothing))
  /\ Untouched

\* findUnique throws without a phone, whether or not there is an e-mail.
StaffLogin(s) ==
  /\ \E b \in Credentials :
       /\ b.phone # Nothing
       /\ Enter(s, NewCall("staffLogin", "find", b, Nothing, Everyone, Nothing))
  /\ Untouched

\* By e-mail if the body has one, else by phone.
UserNamed(b) ==
  {u \in Users : IF b.email # Nothing THEN user[u].email = b.email
                                      ELSE user[u].phone = b.phone}

StaffNamed(phone) == {m \in Staff : staff[m].phone = phone}

FindUser(s) ==
  /\ handling[s].pc = "find" /\ handling[s].op = "login"
  /\ LET named == UserNamed(handling[s].body) IN
       IF named = {} THEN Leave(s) ELSE \E u \in named : Found(s, u, user[u])
  /\ Untouched

FindMember(s) ==
  /\ handling[s].pc = "find" /\ handling[s].op = "staffLogin"
  /\ LET named == StaffNamed(handling[s].body.phone) IN
       IF named = {} THEN Proceed(s, "fallback") ELSE \E m \in named : Found(s, m, staff[m])
  /\ Untouched

\* Mutation: findFirst is called without an e-mail, and so finds anybody.
FallbackUnnamed(s) ==
  LET email == handling[s].body.email IN {m \in Staff : email # Nothing => staff[m].phone = email}

\* findFirst by the e-mail, if there is one.
FallbackNamed(s) == StaffNamed(handling[s].body.email)

Fallback(s) ==
  /\ handling[s].pc = "fallback"
  /\ IF FallbackNamed(s) = {} THEN Leave(s)
     ELSE \E m \in FallbackNamed(s) : Found(s, m, staff[m])
  /\ Untouched

\* bcrypt.compare with the hash that was read; the row may have changed since.
Compare(s) ==
  /\ handling[s].pc = "compare"
  /\ IF handling[s].seen.password = handling[s].body.password
     THEN SignIn(handling[s].id) ELSE NoTokenChange
  /\ Leave(s)
  /\ NoRowChange /\ NoFault

\* refreshToken: one query, then the new tokens.
RefreshToken(x) ==
  /\ x \in refresh /\ x \in Users \cup Staff
  /\ SignIn(x)
  /\ NoRowChange /\ NoFault /\ UNCHANGED <<handling, calls>>

AuthStep(s) ==
  \/ FindEmail(s) \/ FindPhone(s) \/ CreateUser(s)
  \/ FindUser(s) \/ FindMember(s) \/ Fallback(s) \/ Compare(s)
=============================================================================
