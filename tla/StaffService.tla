---------------------------- MODULE StaffService ----------------------------
(***************************************************************************)
(* StaffService.create, update and remove, for administrators.              *)
(***************************************************************************)
EXTENDS AccessControl

CONSTANTS NewStaff, Edits     \* bodies of create and of update requests

ASSUME StaffBodiesAssumption ==
  /\ NewStaff \cup Edits \subseteq Body
  /\ \A b \in NewStaff \cup Edits : b.email = Nothing
  /\ \A b \in NewStaff : Nothing \notin {b.phone, b.password, b.role}

CreateStaff(s) == \E b \in NewStaff : WithToken(s, "create", Admins, b, Nothing)
UpdateStaff(s) == \E b \in Edits, m \in StaffIds : WithToken(s, "update", Admins, b, m)

RemoveStaff(s) == \E m \in StaffIds : WithToken(s, "remove", Admins, NoBody, m)

\* findUnique by phone or by id; a create must not find anybody.  Rows that
\* are removed are found like the others.
FindStaff(s) ==
  /\ handling[s].pc = "find"
  /\ \/ /\ handling[s].op = "create"
        /\ IF \E m \in Staff : staff[m].phone = handling[s].body.phone
           THEN Leave(s) ELSE Proceed(s, "write")
     \/ /\ handling[s].op \in {"update", "remove"}
        /\ LET m == handling[s].id IN
             IF m \in Staff THEN Found(s, m, staff[m]) ELSE Leave(s)
  /\ Untouched

\* A field the body does not name keeps its value.
Or(new, old) == IF new = Nothing THEN old ELSE new

\* Mutation: the fields that are not named are written back as they were found.
BasisFound(s) == handling[s].seen

\* What the update leaves of the row is what is in the table when it is made.
Basis(s) == staff[handling[s].id]

UpdatedRow(s) ==
  LET b == handling[s].body IN
  [phone    |-> Or(b.phone, Basis(s).phone), role    |-> Or(b.role, Basis(s).role),
   password |-> Or(b.password, Basis(s).password), removed |-> staff[handling[s].id].removed]

SetStaff(m, r) == staff' = [staff EXCEPT ![m] = r]

\* After bcrypt.hash, if any; create and update throw when the phone is taken.
WriteStaff(s) ==
  /\ handling[s].pc = "write"
  /\ LET b == handling[s].body
         m == handling[s].id IN
     \/ /\ handling[s].op = "create" /\ StaffPhoneFree(b.phone, Nothing)
        /\ \E n \in StaffIds \ Staff :
             SetStaff(n, [phone |-> b.phone, role |-> b.role, password |-> b.password,
                          removed |-> FALSE])
     \/ handling[s].op = "update" /\ StaffPhoneFree(b.phone, m) /\ SetStaff(m, UpdatedRow(s))
     \/ handling[s].op = "remove" /\ SetStaff(m, [staff[m] EXCEPT !.removed = TRUE])
     \/ handling[s].op # "remove" /\ ~ StaffPhoneFree(b.phone, m) /\ UNCHANGED staff
  /\ Leave(s)
  /\ UNCHANGED user /\ NoTokenChange /\ NoFault

StaffStep(s) == FindStaff(s) \/ WriteStaff(s)
=============================================================================
