----------------------------- MODULE MCAccounts -----------------------------
(***************************************************************************)
(* Instances of Accounts: the seeded user and administrator, two further    *)
(* users and one member of staff to be, and two overlapping calls.          *)
(***************************************************************************)
EXTENDS Accounts, TLC

CONSTANTS u1, u2, u3, m1, m2, e1, e2, p1, p2, w1, w2, a1, a2, a3, r1, r2

SomeUsers    == {u1, u2, u3}
SomeStaff    == {m1, m2}
TwoEmails    == {e1, e2}
TwoPhones    == {p1, p2}
TwoPasswords == {w1, w2}
SomeAddresses == {a1, a2, a3}
TwoSlots     == {r1, r2}
SomeFaults   == {"unset", "write", "delete", "crash"}

SomeNewStaff ==
  {[NoBody EXCEPT !.phone = p, !.password = w, !.role = "COURIER"] :
     p \in TwoPhones \cup TwoEmails, w \in TwoPasswords}

\* Edits of one field, and of nothing.
OneField ==
  {NoBody} \cup {[NoBody EXCEPT !.phone = p] : p \in TwoPhones \cup TwoEmails}
    \cup {[NoBody EXCEPT !.password = w] : w \in TwoPasswords}
    \cup {[NoBody EXCEPT !.role = r] : r \in {"ADMIN", "KITCHEN"}}

Symmetry ==
  Permutations({u2, u3}) \cup Permutations(TwoEmails) \cup Permutations(TwoPhones)
    \cup Permutations(TwoPasswords) \cup Permutations(TwoSlots)
=============================================================================
