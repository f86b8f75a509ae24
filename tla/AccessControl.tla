---------------------------- MODULE AccessControl ---------------------------
(***************************************************************************)
(* JwtAuthGuard with JwtStrategy, then RolesGuard, and the routes they      *)
(* protect with the roles each controller names.  A route without @Roles is *)
(* for everyone with a token; routes without a guard are not listed.        *)
(***************************************************************************)
EXTENDS AccountStore

Admins == {"ADMIN"}

CategoryRoutes ==
  [createCategory |-> Admins, updateCategory |-> Admins, deleteCategory |-> Admins]

ItemRoutes ==
  [createItem |-> Admins, uploadImage |-> Admins, updateItem |-> Admins, deleteItem |-> Admins]

ModifierRoutes ==
  [createModifier |-> Admins, updateModifier |-> Admins, deleteModifier |-> Admins]

DeliveryRoutes ==
  [create  |-> Admins, assign |-> Admins, status |-> {"ADMIN", "COURIER"},
   findAll |-> Admins, findMy |-> {"COURIER"}]

OrderRoutes ==
  [create |-> Everyone, findAll |-> Everyone, findOne |-> Everyone, cancel |-> Everyone,
   adminAll |-> {"ADMIN", "KITCHEN"}, status |-> {"ADMIN", "KITCHEN"}]

AdminRoutes == [dailySales |-> Admins, users |-> Admins, chatLogs |-> Admins]
ChatRoutes  == [getMessages |-> Everyone, sendMessage |-> Everyone]
PaymentRoutes == [intent |-> Everyone]
StaffReads  == [findAll |-> Admins, findOne |-> Admins]

\* The handlers behind these are modelled elsewhere, or only read.
OtherRoutes ==
  {CategoryRoutes, ItemRoutes, ModifierRoutes, DeliveryRoutes, OrderRoutes, AdminRoutes,
   ChatRoutes, PaymentRoutes, StaffReads}

\* A call with a valid token of one of the accounts.
WithToken(s, op, roles, body, id) ==
  /\ \E x \in access : Enter(s, NewCall(op, "guard", body, x, roles, id))
  /\ Untouched

OtherCall(s) ==
  \E t \in OtherRoutes : \E r \in DOMAIN t : WithToken(s, "other", t[r], NoBody, Nothing)

\* The role the row has now, and not the one it had when the token was signed.
RoleOf(x) == IF x \in StaffIds THEN staff[x].role ELSE "USER"

\* JwtStrategy.validate finds the row, RolesGuard looks at its role, and the
\* handler starts.
Validate(s) ==
  /\ handling[s].pc = "guard"
  /\ LET x == handling[s].by IN
       IF x \in Users \cup Staff /\ RoleOf(x) \in handling[s].roles
       THEN Proceed(s, IF handling[s].op = "other" THEN "inside" ELSE "find")
       ELSE Leave(s)
  /\ Untouched

Answer(s) == handling[s].pc = "inside" /\ Leave(s) /\ Untouched

GuardStep(s) == Validate(s) \/ Answer(s)
=============================================================================
