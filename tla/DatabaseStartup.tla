--------------------------- MODULE DatabaseStartup ---------------------------
(***************************************************************************)
(* PrismaService.onModuleInit: connecting with retries and seeding.  An     *)
(* instance is one run of the server process: a restart, and the process    *)
(* that replaces another one in a deployment, are further instances, and    *)
(* two may start at the same time over one database.  syncSchema runs       *)
(* synchronously and its failure is ignored; when it leaves no tables, the  *)
(* queries below fail.                                                      *)
(***************************************************************************)
EXTENDS Faults, FiniteSets

CONSTANTS
  Instances,    \* the runs of the server process
  Categories,   \* how many categories seedMenu has
  MaxConnects   \* maxRetries: how often a failed connect is repeated

ASSUME StartupAssumption ==
  /\ IsFiniteSet(Instances)
  /\ Categories \in Nat \ {0}
  /\ MaxConnects \in Nat

VARIABLES
  env,        \* whether NODE_ENV is production, and ADMIN_PASSWORD is set
  rows,       \* whether the admin and the two demo accounts exist
  menu,       \* how many copies of each seeded category there are
  proc,       \* where each instance stands
  together    \* auxiliary: two instances have been starting at the same time

startupVars == <<env, rows, menu, proc, together>>

Accounts == {"admin", "customer", "kitchen"}

\* The query an instance makes next while it seeds.
Seeding == {"findAdmin", "createAdmin", "countMenu", "createCategory",
            "findCustomer", "createCustomer", "findKitchen", "createKitchen"}

StartupTypeOK ==
  /\ env \in [production : BOOLEAN, password : BOOLEAN]
  /\ rows \in [Accounts -> BOOLEAN]
  /\ menu \in [1 .. Categories -> Nat]
  /\ proc \in [Instances -> [pc      : Seeding \cup {"off", "connect", "serving", "dead"},
                             retries : 0 .. MaxConnects,
                             seeded  : 0 .. Categories]]   \* categories created
  /\ together \in BOOLEAN

StartupInit ==
  /\ env \in [production : BOOLEAN, password : BOOLEAN]
  /\ rows = [a \in Accounts |-> FALSE]
  /\ menu = [k \in 1 .. Categories |-> 0]
  /\ proc = [i \in Instances |-> [pc |-> "off", retries |-> 0, seeded |-> 0]]
  /\ together = FALSE

Starting(i) == proc[i].pc \in Seeding \cup {"connect"}

GoOn(i, pc) == proc' = [proc EXCEPT ![i].pc = pc]

\* syncSchema never fails a start: what it throws is logged.
Boot(i) ==
  /\ proc[i].pc = "off"
  /\ GoOn(i, "connect")
  /\ together' = (together \/ \E j \in Instances : Starting(j))
  /\ UNCHANGED <<env, rows, menu, faults>>

-----------------------------------------------------------------------------
(* connectWithRetry *)

Connect(i) ==
  /\ proc[i].pc = "connect"
  /\ GoOn(i, "findAdmin")
  /\ UNCHANGED <<env, rows, menu, together, faults>>

\* Mutation: after the last retry it starts over.
ConnectFailsOver(i) ==
  /\ proc[i].pc = "connect"
  /\ proc' = [proc EXCEPT ![i].retries = (@ + 1) % (MaxConnects + 1)]
  /\ UNCHANGED <<env, rows, menu, together, faults>>

\* $connect throws; after the last retry the process ends with the error.
ConnectFails(i) ==
  /\ proc[i].pc = "connect"
  /\ IF proc[i].retries < MaxConnects
     THEN proc' = [proc EXCEPT ![i].retries = @ + 1]
     ELSE GoOn(i, "dead")
  /\ UNCHANGED <<env, rows, menu, together, faults>>

-----------------------------------------------------------------------------
(* seedDatabase: any error ends it, and the instance serves all the same *)

SeedFails(i) ==
  /\ proc[i].pc \in Seeding
  /\ Fault("seed")
  /\ GoOn(i, "serving")
  /\ UNCHANGED <<env, rows, menu, together>>

\* Looks for the account, and creates it next if it is wanted and missing.
FindAccount(i, at, account, wanted, create, skip) ==
  /\ proc[i].pc = at
  /\ GoOn(i, IF rows[account] \/ ~ wanted THEN skip ELSE create)
  /\ UNCHANGED <<env, rows, menu, together, faults>>

\* Phone and e-mail are unique: create throws when the account exists by now.
CreateAccount(i, at, account, next) ==
  /\ proc[i].pc = at
  /\ rows' = [rows EXCEPT ![account] = TRUE]
  /\ GoOn(i, IF rows[account] THEN "serving" ELSE next)
  /\ UNCHANGED <<env, menu, together, faults>>

\* Outside production there is a built-in password.
HasAdminPassword == env.password \/ ~ env.production

FindAdmin(i) ==
  FindAccount(i, "findAdmin", "admin", HasAdminPassword, "createAdmin", "countMenu")
CreateAdmin(i) == CreateAccount(i, "createAdmin", "admin", "countMenu")

\* Demo accounts are not for production.
AfterMenu == IF env.production THEN "serving" ELSE "findCustomer"

\* Mutation: a menu that lacks its last category is seeded again.
EmptyToTheEnd == menu[Categories] = 0

EmptyMenu == \A k \in 1 .. Categories : menu[k] = 0

CountMenu(i) ==
  /\ proc[i].pc = "countMenu"
  /\ GoOn(i, IF EmptyMenu THEN "createCategory" ELSE AfterMenu)
  /\ UNCHANGED <<env, rows, menu, together, faults>>

\* A category with its items and their modifiers is one nested create.
CreateCategory(i) ==
  /\ proc[i].pc = "createCategory"
  /\ LET k == proc[i].seeded + 1 IN
       /\ menu' = [menu EXCEPT ![k] = @ + 1]
       /\ proc' = [proc EXCEPT
            ![i] = [pc      |-> IF k < Categories THEN "createCategory" ELSE AfterMenu,
                    retries |-> proc[i].retries,
                    seeded  |-> k]]
  /\ UNCHANGED <<env, rows, together, faults>>

\* Mutation: the kitchen's account is forgotten when the customer's is new.
CreateCustomerLast(i) == CreateAccount(i, "createCustomer", "customer", "serving")

FindCustomer(i) ==
  FindAccount(i, "findCustomer", "customer", TRUE, "createCustomer", "findKitchen")
CreateCustomer(i) == CreateAccount(i, "createCustomer", "customer", "findKitchen")

FindKitchen(i) ==
  FindAccount(i, "findKitchen", "kitchen", TRUE, "createKitchen", "serving")
CreateKitchen(i) == CreateAccount(i, "createKitchen", "kitchen", "serving")

StartStep(i) ==
  \/ Connect(i) \/ ConnectFails(i) \/ SeedFails(i)
  \/ FindAdmin(i) \/ CreateAdmin(i)
  \/ CountMenu(i) \/ CreateCategory(i)
  \/ FindCustomer(i) \/ CreateCustomer(i)
  \/ FindKitchen(i) \/ CreateKitchen(i)

\* The process dies, starting or serving.
Die(i) ==
  /\ Starting(i) \/ proc[i].pc = "serving"
  /\ GoOn(i, "dead")
  /\ UNCHANGED <<env, rows, menu, together, faults>>
=============================================================================
