---------------------------- MODULE PrismaService ---------------------------
(***************************************************************************)
(* PrismaService as a whole: the instances of the server start over one     *)
(* database, and the handlers of those that serve call executeWithRetry.    *)
(***************************************************************************)
EXTENDS DatabaseStartup, TransactionRetry

CONSTANT Host      \* the instance in which each call is made

ASSUME HostAssumption == Host \in [Calls -> Instances]

prismaVars == <<startupVars, faults, retryVars>>

PrismaInit == StartupInit /\ FaultsInit /\ RetryInit

Start(i)   == StartStep(i) /\ UNCHANGED retryVars
Launch(i)  == Boot(i) /\ UNCHANGED retryVars
Kill(i)    == Die(i) /\ UNCHANGED retryVars

\* Requests are let in when onModuleInit is done, and die with the process.
Transact(c) ==
  /\ proc[Host[c]].pc = "serving"
  /\ RetryStep(c)
  /\ UNCHANGED <<startupVars, faults>>

PrismaNext ==
  \/ \E i \in Instances : Launch(i) \/ Start(i) \/ Kill(i)
  \/ \E c \in Calls : Transact(c)

PrismaSpec == PrismaInit /\ [][PrismaNext]_prismaVars

\* A call to the database, or a delay, ends.  Nobody has to start an instance.
FairPrismaSpec ==
  /\ PrismaSpec
  /\ \A i \in Instances : WF_prismaVars(Start(i))
  /\ \A c \in Calls : WF_prismaVars(Transact(c))

-----------------------------------------------------------------------------
(* Properties *)

Died == \E i \in Instances : proc[i].pc = "dead"

\* Every category in the menu was created by one of the instances, in the order
\* of seedMenu, whichever of them overlap, fail or die: the copies of a category
\* are as many as the instances that got that far.
MenuAccounted ==
  \A k \in 1 .. Categories :
    menu[k] = Cardinality({i \in Instances : proc[i].seeded >= k})

\* Instances that start one after the other seed no category twice, even if one
\* of them died, or failed, halfway: the next one finds its rows.
SeededOnceInTurn == together \/ \A k \in 1 .. Categories : menu[k] <= 1

\* An instance that serves does so with an admin, the whole menu and, outside
\* production, the demo accounts, unless a call failed, an instance died or two
\* of them started together: half a menu, once left, is taken for a menu by
\* every later instance.
ServedComplete ==
  (faults = 0 /\ ~ Died /\ ~ together) =>
    \A i \in Instances : proc[i].pc = "serving" =>
      /\ \A k \in 1 .. Categories : menu[k] = 1
      /\ HasAdminPassword => rows["admin"]
      /\ ~ env.production => rows["customer"] /\ rows["kitchen"]

\* An instance that starts gets to serve or dies: it does not wait for a
\* database for ever, nor does another instance hold it up.
StartsOrDies == \A i \in Instances : Starting(i) ~> proc[i].pc \in {"serving", "dead"}

\* Every call returns or throws in the end, whatever keeps deadlocking, unless
\* its process dies.
EveryCallEnds ==
  \A c \in Calls :
    (proc[Host[c]].pc = "serving")
      ~> (loop[c].pc \in {"returned", "thrown"} \/ proc[Host[c]].pc = "dead")

-----------------------------------------------------------------------------
(* The inductive invariant *)

\* Unless instances overlap, at most one is starting, and one that is about to
\* create a category is the first to create any.
OneSeeder ==
  together \/
    /\ \A i, j \in Instances : Starting(i) /\ Starting(j) => i = j
    /\ \A i, j \in Instances :
         proc[i].seeded > 0 /\ (proc[j].seeded > 0 \/ proc[j].pc = "createCategory") => i = j

\* There is a category left to create.
CategoryLeft == \A i \in Instances : proc[i].pc = "createCategory" => proc[i].seeded < Categories

StartupInv == StartupTypeOK /\ MenuAccounted /\ CategoryLeft /\ OneSeeder

\* No call has failed, and instances have neither died nor overlapped.
Undisturbed == faults = 0 /\ ~ Died /\ ~ together

\* The first n categories are there, once each.
MenuUpTo(n) == menu = [k \in 1 .. Categories |-> IF k <= n THEN 1 ELSE 0]

SeedingDemo == {"findCustomer", "createCustomer", "findKitchen", "createKitchen"}

\* What an instance finds in the database, as far as it has got with seeding.
SeededSoFar(i) ==
  LET at == proc[i].pc IN
  /\ at = "createAdmin" => ~ rows["admin"]
  /\ at = "createCustomer" => ~ rows["customer"]
  /\ at = "createKitchen" => ~ rows["kitchen"]
  /\ at = "createCategory" => MenuUpTo(proc[i].seeded)
  /\ at \in SeedingDemo \cup {"serving"} => MenuUpTo(Categories)
  /\ at \in {"countMenu", "createCategory", "serving"} \cup SeedingDemo =>
       (HasAdminPassword => rows["admin"])
  /\ at \in {"findKitchen", "createKitchen"} => rows["customer"]
  /\ at = "serving" /\ ~ env.production => rows["customer"] /\ rows["kitchen"]

\* Nobody leaves half a menu behind.
NoHalfMenu ==
  EmptyMenu \/ MenuUpTo(Categories) \/ \E i \in Instances : proc[i].pc = "createCategory"

SeedInv ==
  /\ StartupInv
  /\ FaultsTypeOK
  /\ Undisturbed => NoHalfMenu /\ \A i \in Instances : SeededSoFar(i)
=============================================================================
