------------------------- MODULE PrismaServiceProofs -------------------------
(***************************************************************************)
(* Proofs about PrismaService, for any number of instances, categories,     *)
(* calls, retries and failures: first that executeWithRetry is a            *)
(* transaction that takes effect at most once, then what holds of the       *)
(* instances that start and seed the database: nothing is seeded twice,     *)
(* and who serves finds all of it.                                          *)
(***************************************************************************)
EXTENDS PrismaService, FiniteSetTheorems, TLAPS

USE RetryAssumption

LEMMA RetryInitInv == RetryInit => RetryInv
BY DEF RetryInit, RetryInv, RetryTypeOK

\* A step of one call, seen from that call.
LEMMA CallStepInv ==
  ASSUME RetryInv, NEW c \in Calls, RetryStep(c)
  PROVE  RetryInv'
<1>. USE DEF RetryInv, RetryTypeOK, Proceed, Apply
<1>1. CASE Commit(c)
  BY <1>1 DEF Commit
<1>2. CASE CommitUnnoticed(c)
  BY <1>2 DEF CommitUnnoticed
<1>3. CASE Fail(c)
  BY <1>3 DEF Fail
<1>4. CASE Deadlock(c)
  <2>1. CASE MayRetry(loop[c].i)
    BY <1>4, <2>1 DEF Deadlock, MayRetry
  <2>2. CASE ~ MayRetry(loop[c].i)
    BY <1>4, <2>2 DEF Deadlock
  <2>. QED  BY <2>1, <2>2
<1>5. CASE Wake(c)
  BY <1>5 DEF Wake
<1>. QED  BY <1>1, <1>2, <1>3, <1>4, <1>5 DEF RetryStep

LEMMA RetryNextInv == RetryInv /\ [RetryNext]_retryVars => RetryInv'
<1>. SUFFICES ASSUME RetryInv, [RetryNext]_retryVars PROVE RetryInv'
  OBVIOUS
<1>1. CASE UNCHANGED retryVars
  BY <1>1 DEF retryVars, RetryInv, RetryTypeOK
<1>2. CASE RetryNext
  BY <1>2, CallStepInv DEF RetryNext
<1>. QED  BY <1>1, <1>2

\* The loop always has an attempt left when it sleeps, and effects follow
\* outcomes.
THEOREM RetryInvHolds == RetrySpec => []RetryInv
BY RetryInitInv, RetryNextInv, PTL DEF RetrySpec

\* A call that ends now, its transaction having been committed n times, is a
\* step of AtomicCall.
LEMMA FinishLemma ==
  ASSUME RetryInv, NEW c \in Calls, NEW result \in {"returned", "thrown"}, NEW n \in {0, 1},
         result = "returned" => n = 1,
         loop[c].pc = "attempt",
         loop' = [loop EXCEPT ![c] = [i |-> loop[c].i, pc |-> result]],
         applied' = [applied EXCEPT ![c] = n]
  PROVE  Call!Finish(c)
<1>. DEFINE seen(pc) == IF pc \in {"attempt", "sleep"} THEN "running" ELSE pc
            out  == [d \in Calls |-> seen(loop[d].pc)]
            out2 == [d \in Calls |-> seen(loop'[d].pc)]
<1>1. \A d \in Calls : loop'[d] = IF d = c THEN [i |-> loop[c].i, pc |-> result] ELSE loop[d]
  BY DEF RetryInv, RetryTypeOK
<1>3. out[c] = "running"
  OBVIOUS
<1>4. out2 = [out EXCEPT ![c] = result]
  <2>1. \A d \in Calls : seen(loop'[d].pc) = IF d = c THEN result ELSE seen(loop[d].pc)
    BY <1>1
  <2>. QED  BY <2>1
<1>. QED  BY <1>3, <1>4 DEF Call!Finish

\* A call ends in one step of AtomicCall; until then it only stutters.
LEMMA CallStepImplements ==
  ASSUME RetryInv, NEW c \in Calls, RetryStep(c)
  PROVE  [Call!CallNext]_Call!callVars
<1>1. /\ loop[c].pc = "attempt" => applied[c] = 0
      /\ loop \in [Calls -> [i : 0 .. MaxRetries - 1, pc : {"attempt", "sleep", "returned", "thrown"}]]
      /\ applied \in [Calls -> {0, 1}]
  BY DEF RetryInv, RetryTypeOK
<1>2. CASE (Deadlock(c) /\ MayRetry(loop[c].i)) \/ Wake(c)
  <2>1. /\ applied' = applied
        /\ loop[c].pc \in {"attempt", "sleep"} /\ loop'[c].pc \in {"attempt", "sleep"}
        /\ \A d \in Calls : d # c => loop'[d] = loop[d]
    BY <1>1, <1>2 DEF Deadlock, Wake, Proceed
  <2>2. UNCHANGED Call!callVars
    BY <2>1 DEF Call!callVars
  <2>. QED  BY <2>2
<1>3. CASE Commit(c)
  <2>1. applied' = [applied EXCEPT ![c] = 1]
    BY <1>1, <1>3 DEF Commit, Apply
  <2>2. Call!Finish(c)
    BY <1>3, <2>1, FinishLemma DEF Commit, Proceed
  <2>. QED  BY <2>2 DEF Call!CallNext
<1>4. CASE CommitUnnoticed(c)
  <2>1. applied' = [applied EXCEPT ![c] = 1]
    BY <1>1, <1>4 DEF CommitUnnoticed, Apply
  <2>2. Call!Finish(c)
    BY <1>4, <2>1, FinishLemma DEF CommitUnnoticed, Proceed
  <2>. QED  BY <2>2 DEF Call!CallNext
<1>5. CASE Fail(c) \/ (Deadlock(c) /\ ~ MayRetry(loop[c].i))
  <2>1. loop[c].pc = "attempt" /\ applied' = [applied EXCEPT ![c] = 0]
    BY <1>1, <1>5 DEF Fail, Deadlock
  <2>2. Call!Finish(c)
    BY <1>5, <2>1, FinishLemma DEF Fail, Deadlock, Proceed
  <2>. QED  BY <2>2 DEF Call!CallNext
<1>. QED  BY <1>2, <1>3, <1>4, <1>5 DEF RetryStep

\* executeWithRetry implements AtomicCall: a call ends once, and its
\* transaction takes effect at most once, surely if the call returned.
THEOREM RetryIsAtomic == RetrySpec => ImplementsAtomicCall
<1>1. RetryInit => Call!CallInit
  BY DEF RetryInit, Call!CallInit
<1>2. RetryInv /\ [RetryNext]_retryVars => [Call!CallNext]_Call!callVars
  <2>. SUFFICES ASSUME RetryInv, [RetryNext]_retryVars PROVE [Call!CallNext]_Call!callVars
    OBVIOUS
  <2>1. CASE RetryNext
    BY <2>1, CallStepImplements DEF RetryNext
  <2>2. CASE UNCHANGED retryVars
    BY <2>2 DEF retryVars, Call!callVars
  <2>. QED  BY <2>1, <2>2
<1>. QED  BY <1>1, <1>2, RetryInvHolds, PTL DEF RetrySpec, ImplementsAtomicCall, Call!CallSpec

-----------------------------------------------------------------------------
(* The instances *)

\* The instances that have created category k.
Creators(k) == {i \in Instances : proc[i].seeded >= k}

LEMMA CreatorsFinite == \A k : IsFiniteSet(Creators(k)) /\ Cardinality(Creators(k)) \in Nat
BY FS_Subset, FS_CardinalityType, StartupAssumption DEF Creators

\* No instance has created a category when there is none.
LEMMA EmptyMeansUnseeded ==
  ASSUME StartupTypeOK, MenuAccounted, EmptyMenu
  PROVE  \A i \in Instances : proc[i].seeded = 0
<1>1. 1 \in 1 .. Categories
  BY StartupAssumption
<1>2. Cardinality(Creators(1)) = 0
  BY <1>1 DEF MenuAccounted, EmptyMenu, Creators
<1>3. Creators(1) = {}
  BY <1>2, CreatorsFinite, FS_EmptySet
<1>4. \A i \in Instances : proc[i].seeded \in 0 .. Categories
  BY DEF StartupTypeOK
<1>. QED  BY <1>3, <1>4, StartupAssumption DEF Creators

LEMMA StartupInitInv == PrismaInit => StartupInv
<1>. SUFFICES ASSUME PrismaInit PROVE StartupInv
  OBVIOUS
<1>. USE DEF PrismaInit, StartupInit
<1>1. StartupTypeOK
  <2>1. rows \in [Accounts -> BOOLEAN] /\ menu \in [1 .. Categories -> Nat]
    OBVIOUS
  <2>2. 0 \in 0 .. MaxConnects /\ 0 \in 0 .. Categories
    BY StartupAssumption
  <2>3. proc \in [Instances -> [pc      : Seeding \cup {"off", "connect", "serving", "dead"},
                                retries : 0 .. MaxConnects,
                                seeded  : 0 .. Categories]]
    BY <2>2
  <2>. QED  BY <2>1, <2>3 DEF StartupTypeOK
<1>2. MenuAccounted
  <2>1. \A k \in 1 .. Categories : Creators(k) = {}
    BY DEF Creators
  <2>. QED  BY <2>1, FS_EmptySet DEF MenuAccounted, Creators
<1>3. CategoryLeft /\ OneSeeder
  BY DEF CategoryLeft, OneSeeder, Starting, Seeding
<1>. QED  BY <1>1, <1>2, <1>3 DEF StartupInv

\* The record an instance has after it has gone on.
LEMMA GoOnLemma ==
  ASSUME StartupTypeOK, NEW i \in Instances, NEW pc
  PROVE  [proc EXCEPT ![i].pc = pc]
           = [proc EXCEPT ![i] = [pc |-> pc, retries |-> proc[i].retries,
                                  seeded |-> proc[i].seeded]]
<1>. DEFINE R == [pc      : Seeding \cup {"off", "connect", "serving", "dead"},
                  retries : 0 .. MaxConnects,
                  seeded  : 0 .. Categories]
<1>1. proc \in [Instances -> R]
  BY DEF StartupTypeOK
<1>2. [proc[i] EXCEPT !.pc = pc] = [pc |-> pc, retries |-> proc[i].retries,
                                    seeded |-> proc[i].seeded]
  BY <1>1
<1>. QED  BY <1>1, <1>2

\* A step of one instance that creates no category and does not begin to.
LEMMA QuietStepInv ==
  ASSUME StartupInv, NEW i \in Instances, NEW pc, NEW n \in 0 .. MaxConnects,
         pc \in Seeding \cup {"connect", "serving", "dead"},
         pc = "createCategory" => proc[i].pc = "createCategory",
         proc' = [proc EXCEPT ![i] = [pc |-> pc, retries |-> n, seeded |-> proc[i].seeded]],
         rows' \in [Accounts -> BOOLEAN], UNCHANGED <<env, menu>>,
         \/ Starting(i) /\ UNCHANGED together
         \/ pc \in {"serving", "dead"} /\ UNCHANGED together
         \/ together' = (together \/ \E j \in Instances : Starting(j))
  PROVE  StartupInv'
<1>. USE DEF StartupInv, StartupTypeOK
<1>1. StartupTypeOK'
  OBVIOUS
<1>2. \A j \in Instances : proc'[j].seeded = proc[j].seeded
  OBVIOUS
<1>3. MenuAccounted'
  <2>1. \A k \in 1 .. Categories : Creators(k)' = Creators(k)
    BY <1>2 DEF Creators
  <2>. QED  BY <2>1 DEF MenuAccounted, Creators
<1>4. CategoryLeft'
  BY DEF CategoryLeft
<1>5. \A j \in Instances : proc'[j].pc = "createCategory" => proc[j].pc = "createCategory"
  OBVIOUS
<1>6. \/ together'
      \/ \A p, q \in Instances : Starting(p)' /\ Starting(q)' => p = q
  <2>1. \A j \in Instances : j # i => (Starting(j)' <=> Starting(j))
    BY DEF Starting
  <2>2. CASE Starting(i) /\ UNCHANGED together
    BY <2>1, <2>2 DEF OneSeeder
  <2>3. CASE pc \in {"serving", "dead"} /\ UNCHANGED together
    <3>1. ~ Starting(i)'
      BY <2>3 DEF Starting, Seeding
    <3>. QED  BY <2>1, <2>3, <3>1 DEF OneSeeder
  <2>4. CASE together' = (together \/ \E j \in Instances : Starting(j))
    BY <2>1, <2>4 DEF OneSeeder
  <2>. QED  BY <2>2, <2>3, <2>4
<1>7. together => together'
  OBVIOUS
<1>8. OneSeeder'
  BY <1>2, <1>5, <1>6, <1>7 DEF OneSeeder
<1>. QED  BY <1>1, <1>3, <1>4, <1>8

\* The instance counts the categories and finds none.
LEMMA CountMenuInv ==
  ASSUME StartupInv, NEW i \in Instances, CountMenu(i)
  PROVE  StartupInv'
<1>. USE DEF StartupInv, StartupTypeOK
<1>1. CASE EmptyMenu
  <2>1. \A j \in Instances : proc[j].seeded = 0
    BY <1>1, EmptyMeansUnseeded
  <2>2. proc' = [proc EXCEPT ![i].pc = "createCategory"]
    BY <1>1 DEF CountMenu, GoOn
  <2>. USE DEF CountMenu
  <2>3. StartupTypeOK'
    BY <2>2 DEF Seeding
  <2>4. \A j \in Instances : proc'[j].seeded = proc[j].seeded
    BY <2>2
  <2>5. MenuAccounted'
    <3>1. \A k \in 1 .. Categories : Creators(k)' = Creators(k)
      BY <2>4 DEF Creators
    <3>. QED  BY <3>1 DEF MenuAccounted, Creators
  <2>6. CategoryLeft'
    BY <2>1, <2>2, StartupAssumption DEF CategoryLeft
  <2>7. \A j \in Instances : Starting(j)' <=> Starting(j)
    BY <2>2 DEF Starting, Seeding
  <2>8. OneSeeder'
    BY <2>1, <2>4, <2>7 DEF OneSeeder
  <2>. QED  BY <2>3, <2>5, <2>6, <2>8
<1>2. CASE ~ EmptyMenu
  <2>1. AfterMenu \in {"serving", "findCustomer"}
    BY DEF AfterMenu
  <2>2. proc' = [proc EXCEPT ![i] = [pc |-> AfterMenu, retries |-> proc[i].retries,
                                     seeded |-> proc[i].seeded]]
    <3>1. proc' = [proc EXCEPT ![i].pc = AfterMenu]
      BY <1>2 DEF CountMenu, GoOn
    <3>. QED  BY <3>1, GoOnLemma
  <2>. QED
    BY <2>1, <2>2, QuietStepInv DEF CountMenu, Starting, Seeding
<1>. QED  BY <1>1, <1>2

\* The instance creates its next category: it joins the creators of that one.
LEMMA CreateCategoryInv ==
  ASSUME StartupInv, NEW i \in Instances, CreateCategory(i)
  PROVE  StartupInv'
<1>. DEFINE n    == proc[i].seeded + 1
            pc   == IF n < Categories THEN "createCategory" ELSE AfterMenu
<1>1. proc[i].pc = "createCategory"
  BY DEF CreateCategory
<1>2. /\ n \in 1 .. Categories
      /\ n \in Nat
      /\ proc[i].seeded = n - 1
      /\ proc[i].retries \in 0 .. MaxConnects
  BY <1>1, StartupAssumption DEF StartupInv, StartupTypeOK, CategoryLeft
<1>3. pc \in {"createCategory", "serving", "findCustomer"}
  BY DEF AfterMenu
<1>4. proc' = [proc EXCEPT ![i] = [pc |-> pc, retries |-> proc[i].retries, seeded |-> n]]
  BY DEF CreateCategory
<1>5. menu' = [menu EXCEPT ![n] = @ + 1] /\ UNCHANGED <<env, rows, together>>
  BY DEF CreateCategory
<1>6. pc = "createCategory" => n < Categories
  BY DEF AfterMenu
<1>. HIDE DEF n, pc
<1>7. /\ proc'[i] = [pc |-> pc, retries |-> proc[i].retries, seeded |-> n]
      /\ \A j \in Instances \ {i} : proc'[j] = proc[j]
  BY <1>4 DEF StartupInv, StartupTypeOK
<1>8. StartupTypeOK'
  <2>1. menu' \in [1 .. Categories -> Nat]
    BY <1>2, <1>5 DEF StartupInv, StartupTypeOK
  <2>2. n \in 0 .. Categories /\ pc \in Seeding \cup {"off", "connect", "serving", "dead"}
    BY <1>2, <1>3, StartupAssumption DEF Seeding
  <2>3. proc' \in [Instances -> [pc      : Seeding \cup {"off", "connect", "serving", "dead"},
                                 retries : 0 .. MaxConnects,
                                 seeded  : 0 .. Categories]]
    BY <1>2, <1>4, <2>2 DEF StartupInv, StartupTypeOK
  <2>. QED  BY <1>5, <2>1, <2>3 DEF StartupInv, StartupTypeOK
<1>9. MenuAccounted'
  <2>. SUFFICES ASSUME NEW k \in 1 .. Categories
                PROVE  menu'[k] = Cardinality(Creators(k)')
    BY DEF MenuAccounted, Creators
  <2>1. menu[k] = Cardinality(Creators(k))
    BY DEF StartupInv, MenuAccounted, Creators
  <2>2. \A j \in Instances : proc[j].seeded \in 0 .. Categories
    BY DEF StartupInv, StartupTypeOK
  <2>3. proc'[i].seeded = n /\ \A j \in Instances \ {i} : proc'[j].seeded = proc[j].seeded
    BY <1>7
  <2>4. CASE k = n
    <3>1. Creators(k)' = Creators(k) \cup {i} /\ i \notin Creators(k)
      BY <1>2, <2>2, <2>3, <2>4, StartupAssumption DEF Creators
    <3>2. Cardinality(Creators(k)') = Cardinality(Creators(k)) + 1
      BY <3>1, CreatorsFinite, FS_AddElement
    <3>3. menu'[k] = menu[k] + 1
      BY <1>5, <2>4 DEF StartupInv, StartupTypeOK
    <3>. QED  BY <2>1, <3>2, <3>3
  <2>5. CASE k # n
    <3>1. Creators(k)' = Creators(k)
      BY <1>2, <2>2, <2>3, <2>5, StartupAssumption DEF Creators
    <3>2. menu'[k] = menu[k]
      BY <1>5, <2>5 DEF StartupInv, StartupTypeOK
    <3>. QED  BY <2>1, <3>1, <3>2
  <2>. QED  BY <2>4, <2>5
<1>10. CategoryLeft'
  BY <1>6, <1>7, StartupAssumption DEF StartupInv, CategoryLeft
<1>11. OneSeeder'
  <2>1. \A j \in Instances : Starting(j)' => Starting(j)
    BY <1>1, <1>7 DEF Starting, Seeding
  <2>2. \A j \in Instances : proc'[j].pc = "createCategory" => proc[j].pc = "createCategory"
    BY <1>1, <1>7
  <2>3. \A j \in Instances \ {i} : proc'[j].seeded = proc[j].seeded
    BY <1>7
  <2>. QED  BY <1>1, <1>5, <2>1, <2>2, <2>3 DEF StartupInv, OneSeeder, Starting, Seeding
<1>. QED  BY <1>8, <1>9, <1>10, <1>11 DEF StartupInv

\* A step that only moves an instance on.
LEMMA MoveInv ==
  ASSUME StartupInv, NEW i \in Instances, NEW pc \in (Seeding \ {"createCategory"}) \cup {"connect", "serving", "dead"},
         GoOn(i, pc), rows' \in [Accounts -> BOOLEAN], UNCHANGED <<env, menu>>,
         \/ Starting(i) /\ UNCHANGED together
         \/ pc \in {"serving", "dead"} /\ UNCHANGED together
         \/ together' = (together \/ \E j \in Instances : Starting(j))
  PROVE  StartupInv'
<1>1. proc' = [proc EXCEPT ![i] = [pc |-> pc, retries |-> proc[i].retries,
                                   seeded |-> proc[i].seeded]]
  BY GoOnLemma DEF GoOn, StartupInv
<1>2. proc[i].retries \in 0 .. MaxConnects
  BY DEF StartupInv, StartupTypeOK
<1>. QED  BY <1>1, <1>2, QuietStepInv

LEMMA ConnectFailsInv ==
  ASSUME StartupInv, NEW i \in Instances, ConnectFails(i)
  PROVE  StartupInv'
<1>. USE DEF ConnectFails
<1>1. Starting(i) /\ rows' \in [Accounts -> BOOLEAN]
  BY DEF Starting, StartupInv, StartupTypeOK
<1>2. CASE proc[i].retries < MaxConnects
  <2>1. proc[i].retries + 1 \in 0 .. MaxConnects
    BY <1>2, StartupAssumption DEF StartupInv, StartupTypeOK
  <2>2. [proc[i] EXCEPT !.retries = proc[i].retries + 1]
          = [pc |-> "connect", retries |-> proc[i].retries + 1, seeded |-> proc[i].seeded]
    BY DEF StartupInv, StartupTypeOK
  <2>3. proc' = [proc EXCEPT ![i] = [pc |-> "connect", retries |-> proc[i].retries + 1,
                                     seeded |-> proc[i].seeded]]
    BY <1>2, <2>2
  <2>. QED  BY <1>1, <2>1, <2>3, QuietStepInv
<1>3. CASE ~ proc[i].retries < MaxConnects
  BY <1>1, <1>3, MoveInv
<1>. QED  BY <1>2, <1>3

\* The query for an account, and the one that creates it.
LEMMA FindAccountInv ==
  ASSUME StartupInv, NEW i \in Instances, NEW account \in Accounts, NEW wanted,
         NEW at \in Seeding,
         NEW create \in Seeding \ {"createCategory"},
         NEW skip \in (Seeding \ {"createCategory"}) \cup {"serving"},
         FindAccount(i, at, account, wanted, create, skip)
  PROVE  StartupInv'
<1>1. Starting(i) /\ rows' \in [Accounts -> BOOLEAN]
  BY DEF FindAccount, Starting, StartupInv, StartupTypeOK
<1>2. \/ GoOn(i, create)
      \/ GoOn(i, skip)
  BY DEF FindAccount
<1>. QED  BY <1>1, <1>2, MoveInv DEF FindAccount

LEMMA CreateAccountInv ==
  ASSUME StartupInv, NEW i \in Instances, NEW account \in Accounts,
         NEW at \in Seeding,
         NEW next \in (Seeding \ {"createCategory"}) \cup {"serving"},
         CreateAccount(i, at, account, next)
  PROVE  StartupInv'
<1>1. Starting(i) /\ rows' \in [Accounts -> BOOLEAN]
  BY DEF CreateAccount, Starting, StartupInv, StartupTypeOK
<1>2. \/ GoOn(i, "serving")
      \/ GoOn(i, next)
  BY DEF CreateAccount
<1>. QED  BY <1>1, <1>2, MoveInv DEF CreateAccount

LEMMA StartupStepInv == StartupInv /\ [PrismaNext]_prismaVars => StartupInv'
<1>. SUFFICES ASSUME StartupInv, [PrismaNext]_prismaVars PROVE StartupInv'
  OBVIOUS
<1>1. ASSUME NEW i \in Instances, Boot(i) PROVE StartupInv'
  <2>1. rows' \in [Accounts -> BOOLEAN]
    BY <1>1 DEF Boot, StartupInv, StartupTypeOK
  <2>. QED  BY <1>1, <2>1, MoveInv DEF Boot
<1>2. ASSUME NEW i \in Instances, Die(i) PROVE StartupInv'
  <2>1. rows' \in [Accounts -> BOOLEAN]
    BY <1>2 DEF Die, StartupInv, StartupTypeOK
  <2>. QED  BY <1>2, <2>1, MoveInv DEF Die
<1>3. ASSUME NEW i \in Instances, StartStep(i) PROVE StartupInv'
  <2>1. CASE Connect(i)
    <3>1. Starting(i) /\ rows' \in [Accounts -> BOOLEAN]
      BY <2>1 DEF Connect, Starting, StartupInv, StartupTypeOK
    <3>. QED  BY <2>1, <3>1, MoveInv DEF Connect, Seeding
  <2>2. CASE ConnectFails(i)
    BY <2>2, ConnectFailsInv
  <2>3. CASE SeedFails(i)
    <3>1. Starting(i) /\ rows' \in [Accounts -> BOOLEAN]
      BY <2>3 DEF SeedFails, Starting, StartupInv, StartupTypeOK
    <3>. QED  BY <2>3, <3>1, MoveInv DEF SeedFails
  <2>4. CASE FindAdmin(i)
    BY <2>4, FindAccountInv DEF FindAdmin, Seeding, Accounts
  <2>5. CASE CreateAdmin(i)
    BY <2>5, CreateAccountInv DEF CreateAdmin, Seeding, Accounts
  <2>6. CASE CountMenu(i)
    BY <2>6, CountMenuInv
  <2>7. CASE CreateCategory(i)
    BY <2>7, CreateCategoryInv
  <2>8. CASE FindCustomer(i)
    BY <2>8, FindAccountInv DEF FindCustomer, Seeding, Accounts
  <2>9. CASE CreateCustomer(i)
    BY <2>9, CreateAccountInv DEF CreateCustomer, Seeding, Accounts
  <2>10. CASE FindKitchen(i)
    BY <2>10, FindAccountInv DEF FindKitchen, Seeding, Accounts
  <2>11. CASE CreateKitchen(i)
    BY <2>11, CreateAccountInv DEF CreateKitchen, Seeding, Accounts
  <2>. QED
    BY <1>3, <2>1, <2>2, <2>3, <2>4, <2>5, <2>6, <2>7, <2>8, <2>9, <2>10, <2>11 DEF StartStep
<1>4. ASSUME UNCHANGED startupVars PROVE StartupInv'
  BY <1>4 DEF startupVars, StartupInv, StartupTypeOK, MenuAccounted, CategoryLeft, OneSeeder,
              Starting
<1>. QED
  BY <1>1, <1>2, <1>3, <1>4 DEF PrismaNext, Launch, Start, Kill, Transact, prismaVars

(***************************************************************************)
(* Every category in the menu is the work of an instance, created in        *)
(* seedMenu's order; instances that do not overlap have at most one seeder. *)
(***************************************************************************)
THEOREM StartupInvHolds == PrismaSpec => []StartupInv
<1>. QED  BY StartupInitInv, StartupStepInv, PTL DEF PrismaSpec

(***************************************************************************)
(* seedMenu's check for an empty menu is enough for instances that start    *)
(* one after the other: no category is there twice, however many of them    *)
(* die or fail halfway.                                                     *)
(***************************************************************************)
THEOREM NothingSeededTwice == PrismaSpec => []SeededOnceInTurn
<1>1. ASSUME StartupInv PROVE SeededOnceInTurn
  <2>. SUFFICES ASSUME ~ together, NEW k \in 1 .. Categories
                PROVE  menu[k] <= 1
    BY DEF SeededOnceInTurn
  <2>1. menu[k] = Cardinality(Creators(k))
    BY <1>1 DEF StartupInv, MenuAccounted, Creators
  <2>2. \A j \in Instances : proc[j].seeded \in 0 .. Categories
    BY <1>1 DEF StartupInv, StartupTypeOK
  <2>3. \A p, q \in Creators(k) : p = q
    <3>1. \A j \in Creators(k) : j \in Instances /\ proc[j].seeded > 0
      BY <2>2, StartupAssumption DEF Creators
    <3>. QED  BY <1>1, <3>1 DEF StartupInv, OneSeeder
  <2>4. CASE Creators(k) = {}
    BY <2>1, <2>4, FS_EmptySet
  <2>5. CASE Creators(k) # {}
    <3>1. PICK p : Creators(k) = {p}
      BY <2>3, <2>5
    <3>2. Cardinality(Creators(k)) = 1
      BY <3>1, FS_Singleton, Zenon
    <3>. QED  BY <2>1, <3>2
  <2>. QED  BY <2>4, <2>5
<1>. QED  BY <1>1, StartupInvHolds, PTL

-----------------------------------------------------------------------------
(* What an instance that serves finds *)

\* Where an instance stands after it has gone on.
LEMMA WentOn ==
  ASSUME StartupTypeOK, NEW i \in Instances, NEW pc, GoOn(i, pc)
  PROVE  /\ proc'[i].pc = pc /\ proc'[i].seeded = proc[i].seeded
         /\ \A j \in Instances \ {i} : proc'[j] = proc[j]
<1>1. proc' = [proc EXCEPT ![i] = [pc |-> pc, retries |-> proc[i].retries,
                                   seeded |-> proc[i].seeded]]
  BY GoOnLemma DEF GoOn
<1>. QED  BY <1>1 DEF StartupTypeOK

LEMMA SeedInitInv == PrismaInit => SeedInv
<1>. SUFFICES ASSUME PrismaInit PROVE SeedInv
  OBVIOUS
<1>1. NoHalfMenu
  BY DEF PrismaInit, StartupInit, NoHalfMenu, EmptyMenu
<1>2. \A i \in Instances : proc[i].pc = "off"
  BY DEF PrismaInit, StartupInit
<1>3. \A i \in Instances : SeededSoFar(i)
  BY <1>2 DEF SeededSoFar, SeedingDemo
<1>4. FaultsTypeOK
  BY FaultsAssumption DEF PrismaInit, FaultsInit, FaultsTypeOK
<1>. QED  BY <1>1, <1>3, <1>4, StartupInitInv DEF SeedInv

\* While one instance is starting, the others find what they found.
LEMMA OthersFind ==
  ASSUME StartupInv, ~ together, \A j \in Instances : SeededSoFar(j),
         NEW i \in Instances, Starting(i),
         \A j \in Instances \ {i} : proc'[j] = proc[j],
         env' = env, \A a \in Accounts : rows[a] => rows'[a],
         MenuUpTo(Categories) => menu' = menu
  PROVE  \A j \in Instances \ {i} : SeededSoFar(j)'
<1>. SUFFICES ASSUME NEW j \in Instances \ {i} PROVE SeededSoFar(j)'
  OBVIOUS
<1>1. ~ Starting(j)
  BY DEF StartupInv, OneSeeder
<1>2. CASE proc[j].pc = "serving"
  <2>1. MenuUpTo(Categories)' /\ (HasAdminPassword => rows'["admin"])
    BY <1>2 DEF SeededSoFar, MenuUpTo, Accounts
  <2>2. ~ env.production => rows'["customer"] /\ rows'["kitchen"]
    BY <1>2 DEF SeededSoFar, Accounts
  <2>. QED  BY <1>2, <2>1, <2>2 DEF SeededSoFar, HasAdminPassword
<1>3. CASE proc[j].pc # "serving"
  BY <1>1, <1>3 DEF SeededSoFar, Starting, Seeding, SeedingDemo
<1>. QED  BY <1>2, <1>3

\* The query for an account, and the one that creates it: they leave the menu
\* as it is.
LEMMA AccountStepFinds ==
  ASSUME StartupInv, Undisturbed, NoHalfMenu, \A j \in Instances : SeededSoFar(j),
         NEW i \in Instances,
         NEW pc, GoOn(i, pc), UNCHANGED <<env, menu>>,
         \A a \in Accounts : rows[a] => rows'[a],
         Starting(i), proc[i].pc # "createCategory",
         SeededSoFar(i)'
  PROVE  NoHalfMenu' /\ \A j \in Instances : SeededSoFar(j)'
<1>1. \A j \in Instances \ {i} : proc'[j] = proc[j]
  BY WentOn DEF StartupInv
<1>2. \A j \in Instances \ {i} : SeededSoFar(j)'
  BY <1>1, OthersFind DEF Undisturbed
<1>3. NoHalfMenu'
  BY <1>1 DEF NoHalfMenu, EmptyMenu, MenuUpTo
<1>. QED  BY <1>2, <1>3

LEMMA AccountsFound ==
  ASSUME StartupInv, Undisturbed, NoHalfMenu, \A j \in Instances : SeededSoFar(j),
         NEW i \in Instances,
         \/ FindAdmin(i) \/ CreateAdmin(i)
         \/ FindCustomer(i) \/ CreateCustomer(i)
         \/ FindKitchen(i) \/ CreateKitchen(i)
  PROVE  NoHalfMenu' /\ \A j \in Instances : SeededSoFar(j)'
<1>. DEFINE pc == proc'[i].pc
<1>1. GoOn(i, pc)
  BY WentOn DEF StartupInv, FindAdmin, CreateAdmin, FindCustomer, CreateCustomer, FindKitchen,
                CreateKitchen, FindAccount, CreateAccount
<1>2. /\ UNCHANGED <<env, menu>> /\ Starting(i) /\ proc[i].pc # "createCategory"
      /\ rows' \in [Accounts -> BOOLEAN]
      /\ \A a \in Accounts : rows[a] => rows'[a]
  BY DEF StartupInv, StartupTypeOK, FindAdmin, CreateAdmin, FindCustomer, CreateCustomer,
         FindKitchen, CreateKitchen, FindAccount, CreateAccount, Starting, Seeding
<1>3. SeededSoFar(i)
  OBVIOUS
<1>4. proc'[i].pc = pc /\ (HasAdminPassword' <=> HasAdminPassword)
  BY <1>2 DEF HasAdminPassword
<1>5. MenuUpTo(Categories)' <=> MenuUpTo(Categories)
  BY <1>2 DEF MenuUpTo
<1>6. rows \in [Accounts -> BOOLEAN]
  BY DEF StartupInv, StartupTypeOK
<1>7. SeededSoFar(i)'
  <2>1. CASE FindAdmin(i)
    <3>1. /\ proc[i].pc = "findAdmin" /\ rows' = rows
          /\ pc = IF rows["admin"] \/ ~ HasAdminPassword THEN "countMenu" ELSE "createAdmin"
      BY <2>1, WentOn DEF FindAdmin, FindAccount, StartupInv
    <3>. QED  BY <1>3, <1>4, <3>1 DEF SeededSoFar, SeedingDemo
  <2>2. CASE CreateAdmin(i)
    <3>1. /\ proc[i].pc = "createAdmin" /\ rows' = [rows EXCEPT !["admin"] = TRUE]
          /\ pc = IF rows["admin"] THEN "serving" ELSE "countMenu"
      BY <2>2, WentOn DEF CreateAdmin, CreateAccount, StartupInv
    <3>2. pc = "countMenu" /\ rows'["admin"]
      BY <1>3, <1>6, <3>1 DEF SeededSoFar, Accounts
    <3>. QED  BY <1>4, <3>2 DEF SeededSoFar, SeedingDemo
  <2>3. CASE FindCustomer(i)
    <3>1. /\ proc[i].pc = "findCustomer" /\ rows' = rows
          /\ pc = IF rows["customer"] THEN "findKitchen" ELSE "createCustomer"
      BY <2>3, WentOn DEF FindCustomer, FindAccount, StartupInv
    <3>. QED  BY <1>3, <1>4, <1>5, <3>1 DEF SeededSoFar, SeedingDemo
  <2>4. CASE CreateCustomer(i)
    <3>1. /\ proc[i].pc = "createCustomer" /\ rows' = [rows EXCEPT !["customer"] = TRUE]
          /\ pc = IF rows["customer"] THEN "serving" ELSE "findKitchen"
      BY <2>4, WentOn DEF CreateCustomer, CreateAccount, StartupInv
    <3>2. pc = "findKitchen" /\ rows'["customer"] /\ rows'["admin"] = rows["admin"]
      BY <1>3, <1>6, <3>1 DEF SeededSoFar, Accounts
    <3>. QED  BY <1>3, <1>4, <1>5, <3>1, <3>2 DEF SeededSoFar, SeedingDemo
  <2>5. CASE FindKitchen(i)
    <3>1. /\ proc[i].pc = "findKitchen" /\ rows' = rows
          /\ pc = IF rows["kitchen"] THEN "serving" ELSE "createKitchen"
      BY <2>5, WentOn DEF FindKitchen, FindAccount, StartupInv
    <3>. QED  BY <1>3, <1>4, <1>5, <3>1 DEF SeededSoFar, SeedingDemo
  <2>6. CASE CreateKitchen(i)
    <3>1. /\ proc[i].pc = "createKitchen" /\ rows' = [rows EXCEPT !["kitchen"] = TRUE]
          /\ pc = "serving"
      BY <2>6, WentOn DEF CreateKitchen, CreateAccount, StartupInv
    <3>2. /\ rows'["kitchen"]
          /\ rows'["admin"] = rows["admin"] /\ rows'["customer"] = rows["customer"]
      BY <1>6, <3>1 DEF Accounts
    <3>. QED  BY <1>3, <1>4, <1>5, <3>1, <3>2 DEF SeededSoFar, SeedingDemo
  <2>. QED  BY <2>1, <2>2, <2>3, <2>4, <2>5, <2>6
<1>. QED  BY <1>1, <1>2, <1>7, AccountStepFinds

\* The instance finds an empty menu or the whole of it.
LEMMA MenuCounted ==
  ASSUME StartupInv, Undisturbed, NoHalfMenu, \A j \in Instances : SeededSoFar(j),
         NEW i \in Instances, CountMenu(i)
  PROVE  NoHalfMenu' /\ \A j \in Instances : SeededSoFar(j)'
<1>1. /\ proc[i].pc = "countMenu" /\ Starting(i)
      /\ UNCHANGED <<env, rows, menu, together>>
      /\ GoOn(i, IF EmptyMenu THEN "createCategory" ELSE AfterMenu)
  BY DEF CountMenu, Starting, Seeding
<1>2. /\ proc'[i].pc = IF EmptyMenu THEN "createCategory" ELSE AfterMenu
      /\ proc'[i].seeded = proc[i].seeded
      /\ \A j \in Instances \ {i} : proc'[j] = proc[j]
  BY <1>1, WentOn DEF StartupInv
<1>3. \A j \in Instances : proc[j].pc # "createCategory"
  <2>1. \A j \in Instances : proc[j].pc = "createCategory" => Starting(j)
    BY DEF Starting, Seeding
  <2>. QED  BY <1>1, <2>1 DEF StartupInv, OneSeeder, Undisturbed
<1>4. SeededSoFar(i)'
  <2>1. HasAdminPassword' => rows'["admin"]
    BY <1>1 DEF SeededSoFar, HasAdminPassword
  <2>2. CASE EmptyMenu
    <3>1. proc[i].seeded = 0
      BY <2>2, EmptyMeansUnseeded DEF StartupInv
    <3>2. MenuUpTo(0)
      BY <2>2 DEF EmptyMenu, MenuUpTo, StartupInv, StartupTypeOK
    <3>3. MenuUpTo(proc[i].seeded)'
      BY <1>1, <1>2, <3>1, <3>2 DEF MenuUpTo
    <3>. QED  BY <1>2, <2>1, <2>2, <3>3 DEF SeededSoFar, SeedingDemo
  <2>3. CASE ~ EmptyMenu
    <3>1. MenuUpTo(Categories)'
      BY <1>1, <1>3, <2>3 DEF NoHalfMenu, MenuUpTo
    <3>2. proc'[i].pc = IF env.production THEN "serving" ELSE "findCustomer"
      BY <1>2, <2>3 DEF AfterMenu
    <3>. QED  BY <1>1, <2>1, <3>1, <3>2 DEF SeededSoFar, SeedingDemo
  <2>. QED  BY <2>2, <2>3
<1>5. \A j \in Instances \ {i} : SeededSoFar(j)'
  BY <1>1, <1>2, OthersFind DEF Undisturbed
<1>6. NoHalfMenu'
  BY <1>1, <1>3 DEF NoHalfMenu, EmptyMenu, MenuUpTo
<1>. QED  BY <1>4, <1>5, <1>6

\* The instance that creates the menu leaves off at its end.
LEMMA MenuSeeded ==
  ASSUME StartupInv, Undisturbed, NoHalfMenu, \A j \in Instances : SeededSoFar(j),
         NEW i \in Instances, CreateCategory(i)
  PROVE  NoHalfMenu' /\ \A j \in Instances : SeededSoFar(j)'
<1>. DEFINE n  == proc[i].seeded
            pc == IF n + 1 < Categories THEN "createCategory" ELSE AfterMenu
<1>1. /\ proc[i].pc = "createCategory" /\ Starting(i)
      /\ UNCHANGED <<env, rows, together>>
      /\ menu' = [menu EXCEPT ![n + 1] = @ + 1]
      /\ proc' = [proc EXCEPT ![i] = [pc |-> pc, retries |-> proc[i].retries,
                                      seeded |-> n + 1]]
  BY DEF CreateCategory, Starting, Seeding
<1>2. n \in Nat /\ n < Categories
  BY <1>1, StartupAssumption DEF StartupInv, StartupTypeOK, CategoryLeft
<1>3. MenuUpTo(n)
  BY <1>1 DEF SeededSoFar
<1>4. /\ proc'[i].pc = pc /\ proc'[i].seeded = n + 1
      /\ \A j \in Instances \ {i} : proc'[j] = proc[j]
  BY <1>1 DEF StartupInv, StartupTypeOK
<1>5. pc \in {"createCategory", "serving", "findCustomer"}
      /\ (pc = "serving" => env.production) /\ (pc # "createCategory" => n + 1 = Categories)
  BY <1>2, StartupAssumption DEF AfterMenu
<1>6. menu' = [k \in 1 .. Categories |-> IF k <= n + 1 THEN 1 ELSE 0]
  <2>1. menu = [k \in 1 .. Categories |-> IF k <= n THEN 1 ELSE 0]
    BY <1>3 DEF MenuUpTo
  <2>2. n + 1 \in 1 .. Categories
    BY <1>2, StartupAssumption
  <2>3. \A k \in 1 .. Categories : menu'[k] = IF k <= n + 1 THEN 1 ELSE 0
    BY <1>1, <1>2, <2>1, <2>2
  <2>4. DOMAIN menu' = 1 .. Categories /\ menu' = [k \in DOMAIN menu' |-> menu'[k]]
    BY <1>1, <2>1
  <2>. QED  BY <2>3, <2>4
<1>. HIDE DEF n, pc
<1>7. SeededSoFar(i)'
  <2>1. HasAdminPassword' => rows'["admin"]
    BY <1>1 DEF SeededSoFar, HasAdminPassword
  <2>2. pc = "createCategory" => MenuUpTo(proc[i].seeded)'
    BY <1>4, <1>6 DEF MenuUpTo
  <2>3. pc # "createCategory" => MenuUpTo(Categories)'
    BY <1>5, <1>6 DEF MenuUpTo
  <2>. QED  BY <1>1, <1>4, <1>5, <2>1, <2>2, <2>3 DEF SeededSoFar, SeedingDemo
<1>8. NoHalfMenu'
  <2>1. pc = "createCategory" => proc'[i].pc = "createCategory"
    BY <1>4
  <2>2. pc # "createCategory" => MenuUpTo(Categories)'
    BY <1>5, <1>6 DEF MenuUpTo
  <2>. QED  BY <2>1, <2>2 DEF NoHalfMenu
<1>9. ~ MenuUpTo(Categories)
  <2>1. n + 1 \in 1 .. Categories /\ ~ n + 1 <= n
    BY <1>2, StartupAssumption
  <2>2. menu[n + 1] = 0
    BY <1>3, <2>1 DEF MenuUpTo
  <2>3. MenuUpTo(Categories) => menu[n + 1] = 1
    BY <2>1 DEF MenuUpTo
  <2>. QED  BY <2>2, <2>3
<1>10. \A a \in Accounts : rows[a] => rows'[a]
  BY <1>1
<1>11. \A j \in Instances \ {i} : SeededSoFar(j)'
  BY <1>1, <1>4, <1>9, <1>10, OthersFind DEF Undisturbed
<1>. QED  BY <1>7, <1>8, <1>11

\* A step that leaves the database as it is and no instance to seed a category.
LEMMA IdleStepFinds ==
  ASSUME StartupInv, NoHalfMenu, \A j \in Instances : SeededSoFar(j),
         NEW i \in Instances, proc[i].pc # "createCategory",
         proc'[i].pc \in {"connect", "findAdmin"},
         \A j \in Instances \ {i} : proc'[j] = proc[j],
         UNCHANGED <<env, rows, menu>>
  PROVE  NoHalfMenu' /\ \A j \in Instances : SeededSoFar(j)'
<1>1. NoHalfMenu'
  BY DEF NoHalfMenu, EmptyMenu, MenuUpTo
<1>2. SeededSoFar(i)'
  BY DEF SeededSoFar, SeedingDemo
<1>3. \A j \in Instances \ {i} : SeededSoFar(j)'
  BY DEF SeededSoFar, HasAdminPassword, MenuUpTo
<1>. QED  BY <1>1, <1>2, <1>3

\* What has been disturbed stays so: a dead instance does not move.
LEMMA DisturbedForEver ==
  ASSUME StartupInv, FaultsTypeOK, [PrismaNext]_prismaVars, Undisturbed'
  PROVE  Undisturbed
<1>1. faults = 0
  BY FaultsAssumption
     DEF Undisturbed, FaultsTypeOK, PrismaNext, Launch, Start, Kill, Transact, prismaVars,
         startupVars, Boot, Die, StartStep, Connect, ConnectFails, SeedFails, Fault, FindAdmin,
         CreateAdmin, CountMenu, CreateCategory, FindCustomer, CreateCustomer, FindKitchen,
         CreateKitchen, FindAccount, CreateAccount
<1>2. together => together'
  BY DEF PrismaNext, Launch, Start, Kill, Transact, prismaVars,
         startupVars, Boot, Die, StartStep, Connect, ConnectFails, SeedFails, FindAdmin,
         CreateAdmin, CountMenu, CreateCategory, FindCustomer, CreateCustomer, FindKitchen,
         CreateKitchen, FindAccount, CreateAccount
<1>3. ASSUME NEW d \in Instances, proc[d].pc = "dead"
      PROVE  proc'[d] = proc[d]
  <2>1. ASSUME NEW i \in Instances, Boot(i) \/ Die(i) \/ StartStep(i)
        PROVE  proc[i].pc # "dead" /\ \E r : proc' = [proc EXCEPT ![i] = r]
    <3>1. \A pc : GoOn(i, pc) => \E r : proc' = [proc EXCEPT ![i] = r]
      BY DEF GoOn
    <3>. QED
      BY <2>1, <3>1
         DEF Starting, Seeding, Boot, Die, StartStep, Connect, ConnectFails, SeedFails, FindAdmin,
             CreateAdmin, CountMenu, CreateCategory, FindCustomer, CreateCustomer, FindKitchen,
             CreateKitchen, FindAccount, CreateAccount
  <2>2. CASE \E i \in Instances : Boot(i) \/ Die(i) \/ StartStep(i)
    BY <1>3, <2>1, <2>2 DEF StartupInv, StartupTypeOK
  <2>3. CASE UNCHANGED proc
    BY <2>3
  <2>. QED  BY <2>2, <2>3 DEF PrismaNext, Launch, Start, Kill, Transact, prismaVars, startupVars
<1>. QED  BY <1>1, <1>2, <1>3 DEF Undisturbed, Died

LEMMA SeedStepInv == SeedInv /\ [PrismaNext]_prismaVars => SeedInv'
<1>. SUFFICES ASSUME SeedInv, [PrismaNext]_prismaVars PROVE SeedInv'
  OBVIOUS
<1>. USE DEF SeedInv
<1>1. StartupInv'
  BY StartupStepInv
<1>2. FaultsTypeOK'
  BY FaultsAssumption
     DEF FaultsTypeOK, PrismaNext, Launch, Start, Kill, Transact, prismaVars,
         startupVars, Boot, Die, StartStep, Connect, ConnectFails, SeedFails, Fault, FindAdmin,
         CreateAdmin, CountMenu, CreateCategory, FindCustomer, CreateCustomer, FindKitchen,
         CreateKitchen, FindAccount, CreateAccount
<1>3. ASSUME Undisturbed' PROVE NoHalfMenu' /\ \A j \in Instances : SeededSoFar(j)'
  <2>1. Undisturbed /\ NoHalfMenu /\ \A j \in Instances : SeededSoFar(j)
    BY <1>3, DisturbedForEver
  <2>2. CASE UNCHANGED startupVars
    <3>1. NoHalfMenu'
      BY <2>1, <2>2 DEF startupVars, NoHalfMenu, EmptyMenu, MenuUpTo
    <3>2. \A j \in Instances : SeededSoFar(j)'
      BY <2>1, <2>2 DEF startupVars, SeededSoFar, HasAdminPassword, MenuUpTo
    <3>. QED  BY <3>1, <3>2
  <2>3. ASSUME NEW i \in Instances, Boot(i)
        PROVE  NoHalfMenu' /\ \A j \in Instances : SeededSoFar(j)'
    <3>1. proc'[i].pc = "connect" /\ \A j \in Instances \ {i} : proc'[j] = proc[j]
      BY <2>3, WentOn DEF Boot, StartupInv
    <3>. QED  BY <2>1, <2>3, <3>1, IdleStepFinds DEF Boot
  <2>4. ASSUME NEW i \in Instances, Die(i) PROVE FALSE
    <3>1. proc'[i].pc = "dead"
      BY <2>4, WentOn DEF Die, StartupInv
    <3>. QED  BY <1>3, <3>1 DEF Undisturbed, Died
  <2>5. ASSUME NEW i \in Instances, StartStep(i)
        PROVE  NoHalfMenu' /\ \A j \in Instances : SeededSoFar(j)'
    <3>1. CASE Connect(i)
      <4>1. proc'[i].pc = "findAdmin" /\ \A j \in Instances \ {i} : proc'[j] = proc[j]
        BY <3>1, WentOn DEF Connect, StartupInv
      <4>. QED  BY <2>1, <3>1, <4>1, IdleStepFinds DEF Connect
    <3>2. CASE ConnectFails(i)
      <4>1. CASE proc[i].retries < MaxConnects
        <5>1. proc'[i].pc = "connect" /\ \A j \in Instances \ {i} : proc'[j] = proc[j]
          BY <3>2, <4>1 DEF ConnectFails, StartupInv, StartupTypeOK
        <5>. QED  BY <2>1, <3>2, <5>1, IdleStepFinds DEF ConnectFails
      <4>2. CASE ~ proc[i].retries < MaxConnects
        <5>1. proc'[i].pc = "dead"
          BY <3>2, <4>2, WentOn DEF ConnectFails, StartupInv
        <5>. QED  BY <1>3, <5>1 DEF Undisturbed, Died
      <4>. QED  BY <4>1, <4>2
    <3>3. CASE SeedFails(i)
      BY <1>3, <3>3 DEF SeedFails, Fault, Undisturbed, FaultsTypeOK
    <3>4. CASE CountMenu(i)
      BY <2>1, <3>4, MenuCounted
    <3>5. CASE CreateCategory(i)
      BY <2>1, <3>5, MenuSeeded
    <3>6. CASE \/ FindAdmin(i) \/ CreateAdmin(i)
               \/ FindCustomer(i) \/ CreateCustomer(i)
               \/ FindKitchen(i) \/ CreateKitchen(i)
      BY <2>1, <3>6, AccountsFound
    <3>. QED  BY <2>5, <3>1, <3>2, <3>3, <3>4, <3>5, <3>6 DEF StartStep
  <2>. QED
    BY <2>2, <2>3, <2>4, <2>5 DEF PrismaNext, Launch, Start, Kill, Transact, prismaVars
<1>. QED  BY <1>1, <1>2, <1>3

(***************************************************************************)
(* An instance serves with its admin, the whole menu and the demo accounts  *)
(* as long as no call has failed and instances have neither died nor        *)
(* overlapped: each step of seedDatabase finds what the one before it left, *)
(* and no instance leaves half a menu behind.                               *)
(***************************************************************************)
THEOREM ServedInFull == PrismaSpec => []ServedComplete
<1>1. ASSUME SeedInv PROVE ServedComplete
  <2>. SUFFICES ASSUME Undisturbed, NEW i \in Instances, proc[i].pc = "serving"
                PROVE  /\ \A k \in 1 .. Categories : menu[k] = 1
                       /\ HasAdminPassword => rows["admin"]
                       /\ ~ env.production => rows["customer"] /\ rows["kitchen"]
    BY DEF ServedComplete, Undisturbed
  <2>1. SeededSoFar(i)
    BY <1>1 DEF SeedInv
  <2>2. \A k \in 1 .. Categories : menu[k] = 1
    <3>1. MenuUpTo(Categories)
      BY <2>1 DEF SeededSoFar
    <3>2. \A k \in 1 .. Categories : k <= Categories
      BY StartupAssumption
    <3>. QED  BY <3>1, <3>2 DEF MenuUpTo
  <2>. QED  BY <2>1, <2>2 DEF SeededSoFar
<1>. QED  BY <1>1, SeedInitInv, SeedStepInv, PTL DEF PrismaSpec

-----------------------------------------------------------------------------
(* The calls, while instances start and die *)

\* Whatever instances start and die, the calls run the loop of executeWithRetry.
LEMMA CallsRetry == PrismaSpec => RetrySpec
<1>1. PrismaInit => RetryInit
  BY DEF PrismaInit
<1>2. [PrismaNext]_prismaVars => [RetryNext]_retryVars
  BY DEF PrismaNext, Launch, Start, Kill, Transact, RetryNext, prismaVars
<1>. QED  BY <1>1, <1>2, PTL DEF PrismaSpec, RetrySpec

(***************************************************************************)
(* A transaction takes effect at most once, also when the process of its    *)
(* caller dies between two attempts: what is left is a loop that never goes *)
(* on, not one that somebody repeats.                                       *)
(***************************************************************************)
THEOREM CallsAreAtomic == PrismaSpec => ImplementsAtomicCall
<1>. QED  BY CallsRetry, RetryIsAtomic, PTL
==============================================================================
