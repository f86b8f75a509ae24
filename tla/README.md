# Verification of the restaurant backend

TLA+ models, TLC runs and TLAPS proofs about the ordering backend of this
repository (NestJS, PostgreSQL through Prisma, BullMQ on Redis, Socket.IO).
Paths are relative to the repository's root; `src/src/` is its source tree.

## 1. The system

One Node process serves HTTP requests and sockets and runs the BullMQ workers.
All durable state is in PostgreSQL and Redis; the process itself keeps only the
bookkeeping of the sockets. A handler is an `async` function, so two handlers
interleave wherever one awaits. There are no locks: what is atomic is one query,
one Prisma transaction, or one synchronous stretch of code. Nothing is resumed
after a crash: a handler that was running is gone, a job that was active is
delivered again by BullMQ.

Nearly every component meets the others over the row of an order:

```
 customers, staff ── HTTP ──> OrdersService ──── add / remove ──> scheduledOrders queue (Redis)
                                  │  │                                   │ delay, retry, redelivery
                                  │  └──────────── emit* ──┐             v
 couriers, admin ── HTTP ──> DeliveryService ── emit* ──┐  │   ScheduledOrdersProcessor
                                  │                     v  v             │  │
 Glovo, Stripe ── webhooks ──> Glovo/Payments ──> NotificationsService <─┘  │
                                  │                     │                   │
                                  v                     v                   v
                    orders, order_status_history   OrderGateway ──> sockets in rooms
```

### Inventory

| Component | State | Operations | Talks to | What is hard | What makes it correct |
|---|---|---|---|---|---|
| Orders service (`modules/orders`) | `orders`, `order_items`, `order_status_history` | create, updateStatus, cancel, queries | queue, notifications | validation on a read that is stale at the write; commit, enqueue and broadcast are separate calls | status follows `validTransitions`; history and status agree; nothing announced that was not written |
| Scheduled orders worker (`queues/scheduled-orders.processor.ts`) | the job in hand | process | queue, order rows, notifications | races with cancel and with staff; redelivery after a crash; retries | each scheduled order is released, when due, and once |
| Queue `scheduledOrders` (BullMQ, external) | jobs in Redis | add, getJobs, remove, promote, deliver, retry, redeliver | orders service, worker | an active job cannot be removed and is not listed | as far as its callers rely on it |
| Delivery service (`modules/delivery`) | `delivery_tasks`, order status | createDeliveryTask, assignCourier, updateDeliveryStatus | order rows, notifications | two writes without a transaction; no look at the order's status | a finished delivery completes its order; couriers are not lost |
| Notifications, order gateway (`modules/notifications`, `websockets/order.gateway.ts`) | rooms, sockets per user | connect, disconnect, join, leave, emit | all services that change orders | disconnects during the await of `handleConnection`; the limit per user | live connections bounded, and no user locked out |
| Rate limiter (`websockets/socket-rate-limiter.ts`) | a window per socket | allow, release | both gateways | window boundaries | neither too much passes nor too little |
| Chat (`modules/chat`, `websockets/chat.gateway.ts`) | `chats`, rooms | send (socket and REST), join, history | database | a message is stored and broadcast in two steps while others join and page | who follows the chat misses nothing |
| Users (`modules/users`) | `users`, `addresses` | create, update, delete an address; profile | read by create | unset-then-set without a transaction | at most one default address |
| Database access (`database`) | connection, seeds | connectWithRetry, seeding, executeWithRetry | everything | retry of what may have been applied; a crash between seeds | a transaction takes effect at most once |
| Glovo service (`modules/glovo`, `queues/glovo-sync.processor.ts`) | `glovo_orders`, order status | createDelivery, syncOrderStatus, handleWebhook | order rows, notifications | late and repeated webhooks | final statuses stay |
| Payments service (`modules/payments`) | `payments`, order payment status | createPaymentIntent, handleWebhook | order rows, notifications | late and repeated webhooks | payments and order agree; a payment asked for twice has a reason |
| Auth (`modules/auth`) | `users`, the clients' tokens | register, login, staff login, refresh | `staff` rows | check, then create; compare with a hash read before an await | one account per phone and e-mail; tokens only for who had the credentials |
| Staff (`modules/staff`) | `staff` | create, update, soft delete | read by auth and guards | overlapping edits of one row | edits of different fields do not undo each other |
| Guards and routes (`common/guards`, `jwt.strategy.ts`, the controllers) | | validate a token, look at the role | `users`, `staff` | tokens outlive changes of the account | handlers run only for the roles their route names |
| Cache (`common/services/cache.service.ts`) | a Redis connection, `connectionFailed` | get, set, delete, deletePattern | Redis | events and calls set and reset one latch | usable when Redis is; every call is answered |
| Health (`health`) | a Redis connection | live, ready, db, redis | PostgreSQL, Redis | databases come and go between two checks | ok only of what answered |
| Menu (`modules/menu`) | categories, items, modifiers | administration | read by create | changes while create reads item by item | orders cost what their items cost |
| Admin analytics, metrics, filters, interceptors | counters | | | |

`PROJECT.json` lists the same components with their status, the hazards of the
code at their lines, and every run, mutant and theorem named below.

## 2. The modules

| Module | Models | State | Actions |
|---|---|---|---|
| `OrderTypes` | the ids of orders, enums of `schema.prisma`, the table in `updateStatus` | | |
| `Faults` | a database or Redis call that throws, having done nothing or its work | `faults` | `Fault(point)` |
| `OrderStore` | tables `orders`, `order_status_history`; the events broadcast | `orders`, `history`, `due`, `announced` | `InsertTx`, `StatusTx`, `Announce`, `TimePasses` |
| `BullQueue` (extends `OrderStore`) | BullMQ as its callers see it | `job` | `AddJob`, `PromoteJob`, `TakeJob`, `CompleteJob`, `FailJob`, `FailUnanswered`, `StallJob`, `DropJob` |
| `OrdersService` (extends both) | `orders.service.ts` | `req`, `started` | `Create*`, `Update*`, `Cancel*` |
| `ScheduledOrdersProcessor` | `scheduled-orders.processor.ts` | `worker` | `WorkerTake`, `WorkerRead`, `WorkerRelease`, `WorkerAnnounce`, `WorkerReturn` |
| `OrderLifecycle` | the two above in one process that may crash | `crashes` | `Call`, `Handler`, `Take`, `Work`, `Promote`, `Stall`, `Clock`, `Crash` |
| `OrderJournal` | the abstract promise of `OrderLifecycle` | `journal`, `status`, `owed`, `told` | `Write`, `WriteUnheard`, `Broadcast`, `Lose` |
| `DeliveryService` | `delivery.service.ts` | `task`, `desk`, `deskCalls` | `CreateTask*`, `Assign*`, `SetTask`, `CompleteOrder`, `Announce*` |
| `GlovoService` | `glovo.service.ts`, `glovo-sync.processor.ts` | `parcel`, `hook`, `hookCalls`, `sync`, `syncs` | `HookStart`, `SetParcel`, `SetOrder`, `AnnounceHook`, `SyncTake`, `SyncWrite` |
| `OrderFulfilment` | `OrderLifecycle`, `DeliveryService` and `GlovoService` over the same rows | | `Lifecycle`, `CallDesk`, `Desk`, `CallHook`, `Hook`, `Sync`, `CrashAll` |
| `SocketGateway` | connections of `order.gateway.ts` (and `chat.gateway.ts`) | `link`, `auth`, `tracked` | `Connect`, `LookupFails`, `LimitRefuses`, `Accept`, `Disconnect`, `Restart` |
| `SocketRateLimiter` | `socket-rate-limiter.ts` | `now`, `windows`, `released`, `passed` | `OpenWindow`, `CountMessage`, `Release`, `Tick` |
| `OrderGateway` (extends both) | the rooms of `order.gateway.ts`, with the two above in one process | `room`, `adminRoom`, `joining` | `Handshake`, `Leave`, `RejectMessage`, `JoinOrderRoom`, `JoinChecked`, `LeaveOrderRoom`, `JoinAdminRoom`, `Time`, `RestartAll` |
| `ChatGateway` | `chat.gateway.ts`, `chat.service.ts` | `stamped`, `stored`, `sending`, `room`, `asking`, `page`, `known`, `synced` | `Send`, `Store`, `StoreFails`, `StoreUnanswered`, `Emit`, `Join*`, `AskHistory`, `ReadHistory`, `AnswerHistory`, `QueryFails`, `Disconnect`, `Crash` |
| `MenuService` | `menu.service.ts` | `category`, `item`, `modifier` | `CreateCategory`, `DeleteCategory`, `CreateItem`, `UpdateItem`, `DeleteItem`, `CreateModifier`, `UpdateModifier`, `DeleteModifier` |
| `OrderPricing` (extends it) | the price of an order in `create`, and the customer who sends it | `customer`, `sold`, `had` | `Look`, `Submit`, `PriceLine`, `InsertOrder`, `InsertFails` |
| `PaymentsService` | `payments.service.ts` | `paymentStatus`, `payment`, `intent`, `hook`, `kitchen` | `ReadOrder`, `CreatePayment`, `LinkPayment`, `FindPayment`, `WritePayment`, `WritePaymentUnanswered`, `TellKitchen` |
| `Checkout` (extends both) | the two over the same orders, and the revenue of `admin.service.ts` | | `ChangeMenu`, `Shop`, `Sell`, `Pay`, `Crash` |
| `UserAddresses` | `users.service.ts` | `row`, `req` | `CreateStart`, `UpdateStart`, `DeleteStart`, `UnsetOthers`, `Write`, `Delete`, `Crash` |
| `AccountStore` | tables `users` and `staff`, tokens, the calls under way | `user`, `staff`, `access`, `refresh`, `handling`, `may`, `calls` | `SignIn`, `Expire` |
| `AuthService` (extends it) | `auth.service.ts` | | `Register`, `FindEmail`, `FindPhone`, `CreateUser`, `Login`, `FindUser`, `StaffLogin`, `FindMember`, `Fallback`, `Compare`, `RefreshToken` |
| `AccessControl` (extends `AccountStore`) | the guards, `jwt.strategy.ts`, the routes of the controllers and their roles | | `WithToken`, `OtherCall`, `Validate`, `Answer` |
| `StaffService` (extends it) | `staff.service.ts` | | `CreateStaff`, `UpdateStaff`, `RemoveStaff`, `FindStaff`, `WriteStaff` |
| `Accounts` (extends these and `UserAddresses`) | them in one process, with failing queries and restarts | | `Arrive`, `AccountStep`, `AddressCall`, `AddressStep`, `TokenStep`, `Fail`, `Restart` |
| `RedisClient` | Redis, PostgreSQL and the two ioredis clients | `up`, `outages`, `status` | `Connects`, `GetsReady`, `GoDown`, `ComeUp` |
| `CacheService` (extends it) | `cache.service.ts` | `connectionFailed`, `attempts`, `booting`, `call`, `hasty` | `CacheConnects`, `CacheReady`, `CacheCloses`, `CacheReconnects`, `Call`, `TimeOut`, `PingReply`, `CommandReply` |
| `HealthService` (extends `RedisClient`) | `health.service.ts` | `probe` | `BeginProbe`, `CheckDatabase`, `SendPing`, `PingAnswered`, `Respond`, `HealthCloses` |
| `BackingServices` (extends both) | the process and the databases behind it | | `ClientStep`, `Environment`, `Restart` |
| `AtomicCall`, `TransactionRetry` | what callers expect of `executeWithRetry`, and its loop | `outcome`, `effect`; `loop`, `applied` | `Finish`; `Commit`, `CommitUnnoticed`, `Fail`, `Deadlock`, `Wake` |
| `DatabaseStartup` | `onModuleInit` of `prisma.service.ts`: `connectWithRetry`, `seedDatabase` | `env`, `rows`, `menu`, `proc` | `Boot`, `Connect`, `ConnectFails`, `Find*`, `CountMenu`, `Create*`, `SeedFails`, `Die` |
| `PrismaService` | instances that start, and calls in those that serve, over one database | | `Launch`, `Start`, `Kill`, `Transact` |

`MC*` modules name the small sets the `.cfg` files use. `*Proofs` modules hold
the theorems. Operators whose comment starts with "Mutation" are plausible bugs
of the definition below them; the specification never uses them, and each shows
that some property would notice that bug.

### How the modules are cut

*Handlers.* A slot (`r \in Requests`, `d \in Desks`) holds one running handler:
where it stands and the local variables it still needs. An action is the code
from one `await` to the next, with all it changes. A call the code turns down
before it has changed anything (`BadRequest`, `NotFound`, no access, rate limit)
is not a step; when the turning down is what matters (`LimitRefuses`,
`CancelRevalidate`, `FreeRow`, `Removable`) it is.

*Transactions* are atomic. `executeWithRetry` is used as one step; that this is
sound is what `TransactionRetry` shows.

*Failures.* A call fails in one of two ways, and its caller sees the same
exception: it did nothing (a fault point such as `releaseTx`), or it did its work
and the answer was lost (`releaseTxAnswer`), which `TransactionRetry` calls
`CommitUnnoticed`. A crash does not stand for the second: it ends every handler at
once, and BullMQ counts it as a stall of the job, where an exception is a failed
attempt, which is repeated. Both ways are modelled wherever they differ: for the
transactions of `create`, `updateStatus` and the worker, `queue.add`, `assignCourier`,
the completion of an order by a delivery or a Glovo webhook, the payment webhook and
the insert of a chat message. Elsewhere a lost answer leaves what another behaviour
of the model leaves: the writes of a task's or a parcel's status, and the job's
removal, are followed by a call of the same handler that may fail; after a handler's
last write only its response is lost.

*Time.* An order's `scheduledFor` is the Boolean `due`; only its passing matters.
It may pass at any moment after the client has sent the order, before the commit
included, which is when `create` computes a negative delay.

*BullMQ* is not in the repository. `BullQueue` states what the code relies on: a
delayed job waits for its time, one worker takes a job at a time (concurrency 1),
an error uses up an attempt, a job whose lock nobody renews is delivered again up
to `MaxStalls` times, and a locked job can neither be listed as waiting nor be
removed. The expiry of a lock and the check that finds it are one step.

*Broadcasts.* Rooms and sockets are left out of the order modules: `announced`
is the sequence of events handed to the gateway for an order. `emit*` does not
await anything, so handing over and broadcasting is one step. The worker's
second event, `admin_new_order`, carries no status and is left out.

*Chat.* `stamped` is the order of the messages' `sentAt`, which is taken before
the row is committed: messages may become visible in another order. Clients are
sockets of users who pass `orderAccessWhere`. `known` is what a client has
received on its current connection, `synced` marks clients that were answered
the newest page after they had joined.

*Glovo.* Nothing in the repository adds jobs to the `glovoSync` queue: the
environment adds them, and the worker takes one at a time. A webhook for an order
without a `glovo_orders` row is turned down and is not a step.

*Instances.* A run of the server process is an element of `Instances`; a restart
is another element. Requests are let in when `onModuleInit` has ended, so calls
of `executeWithRetry` belong to an instance that serves, and end with it.

*Auxiliary variables.* `serial`, `together`, `passed`, `had`, `outcomes`, `again`,
`overtaken`, an intent's `confirmed`, a job's `unanswered`, `unheard`, `may`, `hasty`
and a probe's `seen` record what has happened; no action reads them except to record
more. Properties use them to say under which history they hold. `started`, `deskCalls`,
`hookCalls`, `syncs`, `calls`, `outages` and `crashes` count towards the bounds of a
behaviour.

*Connections.* A socket id is used once. `Patient` is the set of users whose
sockets stay while their lookup runs; it separates what the code guarantees to
all clients from what it guarantees to patient ones only. A socket can send
messages as soon as it is connected, while its user is still looked up.
Socket.IO is external: a socket that goes leaves its rooms, and joining a room
does nothing for a socket that has gone.

*Checkout.* Customers send the prices they have seen, as the client of the API
does; the total is computed from the menu's rows and the lines keep what was sent.
A payment's `amount` is the number the client sends, zero or more, which the code
never compares with the order's total. The calls to the providers are
placeholders in the code, and nothing in it stores `providerPaymentId`, by which
webhooks find a payment: `LinkPayment` is the missing integration, and without it
no webhook has any effect. Events are those whose signature has been verified.

*Accounts.* A slot holds one call of any route; `handling` and, for addresses,
`req` say where it stands, and a slot is busy with one of the two at most. Names
are left out; hashing and signing are what they promise: a hash matches the
password it was made of, and a token names its account until it expires. A
client holds at most one kind of each token per account, as a second one is no
different. Clients may call any route with any token, and log in with any
credentials. `may[s]` grows by what `Entitled(s)` says after each step: it is whom
the call in `s` may have been made for at some moment since it began. `Fail` lets
any query of a handler throw. Addresses are those of one user, who has a default
address already, as the seeded customer does. Removed staff are rows like others:
that is what the queries of the code make of `deletedAt`.

*Redis.* ioredis is external: `RedisClient` has the statuses it goes through and
when, the handlers and the strategy it is given are the code's. Assumed of it are
that a command whose connection broke is sent again when the client is ready
again, that all that is pending is rejected when it gives up, and that `connect()`
throws while it is connecting and cuts a delay short while it waits. No module
of the repository calls the cache yet: calls come from the environment.

*Data.* Texts and the profile fields are left out, prices and items in all modules
but those of the checkout; there, amounts are whole numbers. The create handler's
validation is `CreateAccepts`, over classes of inputs.

## 3. The runs

All runs set `CHECK_DEADLOCK FALSE`: a system nobody calls any more, or whose
bounds are used up, stops. The mutant of every property below is in
`PROJECT.json`.

### Orders (`MCOrderLifecycle`)

| Run | Instance | Shows |
|---|---|---|
| `interleaved` | 2 orders of either type, 2 handlers, 3 calls, 1 failed call or lost answer anywhere, 1 crash, 2 attempts | `IInv`, `HistoryFollowsStatus`, `NoStrandedOrder`, `NeverReleasedEarly`, `ReleasedOncePerDelivery`, `StatusStepsExplained`, and `ImplementsJournal`: refinement of `OrderJournal` |
| `progress` | 1 order, 2 handlers, 4 calls, the worker's calls fail or its release is not answered, twice, 3 attempts, fair | `ReleasedWhenDue`, `EveryStatusAnnounced` |
| `stale_update` | 1 instant order, 2 handlers, 4 calls, no failures | violated: `StatusStepsValid` |
| `single_attempt` | 1 scheduled order, 1 failed call of the worker, 1 attempt, fair | violated: `ReleasedWhenDue` |

`StatusStepsExplained` is the strongest statement about status changes that the
code satisfies: each is in the table, or was checked against a read that another
writer has overtaken, or is the worker's. `stale_update` shows why the second
case is there. The third is the write of `scheduled-orders.processor.ts:45`,
which sets PREPARING whatever staff have set since the worker's read, and also
over a cancellation that commits between its check (line 33) and that write.

`ReleasedOncePerDelivery` counts the second releases there can be: after a worker
died between its release and the completion of the job, which is redelivered
(`stalls`), and after the answer of a committed release was lost, when the attempt is
repeated over a released order (`unanswered`). With the one attempt of the code's own
queue only the first can happen; with the three of `queue.module.ts` both.
`EveryStatusAnnounced` leaves such unanswered releases out: `process` throws before
it announces them, and what is announced belongs to the attempt that went through.

*Bounds.* The races are between two handlers, or a handler and the worker, about
one order: two slots show them. Three calls allow creating an order and two
overlapping changes of it, or a second order beside the first; `progress` has a
fourth, with one order. Orders share nothing but the slots and the worker.
`JobAttempts = 1` is what the code does (the queue of `orders.module.ts` has no
`attempts`), and what the violations use; 2 and 3 exercise the retries that
`queue.module.ts` describes. `DeliveryInputs` is `PICKUP` as no action of these
modules looks at it. Orders and slots are symmetric in `interleaved`: its
properties are invariants, step properties and a refinement without fairness, and
none of them tells orders or slots apart. Runs with fairness use no symmetry.

### Delivery (`OrderFulfilment`)

| Run | Instance | Shows |
|---|---|---|
| `deliveries` | 1 order of any delivery type, 2 desks with 4 calls, 2 webhook handlers with 2 webhooks, 2 `glovoSync` jobs, 1 order handler with 2 calls, 1 courier, 2 failed calls or lost answers, 1 crash, fair | `UnrecordedOnlyByCarriers`, `AnnouncedWasWritten`, `GlovoFollowed`, `CourierKept`, `DoneCompletes` |

Four desk calls allow two overlapping creations, an assignment and a completion.
Two webhooks overlap, repeat or overtake each other; two jobs enter a delivery
and sync it while a webhook runs. The order handler's two calls are the order's
creation and one change that overlaps the carrier's. An order is ours or Glovo's
to deliver, so that desks and webhooks never meet. Scheduled orders add nothing
here, for neither service looks at the order's type. `GlovoSays` has a status
that starts the work on an order, the two that end it, and one `statusMap` lacks;
the others differ from the first only in what they map to.

### Sockets (`MCOrderGateway`, `ChatGateway`)

| Run | Instance | Shows |
|---|---|---|
| `gateway` | 1 socket of an impatient customer, 2 of a patient member of the staff, one connection per user; one socket of each sends messages, 2 per window of 2 ticks, over 4 ticks; 1 order, of the customer | `ConnectionsBounded`, `SlidingBound`, `RoomsGuarded`, `WindowsReleased`, `PatientRefusedOnlyAtLimit`, `RejectionsJustified` |
| `ghosts` | 2 sockets of an impatient user, 2 of a patient one, limit 1 | violated: `RefusedOnlyAtLimit` |
| `room` | 3 messages, one of them by REST, 2 clients, pages of 1, offsets 0 and 1, 1 failed call, lost answer or crash | `ChatInv` (with `SeenIsStored`), `NoMessageMissed` |

In `gateway` the first socket of the member of the staff reaches the limit and the
second exceeds it, or finds the place of the first free again. A limit of 2 is the
smallest at which a burst can cross the boundary of two windows: one message opens a
window, the second comes at its end, and two more follow in the next window. The run
reaches this, 3 messages within the 2 ticks of a window, and `SlidingBound` holds there
with equality: less than twice the limit. `MaxCount` bounds what the counter shows of
the messages beyond the limit. Only one socket of each user sends messages (`Talkers`):
windows and joins of different sockets meet only in the sets the rooms are. `RecentView`
counts states as one whose windows are equally old and whose messages of the last
`WindowMs` passed at the same times: earlier ones are compared with nothing any more.
The proofs of section 4 hold for every limit and window, without the view. In `ghosts` a
socket that is gone takes the one place a later one needs. Pages of one message make a
message older than a page possible with two messages, and a third arrives while they are
read. `NoMessageMissed` excuses messages older than a page the client has, as
`request_chat_history` does not promise them, and messages that are never broadcast:
those sent by REST, which `chat.service.ts:48` stores without telling the room, and
those whose insert was committed but not answered.

### Checkout (`MCCheckout`)

| Run | Instance | Shows |
|---|---|---|
| `checkout` | 2 items of 2 prices, one with a modifier, the menu is changed twice; 1 customer orders both items; 2 payments of 0 or of the order's total at one of two times, 1 intent and 1 webhook at a time, 1 failed call, lost answer or crash | `PricedWithinRequest`, `PaymentsMatchOrder`, `SecondRequestsExplained`, `KitchenKnows`, `RevenueExplained` |

Two lines are what a change of the menu can come between; a second change can put
the first one right again, or hit the other item. Two payments are a first attempt and
a second one, which may overlap; an event may come any number of times and in any
order, so that one webhook at a time overtakes as well as two would, and the intent
runs beside it. `MenuMatters` leaves out edits of the menu once the order is sold, and
`WhatMatters` counts states as one that differ then in the menu only: payments do not
look at it. Among the amounts are nothing, the total, less and more than the total.

### Accounts (`MCAccounts`)

| Run | Instance | Shows |
|---|---|---|
| `accounts` | 3 users and 2 members of staff, of whom one each exists; 2 e-mails, 2 phones, 2 passwords, 3 addresses of the user; 2 slots, 2 calls, 1 failed address query or restart | `AccountsInv`, `EntitledOnly`, `DefaultsBounded`, `FieldsKept` |

Every race of these components is between two calls: both check and then create,
one edits what the other has read, or both edit one row. What a third call could
add is prepared in the initial states, which have any e-mail, phone and password
for the existing accounts, tokens of both kinds, and a default address. Expiry and
refreshing of tokens, failing queries of accounts and validation are not bounded.
The new member can have either contact as a phone and be any existing one's
double; edits change one field or none, as the fields of an edit are written
independently of each other. Addresses do not depend on which user it is. The
symmetric sets occur in no fairness and no property tells their members apart;
`u1`, `m1` and the addresses are not symmetric.

### Redis (`BackingServices`)

| Run | Instance | Shows |
|---|---|---|
| `redis` | 2 cache calls, 1 probe, 3 retries as in the code, 2 outages or restarts, either database down or up at the start, fair | `BackingInv`, `UsableWhenReady`, `ReadyTrue`, `EveryCallAnswered` |

Two calls can wait for one connection, or one wait while the other times out. One
outage during a connection is followed by a recovery and a second one, or by
a restart. Probes meet only in their client's status, so one shows what each does.

### The database (`MCPrismaService`)

| Run | Instance | Shows |
|---|---|---|
| `database` | 2 instances, 2 categories, 2 repeated connects, 2 failed queries, 1 call with 3 attempts in one instance, fair | `SeededOnceInTurn`, `ServedComplete`, `StartsOrDies`, `EveryCallEnds`, `ImplementsAtomicCall` |

Two instances overlap, or the second finds what the first has left; of two
categories one may be missing. Calls share nothing, so one shows what each does.

### Fairness

Weak fairness is assumed of the server only: a running handler makes its next step (Node
runs every ready callback, and a call to the database returns or throws; so do the
queries and the delays of a start), the clients of Redis end an attempt to connect one
way or the other, timers fire, Redis answers while it is up, the worker takes and
processes waiting jobs, BullMQ promotes and redelivers them, time passes. Nothing
obliges clients, staff, couriers or admins to call, a socket to connect, or a database
to come back; failures and crashes are never fair. Weak fairness is enough as nothing
disables a step that is pending, except its execution: a job is only removed by a cancel
whose own next steps are fair.

### What the checks found

Three runs of kind "violation" show disagreements between the code and what its
comments, its README or its own table say; `PROJECT.json` quotes both sides:

1. `stale_update`: concurrent `updateStatus` calls leave terminal statuses.
2. `single_attempt`: jobs have one attempt, not the three `queue.module.ts` sets.
3. `ghosts`: sockets gone during their lookup are counted until a restart.

The properties that hold say in their own text what else the code does not
guarantee. These exceptions are part of them, and each is there because the
property fails without it:

- the worker's release overwrites a status staff have set since its read
  (`scheduled-orders.processor.ts:45`, in `StatusStepsExplained`), and a
  cancellation, which the check at line 33 is there to respect;
- a failure or a crash between the commit of `create` and its `queue.add`
  (`orders.service.ts:143`) leaves a scheduled order without a job
  (`NoStrandedOrder`, `ReleasedWhenDue` speak of orders that were not hit);
- a failure between a task's DONE and the order's COMPLETED
  (`delivery.service.ts:124`) leaves the order open, and a later change of the
  order moves it on (`Disturbed` in `DoneCompletes`);
- a finished delivery completes its order whatever the status was, a cancelled
  one included, and Glovo's webhooks set it without the table; neither writes
  history (`UnrecordedOnlyByCarriers` bounds which orders that can happen to);
- overlapping webhooks leave the order with the status of the one that wrote it
  last and the `glovo_orders` row with that of the other (`serial` in
  `GlovoFollowed`; `glovo.service.ts:123`);
- a start that fails or dies while it seeds leaves part of a menu, which every
  later start takes for a menu (`ServedComplete` speaks of undisturbed starts);
- instances that start together seed the menu twice (`together` in
  `SeededOnceInTurn`; `prisma.service.ts:126`);
- assigning a courier announces DELIVERING, which no row says
  (`delivery.service.ts:97`, in `AnnouncedWasWritten`);
- the limiter's windows of sockets that left, or were turned away, before they
  were accepted are never dropped (`order.gateway.ts:155`, in `WindowsReleased`);
- at the limit it is the newest connection that is closed, where the comment at
  `order.gateway.ts:74` names the oldest (`LimitRefuses`);
- a message sent by REST is not broadcast, nor is one whose insert throws after its
  commit (`NeverBroadcast` in `NoMessageMissed`; `chat.gateway.ts:191`);
- a payment that fails, or an event that comes late, overwrites PAID
  (`payments.service.ts:139`), and the customer can be asked to pay once more
  (`Refused` in `SecondRequestsExplained` and `RevenueExplained`);
- a confirmation that comes between an intent's check of the order and its write is not
  noticed: the customer is asked to pay a paid order (`overtaken` in
  `SecondRequestsExplained`; `payments.service.ts:30` and `:38`). Nothing keeps two
  intents from being made while the order is PENDING, and both can be confirmed:
  `SecondRequestsExplained` does not speak of these, and `RevenueExplained` states equality
  only where no order was paid twice;
- a payment's amount is the client's number and is never compared with the order's total:
  a confirmed payment of 0 makes an order PAID, and the analytics count its total
  (`Shortfall` and `Excess` in `RevenueExplained`; `payments.service.ts:42`);
- a crash between the webhook's commit and the event, or the loss of the commit's
  answer, leaves the kitchen without the order (`unheard` in `KitchenKnows`;
  `payments.service.ts:148`), unless the provider repeats the event;
- a release whose answer was lost is made again by the next attempt, over whatever status
  the order has by then, and announced once (`unanswered` in
  `ReleasedOncePerDelivery`; `scheduled-orders.processor.ts:45`);
- `create` looks at `isActive` only: a deleted item can still be ordered
  (`Accepted`; `orders.service.ts:73`), and `getItems` lists the items of deleted
  categories (`ListedByCategory`);
- two overlapping requests can leave two default addresses
  (`users.service.ts:39`): `DefaultsBounded` allows one per running request, and
  `AtMostOneDefault` is proved for one request at a time;
- a user can only be registered with an e-mail: `email` is required by the schema,
  so a registration by phone passes the check at `auth.service.ts:25`, whose message
  says "Email or phone is required", and fails in `create` (`UserFits`);
- the search of staff by an e-mail is reached only with a phone in the body:
  without one, `findUnique` at `auth.service.ts:80` throws (`StaffLogin`);
- of a removed member only the listing knows: logins, tokens and `findOne` go by
  the row, and its phone stays taken (`FindStaff`; `staff.service.ts:117`);
- a login compares with the row as it was read, so that a password changed
  meanwhile still counts, once (`may` in `EntitledOnly`; `auth.service.ts:93`);
- a cache call between the events connect and ready of its client throws in
  `connect()` and disables the cache until the connection is lost and made again
  (`hasty` in `UsableWhenReady`; `cache.service.ts:89`), and when the retries run
  out nothing ever connects again (`GivenUp`; `cache.service.ts:82`);
- the health check's client never reconnects: after one loss of Redis the readiness
  probe says error until the process restarts (`HealthCloses`), where
  `health.service.ts:30` calls Redis optional.

## 4. The proofs

TLAPS proves the following for all values of the constants that satisfy the assumptions
stated in the modules (`FaultsAssumption`, `NoOrderAssumption`, `QueueAssumption`,
`RequestsAssumption`, `CrashesAssumption`, `SlotsAssumption`, `DesksAssumption`,
`GlovoAssumption`, `GatewayAssumption`, `LimiterAssumption`, `RoomsAssumption`,
`ChatAssumption`, `MenuAssumption`, `CartsAssumption`, `PaymentsAssumption`,
`AmountsAssumption`, `AddressesAssumption`, `AccountsAssumption`, `RowsAssumption`,
`StaffBodiesAssumption`, `OwnerAssumption`, `RetryAssumption`, `StartupAssumption`,
`HostAssumption`, `OutagesAssumption`, `RetriesAssumption`): any number of orders,
slots, couriers, sockets, messages, items, payments, accounts, addresses, instances,
attempts and failures. The assumptions give the constants their types, say that the
slots of a process are finitely many where they are counted, and, in `CartsAssumption`,
what the DTO of an order lets through. Every safety property of a passing run, state or
action, is proved; the runs show that the invariants are not vacuous.

**Orders** (`OrderLifecycleProofs`). `HistoryFollowsStatus` and `NoStrandedOrder` are
not inductive. `IInv` is `HistoryFollowsStatus` with `CoreInv`, which says what the
processes rely on at their next step: what each handler knows of its order
(`RequestsOK`), that one handler creates an order (`OneCreator`), that live jobs have
attempts left and an active job has a worker (`JobsOK`), and what the worker knows
(`WorkerOK`). Its last part is why `NoStrandedOrder` survives a completed job: when the
worker is past its release, the order is not PENDING any more, and no step makes an
existing order PENDING. `CoreInv` is apart because it survives the carriers, who write
no history. The proof has one lemma per action; lemmas about freeing a slot
(`EndOfHandlerLemma`, `FailedHandlerLemma`), advancing a handler and setting a job's
state carry the parts that every action shares. From `IInv`: `TypeCorrect`,
`HistoryIsFaithful`, `NobodyIsStranded`. `StatusStepsAreExplained` is an action
property; it combines `RequestsOK` (the target was allowed by the status seen) with the
step at hand. `ReleasesAreDue` needs one more invariant, `JobsDue`: a job is only taken
when its order is due. `DeliveriesReleaseOnce` has `ReleasesCounted`: an order's
releases are at most one more than the redeliveries of its job and its unanswered
releases, and no more than those while its job may still release it; an attempt that is
repeated has failed before its release, or is counted as unanswered.

*The refinement.* `SystemImplementsJournal` maps `OrderLifecycle` to the abstract
`OrderJournal`, in which a status that is written is owed to the clients until it is
told or lost. The mapping counts debts (`Owing`): a handler past its commit, or the
worker past its release, owes the broadcast of its status. Each step is then a `Write`,
a `WriteUnheard` (the transaction took effect and its handler does not know), a
`Broadcast`, a `Lose` (a crash, or a failed call between commit and broadcast) or a
stutter; as `Lose` may drop several debts at once, a crash of all handlers is one
abstract step.

**Delivery** (`OrderFulfilmentProofs`). Seen from the orders, every step of a desk,
a webhook or the sync worker is a `CarrierStep`: it keeps the types of rows, sets an
order's status to one of the carrier's own, never to PENDING, and says what the
carrier may say. Such a step keeps `CoreInv`, so that `NobodyIsStrandedByCarriers` follows
without looking at `OrderLifecycle` again. `DeliveryInv` adds that an order has one
carrier: an order our couriers have a task for has no parcel
(`OnlyCarriersLeaveGaps`, `CouriersAreKept`). `AnnouncedInv` adds that who owes a broadcast
has recorded its status, with the debts of the refinement (`AnnouncementsAreTrue`).
`GlovoInv` speaks of orders whose webhooks have not overlapped: one of them is running at
most, and unless something else has changed the order since, Glovo's row and
the order differ by no more than its remaining write (`InStep`; `OrdersFollowGlovo`).

**Connections** (`OrderGatewayProofs`, second part). `GatewayInv` says that counted sockets
are accepted sockets of that user and that live accepted ones are counted; the
bound of `ConnectionsBounded` follows as a cardinality argument over a finite set.
`RefusalsAreJustified` needs that every counted socket of a patient user is live,
so that such a user at the limit is really there.

**Rate limiter** (`OrderGatewayProofs`, first part). `WindowFits` ties a window to the
messages that passed: the last ones of `passed` are the window's, the first of
them opened it, and what passed `Limit` messages before did so a whole window
earlier; `Spread` says that of any `2 * Limit` messages in a row the first and the last are
at least a window apart, so that less than twice the limit passes in a window's length.
`SlidingBound` follows when a message passes (`PassedLessThanTwiceTheLimit`),
`RejectionsJustified` when one is turned away.

**Order gateway** (`OrderGatewayProofs`, last part). Each step of the composition is a step,
or a stutter, of `SocketGateway`, so that its theorems carry over
(`ConnectionsHold`). `RoomsInv` adds that who waits for the check of a join has a
user (`JoiningOK`): when the check answers, a socket that is still up is
therefore live, accepted and counted, which is what `RoomsGuarded` asks of the
members of a room. The limiter's theorems do not carry over like that: a restart drops
all windows, which is no step of the limiter. `MessagesBounded` and
`MessagesNotThrottledEarly` need `QuietOK`: whoever has sent anything was connected,
so the sockets whose windows a restart drops do not send again.

**Prices and revenue** (`CheckoutProofs`). Both are sums over sets, folds of the
community modules. Their laws are proved once, for `Total(f, S)`: strict inclusion of
finite sets is well-founded, so a law that fails has a smallest set it fails for.
`SumIsTotal`, `RevenueIsTotal`, `TakingsIsTotal`, `ShortfallIsTotal` and `ExcessIsTotal`
identify the sums of the model with it. `SalesInv` says of the loop of `create`
(`TotalsInv`) that its total is the sum, over the lines so far, at prices their items
had since it began, and that what it reads next is such a price, too;
`OrdersCostWhatItemsCost` is this for the last line. That orders and confirmed payments
are finitely many is part of it, not assumed: each step adds one at most.
`RevenueWasExplained` first balances the confirmed payments with what was due for them:
amount and shortfall are due and excess, payment by payment and therefore in sum
(`TotalBalance`). Counted orders are then mapped injectively to confirmed payments, by
`PaymentsMatchOrder`, and, where nothing was refused or paid twice, confirmed payments
injectively to counted orders, so that revenue and dues are the same sum.

**Payments** (`CheckoutProofs`). `MoneyInv` adds to the three properties that a payment
is of an order that is sold (`RowsOK`: a new order has none), what an intent and a
webhook know (`HandlersOK`), and `IntentsJustified`: an intent that has read an order
which is not PAID but has a confirmed payment has read it after another payment failed.
A payment is judged when it is created: if its order has a confirmed payment by then,
either its intent knew of one at its read, and `IntentsJustified` applies, or the
confirmation has overtaken it. This is `SecondRequestsHaveReasons`.

**Accounts** (`AccountsProofs`). `AccountsInv` and `EntitledOnly` are proved together
in `AccountsIInv`. What a call has found is still there when it goes on, as no row is
ever deleted, and the unique columns are looked at in the write itself, so that the
check before it does not matter (`AccountsAreOnePerContact`). `may` only
grows while a call runs, and a call gets no further than the row it has found
allows (`OnlyTheEntitled`). `FieldsAreKept` is an action property: only `WriteStaff`
changes a member's row, in the fields of its request.

**Addresses** (`AccountsProofs`). `Attributed` maps default addresses
injectively to slots, so that a slot about to write a default is not charged for
another one. Writing a default charges it to the writer's slot, which is free of
any other by then. `DefaultsBounded` and, for one slot, `AtMostOneDefault`
are its cardinality. `DefaultsAreBoundedInAccounts` carries the bound over to
`Accounts`: each of its steps is a step of the addresses or leaves them alone.

**Redis** (`BackingServicesProofs`). `BackingInv` is not inductive as it stands: the
handler of `ready` does not look at the latch, so what the latch said while the
connection was being made matters as well. `CacheInv` adds it (`LatchJustified`: from
`connect` on, the latch is set only if a call fell in between), and from it follow
`BackingInvHolds` and `ReadyCacheIsUsable`. `ReadyIsTrue` has an invariant of its own,
`ProbesHonest`: whatever a probe has noted as ok was up while it ran.

**Chat** (`ChatGatewayProofs`). `SeenIsStored` with `sending[m] = "emit" => m \in
stored`: what is broadcast or read in a page has been committed. `NobodyMissesAMessage`
has `SyncInv`: a stored message that a synced client lacks is about to be broadcast,
never will be (it was sent by REST, or its insert was not answered), or has a page of
newer ones among those the client knows; and so it is, with the page in hand, for a
client whose page has been read in the room and not answered yet. The step that needs
thought is the read: a stored message that the page leaves out has a page of newer ones
in it, a cardinality argument that takes the largest of a finite set, found as above.

**Transactions** (`PrismaServiceProofs`, first part). `RetryInv` and the refinement
`Spec => ImplementsAtomicCall`: a call that will be repeated has had no effect, so
each step of the loop is a stutter or the one step of `AtomicCall`.

**Start-up** (`PrismaServiceProofs`). `StartupInv` counts the copies of a
category by the instances that have created it (`MenuAccounted`), and says that
without overlap a single instance seeds (`OneSeeder`). The second needs the
first: an instance begins to seed when the menu is empty, and an empty menu means
that nobody has created anything. `NothingSeededTwice` is then a cardinality of at
most one. `ServedInFull` has `SeedInv`: while no start has been disturbed, each step of
`seedDatabase` finds what the steps before it have created (`SeededSoFar`), and what is
there of a menu when nobody seeds is all of it (`NoHalfMenu`). `CallsAreAtomic` carries the
refinement above over to instances that die.

**Only model-checked.** Liveness (`ReleasedWhenDue`, `EveryStatusAnnounced`,
`DoneCompletes`, `StartsOrDies`, `EveryCallEnds`, `EveryCallAnswered`) is beyond the prover:
it needs fairness and `ENABLED`. The three violations are counterexamples, which TLC finds.

## 5. What is not modelled, and the plan

Modelled first is what an order goes through, as everything else hangs on it;
then the components with concurrency of their own. Left, in this order:

1. *What rooms hear.* The events a client in an order's room has received against
   the order's row: `OrderGateway` composed with the order modules, whose promise
   `OrderJournal` states already.
2. *Order of announcements.* Which status clients are told last when two handlers
   commit in one order and broadcast in the other (`orders.service.ts:291`).
3. *Chat connections.* `ChatGateway` over `SocketGateway`, as `OrderGateway` is; the code is
   the same, so the proofs of its connections should carry over.
4. *A common refinement.* `OrderFulfilment` against an `OrderJournal` in which
   carriers write as well; `CarrierStep` and `AnnouncedInv` are most of its proof.

Out of scope: hashing and JWT (libraries), metrics, the liveness probe, DTO
validation, filters and interceptors (stateless functions of one request), the
notifications queue (its worker only logs and nothing adds jobs), what is cached
and under which key. The body of `PUT /users/addresses/:id` is a
`Partial<CreateAddressDto>`, which no pipe validates: the model takes bodies that say
whether the address is the default and nothing else that it keeps
(`users.controller.ts:51`). The cache's `quit()` at a shutdown
(`cache.service.ts:72`), while its client is still connecting, is left out: `Restart` ends
a process as a crash does.
