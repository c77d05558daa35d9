# Cosmos Pay Community Server: TLA+ models, checks and proofs

The server is a payment gateway for Stellar. A merchant (a *consumer*) creates
payment intents over REST, payers pay them on chain, the server finds out, and
the merchant is told by webhooks. This directory models what decides about
money, about what the merchant is told and about who may ask, checks it with
TLC on small instances and proves its central safety properties with TLAPS for
every value of the constants. Paths below are relative to the repository.

## 1. The system

| Component | State | Operations | Status |
|---|---|---|---|
| Payment intent service (`src/payment-intents/payment-intents.service.ts`) | `payment_intent`, `consumer`, `customer` | create (TX and PAY), update, remove, validate; the finalizers markSucceeded, markFailed, markExpired | modelled |
| On-chain verifier (`stellar-verifier.service.ts`) | none; reads Horizon | verifyByHash, findMatchingPayment | modelled |
| On-chain observer (`stellar-observer.service.ts`) | `running`, in memory | a timer tick: expire the overdue, reconcile the pending | modelled |
| Automatic customers (`upsertCustomerFromPayment`) | `customer` | a fire-and-forget find and create after a settlement | modelled |
| Webhook endpoints (`src/webhooks/webhooks.service.ts`) | `webhook_endpoint` | create, update, remove, rotateSecret, redeliver | modelled |
| Webhook dispatcher (`webhook-dispatcher.service.ts`) | `webhook_delivery`, retry loops in memory | fan out an event, send with retries, record the outcome | modelled |
| Event bus (`webhook-events.ts`) | none: an in-process emitter | emit, listen | modelled |
| Webhook signature | none | HMAC of a body | only which secret is used |
| Customers (`src/customers`) | `customer` | create, update, remove; findAll with the statistics of each payer | modelled |
| Products (`src/products`) | `product` | create, findAll, findOne, update, remove | modelled |
| Gateway guard, permissions (`src/common`) | none | middleware and two guards over request headers | modelled |
| Request log (`logging.interceptor.ts`) | `request_log` | an insert per request that nobody awaits | modelled |
| Exception filter (`all-exceptions.filter.ts`) | none | the status of a failure | modelled |
| Health probes (`src/health`) | none | liveness, readiness | modelled |
| Analytics (`src/analytics`) | none | aggregation over intents, deliveries and the request log | money figures, API log, webhook log |
| Configuration, clients, bootstrap | none | wiring | not modelled |

**How they interact.** Handlers, the observer and the dispatcher run in one
Node process (or several replicas) and share nothing but the database. Every
`await` lets another task run. No handler opens a transaction: a check and the
write that relies on it are two statements, and what holds in spite of that
holds because of unique constraints (`(consumerId, memo)`, `txHash`), foreign
keys, or because what was checked cannot change. After a committed write a
handler emits an event in memory; the dispatcher's listener runs
asynchronously, and the customer job of a settlement is not awaited at all. A
request meets, in this order, the middleware that reads the headers APISIX
added, the gateway guard, the permissions guard, the logging interceptor, the
validation pipe and its handler; a failure passes the interceptor first and the
exception filter then.

**What is hard.** The verdict of a verification is about a row read before
Horizon was asked; two requests and the observer settle one intent together, or
one transaction for two intents; a delete or an expiry relies on an old status;
a crash falls between a write and its event; a row, a query or the process
fails inside the observer's loops; several retry loops, each with its own copy
of the count, write one delivery row; a product is checked for its owner and
then written by its id alone. `PROJECT.json` lists each of these at its
line, with the properties that would catch it.

**What makes it correct.**
- *Service and verifier:* a settled intent was really paid, by a transaction
  that no other intent has; a failed one names a transaction that failed; a
  memo names one intent; nobody learns of another consumer's intent.
- *Observer:* it never expires an intent early, it never stops for good, and it
  resolves what is overdue or paid.
- *Customers:* who pays becomes a customer.
- *Dashboard:* no money is shown as settled that did not arrive, or shown twice,
  but what a client declared itself; the customers page leaves no payer out
  without a reason.
- *Settlement as a whole:* however stale what a handler decided on, its write is
  one step of a book in which every entry changes for a reason that holds when
  it changes.
- *Webhooks:* an event goes to its own consumer's subscribers and to all of
  them; the record of a delivery says nothing that did not happen; retrying is
  bounded and comes to an end.
- *From payment to subscriber:* a payment settles its intent and the settlement
  reaches the subscribed endpoint; nothing is told that did not happen.
- *Gateway and products:* a key is served what it was issued for, no more and no
  less, in whichever format its scopes are forwarded; overlapping updates and
  deletes of a product do not undo or repeat each other; every request past the
  guards is answered and logged.

## 2. The modules

| Module | Models |
|---|---|
| `StellarVerifier` | verifyByHash and findMatchingPayment as pure operators over the ledger; `Fulfils`, what paying an intent means, written independently of the order of the checks |
| `PaymentIntents` | the service: tables, handlers split at every await, failures; EXTENDS `StellarVerifier` |
| `StellarObserver` | the observer's cycle beside the service: the complete specification `Spec` and its properties; EXTENDS `PaymentIntents` |
| `Analytics` | balances, overview volume and the customers page (payer statistics joined to the stored customers) as state functions of the above, each sum being a number of units; EXTENDS `StellarObserver` |
| `Settlement` | the abstract specification: a book of intents, settled, failed, expired, revised or withdrawn in one step each; EXTENDS `StellarVerifier` |
| `SettlementRefinement` | the refinement mapping (`S == INSTANCE Settlement WITH book <- Book, ...`) from `StellarObserver` |
| `WebhookDispatcher` | endpoints, fan-out, deliveries, retry loops, redelivery, the webhook log |
| `EventRelay` | service, observer and dispatcher in one process: EXTENDS `StellarObserver`, INSTANCEs `WebhookDispatcher` as `D` |
| `RequestContext` | middleware and guards as pure operators over the headers |
| `Console` | product routes and probes through guards, interceptor and filter, with the request log; EXTENDS `RequestContext` |
| `StellarObserverProofs`, `SettlementProofs`, `LifecycleProofs`, `RefinementProofs` | proofs about `StellarObserver`, and that it implements `Settlement` |
| `AnalyticsProofs` | what the dashboard shows is backed by the ledger, and the customers page adds up; EXTENDS `LifecycleProofs` |
| `DispatcherProofs`, `ConsoleProofs` | proofs about `WebhookDispatcher` and `Console` |
| `RelayProofs` | proofs about the composition `EventRelay`; EXTENDS `LifecycleProofs` |
| `MCObserver`, `MCWebhooks`, `MCRelay`, `MCConsole` | values for the constants |

**State.** `intents` is the table as a function from ids to rows or NULL; ids
count up, so their order is the order of `createdAt`. `overdue` holds the ids
whose `expiresAt` has passed: the clock is abstracted to that one bit per row,
set by `Lapse` at any time. `task[p]` is a suspended handler: `step` names the
call it awaits, and the other fields are the locals that the rest of it uses.
`cycle[o]` is how far `tick()` of an observer is, with the rows of its two
queries that are left. `ledger` is the sequence of landed transactions, each
described by the constant `TxRecord`. `events` is everything emitted, and
`answers` and `patched` are histories that only properties read.

**Actions.** One action is one awaited call together with the code that runs
until the next. `Create`, `Update`, `Remove` and `Validate` receive a request
and do its first statement; `CheckMemo`, `LoadAccount`, `Insert`, `Refind`,
`PatchWrite`, `RemoveStatus`, `Delete`, `Verify`, `MarkRead`, `MarkWrite` and
`FailWrite` are the later ones, and `Emit` is the code after a committed write.
`CustomerFind` and `CustomerCreate` are the job of a settlement, `AddCustomer`,
`DropCustomer` and `EditCustomer` the merchant's routes on the same table, of
which only the number of rows per owner and account is kept, with a history
(`removed`) of whether the merchant ever took one away.
`CallFails` ends a handler at any of them, which at `Emit` means that the write
is done and its reply was lost. `Crash` drops every task, job and cycle and
keeps the tables.

**What is abstracted.** A consumer and its username are one to one and stand
for each other. Amounts are counts of the smallest unit; `Number` is the double
that JavaScript makes of the decimal string of such an amount, a count of
`Unit`-ths rounded to `Precision` significant bits. Memos, hashes and accounts
are opaque. A transaction has one hash; Horizon also answers to the inner hash
of a fee-bump transaction, and since verifyByHash returns the hash it was asked
for, such a transaction could settle two intents under two names. That a hash
is a transaction is an idealisation, on which `SettledIsBacked` relies. A landed
transaction never changes, so the calls of one verification are one step, and a
lookup that finds nothing yet is a lookup that came earlier. findAll of the
customers sends two queries at once, which are read at one moment here. XDR,
SEP-7 links, QR codes, references, descriptions and timestamps decide nothing.
`PATCH` of a status or a hash is trusted by the code, so the properties about
verified statuses leave out the rows whose status or hash the client wrote last
(`patched`), until a finalizer writes them again. An event whose status is the
client's own word carries that as history (`declared`). The money properties
leave no patch out: they count the declared rows apart.

In `WebhookDispatcher` the pair of an event and an endpoint names a delivery,
because `handleEvent` creates exactly one for each. `task` holds a loop for
each of them and for each redeliver request, with the copies of the endpoint
and of the attempt count that it loaded. A route that checks the owner and then
writes the endpoint is one action: owners never change and ids are not reused,
so its write can only miss a row that is gone. `pingEndpoint` stores nothing
and is left out.

`Settlement` has no task, query or retry: `Settle(i, t)` asks that `t` has
landed, fulfils the terms of entry `i` *now* and is named by no other entry.
The mapping forgets the source of a row, which a settlement does not depend on,
and everything that is not a row: tasks, cycles, customers, events. A `MarkWrite`
maps to `Settle`, `FailWrite` to `Fail`, the observer's expiry to `Expire`, the
insert of a create to `Open`, `PatchWrite` to `Revise` (with the client's own
word, as the code takes it), `Delete` to `Withdraw`, all else to a stutter.

`EventRelay` puts an event on the dispatcher's bus in the very step in which a
handler emits (`Emits`, `Relayed`), which is what EventEmitter2 does; the
listener is a task of its own. `RelayCrash` stops both parts at once, with every
handler, loop and waiting event.

In `Console` the n-th request has the number n. `Receive` is everything that
happens before the first await: middleware, guards, interceptor, pipe, up to the
handler's first query. `Ping`, `ResolveConsumer`, `Insert`, `FindAll`, `FindOne`,
`Update` and `Remove` are the continuations after one await each; `Respond` is
the end of a request with the line that the interceptor queues, and `WriteLine`
the insert of that line, which nobody awaits. `products` is the table as a
function from ids to rows or NULL, `asked` and `answers` are histories. What
APISIX does (`Forwarded`, `Unauthenticated`) and what a client does that goes
round it (`Direct`) is external: it is taken from what the middleware reads, and
requests are chosen to differ in key, header format and route. Letter case and
blanks of header values are abstracted to the words that the parser accepts or
does not.

## 3. The runs

Each run asks one question. "Pass" runs are complete explorations.

| Run | Question | Properties |
|---|---|---|
| `settle` | Two validate requests and the observer race over one intent; two payments by different payers and a failed transaction. Is every status justified? | `VerifiedSettlement`, `VerifiedFailure`, `ExpiredOnTime`, `SourcePaidIt` |
| `faulty` | The same with one request fewer and one failure anywhere. Is the invariant of the proofs really one, does the customers page add up, do an intent's terms stay, is each step one of the book? | `SettlementInv`, `PayersAddUp`, `TermsFrozen`, `ImplementsSettlement` |
| `claim` | Two consumers patch and validate two intents with one transaction. Who gets it, who hears of it, and what do the dashboards show? | `TypeOK`, `NoDoubleClaim`, `OwnerScoped`, `LifecycleInv`, `SettledIsBacked` |
| `create` | Concurrent creates and deletes with the same, other, generated and unacceptable arguments, beside edits of customers. Does a memo name one intent? | `IdempotentCreate` |
| `lapse` | Cycles with batch size one and one failure. Does the observer come back, and does it expire what is overdue? | `ObserverAlwaysReturns`, `OverdueResolved` |
| `notify` | Without failures: does a payment settle its intent, is that announced, does the payer become a customer even if the merchant adds or removes that customer meanwhile, and does the page show all its money? | `PayersAddUp`, `SettledIsNotified`, `PayerBecomesCustomer`, `PaidIsResolved` |
| `webhooks` | Two endpoints, an event, two redeliveries, an edit, a failure, in any order. Do the records lie, do events leak, do retries stay within their budget? | `TypeOK`, `AcknowledgedIsReal`, `FailedWasRetried`, `NoInventedAttempts`, `BoundedPosts`, `RetryInv`, `OwnEventsOnly`, `DeliveryInv` |
| `relay` | Service, observer and dispatcher together, an endpoint that is registered, paused, rotated or removed, a failure or a crash. Does the payment reach the subscriber, and is all that he hears true? | `ToldOfRealPayments`, `RelayInv`, `SettlementReachesSubscriber`, `DeliveriesResolved` |
| `console` | Three requests side by side of thirteen kinds, with a failure or a crash. Who is served, what is lost, what is logged? | `TypeOK`, `ServedToEntitled`, `EntitledIsServed`, `RemovedOnce`, `NoUpdateLost`, `ConsoleInv`, `ChangedByOwner`, `EveryRequestAccounted` |

Three runs refute what a comment of the code says of it:

| Run | Refuted | What happens |
|---|---|---|
| `paid_deleted` | `PaidNotDeleted` | remove reads the status, the intent is settled, remove deletes it |
| `paid_expired` | `OnlyUnpaidIsExpired` | the observer loads an overdue intent, validate settles it, markExpired overwrites SUCCEEDED with EXPIRED |
| `logged` | `ShownAsAnswered` | the interceptor's finalize reads `response.statusCode` before the exception filter sets it: a request answered 400, 404 or 500 is logged as 200 or 201 and shown as ok |

Interleavings of the same models, and amounts beyond those of the runs, show
smaller divergences, which the hazards record without a run of their own:

- the fallback of a refused insert may find the row deleted again;
- two settlements of one payer both find no customer and both create one
  ("Idempotent per (consumer, account)", `payment-intents.service.ts:504`), and
  the customers page then shows the payer's total on either line;
- of two payers of one PAY intent, the one that settles last may leave its hash
  beside the source of the other ("record the actual on-chain source so the
  payment is attributable", `payment-intents.service.ts:478`), and a TX intent
  that another account paid is attributed to the source it was built for;
- amounts are compared as doubles ("for the exact amount",
  `stellar-verifier.service.ts:124`), which from about 2^29 XLM on may be equal
  for amounts one stroop apart;
- overlapping retry loops lose attempts from a delivery's count, or turn an
  acknowledged delivery into a FAILED one; retries go on to an endpoint that was
  paused, signed with a secret that was rotated away;
- a crash between a committed status and its emit loses the event for good;
- two tasks that settle one intent with the same transaction emit two SUCCEEDED
  events with ids of their own, which an integrator's "stable event id"
  (`src/README.md:134`) does not tell apart from two payments;
- of two overlapping deletes of a product the second is answered 500, not 404;
- a request that the guards refuse leaves no line in the request log, since
  guards run before interceptors;
- numbers of the environment (`configuration.ts:91`) that do not parse become
  NaN at boot.

Every property of a passing run also has a mutant: a plausible slip in one
definition (`VerdictByHash_AnyOutcome`, `HashTaken_NoConstraint`,
`NextTry_OneMore`, ...), written before the real one, under which TLC finds the
property violated.

### Bounds

- *Intents, requests, faults.* A race here is between two actors about one row
  (or between two rows about one hash). Two request slots and an observer give
  every pair; `MaxIntents` 2 or 3 gives a second row, and a row created again
  after a delete; one fault gives every single failure. What more of them would
  add is covered, for the safety properties, by the proofs.
- *Transactions.* Three are chosen to differ in what the checks tell apart:
  payer, outcome, asset, amount. `t5` holds two payments, of which an order may
  match the first, the second or none.
- `ScanLimit` 50 and `PageSize` 10 are the values of the code, and the small
  ledgers never reach them: a payment older than the 50 newest operations is
  not found, and `PaidIsResolved` says nothing of it. `Batch` is 50, the default,
  or 1 in `lapse`, so that a batch is smaller than what is overdue.
- *Amounts.* `Unit` 10 and `Precision` 2 stand for 10^7 and 53: with these the
  amounts of the runs, 2 and 3, are rounded but told apart, as all but very large
  ones of a real ledger are. With `Precision` 1 they would be the same double.
- *Patches.* `claim` lets the client report a hash, report an empty one, take it
  back, declare SUCCEEDED, or change neither status nor hash. Two things are left
  to the proofs for the sake of time: `relay` has no PATCH, so that declared
  events meet the dispatcher only in `ToldTruthfully`; `faulty` has no delete
  route, so that a deleted id stays deleted and the page adds up over deletes
  only in `TermsStayFrozen` and `NoMoneyLost`.
- *Customers.* `Listed` is one payer's account, in `create` also none: an edit
  may take the account away. Payers differ in nothing, so one is enough.
- *Webhooks.* `MaxAttempts` 2 stands for the default 3: it has a first, a
  middle and a last turn of the loop head. Two redeliveries beside the event's
  own loop let three loops write one row. `webhooks`
  takes consumers and resenders, and `settle` and `claim` the request slots, for
  symmetric; liveness runs use no symmetry.
- *The composition.* `relay` has create requests of two callers, the observer,
  one transaction, one intent, one fault of the service, one of the dispatcher
  (a crash costs both), two events, so that a CREATED and a SUCCEEDED wait side
  by side, one endpoint with one edit, and two attempts. A redelivery is in
  `webhooks`; its liveness is that of the loop it starts.
- *Console.* Three requests are the smallest number in which two writers of one
  product overlap with a third request, and its products are one of each
  consumer. The thirteen kinds are the routes, with keys that have the scope,
  lack it, are admin, or have no role or environment, in both header formats, as
  an internal call, with an invalid body, past the gateway and without
  authentication. One fault gives every single failed query, a failed log line
  and a crash at any point. The dashboard shows the newest 100 lines, more than
  there are.
- `CHECK_DEADLOCK FALSE` is set where there is no observer, since the server
  then rests once the bounded requests are answered.

### Fairness

`FairSpec` of `StellarObserver` is weakly fair to the continuation of each
handler, to the observer's own steps and to the customer jobs: a call that is
awaited is answered or rejects, the event loop then runs its continuation, and
`setInterval` goes on ticking. No fairness is asked of clients, payers, the
clock or failures. `RelayFairness` adds weak fairness of each listener and each
loop of the dispatcher: a fetch ends at the latest when its own timer aborts
it, and a sleep ends. `Spec` of `Console` is weakly fair to the continuation of
each request and to the insert of each log line. Strong fairness is not needed:
none of these steps is disabled again by another task, except by ending the
handler it belongs to. Since nothing recovers what a failure cut off, the
liveness properties of `relay` and `console` hold up to the first failure
(`~NoFailure`, `faults > 0`); the safety properties of the same runs hold with
failures.

## 4. The proofs

| Theorem | States |
|---|---|
| `StellarObserverProofs!TypeCorrect` | `Spec => []TypeOK` |
| `SettlementProofs!SettlementCorrect` | `Spec => []SettlementInv` |
| `SettlementProofs!SettlementsVerified` | `Spec => []VerifiedSettlement` |
| `SettlementProofs!FailuresVerified` | `Spec => []VerifiedFailure` |
| `SettlementProofs!ClaimsUnique` | `Spec => []NoDoubleClaim` |
| `SettlementProofs!TermsStayFrozen` | `Spec => TermsFrozen` |
| `SettlementProofs!VerdictSound` | what verifyByHash accepts has landed and fulfils the intent |
| `SettlementProofs!ScanSound` | what findMatchingPayment returns has landed and fulfils the intent |
| `RefinementProofs!Refines` | `Spec => ImplementsSettlement` |
| `LifecycleProofs!LifecycleCorrect` | `Spec => []LifecycleInv` |
| `LifecycleProofs!CreateIdempotent` | `Spec => []IdempotentCreate` |
| `LifecycleProofs!EventsToOwner` | `Spec => []OwnerScoped` |
| `LifecycleProofs!SourcesVerified` | `Spec => []SourcePaidIt` |
| `LifecycleProofs!ExpiryOnTime` | `Spec => []ExpiredOnTime` |
| `DispatcherProofs!TypeCorrect` | `Spec => []TypeOK` |
| `DispatcherProofs!DeliveriesTrue` | `Spec => []DeliveryInv` |
| `DispatcherProofs!SuccessAcknowledged` | `Spec => []AcknowledgedIsReal` |
| `DispatcherProofs!FailureRetried` | `Spec => []FailedWasRetried` |
| `DispatcherProofs!AttemptsReal` | `Spec => []NoInventedAttempts` |
| `DispatcherProofs!EventsStayHome` | `Spec => []OwnEventsOnly` |
| `DispatcherProofs!RetriesBudgeted` | `Spec => []RetryInv` |
| `DispatcherProofs!PostsBounded` | `Spec => []BoundedPosts` |
| `RelayProofs!RelayCorrect` | `RelaySpec => []RelayInv` |
| `RelayProofs!ToldTruthfully` | `RelaySpec => []ToldOfRealPayments` |
| `RelayProofs!PartsImplemented` | `RelaySpec => Spec /\ D!Spec` |
| `RelayProofs!DispatcherCarried` | `RelaySpec => [](D!DeliveryInv /\ D!BoundedPosts)` |
| `AnalyticsProofs!NoMoneyTwice` | `Spec => []SettledIsBacked` |
| `AnalyticsProofs!PayersKept` | `Spec => []PayersOnFile` |
| `AnalyticsProofs!NoMoneyLost` | `Spec => []PayersAddUp` |
| `ConsoleProofs!ConsoleCorrect` | `Spec => []ConsoleInv` |
| `ConsoleProofs!EntitledOnly` | `Spec => []ServedToEntitled` |
| `ConsoleProofs!NobodyLockedOut` | `Spec => []EntitledIsServed` |
| `ConsoleProofs!OneDelete` | `Spec => []RemovedOnce` |
| `ConsoleProofs!UpdatesKept` | `Spec => []NoUpdateLost` |
| `ConsoleProofs!OwnersChange` | `Spec => ChangedByOwner` |
| `ConsoleProofs!TypeCorrect` | `Spec => []TypeOK` |

They hold for any number of intents, requests, observers, transactions,
endpoints, events, products and failures, any batch size, scan limit, precision
and number of attempts. So every invariant and every action property that a run
checks is a theorem.

**What they assume.** `ServiceAssumption`, `ObserverAssumption`,
`DispatcherAssumption` (`RelayAssumption`, where it serves the service) and
`ConsoleAssumption` say that the constants have the
types that the DTOs, the schema and the configuration give them
(`NumberAssumption`: that a whole unit has smallest units at all); so do
`Validated`, which is what the validation pipe lets through of a body, and
`CleanShelf`, that products are stored under their assets' names.
`NativeIsAName` and `NullNoAnswer` keep strings and NULL apart, of which the
provers know nothing. `SecretConfigured` is what validateEnv
requires at boot. `LedgerAssumption` says of Horizon's answers that a
transaction has finitely many operations, that a payment has an amount and that
the native asset has no code. `GatewayForwards` is about the gateway: a request
with its secret and a user carries the headers that APISIX adds for its key, and
everything else lacks one of the two. TLC evaluates all of them on the runs of
their modules.

**What clients declare.** The code takes a client's word for the status and the
hash of its own intent, "SUCCEEDED" included, and such a row counts and is
announced like any other. No theorem restricts what clients may patch. Where it
matters the statement says what becomes of it: `SettledIsBacked` lets the
declared rows add to what the network has seen, `ToldOfRealPayments` lets the
owner of an intent be told what the owner declared, and both say that this
spoils nothing of what the service itself settles and tells.

**The invariant.** `VerifiedSettlement` is not inductive: when `MarkWrite`
writes SUCCEEDED, the verdict is held by a suspended task alone. `SettlementInv`
adds what such a task knows (`BeliefsHold`): a task in `markRead` or `markWrite`
holds a transaction that landed and fulfils the row *as it is now*, if the row
still exists; one in `markFailed` holds one that failed; one in `verify`, and
every row that a cycle has left to do, holds a reading whose terms are still
those of the row (`SnapshotFits`). This survives the writes of others because a
row's terms never change (`SameRequest`), an id is never used again
(`IdsCountUp`), and landed transactions stay. `TermsFrozen` for the source of a
TX intent rests on `TxPayerKnown`. `NoDoubleClaim` carries itself: it is the
unique constraint, re-established by each write that sets a hash.

The refinement needs two facts more (`RefinementInv`): a create handler still
holds terms that its caller asked for (`DraftsAsked`), and what an observer has
left to expire was overdue when it asked (`DueItems`).

`LifecycleInv` does for the other properties of an intent what `SettlementInv`
does for its settlement. A handler that still has to write or to emit works on
an intent of its own user (`ActsForOwner`). The payer it is about to record sent
a payment by the transaction it holds, and if it records none the row has one
already (`KnowsPayer`), since a source, once set, is never cleared. Memos name
one intent of a consumer (`MemosUnique`), which is the unique constraint again,
and every answer that was ever given still names what it named, or nothing. So
`IdempotentCreate` needs no check-then-insert to be atomic, and `OwnerScoped` no
second check before an event. `ExpiredOnTime` follows from `DueItems`. All of it
survives the steps of others because rows keep what was asked for, ids count up,
and what has landed or lapsed stays so.

`DeliveryInv` says that each retry loop is right when it writes: the attempts it
counted by itself, on from a copy that others may have overtaken, are at most
the requests made; its verdict is true; and its addressee belongs to the
event's consumer. It survives the writes of the others because an endpoint
keeps its owner, ids are not reused, and what was sent or acknowledged stays so.

`RetryInv` is why requests stay bounded although every loop counts its own. The
number of requests made for a delivery says little about those to come, so the
invariant counts both: `TriesLeft(d)` is the set of the tries that loops for `d`
still have, the loop that an unread event will start among them, and the requests
made plus these are at most a round for the event and one for every redeliver
request (`WithinBudget`). A request turns one try into one request; a new loop
is paid for by the redelivery it came from; and nothing is given back. `InTurn`
says that a loop that posts has a try left, and that the event's own loop is
begun once only.

`RelayInv` composes the two sides. An event that reports a settlement is true
when `MarkWrite` makes it, by `SettlementInv`, and it is addressed to the owner,
by `LifecycleInv` (`ReportTrue`). It stays true in the handler, on the bus and in
a retry loop, because the row keeps what was asked for or is gone, and the
transaction stays in the ledger. On the dispatcher's side each loop, record and
request is between an event and an endpoint of one consumer (`OwnPair`), as in
`DeliveryInv`; steps of the one side leave the other's variables alone.

What is proved of each part alone holds of the two together, because a behaviour
of the composition is one of the service (`ServicePart`) and one of the
dispatcher (`DispatcherPart`): an emit puts nothing on the bus that the listener
does not expect, and a crash of the process is a crash of both. `RelayProofs`
takes the dispatcher's theorems from an instance `DP` of `DispatcherProofs`;
`SameDispatcher` and `SameInvariants` say only that `D` and `DP` are instances of
the same definitions, and therefore expand all of them.

The dashboard's figures are sums, and a sum over a table cannot be handled by
induction here. `Analytics` therefore counts: a sum is the number of units in
the disjoint union of its terms. One sum bounds another if its terms can be
mapped one to one to terms at least as large (`SumMaps`), and the sizes of
disjoint sets add up to that of their union (`SumOfSizes`). A settled intent
names a transaction with a payment of its asset and amount (`VerifiedSettlement`),
and no other intent names it (`NoDoubleClaim`): that is the one-to-one map. The
rows of different consumers are disjoint, and so are those of different payers,
so that the lines of the customers page and the settled rows without a line add
up to the settled rows (`PageTotal`). Rounding by `Number` needs that a power of
two exceeds its exponent, which is the size of a powerset.

Why a settled row has a line is `PayersOnFile`, the inductive invariant of
`AnalyticsProofs`. An account is on file (`OnFile`) if it has a customer row, or
a task or job is about to make one, or the merchant took one away, or a failure
may have cost it. The first two are lost only for a later one or for the other
reasons (`FileNeverLost`): the emit of a settlement becomes a job, the job finds
or makes a row, and only the merchant removes rows. A task in `markRead` or
`markWrite` knows the payer it will file and records no other as the source, so
every settlement it writes is on file from that step on; a row whose source was
known before its settlement is a TX intent's, for which the statement allows
another payer, or was filed when its source was recorded.

`ConsoleInv` says that a suspended handler was let in for a reason (`Entitled`)
and that a product whose owner it has checked is still that owner's, or gone
(`CheckedOwner`), because ids count up and products do not change hands. So the
write by id alone is one on the caller's own product. `EntitledOnly` and
`NobodyLockedOut` rest on lemmas that say what the guards decide for each form
of the headers. The shape of the console's tables (`TypeOK`) needs `ConsoleInv`
and two counts: product ids are at most the rows to begin with and the requests
answered, and a request that was answered has no handler any more.

**The argument.** One lemma per action shows `SettlementInv'`. Most actions
write no row (`QuietStep`) or one row (`WriteStep`), and the two lemmas reduce
an action to what it does to `task` and `cycle` (`TasksFollow`, `ItemsFollow`).
`SettlementStep` splits `[Next]_vars`, and PTL closes the temporal theorems.
Type correctness comes first and is used throughout. The refinement, the
dispatcher and the console follow the same plan: what a step leaves alone keeps
the invariant (`InvariantStays` and its like), and one lemma per action shows
what it disturbs.

**Only model-checked.** Liveness, which needs fairness and ENABLED:
`ObserverAlwaysReturns`, `OverdueResolved`, `SettledIsNotified`,
`PayerBecomesCustomer`, `PaidIsResolved`, `SettlementReachesSubscriber`,
`DeliveriesResolved` and `EveryRequestAccounted`. And the three refutations,
which are counterexamples.

## 5. Plan

1. *Done:* all components that decide anything, their composition, the abstract
   book and the refinement, and a proof of every invariant and action property.
2. *Next, proofs:* what the liveness properties rest on and is itself safety: that
   the step a suspended handler, loop or cycle waits for can always be taken, and
   measures that each of them decreases.
3. *Then, the rest of analytics:* series and rates over time, once something is
   known that could go wrong in them beside formatting.

### Not modelled

Configuration, clients, bootstrap and OpenAPI are wiring, libraries or generated
documents without state of their own: what the models need of them stands in
constants and their assumptions. Within modelled components the texts, links,
codes, references, timestamps, percentages and chart series are left out, since
no decision depends on them.

## 6. Running

    tlc -workers 2 -config settle.cfg MCObserver.tla
    tlc -workers 2 -config webhooks.cfg MCWebhooks.tla
    tlc -workers 2 -config relay.cfg MCRelay.tla
    tlc -workers 2 -config console.cfg MCConsole.tla
    tlapm StellarObserverProofs.tla
    tlapm SettlementProofs.tla
    tlapm RefinementProofs.tla
    tlapm LifecycleProofs.tla
    tlapm DispatcherProofs.tla
    tlapm ConsoleProofs.tla
    tlapm RelayProofs.tla
    tlapm AnalyticsProofs.tla

The other configurations run the same way, `logged.cfg` with `MCConsole` and the
rest with `MCObserver`. The longest runs take two to three minutes, the proofs a
few minutes.
