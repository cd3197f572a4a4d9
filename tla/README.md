# A TLA+ model of the delivery service

The service (`src/src/delivery_service`) takes delivery orders over HTTP, moves
them through their life, lets couriers claim them and report positions, and tells
customers and other systems about it through an outbox. It runs as several API
processes over one PostgreSQL database, with Redis for live updates and Celery
workers for notifications; most stores also have an in-memory adapter for
development.

The modules here model the parts whose correctness depends on the order in which
things happen. TLC checks them on small instances; TLAPS proves the most important
invariants and three refinements for every value of the constants.

## The system and what is modelled

| Part | Source | Module | State of the model |
|---|---|---|---|
| Order rules | `domain.py`, `access.py` | `OrderDomain` | modelled |
| Order tables, whole commands | `ports.py`, `db.py` | `OrderBook` | modelled (abstract specification) |
| Order commands over PostgreSQL | `main.py`, `service.py`, `repository.py` | `PgOrders` | modelled |
| Refresh sessions, both adapters | `refresh_sessions.py`, `main.py` | `RefreshSessions`, `MemoryRefresh`, `PgRefresh` | modelled |
| Live tracking, both adapters | `tracking.py`, `main.py` | `LiveStreams`, `MemoryTracking`, `PgTracking` | modelled |
| Outbox relay, notification worker | `outbox.py`, `worker.py`, `notifications.py` | `EventDelivery` | modelled |
| Payment webhooks | `webhooks.py`, `outbox.py`, `main.py` | `WebhookInbox`, `PgWebhooks` | modelled |
| Routing adapter and circuit breaker | `retry_policy.py`, `integrations.py` | `CircuitBreaker`, `RouteLookup` | modelled |
| Login budgets | `policy.py` | `RateLimiter` | modelled |
| Signing in, registration, passwords | `main.py`, `identity.py`, `security.py` | `Login` | modelled; hashing and tokens as records |
| In-memory order repository | `repository.py`, `main.py` | `MemoryOrders` | modelled |
| Lifespan, telemetry, sessions of a handler | `main.py`, `db.py`, `observability.py` | `ApiProcess`, `ConnectionPool` | modelled; logs and traces are not |
| Proof upload and download | `storage.py`, `main.py` | `ProofStorage`, `ApiProcess` | modelled |
| Zone cache, Redis lease | `cache.py` | `ZoneCache`, `RedisLease` | modelled; no production caller |
| Serializable retry | `transactions.py` | `Serializable` | modelled; no production caller |
| Order preview, bounded gather, audit trail, CSRF, configuration, migrations | | | not modelled, see the end |

`PROJECT.json` has the complete list with reasons, the map from definitions to
source lines, and the hazards the properties aim at.

How the parts interact: an order command writes its outbox row in the transaction
that changes the order (`PgOrders`); the relay publishes committed rows and a worker
turns `order.created` into a notification (`EventDelivery`). Positions are recorded
by a transaction of their own and reach clients over Redis (`PgTracking`). Webhooks
claim an id and write an outbox row in one transaction (`PgWebhooks`). The outbox is
the only thing these parts share, and each module has its own view of it. Inside one
process all requests share the connection pool, the metrics, the proof objects and
the lifespan that opens and closes what they use (`ApiProcess` composes the four),
and both logins share the budgets with each other (`Login` extends `RateLimiter`). A
route lookup uses the circuit breaker (`RouteLookup` extends `CircuitBreaker`).

## How the modules correspond to the code

**A request is a transaction.** In every `Pg*` module a request has a `phase`, what
it has read, and an uncommitted write set; one action is one statement together with
the Python code up to the next one. A session dependency commits after the response
has been sent and its background tasks have run, and rolls back on any exception,
so `Respond` precedes `Commit`, and an `HTTPException` ends in `Rollback`. Isolation
is READ COMMITTED: a statement sees what is committed when it runs. A row lock is a
pending write to the row; a unique key held by another open transaction is waited
for. `Abort` is a crash or a cancelled request, at any point, and a lost connection as
far as PostgreSQL is concerned: locks and writes are gone. The handler itself learns of
a lost connection with its next statement, or COMMIT, only. What it can do until then is
modelled where it shows: it can still run its background task (`LoseConnection`,
`PublishLost` of `PgTracking`), publish the rest of a batch or call the provider
(`RelayLosesConnection`, `PublishAdrift`, `JobLosesConnection`, `SendAdrift` of
`EventDelivery`). Elsewhere it can only still send an answer whose COMMIT will fail;
what is said of a request that has answered (`RetryReturnsSameOrder`,
`ReportedCourierIsAssigned`) is said as long as its transaction is open.

**Orders.** `OrderDomain` has the pure rules: `allows`, `create`, `update_details`,
`transition`, `assign`, `can_access_order`. `OrderBook` has the five tables
(`orders`, `assignments`, `history`, `outbox`, `idempotency`) and changes them by
whole commands. `PgOrders` has create (`LockScope`, `LookupRecord`, `InsertOrder`),
read and write commands (`ReadOrder`, `ReadAssignments`, `SaveOrder`,
`LinkAssignment`) and claim (`PickOrder`, `FlushClaim`). History and outbox inserts
are part of the invisible write set of the save they follow. The second read of an
order within a handler returns the same attributes (identity map), so there is one.

**Refresh sessions.** `RefreshSessions` has the rows and what a family of tokens
promises. `MemoryRefresh` does every method in one step under its lock. `PgRefresh`
locks the presented row, and a reuse updates the family row by row, each after
waiting for its lock; `DeadlockDetected` is PostgreSQL's detector.

**Tracking.** `LiveStreams` is `TrackingHub` with its bounded queues and the SSE and
WebSocket handlers. `PgTracking` adds the upsert, the outbox row, the background
task and a Redis channel that may break; a message on it knows whether its sender still
had its transaction, which only the properties read. No WebSocket is live there, because the
handler asks the in-memory repository and closes with 4404. `MemoryTracking` is the
development mode.

**Event delivery.** `SelectBatch`, `PublishNext`, `CommitBatch` and `RelayFails` are
`publish_pending_outbox`, in the current image and in the previous one, which knows
only `processed_at`; `adrift` has the rows that a relay without a transaction still
means to publish. `Deliver` to `Ack` are the notification job with late
acknowledgement. Broker, provider and the scheduler of the relay are external.

**Webhooks.** One action per statement of `accept_payment_webhook_once`.

**Route lookups.** One action per method of `CircuitBreaker`; a `RouteLookup` holds one
permit from `Begin` to its report, and `Retry` is one more request in between. `Unlisted`
is an exception that no clause of `estimate` names, after which nothing is reported.

**Signing in.** `RateLimiter` is `check_many` with a clock. `Login` cuts the handlers of
both logins and of the registration where they await the database: `Attempt`, `Lookup`,
`Rehash`, `Issue`, and `Register`, `Insert`; `Commit` follows the answer, and `Fail` may
take its place at any point.

**The process.** `ApiProcess` is one API process. A request passes the middleware
(`Arrive` to `Complete`), opens its sessions in the order of the handler's parameters,
and leaves them in reverse after its response, or before it when it raises.
`ConnectionPool` says when a session gets its connection: with its first statement.
`ProofStorage` has inspection, objects, rows and links. `Start` to `Close` is
`lifespan`; that the server lets requests finish first (`Drained`) is the server's.

**In-memory orders.** In `MemoryOrders` a command is one step from handler to return,
since nothing it awaits suspends.

**Cache, lease, serializable retry.** A `get` of `ZoneCache` is cut at its awaits and any
operation of the cache may fail. `RedisLease` has a holder that may be paused beyond its
lease. `Serializable` runs a read-modify-write again as `run_serializable` does. Any
transaction may be refused with a serialization failure or as the victim of a deadlock,
one that lost to nobody too, and the connection may be lost at any point, before or after
COMMIT has done its work.

What the data is abstracted to:

- one tenant; an order has an id, customer, two addresses, status, version; weight
  is left out; addresses are compared as the code compares them, case folded;
- the fingerprint of a payload is the payload; a stored response is the order it
  shows; `uuid4` yields an unused identifier; identifiers are in order of creation;
- a refresh family is named by its first token; tokens are signed, so claimed and
  stored family agree;
- an event id stands for the position it carries; all streams watch one order;
- at most `MaxCopies` copies of a message wait in the queue; the provider honours its
  idempotency key; preferences are edited by somebody else;
- webhooks refused before any statement (413, 401, 415, 422) are left out;
- the breaker's clock is never / recently / long ago, and its count stops at the
  threshold, which is all it is compared with;
- moments of the limiter are ages that stop at the window, so a deque is popped from the
  left while its head is as old as that; its clock never steps back;
- a password hash is the password, its parameters (old or current) and whose salt;
- one order has proofs; a body stands for its digest, and so for its key; a link that
  is redeemed was issued (signatures are not forged);
- `get_order` stands for all handlers with one session; a stored response of the
  in-memory repository is the order it shows.

## What the runs check

`tlc -config X.cfg M`; distinct states in brackets.

| Run | Module, configuration | Shows |
|---|---|---|
| `orders_life` | `MCOrders`, `MCOrdersLife` (300k) | The life of an order in the hands of two requests. The tables agree: idempotency records and orders in bijection, the audit trail an unbroken chain, one event per row of it, exclusive assignments, addresses that differ. A retry gets the first order and never a unique-key error, and every commit is one command of `OrderBook`. |
| `orders_assign` | `MCOrders`, `MCOrdersAssign` (124k) | Claims, direct assignments, cancellations and reads of two orders. The tables agree, a reported courier is an assigned one, the inductive invariant holds, every request ends. |
| `orders_busy` | `MCOrders`, `MCOrdersBusy` | Violated: see below. |
| `refresh_pg` | `MCRefresh` (30k) | Sessions of a family are an unbroken line of which only the end is good, no row is written from a stale read (`IInv`), and deadlocked reuses end. |
| `refresh_reuse` | `MCRefresh`, `MCRefreshReuse` | Violated: see below. |
| `tracking_pg` | `MCTracking` (1.0M) | Sequence numbers without gap or repetition and an event id recorded once over all orders (`IInv`), messages of requests that have their transaction published in order, SSE numbers only advance on a connection, the newest event survives a full queue. |
| `memory` | `MCMemory` (731k) | The in-memory adapters. The events of an order tell its status and no courier is on two orders (`OrdersAgree`); all answers to one key are the same although the order changes; a family of tokens is a line that a reuse revokes; the WebSocket, which subscribes first, misses nothing; the outbox tells the whole trail. |
| `delivery` | `EventDelivery` (304k) | No row marked that the broker has not confirmed and one job with the claim of an event (`IInv`), none published by either image after a commit by the other in a batch that can still commit, a marked event is not forgotten, every row settles. |
| `webhooks` | `MCWebhooks` (14k) | The inductive invariant (`WebhooksFit`): an id is claimed exactly when its work is stored, and a 202 was given only for the stored body; the transaction implements the in-memory inbox. |
| `blocks` | `MCBlocks` (13k) | Route lookups: the breaker's inductive invariant (one probe at a time, a booking has a holder, an open circuit knows since when), the circuit opens on whole failed lookups and not on retries, and it recovers. A serializable call that returns has taken effect once, one that raises a conflict not at all, and no effect is lost. Stale cache entries heal. A live lease is kept. |
| `login` | `MCLogin` (900k) | No window holds more than `limit` grants, a refusal means a full budget, `Retry-After` is long enough and not a second too long. A password that was accepted stays the password (`IInv`), and a hash changes at most once, to the new parameters. |
| `api` | `MCApi` (104k) | Connections come back and handlers have what `lifespan` opened (`IInv`); a proof row has its object until a restart; metrics say what clients got; a link lives as long as it says; every request ends although sessions wait for connections while they hold some. |

`MCMemory` and `MCBlocks` put modules that share nothing side by side: a behaviour is a
behaviour of one of them, chosen at the start.

### Bounds

- Orders: two concurrent requests, because each conflict (lock, version, unique key)
  is between two; two orders and couriers for exclusive assignments; three addresses,
  so that two edits, valid one by one, can meet; versions 1 to 4 for the whole life.
  The proofs cover any number of each.
- Refresh: five tokens, three of them a family rotated twice in `refresh_pg`: the
  least for two reuses that lock each other's rows. Identifiers then run out, so
  deadlock is not checked there; `refresh_reuse` starts from an empty table.
- Tracking: two orders, two event ids (one can be reused for the other order), two
  requests, a channel of two messages, a queue of one so that it overflows; in memory
  a queue of two and three sequence numbers, so that an id can come back.
- Delivery: one supported and one unsupported event, a batch of both, a relay of each
  image, two workers, a copy waiting besides the ones they hold, one job that fails; the
  relay of the current image and one worker may lose their connections (`Fragile`).
  The batch limit never cuts: it only makes batches shorter.
- Webhooks: three deliveries, so that one commits while two wait; two ids, two bodies.
- In-memory orders: two orders of one customer, two keys, one courier, versions 1 to 4.
- Route lookups: three callers (a probe and two stale reports), threshold two, three
  attempts; serializable: three calls of three attempts, so that one can lose to both
  others, and all attempts of one can be refused; zone cache: two readers and three versions, so that one stores what the other
  has seen replaced; lease: two workers. Calls and leases are not fair and may all end,
  so deadlock is not checked there.
- Login: two handlers, both doors, two subjects of which one may have an old hash, limit
  two, a window of a second and a half in half-second ticks, so that slots are not whole
  seconds old.
- API process: two requests over two connections, which is how each holds one and waits
  for another; an image, a body that is none and one that is too large; a link of three
  seconds issued and redeemed at every half-second of six.

Symmetry is used over requests (`orders_life`), requests and event ids (`tracking_pg`),
handlers (`login`) and deliveries (`webhooks`), which the modules never
tell apart, and never with liveness. `tracking_pg` has a view that leaves out what no
guard and no property of the run reads any more: `answered`, which only a sentence
refuted below reads, what a stream has read or seen that has opened or closed since, the
sender of the first message on the channel, and of what a stream has shown all but the
last number.

### Fairness

- `EveryRequestEnds`: strong fairness of each request's next step. PostgreSQL serves
  lock queues in order, so a request that can get on again and again does. `Start` and
  `Abort` have no fairness.
- `EveryEventSettles`: weak fairness of the relays taken together and of the workers taken
  together (some relay, some worker that can go on does), and the assumption that
  batches stop failing and workers stop dying in the end; until then both may happen
  any number of times. A relay that is never started again, or a broker that is down
  for ever, publishes nothing, so some such assumption is needed.
- `EveryRequestEnds` of `ApiProcess`: weak fairness of every request's next step. The
  event loop runs every task, and `pool_timeout` is the step of one whose pool is full.
  When clients come, close their streams, and when the process stops is left open.
- `LookupRecovers`: lookups keep coming and end (each has a total timeout), time passes,
  and a healthy provider does not have every probe cancelled or timed out.
- `StaleHeals`: time passes, gets keep coming, the loader answers now and then. Nothing
  is assumed of the cache: it may fail every operation.

### Where the code and its documents disagree

Two runs keep a counterexample:

- `orders_busy`: nothing in the code ever clears `courier_assignment.active`. Once an
  order of theirs is cancelled or delivered, a courier is still refused as busy. The
  in-memory repository decides by the status of the order.
- `refresh_reuse`: a reuse revokes the family and is answered by an `HTTPException`,
  which rolls the revocation back; the active token stays good. The tests use the
  in-memory adapter, or call the repository without the handler.

The modules state ten more sentences of the documents that TLC refutes when they
replace the properties of the configuration named; they have no run of their own:

| Property (configuration) | Sentence and behaviour |
|---|---|
| `AssignedHasCourier` (`MCOrdersLife`) | `presentation.py:10` "Назначен курьер"; a dispatcher's transition reaches `assigned` without a courier (`main.py:809`). |
| `AcceptedKeyIsStorable` (`MCOrdersLife`) | `main.py:694-695` allows 128 characters; the scope adds 87 and its column holds 200 (`service.py:39`, `db.py:140`). |
| `AnsweredOrderIsThere` (`MCOrdersLife`) | `scripts/acceptance_smoke.py:97-105` patches right after the 201, which is sent before COMMIT (`main.py:252`). |
| `NoUpdateFallsIntoGap` (`MCTracking`) | `tracking.py:249` "so an update cannot fall into a gap"; the snapshot is read earlier, in the handler (`main.py:1011`). |
| `ShownIsConfirmed` (`MCTracking`) | `db.py:211` "Latest confirmed courier position; live connections are only a projection"; clients are told before COMMIT (`main.py:1128`). |
| `AnsweredIsRecorded` (`MCTracking`) | `main.py:1087` "PostgreSQL snapshot remains authoritative"; a failing publish rolls back what was answered 201 (`main.py:1064`). |
| `NoQueueIsLeft` (`MCMemory`) | `tests/test_tracking_streams.py:69` no subscriber is left; a client lost before the `try` leaves its queue (`main.py:1160`). |
| `EventIsRecordedOnce` (`MCMemory`) | `tracking.py:78` "the same idempotency contract as PostgreSQL"; only the latest id is compared (`tracking.py:99`). |
| `OneFailureIsRetried` (`EventDelivery`) | `worker.py:48` "may succeed when attempted later"; nothing raises the one exception that is retried (`worker.py:95`). |
| `SkippedWasNotSent` (`EventDelivery`) | `notifications.py:69` "record one provider result in one transaction"; a worker lost after the provider call and a preference changed meanwhile (`notifications.py:104`). |

What the models make visible without a document that says otherwise:

- a budget is spent by attempts that are let through, also failing ones, and each login
  has budgets of its own: a subject has `limit` attempts at either door;
- the success of a lookup begun before the circuit opened closes it while a probe is
  out; the report of that probe may then open a circuit no other lookup has failed on
  (the second case of `OpensOnWholeLookups`);
- an upload asks for the longest link there is, so a process whose clock is a second
  behind the one that issued it refuses a new link (`LinkLivesItsTtl`);
- a call of `run_serializable` that raises a lost connection may have taken effect;
- a position whose transaction was rolled back with its connection is published after
  positions with the same and with higher numbers (`PublishLost`); an SSE client
  that has been sent a number as high drops it;
- a relay that lost its connection in the middle of a batch publishes rows that another
  relay has published and marked (`PublishAdrift`), and a job that lost its claim calls
  the provider besides the job that has it now (`SendAdrift`): the inbox key and the
  provider's idempotency key absorb both;
- a mixture of two reads, a created order with a courier, may be reported by a
  get; the write commands never report it (`ReportedCourierIsAssigned`);
- a probe that ends in an exception no clause of `estimate` names keeps its booking
  (`Unlisted`), and the circuit stays half open unless an earlier lookup still reports a
  success; `LookupRecovers` is about behaviours without one;
- a second upload of a proof that is stored is answered 500: the unique digest is hit
  and nothing catches it (`Insert` of `ApiProcess`).

## What is proved

Eight modules hold theorems, for all values of the constants; the assumptions are only
the shapes of the constants (`None` is no row, order ids are numbers, keys have 8 to
128 characters, thresholds, attempts and times to live are positive, forms name known
subjects, a login's budgets are budgets, calls are finitely many, a client is connected
to one of the two stream endpoints), and TLC evaluates each.

- `PgOrdersProofs`, first about `OrderBook`: type correctness, `HistoryChain`,
  `OutboxMatchesHistory`, `AssignmentsExclusive`, `IdempotencyBijective`,
  and with `AddressesDiffer` together `TablesAgree`. Each is inductive with the ones proved
  before it; the chain needs that a command advances the version, so that its audit row is the
  last one. Then about PostgreSQL: `IInv`, and from it that the transactions implement `OrderBook`
  (`PgImplementsOrderBook`), hence `TablesAgree` for PostgreSQL (`PgTablesAgree`), and
  that a retry never hits a unique key. None of these is inductive: what an open request
  will do at COMMIT depends on what it has read. `IInv` says that what a request has read
  was committed and is still current if the version is (`ReadFits`), that its write set is
  a whole command on the tables as they are now (`WriteFits`), that a lookup which found
  nothing is not out of date (`LookupFits`), and that no two requests hold the same
  row, courier or scope (`Disjoint`). There is one lemma per action; `CommitKeeps` is
  the hard one, since it changes the tables under all others.
  `PgRetryReturnsSameOrder` needs besides that records are never changed or removed.
  `PgReportedCourierIsAssigned` needs `CouriersFit`: the courier a request has read is
  right as long as the version is, and what it is about to insert has no rival.
- `PgRefreshProofs`: `IInv`, `LineIsUnbroken` and `WrittenRowsAreCurrent`, whatever the
  number of requests, tokens and families. The line is not inductive, since a request
  rotates a row it has read some steps ago. `IInv` adds that tokens under way and locked
  rows belong to one request (`Exclusive`), and what a request has written in each of its
  phases: nothing, a spent session with its successor, or revocations of rows it has
  locked (`RequestOK`). `CommitKeeps` and `CommitKeepsLine` are the hard steps.
- `PgTrackingProofs`: `IInv`, `PublishedInOrder`, `SseOnlyAdvances` and `NewestIsKept`,
  for any number of orders, events, requests and streams and any queue. `IInv` adds that a
  request past its upsert alone has the row of its order and the next number
  (`RequestsFit`), as long as it has its transaction; that what is on the channel is at
  most one number ahead of the row and nothing higher is before the message of a request
  that had its transaction (`BusFits`); and that
  an SSE stream has shown nothing above its floor (`StreamsFit`). The rows and the streams
  have invariants of their own, and every action keeps both.
- `EventDeliveryProofs`: `IInv`, `NeverPublishedAgain` and `MarkedIsNotForgotten`, for any
  number of relays of either image, workers and events. `IInv` adds that relays have
  disjoint batches of rows that neither image has marked and that the broker has confirmed
  what they have sent (`RelaysFit`, which is what row locks and `SKIP LOCKED` give; of a
  relay that is adrift only that its rows are committed ones), and what a job knows in
  each phase (`JobsFit`).
- `LoginProofs`: `IInv`, `AnswersStayTrue`, `HashOnlyImproves`. An answer is given before
  its transaction commits, so neither is inductive; `HandlerOK` adds that what a handler
  has read is the identity's password still, and that what it has written it alone has
  written, over no row or over the old hash of the same password.
  `LoginBudgetsAreExact` is about the limiter: with `LimiterFits`, every deque ends with
  the slots granted in the window, oldest first, behind slots that are to be given back,
  so its length after popping is what the window holds. Whoever was refused finds no slot
  younger than the refusal, and the oldest slot of a full budget is given back when
  `Retry-After` is over. The lemmas under it say what popping from the left does to an
  ordered deque, that a least element of a set of naturals exists, and how rounding up to
  seconds bounds the wait.
- `BlocksProofs`, about the modules that `MCBlocks` puts together: `IInv`, `SingleProbe`,
  `ClosedIsBelowThreshold` of the breaker, whose strengthening is that a probe permit out
  means `probe_in_flight`. A lookup with retries implements the breaker's specification
  (`LookupImplementsBreaker`), so it inherits all of that (`LookupInvariant`).
  `LookupOpensOnWholeLookups` needs one more fact: the breaker's count is the number of
  lookups that have failed in a row. `LeaseIsAlwaysKept` needs that a lease which has not
  run its time is as old as the key (`LeaseFits`); `CallsTakeEffectOnce` that a call which
  is still running has had no effect (`CallsFit`). About `MCWebhooks`, which the same
  module extends: `WebhooksFit`, which is `IInv` of `PgWebhooks`, `ClaimedHasWork`,
  `AcknowledgedIsStored`, `ImplementsInbox`. The strengthening is that a claim under way
  is exclusive and its id is not in the inbox yet.
- `ApiProofs`: `IInv`, with it `ConnectionsComeBack`, `HandlersHaveTheirResources`,
  `RowsHaveTheirObject` and `MetricsTellTheTruth`, for any number of requests and any size
  of the pool. Alone none of the four survives a step. `IInv` adds that requests run only
  while the process serves or drains and then everything is open (`LifespanFits`); that
  an upload on its way to its row has stored the object, of the type its bytes say, and
  writes in the session that is left first (`ProofsFit`), so that its COMMIT finds the
  object there; that the middleware's status is 500 until a
  response starts and is the one sent from then on (`TelemetryFits`); and that connections
  and running requests are finitely many (`CountsFit`), without which taking one would not
  move the counts. `LinkLivesItsTtl` is arithmetic of `issue_get` and `verify_get`: end and
  moment of use both lose their fraction of a second, whatever the clock's resolution.
- `MemoryProofs`, about the three adapters that `MCMemory` puts side by side, each with an
  inductive invariant of its own. `FamiliesAreSafe` needs that a family is named by a
  registered token (`FamiliesFit`), so a new login finds its family empty. `OrdersAgree`
  needs that a created order has no courier and that no event is ahead of its row
  (`OrdersFit`), so an appended event has the highest version of its order.
  `OneAnswerPerKey` needs that every answer is the response of a stored record
  (`AnswersFit`). `OutboxIsTheTrail` is inductive with its types (`TrailFit`).
  `WsMissesNothing` needs what holds between subscribing and following (`HubFit`): the
  stored position is in the loaded snapshot, in the queue, has been sent or waits in a
  background task, unless the queue has overflown, and exactly the connections past
  subscribing have a queue.

`LimiterFits`, `LeaseFits`, `CallsFit`, `CouriersFit` and the five invariants of
`MemoryProofs` are proved and are in no configuration; TLC finds no error when they stand
beside the properties of `MCLogin`, `MCBlocks`, `MCOrdersAssign` and `MCMemory`.

Every invariant, action property and refinement of a passing run is proved. Only
model-checked are the liveness properties, since fairness and ENABLED are out of the
prover's reach: `EveryRequestEnds` of the orders, the refresh sessions and the API process,
`EveryEventSettles`, `LookupRecovers`, and `StaleHeals`, which is all that is said of the
zone cache.

## Not modelled

- Cryptography and encoding: password hashing, JWTs, CSRF comparison, webhook and link
  signatures. They have no state; the models take what they promise.
- The audit trail is a bounded list that is appended to and that nothing decides by.
- The in-memory identity repository does what `Login` does in one step per method.
- The order preview is a dictionary that only tests read.
- `gather_bounded`, the thread limiter and the concurrency laboratory: their guarantees
  are those of asyncio's `TaskGroup` and `Semaphore`.
- `consume_order_created_once` has no caller and has the claim of the notification
  worker.
- Logging, tracing and redaction; the SLO counters, which are incremented next to the
  request counter with the same status.
- Listing, export and pages are reads of committed rows; configuration, presentation,
  release and load tools have no shared state; migrations are one-off DDL.
