# colibri-sdk-go: a TLA+ verification project

colibri-sdk-go is a Go SDK for services: configuration, monitoring, a graceful
shutdown, messaging over RabbitMQ, SQS and Pub/Sub, an HTTP server and client, SQL
and cache access, object storage and dependency injection.  Its hardest part is the
graceful shutdown, the work it drains and the messaging module with its providers;
around it stand parts that wrap a library and are hard in one respect each, such as a
cache filled from a transaction or a breaker told of the wrong outcome.  This
directory models both.

## 1. The system

| Component | State | Operations | Hard behaviour |
|---|---|---|---|
| running work, `pkg/base/observer/single_wait_group.go` | two counters, two shared channels, the deprecated WaitGroup | `AddRunning`/`DoneRunning`, `AddModuleTask`/`DoneModuleTask`, `GetWaitGroup`, `WaitRunningTimeout` | lost wakeups, a channel closed twice, unbalanced `Done`, two waits under one deadline |
| shutdown pipeline, `subject.go`, `observer.go` | the service, its observers | `Initialize`, `Attach`, `Notify`, the signal goroutine, `notify` | two pipelines at once, the barrier between the phases, late attaches |
| messaging module and consumers, `messaging.go`, `consumer.go` | `instance`, `moduleCtx`, `moduleClosing`, `moduleClosed`, `consumers`; per consumer `done` and its WaitGroup | `Initialize`, `newConsumer`, `listen`, `Consumer.Close`, the observer's `Stop` and `Close` | creations that span a shutdown, a module opened again, a broker closed under a handler |
| RabbitMQ provider, `rabbitmq.go` | connection, channel, `subs`, `closing` | `consumer`, `producer`, `reconnect`, `watchClose`, `processMessages`, `close` | lost connections and channels, redelivery, subscriptions revived or doubled, a dial racing with the close |
| SQS and Pub/Sub providers, `aws.go`, `gcp.go` | none beyond the client | poll or receive, delete, release, nack | a message received as the consumer closes, visibility timeouts, malformed messages |
| producers, `producer.go`, `test_producer.go` | two buffered channels per execution | `Publish`, `TestProducer.Execute` | a handler that blocks on a full channel while `Close` waits for it |
| HTTP server, `pkg/web/restserver` | `srv`, routes | `ListenAndServe`, middlewares, `restObserver.Close` | requests in flight while the database closes, panics, a stuck request |
| HTTP client, `pkg/web/restclient` | a circuit breaker, cached responses | `Call`, `execute` | what counts as a failure, what is cached |
| SQL, `pkg/database/sqlDB`; cache, `pkg/database/cacheDB` | the instances, the pool, the cached results | queries, cached queries, page queries, statements, transactions; get, set, del | a stale or uncommitted result cached, a commit that fails, a connection kept |
| dependency injection, `pkg/di` | the bean map and its order | `AddDependencies`, `AddGlobalDependencies`, `StartApp` | global beans built once, ambiguity, variadic constructors, cycles |
| monitoring, `pkg/base/monitoring`, `messaging/metrics.go` | the instance, its meter provider, collectors and callbacks | `Initialize`, `Close`, `ObservableGauge`, `initMetrics`, `releaseMetrics`, SQL span attributes | lock order with a collection, a callback left registered, a keyword of a subquery taken for the statement's |
| storage, cloud, logging, types, validator, transaction, test support, tools | little or none | conversions and wrappers | left to unit tests |

How they meet: every module with something to release attaches an observer to the
service.  A termination signal, or `Notify`, runs the pipeline: stop every `Stopper`,
drain the running work once, close every observer in the order it was attached.  A
messaging listener holds a module task from `activateConsumer` to the end of
`listen`, so the drain waits for it; it stops because `Stop` of the messaging
observer closes its `done` channel; and the provider is released by `Close`, after
the drain, because handlers publish and acknowledge through it.  The RabbitMQ
provider runs a goroutine per subscription and one per connection underneath.  An HTTP
request is not running work unless its handler says so, and the server, which attaches
last, closes after the database its handlers use.

What makes the parts correct: a drain reports success only when nothing counted
runs, and never hangs; nothing is closed before every Stopper was stopped and the
drain is over; whoever attached is closed; no listener outlives the stop signal; no
provider is closed under a handler or twice; no creation is left half done; a
delivery is settled once, by its holder, and deleted only when handled; no connection
is left open; live consumers are served again after the broker comes back; a
transaction keeps neither its connection nor the truth; the cache is stale only through
the races its documentation leaves to the application; a breaker opens on failures only.

## 2. The modules

| Module | Models | State and actions |
|---|---|---|
| `RunningWork` | `single_wait_group.go` | The counters, the channels (numbered as they are made; `closed` holds the closed ones), the units of work between their Add and their Done, and every call of `WaitRunningTimeout` with its deadline and its parked goroutine.  A function that holds `runningMu` for its whole body is one action; the selects are actions of their own. |
| `Drain` | what a drain promises | Work registers and finishes; a drain sees the counted work empty, then the deprecated WaitGroup, then reports; or it gives up. |
| `RunningWorkRefinement` | `RunningWork` implements `Drain` | `SeenBy` reads the abstract phase off the drain's place and channels. |
| `Shutdown` | `subject.go`, over `RunningWork` | A pipeline per `Initialize` goroutine and per call of `Notify`, each with its snapshot and its position.  `Gate` says which Stopper keeps a unit of work from registering once stopped: the contract a `Stopper` is documented to have. |
| `Messaging` | `messaging.go`, `consumer.go`, over `Shutdown` | A consumer is a module task of `RunningWork`; an opening of the module is named by the observer it attaches, and so are its provider and context.  Every critical section of `moduleMu` is one action, the broker call of `newConsumer` is another, and the steps of `Stop` and `Close` interleave with everything.  The provider is abstract: it delivers into a channel of capacity 1 and stops on the consumer's `done`, the module context or its own close. |
| `RabbitMQ` | `rabbitmq.go` | Connections numbered in the order they are dialled; the broker is external and keeps a message ready, unacked by a subscription, acked or dead.  A section under `mu` is one action, except the re-subscription, which holds `mu` while it talks to the broker (`MuFree`).  A publish is read by the broker after it was sent, maybe after its publisher gave up: the broker stores it, or returns it as unroutable and confirms it all the same, or refuses it; on a channel that is not in confirm mode `producer` returns nil at once.  A handler ends in one step and its listener settles in another. |
| `WebService` | `colibri.go`, `config.Load`, the opening of the database, `restserver`, over `Shutdown` | `boot` is the goroutine of `main`; a request goes through the middlewares in their order (`place`), and one whose handler counts itself is an application unit of `RunningWork`.  The service authenticates by default, and then refuses a request to an authenticated route without a tenant and a user, or by a middleware of its own, which decides for every route and whose context nobody checks.  `EndServerClose` is the close of the server inside the pipeline: fiber's shutdown ends when no request is left, or after its ten seconds. |
| `Delivery` | `aws.go`, `gcp.go`, `producer.go`, `provider_message.go`, `test_producer.go` | One queue; a message is in the queue, in flight, deleted or dead-lettered.  Each consumer has its poll, its channel of one and its listener, which acknowledges or rejects in a step after the one in which its handler ended.  The broker is external, and `provider` says which of the two it is. |
| `Queue` | what a queue of a provider promises | A message is published, delivered and given back any number of times.  `Handle` records that a handler processed it, and `Delete`, a later step, may take only what was handled, on this delivery or an earlier one; otherwise a message leaves for the dead letters.  `Delivery` and `RabbitMQ` implement it (`DeliversAtLeastOnce` of each). |
| `DataAccess` | `query.go`, `page_query.go`, `statement.go`, `sql_transaction.go`, `cache.go` | Clients over one row: a write gives it a version, so that a result says which write it saw.  The pool, the row lock, repeatable reads and Postgres's refusal after a failed statement are external.  A cached query is lookup, fetch, read, fill. |
| `RestClient` | `request.go`, `client.go`, `response_data.go` | Calls through the cache, the attempts and the breaker; `Outcomes` are the ways an execution ends, the panic on a request that could not be built among them (`request.go:254`).  `inRow` counts the executions without a success since the last one, whatever the breaker was told. |
| `Container` | `pkg/di` | The recursion of `getDependencyConstructorArgs` as a stack of frames, with the copies of the beans it holds.  The application is chosen initially: the parameters of each function, the types a constructor provides (its own and the interfaces it implements), and the tags of the struct each function returns, which are those that disambiguate its parameters. |
| `Telemetry` | `monitoring.Initialize`, the meter provider, `metrics.go` | Openings of the messaging module install and release their in-flight callback while collections run.  `pipeline` and `moduleMu` are the locks involved: the sections of `resetModuleState`, `setInstance`, `beginClose` and of the consumers take `moduleMu` in one step and give it back in another, so a collection may wait for any of them. |
| `SqlSpan` | `sql_attributes.go` | `tokenizeSQL` and `parseSQL` as operators over lexemes, of which what opens and closes a comment or a literal is one; `TokenStep` scans from one to the other.  Statements come from a small grammar that says what they act on, which is the reference the parser is checked against. |
| `MCShutdown`, `MCMessaging`, `MCWebService`, `MCParts`, `MCLiveness` | values of the constants for TLC | `MCParts` checks the parts that share no state in one run, one part at a time, chosen initially.  `MCLiveness` does the same with `Messaging` and `RabbitMQ`. |
| `RunningWorkProofs`, `ShutdownProofs`, `MessagingProofs`, `WebServiceProofs`, `RabbitMQProofs`, `DeliveryProofs`, `DataAccessProofs`, `PartsProofs` | theorems | Section 5. `PartsProofs` is about `Container`, `RestClient` and `Telemetry`. |

What is abstracted: message contents (a message is malformed or not), logging,
metric values, header metadata, rows beyond the version they hold, and the lengths of
delays.  A time bound is an action that may fire at any moment after it was armed.  Three guards are
assumptions about the application and not conditions of the code: `messaging.Initialize` is
called once at a time and not while a shutdown is under way (`InitializeModule`; a shutdown may
begin before it returns), `monitoring.Initialize` is not called twice at once, and a test that
runs `TestProducer.Execute` does not shut the module down inside it (`CancelModule`).  An
operator whose comment describes a defect, such as `SignalIdleOnEqual`, is a mutation of
the definition that follows it; no specification uses it, and each shows that a property
notices it.

## 3. The runs

| Run | Module, configuration | What it shows |
|---|---|---|
| `running_work` | `RunningWorkRefinement`, `MCRunningWork.cfg` | two drains, one application waiter, two application units, one module task, one legacy unit: no channel is closed twice, the drains keep the contract of `Drain`, and they return |
| `unbalanced_done` | `RunningWork`, `MCUnbalancedDone.cfg` | two `Done` calls without an `Add` lose no wakeup, and a wait for the application work ignores module tasks |
| `shutdown` | `MCShutdown`, `MCShutdown.cfg` | a signal pipeline and a `Notify` pipeline over two observers and gated work of the three kinds: nothing is closed before some pipeline stopped what it took and ended its drain; nothing gated runs once a drain reported success; every observer attached when a shutdown begins is closed in the end |
| `messaging_shutdown` | `MCMessaging`, `MCMessagingShutdown.cfg` | a consumer through two overlapping pipelines: neither the broker nor what is attached beside it closes under a handler unless a drain gave up, and the broker is released once |
| `messaging_reopen` | `MCMessaging`, `MCMessagingReopen.cfg` | two openings and two pipelines: once the module closes, no listener is left that nobody will stop; failures and closes leave nothing behind |
| `liveness` | `MCLiveness`, `MCLiveness.cfg` | a stopped consumer leaves and `Close` returns; live RabbitMQ consumers are served again after drops, stopped ones forgotten |
| `rabbit` | `RabbitMQ`, `MCRabbit.cfg` | three connections, every fault, a malformed and a well-formed message, a publish and the close: nobody is subscribed twice by a reconnect, deliveries are settled by their holders and as their handlers ended, a publish that returned nil did not vanish, and the close leaves no connection |
| `service` | `MCWebService`, `MCWebService.cfg` | three requests (one counted, one without an identity on an authenticated route, one that may panic): under the default authentication and under one of the application: the active requests are counted right, under the default one handlers of authenticated routes have their user, a close that did not time out left no request, counted requests keep their database, and the pipeline ends |
| `parts` | `MCParts`, `MCParts.cfg` | two clients over a pool of two connections and one write; two calls over a breaker that trips at two; two messages and two consumers, one a test producer's, whose providers keep the promise of `Queue`; three constructors of two types, one of which may be an interface another implements too, one without parameters, with every parameter list of the others, variadic set, and tags that differ from struct to struct; three openings of the module; every statement of the grammar |
| `late_start`, `rabbit_channel`, `service_drain` | | **violated**: section 4 |

Bounds.  Two drains are enough for two waiters to share a channel and for one to
find it closed; a second unit lets a bucket empty and fill again.  `MaxExtraDone = 2`
takes a counter below zero and past it again.  Two observers, of which one is a
Stopper, give the phases an order to break; two pipelines overlap in every way.
One consumer meets every step of a shutdown, and two openings, interchangeable by
symmetry, are what a creation needs to span; consumers interact only through the
registry, which is copied whole, and through the counter of module tasks, which
`RunningWork` checks with several units.  `MaxConns = 3` connections give a second
reconnection during the effects of the first.  The last connection is never dropped,
so a liveness property cannot fail for want of numbers.  In `parts`, one write and two
clients give a stale fill (one client reads, the other writes and deletes, the first
fills); more writes give older stale versions and nothing else, and the theorems of
`DataAccessProofs` hold of any number.  `MaxReceives = 2` is a delivery and a
redelivery, and the theorems of `DeliveryProofs` hold of any number.  Three constructors
give a shared bean under two parents; `MaxDepth = 4` is one more frame than a resolution
without a cycle needs; `MCProvides` and `MCTags` keep one constructor of each kind (its own
type, another one, both) and tags that name nothing, one bean or two.  Three openings give a Close that meets both its successor and the
one after.

Two bounds of `Messaging` are also the limits of what holds.  `ReleasedOnce` is checked
on one opening: with two, a pipeline that closes the module between `resetModuleState`
and `setInstance` of the second opening finds `moduleClosed` reset and the first
provider still in `instance`, and closes that provider again (`messaging.go:76-77`,
`226-227`).  `NobodyLeftRunning` is checked on two openings and two pipelines: when such
a close leaves `moduleClosed` set on the new opening, a third `Initialize` takes it for
dead and drops a registry with a live listener in it (`messaging.go:121-128`,
`160-174`), whom the third pipeline then does not stop.  The properties say what the
code keeps while an opening does not overlap a close that many times; section 5 says
under which condition they hold of any number of openings.

`CHECK_DEADLOCK FALSE` appears where the process may really be over: every pipeline
done and every consumer gone, a crashed boot, an application that runs.  In `parts` it also
covers `TestProducer.Execute` waiting for a handler that blocks, which is a defect of the
code (section 4) and not looked for by that run.

Fairness.  The goroutines of the SDK are scheduled (weak fairness of their next step),
and a timer that was armed fires.  A handler of a consumer returns and an acknowledgement
ends, whether it succeeded or not.  The second is an assumption about the broker clients: the
provider is handed a context with `ackTimeout`, but RabbitMQ and Pub/Sub take no notice of it
(`rabbitmq.go:137-143`, `gcp.go:21-31`), so `StoppedConsumersLeave` says nothing of an
acknowledgement that hangs.  A Go select that finds
a `done` channel ready again and again picks it in the end (strong fairness of
`ListenerStops` and `ProcessStops`): select chooses uniformly.  A broker that is down
comes back, so a dial retried for ever succeeds.  In `WebService` only the pipeline is
fair: requests may stay in flight for ever, and `PipelineEnds` rests on the timeouts.
Nothing is assumed of the application: work may never finish, signals may never come,
consumers need not be created.  `MCLiveness` conjoins the fairness of both its parts; in
the part that is not running no fair action is enabled, so its fairness asks nothing.
`MCParts` checks safety only and states no fairness.

## 4. Where the code and its comments disagree

Shown by a run:

* `late_start`.  `activateConsumer` looks only at `moduleClosing`
  (`messaging.go:213-224`), and `resetModuleState` sets it back to false.  A consumer
  whose broker call spans a whole shutdown and the next `Initialize` passes the check
  and listens on the provider that shutdown released.
* `rabbit_channel`.  When the broker closes a channel and leaves the connection up,
  `processMessages` ends and keeps the subscription "so the reconnect re-subscribes"
  (`rabbitmq.go:448-449`), but only a lost connection starts a reconnect.
* `service_drain`.  The observer of the database closes in a phase where "the work that
  queries the database has already been drained" (`sqlDB/observer.go:16-17`), but no
  request registers as running work, and the database, attached before the server,
  closes while requests are still in flight.

Met while reading or modelling, without a run of their own:

* `rabbitmq.go:442-444`: `processMessages` returns on `done` without cancelling its
  subscription or rejecting what it received.  The delivery stays unacknowledged until
  the connection ends, while `handleMessage` takes care to make such a message
  "available again immediately" (`rabbitmq.go:473-476`).
* `test_producer.go:46-49` says the buffered channels keep the handler from blocking.
  With two messages the second send blocks, and the deferred `Close` waits for the handler.
* `client_config.go:7` documents `Retries`; `NewRestClient` (`client.go:56-69`) copies
  neither it nor the sleep, so nothing is ever tried again.
* `request.go:57-70`: the nil body of an empty success is cached as `null`, which is a miss.
* `request.go:270` shadows `err`: a response with an error status is a success to the
  breaker, although `processErrorResponse` makes an error of it.  The model has it; no property
  depends on it, and `AnswersTold` holds of the code as it is and of the code repaired.
* `request.go:254`: the error of `NewRequestWithContext` is not looked at, and the headers are
  then added to a nil request, which panics.  The deferred `Done` tells the breaker of a failure.
* `aws.go:197` says at most one message per consumer is in flight; one in hand, one in the
  channel and one offered make three.
* "Global beans are beans created once" (`pkg/di/README.md:55`): the beans of a variadic
  parameter are copied together (`container.go:66-79`), and one that another of them
  builds on the way is built again.  `GlobalBuiltOnce` leaves variadic constructors out.

Hazards the code does not avoid.  The models have them, and the property beside them says
only what holds all the same:

* a query inside a transaction caches a result nobody else can see (`query.go:83`):
  `ReadsIsolated` allows it (`entry.inTx`), and says that it is the only way;
* a late fill of the cache (`query.go:60`): `StaleOnlyThroughRace` says that an entry is stale
  for that reason or for a deletion still owed, and for no other;
* the total and the items of a page disagree outside a repeatable-read transaction
  (`page_query.go:56`), where `ReadsIsolated` says nothing of them;
* a message left in the channel of a listener that ended (`gcp.go:97`): `EndedHandsBack` excepts
  it, and what a module that is over had;
* two matching tags of a struct are read in the order of a map (`utils.go:17`): `CallsFit`
  takes either bean, and `GlobalBuiltOnce` leaves such applications out;
* an acknowledgement that hangs (`consumer.go:220`), which the fairness of section 3 assumes away;
* an error status the breaker takes for a success (`request.go:270`).

Hazards that no property is about, beside those `PROJECT.json` lists:

* an Add from zero on the deprecated WaitGroup while the parked goroutine waits
  (`single_wait_group.go:178`): the deprecation note leaves it to the application;
* an observer attached after a pipeline took its copy (`subject.go:113`); two concurrent
  calls of `messaging.Initialize` (`messaging.go:104`) or of `monitoring.Initialize`
  (`initialize.go:22`): both are start-up calls, which the models take one at a time; a
  handler that closes its own consumer (`consumer.go:273`);
* a RabbitMQ connection that dies before it is watched, and a queue whose re-subscription
  fails (`rabbitmq.go:210`, `286`): both faults are among those of the `rabbit` run, and
  the liveness is stated without them;
* `getDataList` does not ask `rows.Err` (`reflection.go:17`); a page offset wraps in
  uint16 (`page_query.go:84`); `Execute` inside `Execute` begins a second transaction that
  may wait for the first (`sql_transaction.go:93`); a migration source that cannot be
  opened is skipped (`migrations.go:54`); `MOVED` is retried without a bound
  (`cache.go:162`); the cache keeps its closed client after a shutdown (`cache_db.go:24`);
* a shutdown between the attach of the server and its listen (`server.go:63`, both outcomes
  are in `WebService`); a second pipeline on a server set to nil (`restserver/observer.go:23`);
  `ListenAndServe` returning before the shutdown it began has ended (`server.go:65`);
* a receive cut by the module context, whose message SQS may hand out all the same
  (`aws.go:113-118`);
* `AddDependencies` replacing what an earlier call registered, and cycles of constructors
  (`container.go:22`, `70`);
* `SELECT a IS DISTINCT FROM b FROM t`, where the span names `b` (`sql_attributes.go:135`);
  nested comments and `E''` literals, which `skipComment` and `skipQuoted` end too early
  (`sql_attributes.go:242`, `282`).  The grammar of `SqlSpan` has neither.

## 5. The theorems

All are checked by TLAPS with the SMT and Zenon backends and LS4 for the temporal step.
The constants are any sets that satisfy the assumptions of the modules.

* `RunningWorkProofs!WorkTypes`, `NoChannelClosedTwice`, `NoWakeupLost`: for any units,
  drains, waiters and any number of unbalanced `Done` calls.  The invariant is
  `WorkInv`.  `NoLostWakeup` is not inductive alone: that the channel a waiter holds is
  the one the next `signalIdle` closes needs `NoDoubleClose` (the shared channel is open
  and no other bucket shares it) and `HoldsChannel` (no waiter selects on nil).
* `RunningWorkProofs!DrainRefinement`: with balanced `Done` calls (`MaxExtraDone = 0`) every
  behaviour of `RunningWork` is a behaviour of `Drain` under the mapping of
  `RunningWorkRefinement`.  It adds `Counts`: each counter is the number of running
  units of its bucket, which needs the running set to be finite.
* `ShutdownProofs!ShutdownTypes`, `CloseAfterAllStopped`, `NothingLeftUsingAlways`: for any
  services, `Notify` calls, observers and gated work of the three kinds.  `Shutdown` makes
  no unbalanced `Done`, so each of its steps is a step of `Drain` or a stutter, and the
  proof takes from that refinement what a drain has seen: `SeenEmpty` says that the work a
  pipeline gates is absent from the moment its drain saw it empty.  It stays absent because
  of `Barrier`: a pipeline begins its drain when every Stopper it took is stopped, and a
  stopped gate registers nothing.  `Closers` says whose drain ended before a close.
  `PipelineInv` is the part of the invariant that needs nothing of the gates; `Messaging`,
  whose consumers check `moduleClosing` instead of a gate, keeps it too.
* `ShutdownProofs!ShutdownKeepsDrain`, `MessagingProofs!MessagingKeepsPipeline`,
  `WebServiceProofs!ServiceKeepsDrain`: the refinement of `Drain` survives composition.
  Whatever the pipelines, the messaging module with its consumers and openings, or the web
  service with its requests do to the running work, their drains keep the abstract contract;
  and the messaging module keeps the barrier between the phases, also under observers,
  providers and goroutines of its own.  Each proof maps every action of the composition to
  steps of `RunningWork` with balanced `Done` calls and takes the rest from `PipelineInv`.
* `MessagingProofs!MessagingTypes`, `FailureLeavesNothingAlways`, `CloseIsCompleteAlways`:
  for any consumers, openings and pipelines, unconditionally.  What a failed creation or a
  `Close` left behind depends on everything the consumer held before; `Held` says for each
  place of a consumer whether the registry, the drain and a goroutine of the provider may
  still have it, and that an abandoned one was told to stop.
* `MessagingProofs!NobodyLeftRunningAlways`, `ReleasedOnceAlways`: for any number of openings
  that no shutdown overlaps (`OpeningAlone`: while an `Initialize` replaces the provider of an
  earlier opening, no pipeline is under way).  The invariant is `StopInv`: a pipeline past
  its call of `Stop` leaves the module closing (`Asked`), a consumer of the registry is told
  or will be (`Reached`), and one pipeline at a time releases a provider that is not
  released yet (`Releases`).
* `MessagingProofs!TwoOpeningsAreStopped`: with at most two openings `NobodyLeftRunning`
  needs no condition, whatever shutdowns overlap them; this is the setting of
  `messaging_reopen` with any consumers and pipelines.  `TwiceInv` is weaker than `StopInv`:
  what a pipeline asked and closed may be lost once the module is started over for its
  last opening, and until then it is not (`Early`).
* `MessagingProofs!HandlersUndisturbedAlways`: also no creation may span an opening
  (`CreationsOver`), which is the situation of `late_start`.  `HandlerInv` carries what the
  drain saw of the consumers (`Emptied`) to the providers they listen to (`Served`): a
  consumer counted after a successful drain belongs to an opening that pipeline did not take.
* `MessagingProofs!OneOpeningIsSafe`: a module opened at most once meets both conditions, so
  the three properties hold of it with no condition on the environment.
* `WebServiceProofs!ServiceUsesShutdown`: every behaviour of a service, whatever its
  requests and its boot do, is a behaviour of `Shutdown`, with the counted requests as
  application work that no Stopper gates (`Stoppers = {}`: neither the database nor the
  server implements `Stopper`).  `ServiceTypes`, `CloseDrainsRequestsAlways` and
  `CountedRequestsKeepDatabaseAlways` hold for any requests; the invariant `ServiceInv` adds
  to that of the pipeline who holds an identity and who is counted as in flight
  (`RequestInv`), that the server exists only between its attach and its close
  (`ServerInv`), and that what is counted after a drain saw nothing began after it
  (`CountedInv`).
* `RabbitMQProofs!RabbitTypes`, `CloseLeavesNone`, `NoSecondSubscriptionEver`,
  `SettledByItsHandlerAlways`, `ConfirmedNotLostAlways`: for any number of connections,
  consumers and messages.  `Connected` says that only the installed connection, and a
  replacement just dialled, is up, and which of them is watched; `Resubscribed` that the
  replacement has no subscription but those its reconnect made; `Delivered` that a delivery
  on an open channel is the only one of its subscription and is what the broker has down.
  `ConfirmedNotLost` needs that every channel dialled is in confirm mode, so that the nil of
  `producer` without a deferred confirmation (`rabbitmq.go:374-379`) is out of reach, and that an
  answer is an acknowledgement only of what was stored or returned.
* `RabbitMQProofs!RabbitKeepsPromise`: `RabbitMQ` implements `Queue`, for any connections,
  consumers and messages.  `Held` maps the broker's place of a message to that of the queue;
  the handled messages are a variable of their own, set when a handler returns nil, while the
  broker deletes when a later acknowledgement reaches it.  That it deletes only what was handled
  is the content of the proof: a delivery past its handler is of a handled message, whatever
  channels were lost since and wherever the redelivered copy is.  A lost channel gives back all
  it held in one step (`GiveBack`), and nothing malformed is handled, because only what decodes
  is offered to a listener.  Who acknowledges is the matter of `SettledByItsHandler`.  TLC agrees
  on the instance of the `rabbit` run: to check it again, add `DeliversAtLeastOnce` to the
  `PROPERTIES` of `MCRabbit.cfg`.
* `DataAccessProofs!DataTypes`, `ExecuteSettlesAlways`, `ReadsIsolatedAlways`,
  `StaleOnlyThroughRaceAlways`: for any clients, any pool and any number of writes.  The
  invariant is `DataInv`.  The properties speak of the cache entry, and a fill puts there
  what a query read some time before; so the invariant says the same of the results still
  in hand (`KnownResults`: committed, or read inside a transaction; `FreshResults`: the
  present row, or late, or some deletion owed), and of the row (`RowCommitted`).  That a
  page agrees with its total needs `PageFixed`: the view of a repeatable-read transaction
  is the total until its items are read.
* `DeliveryProofs!DeliveryTypes`, `DeletedWereHandledAlways`, `EndedHandsBackAlways`: for
  any messages, consumers and number of receives.  The invariant is `DeliveryInv`.  That a
  consumer has handed back its messages is a fact about its end; the invariant says where
  they are before it: `InHand` places a message in flight that nobody meant to leave there
  in the poll, the channel or the handler of its holder, `HandsEmpty` says when a poll
  and a listener hold nothing, and `DecodedOnly` that only what decodes is handled.
* `DeliveryProofs!DeliveryKeepsPromise`: `Delivery` implements `Queue`, step by step, for both
  providers, their redeliveries and dead letters, and the test producer.  It needs, beside
  `DeliveryInv`, that whatever a poll, a channel or a handler still has was published once
  (`HeldWasPublished`): a handler may end after its message was given back, delivered to
  another consumer or buried.
* `PartsProofs!GlobalBuiltOnceAlways`, `ArgumentsFitAlways`: for any types, constructors,
  parameter lists and depth.  The property is about a number of calls, the invariant about
  the stack: each frame's arguments, bean in hand and parameters left make up its parameter
  list (`Fits`), each waits for the one above (`Linked`), a copy of a bean that waits is
  never used once the bean was built, and where constructors depend on each other in a
  cycle the inner call of one is behind the outer (`Behind`), so it never returns.
* `PartsProofs!CallsFitAlways`, `ContainerTypes`: for any types, constructors and lists.  That a
  variadic function receives every bean of its type once and in registration order needs
  two facts.  One is what `Candidates` computes, for a list of any length: its recursive
  function exists and its n-th value enumerates the places among the first n (`ScanExists`,
  `EnumerationGrows`, `ScannedEnumerates`).  This is an induction over data; the library's
  induction theorem cannot be used, so the proof takes the least number for which the claim
  fails (`Least`, from the well-founded order of the naturals) and contradicts it.  The
  other is `VariadicInv`: the arguments collected and the beans still in hand of a frame are
  the candidates together (`Follows`), and each is a registered name (`Listed`), while the
  frames above it resolve and register objects.
* `PartsProofs!AnswersToldAlways`, `RestTypes`: for any calls and thresholds of the breaker.
  `RestInv` says that the breaker never counts more failures than executions ended without a
  success in a row.
* `PartsProofs!NoCallbackLeftAlways`, `NoLockCycleAlways`, `TelemetryTypes`: for any number of
  openings.
  `NoLockCycle` holds because every section of the module that holds `moduleMu` ends before the
  callbacks are registered or unregistered: who holds the lock is at the place the lock says, and
  those places are not the ones that want the pipeline.
  `Accounted` says of every callback installed whether it is that of the instruments, one
  that an opening has registered and has still to install, or one that a step has replaced
  and has still to unregister.

Model-checked only:

* liveness, which rests on fairness: `DrainReturns`, `AppWaitReleased`,
  `EveryObserverClosed`, `StoppedConsumersLeave`, `CloseTerminates`, `LiveConsumersServed`,
  `StoppedForgotten` and `PipelineEnds`;
* `SpanNamesMain` and `SpanTypeOK`: the tokenizer and the parser of `SqlSpan` are folds and
  searches over sequences, each of which would take an induction of its own.  The grammar
  the property is about is finite and has no parameter, so the run enumerates every
  statement of it;
* `PartsTypeOK` as the conjunction that `MCParts` composes; `DataTypes`, `RestTypes`,
  `DeliveryTypes`, `ContainerTypes` and `TelemetryTypes` are its conjuncts as theorems of each
  part, all but `SpanTypeOK`.

## 6. Not modelled, and what is left

Not modelled because there is nothing to check in time: storage calls, cloud sessions,
logging, value types, validation, test containers and the tools.  Of the parts modelled,
what is left out is their wording: metric names and values, spans, header metadata,
accessors of the web context, reflection over columns, TLS.  The choice of a messaging
provider and the redirections of the cache are one step each.  `DrainBudget` is a division.

What would come next:

1. `Messaging` over `Queue` instead of its abstract provider, so that what a handler
   receives is what some provider delivers.
2. `WebService` with two pipelines, where the second meets a nil server.
3. The opening and close of the cache, with its redirections and the stop of its metrics.
