# Verification of the distributed notification system

TLA+ models of the services in `src/`, TLC runs on small instances, and TLAPS
proofs for every value of the constants. `PROJECT.json` lists components, runs,
mutants, findings, hazards and theorems, and maps every definition to the lines
it stands for.

## 1. The system

Five services, one RabbitMQ broker, one Redis and one Postgres
(`docker-compose.yml`). Every container restarts unless stopped.

| Component | State | Operations | Talks to |
|---|---|---|---|
| api-gateway | none of its own; keys in Redis (`idempotency:<key>`, notification status) | `sendNotification`: check key, set key, store status, publish; guard, login, register, validate, proxy | user-service (HTTP), Redis, RabbitMQ (`email.queue`, `push_notifications`) |
| user-service | users (Postgres), refresh tokens and caches (Redis) | register, login, refresh, logout, validate; preferences | Postgres, Redis |
| template-service | one row per template version (Postgres), cached rows and circuit breakers (Redis, TTL), one RabbitMQ connection | create, update, findOne, findAll, delete; GET /health; reconnect | Postgres, Redis, RabbitMQ (`template.updated`) |
| push-service (Rust) | semaphore, two client mutexes per process; `idempotency:<key>` and two circuit breakers in Redis; audit rows | one task per delivery: `process_message`, then ack, or dead-letter and reject | RabbitMQ, Redis, template-service, FCM, Postgres |
| email-service (NestJS) | `idempotency:<request_id>`, counters in Redis; circuit breaker in memory and Redis | `handleEmailMessage` per delivery, then ack or nack | RabbitMQ, Redis, template-service, SMTP |

What makes the system hard to test:

* **interleaving**: several processes of a service consume one queue and share
  Redis; within a process, tasks interleave at every await;
* **atomicity**: idempotency checks, counters with a TTL, versions and cache
  refreshes are read-then-write sequences of separate commands;
* **failure**: processes die between two awaits, connections drop under running
  tasks (whose delivery tags become void), replies of FCM and SMTP get lost,
  Redis calls fail with or without effect;
* **time**: keys expire, breaker timeouts compare clocks of different machines.

What makes each part correct:

| Part | Properties |
|---|---|
| push consumer | no message lost, duplicated or settled twice; marks and audit rows true; no permit leak; at most one notification per key; every message settled whose task does not panic |
| push breaker | opens on consecutive failures only, stays open for the timeout, is probed again, counter always has a TTL |
| email processor | no message lost; at most one mail per request unless two handlers race for its id; counters balance; every message settled whose handler does not hang |
| email breaker | around a function that throws: opens after the threshold of failures in a row, every process closes again |
| template health and publisher | the breaker opens on real failures only; one attempt to connect at a time; both recover |
| templates | versions without gaps, every version render-ready, cache entries true, exact answers to versioned reads, staleness ends |
| gateway | one publication per idempotency key; an error means that nothing was published; the status does not lie |
| the whole path | one push notification per key; what is answered reaches its consumer, which delivers it or fails on it |
| users, tokens | a refresh token is used once; no refresh token issued before a logout survives it; preferences are answered as the row has them |
| gateway access | a token that was logged out opens no guarded route while it is listed; every request is answered |

## 2. Modules

| Module | Models | Checked by | Proved in |
|---|---|---|---|
| `QueueConsumer` | what a shared queue promises; abstract, implemented by `PushWorker` and `EmailProcessor` | through both | both refinements proved |
| `PushWorker` | `push-service/src/main.rs`, `utils.rs`, `clients/{redis,rbmq,fcm,template}.rs` | `MCPushWorker` | `PushWorkerProofs` |
| `PushCircuitBreaker` | `push-service/src/clients/circuit_breaker.rs` | `MCPushCircuitBreaker` | `PushBreakerProofs` |
| `EmailProcessor` | `email-service/src/main.ts` (deserializer), `email.processor.ts`, `redis.service.ts`, `email.service.ts` | `MCEmailProcessor` | `EmailProcessorProofs` |
| `EmailCircuitBreaker` | `email-service/.../circuit-breaker.service.ts`, its record in `redis.service.ts` | `MCEmailCircuitBreaker` | `EmailBreakerProofs` |
| `TemplateStore` | `template-service/.../templates.service.ts`, repository, `redis.service.ts` | `MCTemplateStore` | `TemplateStoreProofs` |
| `TemplatePublisher` | `template-service/.../rabbitmq.service.ts` | through `TemplateHealth` | `TemplateHealthProofs` |
| `TemplateHealth` | `template-service/.../health.controller.ts`, `circuit-breaker.service.ts` (extends `TemplatePublisher`) | `MCTemplateHealth` | `TemplateHealthProofs` |
| `GatewayNotification` | `api-gateway/.../notification.service.ts`, guard, timeout interceptor | through `NotificationSystem` | `NotificationSystemProofs` |
| `NotificationSystem` | gateway and consumers over one Redis (extends `GatewayNotification`) | `MCNotificationSystem` | `NotificationSystemProofs` |
| `UserStore` | `user-service/.../users.service.ts` | through `AuthTokens` | `GatewayAccessProofs` |
| `AuthTokens` | `user-service/.../auth.service.ts`, `jwt.strategy.ts` (extends `UserStore`) | through `GatewayAccess` | `GatewayAccessProofs` |
| `GatewayAccess` | `api-gateway/.../jwt-auth.guard.ts`, `auth.service.ts`, `auth.controller.ts`, `proxy.controller.ts`, `proxy.service.ts` (extends `AuthTokens`) | `MCGatewayAccess` | `GatewayAccessProofs` |

Conventions. One step is one awaited call together with the local code up to the
next await, so processes interleave exactly where the program does. `pc` holds
the call a task awaits next. A call that may fail has an action for its failure.

Every module has a variable `env` that `Init` chooses from the constant
`Environments` and no step changes: the faults that may happen and how many, and
where it matters the load or the deployment. One run thus covers several
environments, and a property that needs a quiet one says so in its text
(`env.concurrency <= 1 => ...`), so its assumptions are part of the formula that
is checked and proved. A definition `X_Suffix` introduced as a mutant stands
before `X`, is a mutated form of it, and is used by no specification.

### PushWorker

A *delivery* is a slot for a spawned task and its delivery tag. A slot is used
again when its task is over, so that the number of slots bounds the tasks that
run at once and not the redeliveries.

| Variable | Code |
|---|---|
| `ready`, `unacked`, `acked`, `dropped`, `dlq` | where the broker holds a message: the push queue (`push_notifications`, `push.queue` in the documents), outstanding tags, acked, rejected without requeue, copies in `failed.queue` |
| `conn` | per process: consuming, channel gone but tasks still running, or not running |
| `permit`, `tlock`, `flock` | the semaphore and the two mutexes of `main.rs` |
| `pc`, `inst`, `msg`, `attempt` | the task's await, its process, its message, the attempt of `retry_with_backoff` |
| `idem` | value of `idempotency:<key>`: none, the gateway's `1`, processing, sent, failed |
| `accepted`, `audit` | what FCM accepted; the latest audit status |

A payload is a record of what decides its course: its key, whether it parses as
the gateway's envelope, as a bare message or not at all, whether it has a usable
`push_token`, whether its template renders, cannot be rendered, or makes `replace_variables`
panic: when the only `}}` of the text stand before its first `{{`, the
`unwrap` of `template.rs:142` unwinds the task (`RenderPanics`). Its guards are
dropped, but nothing settles the delivery, which keeps its place in the prefetch
window until the channel closes, and the key stays at `processing`. The model
keeps the order in which the code takes permit, template client and FCM client and releases them all when
the task ends; the early return when Redis cannot be reached; the acknowledgement
of a key that says `sent` or `processing`; the dead-letter branch that parses the
payload as a bare message. `Crash` discards tasks and locks and lets the broker
redeliver; `ConnectionLost` only voids tags, and tasks run on.

### PushCircuitBreaker

Every Redis command of `call`, `record_success`, `record_failure`,
`should_attempt_reset` and `reset_counters` is a step of a caller. Time advances
by `Tick`; the age of `opened_at` and the remaining TTL of the failure counter
are counted up to the value beyond which nothing changes. `env.callers` are the
processes that take part, `env.skew` their clock offsets; a negative difference
wraps, as `u64` subtraction does in the release build. With `env.aborts` a call
may end between any two commands (Redis error or crash).

### QueueConsumer

A message waits, is held by one process, or is settled for good; `Take`,
`GiveBack`, `Settle`, `LoseAll` and `Expire` are all that can happen to it. A
place is a *set*, so that the refinement mapping of a wrong consumer (a message
both waiting and held, or nowhere) yields a value that is no state of the
abstract module instead of being hidden by a choice. `PushWorker` maps its
`ready`, `unacked` with `inst`, and `acked` or `dropped`; its queue has no TTL.
`EmailProcessor` maps `ready`, `unacked`, and `acked` or `deadLettered`, with one.

### EmailProcessor

Like `PushWorker`, with up to `PrefetchCount` handlers per process, each in a
numbered slot; the lowest free one is taken. `content` is what a message says:
its `retry_count`, which the handler never writes back, and its format, as far
as the deserializer of `main.ts` and the handler tell formats apart. `Dispatch`
is where a message goes: to the handler; nowhere, because the handler of the
JSON value `null` throws in its own catch block and leaves the message
unsettled (`rejected`) until the channel closes; or to the server's own nack,
when the packet names another pattern. Several messages may carry one `request_id` (an id used again, an unconfirmed
republish), and those without one share a key. `marked` is the set of existing
idempotency keys, and `raced` the history of ids that two handlers found new at
once, between EXISTS and SETEX. `HttpHangs` is a template GET or status POST that
is never answered: `HttpModule` is imported without a timeout.

### EmailCircuitBreaker

State, counts and the time of the last failure are fields of each process; one
Redis record holds the last published state. A call awaits the GET, the wrapped
function and the SETEX; the commands of a process are answered in the order in
which they were sent (`wire`). `env.fn` is the wrapped function: that of
`sendEmail`, which returns its failures, so that nothing is ever counted, or one
that throws, as the class expects. `refused` is the history of failures in a row. `syncStateFromRedis` has no effect, since the Redis client is made
later, in `onModuleInit`.

### TemplateStore

One template (one code and language), since no operation touches two. `rows` is
the table, `cache` a set of entries `[key, row, expires]`, where key 0 (`Latest`)
is `...:latest`. Every query and Redis command of create, update, findOne and
delete is a step of a request; `Fail` is an exception out of any of them.
`env` says which operations arrive, how many in all and at once, and whether
calls may fail. Requests are numbered in the order in which they arrive.
Content and variables are sets of placeholders, and `IsValid` is the placeholder
check of `extract-placeholders.util.ts`.

### TemplatePublisher and TemplateHealth

`TemplatePublisher` has the two fields of `RabbitMQService`, the await of
`connect()` and the pending timer. `ConnectionBreaks` is one event of the
library that calls `scheduleReconnect` two or three times. `TemplateHealth` has
one check per request and resource; the reads of `getStatus` and the commands
of one `Promise.all` are one step, as they are sent back to back on one
connection, but each of the writes may fail alone. A tick is 30 seconds, the
timeout of the breaker. The report of `getStatus` that precedes `isOpen` in a
check decides nothing and is left out.

### GatewayNotification and NotificationSystem

`idem` is the value of `idempotency:<name>` for every name, because the gateway
(client's key), push-service (the same key) and email-service (request id) share
that namespace. A handler goes through GET, SETEX of the key, SETEX of the
status with the emit that follows it, and the answer; an error inside the `try`
stores the status `failed` and leaves the key. `Timeout` is the interceptor,
which answers while the handler runs on. `inflight` is what the RabbitMQ client
holds after `emit`; it may be published late, twice (unconfirmed) or never
(no connection). `env.concurrency` bounds the clients that wait, not the handlers
that run.

`NotificationSystem` adds the queues and what a consumer does with its name:
look, mark, deliver or fail. Where the services disagree about the message, the
model has the course the code takes: push-service cannot read a message without
`metadata` (`RejectUnreadable`), gives up one whose metadata holds no
`push_token` (the gateway puts its own beside them) and leaves the key at
`processing` (`PushFails`); email-service may fail on any message, since it reads
`data.data` of an answer that is the template itself, and requeues it
(`EmailFails`). Gateway and email-service declare `email.queue` with different
arguments, so the broker refuses a channel to the second; `env.declared` says
who has one, both only if the queue was made anew after the gateway had connected.
`PushWorker` and `EmailProcessor` model the consumers whole, with their crashes
and lost connections.

### UserStore, AuthTokens and GatewayAccess

One user's row, on which any user can act: the guard checks the bearer, and no
handler compares its user with `:id`. `Other` stands for a token of another
user, and `Reused` for a new user with the e-mail of the removed one, by which
the guard finds users, so that tokens of the removed one open it again.
`UserStore` has the row, the cached
preferences and the handlers of `UsersService`; `save` writes the entity in hand,
also when the row has changed or gone since it was read. `AuthTokens` adds the
guard, the tokens (named after the request that made them), the stored refresh
tokens and the blacklist. `RedisService` swallows errors, so a lost write lets
the handler go on; only KEYS throws. Tokens do not
say what they are for, so a refresh token is a bearer too. Blacklist entries
outlive the tokens they name, except that a logout lists a refresh token for 15
minutes of its seven days (`brief`, `ExpireListing`). The JWT guard is installed globally and on
the controllers and so runs twice; one pass stands for both, which allows every
outcome of two. `used`, `before`, `ended` and `removed` are history variables.

A gateway request makes one or two calls, each a request of `AuthTokens`, and
waits for the answer or a timer, while the user-service works on. The rxjs and
axios timers of a call and `TimeoutInterceptor` run for the same five seconds,
so either may decide the status. `late` remembers whether the token had been
logged out when the request arrived. The gateway does not count its calls: one
whose timer gave up is still served while the next comes, so `PreferencesServed`
is stated without gateway routes (`OneByOne`).

## 3. Runs

Passing runs (deadlock is checked in all of them: `Idle` is the only step of a
system at rest):

| Run | Environments | Shows |
|---|---|---|
| `push_cluster` | two processes, two messages under one key, every payload, any one fault | the consumer implements `QueueConsumer`; exactly one place per message, true marks and audit rows, permits returned |
| `push_single` | one process; two crashes or lost connections; two lost FCM replies or expiries; one crash or Redis failure | at most one notification per key and `sent` is final (first environment); what is acknowledged was delivered, but for keys that a message without `push_token` or one that panicked left at `processing` (second); every message is settled unless it panics (all) |
| `breaker` | one process, calls whole or cut short; two processes, clocks equal or skewed | opens on consecutive failures only, stays open its timeout, is probed again; the failure counter never stays without a TTL |
| `email` | two processes, messages of every format, with the same and with different ids; any one fault; three crashes or lost SMTP answers; two lost answers, expiries or queue TTLs | the consumer implements `QueueConsumer`, no second mail unless two handlers race for the id, counters balance, every message is settled unless handlers hang |
| `email_breaker` | `sendEmail` with any three faults; a function that throws: one process with four failures, two with three, two with any three faults | with a function that throws, no process is closed after the threshold of failures in a row; every process is closed again in the end |
| `template` | three failing requests at once; every content and variables; four writes, two at once; four requests in turn | no version gap, every version render-ready, cache entries true, versioned reads exact, the newest version served to clients in turn, a stale latest version leaves the cache |
| `system` | two requests in turn with two faults; at once with any one fault; at once without faults, with `email.queue` for both sides or one; consumers fail in all of them | one emission and one push notification per key, an error means nothing was published, the status does not lie, what is answered is delivered or fails in its consumer |
| `template_health` | concurrent checks with failing queries; failing Redis commands; broken connections and channels | the breaker opens on real failures only, one attempt to connect at a time, checks and publisher recover |
| `users` | three session requests in turn with any one fault; three at once; three user requests in turn, of any bearer, with one query failure or crash; create, remove, login and logout in turn with an expiry; two requests of any kind at once with any one fault; a gateway request on every route beside a login or logout, with an unreachable service; two logouts while the gateway validates, with an expiry | no refresh token exchanged twice, none issued before a logout survives it, a logged-out token opens no guarded route while it is listed, preferences answered are those of the row, every gateway request is answered |

Their properties, each stated in a comment above its definition:

* `push_cluster`: `TypeOK`, `ExactlyOnePlace`, `SentClaimsTrue`,
  `PermitsReturned`, `ImplementsQueue`.
* `push_single`: `AtMostOncePerKey`, `AckedMeansDelivered`, `SentIsFinal`,
  `EverySettled`.
* `breaker`: `FailureCountExpires`, `OpenLasts`, `OpensOnConsecutiveFailures`,
  `Recovers`.
* `email`: `AtMostOneMail`, `MetricsBalance`, `EverySettled`, `ImplementsQueue`.
* `template`: `TypeOK`, `NoVersionGap`, `CacheTruthful`, `ExactVersionServed`,
  `RenderReady`, `LatestServed`, `StalenessEnds`.
* `system`: `OneEmissionPerKey`, `ErrorMeansUnpublished`, `StatusTruthful`,
  `OnePushPerKey`, `AnsweredIsHandled`.
* `users`: `TokenUsedOnce`, `LogoutEndsSessions`, `LoggedOutIsRefused`,
  `PreferencesServed`, `GatewayAnswers`.
* `template_health`: `TripsOnRealFailures`, `OneAttempt`, `HealthRecovers`,
  `PublisherRecovers`.
* `email_breaker`: `OpensWhenThrown`, `Recovers`.

Violation runs state what a document says and show that the code does otherwise:

| Run | The document says | The code |
|---|---|---|
| `breaker_doc_open_ends` | open has a duration | `opened_at` can be deleted under an open breaker, which then stays open |
| `email_doc_retry` | failures are retried, then dead-lettered | the requeued message is a duplicate of itself and is acknowledged |
| `system_doc_delivery` | delivery is at least once | a client whose key is its request id gets no mail: the gateway's mark looks like email-service's |

Other divergences met while modelling. They are why properties carry conditions:

* Failures are published to `failed.queue` (`FLOW.md:164`); a failed envelope is
  rejected without a copy, since it is parsed as a bare message first.
* Reads without a version get the latest (`template_flow.md:91`); a read of an
  explicit version overwrites the cached latest. `LatestServed` excludes it.
* "OPEN: Too many failures (5+), stops sending for 60s" (`README.MD:156` of
  email-service, also `:9`). The function that `sendEmail` passes catches its
  errors (`email.service.ts:78`), which the breaker counts as successes: it never
  opens. The class by itself does what the line says (`OpensWhenThrown`).
* Update verifies "JWT and ownership -> 403 Forbidden if mismatch" and delete
  "ownership/admin role" (`USER_SERVICE_FLOW.md:209`, `:239`); any valid bearer
  updates, removes and reads any user (`users.controller.ts:140`). What a removal
  that was cut short leaves in the cache is therefore still served, and
  `PreferencesServed` says so.
* A refresh token is a UUID (`USER_SERVICE_FLOW.md:279`); it is a JWT like an
  access token and accepted as a bearer for seven days, after a logout with it
  again from the sixteenth minute on. A refresh that is past its checks when a logout comes
  stores a new session after it.
* A placeholder that is left is a rendering error (`template.rs:150`); in a text
  whose only `}}` come before its first `{{` it is a panic (`:142`) that leaves the delivery unsettled and the key at
  `processing`. `AckedMeansDelivered` and `EverySettled` except it.
* Duplicate mails are prevented (`README.MD:11` of email-service); two messages
  with one id that are checked at once are both sent (`redis.service.ts:193`), the
  exception in `AtMostOneMail`.
* The services disagree about what they exchange: email-service reads
  `data.data.content` of template-service's answer, which has no such field
  (`template.service.ts:36`); gateway and email-service declare `email.queue`
  differently (`rabbitmq.module.ts:33`, `main.ts:61`); the gateway puts
  `push_token` at the top level (`notification.service.ts:73`), push-service reads
  `metadata.push_token` (`utils.rs:63`) and requires `metadata`, which the gateway
  does not. `AnsweredIsHandled` is what is left of a delivery guarantee.
* Five consecutive failures open the breaker of template-service and two
  consecutive successes close it (`template_flow.md:160`); half-open failures do
  not reset the successes, nor successes the failures, and a Redis error after
  a successful `SELECT 1` counts as a failure of the database.
* `/health` of template-service returns the status of all dependencies and 503
  when down (`health.controller.ts:53`, `:60`); the RabbitMQ fields never go
  back to null, so a lost broker stays "healthy", and "down" is answered with 200.
  A channel that the broker closes alone is never replaced, which is why
  `PublisherRecovers` excludes it.
* `processing` is to be requeued (`FLOW.md:40`); it is acknowledged, also after
  the process that wrote it died.
* Duplicates are prevented (`README.MD:52` of push-service); two processes can
  both read the key before either writes it, hence `OneProcess` in
  `AtMostOncePerKey`.
* Two consecutive successes close the breaker (`FLOW.md:189`); the success
  counter survives a reopening. Half-open allows one request (`FLOW.md:194`);
  every caller that finds half-open proceeds. A clock behind the writer's wraps,
  and the breaker half-opens at once.
* Each change of a template is previous + 1 (`template_flow.md:93`); concurrent
  updates insert the same version. Delete affects all versions
  (`delete-template.doc.ts:9`); only the cache is emptied. A row read before an
  update can be cached after it.
* The write path is guarded by the idempotency key (`README.md:51`); two requests
  at once, or a repetition after a 408, are both published, and the gateway's
  SETEX can overwrite `sent`, after which push-service sends again. After an
  error behind the SETEX the key refuses repetitions for a day. `README.md:32`
  names an outbox; `emit` is not awaited.
* A refresh token is for one-time use (`USER_SERVICE_FLOW.md:282`); two refreshes
  at once both succeed. Delete removes refresh tokens (`:242`); they stay, and
  only the missing row refuses them. Update changes provided fields only
  (`:210`); `save` also writes back the other columns as they were read.

### Bounds

* *Push*: two messages under one key are the smallest case in which
  idempotency matters, two processes the smallest in which it races. Two slots
  are exact for one process with `PrefetchCount = 2`; three let two processes
  overlap. `MaxAttempts = 2` allows one retry (the code's default is 3, and the
  attempts beyond the first behave alike). `WorkerConcurrency` is 2, so that
  tasks compete for the mutexes.
* *Breaker*: thresholds 2 (code: 5) and a timeout of 2 ticks let counters be
  reached, reset and expire; `MaxCount` bounds them at the threshold, beyond
  which the code does not tell values apart (3 in the violation run).
  `MaxSkew = 1` is the smallest difference that wraps.
* *Email*: retry counts 0 and 3 are the two sides of the code's test against 3;
  the pairs of messages contain every format, next to another that can share
  its id, its key or its prefetch window.
* *Email breaker*: thresholds of 2 (code: 5 and 2), a timeout of one tick and a
  record of two; two calls at once, on one or two processes.
* *Template health*: two concurrent checks of one resource; thresholds of 2, a
  timeout of one tick, times to live of two and three (60 and 90 seconds).
* *Templates*: three requests give a writer, a racing writer and a reader, four a
  history of three versions after a race; one placeholder is enough because the
  check is made placeholder by placeholder.
* *System*: two requests that share keys, ids, both or neither, on either
  channel, with every form of metadata; `MaxCopies = 3` is what two faults can publish.
* *Users*: three requests are two refreshes of one token after a login, a logout
  between two logins, or a removal cut short, a read by another user and a new
  user with the e-mail; two preference values tell fresh from stale. A gateway
  request makes two of the three, beside one or, in the last environment, before
  or after a logout.

### Fairness

Weak fairness of a task's next step: tokio and the Node event loop run every
ready task, and the broker delivers while a consumer is connected. `Restart` is
fair because compose restarts containers. That FCM answers is an assumption: its
client has no timeout, and a request that never returns blocks its process
(listed as a hazard); its template requests end by a timeout of ten seconds. SMTP requests of email-service end by
the timeouts of nodemailer, Redis requests in success or error. An HTTP request of
email-service may never end: that is the fault `HttpHangs`, and `EverySettled`
says what it costs.
Redis removes keys whose TTL has passed (`Expire` in `TemplateStore`). The
RabbitMQ client publishes what it holds while it is connected (`PublishStep`).
Faults are never fair, and neither is the arrival of requests, with two
exceptions: health checks keep coming, because `docker-compose.yml:21` of
template-service polls `/health`, and for `Recovers` of the email breaker mails
keep coming to every process, since only a call can notice that the timeout is
over. `GatewayAnswers` assumes the gateway's timers and nothing of the
user-service.

## 4. Proofs

Every safety property of a passing run is a theorem, for every value of the
constants that satisfies the module's named assumption: any number of processes,
messages, keys, requests, tokens, thresholds and faults. Conditions on the
environment (one process, no Redis faults, requests in turn) are part of the
properties. They are kept by every step because `env` never changes, so such a
theorem is shown as `[](Condition => Invariant)`.

The assumptions type the constants and keep markers apart from data: `None` is no
token, preference, name, answer, delivery or number, `Gone` and `None` are no
rows, and no process is called `waiting` or `settled`, the two places
`QueueConsumer` adds to the processes. The breaker of push-service assumes
`MaxCount` at least the thresholds, since a counter that stops below never
reaches one.

Few properties are inductive. What each proof adds:

`PushWorkerProofs`, from `PushConstants`

* `TypeInvariant`: `TypeOK`.
* `Placement`: `ExactlyOnePlace` and `TagsMatchTasks` (an outstanding tag belongs
  to a live task or to one that panicked), together with the fact that
  a process that is down has no tasks (`NoTasksWhileDown`); without it a
  restarted process could find a task whose tag was redelivered.
* `SentIsTrue`: `SentClaimsTrue`, of the marks and the audit rows. Strengthened by
  `SendEvidence`: a task on its way to writing `sent` has an accepted message.
* `SerialAndNoLeak`: `PermitsReturned` and `SerialProcessing`. Strengthened by
  `TemplateHeld`: whoever is past `lock_template` owns that mutex, so at most one
  task per process is.
* `AtMostOnce`, `SentStays` (one process, no Redis and no FCM faults, no expiry).
  Strengthened by `KeyGuards`: once FCM has accepted a message of a key, either
  the key says so or the only task in process is about to write it.
* `AckIsEarned`: `AckedMeansDelivered`. Strengthened by `AckInv`: a key at
  `processing` belongs to a task that will write it, unless a message without
  `push_token` or one that panics has the key.
* `BareDeadLettered`: strengthened by `PublishedFirst`.
* `PushImplementsQueue`: the refinement of `QueueConsumer`. `ExactlyOnePlace`
  gives every message one abstract place (`PlacesAre`), and every step moves
  messages as an abstract step does or not at all. That a crash requeues
  finitely many messages needs `FiniteTags`.

`PushBreakerProofs`, from `BreakerConstants`

* `FailuresExpire`: `FailureCountExpires` for any number of processes that share
  the counter without a lock.
* `OpenPeriodIsKept`, `OpensRightly`: `OpenLasts` and `OpensOnConsecutiveFailures`
  of one process whose calls are not cut short. `SoleInv` says of each await what
  the caller still knows of the state (`Knows`), that `opened_at` is not older
  than the open state (`Timestamp`), and that the counter does not exceed the
  run of failures (`Counts`).

`EmailProcessorProofs`, from `EmailConstants`

* `OneMail`: `AtMostOneMail`, for any number of messages with one id, also with
  crashes and lost SMTP answers. `MarkGuards`: a mail that went out left its mark,
  and a handler on its way to SMTP is the first for its id, unless the id is in
  `raced`.
* `CountersAgree`: `MetricsBalance`. The handlers counted as processed and not
  yet as anything else are finitely many, because they hold a tag.
* `EmailImplementsQueue`: as for push, from `OnePlace`, the counterpart of
  `ExactlyOnePlace`.

`EmailBreakerProofs`, from `EmailBreakerConstants`: `BreakerOpens`
(`OpensWhenThrown`). `CountInv`: the count is that of the failures in a row, and a
process that has counted enough of them is not closed, since whatever closes it
also empties the count.

`TemplateStoreProofs`, from `TemplateConstants`

* `VersionsHaveNoGap`, `HistoryIsRenderReady`, `CacheIsTruthful`,
  `VersionedReadsAreExact`. The invariant adds what a request holds between two
  awaits: a row about to be inserted is valid and follows an existing version
  (`Prepared`), a row about to be cached is in the table (`InHand`), and has the
  version its request asked for (`Asked`).
* `LatestIsServed`: `LatestServed`. `LatestInv`: the cached latest is stale only
  while an update is between its INSERT and the DEL of that key, and what a
  request is about to cache is the newest row.

`TemplateHealthProofs`, from `HealthConstants`

* `OneConnectAtATime`: `OneAttempt`.
* `BreakerCountsRealFailures`: `TripsOnRealFailures`. `CountInv`: the counter in
  Redis, and each value a check is about to write, leaves room for the failures
  that are still to be read on top of it; lost increments only lower it.

`NotificationSystemProofs`, from `GatewayConstants`

* `ErrorsAreFinal`: `ErrorMeansUnpublished`, from `EmittedLate`.
* `StatusIsTruthful`: `StatusTruthful`, from `PendingExplained`: an id stays pending
  without an emission only while the handler still has `failed` to store.
* `AtMostOneEmission`: `OneEmissionPerKey`. `EmissionInv`: one handler runs at a
  time, the key of what was or will be emitted is in Redis (`KeyTaken`), and
  between GET and emission nobody else of the key is emitted (`KeyFree`).
* `OneNotificationPerKey`: `OnePushPerKey`, from `EmissionInv` and `PushInv`: the
  gateway, which writes the key push-service reads, overwrites no mark of it,
  and push-service takes a mark back only where it has delivered nothing.

`GatewayAccessProofs`, from `AuthConstants`. `AuthInv` says for each await what
kind of request can be there, that its tokens were issued and that it holds a row
to write; `GatewayInv` ties a waiting gateway request to its call.

* `LogoutIsComplete`: `LogoutEndsSessions`. A logout that has read the keys has
  still to delete every stored token issued before it (`LogoutInv`); tokens of
  logins beside it are issued only when they are done (`FreshTokens`).
* `LogoutClosesGateway`: `LoggedOutIsRefused`. A late request is still before the
  guard, and the call that validates it finds the blacklist (`Refused`).
* `TokensAreUsedOnce`: `TokenUsedOnce`. A token that was exchanged is gone from the
  store, or it is blacklisted and the one fault has hit its DEL, and no request
  is past the checks with it (`Spent`). Gateway calls run beside, but none of
  them is a refresh (`Arrivals`).
* `PreferencesAreServed`: `PreferencesServed`. `CacheInv`: an entry agrees with the
  row of a user who exists; a removed user leaves one behind only if the removal
  was cut short, and then it is what the row said last; between the two writes of an update there is no entry unless
  the preferences stay the same.

Each of these modules also proves `TypeOK` (`TypeInvariant`). In
`EmailBreakerProofs` that needs the records on their way to Redis to be typed, in
`GatewayAccessProofs` it needs `AuthInv`.

Only model-checked: liveness (`EverySettled`, `Recovers`, `StalenessEnds`,
`AnsweredIsHandled`, `HealthRecovers`, `PublisherRecovers`, `GatewayAnswers`),
which is out of the prover's reach under fairness.

## 5. Not modelled

* DTO validation, the health endpoints of the other services, configuration and
  Swagger documents: no state, or none that another operation sees.
* Backoff delays, log output, response formats, the text of notifications and
  the template cache of an email-service process, which decides only that text.
* `findAll`, `findOne` of users, `getStatus`, the audit query and the metrics of
  email-service: they only read.
* Shutdown: template-service enables no shutdown hooks; for the others the end
  of a process is a crash.
* `IdempotencyGuard`, `InterServiceClient`, `checkServiceHealth`, the gateway's
  `RedisService` and `RabbitMQService`, email-service's `RabbitMQService` and the
  rate-limit, list and preference helpers of its `RedisService`,
  `CircuitBreakerService.reset`: nothing uses them.

## 6. Plan

1. Crashes of the consumers in `NotificationSystem`, so that `OnePushPerKey`
   and its theorem speak of crashes of push-service too.
2. An abstract specification of the idempotency key (taken, done, free again)
   that gateway, push-service and email-service are shown to implement under
   their conditions.
3. Lemmas that proof modules share (finite tags, one active request) once they
   are needed a third time.

New questions take the place of less telling runs: the number of runs is kept
small, and environments are added to existing runs first.
