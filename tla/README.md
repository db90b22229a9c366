# Verification of core-shared

`core-shared` is a Go library that every service of its organisation links:
HTTP middleware, response envelopes, clients for MongoDB, Kafka, Redis, HTTP,
gRPC and Camunda, audit events, logging and telemetry. It holds little state and
most of it is shared by goroutines the library does not create itself, or lives
in the servers it talks to. The hazards are therefore in the small pieces of
concurrent code everything else stands on (the timeout middleware's second
goroutine, the lazily connected Mongo client, the Kafka consume loop), in
requests that others overtake, fail or repeat, and in what a nil error is worth.

This directory holds TLA+ models of those pieces, TLC configurations that check
them on small instances, and proofs that hold for every instance.
Paths below are relative to `src/`.

## Running

    tlasany RequestPipeline.tla
    tlc -workers 2 -config RequestPipeline.cfg MCRequestPipeline.tla
    tlapm RequestPipeline_proofs.tla

`PROJECT.json` lists every run with its module and cfg, the source lines each
definition stands for, and for every checked property a mutant: a plausible bug in
one definition under which TLC finds the property violated. The bugs are the
definitions marked "Fault variant" in the modules; no action uses them.

## Inventory

| Component | State | Operations | Interacts with |
|---|---|---|---|
| `middleware/timeout.go`, `recovery.go`, `logging.go` | per request: derived context, two goroutines, `statusWriter.status`, the `ResponseWriter` they share | the chain around a handler | net/http, `response`, the handler, the client's disconnect |
| `response/response.go` | none (writes to a `ResponseWriter`) | `JSON`, `OK`, `Created`, `Accepted`, `NoContent`, `Error`, `ErrorMulti` | handlers, Recovery, Timeout |
| `mongo/client.go`, `health.go` | `once`, `connErr`, `client`, `db` | `Connect`, `Database`, `Raw`, `Collection`, `Ping`, `Close`, `HealthCheck` | all goroutines of a service, the driver's pool |
| `kafka/consumer.go` | the Reader; broker: committed offsets, group generation | `NewConsumer`, `Start`, `Close` | the group, the handler, other members |
| `kafka/producer.go`, `config.go` | the Writer's batches | `Publish`, `PublishRaw`, `Close`, SASL/TLS selection | brokers, audit emitter |
| `audit/*` | none (fills a copy of the event) | `Emit`, `Close` | producer; a sink that deduplicates by event id |
| `telemetry/telemetry.go` | the process's global providers | `Init`, the returned shutdown | exporters, `logger/otel_handler.go` |
| `logger/*` | the handler tree of slog | `New`, `With*`, `Handle` of the fan-out and OTel handlers | telemetry's global logger provider |
| `middleware/requestid.go`, `grpc.go`, `client/grpc.go` | the request id in context and metadata | HTTP middleware, unary/stream interceptors | services along a call chain |
| `client/http.go` | base URL, headers | `GetJSON`, `PostJSON`, `Do`, ... | remote services |
| `mongo/repository.go`, `fetchresult.go`, `entity.go` | collections, on a replica set read from secondaries | find, paging, insert, replace, upsert, delete | `mongo.Client` |
| `mongo/bsonutil.go`, `datetime.go`, `objectid.go`, `registry.go`, `collection.go`, `mongo.go` | none | codecs and names | repository |
| `camunda/client.go` | a gRPC client | configuration, `PublishMessage`, ... | Zeebe gateway |
| `redis/client.go` | go-redis pool | delegations | Redis |
| `apperror`, `validator`, `middleware/cors.go` | none | constructors, wrappers | handlers |

Which behaviours are hard, and what makes each component correct:

* **Middleware chain.** Timeout starts the rest of the chain on a goroutine of
  its own. Where Recovery and Logging stand relative to it decides which goroutine
  a panic unwinds, who answers and what is logged. Completion, deadline and
  disconnect race in one `select`; the loser keeps a writer the winner may be
  using. Correct: every client gets an answer in bounded time, a 504 only for a
  deadline, panics become 500s, the log names the status that was sent, nobody
  uses a finished writer, and the process goes down for known causes only.
* **Mongo client.** First users race one dial. Correct: one pool, never a nil
  handle, no orphaned pool, one verdict, every call returns, and a health check
  that says how the cluster is.
* **Kafka consumer.** Rebalances, crashes and failed commits fall between fetch,
  handler and commit. Correct: at-least-once, partition order of first
  deliveries, redelivery only for a known reason, no starvation, a loop that stops.
* **Audit and producer.** Acknowledgements are lost and writes retried; messages
  of one key may go to different partitions. Correct: an emitted event is not
  lost when `Emit` said nil; a duplicate can be recognised; per-event order if
  the comment in `audit/kafka_emitter.go:30` is to hold.
* **Telemetry and logger.** Three exporters are created in turn, any may fail;
  providers are process globals looked up at each log record. Correct: on
  failure nothing stays open or installed; shutdown flushes all three whatever
  the others answer; one failing log handler does not silence the other.
* **Correlation and HTTP client.** The id passes by header, context and metadata.
  Correct: one id for a whole chain of calls. Redirects and statuses decide what
  `PostJSON` reports. Correct: nil means that it was posted.
* **Repository.** Several round trips without a transaction, reads from a lagging
  secondary. Correct: no lost update where the API looks atomic; paging that
  covers the collection.
* **Codecs.** Text loses what its layout has no place for. Correct: what was stored can be
  loaded, and a round trip changes nothing more.
* **Camunda.** Answers are lost and messages have no id. Correct: a fact acts twice only
  after an error was reported.

The `hazards` of `PROJECT.json` place each at its line.

## Modules

| Module | Models | Built on |
|---|---|---|
| `RequestPipeline` | the middleware chain | |
| `Connection` | abstract: what a lazily connected client promises | |
| `MongoClient` | `mongo.Client`, `HealthCheck` | implements `Connection` |
| `Repository` | `mongo.Repository` on a replica set | uses `Connection` as its client |
| `FieldCodecs` | the `mongo` package's own field types | |
| `AtLeastOnce` | abstract: what a consumer group promises | |
| `KafkaConsumer` | `kafka.Consumer` | implements `AtLeastOnce` |
| `AuditPipeline` | `audit.KafkaEmitter` on `kafka.Producer`, a sink | uses `AtLeastOnce` as its consumer |
| `Telemetry` | `telemetry.Init`, its shutdown, the loggers beside them | |
| `ServiceCalls` | the request id along HTTP and gRPC calls, `client.HTTPClient` | |
| `Camunda` | `camunda.Client` and its configuration | |

`MC...` modules give constants values a cfg cannot express; `..._proofs` modules
hold the theorems, `Clients_proofs` those about `ServiceCalls` and `Camunda`. The two abstract modules are the seams: the detailed module
below is shown to implement them, and the module above composes their actions
instead of the detailed ones.

## What is modelled

### RequestPipeline

One request has two goroutines: `spc` is the server goroutine (middlewares outside
Timeout, then its select), `hpc` the one Timeout spawns (middlewares inside
Timeout, then the handler). `chain` says which of Logging and Recovery stand
outside and inside, outermost first; `sdepth` and `hdepth` count the frames of each
side still open, so a return or panic passes them in reverse order.

| TLA+ | Code |
|---|---|
| `Enter` | Timeout up to its `select` (`timeout.go:15-25`) |
| `SelectDone`, `SelectDeadline`, `SelectCanceled` | the three ways out (`timeout.go:25-32`) |
| `AnswerEnvelope`, `HHeader`, `HStatus`, `HBody` | `response.JSON`/`Error`: set header, write status, encode |
| `SHeader`, `SStatus`, `SBody` | the same for Timeout's 504 |
| `HLogging`, `HRecovery`, `SOuter` | the code after or deferred around `next.ServeHTTP` |
| `HEnd` | `close(done)`, or a panic that reaches the bottom of the goroutine |
| `SendStatus`, `SendBody`, `Touch`, `HeaderAccess` | net/http (external) |

`wire` is what the client got: the first status, and who wrote each piece of body.
`sw` and `log` are `statusWriter.status` and the log line. Setting a header is two
steps because the header map is not synchronised: an access during the other
goroutine's access may end the process, or not (Go throws "concurrent map writes"
or "concurrent map iteration and map write", which no `recover` stops), and the model takes either.

Left out: latency, sizes, the wording of bodies, CORS and RequestID (they add
headers before `next` and nothing after), handlers that answer 504 themselves
(`HandlerError` stands for the other statuses an `AppError` carries, so that a 504 is
Timeout's), handlers that hijack the connection,
panics inside the two middlewares.

### MongoClient

Each goroutine is in one call at a time. `OnceFirst` ... `OnceEnd` are the body of
`Connect`'s `once.Do` statement by statement; `OnceDone` is everyone else, who
waits for it *without regard to its own context*, as `sync.Once` does. `synced`
says that a goroutine has come out of `once.Do`, which is what orders the
assignment of `c.client` before its reads; `Close` reads it without, so
`CloseNil` may miss an assignment (a data race). `cluster` goes down and up; a
caller's context may end at any time. `sawUp` and `excuse` are histories of the
health checks in progress.

`dial` fails without I/O (a bad URI); `ping` needs the cluster and the context.
`HealthCheck` is `Ping` then `Raw` then a listing of database names; its second
`Connect` cannot block or change its mind and is folded into `List`.

### Connection

One verdict for everybody: `state` is `"unsettled"` until it is `"usable"` or
`"refused"`, a usable connection may be closed, and `told[p]` is what goroutine
`p` last heard. `LinkState` in `MongoClient` maps the Once, its error and the pool
to `state`, and `verdict` to `told`; `ImplementsConnection` is the refinement. A
pool that is closed by a second goroutine before the first is told is why `Settle`
may lead to `"closed"` at once.

### KafkaConsumer

`pc[c]` is the loop of one consumer's `Start`, `cur[c]` the message in hand,
`reader[c]` its Reader, which is a group member from `NewConsumer` to `Close`
whether or not `Start` runs. The group is external: `Deal` gives all
partitions to members anew and resumes them at the committed offset, while a loop
may still hold a message from before (`overtaken`). The broker takes
the commit of any member as it comes, backwards too (`CommitApplied`).
The handler's error is not a separate action: `Start` logs it and commits all the same,
so both outcomes are `Handle`. `FetchFails` is the logged retry: the loop's only
state is unchanged.

Left out: decoding (`ParseMessage`), handlers that panic (they end the process:
`Crash` while `pc = "handle"`), and brokers that lose committed offsets.

### AtLeastOnce

What a user of a consumer group may rely on: `end` messages in each partition, and
the set of offsets a handler was `attempted` with. A first delivery comes after all
its predecessors; anything delivered may come again. `KafkaConsumer` implements it
with the identity on both variables (`ImplementsAtLeastOnce`), and
`AuditPipeline` uses its `Deliver` as the sink's consumer instead of repeating
offsets, owners and commits.

### AuditPipeline

| TLA+ | Code |
|---|---|
| `Emit`, `Filled` | `KafkaEmitter.Emit` and `fill` (`kafka_emitter.go:34-67`) |
| `NotTaken` | `Publish` fails before the message is queued: marshalling, a closed Writer, unknown partitions, an ended context |
| `Taken`, `Answered`, `CtxEnds` | `WriteMessages` queues the message, waits, returns (`producer.go:49-57`) |
| `Close`, `CloseReturns` | `Producer.Close` |
| `WriteAcked`, `WriteUnanswered`, `WriteRejected` | the Writer's goroutine of one partition (external): each attempt reaches the log or not, its answer arrives or not; up to `MaxAttempts` |
| `Replicate`, `LeaderFails` | the brokers; `RequireOne` (`producer.go:26`) answers before replication |
| `Store` | the sink's handler, which stores under the event id or fails; `Consumer.Start` commits either way |

An event is a fact and an id. `fill` writes into Emit's copy of the event, so a
caller that left the id blank draws a new one with every call; `named` holds the
facts whose callers set the id. `try` numbers the Emits of a fact and only serves to
tell apart which of them an answer belongs to. A caller emits a fact again only
after a failed Emit. `LeastBytes` is "any partition": the count of bytes it goes by
depends on everything else the Writer has sent.

Left out: batches of several messages (each message of a batch shares its fate), `Writer.Async`,
the other fields of an event, `NoopEmitter`.

### Telemetry

`pc` and `step` walk through `Init` (a resource, three exporters, three providers)
and through the shutdown it returns. `open` counts the exporters of each signal,
`provider` is the process's global of each. Every call of `Init` may find the
endpoint empty (the first only: the endpoint does not change) or fail at any point.

| TLA+ | Code |
|---|---|
| `InitBegins`, `CreateExporter`, `CreateFails`, `InstallProvider` | `telemetry.Init` (`telemetry.go:49-131`) |
| `ShutdownBegins`, `ShutdownNext` | the `ShutdownFunc` (`telemetry.go:139-145`) |
| `Log`, `Stdout`, `Otel` | `fanoutHandler.Enabled` and `Handle` with its two children |
| `Enqueue`, `Export`, `Flushed` | the SDK's batch processor (external): bounded, drops its oldest |
| `Bound`, `StdoutPrefix`, `OtelPrefix` | the groups before each attribute's key, in slog's JSON handler and in `slogAttrToKV` |

`Records` are goroutines that log one record each; `fate` says what became of it
on its way to the collector, `printed`, `broken` and `BelowLevel` what became of
it on stdout. `derived` is the chain of `With` and `WithGroup` calls on the logger.

Left out: traces and metrics beyond their exporters, severities, the conversion of
values, `FromContext`'s and `LogError`'s attributes, groups inside a record.

### Repository

A method of `Repository` is one request, a list of *writes* the server applies one
document at a time: `UpdateOne` ... `BulkWrite` are those lists, `Requests` the ones
a caller may send. `versions` holds the collection as the slowest secondary shows it
up to the primary's; a read takes any of them (`client.go:82`). A document is
the set of writes it shows, so a write that is overwritten is visible as a number
that has gone. `held[p]` is the copy of a document `p` has, with the version it shows.

| TLA+ | Code |
|---|---|
| `Call` | the `Collection(ctx)` every method starts with, through `Connection`'s `Tell` |
| `Update`, `NoMatch`, `UpsertBegins`, `UpsertInserts`, `Insert`, `Delete`, `Replace`, `ReplaceNothing` | what the server does for the methods' requests, and what they return |
| `Returned`, `Give` | `SetReturnDocument` and `Decode` (`repository.go:215-229`), an answer that may be lost |
| `Fails` | a request that ends between two of its documents |
| `CreateIndex`, `BuildsUnique` | `CreateIndex`, `CreateIndexes` |
| `Find`, `BeginScan`, `FindPaging`, `Skip`, `PageOf` | the reads; `Wrapped` is Go's int |

An upsert that finds nothing inserts in a second step, which is the server's way and
the reason two of them may make two documents; with a unique index it starts over.
One scan with `FindPaging` runs beside the writers.

Left out: failover and rollback of the primary, callers that change a copy's code
or replace a document they never read, scans without a sort or sorted by a key that
changes or repeats (`FindPaging` takes any), sparse and compound indexes, `Count`, `EstimatedCount` and `Distinct` (reads that
nothing depends on).

### FieldCodecs

One field travels between the database (`db`), the service (`go`) and a client's JSON
(`wire`): `Load`, `Store`, `Answer` and `Request` are the four conversions of its
`type`; at first another program has written the field, and a client may send
anything. A text in a layout is modelled as the layout's name and the time it
reads back as, so that what formatting loses (fractions, the time of day, the
date) is lost in the model. Times are half seconds from the year 0: the zero
`time.Time` is a year later, and years past `EndOfYears` have five digits.

Left out: `bsonutil.go`'s regular expressions, collection names, `Legible` offsets of
a plain `time.Time` in JSON, `IsZero`.

### ServiceCalls

`nodes` are requests that arrived at some service, each with the metadata or headers
it `carried`, the id it is served under and the id its gRPC logger got. `Arrive` is the
server side, `RequestID` and `FirstValue` how the id is found or drawn. `CallGrpc` is a
call through the client interceptors with the handler's context or a detached one,
with or without the incoming metadata passed on. `CallHttp` is `GetJSON` or
`PostJSON`; `Do` sets no request id, so ids end there. `Redirected` is
`net/http` following a redirect, `Answer` the called service, `DecodeJSON` the verdict.

Left out: methods and durations in log lines, URL joining, default headers (one
could carry a fixed id), retries of `net/http` on a stale connection.

### Camunda

`FromEnv` are the configurations the environment can give, of which only the presence
of fields matters; `BuildZbcConfig` says which credentials come of them, or an error.
`PublishMessage` is followed by `NotSent`, `Taken`, `Unauthenticated`, `AnswerLost` or
`Answered`; whether zbc sends again is `ShouldRetryRequest` (the basic provider's is in
the repository, the OAuth provider's external). The broker keeps a message until a
process instance waits for it (`Correlate`) or its time to live ends (`Expire`).

Left out: the gateway's own deduplication (it needs a message id, which
`PublishMessage` does not send), defaults of audience, region and URLs.

## Runs

| Run | Shows |
|---|---|
| `request_pipeline` | in four orders of the chain: only two causes end the process (`CrashNeedsCause`); a 504 means a deadline (`TimeoutAnswerNeedsDeadline`); the writer is not used after the response unless Timeout gave up (`LateOnlyIfCut`); a once-answered request is logged as sent (`LoggedStatusIsSent`); a survived panic is answered by Recovery (`RecoveredPanicAnswered`); a stuck handler delays nobody (`AnsweredDespiteStuckHandler`) and one that watches its context ends (`AbandonedHandlerStops`) |
| `recovery_order` | **violated**: `RecoveryRecovers`. With Recovery outside Timeout a handler's panic ends the process: `timeout.go:20` runs it on a goroutine Recovery's `defer` is not on |
| `mongo_client` | no nil handle, one dial, no orphaned pool, one verdict, no success without a reachable cluster, every call returns; and the abstract client (`ImplementsConnection`) |
| `health_check_sticky` | **violated**: `HealthCheckTellsTheTruth`. One caller with a short context fails the first ping; from then on every health check fails although the cluster answers (`client.go:94`) |
| `kafka_consumer` | at-least-once (`NoSkip`), order of first deliveries (`AttemptedIsPrefix`), the committed offset goes back only after a rebalance overtook a message in hand (`RewindNeedsStaleCommit`), draining (`Drains`), termination after cancel (`StopReturns`); and the abstract delivery (`ImplementsAtLeastOnce`) |
| `audit_pipeline` | an acknowledged Emit is on the topic unless a failing leader took it (`AckedIsOnTopic`), is at every moment recorded, refused by the sink's handler, or still ahead of its consumer (`AckedIsAccountedFor`), and reaches the collection unless a leader or the sink's handler failed (`AckedIsRecorded`); one fact comes under two ids only after a failed Emit with a blank id (`TwoIdsNeedFailedEmit`); Emit returns, also from a closed Producer (`EmitReturns`) |
| `audit_order` | **violated**: `PerEventOrder`. An event emitted again under its own id lands on another partition (`producer.go:24`) |
| `telemetry` | a failed Init or a finished shutdown leaves nothing open or in service (`NothingStaysOpen`); each record reaches both sinks under the same keys, unless a group was opened after an attribute (`SinksAgree`); a record logged while telemetry is online is exported or known to be shed (`OnlineRecordsSettle`); a shutdown leaves no record queued, whichever of its parts fail, and loses one itself only under an error of the log provider (`ShutdownFlushesOrReports`); until it comes to the logs the batch processor may still shed |
| `repository` | `FindOneAndDelete` hands out an insertion once (`HandedOutOnce`); a reported unique index holds, racing upserts included (`OneDocPerCode`); a replace loses a write, or saves nothing, only when something later than its copy happened (`LossNeedsLaterWrite`); a scan in the order of an immutable, unique key misses a document only if one before it came or went (`MissNeedsShift`) |
| `field_codecs` | what the service stored it can load, up to the layout (`LoadsWhatItStored`); loading, showing, sending back and storing changes nothing in the database (`EchoIsStable`) |
| `service_calls` | a gRPC call with its handler's context is served and logged under the caller's id (`IdFollowsTheCalls`); nil from `PostJSON` means a POST and a 2xx, but for two named exceptions (`NilMeansPosted`) |
| `camunda` | a fact is correlated twice only after a failed `PublishMessage` (`TwiceNeedsFailedPublish`); `Enabled` denies nothing that `New` accepts (`UpMeansEnabled`) |

Some of these name exceptions, which are what the code does: a header map used by two
goroutines, a failed handler, a lost leader, a duplicate after an error, a year without four digits, a redirect.
Such a property *confines* its hazard, it says that nothing else goes wrong there; it does
not exclude it. The notes of the `hazards` say which are only confined.

### Bounds

* `Requests = {r1}`. Requests share only `proc`: one more request adds no
  interleaving to the other's writer, context or log. The proofs have no bound.
* `MaxCalls = 2` answers of a handler: a superfluous `WriteHeader` and an envelope after
  another both need two; the third meets the same writer as the second.
* Four chains: Recovery outside, inside, on both sides; Logging outside, inside
  above Recovery, inside below it.
* `Procs = {p1, p2}`, two calls each, one outage: one goroutine inside the Once and one
  waiting, a call after the failed or closed attempt, a cluster that goes down
  after the first ping and one that comes back. The cluster may also start down.
* `Consumers = {c1, c2}`, one partition, `MaxOffset = 2`, two disturbances (crash,
  relaunch, unforced rebalance, lost commit). No rule of the loop or the group
  relates two partitions except the dealing, and it is nondeterministic. Two
  messages are needed for an offset to move back over a commit, two disturbances
  for a redelivery that is itself disturbed. Rebalances forced by a member that
  left are not counted as disturbances.

* Audit: one fact, two callers, two partitions, two Emits, two attempts of the Writer, one failing
  leader. One fact suffices because facts meet only in the order of a queue, which no
  property but `PerEventOrder` is about; two callers so that an answer may come when another
  caller has taken the fact over; two attempts for a duplicate written by the Writer, two Emits
  for one written by the caller. `MaxAttempts` is kafka-go's default of ten cut to two.

* Telemetry: two Inits, so that one starts from what a failed or shut down one left;
  three records, one below stdout's level, against a queue of one, so that the queue
  overflows; loggers derived by up to two steps, the least for an attribute before
  and after a group.
* Repository: two callers, two documents of one code, two requests or scans in all, an
  int of eight bits. Two documents are the least for a duplicate, a page boundary
  and a request that ends half way; two requests for every race of one with
  another; reads and replication are not counted. Two documents end a scan long before the skip
  overflows, so the run says nothing of the wrap: its proof does (`SkipBounded`). The code is shared because only
  documents of one code interact. The proofs have no bound.
* Fields: a day of two seconds, a year of one day, three legible years: the
  conversions use only remainders of days and seconds and the order of the three
  marks, and the times reach from before year 0 to past the last legible year.
* Calls: four requests and two HTTP calls: a grandchild and its sibling, or a POST
  with two redirects beside another call.
* Camunda: one fact (facts share nothing), three publications, two waiting
  instances: one more than it takes to be correlated twice.

Deadlock is checked for the request pipeline and for the Mongo client (the calls used up are an
explicit `Quiet` stutter; a finished or crashed pipeline likewise). It is not
checked for the consumers, where with every process down for good the system really
stops, nor for the audit pipeline, telemetry, the repository, the calls between
services and Camunda, which come to rest when their bounded work is done. It is checked
for the fields, which can always be loaded again.

### Fairness

Weak fairness of each goroutine's own steps: Go's scheduler is preemptive and the
runtime's timers fire, so a step that stays enabled happens.

* Pipeline: the server goroutine, the handler goroutine's steps inside the
  library's code, and the deadline. A handler returns *by itself* never, by
  assumption; it returns on a finished context only if its request is in
  `cooperative`, an arbitrary set. Clients never have to disconnect.
* Mongo: a call in progress goes on. This covers a ping of a dead cluster, because
  the driver bounds it by `ServerSelectionTimeout` (`client.go:91`). Nothing is assumed of the cluster,
  of contexts or of new calls.
* Kafka: the loop goes on, so handlers are assumed to return, and a partition without
  a live owner is rebalanced (the broker's session timeout). `Drains` assumes that from some
  time on every member's loop runs (`Serving`): a Reader that is open under a
  stopped loop keeps its partitions, as a hazard notes.

* Audit: a caller inside Emit goes on, the Writer's attempts end (its read and write
  timeouts), followers replicate, and the sink's consumer delivers what is readable, which is
  what `Drains` says of `KafkaConsumer`. Contexts need not end.
* Telemetry: an Init or a shutdown under way goes on (each exporter has a timeout of ten
  seconds, `telemetry.go:70`), a goroutine that logs goes on, and the batch processor
  exports. Nobody has to call Init or shutdown.

The other modules state no fairness: their properties are about safety.

## What is proved

TLAPS checks these for every value of the constants: any set of requests, chains,
goroutines, consumers, partitions, documents, records, times and any bound.

* `RequestPipeline_proofs`: `TypeCorrect`, `WriterNotUsedLate`, `TimeoutMeansDeadline`,
  `CrashesExplained`, `LogIsTrue`, `PanicsAnswered`. None is inductive as it stands. The first needs
  the bound of the frame counters by the chain's lengths. The others rest on four
  invariants: `PhaseInv` relates the two control points (a
  server goroutine past its select by `done` means the handler goroutine has
  ended; past it otherwise, `exit` says why and the context has ended for that reason),
  `WireInv` says that only a server goroutine on its deadline path has put a 504
  or a `timeout` piece on the wire, which needs that a handler never answers 504 by a
  call of its own, and `PanicInv` that a panic that unwinds past an inner Recovery has
  been stopped by it. `AnswerInv` accounts for the answers: a status line on the wire is
  one of those begun and not still pending (`FirstAnswer`), so with one answer at most the
  `statusWriter` and every log line agree with the wire at each frame a return or a
  panic passes (`LogAgrees`), and from Recovery's status line on, what it wrote is the end of
  the body (`PanicAnswered`).
* `MongoClient_proofs`: `HandlesAreSet`, `OneDial`, `NoOrphanPool`, `OneVerdict`
  from one invariant: at each control point inside the Once, which of `connErr`, `client`,
  `db`, `pool` have been set (`Attempt`); what a completed Once leaves
  (`Settled`); and that whoever passed it may rely on that (`Passed`).
  `ClientIsConnection` is the refinement, from the same invariant: `OnceEnd` is
  `Settle`, what tells a caller the outcome is `Tell`. `HealthyMeansReached` adds that a
  health check past its ping has seen the cluster up.
* `KafkaConsumer_proofs`: `TypeCorrect`, `NothingSkipped`,
  `FirstDeliveriesInOrder`, `RewindsAreStaleCommits`. `NoSkip` is not inductive:
  it needs that everything before a message in hand was attempted
  (`HeldAfterAttempted`), and everything before a live owner's position except the message in its
  own hands (`PosAfterAttempted`). For the rewind, `FreshHeld` and
  `FreshPos` say that a message not overtaken by a rebalance is at or after
  the committed offset and belongs to the partition's owner.

* the same module: `GroupImplementsAtLeastOnce`. The step that matters is `Handle`: `HeldAfterAttempted` makes it
  an abstract delivery; every other step but `Produce` is a stutter.
* `AuditPipeline_proofs`: `TypeCorrect`, `AcknowledgedIsPublished`, `AcknowledgedIsAccountedFor`,
  `IdsAreStable`. That an acknowledged event is published needs that a positive answer waiting for its
  caller already concerns a fact on the topic or lost (`AckInv`), and that steps keep such facts so
  (`SafeStays`). That it is accounted for needs that what is readable stays as it is (`ReadableStays`), so what the
  handler was given is still there and was stored or refused (`HandedInv`). For the ids, `EventsSound`
  bounds those in flight and on the logs by the number of Emits, and `TriesBound` says that all Emits of a
  fact but one have failed.
* `Telemetry_proofs`: `TypeCorrect`, `AllOrNothing`, `BothSinksGetEverything`,
  `ShutdownLosesNothingSilently`. `Standing` says of each signal what is open and installed at each
  point of Init and shutdown, by comparing it with `step`; `Passed` where a record
  has been when it is at a child of the fan-out; `QueuedAreHeld` that a record whose
  fate is `"queued"` is in the queue, which a shutdown empties.
* `Repository_proofs`: `TakenOnce`, `CodesStayUnique`, `LossIsExcused`, `ScansMissNothing`. The first needs an account
  (`Accounts`): times handed out, and one more if the document is there, are no more than the
  times it was inserted. The third needs to know what a copy is worth: `CopiesFresh` and
  `VersionsFresh` say that a copy, and each version it may be read from, shows exactly the writes the
  primary shows, or the document was written, or died, after it. `Requested` keeps the requests to
  those the methods make, `Indexed` that a reported index stands without duplicates. For scans the argument is about ranks:
  a document with no change before it has the same rank in every version the scan may read
  (`SameRank`), a page is the documents whose ranks follow its skip (`PageOfRanks`), and what
  is steady and not yet seen has a rank behind the pages read (`Behind` in `ScanInv`). The skip
  is an int: when `(page - 1) * size` overflows it is never past the first document the page should
  show (`SkipBounded`). Two facts about numbers are proved on the way: a set of them has a least element
  (`LeastOf`, from the well-founded order), and ranks count as many as they number (`RankedCount`).
* `FieldCodecs_proofs`: `StoredIsLoaded`, `EchoStays`. The lemmas are the codecs' laws, for every
  time: what a layout keeps it keeps for good (`ShownTwice`), so a value that went to BSON or to JSON
  and came back is stored as the first was (`BSONTrip`, `JSONTrip`, `IdTrip`). `EchoInv` carries them over any
  number of trips: a value in the service or in a client's JSON that comes from the database alone is stored as `K`,
  what the database holds, or what the first load and store make of another program's value.
* `Clients_proofs`, of `ServiceCalls`: `IdsFollow`, `NilIsAPost`. An invariant for each node (a parent before it, an
  id from the first carried value or its own) and one for each call (where its
  redirects have led: still a POST, or a GET that a POST of the same caller was redirected to).
* the same module, of `Camunda`: `CamundaTypeCorrect`, `TwiceOnlyAfterFailure`, `ClientIsEnabled`. While no
  `PublishMessage` of a fact failed, at most one message of it exists, and none before it was taken
  (`Accounted`): the only retry zbc makes by itself is of a request the gateway refused.

The seams are proved from both sides. `KafkaConsumer` and `MongoClient` implement `AtLeastOnce` and `Connection`;
the modules above take only the abstract modules' steps (`SinkIsAGroup` in `AuditPipeline_proofs`, where replication
is the append and a failing leader takes nothing readable; `ClientIsAConnection` in `Repository_proofs`); and what the abstract
modules promise holds of their users: `SinkDeliversInOrder`, `CallersToldAlike`.

The assumptions are the modules' `ASSUME`s: bounds are natural numbers, a chain holds Logging on one side
only, `Nobody` is not a consumer, every document has a code, days are whole seconds, the zero time and
the end of year 9999 are midnights, and the zero time comes before it.

Every invariant and every action property that a passing run checks, and both refinements, are stated by a theorem.
Only model-checked are the
liveness properties (`AnsweredDespiteStuckHandler`, `AbandonedHandlerStops`, `EveryCallReturns`, `Drains`,
`StopReturns`, `AckedIsRecorded`, `EmitReturns`, `OnlineRecordsSettle`): the prover has no rule for
fairness or `ENABLED`. `AckedIsAccountedFor` is what can be proved of `AckedIsRecorded`. The library's induction
theorems take an operator as a parameter, which the provers cannot instantiate; the one induction
needed here (`LeastOf`) goes by a set of numbers instead.

## Not modelled

* Redis: delegations to go-redis; CORS: a constant handed to a third party.
* `apperror` and `validator`: stateless tables and formatting, covered by their unit tests.
* `kafka/config.go`: a choice of SASL and TLS by four strings, without state.
* `mongo/bsonutil.go` and `collection.go`: regular expressions and names, character by character.
* In the modelled files, what each section above lists as left out.

## Where comments and code differ without a run

Met while modelling; the models follow the code.

* `client/http.go:97` "Non-2xx responses return an error": only 400 and above do
  (`http.go:136`); `NilMeansPosted` names the exception.
* `mongo/datetime.go:107` "1 Jan 0001 base": a parsed `TimeOnly` is in year 0, only the zero value in year 1.
* `mongo/datetime.go:64` "midnight UTC": a `DateOnly` read from a native date or RFC 3339 keeps its time of day.
* `mongo/objectid.go:44` "null so MongoDB can auto-generate": the server stores a null `_id`
  as it is. `Entity` avoids it with `omitempty`.
* `mongo/repository.go:232` "atomically upserts": without a unique index two of them may insert twice.
* An `_id` that another program stored as a string of 24 hex digits is loaded, and written back as an ObjectID;
  `ReplaceByID` (`repository.go:286`) never finds the document it came from.
* `telemetry/telemetry.go:7` `defer shutdown(ctx)`: on an error `Init` returns a nil function.
* `logger/logger.go:62` names the X-Request-ID middleware as a user of `WithRequestID`; only the gRPC
  interceptors call it.

## Findings

1. `RecoveryRecovers` (run `recovery_order`): `middleware/recovery.go:11` promises a 500
   for a panic; where Recovery stands outside Timeout the panic ends the process, because
   Timeout serves the rest of the chain on a goroutine without a `recover`.
2. `HealthCheckTellsTheTruth` (run `health_check_sticky`): `mongo/health.go:10`
   "verifies the cluster is reachable", but the error of the first attempt is kept.
3. `PerEventOrder` (run `audit_order`): `audit/kafka_emitter.go:30-33` "keyed by event_id so
   Kafka partitioning preserves per-event ordering", but the producer's balancer ignores keys.
