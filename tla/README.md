# A TLA+ verification project for Genus

Genus is an ORM for Go. This directory holds TLA+ models of its query builder and
of the parts of it that keep state or talk to a database in several steps, the TLC
configurations that check them on small instances, and TLAPS proofs of some of
their properties for every instance. Paths are relative to the repository.

`PROJECT.json` lists the components, the runs, a mutant of the code for every
property, the source lines behind every definition, the findings, the hazards
and the theorems.

## 1. The system

| Part | State | Operations | Talks to | Hard behaviour |
|---|---|---|---|---|
| Event store, `eventsourcing/event.go` | tables `events` and `snapshots`, `es.mu`, aggregates in memory | Append, Load, LoadFromVersion, RaiseEvent, Save, snapshot Save and Load | the database, domain code (`Apply`, handlers) | writers in several processes, Append fails in the middle, answers get lost, crashes |
| Circuit breaker and retry, `core/circuit_breaker.go` | state, two counters, time of the last failure | Allow, RecordSuccess, RecordFailure, Reset, WithRetry | an executor, the clock | results that arrive after the state changed, recovery |
| Query cache, `cache/cache.go`, `query/cached_builder.go` | entries, order, Size | Get, Set, Delete, DeleteByPrefix, Clear, Find | the builder, the application that invalidates | a Find racing a write, expiry, eviction |
| Serverless pool, `cloud/pool.go` | warm connections, statistics, `running`, `stopChan` | Start, Stop, Conn, ReleaseConn, two background loops | `sql.DB` | loops against callers, repeated Start and Stop |
| Migrator, `migrate/migrate.go` | control table, registered migrations | Up, Down, Status | the schema, the connection pool | several runners, a crash between migration and record |
| CRUD, transactions and batches, `core/db.go`, `core/batch.go` | rows, models in memory, transactions | Create, Update, Delete, ForceDelete, WithTx, BatchInsert, BatchUpdate, BatchDelete, BatchDeleteByIDs | hooks of the application, the database | one step of several failing, models that are out of date |
| Read replicas, `genus.go`, `core/multi_executor.go`, `core/context.go` | open databases, round-robin counter | OpenWithReplicas, routing of reads and writes, WithPrimary, Close | primary and replicas | read-your-writes, INSERT ... RETURNING sent as a read |
| Sharding, `sharding/`, `core/shard_executor.go` | hash ring, open databases, counter | NewShardManager, GetShard, routing by context, ExecOnAllShards, QueryAllShards, Close | `sql.DB` of each shard | a shard that fails to open, keys moving when a shard is added, goroutines of one call |
| Subscriptions, `core/subscription.go` | subscriptions by channel, `sm.mu`, a goroutine each | Subscribe, Unsubscribe, Cancel, Close, Watch | LISTEN and UNLISTEN | Subscribe against Unsubscribe and Close |
| Query builder, `query/builder.go`, `condition.go`, `field.go`, `mutation.go`, `subquery.go`, `aggregation.go`, fast builders, dry run | conditions and options of an immutable builder | Where, And, Or, Not, subqueries, Find, First, Count, Update, Delete, aggregations | the dialect, the database | numbering of placeholders, NULL, conditions that a statement leaves out, slices shared by clones |
| Cursor pagination, `query/cursor.go` | the cursor of the last row | Paginate, Fetch | the builder | rows inserted and deleted between pages |
| Row readers, `query/iterator.go`, `scanner.go`, `prepared.go` | an open result set | Find, Each, Each2, Exec | `sql.Rows`, AfterFind | a row that does not scan, a connection that breaks |
| Preload, `query/preload.go`, `core/relationship.go` | results and their related rows | executePreload, five relations | the database | changes between the query and those of the relations |
| Upsert, `core/upsert.go` | the position in the batch | Upsert, BatchUpsert | ON CONFLICT, ON DUPLICATE KEY | windows without a transaction, other unique keys |
| Cloud adapters, `cloud/adapters.go` | handles | constructors, Close, RunTransaction | `sql.DB` | retry after a conflict, never after a commit without an answer |
| Schema diff, `migrate/diff.go`, `migrate/auto.go` | none; the catalog | GetCurrentSchema, Diff, GenerateMigration, AutoMigrate | the catalog | a change refused half-way |
| N+1 detector, profiler, `query/n1detector.go`, `core/profiler.go` | recent queries, detections, statistics | Record, Clear | executors | records out of order, limits |
| CQRS buses, event bus, `cqrs/cqrs.go`, `eventsourcing/event.go` | handlers, middleware, subscribers | Register, Use, Dispatch, Ask, Subscribe, Publish | handlers, a cache | registration during a call, results kept too long |
| Tenants, `core/tenant.go` | the session of each connection | SetSearchPath, SetTenantSession, ApplyToQuery, CreateRLSPolicy | PostgreSQL | sessions of pooled connections |
| Audit log, health checker, optimizer, dialects, code generation, GraphQL and gRPC schemas, playground, tracing | none that others depend on | text building, instrumentation | | |

What makes the modelled parts correct:

* **Event store.** The stored versions are 1 to n without holes; a row is never
  changed; an event is stored once however often Save is retried; an aggregate
  or a snapshot at version n is the replay of events 1 to n.
* **Circuit breaker.** It opens on the threshold, neither before nor after, stays
  open for its timeout, closes only on calls that the database answered while
  it was half-open (and on QueryRow calls, whose errors it does not see), and
  recovers when the database does.
* **Query cache.** Find returns the rows of the query it was asked for, or of one with
  the same key; entries are counted, bounded and can be evicted; after an invalidation nothing
  outdated stays, except what a Find that overlapped the write put there.
* **Serverless pool.** The list of warm connections is bounded and counted and does
  not starve plain statements. It should shrink to its configured size and does not
  (section 5).
* **Migrator.** What is recorded was applied, in version order, whoever races;
  undisturbed, table and schema agree; calls return.
* **Records.** A failed transaction leaves no trace; the id set on a model is that
  of its row where the database's answer tells it; a failed BatchInsert leaves whole
  batches; a row is marked deleted only on request.
* **Subscriptions.** The session listens to the channels of the subscriptions that
  are entered, and to no others; Close cancels them all.
* **Sharding.** A key is on the shard of the next point of the ring; a new shard
  takes keys from the others and moves none between them; statements without a key
  are spread evenly; no database stays open after a failure or after Close; answers
  of all shards keep their places.
* **Query builder.** A statement finds or changes exactly the rows of which the
  caller's conditions are true, in SQL's three-valued logic; the fast builders,
  aggregations and dry runs agree with it; builders derived from one another keep
  the calls made on each.
* **Pages, readers, preloads.** A walk shows every row that stays once, in order;
  a reader loses no row without an error; a result gets its own related rows.
* **Replicas, adapters, upsert.** Statements WithPrimary read what was written before and
  write there; writes should always go to the primary, and those of Create do not
  (section 5); a transaction has its effect once; a window of an upsert is stored
  whole or not. UpdateWhere is kept by Upsert on PostgreSQL and by no batch (section 5).
* **Schema diff.** When all changes have run, the database has the models' tables
  and columns.
* **Watchers and buses.** Bursts are reported and the newest statements kept; a
  command is handled once, a query answered with its own result or the cached result of one
  that prints alike, an event given to every subscriber.
* **Tenants.** A transaction that was given a tenant and set it reads nobody else's rows.

## 2. Modules

| Module | Content |
|---|---|
| `EventLog` | abstract specification: an append-only log |
| `EventStore` | the event store; instantiates `EventLog` (`ImplementsLog`) |
| `EventStoreProofs` | its theorems |
| `CircuitBreaker`, `CircuitBreakerProofs` | breaker, executor and WithRetry; theorems |
| `QueryCache`, `QueryCacheProofs` | the cache under CachedBuilder.Find; theorems |
| `ServerlessPool` | the pool and its loops |
| `Migrator`, `MigratorProofs` | the migrator; theorems |
| `Records`, `RecordsProofs` | CRUD, transactions and batch operations; theorems |
| `Subscriptions`, `SubscriptionsProofs` | the subscription manager; theorems about it and about `Buses` |
| `HashRing` | the sharding strategies as operators, and the reference definition of the ring |
| `Sharding` | shard manager and shard executor, on top of `HashRing` |
| `Conditions` | conditions as the field types make them, and what they mean in SQL's logic |
| `SqlText` | from conditions to text and arguments (builder, aggregations, fast builders), and the database's reading of them |
| `Statements` | a chain of calls ended by a statement, on top of `SqlText` |
| `BuilderFamily` | clones and their slices |
| `Pagination`, `RowReading`, `Preloading` | cursor pages, row readers, preloads |
| `ReadReplicas`, `CloudAdapters`, `Upsert`, `SchemaDiff` | one component each |
| `QueryWatch` | N+1 detector and profiler |
| `Buses` | command, query and event bus |
| `Tenancy` | tenants on pooled sessions |
| `QueriesProofs` | theorems about `BuilderFamily`, `RowReading`, `Preloading`, `QueryWatch` and `Pagination` |
| `ServicesProofs` | theorems about `Sharding`, `ReadReplicas`, `CloudAdapters`, `Tenancy`, `ServerlessPool` and `SchemaDiff` |
| `MC...` | instances for TLC; `MCStores`, `MCConnections`, `MCQueries` and `MCServices` put several modules side by side |

`TypeOK` is stated where a proof rests on it; the other modules are checked for
what their parts owe each other only.

Definitions called "Mutated form of ..." or "Mutant" are variants of a following definition with
a plausible bug. No specification uses them; each shows that some property
notices that bug.

### EventStore

One stream (one aggregate id and type) is modelled, since every statement is keyed by
that pair. `events` and `snapshot` are the tables; `ver`, `unc` and `hist` are
Version, uncommitted events and domain state of each writer's aggregate; `mu` is
`es.mu` of each process. `hist` remembers which event was applied for which
version and by what (its handler, Apply, or twice), which is all the properties
ask of the domain state. Every SQL statement is a step: Append opens no
transaction, so `InsertOk`, `InsertFails` and `InsertLostAck` interleave with
other writers and with `Crash`. The UNIQUE key decides races: an insert under a
taken version can only fail. The primary key on the event's id is left out: an event is
repeated under its own version, which the UNIQUE key refuses first. After a failed Save the aggregate keeps all its
events and Save may be called again, as the code allows.

### CircuitBreaker

Allow, RecordSuccess, RecordFailure and Reset hold `cb.mu` throughout and are one
step each. Between them a call is in flight (`pc = "flight"`), so its result may be
recorded in any later state. Time is the number of ticks since the last failure,
cut at Timeout, where the code's comparison no longer changes. `realFails` and `okRun`
are history variables: calls in a row that the database failed, or answered without an
error, computed from its answers and not from what the breaker was told. The
two differ for QueryRow, which is recorded as a success before Scan shows its error:
`blind` and `hidden` say that such a call was recorded since the last real success, and
since the circuit became half-open.

### QueryCache

Get reads under the read lock, releases it, and only then tests expiry and
deletes: `Find`, `Hit`, `Expired`, `RunQuery` and `Fill` are separate steps. A value
is the query and the version of the table it was read at. The key is what
QueryCacheKey hashes: table, text and the arguments run together without
separators; the hash itself is taken to be free of collisions. The entry is the JSON of the
rows, and a value is taken to come back from it as it was. `late` marks
entries that were outdated when they were stored.

### ServerlessPool

Connections are interchangeable, so they are counted. A critical section of `p.mu` is
one step, except warmUp, which waits for connections while it holds the lock. `sql.DB`
is external: it lends at most MaxOpenConns connections and keeps as many idle ones as
MaxIdleConns says. Each Start creates its own two loops (`hpc` is the place of its health
loop, `scaling` says that its scale-down loop runs), and all of them listen to the one
`stopChan`; `place` is where a client is. `TickingSpec` adds that the tickers of the
loops fire again and again.

### Migrator

A runner reads the control table, then, for each pending version, begins a
transaction, runs the migration on `m.db` (another connection), writes the record and
commits. Migrations are DDL: Up fails when the effect is there already.
`Registered` differs between runners, as in a rolling deployment.

### Records

A model is an id, a value that stands for the other columns and a deletion mark.
Calls (`CallInsert`, `CallUpdate`, `CallDelete`) set the models; then come the hooks
and the statement, one step for each batch or model; then the hooks after it.
`Mark` is apart from the statement because soft deletion changes the model before
the UPDATE runs. The database is external: an open transaction keeps what it replaced
in `undo` and locks those rows. Which of the three databases it is (`dialect`) is chosen at
the start; it decides what an INSERT answers and which keys it gives. `IdsTold` says when that
answer determines the keys of the rows: always with RETURNING, on MySQL when the models bring no
ids, and otherwise for one row. A transaction is of WithTx (`"user"`) or of BatchUpdate
itself (`"own"`); PostgreSQL refuses further statements after one has failed.

### Subscriptions

Subscribe is two steps, since LISTEN is sent before `sm.mu` is taken: `Listen`, then
`Register`. Unsubscribe cancels (`Unsubscribe`), then removes the entry and sends
UNLISTEN under the lock (`Unregister`, `UnlistenFails`). Close cancels the manager's
context and then sweeps the entries. The session is external. It is taken to be one
session; over a `sql.DB` with several connections LISTEN and UNLISTEN may even
reach different ones. Handlers are left out: the polling goroutine never calls them.
`overtaken`, `left` and `before` are history variables: subscriptions that an
UNLISTEN overtook, channels that an error or Close left on, and subscriptions
made before Close.

### HashRing and Sharding

The hash is external: `point` gives the place of every virtual node, and a key
brings its hash. `Ring` is the insertion sort of the points in the order Build
appends them, `Nodes` the map in which a later shard overwrites an earlier one at a
shared point, `BinarySearch` the loop of the code. `Sharding` opens one shard
at a time; each goroutine of a call for all shards is one step, and Close may
come between them. `dest` is the shard of the last statement, or `Panic` if the
index was outside of the slice. The counter is not cut to 64 bits: one statement in
2^64 could break the turn.

### Conditions, SqlText and Statements

A condition is a record (`cond`, `group`, `sub`, `exists`, `raw`); `FieldConditions`
yields, for each of the twelve field types, exactly the operators its methods
offer. The text of a WHERE is not a string but a tree of tests whose operands are
places in the argument list: on PostgreSQL the number written in the text, elsewhere
the order of the question marks. This is what numbering can get wrong, and all that
is kept of the text. `Passes` is the database: it evaluates the tree on a row with
the arguments that were sent, in three-valued logic, and refuses text that no
database parses (an empty group, a place without an argument, a slice as an
argument). The caller's wish is kept apart, in `asked`, and evaluated by `Holds`
without any text; the properties compare the two. `Plain` says for which conditions
the statement is meant to be exact; what it leaves out is in section 6.

### BuilderFamily

A Go slice is a backing array, a length and the array's capacity; `append` writes in
place if there is room. Two goroutines clone and append to any builder made so far,
with the clone and the append as separate steps. `chained` is what each builder's own
calls appended.

### Pagination, RowReading and Preloading

`Fetch` adds the condition of the cursor, asks for one row more than the page, cuts it
off and makes the new cursors; it yields a set of pages, because the database may put rows with
equal values in any order, also in another one from one page to the next. A cursor's value
passes through JSON and is rounded from 2^53 on (`Exact`). Other clients insert and delete between pages. `RowReading` describes
each of the eleven readers by six facts read off its loop and runs it over good rows, rows
that do not scan and rows whose hook fails. `Preloading` reads the results, then each
relation with its query; `whole` is what the relation held at that moment.

### ReadReplicas, CloudAdapters, Upsert and SchemaDiff

OpenWithReplicas opens one database after the other; when one does not open
(`OpenReplicaFails`), it closes those it has, as Close does, one by one (`CloseNext`), with
statements still under way. Replicas apply the primary's log with a delay and refuse to
write. A statement chooses its database (`target`) when it is called and is answered later;
`want` is what its caller asked for. `Create` sends its INSERT with QueryRowContext. The
counter wraps at `Wrap` (2^64 in the code).
`CloudAdapters` runs transactions that add one to a counter under serializable
isolation; a commit can succeed, conflict, or get no answer with or without
effect. `Upsert` applies a window row by row the way PostgreSQL (`OnConflict`) and MySQL
(`OnDuplicate`) do; SQLite is sent the MySQL form and refuses it. Which statements are built
without their UpdateWhere is `WhereIgnored`; what must be in the table after the
others is `StoredOnConflict` and `StoredOnDuplicate`. `SchemaDiff` reads the catalog table by table, compares, and runs the
changes one by one; nothing in the code runs them, they are written into a migration, so
`RunChange` is external, with the order of the list and the effect of each text as the
code has them. Types are texts that the catalog spells in its own way. Catalogs and models
are constants: the run takes small ones, the proof any.

### QueryWatch, Buses and Tenancy

Record of the detector takes the time (`Stamp`) before the lock (`DetectorRecord`).
A call on a bus carries its copies of handler and middleware; each middleware's
way in and way out is a step. A query is a struct with string fields, each a sequence of
words; `QueryKey` is the text that CachingQueryMiddleware makes of it (`cqrs/cqrs.go:338`), in
which fields and words are separated by the same blank. `Tenancy` has sessions on connections,
which keep what SET changed, and transactions that take it back when undone; PostgreSQL is
external. `ApplyToQuery` adds an argument for which the text has no placeholder:
the statement is refused or runs without a condition, as the driver has it. DefaultTenant is not
there, because no code reads it.

## 3. Runs

| Run | Instance | What it shows |
|---|---|---|
| `stores` | 3 writers, 2 processes, 3 events, snapshot every 2; or 2 readers, 1 writer, 3 queries of 2 tables, 2 entries | event store: `ImplementsLog` (append-only, no gaps), one row for each event, aggregates and snapshots are replays; query cache: bound, answers and invalidation |
| `circuit_breaker` | 2 clients, thresholds 2, timeout 2, one retry, Exec and QueryRow | the four threshold and timeout properties, the circuit stops rejecting |
| `connections` | pool: 2 clients, 1 controller, 1 warm, 3 open; or migrator: 3 runners, 3 versions, 2 releases, 4 connections | pool: bound and statistic, statements served; migrator: order and presence, agreement, return |
| `records` | 2 clients, 1 row at the start, ids to 3, up to 3 models in a call, batches of 2, 2 calls, three dialects | the three properties of section 1 |
| `queries` | 5 rows with NULLs and one removed, 12 field types, 2 calls before the statement, PostgreSQL and SQLite; 6 builders; 5 rows in pages of 2; results of 3 rows; 2 owners and 2 items | statements, shortcuts, mutations, clones, pages, readers, preloads |
| `services` | 1 to 3 shards, 3 hashes; 0 to 2 replicas; 3 clients of a counter; up to 3 models in windows of 2; 2 tables; 2 goroutines in the watchers; 2 callers of a bus and 2 queries with one text; 2 clients on 1 connection; 3 subscriptions, 2 of one channel | one property for each service, two for shards, three for subscriptions |
| `query_cache_args` | two argument lists with one key | violation: `AnswersTheQuery` |
| `pool_scale_down` | the pool of `CHANGELOG.md:234`: 10 open, 2 idle, 1 warm, 2 clients | violation: `SurplusCloses` |
| `records_create` | as `records` | violation: `CreatedHasID` |
| `queries_raw` | as `queries` | violation: `MutatesOnlyMatching` |
| `replicas_create` | 2 goroutines, 0 to 2 replicas | violation: `WritesGoToPrimary` |
| `upsert_batch` | up to 3 models in windows of 2 | violation: `UpdateWhereHolds` |

### Why the bounds are enough

* `stores`, event store: three events let a batch of two fail between its inserts while
  another writer takes the next version, and let a snapshot (interval 2) be loaded
  and followed by one more event. Two writers of one process and one of another
  exercise both the mutex and the unique key. `Handled` is empty and
  `AppliesOnRaise` holds; what happens otherwise is in section 6.
* `circuit_breaker`: with thresholds of two, one failure is not enough and one old
  success can be left over. Two clients suffice for a result that comes after
  the circuit opened. Counters stop at `MaxCount`, which is at least both
  thresholds; the code compares them with the thresholds only.
* `stores`, query cache: three keys for two places force evictions; `MaxOrder` 4 lets a key be
  listed twice beside the others; one write with `TTL` 0 and one tick of the clock
  gives fresh, stale and expired entries.
* `connections`, pool: one warm connection of three leaves room for the surplus that two
  clients and the health check can make. MaxIdleConns is negative, so that the scale-down
  loop can act at all (section 5); with any other number it does nothing, and
  what the pool then does is among what it does here.
* `connections`, migrator: with three versions a middle one can be missing; version 2 has no
  Down; four connections are one more than the runners, without which they can
  wait for each other (section 6).
* `records`: three models in batches of two make a whole and a partial batch; two
  calls let a client act on a model that the other one changed, or retry its own; ids to 3
  leave room for models with and without ids of their own beside the row of the start.
* `services`, subscriptions: two subscriptions of one channel are needed for an Unsubscribe that
  leaves the other entered and for one that overtakes it; the third shows that
  channels do not disturb each other.
* `queries`: two conditions before a statement suffice for one to shift the arguments of
  the other and for a group or subquery before and after a plain one; the values of
  column a cover NULL, below, equal and above. Every operator of every field type occurs
  as the first condition; the shapes that do not depend on the type occur with int64
  only. MySQL differs from SQLite in no text of these statements. Three builders are
  needed for two clones of one origin that both append, six allow an origin that already
  has spare capacity. Five rows with a repeated and a rounded key make three pages with
  room for two changes between them.
* `services`: every placement of six points on three hashes (up to swapping the two nodes
  of a shard) has shared points, keys on a point, below the first and beyond the last. A
  counter that wraps at 3 with two replicas wraps unevenly, as 2^64 does with three; no
  replica, one and two are the cases of the routing. Three retries
  for three clients allow a client to lose to both others. Models in two windows, with keys
  that meet old rows by id, by email, by both and by none, on PostgreSQL and MySQL; on SQLite,
  where the first statement fails, one model. Two rounds let a refused round be
  repeated. The detector's windows are 1 and 2 instead of 10 and 2 in a time of 5, so
  that cleaning happens and removes something. Two handlers, two middlewares and two
  calls let a handler be replaced between and during calls; the two queries `{"x y", "z"}` and
  `{"x", "y z"}` print alike. One connection for two
  clients makes each find the other's session.

The parts of `queries` share no state and neither do those of `stores`, `connections` and
`services`: a behaviour runs one part and the others rest in a state that satisfies their properties trivially, which is
the same as checking each by itself. They are not claimed to be checked in interaction.

Deadlock is not checked for `Records`, where both clients may have used up their calls,
for `queries`, where a statement ends the behaviour, for `services`, where
calls are bounded in each part, and for the violation runs of these modules. Symmetry is used only where every property is
symmetric in the clients and no liveness is checked.

### Fairness

Weak fairness is assumed of steps that a goroutine takes by itself once it is
inside a call: the steps of WithRetry, of Up and Down, of the pool's
background loops and of ReleaseConn. Go runs runnable goroutines eventually, and
statements return, with an answer or with an error. The clock ticks. A
statement that waits in `sql.DB` gets a connection if one is free again and again
(strong fairness of `ExecRun`): `sql.DB` serves waiters from a queue. `pool_scale_down`
adds that the tickers of the loops fire (`TickingSpec`), so that its counterexample is the fault of
the loop and not of its never being run. Nothing
is assumed about calls being started, about the database being up, or about faults.
`StopsRejecting` assumes, in the formula itself, that the database stays up and calls
keep coming.

## 4. Proofs

All theorems hold for any sets of writers, clients, callers and runners, any thresholds and
any bounds. An assumption on a constant is an ASSUME of its module, which TLC
evaluates on the run; a theorem that needs more has it as a hypothesis, named below.

### Event store

`TypeCorrect`, `NoGaps` and `StoreImplementsLog` rest on `StreamInv`, the conjunction of
`TypeOK`; `StreamLength` (the table is a sequence: its domain is 1 to its length);
`QueueOK` (the uncommitted events carry consecutive versions that end at the
aggregate's Version, and the first follows a version that is stored); `LoopOK`
(in the loop of Append the events before the position are stored); and
`SnapshotStored` (a snapshot's version is stored). `NoVersionGaps` alone is
not inductive: that an insert lands right after the last row depends on where the
writer's aggregate started, hence on what it had loaded, possibly from a snapshot.
Refinement follows from `TableStep`: a step leaves the table alone or
extends it by one row at its end.

`StoredOnce` adds `IdentityInv`: no two queued events are the same, and a queued event that is
stored already, by an insert whose answer was lost or before a failure in the middle of the
batch, is stored under its own version, so that a repetition meets the unique key. `LoadedStateIsReplay` ties
`hist` to the table and to the queue at every location, also in the middle of a load and
for a snapshot about to be stored. Its hypothesis is `AppliesOnRaise`, that the domain
applies what it raises; without it a snapshot is behind its version (section 6).
Assumptions: the ASSUMEs of `EventStore` (an interval above zero, each writer in one
process).

### Circuit breaker

`BreakerInv` is `TypeOK`; `BelowThresholds` (closed means
failures below the threshold, half-open the same of successes); `CountersMatch` (the
counters of the breaker do not exceed the real runs the history keeps);
`ExactCount` (they are equal unless the breaker is blind); and `AttemptsLeft`. For
closing, `CountersMatch` says that the successes counted while half-open do not exceed the
calls the database answered without an error since then, unless a QueryRow hid
one (`hidden`); `ClosesOnSuccesses` is exact up to that, and says nothing of a circuit that closed
on failed QueryRow calls. The properties compare the breaker with history variables, so the link between the two
has to be in the invariant. Assumptions: thresholds and timeout positive, as
NewCircuitBreaker makes them.

### Query cache

`StaysInBounds`, `SetReturns`, `WritesInvalidate` and `AnswersByKey`. Every cached key is listed in `order`, which is why the eviction
loop of Set ends (`SetReturns`, the guard `LoopEnds` of the model never blocks) and why the
number of entries is bounded; that evicting the counted names frees a place is arithmetic on
finite sets. For invalidation (`FreshInv`) a reader about to call Set holds
rows of its own query, and a cached value that is outdated either was so when it was set or
belongs to a table whose writer has not invalidated it yet. `AnswersByKey` is the
strongest thing the code supports: the rows are those of *some* query with the same key.
That they are those of the query that was asked (`AnswersTheQuery`) is false of arguments
like (1, 23) and (12, 3), as the run `query_cache_args` shows, and is checked by `stores` on
queries with distinct keys only.

### Migrator

`RecordsCanBeTrusted` puts together `AppliedInOrder` and
`AppliedWhenRecorded`, which rest on `UpInv`: `TypeOK`, `RecordedPrefix`, `RecordedPresent` and
`UpProgress`, which says that the versions below the one a runner works on are
recorded and that, once its Up function has run, its effect is there. Hypothesis
`Releases`: every runner registers a prefix of the versions. Without it a runner that
lacks version 1 may record version 2 first. `TableIsSchema` needs no hypothesis: while
the history is clean one runner works at a time (`Alone`), and `AtWork` says at each of its
locations by which version table and schema differ.

### Records

`FailedLeavesNoTrace` rests on three facts. `Shape`: types, and what each location implies of
its transaction and its models. `AtStake`: a value written by an open transaction is only in
rows that transaction has locked and can restore, in no undo record, and in nobody else's
models. `Undone`: a value of an undone transaction is in no row, in no undo
record, in no model of a call under way, and in the models of one client at most. Values are numbered as
they are made, so a new one is never among the old. `MarksAreAsked` needs the models too: a
model is marked in memory before its statement runs, and a later Update writes the mark.

`BatchesAreWhole` and `InsertsAreExact` rest on `InsertInv`: the values of a call that
inserts are its own (`OwnValues`), and a BatchInsert stands at a multiple of BatchSize with
exactly the models before it stored (`WholeBatches`). `OwnValues` is what makes
the latter survive the steps of others, which may store at any time but never one of these
values. That the window is a whole batch unless it is the last one is
arithmetic (`BatchWindow`, `NextMultiple`). Both theorems hold on every dialect. For the ids
`InsertsExact` asks where the answer tells the keys (`IdsTold`): with RETURNING, for a
statement of one row, and on MySQL for a batch without ids of its own. That each model then has
the key of its row (`IdsSet`) is immediate with RETURNING; on MySQL the database numbers the
rows from the AUTO_INCREMENT it answers with, and the code counts up from there
(`NumberedKeys`, by counting the models before one in its window), for which AUTO_INCREMENT must
be an id after any step (`AutoStep`). That the key leads to the row with the model's own data
(`IdsNameTheirRows`) needs that the keys of one statement are distinct. What is reported in
the other cases is wrong in general (section 6).

### Subscriptions

`SubInv` adds to the four properties `PendingHeard` (a Subscribe
under way is heard or overtaken, which Register turns into the same fact of an
entry), `ActiveEntered` (what is active is entered, so the sweep of Close
reaches it) and `BeforeMade` (a subscription made before Close is not entered
again). `NoneDeaf`, `NoIdleChannel`, `AllCancelled` and `TypeCorrect` follow.
Assumption: every subscription has a channel.

### Command, query and event bus (`SubscriptionsProofs`)

`BusesExactHolds`: for a call on the command or query bus, `AskInv` counts the entries of the
log against the logging middlewares it has entered, places it before a validator that has
still to refuse it, and says that a result answers the query of the call if its handler ran, and
a query with the same text otherwise. Under a text the cache keeps only results of queries with
that text (`CachedInv`); the code supports no more, since different queries may share one
(section 6). A type for each number of the registry (`Named`) shows
that a result without a panic is of the handler's type. For Publish, `PublishInv` says that what was
heard is free of repetitions and in order, and that all subscribers there at the beginning of
the call have been reached up to the place in the list.

### Builders, readers and preloads (`QueriesProofs`)

`BuildersAreImmutable`: `Shows` says that a slice lies within its array and that its first
places are the calls of a chain; `FamilyInv` says so of every builder and every clone under way,
and that the slices of a clone are full. That is the whole reason the builder is immutable: an
append to a full slice moves to a new array (`GrownShows`), so no array is ever written
again and what others show stays (`ShownInMore`), also when two goroutines append
to clones of one builder and when Aggregate shares a slice. `CloneShows` uses the theorems on
finite sets for the order in which a clone copies its fields; `BuilderFamilyAssumption` therefore
says that a builder has finitely many.

`RowsAreDelivered`: before a reader returns, what it delivered is everything below its place if
no row was bad; a reader that goes on after a bad row tells of it (`ReaderKinds`, read off the
eleven readers). `PreloadsAreOwn`: what was read is part of what the relation held
(`ReadFrom`), all of it unless a query broke off, and each row goes to the key its query found
it by (`RowsGoHome`); for a polymorphic has-many, that key is the row's own type and id.

`WatchersExactHolds`: while records come in the order of their times, the detector has dropped
only what is older than KeepWindows windows before its last cleaning (`InTime`), so the
count of a pattern is the count of its whole window (`CountsWindow`), and a detection is there and
was told exactly if there was a burst (`Told`). The profiler numbers what it keeps up to the
last record without a gap (`Numbered`), and halving keeps that (`HalfKeeps`).

`WalksAreExact`: a walk has shown rows of distinct values that its cursor has passed
(`Ahead`), in strict order (`KeysInOrder`), and of the rows that stayed all those
it has passed (`Shown`): `PageInv`. The second and the third are needed together: a row beyond the cursor was not
shown, so the next page cannot repeat one, and a row left out by a page lies behind
its last. `FoundRows` says this of any answer of the database, `PageRows` of the page, turned
round or not, and `CursorSides` shows that a cursor rounded by JSON passes no
distinct row by mistake. It holds for any keys, page sizes and changes by other clients; the
bound on the length of a walk is not used.

### Shards, replicas, adapters, tenants, pool and schema (`ServicesProofs`)

`ServesAllShards`: the shards from the second to the one the counter stands at have had one
statement more than the rest (`Remainder`, `NextRemainder`), the open databases are those before
the place in the loop, and a goroutine that is done has left its shard's answer in its place.
`ReadsSeeOwnWrites` needs the target of a statement under way to be what its context asked for
when it was routed, that all databases are open while the executor is in use and none when it is
over (`LifeInv`), and the same count of turns for replicas, where each restart of
the counter may cost one. `EffectOnce`: the value is the number of transactions with an
effect, and the retries before an attempt are no more than the commits of others it has
seen and the failures fn asked for (`RetryInv`). `TenantsReadTheirOwn`: a transaction that was given a tenant and set it finds it
in the session of its connection until it ends, because nobody else has that connection.

`WarmBoundedHolds`: what warm-up and the health check have still to add counts as if it were
there (`Owing`): the list and what is owed do not exceed 2 * WarmConnections, since
ReleaseConn stops at WarmConnections and the health check counts before it adds. This needs
that at most one warm-up or one health loop is at work (`OneStart`), so the theorem, like
the property it states, speaks of behaviours in which Start has found the pool stopped at most once; several loops after
a second Start each owe their own.

`DiffsReach`: `Made(S)` is what the changes S of a Diff make of the catalog that was listed, written
without an order. `WantedForms` and `WantedAll` say which changes a Diff has, `ChangeApplies`
that what the database does with one more change it takes turns `Made(S)` into `Made` of S and
that change, and `ChangeUndone` that the reverse of a new table or column turns it back. So,
while nobody else drops a table, the catalog is `Made` of the changes run so far (`RunInv`) and, on
the way down, of those not yet undone and those that cannot be (`DownInv`), whatever the order of
the list and whatever was refused before. The list of changes run has each once, so a list as
long as the Diff holds all of it (`AllRun`). Assumption: a catalog and the models are
functions from tables to functions from columns.

### Left to TLC

* Liveness (`StopsRejecting`, `ExecServed`, `OpReturns`), which is outside the prover's logic.
* What recursive functions and operators compute needs induction over data: the ring
  (`RingIsConsistent`), condition trees (`ReadsWhatIsAsked`, `ShortcutsAgree` and
  `MutatesWhatIsAsked`, whose modules use RECURSIVE operators), and windows of an upsert
  (`UpsertExact`, a fold over the models).

## 5. Findings

Each is a run that TLC must find violated; `PROJECT.json` quotes the text it contradicts.

1. `records_create`: Create sends the id column too, so a new model is stored under
   id 0 in PostgreSQL and SQLite and keeps it.
2. `query_cache_args`: arguments are hashed without separators; (1, 23) and (12, 3) share a key.
3. `queries_raw`: a RawCondition, which the JSON and full-text fields return for use with
   Where, is left out of every statement, so that Update and Delete reach rows that do
   not match it.
4. `pool_scale_down`: the loop that scales the pool down waits for more idle connections than
   MaxIdleConns, which the pool has itself told `sql.DB` to keep; with the configuration of
   the CHANGELOG (and any MaxIdleConns that is not negative) a surplus of warm connections,
   which the health check can make, stays for good. TLC's counterexample
   assumes that the loops run and their tickers fire.
5. `replicas_create`: Create over a MultiExecutor sends its INSERT ... RETURNING to a replica,
   which refuses it, although writes should always go to the primary. Under WithPrimary it is
   stored.
6. `upsert_batch`: BatchUpsert ignores UpdateWhere and changes rows that the condition keeps.

## 6. Other behaviour met while modelling

The models contain these, unless they are marked (read) or say otherwise; no run is about
them.

* QueryRowContext records a success whatever Scan reports later
  (`core/circuit_breaker.go:262`; the comment above it says so). The circuit therefore
  stays closed through any number of failed QueryRow calls, which reset the
  count of the others, and a half-open circuit closes on SuccessThreshold of them while the
  database is still down, although line 42 speaks of successes. `TripsInTime` excludes the
  first by `blind`, `ClosesOnlyOnSuccesses` the second by `hidden`.
* `stopChan` of the pool is made once: after Start, Stop, Start the second Stop closes
  it again and panics (`panicked`).
* Up holds the connection of its transaction while its migration waits for another. With a
  pool of one connection it waits for itself, and with no more connections than runners
  each may hold one and wait for ever: `OpReturns` is violated for `MaxConns` up to the number
  of runners.
* RaiseEvent records an event and raises Version without applying it. Domain
  code that does not call Apply itself (`AppliesOnRaise = FALSE`) snapshots a
  state behind its version.
* The load after a snapshot calls Apply and ignores registered handlers, which
  the load without one prefers.
* Cache eviction takes the first name in `order`, which may be an old mention of a
  key that has been set again: the newest entry can go first. A name listed for an
  entry that is gone is dropped without freeing a place, and the loop goes on.
* WithTrashed is not part of the cache key: a query with and without it shares an entry.
* A Find that read before a write and stores after the invalidation leaves an outdated entry
  (`query/cached_builder.go:166`); `InvalidationHolds` excludes it by `late`.
* A cached answer is the JSON of the rows (`query/cached_builder.go:152` and 165); fields that
  JSON changes or leaves out come back changed. The model keeps the rows as they were.
* Connections released after Stop are kept warm, and a Start that fails in warm-up
  leaves `running` set without loops.
* A soft Delete that fails leaves DeletedAt set on the model; the next Update of that
  model deletes the row.
* An Update with a model read before a soft Delete undoes the deletion.
* BatchInsert is atomic in each batch and not across batches.
* BatchUpdate does not notice rows that no longer exist.
* With MySQL, Create fails (RETURNING), and ids counted up from LastInsertId are wrong
  for models that bring ids of their own; SQLite reports the last id, not the first.
  `IdsTold` excludes these.
* WithTx does not roll back if its function panics.
* Cancel, also by a ChangeStream that is closed, does not remove the subscription, so its
  channel stays on; Close sends no UNLISTEN; a Subscribe after Close returns a
  subscription that calls itself active and whose goroutine ends at once.
* With the modulo strategy a negative number gives a negative index, and GetShard panics.
* The example at `CHANGELOG.md:1433` addresses shard i by the key i, together with the
  consistent hash strategy, which sends that key wherever its hash falls.
* A strategy shared by two managers is rebuilt under the first (each manager has its own
  in the model).
* A Down that races an Up can leave a recorded migration that is not in the schema.
* LISTEN and UNLISTEN that fail, with or without effect, leave a channel on
  (`left`), and nothing in the code brings entries and session together again.
* An Unsubscribe between the LISTEN of another Subscribe and its entry leaves that
  subscription active and deaf (`core/subscription.go:97` and 110);
  `HeardUnlessOvertaken` excludes it by `overtaken`.
* A migration runs on `m.db`, outside the transaction that records it
  (`migrate/migrate.go:193`), so a failure or crash in between leaves the schema changed
  and the table of `migrate/doc.go:5` unchanged; `TableTellsSchema` excludes it by `clean`.

Query builder:

* rewritePlaceholders writes the numbers of a subquery's arguments in reverse on PostgreSQL, so
  two or more arguments change places.
* FastBuilder gives the placeholders of a group the same numbers on PostgreSQL;
  UltraFastBuilder passes the slice of an IN or BETWEEN as one argument; fastInterfaceSlice
  does not know slices of bool, float64 and time.
* Not leaves `>`, LIKE and BETWEEN as they are.
* Subqueries are left out inside groups and in aggregations; an InSubquery given a
  builder instead of a Subquery yields `IN ()`.
* DryRun omits the soft-delete scope; aggregations and fast builders ignore it.
* Limit(0) of the fast builders means no limit, and First sets the limit of its receiver for good.
* OFFSET without LIMIT is refused by MySQL and SQLite.
* (read) Joins exist only on Builder[any], whose Find cannot scan; Count ignores them.
* A page with the default limit never sets HasNextPage; an OrderBy that is not unique skips
  rows with the value of the cursor; values from 2^53 on are rounded in it.
* Each ends without a word on any error. HasMany, BelongsTo and polymorphic preloads do
  not look at rows.Err(). Nested preloads are parsed and never used (read). toPascalCase of
  `user_id` is `UserId`, so a field UserID is not found.

Services:

* A panic in the function of RunTransaction leaves its transaction open.
* An error whose text contains 40001 is taken for a conflict and its transaction run again
  (`cloud/adapters.go:453`), be it a lost answer of a commit that had its effect. The
  model knows conflicts from other errors.
* BatchUpsert refuses models without an id. SQLite is sent the MySQL form, since it has the same
  placeholder, and refuses it, although `core/upsert.go:94` says "PostgreSQL/SQLite: INSERT ... ON
  CONFLICT": Upsert and BatchUpsert always fail there, and `UpsertExact` speaks of the
  others. The MySQL form knows neither ConflictColumns nor UpdateWhere. Upsert on PostgreSQL
  sends the id 0. `UpsertExact` excludes statements built without their UpdateWhere
  (`WhereIgnored`).
* Diff compares the texts of types, so every column that exists is modified every time;
  nullability and defaults are compared but not changed, so they never converge. Tables
  without a model are dropped, schema_migrations too (read). AutoMigrate names tables in the
  singular, Diff in the plural; isOptional is never true for a generic Optional.
  modifyColumnChange is Reversible without ReverseSQL.
* (read) `genus schema diff --generate` writes the Down statements in forward order,
  unlike GenerateMigration; `genus migrate` loads no migrations; MySQL's getColumns
  scans `YES` into a bool.
* OnDetection, called when the count equals the threshold, can be skipped when records
  come out of order.
* With MaxQueries 1 the profiler keeps two statements, because half of one is none
  (`core/profiler.go:78`); `WatchersExact` speaks of larger limits.
* When records come out of order (`late`) the detector may miss a burst;
  `WatchersExact` then asks only that what it reports came often enough.
* CachingQueryMiddleware never forgets: Ask returns results of a replaced handler and
  panics if the new one has another type. Its key is the text of the query
  (`cqrs/cqrs.go:338`), which different queries can share: struct queries `{"x y", "z"}` and
  `{"x", "y z"}` print alike, and one is answered with the result of the other. `BusesExact` says
  that a cached result is of a query with the same text.
* ApplyToQuery adds the tenant as an argument and no condition, although `core/tenant.go:119`
  says "adiciona a condição de tenant": PostgreSQL refuses the statement for the surplus argument,
  and a driver that passes over it reads the rows of every tenant. `TenantReadsOwn` does not speak
  of it.
* DefaultTenant ("o tenant padrão quando não especificado", `core/tenant.go:30`) is read by no
  code: without a tenant the schema is public, and SetTenantSession sets the empty tenant.
* SetSearchPath and SetTenantSession outside a transaction set some connection of the pool, and
  what they set stays for its next user; `TenantReadsOwn` speaks of transactions (`safe`).

## 7. Not modelled

Code generation, GraphQL and gRPC schemas, the visualizer, the optimizer, the playground
and the command line, tracing and metrics: they produce text or observe calls and keep no
state that other parts depend on. The audit log and the health handlers do one
thing per call and keep nothing between calls. Quoting, spelling of types per
dialect, DSNs, log output, timestamps and statistics other than the ones named above are left
out of the modelled parts. `PROJECT.json` gives the reason for each component. The models
assume one table or one stream where every statement is keyed by it.

## 8. Plan

What is left needs induction over data or liveness, which TLC covers on the bounds of
section 3.
