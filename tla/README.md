# Verification of kubling-providers

TLA+ models of the core of the Kubling providers, the TLC configurations that check them on small
instances, and proofs, checked by TLAPS, of their main safety properties for every value of the
constants. `PROJECT.json` is the index: which definition models which lines, which run checks which
property, which mutation of the model each property notices, and the list of hazards the properties
are aimed at.

```sh
tlc -workers 2 -config HostScan.cfg MCHostScan    # a run
tlapm HostGatewayProofs.tla                       # a proof
```

## 1. The system

A *provider* is a gRPC server that makes a data source available to Kubling: it opens logical
connections and, on them, discovers schemas, streams query results, applies mutations, reads large
objects and, where the source can, runs transactions and durable transaction branches. Kubling is the
client and the transaction coordinator. The repository has the contract (`proto`), the server SDK for
Go (`sdk-go/provider`), generated bindings for Java and Python, and eight providers.

| Component | State | Operations | What is hard | What makes it correct |
|---|---|---|---|---|
| SDK connection registry | open connections, a read-write lock and a closed mark for each | open, acquire/release around every call and stream, close, close all | close races calls and other closes | never used after close, closed once, never leaked, close returns |
| SDK streams | what was sent so far | query, read LOB, recover | the provider may stream anything | partial is never shown as complete; chunks contiguous and in range; no branch twice |
| SDK branch and mutation handlers | none: whom a call goes to is decided from the request and the provider's interfaces | begin, prepare, commit, rollback, status and forget of a branch; insert, update, delete; native transactions; release LOB; capabilities | a branch call may name a connection, another manager or nobody; a provider may answer any state | a branch is settled by one party, its owner; an answer means what the call promises; what is advertised is what is there |
| SDK query cache | entries under generations, pending changes per connection, retained changes per branch | query, store, mutate, begin/commit/rollback, prepare/resolve/forget a branch | queries in flight while changes are invalidated, failed calls that took effect | no query after an acknowledged commit is served older data; nothing uncommitted is stored |
| Host gateway | durable sessions with generation and lease, directory of bound streams | connect, renew, replace, expire, close, restart | handlers of one host pass each other; late closes | only the newest session is connected; nobody removes its replacement; no dead stream is a target |
| Host scans | active and retired scans, event buffers, slots and permits | start, batch, finish, cancel, deadline, lost session | both ends of a stream, bounded buffers | success means every batch in order; every scan ends; a late message does no harm |
| Host queries | targets, workers, events, outcome | fan out, next, close | cancellation, failures of some targets | every target accounted for once; Close returns and leaves nothing running |
| BACnet discovery manager | one client and two locks per attachment, a refresh loop per scope | start, refresh, read, write, close | Close against loops and requests | no closed client used, nothing left after Close, refreshes go on |
| BACnet device registry | devices with route, identity, profile, last seen | discover, merge, retain, conflict | partial identity, silence, two routes | listed as long as the TTL says; conflicts hidden; profile from a clean identity |
| BACnet profiles and catalog | profiles compiled from documents, tables over them | validate, inherit, merge, select, publish | ambiguous or circular documents, inherited overrides | one profile per device, the most specific; a child says what its parent said unless it overrides |
| BACnet queries and updates | none beyond the device | plan, read object list, read properties with a fallback, convert, write one property | the device changes while it is read; refused, lost and late answers; integer widths | every row is an object of the table with a value it has held; an update writes what was asked, at most once, and says unknown when it does not know |
| Oracle durable XA | journal rows, active branch per connection, the database's branches | begin, prepare, commit, rollback, recover, status, forget, close, restart | crash between journal write and XA call, unlocked concurrent recovery calls | an in-doubt branch is always listed; the journal tells the truth; terminal outcomes stay |
| Shared backend sessions (Cassandra, Redis, Kubernetes) | one counted entry per cluster or namespace, a ready channel for the opener | acquire, release, Metadata, Health, Close of connection and provider | openers that fail or are cancelled, waiters, last release against a new acquire | one session per slot, open while held, closed after the last holder; every acquire returns |
| Redis provider | none beyond the session: the hashes are the state | query by key or SCAN, insert, update, delete | a call is several commands and other calls come between; numbers are stored as text | alone, a call does what its statement says; only a race can tear a hash |
| Cassandra provider | the iterator and the rows buffered from it | query, aggregate, insert, update, delete, Next | what may be pushed down in CQL; an iterator that breaks between pages | end of file only after every row; no statement the server would read differently |
| Kubernetes provider | the catalog of a discovery, a continue token | metadata, list page by page, create, patch or update, delete | API groups come and go, the document changes, other clients write | a table keeps its meaning; lists are whole; an update changes what it names and overrides no other write |
| OpenAPI provider | the catalog built from document and configuration, pagination state | validate, describe, query page by page, insert, update, delete | four ways of paging, servers that cap pages, lost answers, circular schemas | what is published can be used; lists are whole; writes hit exactly what is named |
| In-memory provider | rows, identifiers, LOBs handed out per connection | query, aggregate, insert, update, delete, read LOB | three-valued logic, order, pages, exact decimals | answers agree with SQL; mutations all or nothing |

**Interaction.** Every Go provider is served by the SDK: a call acquires its connection in the registry
(ProviderServer), a stream is pulled by one of the streaming handlers (ProviderStreams), and a provider
may wrap its connections and its recovery manager in the cache (QueryCache). In the host provider an
agent on each host connects to the gateway (HostGateway); a query is planned for the sessions the
registry lists, fanned out by the coordinator (HostQuery), and each target is one scan over the bound
stream (HostScan). In the BACnet provider refresh loops fill the device registry (BACnetRegistry)
through clients that queries and mutations share (BACnetManager); a query or an update (BACnetRequests) takes a snapshot
of that registry, selects each device's compiled profile (BACnetProfiles) and reads or writes the device. The Redis, Cassandra, Kubernetes, OpenAPI and in-memory providers
translate one call of the engine into commands, statements or requests of their source; logical connections
of the first three share backend sessions (SharedSessions). The Oracle provider is written in
Java: logical connections and the recovery manager meet only in the journal table and the database
(OracleXA).

The component list in `PROJECT.json` also names what is left out and why.

## 2. The modules

Each component is one module; the modules called `...Proofs` hold the theorems (section 4;
ProviderSDKProofs, BACnetProofs and BackendProofs those of two components each), `<module>Cases` the tables, documents and calls of its instance. An `MC` module gives model values, symmetry where only
safety is checked, and assumptions on the instance. Where one of them runs several components that do not
meet (a variable `part` says which), each component keeps its own variables and actions: a behaviour of
the run is a behaviour of one component. An action is one atomic step of the code: a locked section, a call to another party, a
channel operation. Locks that are held over several steps are state. Data is reduced to what a
property tells apart. Definitions called `Mut...` are plausible mistakes; no specification uses them,
`PROJECT.json` names the property that notices each.

**ProviderServer** (`sdk-go/provider/registry.go`, `server.go`). `registered` is the map, `readers`,
`waiting` and `writer` are the `sync.RWMutex` of a managed connection (a waiting writer keeps new readers
out), `closed` its mark, `source` and `closings` what the provider's own connection has seen. `Find` and
`Acquire` are the two steps of `acquire`; `Remove`/`RemoveAll`, `Lock`, `Locked`, `Close` those of
closing. A handler is a use of the connection; `OpenStream`/`CloseStream` nest a provider stream in it.

**ProviderStreams** (`query.go`, `lob.go`, `transaction_recovery.go`, `mutation.go`, `transaction.go`, `server.go`). The provider's stream is an
arbitrary sequence over a small alphabet; the handler's checks are the guards. Offsets and lengths are
unsigned with largest value `MaxUint` and wrap. The unary handlers are in the same module: `Ask` is a request with
what is wrong in it (a blank or malformed identifier, another manager's branch, no connection), `Callee` the party
that the handler's checks lead to (`nobody`, the connection, the recovery manager), `Answer` any answer of that party
and what the handler makes of it, `GetCapabilities` the capabilities with the check that an advertised
recovery is implemented by one manager. `manager` is what the provider implements, `advert` what the client was told.

**QueryCache** (`sdk-go/provider/cache`). Entries are keyed by entity and generation pair; the source
behind the provider is external and numbers its committed versions. Every cached call is two steps,
the source's and the cache's, with the connection's transaction lock held in between. Native
transactions, durable branches through the connection and through the recovery manager, failed calls
that took effect, repeated calls, eviction under the entry and byte limits, and changes past the SDK are
modelled. `acked` is what has been acknowledged to the client, `changed` (history) what the calls of a transaction that
returned successfully have changed; an entry remembers whether the query behind it was open when its connection began a
transaction (`overlapped`), a retained record whether it was made when nothing noted was left (`blank`). Of the coordinator the model assumes that it does not
repeat a call of a branch on a connection that has begun another transaction since (`Leave`).

**HostGateway** (`gateway/server.go`, `gateway/directory.go`, `registry/memory.go`, `registry/bolt.go`). One
member of `Stream` is one `Connect` call. Registry and directory have different locks, so the handler's
steps between them are separate actions. `Restart` ends all streams and opens the Bolt registry again, `SetBack` sets
the clock back, and CloseSession may be refused (a time before the session's) or fail to write: `unclosed` (history)
are the sessions that were left open so.

**HostScan** (`gateway/directory.go`, `gateway/server.go`, `query/stream.go` scanTarget, `agent/session.go`).
Both ends of one session: callers, the receive loop, two ordered channels, and the agent's goroutines
with their permits. Cancellation, deadlines and the loss of the session may come at any step. `forgotten` (history)
are the scans that newer ones have pushed out of the retired identifiers.

**HostQuery** (`query/stream.go`, `query/coordinator.go`). Feeder, workers, the closing goroutine and the
caller with unbuffered channels; a scan ends with rows, rows and warnings, or a failure.

**BACnetManager** (`discovery/manager.go`). `discoveryMu`, `readers`/`writer` (useMu) per attachment, the
program counters of the refresh loops, of requests and of `Close`.

**BACnetRegistry** (`discovery/registry.go`, parts of `manager.go`, `transport/client.go`). What a window
hears, which identity properties can be read and whether a route is configured is chosen freely; merging, conflicts, retention and the
profile rule are the code's. Time is counted in ticks.

**BACnetProfiles** (`profile/compiler.go`, `profile/select.go`, `profile/model.go`, `catalog`). The compiler as
operators: a step that may refuse a document yields the set of its one result, or the empty set.

**BACnetRequests** (`query/plan.go`, `query/executor.go`, `query/values.go`, `mutation/executor.go`, the reads and writes of `transport/client.go`). `Configure`
compiles the documents, `Call` plans a call and takes the snapshot; a query then goes on by `ReadCount` and
`ReadElement` (the object list), `ReadNextProperty` or a lost read, and `Finish`; an update ends in
`WriteProperty`, `WriteRejected` or `SendNothing` and `EndUpdate`; the caller may give up before each. The device
and the network are external: `Change` changes the device between any two requests, and `since` remembers what it
held since the call began. Integers have the widths `IntMax`, `EnumMax`, `LongMax`, `UnsignedMax`. BACnetCases has the documents,
devices and calls.

**OracleXA** (`LogicalConnection.java`, `TransactionRecoveryManager.java`, `JdbcTransactionJournal.java`,
`BranchState.java`). One action is one call to the journal or to the resource manager, with the code up
to the next. The inductive invariant is at the end of the module. The resource manager is external: it prepares,
commits, rolls back, forgets, lists, decides heuristically and fails as XA allows.

**SessionLease** and **SharedSessions** (`provider.go`, `connection.go`, `session.go` or `client.go` of the Cassandra,
Redis and Kubernetes providers). SessionLease is the promise: at any time one session per slot is handed
out, whoever asks joins it, it is closed after its last holder left. SharedSessions is the code: the map
under the provider's mutex, entries whose ready channel is open, reference counts, Cassandra's move of a
connection between namespaces, the calls of Metadata and Health, cancelled waiters. `ImplementsLease` is the
refinement, with the mapping at the end of SharedSessions.

**Relational**. What the engine means by the filters, orders and pages it pushes down: SQL's three-valued
logic over rows, written without looking at any provider. Redis, Cassandra, Kubernetes, OpenAPI and
InMemoryQuery are compared with it.

**Redis** (`config.go`, `query.go`, `mutation.go`, `keys.go`, `codec.go`, `expression.go`, ...). A call
is the sequence of its commands (EXISTS, HSET, HGETALL, HMGET, SCAN, DEL, HDEL), each atomic in Redis and an action here. A stored
number is its text, so encoding and decoding are real conversions; keys are prefix and text. A pattern of SCAN is the
text that the code puts together, the key prefix unquoted, and is read as Redis reads globs, sets and escapes included.

**Cassandra** (`query.go`, `mutation.go`, `codec.go`, `stream.go`). A statement is the record of what its text
says; Cassandra, which accepts or rejects it and executes it, is external.

**KubernetesSchema**, **KubernetesStream** and **Kubernetes**. The first is the catalog as operators, from the raw configuration and the
discovery to tables and columns. The second is the result stream (`result_stream.go`): list pages with their continue
tokens, cut by the server as it likes, the limit that is counted down, and the conversion of an object to a tuple. The
third has the other actions and the composition (an answer and a published table remember, as history, which groups
their discovery missed): discovery, the query that opens a stream, create, merge patch,
get-then-update with its resource version, delete; and the API server, other writers and failing groups as environment.

**OpenAPISchema** and **OpenAPI**. The same split: configuration, document and entity discovery as operators;
queries by NONE, OFFSET, PAGE and CURSOR pagination and the writes as actions against an external server
that caps its pages, ends its cursors in several ways and may fail or lose an answer. Names keep their case where the
code looks at it: a column remembers how its source property is spelled, and `LookupName` is `strings.ToUpper`.

**InMemoryQuery** and **InMemoryProvider**. Expression evaluation, ordering, pages, groups and aggregates as
operators over a snapshot; the store, its mutations and the LOBs of a connection as actions. A query that fails leaves
the LOBs it had registered before in the connection.

## 3. The runs

| Run | Instance | Shows | States |
|---|---|---|---|
| oracle_xa_safety | 1 branch, 2 connections, 2 recovery threads, 1 crash, 1 failed XA call, heuristic decisions | JournalTruthful, InDoubtListed, RepliesAgree, TerminalKept | 62 954 |
| oracle_xa_live | 1 connection, 2 recovery threads, 1 crash, 1 failed XA call, 1 failed journal write | OutcomeRequested survives journal failures (InDoubtListed does too: see the proofs); PreparedResolved: a prepared branch is resolved in the end | 134 031 |
| query_cache | *native*: 2 entities (a view over a table), 2 connections, 1 reader, 3 calls, all changes to the table, changes and invalidations past the SDK; *durable*: the table, 1 branch, 1 connection, 1 reader, 1 recovery worker, 6 calls | CacheFresh, NothingUncommitted, StoreSound | 971 420 |
| provider_sdk | *server*: 2 connections, 3 goroutines; *streams*: MaxUint 3, 3 branches, 3 responses; *unary*: 2 resource managers, every request and answer | UsedOpen, ClosedOnce, Accounted, CloseReturns; StreamsExact | 10 932 |
| host_gateway | *gateway*: 2 streams of one host, lease 2, 2 ticks, 1 restart, the clock set back once, closes that fail; *query*: 3 targets of 2 rows, 2 workers, batches of 3 | OnlyNewestConnected, DirectoryExact, EndedUnlisted, StaleBindingEnds; RowsAccounted, QueryCloses | 362 500 |
| host_scan | 2 scans of 2 batches, 1 slot, 1 permit, buffer of 1, 1 retired scan remembered | ScansExact, ScansEnd (without the deadline) | 422 475 |
| bacnet | *manager*: 2 attachments, 3 scopes (two share one), 1 request at a time; *registry*: 1 instance on 2 routes, with and without a static route, 2 identity properties, TTL 2, 4 ticks; *requests*: 14 sets of profile documents, 2 snapshots of the registry, 5 states of a device, one of about 35 calls, 1 change of the device, 1 lost single read | UsedOpen, NothingLeft, CloseReturns, RefreshesGoOn; RegistryExact, DevicesKept, RequestsExact | 64 398 |
| providers | *sessions*: 2 connections, 2 calls of Metadata or Health, 2 namespaces, each of the three providers; *redis*: 2 calls, 2 clients, 1 failed command, key prefixes that are patterns; *cassandra*: 3 statements, 1 break; *openapi*: every configuration of the cases, 2 calls, 1 failure or lost answer | SessionsSound, ImplementsLease, LeaseServed; RedisExact; EofComplete, PublishedUsable, WritesExact | 155 308 |
| kubernetes_memory | *kubernetes*: 8 resources, three of one kind name, one whose kind spells another's qualified name, one subresource, with and without a provider namespace, 2 versions of the document, 2 calls, 1 write of another client, 1 failing group; *memory*: 1 connection, 2 mutations, 1 LOB, all queries of the cases | TablesExact, EofComplete; AnswersExact; MutationsExact for both | 28 214 |

What the composed properties say: StreamsExact joins QueryHonest, RecoverExact, LobExact and UnaryExact of ProviderStreams;
ScansExact joins SuccessComplete, NoLostScan and HealthySession of HostScan; RowsAccounted and QueryCloses are
Accounted, ClosedQuiet and the liveness of HostQuery; RegistryExact and DevicesKept join RetainedFresh, CleanProfile,
ConflictHidden, DropJustified and LastSeenMonotone of BACnetRegistry; RequestsExact is RequestStepExact of BACnetRequests: the
selected profile is the most specific one that matches (SelectionExact), a child differs from its parents where it
says so (InheritanceExact), rows are objects of the table with values they have held (RowsExact), a value that was read is
converted back to itself when it is written (WriteBackExact), a write is the one that was asked for (WriteExact), and
the answer tells what happened to it (OutcomeExact).

Three runs expect a violation; the findings in `PROJECT.json` quote what the repository says.

* **oracle_xa_truth_violation**: when the journal write after a one-phase commit fails and the connection is then
  closed, the next start records ROLLED_BACK for committed work. This is why JournalTruthful is otherwise
  checked without journal faults.
* **kubernetes_update_applies**: on a resource that can be updated but not patched, an assignment to a root-level
  column other than metadata and spec is dropped and one affected row is answered.
* **openapi_generated_column**: a query without projections on a table with a stable key projects the generated
  column, which no response has.

**Where the properties stop.** Modelling met further disagreements between the code and what the
repository says of it, or what a reader would expect. They happen in the passing runs; the property states the exact
case as its exception, and without that exception TLC shows the trace:

* CacheFresh does not count two changes as acknowledged. After a Commit or Rollback that failed, the cache takes the
  transaction for active (`cache/transaction.go:26`) and only notes a change that the source has committed at once
  (`cache/mutation.go:72`): older answers stay cached until the next end of a transaction. And when a PrepareBranch fails
  after the source has prepared and InTransaction drops the connection's pending changes (`cache/transaction.go:63`), the
  repeated PrepareBranch retains an empty set (`cache/state.go:131`): the commit of the branch invalidates nothing.
* NothingUncommitted: a query admitted before Begin (`cache/query.go:34`) stores what the transaction wrote, and the
  rollback invalidates nothing. Only such an overlapping query does.
* EndedUnlisted: a close that is refused or cannot be written (`registry/bolt.go:314`, `gateway/server.go:165`) leaves
  the ended session listed until its lease expires or the provider restarts; and when the clock is behind the end that
  was recorded, the session is listed until the clock has caught up (`registry/bolt.go:114`).
* ScansExact: a late message of a scan that `RetiredLimit` later ones have pushed out of the retired identifiers
  ends the session (`gateway/directory.go:300`; the code remembers 4096, the run 1).
* StaleBindingEnds says "in the end" because a stream of an older generation can bind last and replace
  the newer one for a while (`gateway/server.go:158`).
* RowsAccounted speaks of queries that were not cancelled: a cancelled strict query can end as complete
  without all its rows, because the select in Next may take the closed channel (`query/stream.go:300`).
* RegistryExact speaks, for profiles, of devices read without an issue: with one unreadable property a device keeps the
  profile of its earlier, less complete identity (`discovery/registry.go:79`).
* JournalTruthful allows a reported hazard at any time: a row that announces a call is reported as
  HEURISTIC_HAZARD (`BranchState.java:28`) and later as what it became, and after a failed prepare such a
  row can neither be resolved nor forgotten until the provider restarts (`LogicalConnection.java:224`).

* RedisExact allows a race to tear a hash: an HSET after another client's delete leaves a hash without its
  mandatory fields (`redis/mutation.go:141`). An insert of several rows that fails keeps the rows before
  (`mutation.go:94`); deleting the last optional field of a hash without mandatory ones deletes the row.
  Nested key prefixes are accepted, and a key that spells a number differently from the codec is not found.
* Cassandra's INSERT and UPDATE are upserts, and a failed insert keeps the rows before (`cassandra/mutation.go:84`).
* RedisExact excepts rows that a key prefix hides: the prefix stands unquoted in the pattern of SCAN
  (`redis/keys.go:30`, `:175`), so with `[` or a backslash in it, which the configuration accepts, the keys of the table
  do not match. With `*` or `?` they do, and keys of other tables that match are left out.
* TablesExact: when discovery reaches other groups than it did for the catalog, a table name can have passed to another
  resource, and the call reads or deletes there (`kubernetes/metadata.go:177`, `kubernetes/query.go:147`). In ev.io/v1,
  EV_IO_EVENT is the Event while the core group, which has one too, is reached, and the EvIoEvent while it is not; with a
  configured namespace the other resource may be of another group. While discovery reaches the same groups it
  cannot happen, nor while the resource asked for keeps its name.
* MutationsExact allows that a merge patch merges a nested object which an update replaces, that the
  answer of an update is lost after it took effect, and that an insert which fails keeps the objects before, uncounted.
* WritesExact: an update by PUT is sent the assigned properties alone and so erases the columns it does not assign.
* EofComplete of OpenAPI assumes what `openapi/README.md:473` asks for, that a short page is the last one, and that
  the listed items do not change between pages.
* PublishedUsable leaves out configured entities whose path template has a parameter nobody declares (accepted,
  but no query succeeds). It says of an insert that no choice of columns is accepted exactly when the body requires a
  property no column is spelled like, or a path field is a read-only property of the body: the catalog matches names
  without case and publishes both as writable (`openapi/metadata.go:930`, `:952`), the mutation looks the properties up
  with case and refuses read-only ones (`openapi/mutation.go:160`, `:164`, `:235`).
* AnswersExact excepts NOT over a comparison with null (`evaluateComparison` makes it false, SQL unknown), and
  LOBs of groups that were paged away are not shown.
* RequestsExact of the BACnet provider allows a lost answer in the fallback to ReadProperty to become NULL in an
  optional column (`transport/client.go:380`, `query/executor.go:300`), and allows an object list read element by
  element to miss objects when the device is changed meanwhile: a duplicate is refused, an omission goes unnoticed. A
  value without a label in its enumeration is read as its number but cannot be written back; a label that
  spells a number is accepted and then reads ambiguously. Inheritance precedence is checked between a
  profile and its direct parents only. The cases leave out a column named object_identifier that maps another
  property, which the filter compares with the object's own identifier, and real numbers that a float32 rounds.

**Bounds.** `MaxCrashes`, `MaxXaFaults`, `MaxJournalFaults` (OracleXA), `MaxCalls` (QueryCache) and `NativeCalls` (MCQueryCache), `MaxSent`
and `MaxBatch` (ProviderStreams), `MaxTime`, `MaxRestarts` and `MaxSetBacks` (HostGateway), `MaxTime` (BACnetRegistry), `MaxRuns` (SharedSessions), `MaxCalls`
and `MaxFaults` (Redis), `MaxStatements` and `MaxBreaks` (Cassandra), `MaxSteps`, `MaxOther` and `MaxFaults` (Kubernetes),
`MaxApiCalls` and `MaxTroubles` (OpenAPI), `MaxWrites` and `MaxLobs` (InMemoryProvider), `MaxChanges` and `MaxLost` (BACnetRequests) bound the number of
environment events; everything else is finite. They are chosen so that each hazard can happen: one
fault suffices to separate two systems that must agree, a second crash hits the recovery from the first;
two goroutines meet on one object while a third closes it; two streams replace each other in both orders
(the theorems cover any number); a buffer of one is full after one batch; with one slot the second scan
finds the agent's permit still taken; MaxUint 3 lets every sum
wrap; four ticks let a device be seen, fall silent, reach its TTL and return. Branches, connections of
other clients, hosts and BACnet instances do not share state with each other, which is why one of each
is enough. Two calls suffice for the providers, whose state between calls is the source's: the first makes
the state the second finds, or runs against it; a page of two rows over three or four items has a full, a
partial and an empty page; small integer widths make every conversion meet its range. `RetiredLimit` is the code's 4096 made small, so that
the limit is reached by the second of two scans.

Deadlock checking is off where the system may rightly stop: all streams ended, all scans done, Close
returned, the clock at its bound.

**Fairness.** Weak fairness for goroutines that have something to do (Go and the JVM schedule runnable
threads), for operations with a timeout, and for the restart of a provider by its supervisor. Strong
fairness only where the code has it: a `sync.Mutex` hands itself to a starving waiter (BACnet
discoveryMu), a `select` over channels that stay ready takes each in the end (end of a refresh loop), and
a coordinator repeats its request to resolve a branch (OracleXA; the protocol asks for it). Deadlines and
heartbeats of scans are not assumed for ScansEnd; of the agent HostGateway assumes that it sends
heartbeats or loses its stream. SharedSessions is weakly fair to each goroutine: an opener returns, because
each dials with a timeout, and LeaseServed follows.

## 4. The proofs

| Module | Theorems | What they say |
|---|---|---|
| OracleXAProofs | TypeCorrect, Discipline, InDoubtKept | types; who writes which row when; InDoubtListed |
| | TruthKept, JournalAlwaysTruthful, RepliesAlwaysAgree, TerminalRowsKept, OutcomesRequested | JournalTruthful, RepliesAgree and TerminalKept if no journal write fails; OutcomeRequested also if some do |
| ProviderSDKProofs | Bookkeeping, NoUseAfterClose, NoDoubleClose, NoLeak, StreamsAlwaysExact | UsedOpen, ClosedOnce, Accounted of ProviderServer; StreamsExact of ProviderStreams, unary handlers included |
| QueryCacheProofs | CacheTyped, CacheInductive, CacheAlwaysFresh, NothingUncommittedCached, StoreAlwaysSound | types; the invariant behind it; CacheFresh; NothingUncommitted; StoreSound, without hypotheses on the callers |
| HostGatewayProofs | Agreement, Supersession, ExactDirectory, NoDeadTarget | OnlyNewestConnected, DirectoryExact, EndedUnlisted |
| HostScanProofs | ScansInductive, AnswersWhole, AllScansExact | SuccessComplete and NoLostScan; ScansExact, for any number of scans and any limit |
| HostQueryProofs | QueryInductive, QueryAccounts | RowsAccounted |
| BACnetProofs | LockDiscipline, NoClosedClient, CleanEnd, RegistryAlwaysExact, RegistryKeepsDevices | UsedOpen, NothingLeft of BACnetManager; RegistryExact, DevicesKept of BACnetRegistry |
| BackendProofs | SessionsInductive, SessionsAreSound, LeaseImplemented, EofAlwaysComplete | SessionsSound; SharedSessions implements SessionLease; EofComplete of KubernetesStream |

All are for arbitrary constants under the named assumptions of the modules (for instance
`ConstantsAssumption`, `GatewayAssumption`, `TopologyAssumption`), which only say that constants have
their types, that sets which the code iterates over are finite, and that distinguished values are distinct. The
inductive invariants (`IndInv`, with the type
invariant as its first part) were found with TLC and are now proved, so that no run repeats them.

*OracleXA.* InDoubtListed (the database holds a branch in doubt ⇒ the journal has a row that recover
lists) is not inductive: a step that deletes or overwrites a row must be known to concern a branch that
is not in doubt. The invariant therefore says who may write which row when. While a connection holds a
branch, from begin to the recorded prepare or resolution, nobody else writes its row, and the program
counter of the connection determines row and database state (`HeldInv`, `OpInv`, `HolderInv`). A recovery
thread that resolves acts on an announced resolution that is only ever finished (`WorkerInv`). A
forgotten branch had a terminal row (`ForgottenInv`). During startup nothing else runs, so the scan stays
valid for rows still to be visited (`ScanInv`, `StartupInv`).

*OracleXA, truth.* That the journal tells the truth needs what each actor is about to record (`TruthInv`). A branch is
prepared in the database only while its row is PREPARING, PREPARED, COMMITTING or ROLLING_BACK, and a terminal row
names what the database did (`Truth`). An operation or a recovery thread that has its answer from the database and has
not recorded it yet will record the truth, unless another actor recorded it first and its compare-and-set will find
that (`OpTruth`, `TaskTruth`). A reply that names a terminal state names the state of the row until the row is forgotten
(`ReplyInv`). Discipline is a premise of each step: it says which actors can meet at one row. The theorems assume
`MaxJournalFaults = 0`, and the run oracle_xa_truth_violation shows that this is no convenience: with one failed write the
property is false. OutcomeRequested needs no such premise: nobody holds a branch whose prepare was acknowledged but
the actor that was asked to resolve it, and the outcome recorded is the one announced in the row (`AskedInv`).

*ProviderServer.* The invariant ties the lock state to the program counters: readers are the goroutines
that use the connection, the writer is the one that closes it, a waiting closer has removed it from the
map, and `closed` is set exactly when the provider's Close was called. Use after close is then two holders
of incompatible locks; a second close would find the mark.

*ProviderStreams.* Bytes, offsets and the integers' wrap are carried through the loop of ReadLob: as long as no check
failed, the chunks sent are contiguous from the requested offset, the handler's counters agree with them and no sum has
wrapped (`LobInv`). For recovery, no branch was sent twice or in a state that is not recoverable, and a call
ends well only when the provider's stream is exhausted (`RecoverInv`). For the unary handlers the party reached is a
function of the request and the provider's manager, neither of which changes during a call, what was advertised agrees
with that manager, and a reply passed on has passed the handler's check of it (`UnaryInv`).

*QueryCache.* CacheFresh is about results that can still be looked up; the invariant is also about those still being
recorded, which may be stored later: a result of the current generations is no older than what was acknowledged
(`FreshInv`). Reading and storing keep this because what is read now is committed. What endangers it is an
acknowledgement, so each must come with an invalidation that reaches every query that reads a changed entity:
expandEntities does from the changed entities on (lemma ReadersExpanded, from the configuration's closure), and what is
invalidated must hold what was changed. That is the second half, `CoverInv`. What the calls of a transaction changed is noted by its
connection until its end is acknowledged (`NotedInv`; during a change, all but that change). The changes of a branch
are noted by the connection it was prepared on, as long as that takes its transaction for active, or retained under the
branch, or nothing is retained and everything will be invalidated (`BranchInv`, `Holds`); a recovery caller between two
locks has taken them (`TaskInv`). PrepareBranch is why this is delicate: between the source's answer and
retainBranchInvalidation the branch may be resolved, forgotten or decided heuristically, and the call may be a repetition
(`PrepareInv`, `HomeInv`). A repetition that finds neither leaves a record of no changes, and the invariant keeps
track of its mark. NothingUncommitted follows from the same invariant: a query was admitted outside a transaction, and
what its connection sees is committed as long as none begins (`CleanInv`).

*QueryCache, store.* StoreSound (each key once, no more entries and bytes than configured, only whole results) needs no
hypothesis. The bytes of the store are the cardinality of a set with one element for each byte of each entry, so that
putting an entry in front and dropping from the back are injections between index sets and no sum is proved by
induction (lemmas on `Held` and `Bytes`). The invariant (`StoreInv`) says in addition that an entry or a recording has
no generation newer than the current one, so that a key that comes back is the same key.

*HostGateway.* The invariant relates three places: the registry (one generation counter per host, the
newest session has it, older ones are disconnected), the directory (`bound` and `byID` agree and hold
attached streams), and the handlers' program counters (what a handler between two locks knows is still
true, or it has been superseded). No stored time is later than the latest the clock has shown (`TimesPast`), so a
stream that ended has left both unless its close failed or the clock is behind.

*HostScan.* The messages under way to the gateway, the one its receive loop holds and the events the caller has not
taken are read as one queue. `ScanInv` says of each scan which batches are where: they are consecutive, in order
(`Ordered`, `Gapless`), the end comes last, and as long as the caller waits and the session lives, the agent works on
the scan, the request is under way, or the answer is (`Awaited`). ScansExact says in addition that a late message never
ends the session while its scan is remembered. The code remembers a bounded number of retired identifiers and treats a
message for any other as a protocol error; the proof keeps every identifier that a message may still name among the active,
the retired and the forgotten ones (`Remembered`), and an identifier is forgotten only when the limit is reached.

*HostQuery.* A target is with the feeder, with exactly one worker, or counted: `remaining` is the number of
outstanding targets, and each of the others has contributed its rows or its failure exactly once (`Owned`, `Collected`).
The counting is by cardinality, so any number of targets, workers and rows is covered.

*BACnetManager.* `LoopLocks`, `CallLocks` and `CloseLocks` say who holds which lock at each program counter;
`ClientsExact` says which clients are open at each stage of New and Close, and that no loop is alive once
Close closes clients. A user that is past its test of `closed` holds the read lock, so the writer cannot
have closed the client.

*BACnetRegistry.* RegistryExact becomes inductive with the order of the time stamps (`StampsOrdered`: no device was
seen later than the attempt that is under way, and attempts do not overtake each other). The steps of a refresh are followed one by one, from what
was received over merge, conflict and retention to the new table.

*SharedSessions.* Each session and each goroutine is in one of a few shapes (`TaskShape`): a reference is counted
exactly once, for the connection that holds it or the goroutine that has it in hand (`CountsExact`, `InHand`), an
identifier is used once (`IdsFresh`), and a session is closed only after its last reference was given up
(`LifeExact`). LeaseImplemented shows that every step, under the mapping of SharedSessions, is a step of SessionLease
or changes nothing it shows; the lease's progress (LeaseServed) is model-checked.

*KubernetesStream.* The theorem is about the stream alone (`StreamSpec`), opened on any list, columns, batch size and
limit: Kubernetes changes the stream only through the actions of this module, and opens it on what the server lists. Between two pages the reader has the tuples of exactly the objects before
`next`, the limit minus what remains is their number, and a stream that is done without an error stands behind the
last object the limit lets through (`StreamInv`). A page that is longer than what remains is cut (`tupleCount`), an empty
page that names a next one is asked again, and a page with a token and nothing behind it is not taken for the end.

**Only model-checked.** All liveness properties and the absence of deadlock, which are out of the prover's reach. The
answers of the Redis, Cassandra, OpenAPI and in-memory providers (RedisExact, EofComplete of the providers run,
PublishedUsable, WritesExact, AnswersExact), the names and mutations of the Kubernetes provider (TablesExact, MutationsExact), and
the profiles and requests of the BACnet provider (RequestsExact): they compare what an algorithm computes with a reference
definition over given tables, documents and calls, and recur over filters, expressions, schemas or inserted
rows; what a recursive definition computes for every input needs induction over data, which the provers cannot do.

## 5. Not modelled

Generated bindings, the Java and Python SDKs, packaging and release tools; the text of SQL of the Oracle
provider and its JDBC values; semantic fragments and metadata that are tables of constants; collectors that read
`/proc`; process wiring, flags, loading of files and credentials; HTTP, TLS and retries inside client libraries.
The time to live of a cache entry is not counted: whether it is over is decided when the entry is looked up. OracleXA
assumes the resource manager lease, that is one provider process at a time. Names are canonical where the
code compares them without case everywhere, which of the OpenAPI provider is not so; native types that convert like a modelled one are not repeated.
`PROJECT.json` lists each part with its reason, and the hazards with the properties that cover them.

## 6. Plan

1. **Proofs**: the paging of the OpenAPI and Cassandra streams, apart from their recursive definitions, as was done for Kubernetes.
2. **Host**: query planning and values; the agent's reconnect loop with its classification of errors.
3. **Oracle**: pools, the lease and its loss, the connection registry.
4. **SDK**: capabilities in detail, values and metadata as operators against a reference.
