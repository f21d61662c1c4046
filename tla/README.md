# m-trace in TLA+

This directory specifies the behaviour of m-trace, a self-hosted observability
service for media playback, and checks it: TLC explores small instances of every
module, TLAPS proves the safety properties for all values of the constants. Paths below are relative to the repository root; `A/` stands for
`apps/api/`.

## 1. The system

A player SDK in the viewer's browser turns player events into batches and posts
them to the API. The API checks token, origin and rate limits, validates the
batch, and writes sessions, boundaries and events to a SQLite or PostgreSQL
store. A sweeper closes sessions that fell silent. A dashboard lists sessions
and events page by page and follows new events over server-sent events (SSE),
falling back to polling. Beside this path, a collector polls a media server for
SRT connection health, an ingest-control service manages stream keys for
publishers and provisions the media server, and an analyzer service inspects
HLS/DASH manifests on request.

### 1.1 Components

| Component | Code | State | Operations | What is hard about it | What makes it correct |
|---|---|---|---|---|---|
| Event ingest use case | `A/hexagon/application/register_playback_event_batch.go` and the validation beside it | none of its own; a request carries candidate correlation ids and ingest sequences | register a batch: resolve ids, upsert sessions, set sample rates, append boundaries, append events, publish | four transactions and an unprotected lookup per request, concurrent requests for one session, failures between the steps, client retries | events carry the id of their session, nothing is lost or orphaned, the count covers the events, one accepted event per key |
| Session store | `A/adapters/driven/persistence/{sqlite,postgres,inmemory}/session_repository.go`, `A/hexagon/domain/stream_session.go` | session rows, boundaries | upsert from events, sweep, set rate, list, get | insert races under READ COMMITTED, lock order, late events | an end is final, identity is immutable |
| Event store, ingest sequencer | `A/adapters/driven/persistence/*/event_repository.go`, `*/ingest_sequencer.go` | events, sequence counter or blocks | append with delivery classification, list a page, list after a sequence | counter reseeded at start, blocks of several replicas, commits out of sequence order | sequences unique, page order total and stable |
| Session sweeper | `A/hexagon/application/sessions_sweeper.go` | ticker | one pass over all sessions | races with late events and client ends, errors | idle sessions end, ended ones are left alone |
| Event broker and SSE stream | `A/hexagon/application/event_broker.go`, `A/adapters/driving/http/sse_stream.go` | subscriber channels, cursor of each connection | subscribe, publish (never blocks), backfill, live frames, heartbeat | full buffers, backfill overlapping live frames, reconnects, shutdown | nobody blocks, nothing skipped without notice, no cross-project frame |
| Dashboard SSE client and sessions page | `apps/dashboard/src/lib/sse-client.ts`, `routes/sessions/+page.svelte` | connection state, retry and poll timers | connect, reconnect with backoff, fall back to polling | callbacks after a disconnect, timers that outlive it | one source at a time, nothing after stop |
| Session queries and pagination | `A/hexagon/application/sessions_service.go`, `A/adapters/driving/http/cursor.go` | opaque cursors | list and detail pages | rows that commit between two pages, the order of times as text, tokens that come back elsewhere | what was there is shown, each row once, no token accepted for another list |
| Stream analysis | `A/adapters/driving/http/analyze.go`, `A/hexagon/application/analyze_manifest.go`, `A/adapters/driven/streamanalyzer/` | none | check the request, call the analyzer service, look the session up | the session is looked up half a minute after the request; the caller may have been given up | a link is true, a conflict is one |
| SRT health collector | `A/hexagon/application/srt_health_collector.go`, `A/adapters/driven/srt/` | last samples, consecutive errors, backoff | poll, evaluate, store | media server that is down or sends stale samples | freshness says what it means, backoff bounded |
| Rate limits | `A/adapters/driven/ratelimit/`, `A/adapters/driven/auth/*rate_limiter*.go` | token buckets in memory, SQLite or Redis | allow, issue | several buckets per call, refunds, clock regress, store failure | never above capacity plus refill |
| Ingest control | `A/hexagon/application/ingest_control_service.go`, `*/ingest_stream_repository.go` | streams, keys, their lifecycle | create, rotate, deactivate, validate a publish, lifecycle hook | rotation racing validation, provisioning that fails half way | one active key, ended is final |
| Media server and webhooks | `A/adapters/driven/mediaserver/`, `A/adapters/driven/webhooks/` | none | provision paths, deliver webhook with retries | partial failure, retry | the receiver and the media server know only what is stored |
| Auth tokens | `A/hexagon/domain/auth_*.go`, `A/hexagon/application/issue_session_token.go`, `A/adapters/driven/auth/` | project tokens with rotation windows, signing keys | issue, verify, rotate | overlap of old and new keys | expired or revoked is refused |
| HTTP adapter | `A/adapters/driving/http/` | none | routing, status codes, headers, CORS | order of checks | see the components it calls |
| Storage and migrations | `A/internal/storage/` | schema version, dirty flag | open, migrate | crash in the middle, two processes | never half migrated unnoticed |
| Wiring | `A/cmd/api/main.go` | process life | start, shut down | order of shutdown | no write after close |
| Metrics and telemetry | `A/adapters/driven/{metrics,telemetry}/` | counters | publish | none | none |
| Player SDK | `packages/player-sdk/src/` | queue of events, sequence number, timers | track, flush, end, retry | flush while sending, page hide, 429 | bounded queue, order kept, one session_ended |
| Stream analyzer | `packages/stream-analyzer/src/` | none | parse manifests, load segments, follow links | redirects, limits | verdicts match the manifest |
| Analyzer service | `apps/analyzer-service/src/` | requests in flight | analyze over HTTP | limits and timeouts | one answer per request |
| Dashboard pages | `apps/dashboard/src/routes/` | view state | fetch and show | none | none |
| Deployment, scripts, docs | `deploy/`, `scripts/`, `examples/`, `docs/` | none | none | not program logic | none |

### 1.2 How they interact

The use case is the only writer of events and the main writer of sessions; the
sweeper is the other one. They share nothing but the store, so every race
between them is a race between transactions. After the append the use case
hands the events to the broker, which copies them into the channel of each SSE
connection without waiting; a connection reads older events from the event
store by ingest sequence. The dashboard reads the same sessions through list
queries, page by page, and a manifest analysis is linked with one of them. The
collector, ingest control and the token code share the store but no rows with
the ingest path. Before a batch reaches the use case it has passed the limiter of
its client's address, the credentials and the limiter of its project; a limiter
and a generation of project tokens are shared by the replicas, a signing key is
loaded by each of them when it starts. All of it begins with the migrations of a
start and ends with the shutdown of the HTTP server.

## 2. Modules

| Module | What it is |
|---|---|
| `SessionIngest` | the ingest path: use case, session store, event store, sequencer and sweeper, step by step |
| `SessionLedger` | what the store promises a reader, without workers, transactions or time |
| `EventStream` | from a drawn sequence to a frame a client has read: sequencers of several replicas, brokers, SSE connections |
| `SseClient` | the live sessions page: connection machine, polling fallback, list requests |
| `SrtCollector` | the SRT health collector, its evaluation and its repository |
| `IngestControl` | streams and keys, validation, publish and lifecycle hooks, webhooks, provisioning, configuration |
| `KeyRing` | what those who publish are promised, without requests, statements or transactions |
| `RateLimits` | the seven limiters, in memory, in SQLite and in Redis |
| `Access` | project tokens, session tokens, signing keys, and what gets a request in |
| `Pages` | the three lists that are read in pages while others write |
| `Analyze` | extends `Pages` by the manifest analysis and its link with a session |
| `Lifecycle` | migrations at the start, service, shutdown |
| `SessionIngestProofs`, `EventStreamProofs`, `SseClientProofs`, `IngestControlProofs`, `RateLimitsProofs`, `AccessProofs`, `PagesProofs` (of `Analyze` too), `ProcessProofs` (of `Lifecycle` and `SrtCollector`) | the inductive invariant of each and the theorems about it (section 5) |
| `MCSessionIngest`, `MCEventStream`, `MCSseClient`, `MCSrtCollector`, `MCIngestControl`, `MCRateLimits`, `MCAccess`, `MCPages` (of `Analyze`), `MCLifecycle` | the instances TLC checks, one `.cfg` per run |

The modules meet at the store: `SessionIngest` commits events, `EventStream`
starts at the commit and keeps of the ingest path only what decides which frame
reaches whom, `Pages` starts there too and keeps what decides on which page a row
falls, and `SseClient` keeps of the stream only that it delivers in order behind
Last-Event-ID. `Analyze` reads the rows `Pages` writes. `RateLimits` and `Access`
say what happens before `SessionIngest`'s `Receive`, and `Lifecycle` what happens
before and after all of it. They are not composed into one state machine: the
product is beyond TLC, and each interface is one step of the code (`Append`
returns, a frame arrives, a limiter decides). `SrtCollector` and `IngestControl`
share no rows with the others.

In every module a definition under a comment in parentheses is what its
neighbour would be with one plausible mistake. No action uses it; put in place
of its neighbour, it makes a property of a run fail, which shows that the
property depends on that line of the code.

### 2.1 SessionIngest

State: `sessions`, `events` and `boundaries` are the committed tables; `staged`
and `pending` are the rows an open transaction has written and nobody else sees;
`writer` is the holder of SQLite's single write lock. `nextSeq` is the ingest
sequencer, `nextCid` stands for fresh UUIDs. `pc`, `batch`, `pos`, `cand`,
`found`, `at` and `firstSeq` are the local variables of a request.

One action is one store access of
`RegisterPlaybackEventBatch` (`A/hexagon/application/register_playback_event_batch.go:116`):

| Action | Code |
|---|---|
| `Receive`, `Reject` | `authorizeAndAdmit`, `parseEvents`, boundary validation; a rejected batch has drawn sequences |
| `Resolve` | one lookup of `resolveCorrelationIDs`, outside any transaction |
| `BeginUpsert`, `UpsertRead`, `UpsertWrite`, `CommitUpsert` | `UpsertFromEvents`: per event a read, then insert or tick and end, then one commit |
| `SetSampleRate` | one session of `applySessionSampleRate`, a statement of its own |
| `AppendBoundaries` | one transaction |
| `BeginAppend`, `Insert`, `CommitAppend` | `EventRepository.Append` with `classifyDelivery` per event |
| `Fail` | a store call fails or the client goes away: the deferred rollback, and what was committed stays |
| `AbortDeadlock` | PostgreSQL ends one transaction of a wait cycle |
| `Restart` | the SQLite deployment's one process stops and starts, the sequencer reads `MAX(ingest_sequence)` |
| `StartSweep`, `RunSweep`, `FailSweep` | one `SweepOnce`, its time taken before its transaction |
| `Clock` | time passes |

With `Store = "sqlite"` a transaction is exclusive from its begin
(`_txlock=immediate`); with `"postgres"` statements of different transactions
interleave, a row written by an open transaction is locked, `ON CONFLICT DO
NOTHING` waits for an uncommitted insert only, and what is committed is visible
to the next statement. A worker's batch draws its sequences in one step: which of
two concurrent batches gets which number makes no difference to any property
here; `EventStream` draws one by one.

Not in the model: validation rules, redaction, metrics and tracing (they change
nothing the properties see), list queries (`Pages`), projects other than one,
and the in-memory store, which has the same row operations under one
mutex and no restart.

### 2.2 SessionLedger

A session appears, is stalled, ends, and keeps its id; an event enters the log
once and only for a session that is there. `SessionIngest` implements it under
the mapping that forgets everything but life, id and the events' sequence,
session and id (`ImplementsLedger`).

### 2.3 EventStream

State: `nextval` and `block` are the database sequence and each replica's
buffer; `stored` is `playback_events`; `phase`, `project`, `batch` and `targets`
are the locals of a request and of its `Publish`; `conn`, `replica`, `channel`,
`backfill` are an SSE connection, `lastId` and `seen` its client. `before`,
`dropped`, `elsewhere`, `cut` and `overtaken` are history: they record why an
event need not reach a client and no action reads them.

| Action | Code |
|---|---|
| `Post`, `Draw`, `Abandon`, `Commit` | a request that draws one sequence per event (`IngestSequencer.Next`, `reserveBlock`) and commits them, or ends before |
| `Snapshot`, `Send`, `Respond` | `EventBroker.Publish`: the subscribers of the moment, then per event a send that never waits |
| `Connect`, `Subscribe`, `StartBackfill` | `SseStreamHandler.ServeHTTP`: headers, subscription, one query behind Last-Event-ID, cut at the limit |
| `ReadBackfill`, `ReadLive` | frames reach the client; `dispatchFrame` of the dashboard takes their id as it comes |
| `Disconnect`, `Restart` | a connection breaks; a process ends with its requests, channels and reserved values |

SQLite is the instance with one replica and blocks of one. Abstracted: the
bytes between handler and client (a frame that was written and not read is as
lost as one not written, and neither moves Last-Event-ID); the sends of one
event to all subscribers are one step, as nothing relates two channels; blocks
are contiguous, while two replicas that reserve at the same moment may get
interleaved ones: no property uses more than that they are disjoint and
ascending. Heartbeats and headers are
left out.

### 2.4 SseClient

State: `closed`, `status`, `polling`, `attempt`, `lastId` and `handle` are the
fields of `SseMachine`; `connection` is where its `connect()` waits; `reconnect`
and `timers` are the timers the browser holds, known to the machine or not;
`reads`, `shown` and `error` belong to the page. `head` and `position` are the
server. One action is one task of the event loop, up to the next await: that is
where JavaScript interleaves.

| Action | Code (`apps/dashboard/src/lib/sse-client.ts`) |
|---|---|
| `FetchSucceeds`, `FetchFails`, `StreamEnds` | the outcomes of `connect()`, with `stopPolling` or `handleConnectionError` |
| `Frame` | `drainStream`, `dispatchFrame`, and the page's `refresh()` |
| `Serve`, `Answer`, `ReadFails` | the server reads the list; the answer arrives, or an error (`routes/sessions/+page.svelte`) |
| `Reconnect`, `PollTick`, `Tick` | timers fire, time passes |
| `Disconnect` | `onDestroy` |

Time counts in polling intervals, `BackoffMax` is cut from six intervals to
three, and at most `Cardinality(TimerIds) - 1` loops of ticks live at once
(`MaxLoops`). The text parser of the stream and the other fields of the page
are left out.

### 2.5 SrtCollector

State: `source` and `link` are MediaMTX, an environment that is up or down (no
answer, an error status, or one that does not parse: the code takes them alike)
and whose connections open, publish, receive and close; `batches` is
`srt_health_samples`, one entry per commit, with its age; `stage`, `wait`,
`timer`, `readings`, `overdue`, `late` and `results` are the locals of `Run` and
`Collect`. The specification is `CollectorSpec`: its names carry a prefix because
its proofs stand in one module with those of `Lifecycle`.

| Action | Code (`A/hexagon/application/srt_health_collector.go`) |
|---|---|
| `Poll`, `PollFails` | the timer of `Run`, `SnapshotConnections`, backoff after an error |
| `Evaluate` | `LatestByStream` and `Evaluate` per connection |
| `Store`, `StoreFails` | `SrtHealthRepository.Append`: one transaction that skips what is known |
| `Restart` | the process stops and starts |
| `Tick` | an interval passes |

A reading keeps what decides a status other than ok: the connection, its byte
count and whether it is connected. Of several latest rows of one stream
`Collect` keeps one in a map; the model takes any of them. Ages stop at
`StaleAfter`. One collector runs; RTT, loss and bandwidth grading, metrics and
history pages are left out.

### 2.6 IngestControl

State: `rows`, `keys`, `retired`, `disabled` and `log` are the tables of streams
with their routing rules, of keys and of lifecycle events; `paths` is the media
server, `received` the receiver of the webhooks; `req` holds the locals of each
request. `seen` and `steady` are history: the keys that were active at some and
at every moment of a request. A request runs one statement or one outbound call
at a time and may break off before any of them (`Break`).

| Action | Code |
|---|---|
| `PostStream`, `PostRotate`, `PostValidate`, `AuthHook`, `PostHook`, `GetConfig` | the handlers of `A/adapters/driving/http/ingest.go` |
| `GetStreamByID` | the first statement of rotate, validate, publish and lifecycle hook (`A/hexagon/application/ingest_control_service.go`) |
| `CreateStream`, `TryProvision`, `Created` | one transaction, then the media server, whose answer decides nothing that is stored |
| `BeginRotation`, `StartUpdate`, `Deactivate`, `CommitRotation`, `RotationAnswered` | `RotateKey`: on SQLite under the write lock, on PostgreSQL an UPDATE that waits for locked rows and rechecks them |
| `ValidateKey` | `FindActiveStreamKey` (LIMIT 1, no order) and the comparison of hashes |
| `ReadFingerprint`, `ReadRule`, `AppendLifecycleEvent`, `SendOnce`, `Recorded` | `RecordLifecycleEvent` and the webhook dispatcher (`A/adapters/driven/webhooks/`) |
| `ListByProject`, `ReadKey`, `GetMediaServerConfig` | the configuration and its warnings |
| `Disable` | an operator in the database |

`KeyRing` says what becomes of the keys when nothing else is looked at: a stream
appears with its first key; a rotation takes keys of one stream away and gives it
a new one in one step; a key that was taken away never is good again. Where
writers exclude each other (SQLite) a rotation takes all keys the stream has.
`IngestControl` implements it under the mapping that keeps the active keys of
each stream and the retired ones (`Ring`): of the three statements of a rotation
only the commit is a step there, and a request that breaks off is none.

Left out: the in-memory store (each operation under one mutex), requests refused
for their form, the list and detail reads, and how long webhook attempts take.

### 2.7 RateLimits

State: `buckets` with tokens, time of the last refill and time of the last touch;
`limiter` and `store` say whose buckets a behaviour follows, `up` whether Redis
answers, `time` the true time and `offset` by how much a reading of each
replica's clock is ahead of it at most. `ideal` is
history: what a bucket that sees the true time would hold after the same grants.
The wall clock is read before the transaction or the script, so calls take effect
in another order than that of their times: a call works with any of the
`Readings` of its replica, and `Skew` bounds the difference of two clocks and
the waiting for the store together.
The in-memory buckets use the monotonic clock, so they see the true time.

| Action | Code |
|---|---|
| `AllowInMemory` | `A/adapters/driven/ratelimit/token_bucket.go`, `A/adapters/driven/auth/in_memory_{issuance,origin}_rate_limiter.go`, each under its mutex |
| `AllowInSqlite` | `sqlite_issuance_rate_limiter.go`: one immediate transaction, now and then with the removal of idle buckets |
| `AllowInRedis` | the three Lua scripts |
| `Unanswered`, `Cancelled` | `handleRedisError`: the script may have run; own buckets when it fails open, else refusal; a caller that has left |
| `Expire`, `Restart`, `RedisGoes`, `RedisReturns` | keys with a TTL, a process that starts, a server that is away and may come back empty |

Left out: limiters that are switched off, and a change of capacity or rate.

### 2.8 Access

State: `gens` are the generations of project tokens in the database, `config`
the signing keys in the secret backend, `ring` what each replica has loaded of
them, `issued` the session tokens, `req` the one request that is followed,
`settled` the moment since which all replicas have the present keys. A token of a
configured project has no end and is named by its project.

| Action | Code |
|---|---|
| `ArriveEvents`, `Admit` | headers (`A/adapters/driving/http/handler.go`, `resolve…`) and, after the body, `authorizeAndAdmit` with a lookup of its own |
| `ArriveIssue`, `IssueSessionToken` | `POST /api/auth/session-tokens`, `A/hexagon/application/issue_session_token.go` |
| `Leave` | the request is refused or answered |
| `Create`, `SetGraceUntil`, `Revoke` | the operator's writes to `project_token_generations` |
| `AddKey`, `SwitchKey`, `RemoveKey`, `Boot` | the documented rotation of signing keys, replica by replica (`docs/user/auth.md`) |
| `Tick` | a second |

Abstracted: signatures cannot be forged and no unsigned token is presented; what
the backends (environment, Vault, KMS) may return is the union of their
outcomes; the only audience is `playback-events`, as in the policy of every
configured project; a token is bound to one of the allowed origins or to none.
The operator works on tokens or on keys within one behaviour, the replicas'
clocks agree, and a key is removed no earlier than the longest lifetime after
every replica had its successor, as `auth.md` demands.

### 2.9 Pages

State: `rows` is what a reader sees, `batch` what each writer has received but
not finished, `stamps` the commit timestamps PostgreSQL has given out, `walk` the
reading: its token, the watermark, and what it has been shown. `store` and `list`
say which of the three stores and which of the three lists (sessions, events of
a session, SRT samples of a stream).

| Action | Code |
|---|---|
| `Receive`, `Stamp`, `Show`, `Fail` | a batch gets its time, its commit timestamp, becomes visible, or is rolled back |
| `Visit` | the reader begins a list, with the token it still holds or one of another release |
| `WriteCursorError` | `A/adapters/driving/http/cursor.go`: malformed, legacy, of another list |
| `ResolveWatermark` | `SELECT now()` of the PostgreSQL event repository, once for the first page |
| `ReadPage` | the keyset query with limit + 1 and the next token |
| `Tick` | time; three moments of a second, written ".1Z", ".12Z" and "Z" |

On PostgreSQL a commit is stamped before it is visible. A batch that is stamped
under the watermark and becomes visible only while the pages are read is skipped,
or shown in part when its rows lie on both sides of the last page; the
comment at `postgres/event_repository.go:56` promises a stable set without
this case (`BatchesWhole`, section 6). `NothingSkipped` therefore speaks of what
was visible when the reading began, and `OfOneMoment` bounds what is shown without
saying that all of it is. A session's row is stored before its events are, so
a list of events may be empty that exists. The collation of PostgreSQL, the latest sample per stream, the boundaries
beside sessions and the detail of one session (three queries without a
transaction) are left out.

### 2.10 Analyze

`POST /api/analyze` over the sessions of `Pages`. `job` is the request followed;
`unnamed` are sessions of an earlier release, which have no correlation id.

| Action | Code |
|---|---|
| `ServeHTTP` | `A/adapters/driving/http/analyze.go`: media type, size, JSON, fields, then the token |
| `Wait`, `AnalyzeManifest` | `A/adapters/driven/streamanalyzer/http.go`: the call, up to its timeout, and every kind of answer |
| `LookUp` | `resolveSessionLink` (`A/hexagon/application/analyze_manifest.go`) with the store as it is by then |
| `Return` | the response, whose outcome `DomainHTTPStatus` maps |

The analysis is passed on unread; the ids of sessions of two projects differ; the
lookups are the same in all stores, so one of them (SQLite) is enough. Time is
counted in tens of seconds.

### 2.11 Lifecycle

State: `schema` are the rows of `schema_migrations`, `done` the migrations whose
bodies are in effect, `lock` PostgreSQL's advisory lock, `orphans` the commits of
a process that is gone, `phase`, `release`, `pending`, `failed` and `conns` a
replica's; `exit` and `cut` how it ended and whom it left; `doubt` is history.

| Action | Code |
|---|---|
| `Boot`, `TakeLock`, `CheckDirty`, `ListPending` | start and `Apply` (`A/internal/storage/migrate.go`) |
| `ExecuteBody`, `Commit`, `MarkDirty`, `ReleaseLock` | `applyOne`: body and row in one transaction, the mark in another, the lock on a connection of its own |
| `Serve`, `Arrive`, `Finish` | from the services that are built to the open port, requests and streams |
| `Terminate`, `Shutdown` | `serve` of `A/cmd/api/main.go`: five seconds for open connections |
| `Kill`, `Settle` | the process is gone at any point; the server ends its transaction |

On SQLite one process runs at a time: two processes on one file have no lock
(`migrate.go:15` and `auth.md` say so). The operator's repair is left out.

## 3. Runs

| Run | Instance | Shows |
|---|---|---|
| `sqlite` | 2 workers, 2 requests out of a key repeated in one batch under rates 8 and 10, an ending one, one of rate 7, and one of rate 5 that also brings a row from before correlation ids; 1 failure or restart; time 0..2 | client ends honoured, counts, deduplication, sequences, no orphans, immutable identity, no event before its session's rate |
| `postgres` | two batches over two sessions in opposite orders, 1 failure, sweeps | the inductive invariant, agreement of ids under lost insert races and deadlocks, final ends, nothing lost, the ledger is implemented |
| `live` | PostgreSQL, two sessions, 2 workers, 1 failure; plain batches of one session with time 0..2, or two batches over both sessions in opposite orders that come at the last moment; fairness | every request is answered, also when requests lock each other out or one is broken off, and idle sessions end although sweeps may fail |
| `stream` | 2 replicas with a writer each, one client at either; 4 sequences in blocks of 2, the second replica storing one batch; channel and backfill limit 1, 1 break; fairness | an event is missed only for one of four reasons, and an owed one is read in the end |
| `page_machine` | 3 timer handles, 2 list requests in flight, 2 events; fairness | never stranded, quiet after disconnect, catches up by polling |
| `srt_polling` | one stream, two connections, byte counts 0..1, 1 trouble; fairness | backoff bounded, samples stored once and in order, a stale one repeats an old one of its stream, what a live connection has received is sampled in the end |
| `control` | both databases, one stored stream, three requests: one of any other kind from either project, one that creates or rotates, one that rotates; 2 webhook attempts | a stream always has a key, on SQLite exactly one; answers are true; the outside knows what is stored; the keys behave as `KeyRing` says |
| `limits` | 7 limiters, 2 replicas, 2 clients, capacity 2, global capacity 3, clocks and waiting that differ by 1, idle after 4, time 0..5 | budgets are kept, nobody pays for another |
| `rotation` | 2 configured projects and one that is gone, 1 generation, 2 keys, 2 replicas, 1 session token with a lifetime up to 2, time 0..3 | nobody gets in without a right, and nobody who has one is kept out |
| `pages` | every list in every store, 2 writers, 3 rows, pages of 1 or 2, times 0..1; or the analysis, with a deadline of 1 for analyzer and server | nothing skipped, pages continue, nothing of a commit after the watermark, links are true |
| `pages_order` | the same | violation, section 6 |
| `lifecycle` | 2 replicas, a release with one migration and its successor with two, both databases, 4 starts, 2 faults; fairness | the migration table is true, alarms are justified, a dirty schema is left alone, every start and stop ends |

Configurations beside these reproduce a disagreement of section 6; each ends
with a counterexample in seconds, `Pages_half.cfg` in minutes:

| Configuration | Module | Violated |
|---|---|---|
| `SessionIngest_endrace.cfg` | `MCSessionIngest` | `ClientEndHonoured` |
| `EventStream_dropgap.cfg` | `MCEventStream` | `DroppedFramesAreRecovered` |
| `SseClient_polls.cfg` | `MCSseClient` | `PollsAreSpaced` |
| `SrtCollector_stale.cfg` | `MCSrtCollector` | `FrozenIsReported` |
| `IngestControl_rotate.cfg` | `MCIngestControl` | `RotationRetires` |
| `Access_grace.cfg` | `MCAccess` | `GraceEnds` |
| `Pages_half.cfg` | `MCPages` | `BatchesWhole` |
| `Analyze_late.cfg` | `MCPages` | `AnswerArrives` |

`EventStream_slow.cfg` is another instance of `stream` and passes: two clients, one
of which need not read, and one block of three sequences.

`OneRowPerSequence` and `OwnFramesOnly` of `EventStream`, and `TypeOK` of
`SessionIngest` (a conjunct of `IInv`), `EventStream`, `SseClient`, `Access`, `RateLimits`,
`Pages` and `Lifecycle`, are in no run: they are proved (section 5).

Bounds. In the ingest runs two workers are enough for every race between
requests: the properties relate a row to one other writer at a time, and the
proofs of section 5 show the safety part for any number. Two sessions are needed
for lock cycles and for a row from before correlation ids beside one with an id. `MaxRequests` 2 gives each worker a
request or one worker a retry; `MaxFailures` 1 puts a failure or restart between
any two steps; time up to 2 passes both thresholds of the sweeper. Rate 10
stands for `SampleRateFull` and the tolerance is 1: 7 and 8 are within the
tolerance of each other, 5 and 7 are not, so a rate that is set meets another one
below full on either side of the tolerance.

`live` restricts which batches come together (`OneKind`): plain ones of one session
leave time to the clock and the sweeper; `There` and `Back` lock two sessions in
opposite orders and come when no time is left, where they deadlock, one is
aborted, and both are answered. Together they would only multiply states.
`OneKind` keeps back new requests alone, which nothing fair depends on.

Symmetry is used where the instance has it and no liveness property is checked:
the workers in `sqlite` and `postgres`, replicas and projects in `rotation`,
streams and writers in `pages`.

In `stream` a channel and a backfill limit of one make overflow and
truncation happen with the second event. Four sequences are two blocks: each
replica draws one, the later block can be stored before the earlier one is used up,
and a break lets the client come back, at either replica, to a backfill that is
cut. Each of the four reasons for a missed event (`overtaken`, `cut`, `elsewhere`,
`dropped`) occurs, and without any one of them `NoUnexplainedGap` fails on this
instance. The second replica stores one batch (`SecondStoresOnce`), which is what
the first is compared with. In the page run
`MaxAttempts` is the threshold, after which the code only repeats itself, and
two list requests can overtake each other. In `srt_polling` one trouble falls
into any step, and two connections of one stream are what tells the
deduplication key from the stream. `StaleAfter` is 2, so that a poll meets young
samples and, after a failure or another poll, old ones.

In `control` three requests let two rotations and a reader of their keys overlap,
or a rotation and the creation of another stream, and the two attempts are the
first and the last. In `limits` a bucket of two can
be drawn in part, at once and beyond; time 5 is long enough for an idle bucket to
go, and the idle time, as in the code, is longer than a full refill
(`TTLAssumption`). In `rotation` the moments 0..3 lie before, at and after each
end a generation or a session token of two seconds can have, and two keys are what
a rotation needs. Three rows in `pages` make three pages of one or a page of two
and a next one, of which a writer's batch of two may straddle the border;
`Pages_half.cfg` takes four, for two that are there and a batch of two that appears
between the first page and the second. Four
starts in `lifecycle` are two replicas that start twice, or one that meets what
another left; two faults let the mark fail after the migration did.

`OneAcceptedPerKey` is checked for SQLite only. ADR-0002 rests it on
`BEGIN IMMEDIATE`; under READ COMMITTED two overlapping retries both find no
predecessor and are both stored as accepted, which the contract's wording
("bereits als accepted persistierter Vorgänger") leaves open.

The deadlock check is off in `page_machine` (a page that was left has nothing more
to do), `control` (all requests are answered), `limits`, `rotation` (time is up)
and `lifecycle` (all replicas are off and no start is left).

## 4. Fairness

Ingest: `Serve(w)` is weakly fair: the goroutine of a request goes on. That
suffices for its waits too: a lock is held by requests that end themselves, and
there are finitely many. `AbortDeadlock` is weakly fair: PostgreSQL resolves deadlocks.
`Clock` and `StartSweep` are weakly fair: the ticker fires. `RunSweep` is
strongly fair: a sweep may fail, but not for ever, which is what the
log-and-continue loop of `Run` relies on. No fairness is assumed of clients,
failures or restarts.

Stream: the handler of a request that has committed and the handler of a
connection are weakly fair, as goroutines are. Clients in `Attentive` read and
reconnect; nothing is assumed of the others. Nobody has to post or break off.

Page: the event loop runs what is due (weak fairness of `Fetched`, `Frame` and
`Loop`: the browser fires timers and settles fetches). `Serve` and `Answer` are
strongly fair: list requests may fail, but not all of them for ever.

SRT: `Loop` is weakly fair: the timer fires and queries return. `Recovery` is
weakly fair: an outage may last, but not for ever. Failing transactions and
restarts are bounded by `MaxTroubles` and otherwise free.

Lifecycle: `Proceed(r)` is weakly fair: a process goes on by itself, and statements
return. `Settle` is weakly fair: PostgreSQL ends the transaction of a lost
connection. Clients need not leave, nor handlers return: that is what the deadline
of the shutdown is for. `TakeLock` needs no more, since every holder of the lock
lets it go for good: there are finitely many starts.

`control`, `limits`, `rotation` and `pages` check safety only.

## 5. What is proved

Every safety property a run checks is also a theorem, for all values of the
constants that satisfy the assumptions. A theorem's module is the component's
name with `Proofs`; `ProcessProofs` holds what runs by itself in the API process,
`Lifecycle` and `SrtCollector`, each under its own specification.

| Module | Inductive invariant | Theorems (property) |
|---|---|---|
| `SessionIngestProofs` | `IInv` | `Invariance`, `TypeCorrect`, `EventsCarryTheirSessionsId` (`CorrelationAgreement`), `EventsHaveSessions` (`NoOrphans`), `EndsAreFinal` (`EndIsFinal`), `IdentityIsKept` (`IdentityIsImmutable`), `RatesAreStored` (`RatesPrecedeEvents`), `NothingStoredIsLost` (`NothingIsLost`) |
| | `LInv` | `LedgerInvariance`, `SequencesAreUnique` (`SequencesUnique`), `StoreIsALedger` (`ImplementsLedger`) |
| | `SInv`, SQLite only | `SqliteInvariance`, `ClientEndsAreHonoured` (`ClientEndHonoured`), `CountsCoverEvents` (`CountCoversEvents`), `KeysAreAcceptedOnce` (`OneAcceptedPerKey`) |
| `EventStreamProofs` | `EInv` | `EventStreamInvariance`, `TypeCorrect`, `NumbersAreUnique` (`OneRowPerSequence`), `FramesAreOwn` (`OwnFramesOnly`), `GapsAreExplained` (`NoUnexplainedGap`) |
| `SseClientProofs` | `PageInv` | `PageInvariance`, `TypeCorrect`, `NobodyIsStranded` (`NeverStranded`), `LeavingIsQuiet` (`QuietAfterDisconnect`) |
| `IngestControlProofs` | `CInv` | `IngestControlInvariance`, `TypeCorrect`, `StreamsKeepAKey` (`ActiveKeys`), `NothingIsMadeUp` (`OutsideFollowsStore`), `AnswersHold` (`AnswersAreTrue`), `KeysFollowTheRing` (`ImplementsKeyRing`) |
| `RateLimitsProofs` | `RInv` | `RateLimitsInvariance`, `TypeCorrect`, `BudgetIsKept` (`Budget`), `NobodyIsShortchanged` (`Stocked`) |
| `AccessProofs` | `AccessInv` | `AccessInvariance`, `TypeCorrect`, `AdmissionIsByRight` (`AdmittedByRight`), `NobodyIsLockedOut` (`NeverLockedOut`) |
| `PagesProofs` | `PInv`, `LinkInv` | `PagesInvariance`, `TypeCorrect`, `NothingIsSkipped` (`NothingSkipped`), `PagesGoOn` (`PagesContinue`), `OneMoment` (`OfOneMoment`), `LinksAreTrue` (`LinkIsTrue`) |
| `ProcessProofs` | `LInv` | `LifecycleInvariance`, `TypeCorrect`, `SchemaIsTrue` (`SchemaTrue`), `AlarmIsRight` (`RightAlarm`), `AlarmStops` (`DirtyStops`) |
| | `CollectorInv` | `CollectorInvariance`, `CollectorTypeCorrect` (`CollectorTypeOK`), `SamplesAscend` (`SamplesAdvance`), `StalesHaveGround` (`StaleHasGround`), `FrozenIsNeverStored` (`StalesAreOfAnother`) |

`StoreIsALedger` is the refinement: initial states map to initial states, and
each step of a worker, the sweeper, the clock, a failure or a restart maps to a
step of `SessionLedger` or to a stutter. `KeysFollowTheRing` is the other one:
`CreateStream` maps to `Appear`, `CommitRotation` to `Rotate`, and every other step,
also that of a request that breaks off, to a stutter.

### 5.1 The arguments

None of the properties is inductive. What the invariants add is what the code
relies on silently.

* `SessionIngest`. `IInv`: only upsert transactions hold staged rows (`Tidy`), one
  per row (`RowLocks`); a staged row continues the committed one at every moment,
  not just when it was read (`StagedContinues`); a row inserted by this code has an
  id (`Identified`), because every session of a batch has a candidate id after the
  lookup (`Resolved`); from its upsert on a worker holds the id of the row
  (`Upserted`), which is what makes the events it inserts agree (`Recorded`). What a
  worker stages it has locked (`WhoStages`), a locked row is not changed by anyone
  else (`LockedRowsAreFixed`), so every change of a stored session follows its
  predecessor (`SessionsFollow`); the action properties are corollaries. An event
finds the rate of its batch stored because a request goes through all its events
with the rates before it comes to append (`CommitAtFirst`, `RateIsThere`), and a rate that
is set stays (`RatesStay`). `LInv`:
  sequences number events, pending and in flight, once (`Numbered`), and a fresh
  correlation id belongs to one session (`OwnIds`). `SInv`: under SQLite's write lock
  what a request has read (`OneWriter`), counted (`Counts`), ended (`Ends`) and looked
  up (`Keys`) holds until it commits.
* `EventStream`. Blocks, batches and rows are disjoint and below `nextval`
  (`Below`, `Apart`); a frame goes only to clients of its project (`OwnFrames`);
  channel and backfill lie where the connection's phase says (`Placed`, `Filled`) and
  ascend but for what was overtaken (`Ordered`, `Behind`).
* `SseClient`. No answer is ahead of the server, and after `disconnect()` there is
  neither connection nor plan.
* `IngestControl`. `Doing` says for each stage of each request what its locals have
  to do with the store: what a validation has read, what a webhook has sent, what a
  rotation has yet to retire; `OneTransaction` is SQLite's write lock. Of a rotation
  the hard part is what other commits leave of the set its UPDATE has found: a key
  that has been active since the request began is in that set when the UPDATE
  starts, is not removed from it while the UPDATE waits for locks, because what is
  removed has been retired, and so is retired by the commit; a key that another
  rotation adds meanwhile has not been active that long (`Rotating`). That the set
  is exactly the active keys holds on SQLite only, which is where the refinement
  needs it.
* `RateLimits`. `Fits` relates a bucket to `ideal`, what a bucket by the true time
  would hold: no lower, unless that is full, and no higher than by what is refilled
  during the greatest difference of two readings, clocks and waiting together. A bucket may be removed because it
  is full by then (`TTLAssumption`).
* `Access`. What is right about a token is a fact about its row that later writes
  do not change after the moment it was used; `Rotating` says what each step of a
  key rotation leaves for the next one.
* `Pages`. Times are in an order although they are compared as texts: digits and a
  mark that sorts after them make of two texts one the lesser (`TextsCompare`,
  `TimesInOrder`), so rows of different ids are in an order in each list
  (`RowsInOrder`), and what passes a token is what comes after its row
  (`PassesIsAfter`). A page has the first of the rows that pass (`OrderedRows`,
  `PageOfRows`). `PInv`: a token that will be taken has the place of the last row
  shown, and what was there in the beginning and is not yet shown comes after it
  (`GoingOn`); the watermark travels with it and is as late as the beginning
  (`Watermarks`). `TypeCorrect` counts: each commit's timestamp is that of a row
  (`Given`), so there are no more of them than ids. `LinkInv`: rows are only added and
  names do not change, so what the look-up found stays true.
* `Lifecycle`. One replica migrates at a time (`OneMigrates`); `Working` says for each
  of its phases which of the pending migrations are in effect; under the alarm
  nobody, nor the server for an orphan, is about to apply anything (`Alarmed`).
* `SrtCollector`. What a Collect has in hand was taken before it is stored: it is
  no later than its connection and no earlier than any stored sample of it
  (`Timely`), which is why skipping equal counts is enough to keep samples in order.
  A stream is overdue as long as its latest sample is old (`Overdue`), so a reading
  that is called stale still has its old sample when it is stored, whatever the
  time between evaluation and transaction (`Ground`). Together with the order of
  the samples that ground is of another connection (`FrozenIsNeverStored`).

### 5.2 The assumptions

The named ASSUMEs of each module; TLC evaluates them in every run. Those that say
more than "this number is one, this name is none":

* `BatchAssumption` (`SessionIngest`): batches are not empty and a boundary belongs to
  a session of its batch, both checked by the code before any write.
* `TTLAssumption` (`RateLimits`): a bucket is full before it is removed as idle; the
  code has 24 hours and 10 minutes against seconds.
* `ShapeAssumption` (`EventStream`): finitely many clients.
* `AccessConstants`, `AccessValues`: the laboratory's key id is not one of the
  backend's, and None is none of the records it stands beside.
* `LifecycleConstants`: a release brings along the migrations before its last one
  (ADR 0002).
* `PagesConstants`: fractions of a second are written with digits, no two alike.

The four SQLite theorems have `Store = "sqlite"` as a hypothesis; why they fail on
PostgreSQL is in sections 3 and 6. `ActiveKeys` makes the same distinction in its
statement, and so does `KeyRing` with `exclusive`.

`IInv` is checked by the run `postgres`. The other inductive invariants are stated
in the modules of the proofs; TLC has checked copies of their definitions on
instances like those of the runs before they were proved: `PInv` and `LinkInv` on
one of `pages`, `SInv` of `sqlite`, `LInv` of `postgres`, and so on.

The proofs use no induction over data. Where a recursive argument seems due the
library's facts about finite sets take its place: a least number exists because
a set of intervals has a smallest (`LeastOf`), and rows are put in order by
counting those before each (`Ordered`), where a sorting operator would have no
definition a prover could expand.

### 5.3 What is only model-checked

* Liveness: `RequestsFinish`, `IdleSessionEnds`, `EveryEventArrives`,
  `PollingCatchesUp`, `TrafficIsSampled`, `Ends`. Fairness and ENABLED are out of the
  provers' reach.
* What section 6 says is violated.

## 6. Where code and documents disagree

`C/` stands for `spec/backend-api-contract.md`. Each of these has a configuration
whose counterexample is the code's behaviour:

* `pages_order`: SQL compares times as text, and the text leaves trailing zeros
  out, so within a second `05.1Z` sorts before `05Z`
  (`A/adapters/driven/persistence/sqlite/helpers.go:27`, against the comment at
  `sqlite/srt_health_repository.go:117`). Pages still continue each other, since
  query and token use the same order.
* `Pages_half.cfg`: a batch that is stamped under the watermark of a reading and
  becomes visible between two of its pages is shown in part, or not at all
  (`ResolveWatermark` and the comment at `postgres/event_repository.go:56`, which says
  that the set is stable: "ist die Menge stabil"). What the watermark does give is
  `OfOneMoment`.
* `SessionIngest_endrace.cfg`: on PostgreSQL a `session_ended` in the batch that
  loses the insert race is stored but does not end the session
  (`A/adapters/driven/persistence/postgres/session_repository.go:254`, `C/`:1290).
* `EventStream_dropgap.cfg`: a frame dropped by a full channel is not recovered by
  Last-Event-ID, since later frames have moved that id past it
  (`A/hexagon/application/event_broker.go:95`).
* `SseClient_polls.cfg`: a poll answer that outlasts a reconnect leaves two polling
  loops side by side (`apps/dashboard/src/lib/sse-client.ts:161`; `C/`:1488 asks for
  5 seconds between polls).
* `SrtCollector_stale.cfg`: a frozen SRT connection is evaluated as stale and never
  stored as such, because the deduplication looks at the same sequence. This is
  proved for all instances: a stored stale sample repeats the count of an earlier
  connection of its stream, never that of its own (`FrozenIsNeverStored`)
  (`A/adapters/driven/persistence/sqlite/srt_health_repository.go:156`,
  `docs/user/srt-health.md:204`).
* `IngestControl_rotate.cfg`: two rotations at once on PostgreSQL leave two active
  keys (`postgres/ingest_stream_repository.go:215`, against
  `A/hexagon/port/driven/ingest_stream_repository.go:47`); validation then takes
  either. It takes two at once: a rotation that is answered has ended every key
  that was active from its beginning on (`AnswersHold`).
* `Access_grace.cfg`: a rotated generation that also has an end of its own is good
  again after its grace, until that end
  (`A/hexagon/domain/auth_project_token.go:163`, `C/`:804).
* `Analyze_late.cfg`: an analyzer that takes longer than 10 seconds costs the caller
  the answer: the adapter waits up to 30 (`C/`:340), the server writes for 10
  (`A/cmd/api/main.go:621`). A manifest fetch that times out in the service takes
  10 seconds per hop, so its `fetch_failed` is lost too, and the outcome counter
  says otherwise.

Seen while modelling, without a counterexample of their own:

Ingest and stream

* A session row without a correlation id never gets one; each batch draws a
  fresh id for its own events (`C/`:902 promises self-healing).
  `CorrelationAgreement` therefore speaks of the other sessions.
* The event of the batch that loses the insert race on PostgreSQL is not
  counted (`CountCoversEvents` is checked on SQLite).
* Events of a stalled session leave it stalled; `C/`:918 knows no `stalled`.
* Only the first event of a session in a batch can set the session's rate
  (`spec/telemetry-model.md:880`), and the drift counter grows once per session and
  batch, not per event (`telemetry-model.md:893`).
* The limiter is asked before the size of a batch is looked at, so a batch of more
  than 100 events can get 429 where `C/`:998 says 422
  (`register_playback_event_batch.go:256` and `:269`).
* `ingest_sequence` is not globally monotonic on PostgreSQL (`C/`:1369): replicas
  hand out blocks. With several requests at once, also in one process, an event
  whose sequence is lower than one already delivered is not found by a later
  backfill (`overtaken`; `C/`:1484), and an event around the subscription can come
  twice (1461).
* A truncated backfill delivers the oldest events, not the newest
  (`A/adapters/driving/http/sse_stream.go:17`).
* The page's list requests overlap, so the list can go back for a while
  (`apps/dashboard/src/routes/sessions/+page.svelte:29`), and an event between the
  first list and the subscription shows only with the next.

SRT

* The staleness of an SRT reading is judged against the latest sample of its
  stream, whatever the connection (`srt_health_collector.go:139`); the
  deduplication on PostgreSQL takes no lock, although a comment says so
  (`postgres/srt_health_repository.go:117`), and its index is not unique.
* A parse error is answered by backing off, not by an immediate stop
  (`spec/architecture.md:490`).

Ingest control

* A webhook's attempts take up to 10 seconds each within the hook request, whose
  answer the server gives up after 10.
* Configuration paths carry a stream's display name, hook and provisioner its id.
  "Active" streams include ended ones. `Rollback` of the provisioner is never
  called.

Access

* `docs/user/auth.md` 5.2 and 5.3 say that missing or broken signing keys stop the
  start; `buildHandler` warns and serves without session tokens: their route is
  404, and a session token beside a project token is ignored.
* `ValidateClaimsSession` has no caller: a session token bound to one session works
  for all (the contract answers 403). Issuance answers every project token error
  with `auth_token_invalid`. `SetGraceUntil` and `Revoke` overwrite what is there,
  `RetiresAt` and `NotBefore` of a signing key are not looked at, and session tokens
  outlive a revoked minting token by up to 900 seconds.
* `corsMiddleware` answers only origins of the global union (`cors.go:135`), also
  where the preflight of browser ingest consults a project's policy.

Limits

* Replicas whose clocks differ and that call in turn refill the shared issuance
  and origin buckets by the difference at each turn; only the ingest script guards
  against it (`sqlite_issuance_rate_limiter.go:254`). `Budget` counts these turns.

Pages and analysis

* `cursor_expired` (`C/`:1350) is never produced. The latest sample per stream takes
  the maximum of the text and two rows on a tie.
* An error of the store is answered as `not_found_detached`
  (`analyze_manifest.go:91`), and a manifest between 10^6 bytes (the service's
  limit) and 1 MiB (the API's) gets 502 instead of 413.

Start and stop

* The repair of a dirty schema in the manual is `make wipe`, so a false alarm costs
  the data. A replica that is killed while its COMMIT is under way, or whose answer
  is lost, can have an applied migration marked dirty by the next start or by
  itself (`doubt` in `RightAlarm`).
* Two processes on one SQLite file, which `auth.md` 5.4 describes, have no migration
  lock: the write lock is taken per migration (`A/internal/storage/migrate.go:14`),
  after the pending ones were listed, so the later of two first starts fails on a
  body that is in effect. `Lifecycle` has one process at a time on SQLite.
* `Shutdown` waits for open event streams, which nothing ends, and times out; then
  telemetry is not flushed. Sweeper and collector are not awaited before the
  database closes. SIGTERM before `serve` kills.

## 7. Plan

Modelled, checked and, as far as it is safety, proved: everything in section 2.
What is left, in this order:

1. The parts of section 3's `sqlite` properties that PostgreSQL keeps: of the events
   with one key that are accepted twice, the requests overlapped; of the events not
   counted, one batch lost an insert race. Both speak of what a request has met on
   its way, which takes history variables in `SessionIngest`.
2. `SrtCollector` with several collectors on one PostgreSQL store, whose lookups
   race, so that a sample can be stored twice.

### Not modelled

* Player SDK: its queue, flushes and retries run in the browser beside everything
  here; `SessionIngest` takes batches repeated, lost and in any order, which is
  all the server may assume of it.
* Stream analyzer and analyzer service: functions over manifest texts without
  state; `Analyze` takes every kind of answer.
* HTTP adapter: decoding, status codes and headers without state; the order of its
  checks is modelled where it matters (`Access`, `RateLimits`, `Analyze`).
* Metrics and telemetry: counters no decision reads.
* Other dashboard pages: one fetch, then shown.
* Several collectors on one PostgreSQL store: the two lookups race as section 6
  says, and duplicates are all that can come of it.
* Deployment, scripts and examples: no program logic.
