# Vrata: a TLA+ verification project

Vrata is a programmable HTTP reverse proxy. A control plane stores the
configuration and serves a REST API; proxies carry the traffic; a Kubernetes
controller translates Gateway API resources into API calls. This directory holds
TLA+ modules translated from the Go source, the TLC configurations that check them
on small instances, and TLAPS proofs for every value of their constants. Paths
below are relative to `src/server/internal/` unless they start with `src/`.

1. [The system](#1-the-system)
2. [Modules and code](#2-modules-and-code)
3. [Runs, bounds and fairness](#3-runs-bounds-and-fairness)
4. [Proofs](#4-proofs)
5. [Disagreements](#5-disagreements)
6. [What is not modelled](#6-what-is-not-modelled)

## 1. The system

| Part | State | Operations | What correct means | Modules |
|---|---|---|---|---|
| Store (`store/bolt`, `store/memory`) | a bucket per resource, versioned snapshots, the active pointer, subscriber channels of 32 events | Save/Delete per resource, SaveSnapshot, DeleteSnapshot, ActivateSnapshot, Subscribe, Dump, Restore | the active pointer names a stored snapshot; a subscriber can keep up although a full channel drops events | `ConfigStore` |
| Gateway (`gateway`) | the running table and listeners | event loop, rebuild | at rest it runs what the store holds | `Gateway` |
| K8s watcher (`k8s`) | endpoints per destination, running watches | reconcile, informer callbacks, OnChange | the endpoints that are used are those of the cluster | `K8sWatcher` |
| Snapshot sync (`api/handlers/sync.go`, `sync/client.go`) | one SSE handler per proxy, the stream, the snapshot the proxy runs | connect, send, subscribe, push, apply, reconnect | a connected proxy comes to run the active snapshot and never goes back | `SnapshotSync` |
| Snapshot creation (`api/handlers/snapshots.go`, `resolve`) | the five lists read so far, secrets still to find | CreateSnapshot | what a snapshot names, it holds | `SnapshotCapture` |
| REST handlers (`api/handlers`) | none of their own | Create, Get, Update, Delete, Activate | only valid entities are stored; answers are true | `RestHandlers` |
| Raft (`raft`, `store/raftstore`) | log, leader, each node's bolt store | apply, forward, FSM Apply/Snapshot/Restore | nodes converge; a write takes effect at most once; an acknowledged one has | `RaftStore`, `ReplicatedStore` |
| Router, table, listeners (`proxy/router.go`, `table.go`, `listener.go`) | the current table, its clean-ups, servers by id | SwapTable, ServeHTTP, BuildTable, Reconcile, Shutdown | composed routes match what group and route say; what listens is what is configured | `RouteTable`, `Dataplane` |
| Circuit breaker (`proxy/circuit.go`) | atomic state, token, counters, time of the last failure | Allow, OnRequest, RecordSuccess, RecordFailure, OnComplete | slots come back; a broken destination is shut off and probed again | `CircuitBreaker` |
| Endpoints (`proxy/health.go`, `outlier.go`, `balancer.go`, `pool.go`, `pinning.go`, `session.go`) | a Healthy flag per endpoint, ejections, rings, in-flight counts, pins | checks, RecordResponse, Pick, Done, reload | in-flight counts are exact; a client stays where it was; an ejected endpoint comes back | `LoadBalancing`, `EndpointPool` |
| Middlewares (`proxy/middlewares`, `proxy/retry.go`) | rate-limit buckets, JWT keys, the observe queue | one handler each | they run as configured, in order; one answer per request | `Middlewares`, `Pipeline` |
| Controller (`src/clients/controller`) | work queue, batch, reference counts, owned entities | syncCycle, ApplyHTTPRoute, DeleteHTTPRoute, Signal, Flush | what it names exists; what it wrote is published | `WorkQueue`, `Batcher`, `OverlapDetector`, `Reconciler`, `Controller` |

**How they interact.** An API handler commits to the store and then, outside the
transaction, offers an event to every subscriber channel. Subscribers are the
gateway's loop, the k8s watcher and one SSE handler per proxy. The gateway re-reads
every bucket on every event, builds a table, swaps it in and reconciles the
listeners; informer callbacks of the watcher call the same rebuild from goroutines
of their own, and no lock keeps two rebuilds apart. A proxy of its own process has no
watcher: its sync client applies one snapshot after the other. SSE handlers react to snapshot events only and send what is active at
that moment. With Raft, the handler's write is a log entry, applied to every node's
bolt store by the FSM. The controller is a client of the REST API.

**Where it is hard.** `PROJECT.json`, "hazards", lists the places: events that are
dropped or come late; reads that are not one transaction; rebuilds without a common
lock; a store that is replaced silently; logs replayed over later states;
connections that break between two steps of a protocol; atomics that are read,
compared and written one by one; deferred calls and panics; objects that are
replaced on reload while others still hold the old ones; reference counts over
partial failures.

## 2. Modules and code

`PROJECT.json`, "map", gives the lines for every definition. Definitions marked
`Mutant of ...` are deliberate faults; no specification uses them. They show that
each property can fail. The `MC...` modules give constants their values where a
`.cfg` cannot, and restrict initial states or clients to keep an instance small.

**ConfigStore** (`store/bolt/bolt.go`). `data` holds the entity buckets, `snapshots`
and `active` the snapshot bucket and pointer, `chan` the subscriber channels. A write
is two steps, because `publish` runs after `db.Update` has returned: `Save`,
`Delete`, `SaveSnapshot`, `DeleteSnapshot` or `ActivateSnapshot` commits and leaves
an event in `unpublished[w]`, and `publish(w)` offers it to every channel, dropping
it where there is no room. `publish` holds `s.subsMu`, so it is one step. `Restore` is
the FSM's; its event-free replacement of all buckets is one bolt transaction.
Contents of entities are opaque values; events keep their resource only, as no
consumer looks at more. `store/memory` publishes inside its lock, which is the case
where the two steps follow each other immediately.

**Gateway** (`gateway/gateway.go`, callbacks of `k8s/watcher.go`) composes the store
with the gateway. `step[r]` is where rebuilder `r`, the loop or an informer
goroutine, is: each List call is a step (`Read`), then `BuildTable` with `SwapTable`
(`Swap`), then `Reconcile`. `running` is what the router and the listener manager
hold. A build fails exactly when a destination's TLS settings do not load
(`BadValues`). The watcher changes endpoints in three ways: with a call of `OnChange`
(`EndpointsChanged`), or silently, when an ExternalName goes or a watch is removed.
The List calls' own errors, which need a closed database or an undecodable record,
are left out. History variables record what happened and influence nothing: `last` is
the rebuilder that began last, `overlap` says that it began beside another,
`unannounced` that the store was restored or endpoints were forgotten since then.

**K8sWatcher** (`k8s/watcher.go`) composes the store with the watcher. `run` is where
the goroutine of `Run` is: subscribed, listing, applying a list (`Apply`, one
`reconcile` under the lock, in which a Service may fail to be read) or in the select.
`watch` has an entry per informer goroutine ever started, with the state of its
informer and of the handler that waits for the lock, writes the endpoint map and
calls `OnChange`; `cancels` is the map of cancel functions. `OnChange` is one step
here; its own steps are in `Gateway`. Ghosts `failed`, `missed`, `late` and `silent`
record the exceptions the properties name.

**SnapshotSync** (`api/handlers/sync.go`, `sync/client.go`) composes the store with
its proxies. `handler[p]` is the program counter of the SSE handler of `p`'s
connection, `stream[p]` what the network holds, `applied[p]` what `p` runs. Reading
the active snapshot and writing it are two steps, and so is each of connect, send,
subscribe. `Apply` is one turn of the client's scanner loop: a snapshot that does not
build is skipped, one that exceeds the 4 MiB line ends the stream. `Disconnect`
breaks a connection at any point, `Restart` kills the control plane, also between
commit and publish. Messages carry a stamp, `at`, the number of activations so far,
for `NeverBackwards` only. `lost[p]` records the two ways an event a proxy needs can
be lost on its connection.

**SnapshotCapture** (`api/handlers/snapshots.go`, `buildSnapshot` in
`api/handlers/sync.go`, `resolve/resolve.go`). `step[c]` counts the reads of one
CreateSnapshot; then each secret named by what was captured is looked up, and a
missing one makes the request fail (the code collects all missing ones first, with
the same effect). Other requests create and delete entities and keep the store
referentially closed (create what is named first, delete it last): the code does not
enforce this, and without it no snapshot could be expected to be closed either.
`References` says what a content names.

**RestHandlers** (`api/handlers`, `api/middleware/auth.go`) has the two parts of every
handler as operators: `Handle`, what it does before the store is called, with its
validation, and `Status`, what it makes of the store's error. `Validated` is the
validation of each kind: a route's action and weights, a listener's address and
client authentication, a middleware's configuration and its rules. `Command` is what
the handler hands to the store.

**RaftStore** (`store/raftstore`, `raft/node.go`, `raft/fsm.go`) runs these handlers on
several nodes. `log` is the committed log by request, `proposed` what the leader has
not committed, `applied[n]` and `db[n]` a node's FSM and bolt database, `compacted[n]`
its Raft snapshot. hashicorp/raft is external and modelled by what the code relies
on. A crash keeps `db` and forgets `applied`: the log is applied again, over later
contents, from the last Raft snapshot, if there is one. A forward reaches the leader's
`RaftApply` only if the API is served without TLS, there are no API keys and the
nodes have private addresses (`RaftApplyAccepts`): the follower posts over plain HTTP,
without a key, and the handler refuses public addresses. What anybody else posts to
`/sync/raft` is not validated and is outside the model. **ReplicatedStore** is the
abstract specification: one database, writes that take effect at most once, answers
that do not precede effects.

**RouteTable** and **Dataplane** (`proxy/table.go`, `router.go`, `listener.go`,
`accesslog.go`, `metrics.go`). `RouteTable` compiles routes and groups and matches
requests; a regular expression is the list of its top-level alternatives. `Dataplane`
runs reloads of several goroutines (`SwapTable`, clean-ups, `Reconcile` under `lm.mu`,
collectors), which overlap as in `Gateway`; `Reloaders` with one member is the proxy
that only its sync client reloads. Beside them run listeners as goroutines that bind when they are scheduled, requests that hold a
table's resources, and shutdown.

**CircuitBreaker** (`proxy/circuit.go`, `forwardHandler` in `proxy/handler.go`).
`pc[r]` is where a request is; each load, store, add and compare-and-swap is a step,
and so is each critical section of `cb.mu`. `elapsed` stands for
`time.Since(lastFailure) > openDuration`. `consecutiveFailures` is cut off at the
threshold, beyond which nothing tells values apart. `halfOpenAllowed` is a two's
complement integer of width `IntMax`, because every request denied in half-open
decrements it. `Upstream` has the four outcomes that the handler treats differently;
`"aborted"` is a body that breaks off, on which `httputil.ReverseProxy` panics with
`ErrAbortHandler`, so that only deferred calls run. `maxPendingRequests` and
`maxRetries` are stored by the code and never read.

**LoadBalancing** and **EndpointPool** (`proxy/balancer.go`, `pinning.go`, `pool.go`,
`health.go`, `outlier.go`, `handler.go`). The algorithms are operators; a random
choice is the set of its results, hashes are constants. A request is hashed by its
client or by a session id in a cookie, which is new if the client has none; without a
hash policy the hashing algorithms are not asked and any endpoint may be picked. In `EndpointPool` requests
pick a destination and an endpoint and record their result lock by lock, beside the
health checker, the outlier detector's ticks and reloads. Each reload makes a
generation of endpoint objects and hands it to the router, the checker and the
detector one after the other; two reloads may overlap, so that each of these may be
left with another generation.

**Middlewares** and **Pipeline** (`proxy/handler.go`, `retry.go`, `middlewares/`,
`celeval/`). `Middlewares` has what each middleware decides; in `Pipeline` requests
pass through the chain of their route, share buckets, keys and the observe queue, are
retried, and go back through the response phases of the processor. The processor hooks
`WriteHeader` and `Write` but not `Flush`, so an upstream answer that is streamed may
be flushed past it (`flushed`). A CEL expression is the set of requests for which it
is true, told apart by what no middleware changes; one that reads the body makes
`wrapWithConditions` buffer it, and cut it off at the limit. A refresh of the JWT keys
is a fetch and a store: it may fail, or bring an error body, which is stored as no
keys because the status is not looked at.

**WorkQueue**, **Batcher**, **OverlapDetector**, **Reconciler**, **Controller**
(`src/clients/controller`). `Controller` composes the loop (`syncCycle`) over the
HTTPRoutes, SuperHTTPRoutes (`Supers`) and Gateways of the informer cache with the queue of single routes and batch groups, the detector, the
reconciler's jobs, which are sequences of API calls each of which may fail or be
half-answered, and the batcher, whose timer goroutine flushes beside the loop under
one lock. A SuperHTTPRoute needs no ReferenceGrant. A path is the sequence of its
segments. A reference in an entity is a UUID: it becomes `Gone` when what it names is
deleted.

## 3. Runs, bounds and fairness

| Run | Result | What it shows |
|---|---|---|
| `gateway` | passes | with two API writers, an informer, Raft restores, a channel that overflows and builds that fail, a gateway at rest runs what store and watcher hold, unless its latest rebuild began beside another or an input has changed since without notice (`SerialUpToDate`), and it comes to rest (`EventuallyUpToDate`) |
| `sync` | passes | a settled proxy is behind only if an event was lost (`SettledUnlessLost`), no proxy goes back (`NeverBackwards`), proxies catch up (`EventuallySynced`) |
| `capture` | passes | references to kinds that are read later hold (`LaterReferencesHeld`), an undisturbed capture is exact (`QuietCaptureExact`) |
| `watcher` | passes | watches are neither leaked nor missing (`WatchesOwned`, `WatchedAsStored`), the gateway follows the cluster with named exceptions (`FollowsCluster`) and catches up (`EventuallyDiscovered`) |
| `replication` | passes | nodes converge over crash, replay, compaction and installation of snapshots (`Converged`), clients are told what the log says (`AnswersTrue`), each write takes effect and is answered at most once (`ImplementsReplicatedStore`), requests are answered (`EveryRequestAnswered`) and nodes catch up (`EventuallyCaughtUp`) |
| `circuit` | passes | slots balance (`Accounting`), half-open is abandoned in two cases only (`HalfOpenAttended`) and otherwise ends (`HalfOpenSettlesUnlessStranded`) |
| `endpoints` | passes | in-flight counts are exact (`InflightExact`), an endpoint is out only while somebody will put it back (`OutIsEjected`, `EventuallyRestored`), clients stay with their endpoint and destination as far as algorithm and hash policy say so (`ClientsStay`) |
| `endpoints_reload` | violates `InFlightUnaffected` | a reload between Lock and Unlock of an ejection ends the process |
| `dataplane` | passes | requests of the current table find their resources open (`CurrentTableOpen`); each route matches what its group and it describe together (`ComposedAsMeant`); the servers are those of the latest `Reconcile`, and of the router's configuration if reloads did not overlap (`ListenersReconciled`); gauges are exact (`GaugeExact`); reloads and shutdown end (`LockReleased`), listeners come to listen (`EventuallyListening`) |
| `pipeline` | passes | middlewares run as configured and rules are obeyed (`ForwardedAsConfigured`), lazy evicted buckets decide like the exact bound (`RateExact`), a token is accepted only under a key that the issuer had when the latest refresh to replace the keys began or since (`TokensCurrent`), bodies survive retries and statuses are retried only if they are named (`RetriesFaithful`), one answer each, with the processor's headers unless it was flushed past it (`AnsweredOnce`, `EveryRequestAnswered`) |
| `controller` | passes | references between groups, routes and middlewares hold at every moment (`StoreClosed`), the reference counts are not below their book and keep what it lists (`DestinationsKept`), what was written is published unless a failure kept it from being signalled (`PublishedUnlessLost`, `EventuallyPublished`), no group blocks the queue for ever (`QueueDrains`) |
| `controller_refcount` | violates `DeletedUnreferenced` | a destination is deleted under a route that an update made name it |

**Bounds.** `MaxWrites` bounds the writes of a behaviour, and with them the states;
`MaxFailures` and `MaxFaults` broken connections, crashes and failed calls;
`MaxChanges` edits of the cluster; `ChanCap` is 1 instead of 32 so that two writes
overflow a channel. In `gateway` two writes are enough for a drop, for a torn reading
and for a restore after a write. In `sync` four writes allow two snapshots to be saved
and both to be activated, or an entity write to fill the channel before an
activation; of the three snapshots one does not build and one does not fit. In
`capture` four writes allow an entity, what it names, and a deletion around the seven
reads. In `watcher` two writes and two changes of a Service let a destination go and
come back, or an event be dropped, around every step of an informer. In `replication`
two nodes, three requests of which two run at a time and one fault give a replay over
later writes, a snapshot taken in the middle of it, and a forward whose leader dies;
the log is compacted after 2 entries instead of 8192. In `circuit` two requests that
run any number of times give every pair of racing steps; both limits are 1, so that
the checks deny; `IntMax` 1 makes the token wrap. In `endpoints` three requests of two
clients meet one round of health checks and one reload under seven combinations of
algorithms and hash policies, chosen so that each algorithm occurs, and two reloads
that overlap under random choice; weights are summed modulo 256. In `dataplane` two
reloads out of four configurations, in turn or overlapping, include a change of port
and of certificate under a request. In `pipeline` six ticks and four requests fill,
empty and evict a bucket, and two rotations of keys meet two refreshes. In
`controller` an HTTPRoute and a SuperHTTPRoute, one edit and one fault, and one batch
name, with groups of 2. What
these bounds might hide in the safety properties is covered by the proofs for the
modules that have them.

Deadlock is checked in `circuit` and in the controller runs. The other systems stop
when the bounds are reached or clients have no more to ask, and their runs say
`CHECK_DEADLOCK FALSE`.

**Fairness** is weak, and only for goroutines that are ready: the Go scheduler runs
them. In `Gateway` these are the loop, rebuilds and publications; in `SnapshotSync`
publications, handlers, the client's scanner and its reconnection, which `Run`
repeats for ever; in `K8sWatcher` the goroutine of `Run`, informers and handlers; in
`CircuitBreaker` the steps of requests, among them the end of an upstream call
(transports have timeouts, and an abort counts as an end), and the passing of time;
in `RaftStore` handlers, elections and replication while a majority runs, FSMs, and
the restart of a node that went down; in `EndpointPool` requests that record
an ejection, reloads and the detector's ticks; in
`Dataplane` reloads, listeners and shutdown; in `Pipeline` the steps of requests, but
not the observe workers; in `Controller` its loop, which a ticker drives and the
cluster restarts, timers and flushes. API clients, informers' sources, failures and
new requests owe nothing.

## 4. Proofs

All theorems are of the form `Spec => []Inv` or `Spec => [][A]_vars` for every value
of the constants that satisfies the named ASSUMEs (finite set of requests, channels
of positive capacity, names that do not clash, reads in the order of the code, bounds
that are numbers).

**ConfigStoreProofs**: what a write, a publication and a subscription do to the
store's types and channels. The other proofs cite these lemmas.

**GatewayProofs**: `GatewayTypeCorrect`, `GatewaySerialUpToDate`, and
`GatewayQuiescentUpToDate`, the latter for gateways without watcher and Raft.
`SerialUpToDate` is not inductive: it speaks of a gateway at rest. `IInv` adds that
only the latest rebuilder is inside rebuild unless it began beside another
(`OnlyLastRuns`); that what it has read
of a source is current, or that source is still to be read, or another rebuild is
bound to come because an event is unpublished or waits in the channel
(`ReadsCurrent`); and that what runs is what it read (`Installed`). A dropped event
is harmless because a channel that drops is not empty.

**SnapshotSyncProofs**: `SyncTypeCorrect`, `SyncActiveStored`,
`SyncSettledUnlessLost`, `SyncNeverBackwards`. `Fresh` says that the newest snapshot
on the way to a proxy is the active one, or an event is coming that makes the
handler read again, or one was lost. `Ordered` says that what a proxy runs, what is
in its stream and what its handler holds are in the order of their activations;
this gives `NeverBackwards`.

**SnapshotCaptureProofs**: `CaptureTypeCorrect`,
`CaptureLaterReferencesHeld`, `CaptureQuietExact`, for any references between
entities. Along the reads, what captured entities name is still stored if nothing was
deleted (`NamedStored`), is captured if its kind was read (`NamedCaptured`), and
secrets are found or still wanted (`SecretsFound`).

**CircuitBreakerProofs**: `BreakerTypeCorrect`, `BreakerAccounting`,
`BreakerHalfOpenAttended`, for any number of requests, limits and widths. The
conjunction is inductive as it stands; that counters do not go below zero needs
`Accounting`, which rests on how one request moves in and out of a finite set.

**RaftStoreProofs**: `RaftTypeCorrect`, `RaftConverged`, `RaftAnswersTrue`,
`RaftImplements`, `RaftStoredValidated`, `RaftEveryNodeAcceptsWrites`, for every set of
nodes and requests and any number of faults. `RaftInv` says where a request, its
command and its log entry can be (`RequestInv`, `LogInv`), and, in `NodeInv`, that a
node that replays the log has a database *ahead* of its applied index: `Ahead` holds
if the database is what the entries applied so far describe, but for what none of them
writes and a later one does. Applying the next entry keeps this, whatever the later
entries are, and at the end of the replay nothing is left of the difference; this is
`Converged`. Because a delete or an activation that is replayed may be answered
differently the second time, `WaitingInv` says that the node a request waits at has not
applied the request's entry and that its database is not ahead of that entry. `RaftImplements` shows every step to be
one of `ReplicatedStore` or a stutter (its safety part; no fairness is claimed).
`RaftStoredValidated` follows the content of an entity from the handler's check through
command, log, database and Raft snapshot. `RaftEveryNodeAcceptsWrites` has
`RaftApplyAccepts` and the absence of faults as its hypothesis.

**K8sWatcherProofs**: `WatcherTypeCorrect`, `WatcherWatchesOwned`,
`WatcherWatchedAsStored`, `WatcherFollowsCluster`. `IInv` adds to the ownership of
watches that a list that `Run` holds is the store's unless an event is on its way or
was missed (`Reconciled`); that what an informer has seen is in its queue, with the
handler, or in the endpoint map (`AllInformed`); that endpoints without a watch were
written late (`Forgotten`); and that the gateway has the endpoint map, or a handler is
about to tell it, or nobody was told (`Rebuilt`).

**DataplaneProofs**: `DataplaneTypeCorrect`, `DataplaneCurrentTableOpen`,
`DataplaneListenersReconciled`, `DataplaneGaugeExact`, for any number of reloaders,
reloads, listeners and requests. `Owned` says that a server without an entry in
`lm.servers` has ended or is waited for; `Reconciling` how far the holder of `lm.mu`
has come: a listener is still to be added, still to be removed, or as configured;
`Reloading` that, unless the latest reload began beside another, whoever reloads has
the router's table, and the listeners are of that table or will be.

**Only model-checked.** Every liveness property, because liveness under fairness, and
ENABLED, are out of the prover's reach. The safety properties of `EndpointPool`,
`Pipeline` and `Controller`, whose rings, chains, buckets and jobs are computed by
recursive functions over sequences: what these compute for every input needs induction
over data, which the installed provers cannot do. `ComposedAsMeant`, for the same
reason: it compares matchers on the given messages. `PROJECT.json`, "theorems", lists
the results.

## 5. Disagreements

The two violation runs are findings in `PROJECT.json`, with the sentence of the
repository that they contradict; the run's property states that sentence. What
follows was met while modelling and has no run of its own; the passing properties
name each exception that concerns them.

*Control plane.*
- `Rebuild`, called from informer goroutines, and the event loop's rebuild take no
  common lock; the one that read first can install its reading last (exception
  `overlap` of `SerialUpToDate`, `ListenersReconciled` and `EventuallyRestored`).
  `Restore` replaces every bucket without an event, and the watcher forgets endpoints
  without OnChange when an ExternalName goes or a watch is removed (exception
  `unannounced`).
- `SyncSnapshot` sends the active snapshot before it subscribes; an activation in
  between is not pushed, although its comment says that every activation is. An
  activation is also dropped from a channel that entity events have filled
  (exception `lost` of `SettledUnlessLost`).
- `buildSnapshot` reads the buckets in separate transactions; `model/snapshot.go`
  calls the result a point-in-time view. References to kinds that are read earlier
  may dangle; `LaterReferencesHeld` is about the others.
- The documentation says that the active snapshot cannot be deleted; DeleteSnapshot
  deletes it and clears the pointer, as the handler's own comment says.
- Watcher: a watched destination whose host or port changes keeps its old watch; a
  Service that could not be read is not tried again; a Service that stops being an
  ExternalName loses its endpoints without OnChange; a handler that waited while its
  watch was cancelled puts endpoints back (exceptions of `FollowsCluster` and
  `WatchedAsStored`).

*Replication.*
- With API keys configured, the command a follower forwards carries no key and the
  leader's own `Auth` answers 401; with TLS it is posted over plain HTTP; from a public
  address `RaftApply` answers 403. In each case a follower accepts no write, although
  `raftstore.go` says that "every node accepts writes" (`RaftApplyAccepts`).
- `Dump` fails once a snapshot is active, because the pointer is not JSON, so that
  Raft can take no snapshot from then on.
- The delete handlers of routes, groups, destinations, listeners and middlewares map
  every error to 404. A forwarded ErrNotFound is a 500. ActivateSnapshot on a lagging
  follower answers 500 after the activation took effect. Updates check existence
  before they write, so a deleted entity may come back; UpdateSecret creates.
- Weights are summed in a `uint32` and may wrap to 100.

*Traffic.*
- `circuit.go` counts a request after it checked `maxRequests` and `maxConnections`,
  so concurrent requests exceed the limits. `RecordFailure` stores Open before it
  stamps `lastFailure`, so that an `Allow` in between probes at once; a
  `RecordSuccess` in between leaves an open circuit with count 0, whose next probe
  does not reopen it. A probe whose body breaks off records nothing, and the circuit
  stays half-open (`stranded`). A second probe may be granted while the first is in
  flight. `failureThreshold: 0` stands for 5, not for "disabled". Under a request
  timeout a transport error is recorded as status 0, a success (`RecordedStatus`).
- Outliers: `maxEjectionPercent` is not enforced; ejection by 5xx cannot be turned
  off; a tick between the flag and the date of an ejection ends it at once
  (`premature`); a reload brings an ejected endpoint back. LeastRequest counts
  requests that the breaker then denies (`skewed`). Maglev's table is not built to
  its end when its size is not prime.
- `router.go` says that requests on the old table "complete with the old config"; its
  clean-ups close their log file and their processor's connection. Two listeners that
  swap ports fail to bind and are not retried; changed timeouts are ignored; Shutdown
  returns before requests have drained; a panic leaves the in-flight gauge up. Routes
  are tried in table order; the documentation (`matching.md`, `routes/_index.md`) gives
  exact paths priority over longer and shorter prefixes and these over regular
  expressions. No property claims either order: `ComposedAsMeant` is about what a
  single route matches. The anchor and a group's
  prefix bind to the first alternative of a regular expression only (`Escapes`).
- Processor: `responseHeaders` defaults to sent, not `skip`; an upstream answer that is
  flushed goes out as 200 with the headers it had, whatever its status and whatever the
  processor changes afterwards (exception `flushed` of `AnsweredOnce`); without a
  captured body, headers changed after the body began are lost; `bufferedPartial` and a CEL condition on the body cut it off for
  the upstream; items left in the observe queue at stop are dropped; errors of the
  response phases are logged only. Transport errors are
  retried whatever `on` says, while `retry.md` and `model/route.go` present `on` as the
  list of conditions: `RetriesFaithful` claims nothing about them. A refresh that is
  answered by an error in JSON leaves the JWT middleware without keys. A
  rate below 1 gives burst 0. Limiters start full after every reload. Rules and
  conditions that do not compile are skipped. An unknown authorization destination
  lets requests pass.

*Controller.*
- The detector is reset every cycle; prefixes are compared by segments there and by
  characters in the proxy. `knownSingles` is never cleared. DeleteHTTPRoute that fails
  half-way leaves counts behind. A job that fails signals nothing for the calls that
  succeeded, a flush that fails leaves no timer, and a crash loses the pending count
  (`lost`). An informer whose List fails makes garbage collection delete live groups.

## 6. What is not modelled

- metrics values, log formats, debug endpoints: observation, nothing reads it back;
- JSON, YAML, configuration files, encryption at rest, TLS loading, CEL evaluation and
  signatures: library calls on data that no property tells apart;
- header rewriting and interpolation, redirects, direct responses, mirrors, path
  rewriting: stateless transformations of one request;
- discovery of Raft peers by DNS; Redis sessions; the Kubernetes API, hashicorp/raft,
  gRPC: external, modelled by how the code uses them or not at all;
- leader election of controller replicas, whose `RunOrDie` does not wait for the loop
  it cancels: one replica runs, and may be terminated or crash at any moment;
- generated code (`docs`, `*.pb.go`) and build scripts.

In the modelled parts: keepalives of the SSE stream, contents of errors and events
beyond their resource, List errors in the gateway, and the time values themselves
(a timer may fire whenever it is set; only the rate limiter counts ticks). Middlewares
may change headers that a later condition looks at; expressions over such headers are
left out. So are an HTTPRoute and a SuperHTTPRoute of one name, which would share a
group; destinations with both health checks and outlier detection, in the runs; a
proxy that reconnects to another control plane node, whose store may lag; and paths
that end in a slash, in the overlap detector.
