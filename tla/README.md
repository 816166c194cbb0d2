# Formal models of PingWAF

PingWAF is a web application firewall in two halves. The **control plane**
(`pingwaf-server`) keeps sites, rules, certificates and agents in a database
and speaks gRPC to the **data plane**: an agent (`pingwaf-agent`) inside each
edge proxy, which is built on the `pingap-*` crates. This directory holds TLA+
models of the parts where concurrency, failure and ordering decide whether the
system is correct, the TLC configurations that check them on small instances,
and TLAPS proofs for every size. Definitions carry the names of the functions
they translate; `PROJECT.json` maps each one to its lines.

    tlc -workers 2 -config RuleCachePersist.cfg MCRuleCachePersist
    tlapm RuleCachePersistProofs.tla

## Inventory

| Part | State | Operations | What makes it hard | What makes it correct |
|---|---|---|---|---|
| Rule cache persistence (`pingwaf-agent/src/cache`) | `sites.json`, `metadata.json`, their backups, `blocked_ips.json`; dirty flag, health | persist, roll backup, flush, load | five files, one lock, crash or write failure between any two | a start always finds a usable snapshot, never an older one; a lowered flag means a current file |
| Dynamic IP blocks (same file) | `blocked_ips` map, `cidr_index` | block, unblock, look up, sweep, clear, evict | two maps, one short lock per access | index and map agree; a live block refuses |
| Site index (same file) | `sites`, `domain_index` | apply a configuration | patched in place, survives restarts | a listed host resolves to its site |
| Agent registry and command stream (`grpc/registry.rs`, `control_plane.rs`, `api/agents.rs`) | connection with generation, pending queue, channels, counters, the agent's row | connect, push, queue, replay, tear down, de-register | look-up, send and queue hold separate locks; streams of several generations at once | each command in one place; a stale teardown spares the newest stream |
| Configuration push (`grpc/mod.rs`, `api/sites.rs`, `client/mod.rs`) | rows, payloads in flight, the agent's configuration | commit, notify, register, apply | built and sent in two steps; queueing; reconnects | the agent comes to run what the database says |
| Reconnect loop (`client/mod.rs`) | delay, shutdown flag | attempt, session, wait, stop | a session's reset races the loop's own copy; shutdown at any point | bounded, growing delays; a prompt stop |
| Heartbeat-driven sweeps (`control_plane.rs`) | one time stamp per sweep | load / compare-and-swap / swap, list, delete | every stream's task races for the stamp | at most hourly, and again and again |
| Certificate rows (`api/ssl.rs`, `control_plane.rs`) | status, expiry, failure reason | renew, edit, report, fail, sweep | four writers, none of them in a transaction with its read | a pending row carries no failure; no order stays pending for ever; the row shows what is served |
| Circuit breaker (`pingap-upstream`) | atomic state, mutex-guarded probe data, success run | ask, judge, close | state read without the lock, lock only tried | bounded probing, no traffic while cooling, always a decision |
| Log shipping (`client/mod.rs`, `control_plane.rs`) | bounded channel, the shipper's batch, handlers, two tables | enqueue, batch, call, retry, insert in chunks | the batch dies with the session's future; a failed call may have been served | order, bounded backlog, accounted losses and copies |
| Disk cache and quota (`pingap-cache`) | files, hot layer, budget, ledger entries, byte and item counters | put, read, revalidate, remove, purge, evict, walk, rescan | counters and maps updated one after the other, files removed across awaits | one eviction at a time; counters that match and never wrap |
| Data-plane hot reload (`src/pingwaf.rs`, `pingap-location`, `pingap-upstream`) | the applied hash; providers of upstreams, locations, routes, plugins; a plugin list cached per location | watch, build, replace one provider after the other; resolve on the request path | pushes during a reload, requests between two replacements, providers that fail | what is acknowledged is served; no stale list survives; unchanged upstreams live on |
| Requests in flight (`pingap-proxy`, `pingap-location`, `pingap-upstream`) | counters of a location, of an upstream and of each backend | locate, select a backend, retry, log | two kinds of retry, of which only one is counted; rejections and early ends; reloads between two attempts | what is raised is lowered once, at the same place; `max_processing` holds |
| Config history, backup and restore (`config_history.rs`, `config_restore.rs`, `api/config_backups.rs`) | rows of a site, versions, backups, advisory lock | record, prune, roll back, back up, restore | recorders detached from their requests, three isolation levels, edits that take no lock | the way back is what was replaced; no edit vanishes; the history ends with the present |
| Visitor authentication, JS challenge, rate limit | sessions, tokens, counters | issue, verify, expire | expiry and concurrent attempts | no acceptance after expiry |
| ACME, certificate store, hot restart, async logger | order state, swapped tables, timers, queue | order, swap, restart, flush | external peers, shutdown | progress, no loss at shutdown |
| WAF engine, plugins, location matching, proxy phases, config storage, discovery, health checks, observability, REST API, web console | none, or immutable tables, or pure I/O | | | |

How they interact: a REST handler commits a change and calls
`notify_config_changed`, which builds one payload per agent and hands it to the
registry; the registry puts it in the channel of the agent's heartbeat stream
or queues it; the agent applies it to its rule cache, which persists it and
rebuilds the index that the request path reads; a watcher sees its new hash and
rebuilds the proxy's providers. The same call spawns the recorder of a
configuration version; a rollback or a restore is one more change that goes
this way. In the other direction access logs and WAF events are shipped in
batches within each session of the reconnect loop, and each heartbeat
carries what the edge serves, updates certificate rows and drives the sweeps; failure events come over a stream of their own.

## Modules

| Module | Models | State ↔ code | Actions ↔ code |
|---|---|---|---|
| `RuleCachePersist` | cache files and the paths that write and load them | a snapshot is the number of its sync; a CRC stamp is the snapshot it was computed from; a file is a snapshot, absent, torn or tampered | one action per file written: `PersistLock`, `RollSites`, `RollMeta`, `WriteSites`, `WriteMeta`, `CollectBlocked`, `WriteBlocked`, each of which may fail (`WriteFails`); `NewCache` is the start; `Crash` and `Damage` are the environment |
| `BlockedIps` | `blocked_ips` and `cidr_index` of one site | a block is the stamp it was issued with; lapsed stamps have expired; the index is a set of entries, whose `slot` is their place in the list | one action per map access of `block_ip`, `unblock_ip`, the clears, `cleanup_expired_blocks`, `blocked_lookup`, `enforce_blocked_capacity` |
| `SiteIndex` | `sites` and `domain_index` | the names of each site; the site of each name | `Edit` in the control plane, `UpdateFromSiteConfig` at the agent |
| `AgentRegistry` | registry, heartbeat handler and de-registration, for one agent | a stream is its generation; channels and queue are sequences of commands | `Lookup`/`TrySend`/`Enqueue` are the three steps of `send_command`, between which its caller may be dropped (`Cancelled`); `Authorize` is a handler up to the check of the row, of which any number may wait (`waiting`) while the agent waits for at most one (`dialing`), and `Abandoned` the end of one it gave up; `Connect`, `Replay`, `Opened`, `InboundEnds`, `Disconnect`, `ReceiverDropped`, `HandlerCancelled` the life of a stream |
| `CommandDelivery` | `AgentRegistry` with numbered commands | | `Push` |
| `ConfigPush` | `AgentRegistry` with configurations as commands | a configuration maps each site to the change it carries | `Commit`, `RemoveSite`, `Notify`, `Register`, `Apply`; `GiveUp` and `CancelPush` are the ways out of `notify_config_changed` that push nothing |
| `ReconnectLoop` | `connection_loop` and `next_backoff` | delays in milliseconds | `Top`, `AttemptFails`, `Registered`, `SessionEnds`, `WaitElapses`, `Shutdown` |
| `HeartbeatSweeps` | the throttles of the three hourly sweeps | the age of a stamp, up to an hour | `LoadCert`/`CasCert`, `SwapAgents`, `ListAgents`, `DeleteAgents`, `SwapSamples` |
| `CertificateRow` | one ACME row and its four writers | orders and certificates are numbered, and each edge has its own certificate; a failure reason is the order it is about | `HeartbeatSent` of an edge; `Renew`, `EditCertificate`, `Report`, `EventArrives`, `SweepList`, `SweepFail` |
| `CircuitBreaker` | one backend's breaker | the deadlines as booleans; the success run up to the threshold | `Ask`, `AskLock`, `CheckOpen`, `CheckHalfOpen`, `Succeeds`, `Fails`, `Close`, `Judge` |
| `LogShipping` | `send_log`, `run_log_shipper`, `flush_logs` within the sessions of `ReconnectLoop` (which it extends), and the handlers of `ship_logs` | entries are numbered; channel, batch and calls are sequences; a table is a bag of entries | `ShipRecv`, `ShipTick`, `ShipNotified`, `ShipDrain`, `ShipShutdown` are the branches of the shipper's select; `CallAccepted`, `CallRejected`, `CallFails`, `CallLost` the ends of a call; `HandlerReceives`, `HandlerInserts`, `HandlerFails`, `HandlerAborts` the server |
| `LogDelivery` | what log shipping promises, an abstract specification | a queue, the stored rows, the entries known to be lost | `Accept`, `Refuse`, `Store`, `Confirm`, `Abandon` |
| `DiskCache` | `FileCache` and `DiskQuotaManager` for one domain | an object is its size; file, hot layer, entry map; the three counters; `stray` are temporary files left behind | one action per await or counter: `BeginPut` … `Write`, `Rename` … `Check`, `Corrupt`, `UnlinkTemporary` …, `Get`/`Read`, `UpdateMeta`, `Remove`, `Clear`, `PurgeNamespace`, `PurgeUrls`, `PurgeDomain`, `Walk`, `EvictToFit` … `Finish`, `Restart` |
| `HotReload` | the watcher of `start_data_plane`, the four providers, `plugins_for` | a site's configuration is its upstream, its plugin and its limit; an upstream is its key, the name it was built for and when | `Push`, `Poll`, `Build`, one action per provider, `Mark`; `Find`, `LoadVersion`, `UseCached`, `GetPlugins`, `StoreList` for a request |
| `InFlight` | the counters of requests in flight, extending `HotReload` by the rest of a request | a request is where it is, its location, its upstream and the backend it is counted at; counters are functions that omit zero | `Locate` is `find_and_apply_location` with `on_request`; `UpstreamPeer` with `Connect`; `FailToConnect` and `ReusedFails` the retries; `Logging` |
| `ConfigHistory` | versions, rollback, backup and restore of sites, extending `SiteIndex` by the database and the agent that serves the result | a site's row is its names and `updated_at`, its rows in other tables are `rules`, those below zero being the ones that no fingerprint shows (`Hidden`: grants of visitors, the state of certificates); a fingerprint is the content it is of | `EditSite`, `AddRule`, `UpdateRule`, `DeleteRule`, `Touch`, `Notify` for the API, `EndsEarly` and `RestoreGoesOn` where one of them fails; `SilentWrite` for writers that record nothing; `RecordBegin`, `RecordCommit`, `PruneExpired`; `RollbackBegins` … `RollbackRecords`; `BackUp`, `RestoreBegins`, `RestoreCommits`, `RestoreRecords` |

Refinement: `LogShipping` implements `LogDelivery` (`DeliversLogs`). The mapping
takes as the abstract queue everything between the producer and the tables, the
call under way followed by the batch and the channel (`queue <- Waiting`), as
rows what the tables have at least one copy of, and as lost what was dropped at
a full channel, in a rejected call, beyond the batch size of a failed one, or
with a session.

`ConfigPush` implements `CommandDelivery` (`PushImplementsDelivery`, proved): a
payload is a command, and its number is its place in the payloads built so far.
`InFlight` implements `HotReload` (`FlightRefines`, proved).

The `MC...` modules give TLC its sets; the `...Proofs` modules hold the
theorems: `AgentProofs` those of `ReconnectLoop`, `LogShipping` and
`BlockedIps`, `ControlPlaneProofs` those of `HeartbeatSweeps`, `CertificateRow`,
`SiteIndex` and `ConfigHistory`, `DataPlaneProofs` those of `HotReload`,
`InFlight` and `CircuitBreaker`, the others those of the module they are named
after; `SumTheorems` has what they need to know of sums. Modules that are proved
about together share no name, hence `BlocksSpec`, `SweepSpec`, `BreakerSpec` and
the like. Definitions under a comment that begins with *Mutant* are plausible
wrong versions of the action that follows them; each property is known to fail
on one of them.

What is abstracted: the content of rules, payloads, certificates and requests.
`CircuitBreaker` leaves open which failure trips a closed breaker (a run or a
rate), so its results hold for any such rule. `ConfigPush` leaves out later
heartbeats and the de-registration, which touch nothing it reads. `LogShipping`
takes the drain of the channel at a flush as one step, and leaves out alerts and
the Elasticsearch mirror. `ConfigHistory` takes PostgreSQL from the isolation
level that each transaction asks for, a changed row as a new one, and the push
to the agent as immediate, since `ConfigPush` has what may happen on the way.
The creation of a site is one step there: the handler inserts row after row, and
one that stops half way is an `EndsEarly` whose missing rows are not told apart
from absent ones. `AgentRegistry` lets `dialing` and `waiting` stand for the
handlers before `connect`, which differ in nothing else. A temporary file of
`DiskCache` is left whole or not at all. `CertificateRow` is about a row without a
stored PEM and with an ACME email, the rows that reports, events and the sweep
write; an expiry stands for the certificate it belongs to.

## Runs

| Run | Shows | Bounds, and why they are enough |
|---|---|---|
| `cache_persistence` | Every start finds a snapshot no older than the last stamped one (`Recoverable`); after two persists the backup parses (`BackupStands`); with no persist in flight a restart loads what is in memory (`RestartKeepsRules`); a load failure stays visible (`LoadFailureSticky`); a lowered dirty flag means a current `blocked_ips.json` (`CleanMeansFlushed`) | two persist paths, the flush task and a request thread race; the rules at start and one sync give an older and a newer snapshot, and each persist of either rolls the backup; one crash and one damage at any point. A start is evaluated in every state, so later crashes add only repetitions |
| `command_delivery` | Each pushed command is in exactly one place from push to delivery or a documented discard (`OnePlace`); a late teardown spares the newest stream (`NewestStreamRegistered`); a drained queue arrives in order (`ReplayInOrder`) | three commands overflow a queue and a channel of two; two streams give an old and a new generation, and either may be the one the agent has given up; a handler dropped, and the agent de-registered, at any point (3.6 million states) |
| `config_push` | After changes that overlap neither each other nor a connect, the agent runs what the database says, unless the last push was given up on an error or with its handler; the next push, or a registration that finds the queue empty, makes up for that (`SerialPushConverges`) | four changes of two sites, one deletion, two streams, a queue of two that overflows; any push may be given up (3.9 million states) |
| `blocked_index` | A CIDR that no two operations were busy with at once is in the index exactly when it is in the map, with the same expiry (`IndexInStep`) | two threads, one address, two CIDRs, three blocks over a ceiling of two: eviction, expiry and renewal all happen |
| `reconnect` | Delays stay within the ceiling (`DelayBounded`) and do not shrink around failed attempts (`BackoffHolds`); a shutdown always stops the loop (`ShutdownStops`); while a session lasts no entry waits forever (`SessionShips`) | the composition `LogShipping`; first delay 1, ceiling 6: doubling meets the ceiling, with every jitter; an entry of a site and a foreign one |
| `sweeps` | No sweep goes ahead twice in an hour (`AtMostHourly`), stamps are never older than sweeps (`StampNotOlder`), the certificate sweep recurs (`CertSweepRecurs`) | two tasks, an hour of two ticks: heartbeats within the hour and beyond |
| `certificate_row` | A pending row carries no failure (`PendingIsClean`); no order stays pending for ever (`PendingEnds`); the row comes to show what some edge serves (`EdgeStateShown`) | two edges with a report task each, two operator writes, two certificates, two events under way: a report is written after the edge has another certificate, after the other edge's, after a renewal and after the sweep (0.2 million states) |
| `circuit_breaker` | Without overlap no more probes than the threshold (`SerialProbesBounded`); a cooling breaker lets no filtered request through, whatever the thread had read (`CoolingRejects`); a half-open breaker decides (`HalfOpenEnds`) | two threads, a threshold of two |
| `log_shipping` | Entries leave in order, stored or known to be lost, through every failure (`DeliversLogs`, the refinement); a failed call that is restored never lets the backlog grow past its bound (`BacklogBounded`); a row is stored twice only for a call that had failed (`CopiesExplained`) | three entries over a channel of one and batches of two: full channel, split and merged batches; two faults, so a retry can fail again while the first handler still inserts; two tables |
| `disk_cache` | Counters never wrap (`NeverWraps`); one eviction at a time (`OneEvictor`); the item count is the number of entries unless a reset overlapped an update (`CountExact`); operations that neither overlap nor fail leave the ledger and the quota exact, and the budget no smaller than the files unless a put made room with the file it replaces, through a crash between the temporary file and its renaming, until a sweep meets that file (`SerialLedgerExact`) | three operations of two threads over two keys; two objects of one byte and one of two against a quota and a budget of two, so a put evicts, and may evict the file it replaces; one restart, which leaves the temporary file of a put under way; failing removals, writes and renamings, and files that do not parse (0.8 million states) |
| `hot_reload` | A watcher at rest serves what it has acknowledged (`ReloadComplete`); no location keeps a plugin list older than its stamp (`StampFresh`); an unchanged upstream is neither rebuilt nor split from its aliases (`UnchangedKept`); the counters of locations, upstreams and backends are what is in flight, but for a request that was retried at another upstream (`InFlightExact`) | the composition `InFlight`: two sites that may share an upstream, two pushes, configurations that cannot be built; two requests, each with a retry of either kind; two backends, and a location that admits one request, so that it rejects and is reloaded with requests in it |
| `config_history` | The history of a site whose operations do not overlap ends with its configuration, once a recorder has looked at the site after the last change that nobody recorded (`SerialHistoryCurrent`); a rollback replaces what it archived, by exactly the rows of the version (`RollbackFaithful`); a restore removes nothing that its pre-restore record does not have (`RestoreLosesNothing`); a host that has had one owner resolves to it (`StableHostServed`) | three operations in two requests: any two overlap and a third follows; two sites, a host and a wildcard; a history of two versions, so that pruning happens; one failure, of a recorder or of what a handler does after its change, and one write without a recorder (2.5 million states). `StableHostServed` was also checked on `SiteIndex` alone with three sites and two hosts |

Runs that switch deadlock checking off are those of models whose bounded
environment may come to rest (all commands pushed, all changes made).

### Fairness

- `ReconnectLoop`: the runtime polls the loop, and attempts time out. Nothing is
  assumed of a session's end or of the back-off timer, so `ShutdownStops` does
  not lean on a wait of up to a minute running out.
- `HeartbeatSweeps`: agents keep heartbeating, their tasks are scheduled and
  time passes.
- `CertificateRow`: heartbeats are sent and persisted, and the database does not
  fail every time (strong fairness of `Report` and of `SweepFail`); the grace
  period passes, and the sweep comes round again, which `CertSweepRecurs` of
  `HeartbeatSweeps` shows. Nothing forces the operator or the edges, and events
  may be lost.
- `CircuitBreaker`: requests keep coming and end somehow, threads are
  scheduled, deadlines pass. Nothing forces an outcome: a request may vanish.
- `LogShipping`: the reconnect loop as above; a shipper that can go on is polled,
  a call returns (tonic's channel has a timeout), and each handler is scheduled.
  Nothing forces a fault, a session's end, a shutdown or a heartbeat.
- `DiskCache`, `HotReload`, `InFlight` and `ConfigHistory` state safety only.
- `CommandDelivery` has a `FairSpec` for `QueueDrains`: scheduled tasks run and
  the agent connects and reads; nothing forces a stream to break.

## Proofs

All theorems are checked by tlapm with Z3, Zenon and LS4 only, and hold for
every value of the constants that meets the named assumptions. Each is an
invariant made inductive (`Init => Inv`, `Inv /\ [Next]_vars => Inv'`), one step
per action, or an action property or refinement that follows from it.

**`RuleCachePersistProofs`** - any number of persist, flush and block threads, syncs,
crashes and damages. Assumptions: the thread sets are disjoint, `Nobody` is no
thread, the bounds are natural numbers.

- `TypeCorrect`; `RestartRecovers` (`Recoverable`); `BackupSurvives`
  (`BackupStands`). Neither of the two is inductive: between `WriteSites` and
  `WriteMeta` the primary does not match its stamp. `PersistInv` adds that a
  thread that writes holds the lock (`LockInv`), that no copy is newer than the
  last sync (`IssuedInv`), that until the primary validates again the backup is
  at least as new as the last commit, which holds because the backup is rolled
  *before* the primary is touched (`RecInv`), and that there is something to roll
  after one commit (`BakInv`).
- `RestartLoadsMemory` (`RestartKeepsRules`). `KeepInv` adds that what a persist
  writes is what memory holds unless another persist waits for the lock behind
  it, and that once `metadata.json` is written the pair is the writer's.
- `FlushCatchesUp` (`CleanMeansFlushed`): a flag that is down while no writer is
  between collecting and writing means a current file; a failed flush raises it.
- `FailedLoadReported` (`LoadFailureSticky`).

**`AgentProofs`** - the reconnect loop and the log shipper that lives in its
sessions, for every first delay and ceiling, every channel and batch size, and
any number of entries and faults; the dynamic IP blocks, for any threads, any
addresses and CIDRs, any limit and headroom and any number of blocks.

- `DelayStaysBounded`, `BackoffNeverCollapses` (`BackoffHolds`). `DelayInv` adds
  that the value the loop is about to load is no smaller than the one it last
  waited, up to the jitter's half of the ceiling; `NextBackoffBounds` is the
  arithmetic.
- `BacklogStaysBounded` (`BacklogBounded`): `BaseInv` has the types, when the
  shipper has a batch and when a call (`PhaseInv`), the lengths (`LengthInv`),
  and that all that waits is ascending, sent and not given up (`QueueInv`).
- `CopiesAreExplained` (`CopiesExplained`). Counting rows alone is not inductive:
  a handler whose call has already failed may still insert. `CountInv` counts,
  for each entry, its rows and what the handlers still carry of it, against the
  failed calls it was in and the one call that need not have failed.
  `StoredInv` is what makes an answer trustworthy: while the call's handler has
  not failed, each entry of the call is a row or still the handler's.
- `LogInductive`: `LogInv` is inductive.
- `ShippingDelivers` (`DeliversLogs`): `LogShipping` implements `LogDelivery`, with
  the mapping given above. `SendLog` maps to `Accept` or, at a full channel, to
  `Refuse`; a handler's insert to `Store`; a successful call to `Confirm`; a
  rejected call, a failed one that does not fit back, and the end of a session
  to `Abandon`; every other step leaves the mapped state as it is.
- `IndexesInStep` (`IndexInStep`). The property speaks of a CIDR that nobody is
  busy with, and is not inductive: between the map and the index the two
  differ. `StepInv` says of every CIDR that was never contended that at most one
  thread is busy with it, and that this thread alone accounts for the difference
  (`Halfway`): it has removed the block from the map and the index still has it,
  or it has inserted it and the index has still the old one, or none. A clear of
  the site is busy with every key until it drops the index, so a key that
  another thread inserts meanwhile is contended. `BlockShapes` has what a thread
  holds at each stage.

**`ControlPlaneProofs`** - the sweeps for any number of tasks and any window; the
certificate row for any number of tasks, operator writes and certificates; the
configuration history and the site index for any sites, names, requests,
retention and bounds.

- `StampsAreFresh` (`StampNotOlder`), `SweepsAreHourly` (`AtMostHourly`).
  `SweepInv` adds what the compare-and-swap relies on: a loaded value that is
  still the stored one is an hour old.
- `PendingStaysClean` (`PendingIsClean`), for any number of edges. `CertInv` adds
  what a task that is about to write may write, and that every order is one of
  the operator's writes.
- `StableHostsResolve` for `SiteIndex` alone and `HistoryServes` for the
  composition (`StableHostServed`). `IndexInv` adds that names have one owner in
  the database and that every name of a cached site that never moved is indexed
  to it; what a rollback or a restore puts back keeps both.
- `HistoryInductive`: `HistoryInv` is inductive. Besides `IndexInv` it has: what a
  restore saw, and that the row was not written if its revision is the same
  (`RestoreInv`); one holder of the advisory lock per site (`LockInv`); what a
  rollback has archived, deleted and hashed (`RollbackInv`); versions whose hash,
  if it is of a bundle, is of their rows (`VersionInv`).
- `RestoresLoseNothing` (`RestoreLosesNothing`).
- `RollbacksAreFaithful` (`RollbackFaithful`). The proof needs more than the lock. A
  rollback that finds its hash at the latest version archives nothing and takes
  that version for what it replaces, so the version must be of those rows; but
  the recorder of a rollback computes the hash before its transaction looks, and
  a second rollback may commit in between. Such a recorder counts as overtaken
  (`Overtaken`, in `raced`); without that the statement is false, with bounds
  larger than those of the run.
- `HistoryStaysCurrent` (`SerialHistoryCurrent`). `SerialInv` says, of a site that was
  not disturbed: one request with its recorders is busy with it (`AloneInv`);
  where the request is while its recorders run (`SlotInv`); its newest version
  is its configuration, or a recorder is there or to come, or a change went
  unrecorded (`missed`, `CurrentInv`); what a recorder holds is the site as it is,
  unless again, and it has seen all versions or the newest of them is current
  already (`RecordingInv`); the hash of a version, and the one a rollback archives
  under, is of what its rows show (`TellsInv`, `ArchivingInv`). A recorder that
  inserts takes the site out of `missed`, one that finds its hash at the latest
  version does not if hidden rows differ. And of all sites that ids are not used twice and that
  what is pruned is the site's own (`IdInv`), so that no recorder of another
  site can take a version away.

**`CommandDeliveryProofs`** - any number of handlers, streams and commands, any queue
and channel size. Assumption beyond the sizes: handlers and streams are distinct.

- `DeliveryInductive`: `DeliveryInv` is inductive; `DeliveryTypes` (`TypeOK`).
- `NewestStreamKept` (`NewestStreamRegistered`): `LiveInv` adds which generations have
  connected (`PhaseInv`), and that the stream the agent reads is replaying or open.
- `CommandInOnePlace` (`OnePlace`): `BoxInv` names the box (a hand, a queue, a
  channel, what is received, what is dropped) of each command, says that it is
  in no other box, and that no queue has it twice.
- `ReplayedInOrder` (`ReplayInOrder`): `DrainInv` adds that only the newest stream
  is registered, that no stream sends on an older one, that a command once
  drained is never again in the hand of a handler or of an older stream, and
  where in what it drained a replaying stream is. `OrderInv` is the order itself,
  over every box that may hold both of two commands.

**`ConfigPushProofs`** - any number of handlers, sites, streams and changes, any
queue and channel size.

- `PushImplementsDelivery`: the pushes implement `CommandDelivery`, so that what
  is proved of commands holds of payloads. `CountInv` is what the mapping needs:
  every payload, and every handler that is about to build one, has a change of
  its own, so that the payloads do not exceed the bound on commands.
- `PushTypes` (the model's `TypeOK`).
- `SerialPushesConverge` (`SerialPushConverges`). The property speaks of a moment
  when nothing is on its way, and says nothing of how it got there. `CalmInv`
  says it of every moment, as long as changes overlapped neither each other nor a
  connect and no push that was given up is still to be made up for (`behind`): the last configuration on its way to the agent is the database's,
  wherever it is - left to replay, in the stream's hand, in the channel, or the
  one the agent has (`TipPart`); what a handler carries is the database's
  (`PushPart`); and the queue has something only while nothing can be sent, its
  last payload being current (`QueuePart`), so that overflow, which drops the
  oldest, and a replay that stops half-way do no harm. The registry's part of it
  - which stream is registered, which may still send - is `DeliveryInv` of
  `CommandDeliveryProofs`, through the refinement.

**`DataPlaneProofs`** - the hot reload and the requests in flight for any sites,
configurations, requests, retries and backends; the circuit breaker for any
number of threads and any threshold.

- `ReloadInductive`: `ReloadInv` is inductive for `HotReload` alone;
  `FlightRefines`: `InFlight`, which adds the rest of a request, implements
  `HotReload`, so that the following hold of the composition.
- `ListsFresh` (`StampFresh`): `StampInv` relates each list that a request is about
  to store to the plugin version it was resolved under, outside the window
  between the replacement of the plugins and the new version.
- `ReloadsComplete` (`ReloadComplete`): `ServeInv` says from which step of the
  reload on each provider is that of the new configuration, `NoticeInv` that a
  watcher that will find no other hash has built from the cache as it is.
- `UpstreamsKept` (`UnchangedKept`).
- `InFlightCounted` (`InFlightExact`). That the counters are exact is not enough
  to know that they stay so: `FlightInv` adds that a request counted at a backend
  was counted by an upstream, and has another one now only if a request left the
  one for the other (`TripInv`); that requests in the same location know the same
  limit, which is what makes `max_processing` a bound through reloads
  (`LocationInv`, `LimitKept`); and for each location, each upstream that nobody
  crossed and each backend the requests that its counter stands for
  (`LocationCount`, `UpstreamCount`). What crossed requests lose at one upstream
  they lose at another: the sum over all upstreams is the number of requests
  that hold one (`HoldingCount`).
- `ProbesStayBounded` (`SerialProbesBounded`), `CoolingHolds` (`CoolingRejects`).
  `BreakerInv` adds that an open breaker's half-open deadline has passed, so a
  thread that had read HALF_OPEN finds it overdue (`DeadlineInv`); and that,
  as long as no two threads met, what the one in it has read is still so.

**`DiskCacheProofs`** - any finite sets of threads and keys, any sizes.

- `CacheInductive`: `CacheInv` is inductive.
- `EvictorsAlone` (`OneEvictor`): each flag is up exactly while one thread is
  between raising and lowering it (`EvictInv`, `MakeInv`); that needs to know
  what a thread's registers hold at each label (`ShapeInv`).
- `CountsEntries` (`CountExact`): `CountInv` balances the count against the
  entries, plus the threads that have yet to lower it, less those that have yet
  to raise it, and says that nothing is in the map during a reset that met no
  update.
- `CountsNeverWrap` (`NeverWraps`): `BoundInv`. What is on disk and what is yet to
  be written take at most one operation each, and each byte count is at most so
  many times the largest object as there were operations that have reached it.
- `SerialLedger` (`SerialLedgerExact`): `SerialInv` says, while no two operations
  have overlapped, where the ledger, the budget and the quota are at each label
  of the operation under way: which entry is not yet its file and by how much
  the bytes and the count are short or over (`LedgerAt`); what a purge has still
  to remove before it resets the ledger (`PurgeAt`); that the budget covers the
  files and what is still to be taken off (`BudgetAt`); that the files an
  eviction has still to remove are enough to bring the domain under its quota
  (`QuotaAt`); and that the list of a walk is of files that are there (`ListAt`).
  Temporary files that were left behind count in the budget and not in the
  ledger; `swept` says that `clear` has met one.
  The proof attempt is what found that `put` may take the length of one file off
  the budget twice (see `BudgetExact` below): the property says so with the
  history variable `netted`, and the run's objects are such that it happens.

**`SumTheorems`** - sums over finite sets, which the two modules above rest on.
The sum that a fold computes depends on `CHOOSE`; the lemmas say that it does not
matter (`SumSplit`, `SumChange`, `SumSame`), and bound it (`SumNat`, `SumBound`).
They are proved by induction over the subsets of a finite set, in the form
(`SubsetInduction`) of a well-founded order and a set without a least element, so
that no operator has to be instantiated.

Only model-checked: the six liveness properties `ShutdownStops`, `SessionShips`,
`CertSweepRecurs`, `PendingEnds`, `EdgeStateShown` and `HalfOpenEnds`. They hold under fairness,
which the prover cannot reason about. Every other property of a run is a theorem.

None of the modules that theorems are about uses recursion.

## Statements the code does not meet

Comments and documents that the models refute. Each statement is in its module,
marked *Violated*, and TLC shows it fail when it is made the only property of
the named configuration.

| Property (module) | Configuration | What happens |
|---|---|---|
| `FlushedBlocksKept` (`RuleCachePersist`) | `RuleCachePersist` | `load_from_disk` returns before reading `blocked_ips.json` when there is no `sites.json`: flushed blocks are lost |
| `DegradedVisible` (`RuleCachePersist`) | `RuleCachePersist` | without a cache directory every persist is an `Ok`, and health stays good |
| `NeverLost` (`CommandDelivery`) | `AgentRegistry` | a command in the channel of a dead stream is dropped with it |
| `LiveStreamRegistered` (`CommandDelivery`) | `AgentRegistry` | the handler of a stream the agent has given up, held up at the await of the row (`control_plane.rs:429`), connects after the live one, takes the registration, and leaves the agent unregistered at its teardown |
| `LiveStreamOnline` (`CommandDelivery`) | `AgentRegistry` | `mark_offline` looks at the heartbeat's age, not at the generation |
| `RemovedIsForgotten`, `RemovedIsSilent` (`CommandDelivery`) | `AgentRegistry` | a push, or a heartbeat, in flight during a removal leaves a queue, or counters, behind |
| `QueueDrains` (`CommandDelivery`) | `AgentRegistry`, with `SPECIFICATION FairSpec` | a push that saw the agent offline queues after it connected; only the next connect drains |
| `ChangesReachAgent` (`ConfigPush`) | `ConfigPush` | a lone change whose push is given up (`grpc/mod.rs:101`, `:134`, `:150`, or its handler dropped) is not pushed again, and nothing in the agent calls the `sync_rules` that the comment at `grpc/mod.rs:86` counts on; payloads are built and sent in two steps: of two overlapping pushes the older may arrive last, and the agent keeps it |
| `LiveBlockRefuses` (`BlockedIps`) | `BlockedIps` | of two operations on one CIDR, one that ends last in the index but not in the map leaves a live block out of the index |
| `AgentSweepRecurs` (`HeartbeatSweeps`) | `HeartbeatSweeps`, one task | the agent sweep stores its stamp on every heartbeat, so heartbeats more often than hourly put it off for good |
| `DeletedSiteDropped` (`ConfigPush`) | `ConfigPush` | after the row is gone no agent is found to serve it, and nothing is pushed |
| `OnlyExpiredSwept` (`BlockedIps`) | `BlockedIps` | an entry renewed between a sweep's test and its removal by key is removed |
| `HealthySessionResets` (`ReconnectLoop`) | `ReconnectLoop` | the loop stores back the delay it loaded before the session |
| `OnlyStalePruned` (`HeartbeatSweeps`) | `HeartbeatSweeps` | an agent that registers between query and deletion loses its row |
| `FailureIsOfThisOrder`, `OnlyOverdueSwept` (`CertificateRow`) | `CertificateRow` | an old order's event, or a listed row, fails the new order |
| `ListedHostServed`, `DroppedHostUnserved` (`SiteIndex`) | `ConfigHistory` for the first; `Spec` of `SiteIndex` with two sites and two hosts for both | a deleted site takes a moved name with it; a name given up stays indexed |
| `ProbesBounded`, `FailureReopens` (`CircuitBreaker`) | `CircuitBreaker` | a second thread that read OPEN restarts the probe count; a failed `try_lock` drops a probe's failure |
| `DisconnectKeepsBatch` (`LogShipping`) | `LogShipping` | the disconnect that fails the call also ends the heartbeat, and the session drops the shipper with its batch |
| `ShutdownFlushes` (`LogShipping`) | `LogShipping` | the session's own wait for the shutdown wins over the shipper's last flush; the channel is not drained |
| `PurgedNotServed` (`DiskCache`) | `DiskCache` | a purge works from the disk: what only the hot layer has, or a read or revalidation under way puts back, stays |
| `QuotaHolds` (`DiskCache`) | `DiskCache` | who loses the race to evict leaves it to a winner that has chosen its candidates before |
| `LedgerExact` (`DiskCache`) | `DiskCache` | a put between the removal of a file and of its entry; two removals of one file; and, alone, a `clear` that meets the temporary file of a crash, which the scan has skipped (`quota.rs:953`) and `record_remove` takes off all the same |
| `BudgetExact` (`DiskCache`) | `DiskCache` | what the ledger's evictions and purges remove is never taken off the budget; and `put` reads the length of the file it replaces (`file.rs:875`, under the comment "so the budget stays honest") before `ensure_disk_space`, which may evict that very file: its length is then taken off twice, and the budget admits more than it should |
| `NewestServed` (`DiskCache`) | `DiskCache` | an object too large for the hot layer leaves its predecessor there |
| `PushNoticed` (`HotReload`) | `InFlight` | a push while the proxy starts is in the hash the watcher starts from (`pingwaf.rs:1948`) and not in the providers |
| `PluginsComplete` (`HotReload`) | `InFlight` | locations and routes are replaced before the plugins they name |
| `CountersBalance` (`InFlight`) | `InFlight` | a retry after a reload finds another upstream, and `logging` lowers its counter, below zero, while the one that was raised stays up (`server.rs:2019`) |
| `OwnUpstream` (`InFlight`) | `InFlight` | after the first attempt `ctx.upstream.name` is the name the shared upstream was built for (`server.rs:2021`); once that site has another upstream, the retries of its aliases go there |
| `RollbackLosesNothing` (`ConfigHistory`) | `ConfigHistory` | the transaction is read committed and edits take no advisory lock: what an edit writes between the archive and the replacement is in no version |
| `HistoryCurrent` (`ConfigHistory`) | `ConfigHistory` | a lone edit whose `touch_site` or configuration fails (`api/rules.rs:502`, `grpc/mod.rs:101`) is in no version; grants of visitors (`api/visitors.rs:317`, `grpc/visitor_auth.rs:606`) and the state of certificates (`control_plane.rs:1398`, `:1585`, `:1713`) are captured and written without a recorder; of two recorders the one that saw less may insert last; a concurrent prune turns a recorder's commit into a rollback that is reported as recorded |

## Not modelled

Visitor authentication, the challenge, rate limits, ACME, hot
restart and the asynchronous logger are planned (below). Of the parts that are
modelled, these are left out: of the hot reload the certificate table and its
merge with the ACME state and locations that cannot be built (`locations.rs:76`);
of the block file that a look-up drops an expired entry without raising the
dirty flag (`cache/mod.rs:2030`, `:2048`), which leaves in the file an entry that
has expired; of the requests
`traffic_splitting`, which overrides the upstream, the choice among backends
(any may be selected, or none) and the server's own processing counter; of the
disk cache changes of a quota and the gauges; of the configuration history the global and the
deployment scope, encryption, upload targets and the expiry of backups, and the
sweep of `site_certificate_links` in `delete_rows`. The WAF engine's
matching, plugins, location matching and configuration parsing are pure
functions over strings with no useful bound; discovery, health checks and
observability are I/O around libraries; the REST API beyond the handlers above
and the web console keep no protocol of their own. `send_command_now` and
`broadcast` of the registry, which queue nothing, and `update_from_bundle`, for
which the control plane sends no command, are left out.

## Plan

1. Done: persistence, registry and commands, configuration push, block maps,
   site index, reconnect loop, sweeps, certificate row, breaker; log shipping
   with its abstract specification, disk cache, hot reload, requests in flight,
   configuration history; the theorems above.
2. Theorems, next: the capacity ceiling of the block maps (the map exceeds it by
   at most the blocks in flight); `SessionShips` reduced to a safety property of
   the shipper, so that only its last step leans on fairness.
3. Abstract specifications: *configuration distribution* (the agent's
   configuration is always one the database had, and comes to be the current
   one when changes stop), implemented by `ConfigPush` for changes that do not
   overlap; *at-most-once command* for `CommandDelivery`; *block set* for
   `BlockedIps` without contention.
4. Modules: `VisitorSession`, `RateLimit`, `AcmeOrder`, `HotRestart`, `AsyncLogger`.
