# A TLA+ model of LlamaRack

LlamaRack is a manager for llama.cpp: it owns a catalogue of models and of
*instances* (a model with its settings), starts one `llama-server` process per
loaded instance, routes OpenAI requests to them, unloads idle ones and evicts
others when memory is short. This directory models the manager's services where
something can go wrong between two steps: who may start and stop a worker, on
whose memory, and what requests, jobs, caches and rows say while that happens.
All paths below are relative to `src/`; `internal/` is
`src/backend/internal/`.

1. [The system](#the-system) 2. [Modules](#modules) 3. [Runs](#runs)
4. [Bounds, fairness, deadlock](#bounds-fairness-deadlock)
5. [Findings](#findings) 6. [Proofs](#proofs)
7. [Not modelled](#not-modelled) 8. [Plan](#plan)

## The system

| component | state it keeps | operations | talks to |
|---|---|---|---|
| `internal/lifecycle` | per instance: loads in flight, drain channel, operation gate, startup generation, activity counts, manual-stop and resource-block flags, start failures, tracked worker | Acquire (a request), start, stop, restart, kill; the idle and always-on reconcilers; eviction | supervisor, scheduler, database |
| `internal/supervisor` | map instance -> worker (state, process, done channel, killed flag); the `worker_runtime` rows; a bus of runtime events | Start, Stop, Kill, BeginDrain, AbortDrain, WaitInactive, the reaper `wait`, ReconcileStaleWorkers, Subscribe | the operating system, SQLite; calls lifecycle back when a worker exits |
| `internal/scheduler` | the ledger: leases, owner index, claims on eviction victims | Acquire, AcquireRuntime, Commit, Release, sweep; placement, runtime plan and eviction plan are pure | reads hardware snapshots |
| `internal/downloads` | job and file rows, partial and final files, the cancel function of each running job | create, run, cancel, retry, remove, resume at start | Hugging Face, SQLite, disk |
| `internal/benchmark` | run rows, results, the running jobs | create, run, cancel, delete, reconcile at start | scheduler (leases of its own), its own processes |
| `internal/gateway` | registry of requests that can be cancelled, gauges | proxy, cancel by upstream ID, stored responses | lifecycle, observability |
| `internal/observability` | buffer of request records, ID index, sampler baselines | begin, update, end, flush in batches, delete, sample | SQLite, supervisor events |
| `internal/instances` | rows, the hot cache with generations | create, update, duplicate, delete, look up | SQLite; tells LiteLLM |
| `internal/models`, `modelimports` | rows, files, the GGUF index, import rows | discover, fill metadata, delete with files; prepare, reconcile, clean up | SQLite, disk, downloads, instances |
| `internal/auth`, `security` | users, sessions, keys and their cache, tickets, providers, sign-ins under way, failure tables | login, change, reset, revoke; create, rotate, authenticate; sign in through a provider | SQLite, the providers |
| `internal/settings` | table, cached lifetime | GET, PUT of several keys | environment, auth |
| `internal/litellm` | secrets, the managed account and key, the proxy's model list | connect, reconcile, rotate, disconnect | the proxy, auth, instances |
| `internal/telemetry`, `hardware`, `recommendations`, `ggufmeta` | latest samples | probe, estimate, sample | nvidia-smi, /proc, GGUF files |
| `internal/llamacpp`, `llamaconfig`, `slots` | profiles of binaries, option rows | parse help, merge options | SQLite, disk |
| `internal/api`, `openapi`, `huggingface` | none | HTTP handlers, client | all services |
| `internal/systemlog` | ring of log entries, channels of the viewers | add, snapshot, subscribe, stream | all; the API serves its streams |
| `internal/config`, `database`, `buildinfo`, `frontend`, `resourceid` | configuration, migrations | support | all |
| `cmd/llamarack`, `frontend/app` (Nuxt) | none the manager depends on | wiring, pages | all |

How a request runs: `Acquire` counts it as pending, waits until no drain is
under way, looks for a ready endpoint, and otherwise joins the one load of the
instance. The load takes the operation gate, draws a startup generation, gives
the gate back, and plans: the ledger grants a pending lease, perhaps after
stopping other instances. The supervisor starts the process and polls its
health. If the generation is still live the lease is committed and the worker
tracked; when the worker exits, the supervisor's reaper calls back and the
lease is released. Around that, the gateway keeps a record of the request that
moves from its registry to the write-back buffer and from there to the tables,
and can be found and cancelled by the worker's own ID on the way.

What is hard in it:

* *Interleaving.* The gate is free during a start, so a stop, a kill, another
  start or an eviction arrives at any point of it. Startup generations and
  cancelled contexts tell a start that it is out of date; every step between
  two of those checks may act on somebody else's worker or lease.
* *Things looked up by instance ID.* `Kill`, `setState`, `ReleaseInstance`,
  `CommitInstance` and the deletion of a runtime row name an instance, not a
  worker or a lease. Between two of them the instance may have moved on.
* *Signals.* Waiters wait for a worker's `done` channel or an instance's drain
  channel; each must be closed on every path.
* *Two books.* The ledger and the supervisor's map must agree on what runs; the
  same holds of the hot cache, the key cache, the GGUF index, the write-back
  buffer and the proxy's model list against the tables and files they copy.
* *Many statements, no transaction.* Imports, rotations, settings and sign-ins
  are sequences of statements that may stop, or be overtaken, between any two.
* *Time.* Leases, tickets and lockouts expire, starts back off, stops escalate.
* *Crashes.* A restarted manager must recognise the workers of the last one,
  resume its downloads and close its benchmark runs.

What makes each component correct:

* ledger: no memory promised twice; a victim credited to one start at a time;
  the three maps consistent through replacement, expiry and release;
* launch planning: a launch goes ahead only with memory that is there; nobody
  is stopped for nothing; what the user fixed stays fixed;
* supervisor: an exit is never hidden; a replaced worker never serves; a
  running worker keeps its runtime row; after a crash only its own orphans are
  signalled and an instance never has two processes;
* lifecycle: one process per instance; requests counted exactly; a busy worker
  is never stopped for idleness or eviction; a ready worker holds a lease and a
  dead one none; a user's stop sticks; every request ends; the gate is freed;
* downloads and benchmarks: a file under its final name is whole; a cancelled
  job starts again only by a retry; a process runs on a lease; an outcome is
  final; a crash leaves nothing that looks as if it went on;
* gateway and write-back: every accepted record reaches the tables once;
  registry, index and gauges agree with the requests under way; what is
  recorded of a stream does not depend on how it was cut into chunks;
* system log: the ring has the newest entries, a viewer gets each once;
* accounts and keys: nothing granted on a row older than an answered change;
  an old password does not come back; one provider that works while local login
  is off; a state, a code, a ticket is used once;
* imports, instances, catalogue, files: rows linked, copies as fresh as what they
  are told allows, nothing of another's touched, a row gone only after its files.

`PROJECT.json` lists the hazards at their lines with the properties that cover
them.

## Modules

| module | models | cut into steps where |
|---|---|---|
| `Memory` | what of a device is free and usable (`reservation.go`, `placement.go`) | operators only |
| `Ledger` | `scheduler/reservation.go` with the ladder of `runtime_plan.go` | each operation runs under `Ledger.mu` and is one action |
| `Reservations` | what the ledger promises its owners | abstract specification |
| `Planning` | `scheduler/{demand,placement,runtime_plan,eviction}.go` and the loop of `lifecycle/runtime_launch.go` | the launch reads a snapshot, claims, stops a victim |
| `Supervisor` | `supervisor/{supervisor,start,control,kill}.go` for one instance | `Supervisor.mu` is unlocked, or the code blocks |
| `Recovery` | `supervisor/{reconcile,runtime_store,proc}.go`, `lifecycle/startup_reconcile.go` | a manager may crash: between writes, scans and signals |
| `Lifecycle` | `lifecycle/{service,pending,start_failure,runtime_launch}.go` for one instance; EXTENDS `Supervisor` and composes its operations | another goroutine can interfere in a way that matters |
| `Downloads` | `downloads/{manager,temp,events}.go` | every statement, read, rename and removal |
| `Benchmarks` | `benchmark/{service,runner,store_sql}.go` with the ledger's part | every write, process step and lock |
| `Gateway` | `gateway/*.go` and `observability/{writeback,correlation}.go` | the registry's, buffer's and database's sections |
| `TokenUsage` | the reading of usage and tool calls in `gateway/metrics.go` | chunks of a streamed answer |
| `SystemLog` | `systemlog/systemlog.go`, `api/system_logs.go` | `Store.mu`, channel operations |
| `Feed` | `supervisor/runtime_events.go`, `lifecycle/runtime_events.go`, `observability/sampler.go` | channel operations and locks |
| `KeyAccess` | `auth/{api_keys,api_keys_cache,service_accounts}.go` | queries and cache sections |
| `Accounts` | `auth/{users,bearer,sessions,passwords,password_work,login_credentials}.go` | transactions, waits for the connection and the gate |
| `Tickets`, `LoginLimit` | tickets of `auth/bearer.go`; `security/security.go` | mutex sections and time |
| `Providers`, `Sso` | configuration and sign-in of `auth/oidc*.go`, `api/oidc.go` | statements and network calls |
| `Settings` | `settings/*.go` and the handler of `api/admin.go` | one key at a time, as it stores them |
| `Imports` | `modelimports/*.go` | every statement |
| `Instances` | `instances/{service,hot_cache}.go` | the query, the commit and the section of the cache |
| `Catalog` | `litellm/*.go` with the hidden account and key | every call of the proxy and statement |
| `ModelFiles`, `Discovery` | `models/delete_files.go`, `api/model_delete.go`; `models/{discovery,gguf_index,metadata,logical_artifact}.go` | checks, unlinks, reads of a file |
| `RecordsBase`, `AccessRecords`, `ModelRecords` | the constants and variables the records share, and the instances of the components | no actions of their own |
| `Sums` | | laws of sums over finite sets, for the ledger and the downloads |
| `LedgerProofs`, `RequestProofs` | | theorems about the module they extend; `RequestProofs` begins with the supervisor |
| `RestartProofs` | | theorems about `Recovery`, `Benchmarks` and `Downloads`, one section each |
| `ServicesProofs` | | what `RestartProofs` says of `MCServices`, and the rows of its gateway |
| `AccessProofs`, `ModelProofs` | | the invariants of the keys and of the eleven components of the records |
| `RecordsProofs` | | what these say of `MCRecords` |
| `MCLedger`, `MCSupervisor`, `MCLifecycle`, `MCGateway` | | small instances of one module |
| `MCServices`, `MCRecords`, `MCRequests`, `MCReconcilers`, `MCEnds` | | several components, or several casts of actors, side by side |

**Ledger.** `leases`, `byOwner`, `claimed` are the maps of the struct and
`nextId` stands for `newLeaseID`, which never repeats. The sweep every call
starts with, the release of the owner's previous lease, the credits, the
snapshot adjusted by pending and committed leases, the placement and the grant
are one action, as in the code. A committed lease has no expiry; a pending one
counts down in `Tick`, and `-1` is "past it". Memory is counted in small units
of nothing in particular. The planner's search is an input here: a request
carries the ladder of demands `PlanRuntime` would try in order. Manual placement
splits a demand evenly; `FreeHost` keeps the code's special case of a host whose
memory is entirely unknown.

**Reservations** forgets IDs, clocks, indexes and amounts: an owner holds
nothing, something pending or something committed, and a victim is credited to
at most one of them. `Ledger!Promises` maps the tables to that.

**Planning.** A *scene* is what a launch finds: a model, the options the user
set, the other workers with what they really use, what their leases say and
what the snapshot shows of them. `PlanRuntime`'s search, the estimate, the
attribution of device memory, the ranking and the covering set are operators;
`PlanStep` is the loop that looks, plans, ranks, considers victims one by one,
claims, evicts and plans again, while `Change` lets requests come to victims,
victims disappear, and other programs take memory.

**Supervisor.** `current` is `workers[id]`; `worker[w]` is the struct of the
w-th worker, which outlives its place in the map because running calls and the
reaper keep pointers to it (`done` is the closed channel, `cancelled` the
`startCancel` of its readiness wait). `proc[w]` and `sigkill` are the operating
system's side. `call[t]` is the program counter of caller `t` inside `Start` or
`Stop` and the worker it holds. `reaper[w]` is the goroutine `wait(w)` and
`clearRuntimeRecord`; `record` is the persisted row.

**Recovery.** Every process ever started has a number that grows with its start
time: its start ticks, and for a worker its generation. PIDs are few and are
used again by strangers and by new workers. `Crash` may come between starting a
process and writing its row, or at any other step; the next manager scans
`/proc`, handles the processes it can prove to be its own, then the rows, and
only then opens the barrier `waitStartupReady` waits at. `Recycles = FALSE`
excludes one thing only: a PID that changes hands between the reading of its
identity and the signal that follows, which user space cannot exclude.

**Lifecycle.** A *thread* is a request, a user's operation, the load goroutine,
or one of the manager's tasks; `at[t]` is its place. Reads that commute are
merged, and so are the takings of `Service.mu` around them. `drain` is
`drainWaits[id] != nil`; `gate` the holder of `operationGates[id]`; `startup`
the thread whose generation is current and cancellable (an older one is not
live, and its context is in `ctxDone`); `loading` is `loads[id] != nil`;
`manual`, `blocked`, `backoff` the three flags; `demand` the activity; `lease`
the entry of this instance in the ledger (`CommitInstance`, `ReleaseInstance`
and `Release` by ID as `Ledger` has them); `tracked` is `committedWorkers[id]`.
The other instances appear as what they do to this one: `Plan` may be refused
for lack of memory, or may grant twice as it does when another instance is
evicted in between, and the *evictor* thread is the start of another instance
that chose this one as its victim. Because an eviction runs under the context of
that start, its context may end.

**Downloads.** Jobs for one artifact of two files. A file's content is the
sequence of its units, each tagged with the version of the remote file it was
read from, so that a resumed transfer that mixes versions shows. `offer` says
whether sizes are announced and what the ceiling is; `run[j]` is the goroutine
`launch` registered in `cancels`; `request` the API calls, with the slot a retry
waits for. `Shutdown` stops the manager at any step and `ResumePending` starts
what the rows say. `missed` remembers the two legal ways in which a launch comes
to nothing. `MidChange = FALSE` leaves out a remote file that changes between a
HEAD and its GET. A removal deletes the partial files at once
(`downloads/events.go:85-89` goes through them one by one).

**Benchmarks.** `bench` holds the rows, `hold` the leases of the runs (pending,
committed, none), `stage` the goroutine `runJob`, `proc` the `llama-bench`
processes. Writes may fail, the manager may stop in order or crash, and
`ReconcileInterrupted` closes what the last one left.

**Gateway.** A request's record is created, updated when a worker answers, and
closed. `registered` and `upstream` are the two maps of `active.go`; `entry`,
`listed`, `index` are the buffer's; `flight[f]` is what flusher `f` (the ticker,
or the one at exit) has taken and not settled. Transactions may fail, or fail
for good for one row.

**TokenUsage.** A body is a sequence of symbols: newline, space, the prefix of
an event, and two JSON objects. `Feed` is one `Read` of any length, `Finish` the
end of the stream; `ParseUsage` is the parser of whole bodies, against which the
collector is compared.

**SystemLog.** An entry is its place in the `history`; `data`, `offset`, `full`
are the ring, `viewer[v]` a stream with its channel, what it was sent and what
the channel dropped.

**Feed.** A subscriber's events pass the bus, the forwarder (`hand`) and the
wrapped channel (`pipe`); `view` is what it makes of them. `pushed` and
`outdated` name the two losses the code accepts. The sampler's `scrape`, `base`
and `rate` carry process numbers instead of token rates; what a process counts
goes up by `Generate`, and a rate is derived when it did since the baseline.

**KeyAccess.** Every change of a key or its owner is numbered, a copied row
carries the number it shows (`ver`), and `settled` is the last change whose
caller has emptied the cache. A copy waits in `caller[c]` between the query and
the cache. `generation` is the cache's.

**Accounts.** `conn` is the one connection of the SQLite pool, `admitted` and
`active` the gate of `password_work.go`; a password is the number of the request
that chose it, which makes "the old one came back" visible. **Tickets**: a
ticket is the number of its expiry. **LoginLimit**: counts, lockouts and delays
of two bounded tables in coarse time. **Providers**: a configuration is a number
that grows with each relevant edit, and a test stores its result for the one it
probed; `Patient` keeps others from editing a provider before its creation was
answered. **Sso**: states, callbacks between network calls and transactions,
exchange codes on the `shelf`, users and links that change underneath.

**Settings.** A PUT is vetted as a whole and stored key by key, the Prometheus
token first, and may fail between two keys; the lifetime is told to the auth
service after it is stored. Environment, table and default resolve as in the
code. `crossed` notes that a lifetime was stored while another request had yet to
tell of its own: the two may then tell in the other order, and the older one stays
in use. `LifetimeTold` says nothing from there to the next lifetime that is
stored without such a crossing.

**Imports.** `call[r]` is a request at one of its statements, `pass[p]` a pass of
the reconciler with the snapshot it listed, `clean` the removal of a job. Rows
are linked by ID and foreign keys cascade as the schema says. Every statement of a
request may fail, those of its undo too, as they run with the same context and
their errors are discarded (`modelimports/service.go:135,142-144,151-153`): a
request ends `"failed"` when its undo went through and `"left"` when it did not, and
then instance and model may stay. A pass and a clean-up may break off
(`BreakOff`, `CleanFails`). Users delete rows and files, register models and PUT
instances; a PUT enables unless it says otherwise
(`instances/service.go:373`), also while the import still loads, and `asked`
remembers that it was a user. `edits` bounds them.

**Instances.** `row` is the table, `byID`, `slugTo`, `gen` the cache; a writer
commits and tells the cache in two steps, a reader queries and remembers in two.
Two writers go past the cache: the deletion of a model (`DropWithModel`, noted in
`dropped`), and the pass over the imports that sets `enabled` by a statement of its
own (`Reenable`, noted in `lapsed`), followed by `NotifyChange` only when the
pass has claimed the completion.

**Catalog.** `remote` is the proxy's list, of which the manager owns some rows;
`stored` the secret it keeps, `accounts` the hidden account and keys; `sync`,
`holder` the pass under `reconcileMu`, `due` the notifications not yet handled.
Instances change with a notification (`Edit`) or without (`Unannounced`: a
model is deleted, an import completes or is enabled again). Every statement and
call to the proxy may fail, as it does when the request's client has left, and
what was done before stays done: a rotation may give the key a new hash and not
store its secret (`StoreFails`), a pass may end without writing its result
(`LeavesNoResult`), a disconnect may stop half-way (`LeaveFails`). `slips` notes
what went wrong until a later step makes it good, and `mixed` that two secrets
were under way at once or a disconnect overlapped or failed. An instance is `on`
when it is enabled and no import of it is still loading (`litellm/service.go:420`).
`Masks = FALSE`: a proxy that hides keys makes the comparison of keys vacuous (see
Findings).

**ModelFiles, Discovery.** Paths and the files they lead to are distinct, some
through links. A deletion works out its targets, stops the instances, works them
out again and unlinks one by one. A scan fingerprints, reads and stores; files
change between any two of these.

Definitions with the comment "Faulty ..." are variants of the action or helper
below them with a plausible mistake (a dropped guard, a missing reset); no
specification uses them, and `PROJECT.json` pairs each with the property that
notices it when it takes the place of the correct one.

## Runs

| run | what acts | shows |
|---|---|---|
| `ledger` | 3 instances and a benchmark on 2 devices, 4 leases that may expire; one kind of manual request | `NoOvercommit`, `OwnerIndex`, `ClaimsBacked`; by steps `ReplacesOnlyOwn`, `OneReleasePerCall`, `ClaimExclusive`; the refinement `KeepsPromises` |
| `services` | the components listed below, one in focus | `ExitsShow`, `ReplacedNeverReady` and the composed properties below |
| `records` | the components listed below, one in focus | `KeysFresh` and the composed properties below |
| `requests` | one instance under four casts: 3 requests with a queue limit, idle unloading and eviction (`on_demand`); two users who start, stop and kill (`users`), or one of them and a request (`visit`), both with a runtime store; two users who restart and stop (`restarts`); users may disconnect, leases expire | `Counted`, `Leased`, `BusySpared` (`on_demand`), `NothingLeft` (the others), `Handover` (`restarts`) |
| `reconcilers` | an always-on instance under three casts: keeper, unblocker and evictor without hardware snapshots (`tended`); keeper and evictor with leases (`leased`); a user, a request and the keeper (`suppressed`) | `NothingLeft`, `StopSticks` |
| `ends` | the lifecycle and eight other components, one in focus, under fairness | `RequestsEnd`, `GateFreed`, `ServicesEnd` |
| `restart_stray`, `stop_counted`, `idle_busy`, `record_kept`, `retry_cancelled`, `completed_found` | see [Findings](#findings) | each refutes one statement of the documents or tests |

The composed properties have one part per component; the part is named and
explained in the component's module.

| property | focus | parts |
|---|---|---|
| `RecoverySafe` | recovery | `InnocentSpared`: no signal to what took over a PID; `OrphansBlocked`: a left-over worker blocks its instance; `NoTwin`: no second process |
| `DownloadsSafe` | downloads | `FinalIntact`, `CompletedHasFiles`, `ActiveRuns`, `WithinLimit` |
| `BenchmarksSafe` | benchmarks | `ProcessCovered`, `LeaseOwned`, `ResultsMatch`, `RowsTended` |
| `GatewaySafe` | gateway | `NothingLost`, `CountedOnce`, `ExitFlushed`, `UniqueIds`, `RegistryMatches`, `IndexMatches`, `GaugesExact` |
| | usage | `ChunksAgree` |
| `FeedRight` | feed | `SeenRight`, `OnlyOthersPush`, `RateOfOne` |
| | log | `RingNewest`, `StreamExact` |
| `PlansHold`, `OccupiedSpared` | planning | `LaunchFits`, `NotInVain`, `VictimsUseful`, `PolicyKept`, `NoInventedSpill`, `SearchExact`, `AttributionSound` |
| `NothingUndone` (steps) | four of them | `TraceKept`, `CancelHolds`, `OutcomeFinal`, `DeletedSticks` |
| `KeysFresh` | keys | `CacheFresh`, `AuthFresh`, `CacheAgrees` |
| `AccountsSafe` | accounts, limit | `SomeoneEnabled`, `BootstrapAlone`, `PasswordForward`, `SessionsCurrent`, `GateExact`; `TablesBounded` |
| `TicketsSafe` | tickets | `TicketOnce`, `TicketsBounded` |
| `SignOnSafe` | providers, sso | `TestedCurrent`; `SignInOnce`, `NoStrayUser` |
| `SettingsRight` | settings | `LifetimeTold` |
| `ImportsRight` | imports | `RowsLinked`, `EnabledWhenDone`, `FailedLeavesNothing`, `ToldIfSmooth` |
| `InstancesRight` | instances, discovery, files | `HotFresh`, `SlugLeads`; `IndexRight`, `OfferRight`; `DirsKept` |
| `CatalogSafe` | catalog | `CatalogRight`, `StoredWorks`, `NothingLeft`, `Republished` |
| `StepsKeep` (steps) | nine of them | `PaysItself`, `OnlyTestsLockOut`, `LockHolds`, `SlowHolds`, `VettedAsWhole`, `CleanupOwnModel`, `LeftOutKept`, `OthersKept`, `OthersFilesKept`, `RowLast`, `GivenKept` |
| `Counted`, `Leased`, `NothingLeft`, `Handover` | casts of the lifecycle | `Accounted`; `ReadyIsLeased`, `StartIsLeased`; `OneProcess`, `NoLeaseLeft`, `ExitsSignalled`; `DrainOwned`, `ExitsSignalled` |
| `ServicesEnd` (liveness) | all but the lifecycle | `BarrierOpens`, `RetryAnswered`, `JobEnds`, `AuthEnds`, `FlowEnds`, `PolicyEnds`, `Registered`, `Filled` |

**Why side by side.** The components of `services`, `records` and `ends` share
no variable, and none calls another in a way their modules do not already
contain, so their joint behaviours are interleavings of their own ones; a
property of one component holds of those exactly when it holds of its own. A
behaviour therefore runs one component, named by `focus`, and the others stay
as they started. The variables `s1`, `s2`, ... are those of the component in
focus. `cast` does the same for `Lifecycle` with different actors: one run with
all of them at once is out of reach, and a property is checked in each cast in
which a different actor could break it and where it holds. Those that do not
hold with some actor are named under Findings; they are why `Leased` is checked
for the first cast and `OneProcess` is not for every cast. What *does*
interact is composed inside a module: `Lifecycle` with `Supervisor`'s steps and
a lease, `Benchmarks` with leases, `Planning` with leases and snapshots,
`Gateway` with the write-back, `Catalog` with accounts, keys and instances,
`Imports` with downloads and instances, `ModelFiles` with creations and
downloads.

`TypesOK` and `TypeOK` are the type invariants, checked in one run per module.

## Bounds, fairness, deadlock

* **Ledger.** Four leases are enough for a start, its re-grant with credits, a
  competitor for the same victim and a benchmark. The amounts are chosen so that
  a request fits one device, only both, only with a fallback to host RAM, only
  with a credit, or not at all, on an idle and on a full host. `TTL = 0`: a lease
  is in force when granted and expired one tick later; `MaxBytes` bounds every
  amount, the shares of a grant included. `MaxLeases` bounds `nextId` in
  the guards of the two acquisitions.
* **Supervisor, Lifecycle.** `MaxWorkers = 2`: the hazards are a worker against
  the one that replaced it. A third start blocks instead of happening, which
  cuts behaviours off and hides none of the shorter ones. Lease IDs come from
  1..3 and one that nothing refers to is used again, so the instance, the
  tracked worker and a new grant always have distinct ones. At most one
  reconciler pass of each kind is under way, and one start by the unblocker: two
  of those are the subject of `retry_cancelled`. `maxEvictionPlanAttempts`
  re-grants are represented by one.
* **Other services.** Recovery: 2 instances, 2 PIDs, 3 processes, 2 crashes, so
  that a PID is used again and a reconciliation is itself interrupted.
  Downloads: one job of two files of two units, two remote versions, one stop,
  a request that creates or retries and one that cancels or removes. Benchmarks:
  2 runs, a failing write, one restart. Gateway: 2 requests that may be given
  the same upstream ID, a buffer of 2 written one by one, 2 failing
  transactions. Feed: 2 instances, a bus of 2 and a pipe of 1, so that both
  overflow; a process counts one when it is loaded and one more later
  (`TokenLimit = 2`), so that a rate can be derived of it, and a second process
  starts below what the first had come to. Planning: 2 devices, 2 other workers of
  five kinds, models that fit whole, with experts or layers in RAM, or not at all;
  one change of the world between looking and launching, 2 attempts (the code has
  more; what a third would do it has done in the second).
* **Records.** Two of everything that races (editors, flows, callbacks,
  putters, writers, deleters) and enough IDs for one to be used again;
  `EditLimit`, `PutLimit`, `WriteLimit`, `StepLimit`, `ChangeLimit`,
  `ConfigLimit`, `PwLimit`, `SecretLimit`, `AskLimit`, `TicketLimit` and
  `Horizon` bound what would otherwise go on, each in the guard of the action
  that counts it. Tables that fill up have room for one or two entries;
  there are four tickets for a limit of three in all and two per session, so that
  both limits make room. The
  settings are one sensitive key that a variable may override, one operational
  key that is overridden, and the life of tokens; the data's other shapes (two
  people of whom one has two names, nested directories, a link, a set of two
  files) are named in `MCRecords` after what they are. Imports are two requests
  that ask for one slug, each undone, retried or completed, with the reconciler's
  loop and their own passes; `ImpEdits` bounds requests, users' changes, retries,
  removals and broken-off passes together, while the requests' own statements may
  fail at any time. The LiteLLM proxy sees two secrets, so that a rotation
  replaces the one that was published; `CatEdits` bounds changes of instances and
  errors together, `CatAsks` requests and restarts.
* **Abstracted time.** The startup timeout, the 15 s of a stop, the 2 s of an
  aborted start, the backoff, the idle timeout and the lease's life may each
  pass at any moment, or never.
* **Runtime store.** `Persistent` is TRUE in the casts `users` and `visit` of
  `requests`, where a failing write of the row is one more failed start, and in
  `record_kept`; the other runs of the supervisor and the lifecycle have no
  store.
* **Symmetry** permutes interchangeable identities in the safety runs; `ends`
  has none.
* **Fairness** (`FairSpec` of `Lifecycle`, the specification of each other
  module, gathered in `MCFairness`). Goroutines that can run do run, a process
  that was sent SIGKILL dies, and an exit is reaped; the 15 s timer of a stop is
  part of its goroutine. Nothing is assumed of users, of contexts, of a server
  becoming healthy, of time passing, or of a process ending by itself. The
  readiness wait is fair because it ends by its timeout. The idle and eviction
  threads must finish what they began and need not begin. Network calls of
  providers and downloads return, as their clients have timeouts. Strong
  fairness is assumed in two places: those who wait for the one database
  connection (`Accounts`) get it in the order they asked, as `database/sql`
  queues them, and those who wait for `policyMu` (`Providers`) get it as Go's
  mutex hands over to a waiter that starves. Completed downloads become models
  only with `imp_smooth` (no job is retried, no file lost, no instance moved to
  another model) and with one edit in all, which the import takes
  (`EditLimit = 1`): users and errors can make every pass fail, see below.
* **Deadlock.** The runs over several components, and all of the lifecycle's,
  disable TLC's deadlock check: requests, edits and users are finite and the
  system rests when they are done. That it rests only then is what the liveness
  properties say. The ledger never stops, nor does the supervisor in
  `record_kept`: there the check is on.

## Findings

Each run below is expected to be violated. TLC's trace is the scenario.

1. **A restart loses a newer worker** (`restart_stray`, `RestHasOneProcess`;
   `supervisor/start.go:73`). A start that fails calls `setState(id, Failed)`,
   which marks whatever worker is current by then. If its own worker exited and
   a load replaced it, the newer one is shown as FAILED, its start gives up
   without killing it, and its process keeps running without a lease.
2. **A stop counted as a start failure** (`stop_counted`, `InterruptsForgiven`;
   `lifecycle/service.go:1135`). `claimDrain` runs before the stop cancels the
   startup. A stop that drains the worker just after it became ready makes the
   start's `Endpoint` check fail with an ordinary error, and the instance is put
   into backoff. The specification says a user's stop does not count.
3. **Idle unloading stops a busy worker** (`idle_busy`, `BusySpared`;
   `lifecycle/service.go:586`). After its claim the reconciler calls
   `StopInstance`, which does not look at the activity again. A user's stop in
   between ends the claim, requests load and use a new worker, and the idle stop
   takes it down.
4. **A newer worker's row is deleted** (`record_kept`, `RecordKept`;
   `supervisor/control.go:219`). `clearRuntimeRecord` compares the generation in
   one query and deletes by instance ID in another.
5. **The unblocker cancels itself** (`retry_cancelled`, `OneStartup`;
   `lifecycle/service.go:505`). Each tick launches the start of an instance that
   is still resource-blocked in a goroutine of its own, whether or not the last
   tick's is still under way. The newer one's `beginStartup` cancels the older
   one's, so a start that takes longer than a tick is begun again and again.
   It does not look at the start's backoff either.
6. **A completed response is not found** (`completed_found`, `CompletedFound`;
   `observability/writeback.go:431`). A flush takes final entries out of the
   buffer before it writes them. Between the two the response is in neither
   place, and its owner is told that it does not exist.

Met while modelling, of the same kind and without a run of their own:

* killing an instance that is not loaded registers no drain, gives the gate
  back, and then releases the lease by instance (`service.go:307`): it may be
  the pending lease of a start that began in between, and `StartIsLeased` fails
  as soon as users kill;
* a stop may never return: a stale start marks a stopping worker as failed, a
  load replaces it in the map, and the reaper drops the exit without closing
  `done` (`control.go:133`), which `Stop` awaits while it holds the gate.
  `ExitsSignalled` fails when a restart, a stop and a request meet without
  hardware snapshots;
* the resource-block reconciler's start, overtaken by a load, releases in its
  deferred end the lease of the load (`service.go:1035`), which is why
  `StartIsLeased` is not among the properties of the reconcilers' casts;
* an eviction whose context ends while the victim's own load is at its endpoint
  check aborts the drain and can leave a ready worker whose start has failed and
  given up its lease;
* a kill whose context ends stops waiting for the exit, and lets requests in
  while the process is still dying;
* a request that waits in `admitRequest` for a worker that is then replaced waits
  for its own context, for the same reason as that stop;
* `Supervisor.Shutdown` (`control.go:118`) sets no flag, so a start that is under
  way may register a worker after it has listed those to stop;
* the lease's life and the startup timeout are both 180 s, so the lease of a slow
  start may be swept just before its commit, which then silently commits nothing;
* a download cancelled between its last file and the final update is overwritten
  by COMPLETED (`downloads/manager.go:319`): its files are all there, which is
  what `CancelHolds` and `CompletedHasFiles` say of it;
* `llama-bench` runs in a process group of its own (`benchmark/runner.go:64`) and
  survives a crash of the manager without a lease; nothing looks for it, and
  `ProcessCovered` speaks of processes of the present manager;
* deleting a model deletes its instances by cascade and tells neither the hot cache
  nor the LiteLLM service (`models/service.go:318`, `api/model_delete.go:16-50`);
* between `StopModel` and the deletion of the model's row nothing keeps a request
  from loading the instance again (`api/model_delete.go:35`);
* settings: of two PUTs that each store a lifetime before the other has told of its
  own, the first to store may be the last to tell, and the auth service then uses
  another lifetime than the stored one until the next change or restart
  (`api/admin.go:449-459`);
* imports: each pass enables again an instance a user disabled since its download
  completed (`modelimports/service.go:285`), and only the first of them tells the
  hot cache (`:296-298`), so the table says enabled and the cache disabled until
  the next change (`instances/hot_cache_test.go:110-127` shows such a statement
  to leave the entry stale); a failed import is undone with its request's context
  and the errors of that are discarded (`:135,142-144,151-153`), so one whose client
  has left keeps its model and instance; a PUT that does not say otherwise enables
  an instance that is still downloading (`instances/service.go:373`); an import
  whose model was deleted has a NULL `model_id` and fails in every pass (`:247`);
  a pass that works on a list read earlier may write DOWNLOADING over COMPLETED
  (`:307`);
* LiteLLM: a rotation that breaks off between the key's new hash and the store of
  its secret (`auth/api_keys.go:310-326`, `litellm/service.go:185-191`) leaves a
  stored secret that does not authenticate, and as it is there no pass replaces it
  (`:376-381`), only another rotation does; a pass that fails because its context
  ended cannot write that down (`:338`), and the last result stays "ok"; a row is
  kept as it is when its slug now belongs to another instance
  (`litellm/service.go:255`), and a proxy that masks keys when it lists rows
  (`client.go:219`) keeps a rotated key from being noticed;
* runtime events: an overlay read before a transition may be published after it,
  and a full bus drops its oldest event, so a subscriber may keep a state that
  is not the last (`runtime_events.go:81`). `SeenRight` excludes exactly these. A
  scrape that is answered by the process after the one it was begun for is
  recorded under the old PID (`observability/sampler.go:237`), and a rate derived
  from it is of two; `RateOfOne` speaks of the others.

## Proofs

All theorems are proved for every value of the constants under the named
assumptions of the modules, and under the hypotheses the table names.

| module | theorem | property |
|---|---|---|
| `LedgerProofs` | `Inductive` | `[]IInv` |
| | `TypeCorrect` | `[]TypeOK` |
| | `OwnerIndexed` | `[]OwnerIndex` |
| | `ClaimsAreBacked` | `[]ClaimsBacked` |
| | `AcquireReplacesOnlyOwn` | `ReplacesOnlyOwn` |
| | `CallsReleaseOne` | `OneReleasePerCall` |
| | `ClaimsAreExclusive` | `ClaimExclusive` |
| | `NeverOvercommitted` | `[]NoOvercommit` |
| | `KeepsItsPromises` | `KeepsPromises`: `Ledger` implements `Reservations` |
| `RequestProofs` | `SupervisorInductive` | `[]SupInv` |
| | `SupervisorTyped` | `[]SupTypeOK` |
| | `ExitsAlwaysShow` | `[]ExitsShow` |
| | `ReplacedStaysOut` | `ReplacedNeverReady` |
| | `RequestsCounted` | `[]Accounted`, any mix of actors |
| | `ServiceTyped` | `[]LifeTypeOK`, any mix of actors |
| | `CountedHolds` | `[]Counted` |
| | `BusyWorkersSpared` | `BusySpared`, if `OnDemand` |
| | `ReadyLeased` | `[]Leased`, if `Undisturbed` |
| `RestartProofs` | `RecoveryInductive` | `[]RecInv` |
| | `StrangersSpared` | `[]InnocentSpared`, if not `Recycles` |
| | `NoTwins` | `[](OrphansBlocked /\ NoTwin)` |
| | `TraceNeverLost` | `[][TraceKept]` |
| | `BenchInductive` | `[]BenchInv` |
| | `RunsSafe` | `[]` of the four parts of `BenchmarksSafe` |
| | `OutcomesStay` | `[][OutcomeFinal]` |
| | `DownloadsRight` | `[]` of the parts of `DownloadsSafe`: `FinalIntact` if not `MidChange`, `WithinLimit` if there is one job |
| | `CancelsHold` | `[][CancelHolds]` |
| `ServicesProofs` | `RecoveryHolds` | `[]RecoverySafe` |
| | `BenchmarksHold` | `[]BenchmarksSafe` |
| | `DownloadsHold` | `[]DownloadsSafe` |
| | `RowsInOrder` | `[]` of `UniqueIds` and `CountedOnce`, two parts of `GatewaySafe` |
| | `NothingIsUndone` | `NothingUndone` |
| `AccessProofs` | `KeysTyped` | `[]KeyTypeOK` |
| | `CacheNeverStale` | `[]KeysFresh` |
| `RecordsProofs` | `KeysStayFresh` | `[]KeysFresh`, of the records |
| | `AccountsKept` | `[]AccountsSafe` |
| | `ImportsKept` | `[]ImportsRight` |
| | `SettingsTold` | `[]SettingsRight` |
| | `SettingsWhole` | `VettedAsWhole` |
| | `TicketsOnce` | `[]TicketsSafe` |
| | `TicketsPay` | `PaysItself` |
| | `TestsLockOut` | `OnlyTestsLockOut` |
| | `SignOnHeld` | `[]SignOnSafe` |
| | `CachesAgree` | `[]InstancesRight` |
| | `InstancesKept` | `LeftOutKept` |
| | `ContextKept` | `GivenKept` |
| | `FilesSpared` | `OthersFilesKept` and `RowLast` |
| | `LockoutsLast` | `LockHolds` and `SlowHolds` |
| | `RowsOfOthersKept` | `OthersKept` |
| | `CatalogStands` | `[]` of `CatalogRight`, `StoredWorks`, `NothingLeft` |
| | `CatalogKept` | `[]CatalogSafe`, if not `Masks` |
| | `CleanupsSpare` | `CleanupOwnModel` |
| | `RecordsTyped` | `[]TypesOK`, all components together |
| | `StepsKept` | `StepsKeep`, the nine of them together |

*Ledger.* `LedgerAssumption`: instances and benchmarks are disjoint, bounds and
sizes are naturals, a request has a demand, and manual devices are distinct and not empty.
The argument is made about *tables*, the three maps as one value. Every
operation edits a table by `Drop` (releaseLocked over a set of leases) or `Grant`,
and `DropKeeps` and `GrantKeeps` show once that both keep a table *well formed*:
typed, indexed both ways, claims backed, and no lease at an ID not yet given
out. The last part is the strengthening: without it a grant could land on a
lease that exists, and `OwnerIndex` would not be inductive. `AcquireHasShape`
reduces both acquisitions to "drop, drop, perhaps grant", so that for these the
capacity arithmetic never enters. The three action properties follow from the invariant
and from what each action may remove (`AcquireSpares`, `OtherStepsSpare`).

*Capacity.* `NoOvercommit` is not inductive: a lease that is being displaced does
not count, and it counts again once the lease that displaces it is released. The
invariant `Room` says that every set of leases of which none displaces another
fits. A drop only takes sets away (`DropRoom`). A grant adds one lease: a set that
has it has none of the victims the request was credited with, the rest is what
`adjustSnapshot` took off the capacity before it placed the request
(`FreeOnRoom`, `FreeHostRoom`), and what a placement takes of a device is no more
than what it was shown to be free (`SharesFit`). What it needs of sums over sets of
leases is in `Sums`: the community module's fold takes the elements in the order of
`CHOOSE`, and the laws (a sum is bounded by that of a larger set, a disjoint union
adds up, larger terms give larger sums) are shown by taking a smallest set that
breaks one (`SmallestSet`), since an induction theorem with an operator for its
parameter cannot be instantiated.

*Refinement.* What a table says by owner is `HeldIn` and `CreditIn`. `DropSays`,
`DropOwnerSays` and `GrantSays` show what the two edits do to it: a drop frees
the owners of the dropped leases and what they were credited with, a grant gives
its owner a pending reservation and its credits. With `IInv` (an owner has one
lease, a claim has a lease behind it) each action then maps to a step of
`Reservations` or to a stutter: an acquisition to `Obtain` or `Refuse`, a commit
to `Confirm`, a release to `GiveUp`, a sweep to `Lapse`.

*Keys.* The cache alone is not inductive: a copy that was read before an edit
waits in a request of its own and may enter the cache after it was cleared. What
saves the code is the generation: `Remember` stores only if the generation it
noted before its query is still the cache's. The invariant `KeyInv` adds that
whoever still holds the present generation has a copy at least as new as
`settled` (`CallerRight`), that a cached copy is, too (`EntryRight`), and that a
copy, cached or on its way, whose number is the present one shows the row as it
is. `Numbered` and `Unnumbered` carry
both over every edit, `ClearKeeps` over the clearing, and one lemma per step
over an authentication.

*Supervisor.* A caller keeps its pointer to a worker while the map moves on, so
types and `ExitsShow` do not carry over a step by themselves: a caller past its
first step signals and marks the worker it holds. `SupInv` adds `HoldsWorker`, a
caller at work holds one. `ReplacedNeverReady` then comes from one fact,
`OnlyCurrentReadied`: whichever step brings a worker into service, it is the one
in the map, because `MarkReady` compares under the lock.

*Requests.* `Lifecycle` composes the supervisor's steps with its own, so
`SupKept` first shows that those keep `SupInv` when other threads take them.
`Typed` then holds for any actors whatever, and `Accounted` with it: each step
of a request moves at most that request in or out of the sets `Waiting` and
`Served` (`Recount`), and everybody else's steps leave both as they are
(`Elsewhere`), except for the end of a load, which wakes its waiters without
uncounting them. Proving this brought a fault of the model to light: two arms of
a `CASE` in `CompleteLoad` overlapped and TLC had always taken the first; they
are exclusive now, as in the code.

`BusyWorkersSpared` is about requests, idle unloading and evictions without
users (`OnDemand`), as with users the code does stop a busy worker (finding 3).
The invariant `BusyInv` is the argument for the drain: one claim at a time,
the drain is registered exactly while there is one, meanwhile nobody is inside
and the worker takes no requests, no load under way will start another, and the
claimant that stops has nothing in service left. `OneClaim`, `DrainHeld` and
`NoNewLoad` need each other: a claim is only taken of a worker in service, a
load that may still start one has none in service, and requests that come wait
for the drain before they load.

`ReadyLeased` needs more: `Undisturbed` adds that no context ends, that the
manager has hardware snapshots and that leases do not expire. None of that can be
dropped: with a cancellable evictor TLC finds a ready worker without a lease, an
expired lease is swept before its commit, and without snapshots there are no
leases at all. `LeaseInv` follows a lease from its grant: the load that is live
owns the pending lease with an ID that the tracked worker does not have, the
worker that its start returned is the one in the map, and from the commitment on
the lease is that of the tracked worker. The rest of it says why nobody else
releases it meanwhile: the startup is the load's own, a stop holds the gate and
has ended the startup before it releases anything, and an exit that is to be
reported was signalled.

*Recovery.* `RecoveryAssumption` only. That no stranger is signalled hangs on
what a PID, a number and an instance written down at one time still mean at
another. `RecInv` says it of every place where they are written down: a number
belongs to one process (`Distinct`), and every note of one, in the workers, the
rows, the list of the scan, the rows still to do and the target, stands for that
process or for none (`Traces`); a row to be handled is as it was read or was
cleared (`Current`); while no PID is used again, what has the noted PID is the noted
process (`Watched`). `NoTwin` is about the other direction: every worker left behind
is on the list or blocks its instance while the lists are worked on (`Covered`),
and once the barrier is open none runs beside the manager's own (`Settled`).
`Recycles` is a hypothesis of `StrangersSpared` alone.

*Benchmarks.* `BenchInv` says per run what its creation, its job and its row
hold at each of their steps (`MakingOK`, `JobOK`, `RowOK`), and that a manager
that is down has no goroutines (`Quiet`). It is inductive run by run: a step
changes one run, or all of them at a crash or a reconciliation. The order of
`runJob` is what carries it: the lease is committed before the row exists,
leaves only after the job is off the list, and `RUNNING` is written before the
process starts.

*Downloads.* `DlInv` says what the goroutine of a job holds at each of its steps
(`RunRight`): how long the partial file is it works on, and, where it completes
the job, that every file is there. `Tended` gives every job that shows as
active a goroutine that was not cancelled, or a launch still to come. That what
has its final name is of one version is `UnitsRight`: the units of a partial file
are of the version its row notes, that is the version asked for once the
transfer has begun, and what the server sends is of that version as long as no
file changes between its HEAD and its GET. Two jobs may work at the same final
files, so all of this is said per job, and a step of one is shown to leave what
is said of the others (`RightElsewhere`, `UnitsElsewhere`, `FinalsStay`).
`CancelHolds` follows from `RunRight`: the one step that takes a job out of
`CANCELLED` without a retry is the one that finds all files whole.

The ceiling is checked before a unit is read, against the lengths the rows note
and not against the files, so `WithinLimit` needs to know when the rows are
right. `LimitInv` says it for one job (`InOrder`): files come one after the
other, each is partial or final but not both, and those before the present
one are there, with their length in their row. A promoted file keeps its length,
so that only a read adds to the sum (`LimitKept`, with the laws of `Sums`). With two
jobs a row may be older than the file another job has just promoted, and
the ceiling is not claimed.

*From a module to the runs.* `MCServices` instantiates `Recovery`, `Benchmarks`
and `Downloads` with its own constants and shared variables. `ServicesProofs`
instantiates `RestartProofs`, which extends the three, the same way, shows their
assumptions of those constants, and shows that the instances say the same
(`SameRecovery`, `SameBenchmarks`, `SameDownloads`, `SameSiblings`). While another
component is in focus nothing is claimed; `focus` never changes.

*Rows of the gateway.* A transaction writes a batch, one entry after the other, on a
table that the entries before may have changed: a fold, in an order nobody knows.
Its recursion defines a table for every finite batch (`TablesExist`, the
argument of `Sums` again). What one entry does to a table (`AfterKeeps`) is to
make the row of its request, to take an ID only if no other row has it, and to
keep what is deleted; a smallest batch that does anything else cannot exist
(`TableKeeps`). `InOrder`, that the rows have the fields of rows, no ID twice,
and counters that agree with them, is then inductive by itself. Of
`GatewayAssumption` it takes that requests are finite. It is proved in
`ServicesProofs`, for the instance of `MCServices`, whose batches are of one entry,
but no step uses how large a batch is.

*What is not undone.* `NothingUndone` has four parts: `TraceStays`, `CancelStands`
and `OutcomeStays` of `RestartProofs`, and `DeletedSticks`, which comes with
the rows of the gateway (`RowsStay`).

*Records.* `AccessProofs` and `ModelProofs` have one section per component: its
invariant and its steps, in the names it has for its constants and variables.
`RecordsProofs` says what follows for `RecordsSpec`. The sections are apart from
`MCRecords`, and the ones about access from the ones about models, because the
prover's work on an obligation grows with the instances in scope.
`focus` never changes, and nothing is claimed of a component
while another is in focus. What shapes the data (the keys and their order, the
people and their names, the paths and which links to which, the parents, the
models and their files, the imports' requests, all bounds) is a constant of
`AccessRecords` or `ModelRecords`, so the theorems hold for all of it that meets
the components' assumptions.

* `Settings`: `LifetimeTold` compares what the service works with to what the
  table and the environment resolve to, while a put stores one key after the
  other. `SetInv` adds that whatever is stored was vetted as a whole, with a user
  behind it where one is needed (`StoresVetted`, `StoresWanted`), and that, unless
  two stores of the lifetime cross, one request at most is about to tell the
  service and has stored what it will tell (`OneTells`). `VettedAsWhole` follows
  from `StoresVetted`; that a request stores all it asked for is not claimed, as
  one that fails midway does not.
* `Tickets`: a ticket is with one request for it, in the map, or with one request
  that found it good, and once it opened a socket it is nowhere (`OnePlace`).
  `TicketsBounded` and `PaysItself` are about the ticket that makes room when the
  table is full: an oldest one exists because a finite set of numbers has a
  least.
* `Providers`: that a tested provider was tested as it is (`TestedCurrent`) needs
  what an administrator knows: one at a time is past `policyMu` (`OneInside`),
  what it read still holds when it writes (`Holds`), no ID is used twice
  (`IdsSpent`), and a provider being created is nobody else's business
  (`CreatedAlone`). `OnlyTestsLockOut` follows from `Holds`.
* `Sso`: a state is with the browser, among those that wait, or with one callback
  that took it, and has led to no session while it is (`OneVisit`); a code is on
  the shelf until it is collected (`OneCode`).
* `Accounts`: `AccInv` says what a request holds at each of its steps: it is inside
  the gate exactly while it hashes, or reads the row of a login before it does,
  and the database connection is a flow's exactly while that is a bootstrap that
  has begun. Steps are proved in two halves, what they do to the flows and the
  gate (`FlowsRight`) and to the users and sessions (`TablesRight`).
* `LoginLimit`: `LimitInv` is type and bounds of the two tables. What it takes to
  make room in a full one (`RoomKept`) and to note a failure (`FailureRight`)
  gives the bounds, `LockHolds` and `SlowHolds` at once: the entry that goes is
  never a locked one while another can.
* `Catalog`: `OursInv` says that a row which a caller saw as the manager's, or that
  it is to take out, is the manager's as long as it is there, which is why
  a pass or a disconnect that works on an old list touches no row of others.
  `CatalogInv` carries the rest. While no secrets or disconnects overlap and no
  disconnect has failed (`~mixed`), a disconnect is alone (`Alone`), there is one
  account at most (`AccountsRight`), and the stored secret authenticates unless it
  was torn from its key, or the only one about to be stored does (`SecretsRight`).
  `PassRight` says how far the pass that holds `reconcileMu` has come: an instance
  that is done has a row that no later step touches, every other row is as it was
  listed, and what stands for no instance is dropped or still to be. `Fresh` and
  `Reached` then tie the rows to the instances of now: either a pass is still to
  come or has yet to read what it works with (`Behind`), or a change was not told
  or a result not written down (`slips`), or the rows are what they have to be.
  `CatalogKept` needs `~Masks`: a pass rewrites a row only where it sees a
  difference, and a proxy that hides keys shows none, so an old secret stays in
  the rows. Of the constants it takes that `None` is no row, key list or caller.
* `Imports`: a row with its instance belongs to a request past its last step, or
  to a clean-up, so what a pass has read can only have lost its model or its
  instance meanwhile (`ImpInv`); a model that a row owns was made for that
  row's job, and once. `CleanupOwnModel` is the second half of it. A
  request whose undo went through (`"failed"`) has left nothing, one that is still
  at it or was broken off in it holds what it made (`Held`).
* `Instances`: the argument of *Keys*, with more than one writer. From its commit
  until a writer has forgotten the entry nothing is said of it, and otherwise the
  entry is not there or agrees with the row (`CacheRight`), where an instance that was
  enabled in the table alone may still be disabled in it (`Agrees`); a read that
  still has the present generation has the row, and so has a writer that is about
  to tell (`WorkRight`), as long as no second writer is at the instance (`Fine`).
  The slugs follow the entries (`Leading`).
* `Discovery`: a fingerprint is never given again, so what is known under an older
  one is not taken for what the file holds now (`Right`, `ReadRight`), and a scan
  to which nothing happened offers what it is done with of what is there
  (`QuietRight`). `GivenKept` is about the context length a user gave, which no
  refresh replaces.
* `ModelFiles`: a directory is there with its parent and a file with its directory
  (`Tree`), a model that is gone refers to nothing (`Bare`), a file that is about
  to be unlinked belongs to the model being deleted or to one that came late
  (`OneOwner`), and of what was planned only what is left or was downloaded
  again is there (`PlanGone`). The directories above a path are the intersection of
  all sets that are closed under the parent, so nothing about them needs an
  induction. Proving it showed that the quantifier in the guard of `LookAt` took
  in the assignment after it, which left `making` open without models; it no
  longer does.

Only model-checked:

* of `GatewaySafe` what relates rows, buffer and flushers (`NothingLost`,
  `ExitFlushed`), the registry, the index and the gauges, and `ChunksAgree` of the
  usage collector; the searches of `PlansHold`. `ChunksAgree` and the searches are
  about what a recursion over data computes, for which the library's induction
  cannot be used and every law has to be shown by a smallest counterexample, as
  those in `Sums` are;
* `FeedRight` and `OccupiedSpared`;
* `WithinLimit` with several jobs for one artifact, which no run claims either;
* `NothingLeft`, `Handover` and `StopSticks`, which hold only for certain casts;
* liveness and whatever speaks of ENABLED.

## Not modelled

Within `Lifecycle`: the `enabled` and `autoload` settings and database errors
(early refusals before anything changes), the startup barrier and orphan
blocks (they are in `Recovery`), the global queue limit (a sum over instances),
an error of `sup.Kill`, a hardware snapshot failing in the middle of an
eviction, and model-wide start and stop, which loop over instances. A manager
without hardware snapshots is `Managed = FALSE`.

Within `Supervisor`: log rings, arguments, ports, `Shutdown` (a `Stop` of every
worker). Within `Planning`: explicit bytes per device,
a tensor split that does not parse (`scheduler/placement.go:220`), and a victim
that cannot be stopped or a snapshot that fails after it was
(`lifecycle/runtime_launch.go:137-146`), all of which only end the launch.
An aborted claim is one section in `Lifecycle` and two in the code
(`lifecycle/service.go:747-750`). Within `Gateway`: bodies,
their rewriting and streaming, and what a record holds besides its identity and
its end. Within `Feed`: hardware samples and what a websocket does with an
event. Within `KeyAccess`: the instances a key is allowed and the text of keys. Within
`Accounts`, a session opened by a login that verified the old password before a
change is exempt from `SessionsCurrent`.
Within `LoginLimit`: which headers a proxy is trusted for. Within `Sso`: tokens
and their verification, which are inputs. Within `Discovery`: the GGUF format.

Whole components: the web UI; the API handlers that only call a service, and the
OpenAPI document; reports over the observability tables, which change nothing;
probes and estimates of hardware, which the ledger and the planner take as
inputs; the parsing of binaries' help, options and benchmark workloads, which is
data; the Hugging Face client, which `Downloads` and `Imports` see as what it
offers; configuration, migrations.

## Plan

1. Several instances composed with the ledger, so that the eviction of one is the
   action of another: two copies of `Lifecycle` over one `Ledger`, small enough
   for TLC only with the request path reduced.
2. An abstract specification of the lifecycle, an exclusive slot per instance
   (one worker, one lease, loads and stops serialised), implemented by
   `Lifecycle` for the casts in which the findings do not bite.
3. Proofs: `NothingLost` and the registry of `GatewaySafe`; `NothingLeft` and
   `Handover` of the lifecycle's other casts, which rest on the same invariants
   with users among the threads.
4. The backoff schedule and the estimates as functions against reference
   definitions.
